---------------------------- MODULE VaultProofs ----------------------------
(***************************************************************************)
(* Proofs about Vault: what the database holds and what its answers say,   *)
(* for every number of clients, workers, requests and faults.              *)
(***************************************************************************)
EXTENDS Vault, SequenceTheorems, TLAPS

\* A line fits its operation, and only who is logged in asks for one.
LineInv == \A n \in 1..Len(req) :
             /\ <<req[n].name, req[n].pw>> \in Lines(req[n].op)
             /\ req[n].op \in Operations => req[n].user # 0

\* A request under way is not answered, and in the hands of one worker; where
\* it is tells its operation, and whether its record is still to be made.
Fits(op, pc) == /\ pc = "parse" => op \in Parsed
                /\ pc = "lookup" => op = add
                /\ pc = "record" => op \in {get, add, edit}
                /\ pc = "delete" => op = del
WorkInv == \A w \in Workers : work[w].at # "idle" =>
             /\ work[w].n \in 1..Len(req) /\ work[w].n \notin DOMAIN ans
             /\ \A v \in Workers : v # w => work[v].n # work[w].n
             /\ Fits(Op(w), work[w].at)

\* Seen answers are answers.
SeenInv == \A n \in 1..Len(req) : req[n].seen \subseteq DOMAIN ans

\* A handler's buf holds its own latest line, and the words copied from it are
\* those of the request or of one that overwrites it.
Named(n, m) == m = n \/ Overwrites(m, n)
TextInv == /\ \A n \in 1..Len(req) :
                LET b == buf[req[n].op]
                IN b \in 1..Len(req) /\ b >= n /\ req[b].op = req[n].op
           /\ \A w \in Workers : work[w].at \notin {"idle", "parse"} /\ Op(w) \in Parsed =>
                work[w].line \in 1..Len(req) /\ Named(work[w].n, work[w].line)
-----------------------------------------------------------------------------
(***************************************************************************)
(* What the operators do.                                                  *)
(***************************************************************************)

\* A query that the program knows to have worked has taken effect; nothing
\* takes effect on a connection that is broken, and it stays broken.
LEMMA QueryEffect ==
  ASSUME TypeOK, NEW w \in Workers, NEW accepted, NEW did \in BOOLEAN, NEW fine \in BOOLEAN,
         Query(w, accepted, did, fine)
  PROVE  /\ fine => did
         /\ did => accepted /\ conn[w] = "up"
         /\ ~fine /\ accepted => conn'[w] = "bad"
         /\ conn[w] # "up" => conn'[w] = "bad"
         /\ \A v \in Workers : v # w => conn'[v] = conn[v]
         /\ conn' \in [Workers -> {"up", "dead", "bad"}] /\ faults' \in 0..MaxFaults
<1> USE VaultAssumption DEF VaultAssumption
<1>1. conn \in [Workers -> {"up", "dead", "bad"}] /\ faults \in 0..MaxFaults
  BY DEF TypeOK
<1> QED
  BY <1>1 DEF Query

Places == {"lookup", "check", "query", "record", "delete"}

\* Goto changes one worker and keeps its request.
LEMMA GotoEffect ==
  ASSUME TypeOK, NEW w \in Workers, work[w].at # "idle",
         NEW pc \in Places, NEW fine \in BOOLEAN, NEW row \in Nat,
         Goto(w, pc, fine, row)
  PROVE  /\ work' \in [Workers -> Work]
         /\ work'[w] = [n |-> work[w].n, line |-> work[w].line, at |-> pc,
                        clean |-> work[w].clean /\ fine, row |-> row]
         /\ \A v \in Workers : v # w => work'[v] = work[v]
<1>1. work[w] \in Work
  BY DEF TypeOK
<1>2. work'[w] = [n |-> work[w].n, line |-> work[w].line, at |-> pc,
                  clean |-> work[w].clean /\ fine, row |-> row]
  BY <1>1 DEF TypeOK, Goto, Work
<1>3. \A v \in Workers : v # w => work'[v] = work[v]
  BY DEF TypeOK, Goto
<1>4. work'[w] \in Work
  BY <1>1, <1>2 DEF Work, Places
<1> QED
  BY <1>2, <1>3, <1>4 DEF TypeOK, Goto

\* Parse changes the line and the place of one worker.
LEMMA ParseEffect ==
  ASSUME TypeOK, LineInv, WorkInv, TextInv, NEW w \in Workers, Parse(w)
  PROVE  /\ work[w].at = "parse" /\ Op(w) \in Parsed
         /\ buf[Op(w)] \in 1..Len(req) /\ buf[Op(w)] >= work[w].n
         /\ req[buf[Op(w)]].op = Op(w)
         /\ work' \in [Workers -> Work]
         /\ work'[w] = [n |-> work[w].n, line |-> buf[Op(w)],
                        at |-> IF Op(w) = add THEN "lookup" ELSE "check",
                        clean |-> work[w].clean, row |-> work[w].row]
         /\ \A v \in Workers : v # w => work'[v] = work[v]
         /\ UNCHANGED <<users, data, txn, conn, user, buf, req, ans, faults>>
<1>1. work[w] \in Work /\ work[w].at = "parse"
  BY DEF TypeOK, Parse, At
<1>2. Op(w) \in Parsed /\ work[w].n \in 1..Len(req)
  BY <1>1 DEF WorkInv, Fits
<1>3. buf[Op(w)] \in 1..Len(req) /\ buf[Op(w)] >= work[w].n /\ req[buf[Op(w)]].op = Op(w)
  BY <1>2 DEF TextInv, Op, Req
<1>4. Len(req) \in Nat
  BY DEF TypeOK
<1> DEFINE b == buf[Op(w)]
           pc == IF Op(w) = add THEN "lookup" ELSE "check"
<1>5. b \in Nat /\ pc \in Places
  BY <1>3, <1>4 DEF Places
<1>6. work' = [work EXCEPT ![w].line = b, ![w].at = pc]
  BY DEF Parse
<1>7. work'[w] = [n |-> work[w].n, line |-> b, at |-> pc, clean |-> work[w].clean, row |-> work[w].row]
  <2> HIDE DEF b, pc
  <2> QED
    BY <1>1, <1>5, <1>6 DEF TypeOK, Work
<1>8. work'[w] \in Work
  <2> HIDE DEF b, pc
  <2> QED
    BY <1>1, <1>5, <1>7 DEF Work, Places
<1>9. (\A v \in Workers : v # w => work'[v] = work[v]) /\ work' \in [Workers -> Work]
  <2> HIDE DEF b, pc
  <2> QED
    BY <1>6, <1>8 DEF TypeOK
<1>10. UNCHANGED <<users, data, txn, conn, user, buf, req, ans, faults>>
  BY DEF Parse, database, history
<1> QED
  BY <1>1, <1>2, <1>3, <1>7, <1>9, <1>10

\* Answer answers the request of one worker, which is idle then.
LEMMA AnswerEffect ==
  ASSUME TypeOK, NEW w \in Workers, work[w].at # "idle", NEW res \in Int, NEW fine \in BOOLEAN,
         NEW row \in Nat, Answer(w, res, fine, row)
  PROVE  /\ work' \in [Workers -> Work]
         /\ work'[w] = Idle
         /\ \A v \in Workers : v # w => work'[v] = work[v]
         /\ DOMAIN ans' = DOMAIN ans \cup {work[w].n}
         /\ ans'[work[w].n] = [res |-> res, clean |-> work[w].clean /\ fine, row |-> row]
         /\ \A n \in DOMAIN ans : n # work[w].n => ans'[n] = ans[n]
         /\ \A n \in DOMAIN ans' : ans'[n] \in [res : Int, clean : BOOLEAN, row : Nat]
<1>1. work[w] \in Work /\ Idle \in Work
  BY DEF TypeOK, Idle, Work
<1>2. work' = [work EXCEPT ![w] = Idle]
  BY DEF Answer
<1>3. ans' = With(ans, work[w].n, [res |-> res, clean |-> work[w].clean /\ fine, row |-> row])
  BY DEF Answer
<1>4. /\ work'[w] = Idle
      /\ \A v \in Workers : v # w => work'[v] = work[v]
      /\ work' \in [Workers -> Work]
  BY <1>1, <1>2 DEF TypeOK
<1> DEFINE r == [res |-> res, clean |-> work[w].clean /\ fine, row |-> row]
<1>5. r \in [res : Int, clean : BOOLEAN, row : Nat]
  BY <1>1 DEF Work
<1>6. /\ DOMAIN ans' = DOMAIN ans \cup {work[w].n}
      /\ ans'[work[w].n] = r
      /\ \A n \in DOMAIN ans : n # work[w].n => ans'[n] = ans[n]
  BY <1>3 DEF With
<1>7. \A n \in DOMAIN ans' : ans'[n] \in [res : Int, clean : BOOLEAN, row : Nat]
  BY <1>5, <1>6 DEF TypeOK
<1> QED
  BY <1>4, <1>6, <1>7
-----------------------------------------------------------------------------
(***************************************************************************)
(* The shape of a step: a worker's request goes on or is answered.         *)
(***************************************************************************)

Moves(w) == /\ work' \in [Workers -> Work] /\ \A v \in Workers : v # w => work'[v] = work[v]
            /\ work'[w].n = work[w].n /\ work'[w].at # "idle" /\ Fits(Op(w), work'[w].at)
            /\ UNCHANGED <<user, ans>>

Replies(w) == \E res \in Int, fine \in BOOLEAN, row \in Nat :
                Answer(w, res, fine, row) /\ (LogsIn(Op(w), res) => res \in 1..Len(users'))

\* users only grows, and a user keeps the name and the registration.
UsersGrow == /\ users' \in Seq(User) /\ Len(users') >= Len(users)
             /\ \A i \in 1..Len(users) : users'[i].name = users[i].name /\ users'[i].by = users[i].by

\* The rows of a table are those of requests.
RowsFit(table) == \A n \in DOMAIN table : n \in 1..Len(req) /\ table[n] \in Texts

Shape(w) == /\ req' = req /\ buf' = buf /\ work[w].at # "idle"
            /\ Moves(w) \/ Replies(w)
            /\ UsersGrow
            /\ RowsFit(data') /\ RowsFit(txn')
            /\ conn' \in [Workers -> {"up", "dead", "bad"}] /\ faults' \in 0..MaxFaults
            /\ \A v \in Workers : v # w => conn'[v] = conn[v]

LEMMA Operation ==
  /\ registration \in Int /\ authentification \in Int /\ disconnect \in Int /\ existing \in Int
  /\ bad_auth \in Int /\ not_exist \in Int /\ SUCCESS \in Int
  BY DEF registration, authentification, disconnect, existing, bad_auth, not_exist, SUCCESS

\* A failure, and the result of an operation, log nobody in.
LEMMA NoLogin ==
  ASSUME NEW op, NEW r, LogsIn(op, r)
  PROVE  /\ op \in {registration, authentification}
         /\ op = registration => r # existing
         /\ op = authentification => r # bad_auth
         /\ r # disconnect
  BY DEF LogsIn, registration, authentification

LEMMA UsersSame ==
  ASSUME TypeOK, users' = users
  PROVE  UsersGrow
  BY DEF UsersGrow, TypeOK

\* The request of a worker.
LEMMA RequestType ==
  ASSUME TypeOK, LineInv, WorkInv, NEW w \in Workers, work[w].at # "idle"
  PROVE  /\ work[w].n \in 1..Len(req) /\ work[w].n \notin DOMAIN ans
         /\ Req(w) \in Request /\ Req(w).user <= Len(users)
         /\ Op(w) \in Operations => Req(w).user \in 1..Len(users)
         /\ Op(w) \in Queries /\ Fits(Op(w), work[w].at)
<1>1. work[w].n \in 1..Len(req) /\ work[w].n \notin DOMAIN ans /\ Fits(Op(w), work[w].at)
  BY DEF WorkInv
<1>2. /\ Req(w) \in Request /\ Req(w).user <= Len(users)
      /\ Op(w) \in Operations => Req(w).user # 0
  <2>1. req \in Seq(Request) /\ Req(w) = req[work[w].n]
    BY DEF TypeOK, Req
  <2>2. Req(w) \in Request
    BY <1>1, <2>1
  <2> QED
    BY <1>1, <2>2 DEF TypeOK, LineInv, Req, Op
<1>3. Op(w) \in Queries /\ Req(w).user \in Nat /\ Len(users) \in Nat
  BY <1>2 DEF Request, Op, TypeOK
<1> QED
  BY <1>1, <1>2, <1>3

\* A handler's buf holds the line of a worker's request or of a later one.
LEMMA BufNamed ==
  ASSUME TypeOK, LineInv, WorkInv, SeenInv, TextInv, NEW w \in Workers, work[w].at # "idle"
  PROVE  /\ buf[Op(w)] \in 1..Len(req) /\ req[buf[Op(w)]].op = Op(w)
         /\ Named(work[w].n, buf[Op(w)])
<1>1. work[w].n \in 1..Len(req) /\ work[w].n \notin DOMAIN ans /\ Op(w) = req[work[w].n].op
  BY DEF WorkInv, Op, Req
<1> DEFINE b == buf[Op(w)]
<1>2. b \in 1..Len(req) /\ b >= work[w].n /\ req[b].op = Op(w)
  BY <1>1 DEF TextInv
<1>3. work[w].n \notin req[b].seen
  BY <1>1, <1>2 DEF SeenInv
<1>4. Len(req) \in Nat
  BY DEF TypeOK
<1> HIDE DEF b
<1>5. b = work[w].n \/ b > work[w].n
  BY <1>1, <1>2, <1>4
<1>6. Named(work[w].n, b)
  BY <1>1, <1>2, <1>3, <1>5 DEF Named, Overwrites
<1> QED
  BY <1>2, <1>6 DEF b

\* The line that a query is made from.
LEMMA TextType ==
  ASSUME TypeOK, LineInv, WorkInv, SeenInv, TextInv, NEW w \in Workers,
         work[w].at \notin {"idle", "parse"}
  PROVE  /\ Source(w) \in 1..Len(req) /\ Named(work[w].n, Source(w))
         /\ Text(w) \in Request /\ Text(w).op = Op(w)
         /\ Text(w).name \in Texts
         /\ Op(w) \in {registration, authentification} =>
              Text(w).name \in Names /\ Text(w).pw \in Passwords
         /\ Op(w) = edit => Text(w).pw \in Passwords
         /\ Own(work[w].n) => Source(w) = work[w].n /\ Text(w) = Req(w)
<1> USE VaultAssumption DEF VaultAssumption
<1>1. Source(w) \in 1..Len(req) /\ Named(work[w].n, Source(w))
  <2>1. CASE Op(w) \in Parsed
    BY <2>1 DEF Source, TextInv
  <2>2. CASE Op(w) \notin Parsed
    BY <2>2, BufNamed DEF Source
  <2> QED
    BY <2>1, <2>2
<1>2. Text(w).op = Op(w)
  BY <1>1 DEF Text, Named, Overwrites, Op, Req
<1>3. Text(w) \in Request /\ <<Text(w).name, Text(w).pw>> \in Lines(Op(w))
  BY <1>1, <1>2 DEF TypeOK, LineInv, Text
<1>4. ASSUME Op(w) \in {registration, authentification}
      PROVE  Text(w).name \in Names /\ Text(w).pw \in Passwords
  <2>1. <<Text(w).name, Text(w).pw>> \in Credentials
    BY <1>3, <1>4 DEF Lines
  <2> QED
    BY <2>1
<1>5. ASSUME Op(w) = edit
      PROVE  Text(w).pw \in Passwords
  <2>1. <<Text(w).name, Text(w).pw>> \in {<<p, p>> : p \in NewPasswords}
    BY <1>3, <1>5 DEF Lines, edit, registration, authentification
  <2> QED
    BY <2>1
<1>6. Own(work[w].n) => Source(w) = work[w].n /\ Text(w) = Req(w)
  BY <1>1 DEF Own, Named, Text, Req
<1>7. Text(w).name \in Texts
  BY <1>3 DEF Request
<1> QED
  BY <1>1, <1>2, <1>3, <1>4, <1>5, <1>6, <1>7

LEMMA GotoMoves ==
  ASSUME TypeOK, NEW w \in Workers, work[w].at # "idle",
         NEW pc \in Places, NEW fine \in BOOLEAN, NEW row \in Nat,
         Goto(w, pc, fine, row), Fits(Op(w), pc), UNCHANGED <<user, ans>>
  PROVE  Moves(w)
<1>1. /\ work' \in [Workers -> Work]
      /\ work'[w] = [n |-> work[w].n, line |-> work[w].line, at |-> pc,
                     clean |-> work[w].clean /\ fine, row |-> row]
      /\ \A v \in Workers : v # w => work'[v] = work[v]
  BY GotoEffect
<1>2. work'[w].n = work[w].n /\ work'[w].at = pc /\ pc # "idle"
  BY <1>1 DEF Places
<1> QED
  BY <1>1, <1>2 DEF Moves

\* Tables with a row more, and with rows less.
LEMMA WithRow ==
  ASSUME TypeOK, NEW f, RowsFit(f), NEW k \in 1..Len(req), NEW name \in Texts
  PROVE  RowsFit(With(f, k, name))
  BY DEF RowsFit, With

LEMMA LessRows ==
  ASSUME TypeOK, NEW f, RowsFit(f), NEW S
  PROVE  RowsFit(Restrict(f, DOMAIN f \ S))
  BY DEF RowsFit, Restrict

LEMMA TablesFit ==
  ASSUME TypeOK
  PROVE  RowsFit(data) /\ RowsFit(txn)
  BY DEF TypeOK, RowsFit

\* A step with one query has the shape if its answer and its tables do.
LEMMA QueryShape ==
  ASSUME TypeOK, NEW w \in Workers, work[w].at # "idle", req' = req, buf' = buf,
         Moves(w) \/ Replies(w), UsersGrow, RowsFit(data'), RowsFit(txn'),
         NEW accepted, NEW did \in BOOLEAN, NEW fine \in BOOLEAN, Query(w, accepted, did, fine)
  PROVE  Shape(w)
<1>1. /\ \A v \in Workers : v # w => conn'[v] = conn[v]
      /\ conn' \in [Workers -> {"up", "dead", "bad"}] /\ faults' \in 0..MaxFaults
  BY QueryEffect
<1> QED
  BY <1>1 DEF Shape

LEMMA ParseShape ==
  ASSUME TypeOK, LineInv, WorkInv, SeenInv, TextInv, NEW w \in Workers, Parse(w)
  PROVE  Shape(w)
<1> DEFINE pc == IF Op(w) = add THEN "lookup" ELSE "check"
<1>1. /\ work[w].at = "parse"
      /\ work' \in [Workers -> Work] /\ \A v \in Workers : v # w => work'[v] = work[v]
      /\ work'[w] = [n |-> work[w].n, line |-> buf[Op(w)], at |-> pc,
                     clean |-> work[w].clean, row |-> work[w].row]
      /\ UNCHANGED <<users, data, txn, conn, user, buf, req, ans, faults>>
  BY ParseEffect
<1>2. work'[w].n = work[w].n /\ work'[w].at = pc
  BY <1>1
<1>3. Moves(w)
  BY <1>1, <1>2 DEF Moves, Fits
<1>4. conn' \in [Workers -> {"up", "dead", "bad"}] /\ faults' \in 0..MaxFaults
  BY <1>1 DEF TypeOK
<1> QED
  BY <1>1, <1>3, <1>4, UsersSame, TablesFit DEF Shape

LEMMA LookupShape ==
  ASSUME TypeOK, LineInv, WorkInv, SeenInv, TextInv, NEW w \in Workers, Lookup(w)
  PROVE  Shape(w)
<1>1. PICK fine \in BOOLEAN :
        /\ Select(w, fine)
        /\ IF fine /\ Rows(w) # {}
           THEN Answer(w, existing, fine, 0)
           ELSE Goto(w, "check", fine, 0) /\ UNCHANGED <<user, ans>>
  BY DEF Lookup
<1>2. work[w].at = "lookup" /\ Op(w) = add
  BY RequestType DEF Lookup, At, Fits
<1>3. PICK did \in BOOLEAN : Query(w, TRUE, did, fine)
  BY <1>1 DEF Select
<1>4. Moves(w) \/ Replies(w)
  <2>1. CASE fine /\ Rows(w) # {}
    <3>1. ~LogsIn(Op(w), existing)
      BY <1>2, NoLogin DEF add, registration, authentification
    <3> QED
      BY <1>1, <2>1, <3>1, Operation DEF Replies
  <2>2. CASE ~(fine /\ Rows(w) # {})
    <3>1. Fits(Op(w), "check") /\ "check" \in Places
      BY DEF Fits, Places
    <3> QED
      BY <1>1, <1>2, <2>2, <3>1, GotoMoves
  <2> QED
    BY <2>1, <2>2
<1>5. UNCHANGED <<users, data, txn, buf, req>>
  BY DEF Lookup, database
<1> QED
  BY <1>2, <1>3, <1>4, <1>5, QueryShape, UsersSame, TablesFit

LEMMA ReconnectShape ==
  ASSUME TypeOK, LineInv, WorkInv, SeenInv, TextInv, NEW w \in Workers, Reconnect(w)
  PROVE  Shape(w)
<1>1. /\ work[w].at = "check"
      /\ \/ conn' = [conn EXCEPT ![w] = "up"] /\ Goto(w, "query", TRUE, 0) /\ UNCHANGED <<user, ans>>
         \/ Answer(w, disconnect, FALSE, 0) /\ UNCHANGED conn
      /\ UNCHANGED <<users, data, txn, buf, req, faults>>
  BY DEF Reconnect, At, database
<1>2. Fits(Op(w), "query") /\ "query" \in Places
  BY DEF Fits, Places
<1>3. Goto(w, "query", TRUE, 0) /\ UNCHANGED <<user, ans>> => Moves(w)
  BY <1>1, <1>2, GotoMoves
<1>4. Answer(w, disconnect, FALSE, 0) => Replies(w)
  BY NoLogin, Operation DEF Replies
<1>5. conn' \in [Workers -> {"up", "dead", "bad"}] /\ \A v \in Workers : v # w => conn'[v] = conn[v]
  BY <1>1 DEF TypeOK
<1>6. faults' \in 0..MaxFaults
  BY <1>1 DEF TypeOK
<1> QED
  BY <1>1, <1>3, <1>4, <1>5, <1>6, UsersSame, TablesFit DEF Shape

\* The query of a handler, when the connection has been looked at.
LEMMA AskedAt ==
  ASSUME TypeOK, LineInv, WorkInv, NEW w \in Workers, NEW op, Asks(w, op)
  PROVE  work[w].at \in {"check", "query"} /\ Op(w) = op
  BY DEF Asks, Checked, At

\* A row of users with the hash h, written by request n.
Hashed(row, h, n) == [row EXCEPT !.pw = h, !.set = n]

LEMMA HashedRow ==
  ASSUME NEW row \in User, NEW h, NEW n
  PROVE  Hashed(row, h, n) = [name |-> row.name, pw |-> h, by |-> row.by, set |-> n]
<1>1. PICK a, b, c, d : row = [name |-> a, pw |-> b, by |-> c, set |-> d]
  BY DEF User
<1>2. [row EXCEPT !.pw = h] = [name |-> a, pw |-> h, by |-> c, set |-> d]
  BY <1>1
<1>3. ASSUME NEW r, r = [name |-> a, pw |-> h, by |-> c, set |-> d]
      PROVE  [r EXCEPT !.set = n] = [name |-> a, pw |-> h, by |-> c, set |-> n]
  BY <1>3
<1>4. Hashed(row, h, n) = [[row EXCEPT !.pw = h] EXCEPT !.set = n]
  BY DEF Hashed
<1>5. row.name = a /\ row.by = c
  BY <1>1
<1> QED
  BY <1>2, <1>3, <1>4, <1>5

\* How the table users changes.
LEMMA RegisterUsers ==
  ASSUME TypeOK, LineInv, WorkInv, SeenInv, TextInv, NEW w \in Workers, Register(w)
  PROVE  /\ work[w].at \in {"check", "query"} /\ Op(w) = registration
         /\ \E h \in {Text(w).pw, NoHash}, did \in BOOLEAN, fine \in BOOLEAN :
              /\ Query(w, /\ Text(w).name \notin Long
                          /\ \A i \in 1..Len(users) : users[i].name # Text(w).name, did, fine)
              /\ users' = IF did THEN Append(users, [name |-> Text(w).name, pw |-> h,
                                                     by |-> work[w].n, set |-> work[w].n])
                                 ELSE users
              /\ Answer(w, IF fine THEN Len(users) + 1 ELSE existing, fine /\ h # NoHash, 0)
         /\ UNCHANGED <<data, txn, buf, req>>
  BY AskedAt DEF Register, make_hash

LEMMA UpdateUsers ==
  ASSUME TypeOK, LineInv, WorkInv, SeenInv, TextInv, NEW w \in Workers, Update(w)
  PROVE  /\ work[w].at \in {"check", "query"} /\ Op(w) = edit
         /\ \E h \in {Text(w).pw, NoHash}, did \in BOOLEAN, fine \in BOOLEAN :
              /\ Query(w, TRUE, did, fine)
              /\ users' = IF did THEN [users EXCEPT ![Req(w).user] =
                                         Hashed(users[Req(w).user], h, work[w].n)] ELSE users
              /\ Goto(w, "record", fine /\ h # NoHash, 0)
         /\ UNCHANGED <<data, txn, user, buf, req, ans>>
  BY AskedAt DEF Update, make_hash, Hashed, history

LEMMA RegisterShape ==
  ASSUME TypeOK, LineInv, WorkInv, SeenInv, TextInv, NEW w \in Workers, Register(w)
  PROVE  Shape(w)
<1>1. /\ work[w].at \in {"check", "query"} /\ Op(w) = registration
      /\ UNCHANGED <<data, txn, buf, req>>
  BY RegisterUsers
<1>2. PICK h \in {Text(w).pw, NoHash}, did \in BOOLEAN, fine \in BOOLEAN :
              /\ Query(w, /\ Text(w).name \notin Long
                          /\ \A i \in 1..Len(users) : users[i].name # Text(w).name, did, fine)
              /\ users' = IF did THEN Append(users, [name |-> Text(w).name, pw |-> h,
                                                     by |-> work[w].n, set |-> work[w].n])
                                 ELSE users
              /\ Answer(w, IF fine THEN Len(users) + 1 ELSE existing, fine /\ h # NoHash, 0)
  BY RegisterUsers
<1>3. (fine => did) /\ (did => Text(w).name \notin Long)
  BY <1>2, QueryEffect
<1>4. users \in Seq(User) /\ Len(users) \in Nat
  BY DEF TypeOK
<1>5. UsersGrow /\ (fine => Len(users') = Len(users) + 1)
  <2>1. CASE did
    <3> DEFINE row == [name |-> Text(w).name, pw |-> h, by |-> work[w].n, set |-> work[w].n]
    <3>1. row \in User
      <4>1. Text(w).name \in Names \ Long /\ h \in Passwords \cup {NoHash}
        BY <1>1, <1>2, <1>3, <2>1, TextType
      <4>2. work[w].n \in Nat
        BY DEF TypeOK, Work
      <4> QED
        BY <4>1, <4>2 DEF User
    <3>2. users' = Append(users, row)
      BY <1>2, <2>1
    <3> HIDE DEF row
    <3> QED
      BY <1>4, <2>1, <3>1, <3>2 DEF UsersGrow
  <2>2. CASE ~did
    BY <1>2, <1>3, <2>2, UsersSame
  <2> QED
    BY <2>1, <2>2
<1>6. Replies(w)
  <2>1. CASE fine
    <3>1. Len(users) + 1 \in Int /\ Len(users) + 1 \in 1..Len(users')
      BY <1>4, <1>5, <2>1
    <3>2. Answer(w, Len(users) + 1, h # NoHash, 0)
      BY <1>2, <2>1
    <3> QED
      BY <3>1, <3>2 DEF Replies
  <2>2. CASE ~fine
    <3>1. Answer(w, existing, FALSE, 0) /\ existing \in Int
      BY <1>2, <2>2, Operation
    <3> QED
      BY <1>1, <3>1, NoLogin DEF Replies
  <2> QED
    BY <2>1, <2>2
<1> QED
  BY <1>1, <1>2, <1>5, <1>6, QueryShape, TablesFit

LEMMA LoginShape ==
  ASSUME TypeOK, LineInv, WorkInv, SeenInv, TextInv, NEW w \in Workers, Login(w)
  PROVE  Shape(w)
<1>1. work[w].at # "idle" /\ Op(w) = authentification
  BY AskedAt DEF Login
<1>2. PICK fine \in BOOLEAN :
       /\ Select(w, fine)
       /\ \/ \E i \in 1..Len(users) : Answer(w, i, fine, users[i].set)
          \/ Answer(w, bad_auth, fine, 0)
  BY DEF Login
<1>3. PICK did \in BOOLEAN : Query(w, TRUE, did, fine)
  BY <1>2 DEF Select
<1>4. UNCHANGED <<users, data, txn, buf, req>>
  BY DEF Login, database
<1>5. Replies(w)
  <2>1. CASE Answer(w, bad_auth, fine, 0)
    BY <1>1, <2>1, NoLogin, Operation DEF Replies
  <2>2. CASE \E i \in 1..Len(users) : Answer(w, i, fine, users[i].set)
    <3>1. \A i \in 1..Len(users) : users[i].set \in Nat /\ i \in Int
      <4>1. \A i \in 1..Len(users) : users[i] \in User /\ i \in Int
        BY DEF TypeOK
      <4> QED
        BY <4>1 DEF User
    <3> QED
      BY <1>4, <2>2, <3>1 DEF Replies
  <2> QED
    BY <1>2, <2>1, <2>2
<1> QED
  BY <1>1, <1>3, <1>4, <1>5, QueryShape, UsersSame, TablesFit

\* The rows a query finds are numbers of requests.
LEMMA RowsNumbers ==
  ASSUME TypeOK, NEW w \in Workers, NEW n \in Rows(w)
  PROVE  n \in DOMAIN data /\ n \in 1..Len(req) /\ n \in Nat
<1>1. n \in DOMAIN data /\ n \in 1..Len(req) /\ Len(req) \in Nat
  BY DEF Rows, TypeOK
<1> QED
  BY <1>1

LEMMA FindShape ==
  ASSUME TypeOK, LineInv, WorkInv, SeenInv, TextInv, NEW w \in Workers, Find(w)
  PROVE  Shape(w)
<1>1. work[w].at # "idle" /\ Op(w) = get
  BY AskedAt DEF Find
<1>2. PICK fine \in BOOLEAN :
       /\ Select(w, fine)
       /\ \/ \E n \in Rows(w) : Goto(w, "record", fine, n) /\ UNCHANGED <<user, ans>>
          \/ Answer(w, not_exist, fine, 0)
  BY DEF Find
<1>3. PICK did \in BOOLEAN : Query(w, TRUE, did, fine)
  BY <1>2 DEF Select
<1>4. UNCHANGED <<users, data, txn, buf, req>>
  BY DEF Find, database
<1>5. Moves(w) \/ Replies(w)
  <2>1. CASE Answer(w, not_exist, fine, 0)
    <3>1. ~LogsIn(Op(w), not_exist)
      BY <1>1, NoLogin DEF get, registration, authentification
    <3> QED
      BY <2>1, <3>1, Operation DEF Replies
  <2>2. ASSUME NEW n \in Rows(w), Goto(w, "record", fine, n) /\ UNCHANGED <<user, ans>>
        PROVE  Moves(w)
    <3>1. Fits(Op(w), "record") /\ "record" \in Places /\ n \in Nat
      BY <1>1, RowsNumbers DEF Fits, Places, get
    <3> QED
      BY <1>1, <2>2, <3>1, GotoMoves
  <2> QED
    BY <1>2, <2>1, <2>2
<1> QED
  BY <1>1, <1>3, <1>4, <1>5, QueryShape, UsersSame, TablesFit

LEMMA InsertShape ==
  ASSUME TypeOK, LineInv, WorkInv, SeenInv, TextInv, NEW w \in Workers, Insert(w)
  PROVE  Shape(w)
<1>1. work[w].at \in {"check", "query"} /\ Op(w) = add /\ work[w].n \in 1..Len(req)
  BY AskedAt, RequestType DEF Insert
<1>2. PICK did \in BOOLEAN, fine \in BOOLEAN :
       /\ Query(w, Text(w).name \notin Long, did, fine)
       /\ data' = IF did THEN With(data, work[w].n, Text(w).name) ELSE data
       /\ Goto(w, "record", fine, 0)
  BY DEF Insert
<1>3. UNCHANGED <<users, txn, user, buf, req, ans>>
  BY DEF Insert, history
<1>4. RowsFit(data') /\ RowsFit(txn')
  <2>1. Text(w).name \in Texts
    BY <1>1, TextType
  <2> QED
    BY <1>1, <1>2, <1>3, <2>1, TablesFit, WithRow
<1>5. Moves(w)
  <2>1. Fits(Op(w), "record") /\ "record" \in Places
    BY <1>1 DEF Fits, Places
  <2> QED
    BY <1>1, <1>2, <1>3, <2>1, GotoMoves
<1> QED
  BY <1>1, <1>2, <1>3, <1>4, <1>5, QueryShape, UsersSame

LEMMA UpdateShape ==
  ASSUME TypeOK, LineInv, WorkInv, SeenInv, TextInv, NEW w \in Workers, Update(w)
  PROVE  Shape(w)
<1>1. /\ work[w].at \in {"check", "query"} /\ Op(w) = edit /\ Text(w).pw \in Passwords
      /\ UNCHANGED <<data, txn, user, buf, req, ans>>
  BY UpdateUsers, TextType
<1>2. PICK h \in {Text(w).pw, NoHash}, did \in BOOLEAN, fine \in BOOLEAN :
              /\ Query(w, TRUE, did, fine)
              /\ users' = IF did THEN [users EXCEPT ![Req(w).user] =
                                         Hashed(users[Req(w).user], h, work[w].n)] ELSE users
              /\ Goto(w, "record", fine /\ h # NoHash, 0)
  BY UpdateUsers
<1>5. Moves(w)
  <2>1. Fits(Op(w), "record") /\ (fine /\ h # NoHash) \in BOOLEAN /\ "record" \in Places
    BY <1>1 DEF Fits, Places
  <2> QED
    BY <1>1, <1>2, <2>1, GotoMoves
<1>6. UsersGrow
  <2>1. users \in Seq(User) /\ h \in Passwords \cup {NoHash} /\ work[w].n \in Nat
    BY <1>1, <1>2 DEF TypeOK, Work
  <2>2. CASE did
    <3> DEFINE u == Req(w).user
               row == Hashed(users[u], h, work[w].n)
    <3>1. users' = [users EXCEPT ![u] = row]
      BY <1>2, <2>2
    <3>2. u \in 1..Len(users)
      BY <1>1, RequestType DEF Operations, edit, get
    <3>3. users[u] \in User
      BY <2>1, <3>2
    <3>4. row = [name |-> users[u].name, pw |-> h, by |-> users[u].by, set |-> work[w].n]
      BY <3>3, HashedRow
    <3>5. row \in User /\ row.name = users[u].name /\ row.by = users[u].by
      BY <2>1, <3>3, <3>4 DEF User
    <3> HIDE DEF row, u
    <3>6. users' \in Seq(User) /\ Len(users') = Len(users)
      BY <2>1, <3>1, <3>2, <3>5
    <3>7. \A i \in 1..Len(users) : users'[i] = IF i = u THEN row ELSE users[i]
      BY <2>1, <3>1, <3>2
    <3> QED
      BY <2>1, <3>5, <3>6, <3>7 DEF UsersGrow
  <2>3. CASE ~did
    BY <1>2, <2>3, UsersSame
  <2> QED
    BY <2>2, <2>3
<1> QED
  BY <1>1, <1>2, <1>5, <1>6, QueryShape, TablesFit

LEMMA RecordShape ==
  ASSUME TypeOK, LineInv, WorkInv, SeenInv, TextInv, NEW w \in Workers, Record(w)
  PROVE  Shape(w)
<1>1. /\ work[w].at \notin {"idle", "parse"} /\ Op(w) \in {get, add, del, edit}
      /\ work[w].n \in 1..Len(req)
  BY AskedAt, RequestType DEF Record, At, Fits
<1>2. PICK did \in BOOLEAN, fine \in BOOLEAN :
       /\ Query(w, Text(w).name \notin Long, did, fine)
       /\ txn' = IF did THEN With(txn, work[w].n, Text(w).name) ELSE txn
       /\ IF Op(w) = del THEN Goto(w, "delete", fine, 0) /\ UNCHANGED <<user, ans>>
                         ELSE Answer(w, SUCCESS, fine, work[w].row)
  BY DEF Record
<1>3. UNCHANGED <<users, data, buf, req>>
  BY DEF Record
<1>4. RowsFit(data') /\ RowsFit(txn')
  <2>1. Text(w).name \in Texts
    BY <1>1, TextType
  <2> QED
    BY <1>1, <1>2, <1>3, <2>1, TablesFit, WithRow
<1>5. Moves(w) \/ Replies(w)
  <2>1. CASE Op(w) = del
    <3>1. Fits(Op(w), "delete") /\ "delete" \in Places
      BY <2>1 DEF Fits, Places
    <3> QED
      BY <1>1, <1>2, <2>1, <3>1, GotoMoves
  <2>2. CASE Op(w) # del
    <3>1. ~LogsIn(Op(w), SUCCESS)
      BY <1>1, NoLogin DEF get, add, del, edit, registration, authentification
    <3>2. work[w].row \in Nat
      BY DEF TypeOK, Work
    <3> QED
      BY <1>2, <2>2, <3>1, <3>2, Operation DEF Replies
  <2> QED
    BY <2>1, <2>2
<1> QED
  BY <1>1, <1>2, <1>3, <1>4, <1>5, QueryShape, UsersSame

LEMMA DeleteShape ==
  ASSUME TypeOK, LineInv, WorkInv, SeenInv, TextInv, NEW w \in Workers, Delete(w)
  PROVE  Shape(w)
<1>1. work[w].at # "idle" /\ Op(w) = del
  BY RequestType DEF Delete, At, Fits
<1>2. PICK did \in BOOLEAN, fine \in BOOLEAN :
       /\ Query(w, TRUE, did, fine)
       /\ Answer(w, IF fine THEN SUCCESS ELSE not_exist, fine, 0)
       /\ data' = IF did THEN Restrict(data, DOMAIN data \ Rows(w)) ELSE data
  BY DEF Delete
<1>3. UNCHANGED <<users, txn, buf, req>>
  BY DEF Delete
<1>4. RowsFit(data') /\ RowsFit(txn')
  BY <1>2, <1>3, TablesFit, LessRows
<1>5. Replies(w)
  <2>1. \A r : ~LogsIn(Op(w), r)
    BY <1>1, NoLogin DEF del, registration, authentification
  <2>2. (IF fine THEN SUCCESS ELSE not_exist) \in Int
    BY Operation
  <2> QED
    BY <1>2, <2>1, <2>2 DEF Replies
<1> QED
  BY <1>1, <1>2, <1>3, <1>4, <1>5, QueryShape, UsersSame

LEMMA StepShape ==
  ASSUME TypeOK, LineInv, WorkInv, SeenInv, TextInv, NEW w \in Workers, Step(w)
  PROVE  Shape(w)
  BY ParseShape, LookupShape, ReconnectShape, RegisterShape, LoginShape, FindShape, InsertShape,
     UpdateShape, RecordShape, DeleteShape DEF Step

\* Step(w) alters what is under way for w only.
LEMMA ShapeWork ==
  ASSUME TypeOK, NEW w \in Workers, Shape(w)
  PROVE  /\ work' \in [Workers -> Work]
         /\ \A v \in Workers : v # w => work'[v] = work[v]
         /\ \/ /\ work'[w].n = work[w].n /\ work'[w].at # "idle" /\ UNCHANGED <<user, ans>>
               /\ Fits(Op(w), work'[w].at)
            \/ /\ work'[w] = Idle /\ DOMAIN ans' = DOMAIN ans \cup {work[w].n}
         /\ \A n \in DOMAIN ans : n # work[w].n => n \in DOMAIN ans' /\ ans'[n] = ans[n]
         /\ \A n \in DOMAIN ans' : ans'[n] \in [res : Int, clean : BOOLEAN, row : Nat]
         /\ user' \in [Clients -> Nat] /\ \A c \in Clients : user'[c] <= Len(users')
<1>0. Len(users) \in Nat /\ Len(users') \in Nat /\ Len(users') >= Len(users) /\ work[w].at # "idle"
  BY DEF Shape, UsersGrow, TypeOK
<1>1. CASE Moves(w)
  <2>1. /\ work' \in [Workers -> Work] /\ \A v \in Workers : v # w => work'[v] = work[v]
        /\ work'[w].n = work[w].n /\ work'[w].at # "idle" /\ Fits(Op(w), work'[w].at)
        /\ UNCHANGED <<user, ans>>
    BY <1>1 DEF Moves
  <2>2. user' \in [Clients -> Nat] /\ \A c \in Clients : user[c] <= Len(users) /\ user[c] \in Nat
    BY <2>1 DEF TypeOK
  <2>3. \A c \in Clients : user'[c] <= Len(users')
    BY <1>0, <2>1, <2>2
  <2>4. \A n \in DOMAIN ans' : ans'[n] \in [res : Int, clean : BOOLEAN, row : Nat]
    BY <2>1 DEF TypeOK
  <2> QED
    BY <2>1, <2>2, <2>3, <2>4
<1>2. CASE Replies(w)
  <2>1. ASSUME NEW res \in Int, NEW fine \in BOOLEAN, NEW row \in Nat,
               Answer(w, res, fine, row), LogsIn(Op(w), res) => res \in 1..Len(users')
        PROVE  /\ work' \in [Workers -> Work]
               /\ work'[w] = Idle
               /\ \A v \in Workers : v # w => work'[v] = work[v]
               /\ DOMAIN ans' = DOMAIN ans \cup {work[w].n}
               /\ \A n \in DOMAIN ans : n # work[w].n => ans'[n] = ans[n]
               /\ \A n \in DOMAIN ans' : ans'[n] \in [res : Int, clean : BOOLEAN, row : Nat]
               /\ user' \in [Clients -> Nat] /\ \A c \in Clients : user'[c] <= Len(users')
    <3>0. work[w].at # "idle" /\ Answer(w, res, fine, row)
      BY <1>0, <2>1
    <3>1. work' \in [Workers -> Work] /\ work'[w] = Idle
      BY <3>0, AnswerEffect
    <3>8. \A v \in Workers : v # w => work'[v] = work[v]
      BY <3>0 DEF Answer, TypeOK
    <3>9. DOMAIN ans' = DOMAIN ans \cup {work[w].n}
      BY <3>0 DEF Answer, With
    <3>10. \A n \in DOMAIN ans : n # work[w].n => ans'[n] = ans[n]
      BY <3>0 DEF Answer, With
    <3>11. \A n \in DOMAIN ans' : ans'[n] \in [res : Int, clean : BOOLEAN, row : Nat]
      BY <3>0, AnswerEffect
    <3>2. user \in [Clients -> Nat] /\ \A c \in Clients : user[c] <= Len(users)
      BY DEF TypeOK
    <3> DEFINE id(old) == IF res = disconnect THEN 0 ELSE IF LogsIn(Op(w), res) THEN res ELSE old
    <3>3. user' = [user EXCEPT ![Req(w).c] = id(@)]
      BY <2>1 DEF Answer
    <3>4. \A c \in Clients : id(user[c]) \in Nat /\ id(user[c]) <= Len(users')
      BY <1>0, <2>1, <3>2
    <3>5. \A c \in Clients : user'[c] \in {user[c], id(user[c])}
      BY <3>2, <3>3
    <3> HIDE DEF id
    <3>6. \A c \in Clients : user'[c] \in Nat /\ user'[c] <= Len(users')
      BY <1>0, <3>2, <3>4, <3>5
    <3>7. user' \in [Clients -> Nat]
      BY <3>2, <3>3, <3>6
    <3> QED
      BY <3>1, <3>6, <3>7, <3>8, <3>9, <3>10, <3>11
  <2> QED
    BY <1>2, <2>1 DEF Replies
<1> QED
  BY <1>1, <1>2 DEF Shape

LEMMA ShapeType ==
  ASSUME TypeOK, WorkInv, NEW w \in Workers, Shape(w)
  PROVE  TypeOK' /\ WorkInv'
<1>1. /\ req' = req /\ buf' = buf /\ work[w].at # "idle"
      /\ RowsFit(data') /\ RowsFit(txn')
      /\ conn' \in [Workers -> {"up", "dead", "bad"}] /\ faults' \in 0..MaxFaults
      /\ users' \in Seq(User) /\ Len(users') >= Len(users)
  BY DEF Shape, UsersGrow
<1>2. /\ Len(users) \in Nat /\ Len(users') \in Nat /\ Len(req) \in Nat
      /\ \A n \in 1..Len(req) : req[n].user \in Nat
  <2>1. users \in Seq(User) /\ req \in Seq(Request)
    BY DEF TypeOK
  <2>2. \A n \in 1..Len(req) : req[n] \in Request
    BY <2>1
  <2> QED
    BY <1>1, <2>1, <2>2 DEF Request
<1>3. work[w].n \in 1..Len(req) /\ work[w].n \notin DOMAIN ans
  BY <1>1 DEF WorkInv
<1>4. /\ work' \in [Workers -> Work]
      /\ \A v \in Workers : v # w => work'[v] = work[v]
      /\ \/ /\ work'[w].n = work[w].n /\ work'[w].at # "idle" /\ UNCHANGED <<user, ans>>
            /\ Fits(Op(w), work'[w].at)
         \/ /\ work'[w] = Idle /\ DOMAIN ans' = DOMAIN ans \cup {work[w].n}
      /\ \A n \in DOMAIN ans' : ans'[n] \in [res : Int, clean : BOOLEAN, row : Nat]
      /\ user' \in [Clients -> Nat] /\ \A c \in Clients : user'[c] <= Len(users')
  BY ShapeWork
<1>5. \A n \in 1..Len(req) : req[n].user <= Len(users') /\ req[n].seen \subseteq 1..(n-1)
  BY <1>1, <1>2 DEF TypeOK
<1>6. DOMAIN ans' \subseteq DOMAIN ans \cup {work[w].n}
  BY <1>4
<1>7. \A v \in Workers : work'[v].n <= Len(req) /\ (work'[v].at = "idle" <=> work'[v].n = 0)
  <2>1. \A v \in Workers : work[v].n <= Len(req) /\ (work[v].at = "idle" <=> work[v].n = 0)
    BY DEF TypeOK, At
  <2>2. work'[w].n <= Len(req) /\ (work'[w].at = "idle" <=> work'[w].n = 0)
    BY <1>1, <1>2, <1>3, <1>4 DEF Idle
  <2> QED
    BY <1>4, <2>1, <2>2
<1>8. TypeOK'
  <2>1. DOMAIN ans' \subseteq 1..Len(req')
    BY <1>1, <1>3, <1>6 DEF TypeOK
  <2>2. /\ req' \in Seq(Request) /\ buf' \in [Queries -> 0..Len(req')]
        /\ \A n \in 1..Len(req') : req'[n].user <= Len(users') /\ req'[n].seen \subseteq 1..(n-1)
    BY <1>1, <1>5 DEF TypeOK
  <2>3. /\ \A n \in DOMAIN data' : n \in 1..Len(req') /\ data'[n] \in Texts
        /\ \A n \in DOMAIN txn' : n \in 1..Len(req') /\ txn'[n] \in Texts
    BY <1>1 DEF RowsFit
  <2>4. \A v \in Workers : work'[v].n <= Len(req') /\ (At(v, "idle")' <=> work'[v].n = 0)
    BY <1>1, <1>7 DEF At
  <2> QED
    BY <1>1, <1>4, <2>1, <2>2, <2>3, <2>4 DEF TypeOK, Texts
<1>9. ASSUME NEW v \in Workers, work'[v].at # "idle"
      PROVE  /\ work'[v].n \in 1..Len(req)' /\ work'[v].n \notin DOMAIN ans'
             /\ \A u \in Workers : u # v => work'[u].n # work'[v].n
             /\ Fits(Op(v)', work'[v].at)
  <2>1. work[v].at # "idle" /\ work'[v].n = work[v].n
    BY <1>1, <1>4, <1>9 DEF Idle
  <2>2. /\ work[v].n \in 1..Len(req) /\ work[v].n \notin DOMAIN ans
        /\ \A u \in Workers : u # v => work[u].n # work[v].n
        /\ Fits(Op(v), work[v].at)
    BY <2>1 DEF WorkInv
  <2>3. v = w => ans' = ans
    BY <1>4, <1>9 DEF Idle
  <2>4. work'[v].n \notin DOMAIN ans'
    BY <1>6, <2>1, <2>2, <2>3
  <2>5. \A u \in Workers : u # v => work'[u].n # work'[v].n
    BY <1>2, <1>4, <2>1, <2>2 DEF Idle
  <2>6. Op(v)' = Op(v)
    BY <1>1, <2>1 DEF Op, Req
  <2>7. Fits(Op(v), work'[v].at)
    BY <1>4, <1>9, <2>2 DEF Idle
  <2> QED
    BY <1>1, <2>1, <2>2, <2>4, <2>5, <2>6, <2>7
<1> QED
  BY <1>8, <1>9 DEF WorkInv

\* Begin(w, c, op, line) adds a request and gives it to w.
LEMMA BeginEffect ==
  ASSUME TypeOK, LineInv, WorkInv, NEW w \in Workers, NEW c \in Clients, NEW op \in Queries,
         NEW line \in Lines(op), Begin(w, c, op, line)
  PROVE  /\ work[w].at = "idle" /\ (op \in Operations => user[c] # 0)
         /\ Len(req') = Len(req) + 1 /\ req' \in Seq(Request)
         /\ \A n \in 1..Len(req) : req'[n] = req[n]
         /\ req'[Len(req) + 1] = [c |-> c, user |-> user[c], op |-> op, name |-> line[1],
                                  pw |-> line[2], seen |-> DOMAIN ans]
         /\ buf' \in [Queries -> 0..Len(req')] /\ buf'[op] = Len(req) + 1
         /\ \A o \in Queries : o # op => buf'[o] = buf[o]
         /\ work' \in [Workers -> Work]
         /\ \A v \in Workers : v # w => work'[v] = work[v]
         /\ work'[w] = [n |-> Len(req) + 1, line |-> 0, at |-> IF op \in Parsed THEN "parse" ELSE "check",
                        clean |-> TRUE, row |-> 0]
         /\ UNCHANGED <<users, data, txn, conn, user, ans, faults>>
<1> USE VaultAssumption DEF VaultAssumption
<1>1. /\ work[w].at = "idle"
      /\ req' = Append(req, [c |-> c, user |-> user[c], op |-> op, name |-> line[1],
                             pw |-> line[2], seen |-> DOMAIN ans])
      /\ buf' = [buf EXCEPT ![op] = Len(req) + 1]
      /\ work' = [work EXCEPT ![w] = [n |-> Len(req) + 1, line |-> 0, clean |-> TRUE, row |-> 0,
                                      at |-> IF op \in Parsed THEN "parse" ELSE "check"]]
      /\ UNCHANGED <<users, data, txn, conn, user, ans, faults>>
      /\ op \in IF user[c] = 0 THEN {registration, authentification} ELSE Operations
  BY DEF Begin, At, database
<1>2. line[1] \in Texts /\ line[2] \in Passwords \cup Resources
  <2>1. CASE op \in {registration, authentification}
    BY <2>1 DEF Lines, Texts
  <2>2. CASE op = edit
    BY <2>2 DEF Lines, edit, registration, authentification, Texts
  <2>3. CASE op \notin {registration, authentification, edit}
    BY <2>3 DEF Lines, Texts
  <2> QED
    BY <2>1, <2>2, <2>3
<1>3. DOMAIN ans \subseteq Nat /\ user[c] \in Nat /\ req \in Seq(Request) /\ Len(req) \in Nat
  BY DEF TypeOK
<1> DEFINE new == [c |-> c, user |-> user[c], op |-> op, name |-> line[1],
                   pw |-> line[2], seen |-> DOMAIN ans]
<1>4. new \in Request
  BY <1>2, <1>3 DEF Request
<1>5. /\ Len(req') = Len(req) + 1 /\ req' \in Seq(Request)
      /\ \A n \in 1..Len(req) : req'[n] = req[n]
      /\ req'[Len(req) + 1] = new
  <2> HIDE DEF new
  <2> QED
    BY <1>1, <1>3, <1>4 DEF new
<1> DEFINE job == [n |-> Len(req) + 1, line |-> 0, at |-> IF op \in Parsed THEN "parse" ELSE "check",
                   clean |-> TRUE, row |-> 0]
<1>7. job \in Work
  BY <1>3 DEF Work
<1>9. work' = [work EXCEPT ![w] = job]
  BY <1>1
<1>8. /\ work' \in [Workers -> Work]
      /\ \A v \in Workers : v # w => work'[v] = work[v]
      /\ work'[w] = job
  <2> HIDE DEF job
  <2> QED
    BY <1>7, <1>9 DEF TypeOK
<1>10. /\ buf' \in [Queries -> 0..Len(req')] /\ buf'[op] = Len(req) + 1
       /\ \A o \in Queries : o # op => buf'[o] = buf[o]
  <2>1. buf \in [Queries -> 0..Len(req)]
    BY DEF TypeOK
  <2>2. \A o \in Queries : buf[o] \in 0..(Len(req) + 1)
    BY <1>3, <2>1
  <2> QED
    BY <1>1, <1>3, <1>5, <2>1, <2>2
<1>11. op \in Operations => user[c] # 0
  BY <1>1 DEF Operations, get, edit, registration, authentification
<1> QED
  BY <1>1, <1>5, <1>8, <1>10, <1>11

LEMMA BeginGrows ==
  ASSUME TypeOK, NEW w \in Workers, NEW c \in Clients, NEW op \in Queries,
         NEW line \in Lines(op), Begin(w, c, op, line)
  PROVE  /\ Len(req) \in Nat /\ Len(req') = Len(req) + 1
         /\ \A n \in 1..Len(req) : req'[n] = req[n]
         /\ req'[Len(req) + 1].op = op
<1> DEFINE new == [c |-> c, user |-> user[c], op |-> op, name |-> line[1],
                   pw |-> line[2], seen |-> DOMAIN ans]
<1>1. req' = Append(req, new)
  BY DEF Begin
<1>2. new.op = op
  OBVIOUS
<1>3. req \in Seq(Request)
  BY DEF TypeOK
<1> HIDE DEF new
<1> QED
  BY <1>1, <1>2, <1>3

LEMMA BeginFields ==
  ASSUME TypeOK, LineInv, WorkInv, NEW w \in Workers, NEW c \in Clients, NEW op \in Queries,
         NEW line \in Lines(op), Begin(w, c, op, line)
  PROVE  /\ req'[Len(req) + 1].op = op /\ req'[Len(req) + 1].seen = DOMAIN ans
         /\ req'[Len(req) + 1].name = line[1] /\ req'[Len(req) + 1].pw = line[2]
         /\ req'[Len(req) + 1].user = user[c]
         /\ work'[w].n = Len(req) + 1
         /\ work'[w].at = (IF op \in Parsed THEN "parse" ELSE "check")
         /\ UNCHANGED <<users, data, txn, conn, user, ans, faults>>
<1>1. /\ req'[Len(req) + 1] = [c |-> c, user |-> user[c], op |-> op, name |-> line[1],
                               pw |-> line[2], seen |-> DOMAIN ans]
      /\ work'[w] = [n |-> Len(req) + 1, line |-> 0, at |-> IF op \in Parsed THEN "parse" ELSE "check",
                     clean |-> TRUE, row |-> 0]
      /\ UNCHANGED <<users, data, txn, conn, user, ans, faults>>
  BY BeginEffect
<1> QED
  BY <1>1

LEMMA BeginType ==
  ASSUME TypeOK, LineInv, WorkInv, NEW w \in Workers, NEW c \in Clients, NEW op \in Queries,
         NEW line \in Lines(op), Begin(w, c, op, line)
  PROVE  TypeOK' /\ WorkInv' /\ LineInv'
<1>1. /\ work[w].at = "idle" /\ (op \in Operations => user[c] # 0)
      /\ Len(req') = Len(req) + 1 /\ req' \in Seq(Request)
      /\ \A n \in 1..Len(req) : req'[n] = req[n]
      /\ buf' \in [Queries -> 0..Len(req')]
      /\ work' \in [Workers -> Work]
      /\ \A v \in Workers : v # w => work'[v] = work[v]
      /\ UNCHANGED <<users, data, txn, conn, user, ans, faults>>
  BY BeginEffect
<1>0. /\ req'[Len(req) + 1].op = op /\ req'[Len(req) + 1].seen = DOMAIN ans
      /\ req'[Len(req) + 1].name = line[1] /\ req'[Len(req) + 1].pw = line[2]
      /\ req'[Len(req) + 1].user = user[c]
      /\ work'[w].n = Len(req) + 1
      /\ work'[w].at = (IF op \in Parsed THEN "parse" ELSE "check")
  BY BeginFields
<1>2. Len(req) \in Nat /\ Len(users) \in Nat /\ user[c] <= Len(users) /\ DOMAIN ans \subseteq 1..Len(req)
  BY DEF TypeOK
<1>3. ASSUME NEW n \in 1..Len(req')
      PROVE  /\ req'[n].user <= Len(users) /\ req'[n].seen \subseteq 1..(n-1)
             /\ <<req'[n].name, req'[n].pw>> \in Lines(req'[n].op)
             /\ req'[n].op \in Operations => req'[n].user # 0
  <2>1. CASE n = Len(req) + 1
    <3>2. <<line[1], line[2]>> = line
      BY VaultAssumption DEF Lines, VaultAssumption
    <3>3. req'[n].user <= Len(users) /\ req'[n].seen \subseteq 1..(n-1)
      BY <1>0, <1>2, <2>1
    <3> QED
      BY <1>0, <1>1, <2>1, <3>2, <3>3
  <2>2. CASE n \in 1..Len(req)
    BY <1>1, <2>2 DEF TypeOK, LineInv
  <2> QED
    BY <1>1, <1>2, <2>1, <2>2
<1>4. LineInv'
  BY <1>3 DEF LineInv, Lines
<1>5. ASSUME NEW v \in Workers
      PROVE  work'[v].n <= Len(req') /\ (work'[v].at = "idle" <=> work'[v].n = 0)
  <2>1. work[v] \in Work /\ work[v].n <= Len(req) /\ (work[v].at = "idle" <=> work[v].n = 0)
    BY DEF TypeOK, At
  <2>2. CASE v = w
    <3>1. work'[v].n = Len(req) + 1 /\ work'[v].at # "idle" /\ Len(req') = Len(req) + 1
      BY <1>0, <1>1, <2>2
    <3> QED
      BY <1>2, <3>1
  <2>3. CASE v # w
    <3>1. work'[v] = work[v] /\ Len(req') = Len(req) + 1 /\ work[v].n \in Nat
      BY <1>1, <2>1, <2>3 DEF Work
    <3> QED
      BY <1>2, <2>1, <3>1
  <2> QED
    BY <2>2, <2>3
<1>6. TypeOK'
  <2>1. \A n \in 1..Len(req') : req'[n].user <= Len(users') /\ req'[n].seen \subseteq 1..(n-1)
    BY <1>1, <1>3
  <2>2. /\ DOMAIN ans' \subseteq 1..Len(req')
        /\ \A n \in DOMAIN data' : n \in 1..Len(req') /\ data'[n] \in Texts
        /\ \A n \in DOMAIN txn' : n \in 1..Len(req') /\ txn'[n] \in Texts
    BY <1>1, <1>2 DEF TypeOK
  <2>3. /\ users' \in Seq(User)
        /\ \A n \in DOMAIN ans' : ans'[n] \in [res : Int, clean : BOOLEAN, row : Nat]
        /\ conn' \in [Workers -> {"up", "dead", "bad"}] /\ faults' \in 0..MaxFaults
        /\ user' \in [Clients -> Nat] /\ \A d \in Clients : user'[d] <= Len(users')
    BY <1>1 DEF TypeOK
  <2> QED
    BY <1>1, <1>5, <2>1, <2>2, <2>3 DEF TypeOK, At, Texts
<1>7. ASSUME NEW v \in Workers, work'[v].at # "idle"
      PROVE  /\ work'[v].n \in 1..Len(req') /\ work'[v].n \notin DOMAIN ans'
             /\ \A u \in Workers : u # v => work'[u].n # work'[v].n
             /\ Fits(req'[work'[v].n].op, work'[v].at)
  <2>1. \A u \in Workers : work[u].n <= Len(req) /\ work[u] \in Work
    BY DEF TypeOK
  <2>2. CASE v = w
    <3>2. req'[work'[v].n].op = op
      BY <1>0, <2>2
    <3>3. \A u \in Workers : u # v => work'[u].n # work'[v].n
      <4>1. work'[v].n = Len(req) + 1 /\ Len(req) \in Nat
        BY <1>0, <1>2, <2>2
      <4>2. ASSUME NEW u \in Workers, u # v
            PROVE  work'[u].n \in Nat /\ work'[u].n <= Len(req)
        <5>1. work'[u] = work[u]
          BY <1>1, <2>2, <4>2
        <5> QED
          BY <2>1, <5>1 DEF Work
      <4> QED
        BY <4>1, <4>2
    <3>4. Fits(op, work'[v].at)
      BY <1>0, <2>2 DEF Fits
    <3> QED
      BY <1>0, <1>1, <1>2, <2>2, <3>2, <3>3, <3>4
  <2>3. CASE v # w
    <3>1. work'[v] = work[v]
      BY <1>1, <2>3
    <3>2. /\ work[v].n \in 1..Len(req) /\ work[v].n \notin DOMAIN ans
          /\ \A u \in Workers : u # v => work[u].n # work[v].n
          /\ Fits(req[work[v].n].op, work[v].at)
      BY <1>7, <3>1 DEF WorkInv, Op, Req
    <3>3. \A u \in Workers : u # v => work'[u].n # work'[v].n
      BY <1>0, <1>1, <1>2, <3>1, <3>2
    <3> QED
      BY <1>1, <1>2, <3>1, <3>2, <3>3
  <2> QED
    BY <2>2, <2>3
<1>8. WorkInv'
  BY <1>7 DEF WorkInv, Op, Req
<1> QED
  BY <1>4, <1>6, <1>8

LEMMA DropType ==
  ASSUME TypeOK, LineInv, WorkInv, NEW w \in Workers, Drop(w)
  PROVE  TypeOK' /\ WorkInv' /\ LineInv'
<1> USE VaultAssumption DEF VaultAssumption
<1>1. /\ UNCHANGED <<users, data, txn, user, buf, work, req, ans>>
      /\ conn' \in [Workers -> {"up", "dead", "bad"}] /\ faults' \in 0..MaxFaults
  BY DEF Drop, database, history, TypeOK
<1> QED
  BY <1>1 DEF TypeOK, At, WorkInv, Op, Req, LineInv, Lines

LEMMA TypeStep ==
  ASSUME TypeOK, LineInv, WorkInv, SeenInv, TextInv, [Next]_vars
  PROVE  TypeOK' /\ WorkInv' /\ LineInv'
<1>1. ASSUME NEW w \in Workers, Step(w)
      PROVE  TypeOK' /\ WorkInv' /\ LineInv'
  <2>1. Shape(w) /\ req' = req
    BY <1>1, StepShape DEF Shape
  <2> QED
    BY <2>1, ShapeType DEF LineInv, Lines
<1>2. CASE UNCHANGED vars
  BY <1>2 DEF vars, database, history, TypeOK, At, WorkInv, Op, Req, LineInv, Lines
<1> QED
  BY <1>1, <1>2, BeginType, DropType DEF Next
-----------------------------------------------------------------------------
(***************************************************************************)
(* What stays, and what a step of worker w adds.                           *)
(***************************************************************************)

\* Requests, answers and users are for ever.
Grows == /\ Len(req') >= Len(req) /\ \A n \in 1..Len(req) : req'[n] = req[n]
         /\ \A n \in DOMAIN ans : n \in DOMAIN ans' /\ ans'[n] = ans[n]
         /\ UsersGrow

LEMMA StepGrows ==
  ASSUME TypeOK, LineInv, WorkInv, SeenInv, TextInv, [Next]_vars
  PROVE  Grows
<1>0. Len(req) \in Nat
  BY DEF TypeOK
<1>1. ASSUME NEW w \in Workers, Step(w)
      PROVE  Grows
  <2>1. Shape(w)
    BY <1>1, StepShape
  <2>2. work[w].n \notin DOMAIN ans
    BY <2>1 DEF Shape, WorkInv
  <2>3. \A n \in DOMAIN ans : n \in DOMAIN ans' /\ ans'[n] = ans[n]
    BY <2>1, <2>2, ShapeWork
  <2> QED
    BY <1>0, <2>1, <2>3 DEF Shape, Grows
<1>2. ASSUME NEW w \in Workers, NEW c \in Clients, NEW op \in Queries, NEW line \in Lines(op),
             Begin(w, c, op, line)
      PROVE  Grows
  <2>1. /\ Len(req') = Len(req) + 1 /\ \A n \in 1..Len(req) : req'[n] = req[n]
        /\ UNCHANGED <<users, data, txn, conn, user, ans, faults>>
    BY <1>2, BeginEffect
  <2> QED
    BY <1>0, <2>1, UsersSame DEF Grows
<1>3. ASSUME NEW w \in Workers, Drop(w)
      PROVE  Grows
  BY <1>0, <1>3, UsersSame DEF Drop, database, history, Grows
<1>4. CASE UNCHANGED vars
  BY <1>0, <1>4, UsersSame DEF vars, database, history, Grows
<1> QED
  BY <1>1, <1>2, <1>3, <1>4 DEF Next

\* The numbers of requests and of users after a step.
LEMMA Longer ==
  ASSUME TypeOK, LineInv, WorkInv, SeenInv, TextInv, [Next]_vars
  PROVE  /\ \A n \in 1..Len(req) : n \in 1..Len(req')
         /\ \A i \in 1..Len(users) : i \in 1..Len(users')
<1>1. Len(req) \in Nat /\ Len(users) \in Nat
  BY DEF TypeOK
<1>2. Len(req') \in Nat /\ Len(users') \in Nat
  BY TypeStep DEF TypeOK
<1>3. Len(req') >= Len(req) /\ Len(users') >= Len(users)
  BY StepGrows DEF Grows, UsersGrow
<1> QED
  BY <1>1, <1>2, <1>3

\* How the request of w has been answered.
NewAnswer(w, n) ==
  /\ n = work[w].n /\ work'[w] = Idle
  /\ ans'[n].clean => work[w].clean
  /\ \/ ans'[n].res = disconnect
     \/ ans'[n].res = existing /\ Op(w) = add
     \/ Register(w)
     \/ Login(w) /\ Op(w) = authentification
     \/ Find(w) /\ Op(w) = get /\ ans'[n].res = not_exist
     \/ Record(w) /\ work[w].at = "record" /\ ans'[n].res = SUCCESS /\ ans'[n].row = work[w].row
     \/ Delete(w) /\ Op(w) = del

\* Where it is otherwise.
NewPlace(w) ==
  /\ work'[w].n = work[w].n /\ (work'[w].clean => work[w].clean) /\ ans' = ans
  /\ \/ /\ Parse(w) /\ work'[w].line = buf[Op(w)]
        /\ work'[w].at = (IF Op(w) = add THEN "lookup" ELSE "check")
     \/ /\ work'[w].line = work[w].line /\ work[w].at # "parse"
        /\ \/ Lookup(w) /\ work'[w].at = "check"
           \/ Reconnect(w) /\ work'[w].at = "query"
           \/ Find(w) /\ work'[w].at = "record" /\ Op(w) = get
           \/ Insert(w) /\ work'[w].at = "record" /\ Op(w) = add
           \/ Update(w) /\ work'[w].at = "record" /\ Op(w) = edit
           \/ Record(w) /\ work'[w].at = "delete" /\ Op(w) = del

LEMMA GotoPlace ==
  ASSUME TypeOK, NEW w \in Workers, work[w].at # "idle",
         NEW pc \in Places, NEW fine \in BOOLEAN, NEW row \in Nat,
         Goto(w, pc, fine, row)
  PROVE  /\ work'[w].n = work[w].n /\ work'[w].line = work[w].line
         /\ work'[w].at = pc /\ work'[w].row = row
         /\ work'[w].clean => work[w].clean /\ fine
<1>1. work'[w] = [n |-> work[w].n, line |-> work[w].line, at |-> pc,
                  clean |-> work[w].clean /\ fine, row |-> row]
  BY GotoEffect
<1>2. /\ work'[w].n = work[w].n /\ work'[w].line = work[w].line
      /\ work'[w].at = pc /\ work'[w].row = row
  BY <1>1
<1>3. work'[w].clean = (work[w].clean /\ fine)
  BY <1>1
<1> QED
  BY <1>2, <1>3

LEMMA AnswerGiven ==
  ASSUME TypeOK, NEW w \in Workers, work[w].at # "idle", NEW res \in Int, NEW fine \in BOOLEAN,
         NEW row \in Nat, Answer(w, res, fine, row)
  PROVE  /\ work'[w] = Idle /\ DOMAIN ans' = DOMAIN ans \cup {work[w].n}
         /\ ans'[work[w].n].res = res /\ ans'[work[w].n].row = row
         /\ ans'[work[w].n].clean => work[w].clean /\ fine
<1>0. work'[w] = Idle
  BY DEF Answer, TypeOK
<1>1. /\ DOMAIN ans' = DOMAIN ans \cup {work[w].n}
      /\ ans'[work[w].n] = [res |-> res, clean |-> work[w].clean /\ fine, row |-> row]
  BY DEF Answer, With
<1>2. ans'[work[w].n].res = res /\ ans'[work[w].n].row = row
  BY <1>1
<1>3. ans'[work[w].n].clean = (work[w].clean /\ fine)
  BY <1>1
<1> QED
  BY <1>0, <1>1, <1>2, <1>3

\* Each step of a worker is one or the other.
StepKind(w) == NewPlace(w) \/ (NewAnswer(w, work[w].n) /\ DOMAIN ans' = DOMAIN ans \cup {work[w].n})

LEMMA ParseKind ==
  ASSUME TypeOK, LineInv, WorkInv, SeenInv, TextInv, NEW w \in Workers, Parse(w)
  PROVE  StepKind(w)
<1> DEFINE pc == IF Op(w) = add THEN "lookup" ELSE "check"
<1>1. /\ work'[w] = [n |-> work[w].n, line |-> buf[Op(w)], at |-> pc,
                     clean |-> work[w].clean, row |-> work[w].row]
      /\ UNCHANGED <<users, data, txn, conn, user, buf, req, ans, faults>>
  BY ParseEffect
<1>2. work'[w].n = work[w].n /\ work'[w].line = buf[Op(w)] /\ work'[w].at = pc
  BY <1>1
<1>3. work'[w].clean = work[w].clean
  BY <1>1
<1> QED
  BY <1>1, <1>2, <1>3 DEF StepKind, NewPlace

LEMMA LookupKind ==
  ASSUME TypeOK, LineInv, WorkInv, SeenInv, TextInv, NEW w \in Workers, Lookup(w)
  PROVE  StepKind(w)
<1>1. PICK fine \in BOOLEAN :
        IF fine /\ Rows(w) # {}
        THEN Answer(w, existing, fine, 0)
        ELSE Goto(w, "check", fine, 0) /\ UNCHANGED <<user, ans>>
  BY DEF Lookup
<1>2. work[w].at = "lookup" /\ Op(w) = add /\ work[w] \in Work
  BY RequestType DEF Lookup, At, Fits, TypeOK
<1>3. CASE Answer(w, existing, fine, 0)
  <2>1. /\ work'[w] = Idle /\ DOMAIN ans' = DOMAIN ans \cup {work[w].n}
        /\ ans'[work[w].n].clean => work[w].clean
        /\ ans'[work[w].n].res = existing
    BY <1>2, <1>3, AnswerGiven, Operation
  <2> QED
    BY <1>2, <1>3, <2>1 DEF StepKind, NewAnswer
<1>4. CASE Goto(w, "check", fine, 0) /\ UNCHANGED <<user, ans>>
  <2>1. /\ work'[w].n = work[w].n /\ work'[w].line = work[w].line
        /\ (work'[w].clean => work[w].clean) /\ ans' = ans
        /\ work'[w].at = "check"
    BY <1>2, <1>4, GotoPlace DEF Places
  <2> QED
    BY <1>2, <1>4, <2>1 DEF StepKind, NewPlace
<1> QED
  BY <1>1, <1>3, <1>4

LEMMA ReconnectKind ==
  ASSUME TypeOK, LineInv, WorkInv, SeenInv, TextInv, NEW w \in Workers, Reconnect(w)
  PROVE  StepKind(w)
<1>1. /\ work[w].at = "check"
      /\ \/ Goto(w, "query", TRUE, 0) /\ UNCHANGED <<user, ans>>
         \/ Answer(w, disconnect, FALSE, 0)
  BY DEF Reconnect, At
<1>2. CASE Goto(w, "query", TRUE, 0) /\ UNCHANGED <<user, ans>>
  <2>1. /\ work'[w].n = work[w].n /\ work'[w].line = work[w].line
        /\ (work'[w].clean => work[w].clean) /\ ans' = ans
        /\ work'[w].at = "query"
    BY <1>1, <1>2, GotoPlace DEF Places
  <2> QED
    BY <1>1, <1>2, <2>1 DEF StepKind, NewPlace
<1>3. CASE Answer(w, disconnect, FALSE, 0)
  <2>1. /\ work'[w] = Idle /\ DOMAIN ans' = DOMAIN ans \cup {work[w].n}
        /\ ans'[work[w].n].clean => work[w].clean
        /\ ans'[work[w].n].res = disconnect
    BY <1>1, <1>3, AnswerGiven, Operation
  <2> QED
    BY <1>1, <1>3, <2>1 DEF StepKind, NewAnswer
<1> QED
  BY <1>1, <1>2, <1>3

LEMMA RegisterKind ==
  ASSUME TypeOK, LineInv, WorkInv, SeenInv, TextInv, NEW w \in Workers, Register(w)
  PROVE  StepKind(w)
<1>1. work[w].at # "idle"
  BY AskedAt DEF Register
<1>2. \E r \in {Len(users) + 1, existing}, fine \in BOOLEAN : Answer(w, r, fine, 0)
  <2>1. PICK h \in {Text(w).pw, NoHash}, did \in BOOLEAN, fine \in BOOLEAN :
          Answer(w, IF fine THEN Len(users) + 1 ELSE existing, fine /\ h # NoHash, 0)
    BY RegisterUsers
  <2>2. (IF fine THEN Len(users) + 1 ELSE existing) \in {Len(users) + 1, existing}
    OBVIOUS
  <2>3. (fine /\ h # NoHash) \in BOOLEAN
    OBVIOUS
  <2> QED
    BY <2>1, <2>2, <2>3
<1>3. Len(users) + 1 \in Int
  BY DEF TypeOK
<1>4. PICK r \in Int, fine \in BOOLEAN : Answer(w, r, fine, 0)
  BY <1>2, <1>3, Operation
<1> QED
  <2>1. /\ work'[w] = Idle /\ DOMAIN ans' = DOMAIN ans \cup {work[w].n}
        /\ ans'[work[w].n].clean => work[w].clean
    BY <1>1, <1>4, AnswerGiven
  <2> QED
    BY <2>1 DEF StepKind, NewAnswer

\* What a login is answered.
LEMMA LoginAnswer ==
  ASSUME TypeOK, LineInv, WorkInv, SeenInv, TextInv, NEW w \in Workers, Login(w)
  PROVE  /\ work[w].at \in {"check", "query"} /\ Op(w) = authentification
         /\ \E fine \in BOOLEAN :
              \/ \E i \in 1..Len(users) : /\ users[i].name = Text(w).name /\ users[i].pw = Text(w).pw
                                          /\ users[i].set \in Nat /\ i \in Int
                                          /\ Answer(w, i, fine, users[i].set)
              \/ Answer(w, bad_auth, fine, 0)
<1>1. \A i \in 1..Len(users) : users[i].set \in Nat /\ i \in Int
  <2>1. \A i \in 1..Len(users) : users[i] \in User /\ i \in Int
    BY DEF TypeOK
  <2> QED
    BY <2>1 DEF User
<1> QED
  BY <1>1, AskedAt DEF Login, verify_password

LEMMA LoginKind ==
  ASSUME TypeOK, LineInv, WorkInv, SeenInv, TextInv, NEW w \in Workers, Login(w)
  PROVE  StepKind(w)
<1>1. work[w].at # "idle" /\ Op(w) = authentification
  BY LoginAnswer
<1>2. ASSUME NEW fine \in BOOLEAN, NEW r \in Int, NEW s \in Nat, Answer(w, r, fine, s)
      PROVE  StepKind(w)
  <2>0. work[w].at # "idle" /\ Answer(w, r, fine, s)
    BY <1>1, <1>2
  <2>1. work'[w] = Idle
    BY <2>0 DEF Answer, TypeOK
  <2>2. DOMAIN ans' = DOMAIN ans \cup {work[w].n}
    BY <2>0 DEF Answer, With
  <2>3. ans'[work[w].n].clean = (work[w].clean /\ fine)
    BY <2>0 DEF Answer, With
  <2> QED
    BY <1>1, <2>1, <2>2, <2>3 DEF StepKind, NewAnswer
<1> QED
  BY <1>2, LoginAnswer, Operation

LEMMA FindKind ==
  ASSUME TypeOK, LineInv, WorkInv, SeenInv, TextInv, NEW w \in Workers, Find(w)
  PROVE  StepKind(w)
<1>1. work[w].at \in {"check", "query"} /\ Op(w) = get
  BY AskedAt DEF Find
<1>2. PICK fine \in BOOLEAN :
        \/ \E n \in Rows(w) : Goto(w, "record", fine, n) /\ UNCHANGED <<user, ans>>
        \/ Answer(w, not_exist, fine, 0)
  BY DEF Find
<1>3. CASE Answer(w, not_exist, fine, 0)
  <2>1. /\ work'[w] = Idle /\ DOMAIN ans' = DOMAIN ans \cup {work[w].n}
        /\ ans'[work[w].n].clean => work[w].clean
        /\ ans'[work[w].n].res = not_exist
    BY <1>1, <1>3, AnswerGiven, Operation
  <2> QED
    BY <1>1, <1>3, <2>1 DEF StepKind, NewAnswer
<1>4. ASSUME NEW n \in Rows(w), Goto(w, "record", fine, n) /\ UNCHANGED <<user, ans>>
      PROVE  StepKind(w)
  <2>1. n \in Nat
    BY RowsNumbers
  <2> QED
    <3>1. /\ work'[w].n = work[w].n /\ work'[w].line = work[w].line
          /\ (work'[w].clean => work[w].clean) /\ ans' = ans
          /\ work'[w].at = "record"
      BY <1>1, <1>4, <2>1, GotoPlace DEF Places
    <3> QED
      BY <1>1, <1>4, <2>1, <3>1 DEF StepKind, NewPlace
<1> QED
  BY <1>2, <1>3, <1>4

LEMMA InsertKind ==
  ASSUME TypeOK, LineInv, WorkInv, SeenInv, TextInv, NEW w \in Workers, Insert(w)
  PROVE  StepKind(w)
<1>1. work[w].at \in {"check", "query"} /\ Op(w) = add
  BY AskedAt DEF Insert
<1>2. PICK fine \in BOOLEAN : Goto(w, "record", fine, 0)
  BY DEF Insert
<1>3. ans' = ans
  BY DEF Insert, history
<1> QED
  <2>1. /\ work'[w].n = work[w].n /\ work'[w].line = work[w].line
        /\ (work'[w].clean => work[w].clean) /\ ans' = ans
        /\ work'[w].at = "record"
    BY <1>1, <1>2, <1>3, GotoPlace DEF Places
  <2> QED
    BY <1>1, <1>2, <1>3, <2>1 DEF StepKind, NewPlace

LEMMA UpdateKind ==
  ASSUME TypeOK, LineInv, WorkInv, SeenInv, TextInv, NEW w \in Workers, Update(w)
  PROVE  StepKind(w)
<1>1. work[w].at \in {"check", "query"} /\ Op(w) = edit /\ ans' = ans
  BY UpdateUsers
<1>2. PICK fine \in BOOLEAN : Goto(w, "record", fine, 0)
  <2>1. PICK h \in {Text(w).pw, NoHash}, did \in BOOLEAN, fine \in BOOLEAN :
          Goto(w, "record", fine /\ h # NoHash, 0)
    BY UpdateUsers
  <2>2. (fine /\ h # NoHash) \in BOOLEAN
    OBVIOUS
  <2> QED
    BY <2>1, <2>2
<1> QED
  <2>1. /\ work'[w].n = work[w].n /\ work'[w].line = work[w].line
        /\ (work'[w].clean => work[w].clean) /\ ans' = ans
        /\ work'[w].at = "record"
    BY <1>1, <1>2, GotoPlace DEF Places
  <2> QED
    BY <1>1, <1>2, <2>1 DEF StepKind, NewPlace

LEMMA RecordKind ==
  ASSUME TypeOK, LineInv, WorkInv, SeenInv, TextInv, NEW w \in Workers, Record(w)
  PROVE  StepKind(w)
<1>1. PICK fine \in BOOLEAN :
        IF Op(w) = del THEN Goto(w, "delete", fine, 0) /\ UNCHANGED <<user, ans>>
                       ELSE Answer(w, SUCCESS, fine, work[w].row)
  BY DEF Record
<1>2. work[w].at \in {"record", "check", "query"} /\ (Op(w) # del => work[w].at = "record")
  BY AskedAt DEF Record, At
<1>3. CASE Op(w) = del
  <2>1. /\ work'[w].n = work[w].n /\ work'[w].line = work[w].line
        /\ (work'[w].clean => work[w].clean) /\ ans' = ans
        /\ work'[w].at = "delete"
    BY <1>1, <1>2, <1>3, GotoPlace DEF Places
  <2> QED
    BY <1>1, <1>2, <1>3, <2>1 DEF StepKind, NewPlace
<1>4. CASE Op(w) # del
  <2>0. work[w].row \in Nat
    BY DEF TypeOK, Work
  <2>1. /\ work'[w] = Idle /\ DOMAIN ans' = DOMAIN ans \cup {work[w].n}
        /\ ans'[work[w].n].row = work[w].row /\ (ans'[work[w].n].clean => work[w].clean)
        /\ ans'[work[w].n].res = SUCCESS
    BY <1>1, <1>2, <1>4, <2>0, AnswerGiven, Operation
  <2> QED
    BY <1>2, <1>4, <2>1 DEF StepKind, NewAnswer
<1> QED
  BY <1>3, <1>4

LEMMA DeleteKind ==
  ASSUME TypeOK, LineInv, WorkInv, SeenInv, TextInv, NEW w \in Workers, Delete(w)
  PROVE  StepKind(w)
<1>1. work[w].at # "idle" /\ Op(w) = del
  BY RequestType DEF Delete, At, Fits
<1>2. PICK fine \in BOOLEAN : Answer(w, IF fine THEN SUCCESS ELSE not_exist, fine, 0)
  BY DEF Delete
<1>3. (IF fine THEN SUCCESS ELSE not_exist) \in Int
  BY Operation
<1> QED
  <2>1. /\ work'[w] = Idle /\ DOMAIN ans' = DOMAIN ans \cup {work[w].n}
        /\ ans'[work[w].n].clean => work[w].clean
    BY <1>1, <1>2, <1>3, AnswerGiven
  <2> QED
    BY <1>1, <1>2, <1>3, <2>1 DEF StepKind, NewAnswer

LEMMA Kinds ==
  ASSUME TypeOK, LineInv, WorkInv, SeenInv, TextInv, NEW w \in Workers, Step(w)
  PROVE  StepKind(w)
  BY ParseKind, LookupKind, ReconnectKind, RegisterKind, LoginKind, FindKind, InsertKind, UpdateKind,
     RecordKind, DeleteKind DEF Step
-----------------------------------------------------------------------------
(***************************************************************************)
(* The lines: who reads what, and what overwrites it.                      *)
(***************************************************************************)

\* What becomes of the work of w: nothing, a step of w, or a new request.
LEMMA OthersWork ==
  ASSUME TypeOK, LineInv, WorkInv, SeenInv, TextInv, [Next]_vars, NEW w \in Workers,
         work'[w].at # "idle"
  PROVE  \/ /\ work'[w] = work[w] /\ work[w].n \in 1..Len(req)
            /\ Op(w)' = Op(w) /\ Req(w)' = Req(w)
         \/ /\ Step(w) /\ NewPlace(w) /\ work[w].n \in 1..Len(req)
            /\ Op(w)' = Op(w) /\ Req(w)' = Req(w)
         \/ /\ work'[w].at \in {"parse", "check"} /\ work[w].at = "idle"
            /\ work'[w].n = Len(req) + 1
            /\ Op(w)' \in Parsed => work'[w].at = "parse"
<1>1. \A n \in 1..Len(req) : req'[n] = req[n]
  BY StepGrows DEF Grows
<1>2. CASE work'[w] = work[w]
  <2>1. work[w].n \in 1..Len(req)
    BY <1>2 DEF WorkInv
  <2> QED
    BY <1>1, <1>2, <2>1 DEF Op, Req
<1>3. CASE Step(w)
  <2>1. work[w].n \in 1..Len(req)
    BY <1>3, StepShape DEF Shape, WorkInv
  <2>2. NewPlace(w)
    <3>1. NewAnswer(w, work[w].n) => work'[w].at = "idle"
      BY DEF NewAnswer, Idle
    <3> QED
      BY <1>3, <3>1, Kinds DEF StepKind
  <2>3. work'[w].n = work[w].n
    BY <2>2 DEF NewPlace
  <2> QED
    BY <1>1, <1>3, <2>1, <2>2, <2>3 DEF Op, Req
<1>4. ASSUME NEW v \in Workers, v # w, Step(v)
      PROVE  work'[w] = work[w]
  BY <1>4, StepShape, ShapeWork
<1>5. ASSUME NEW v \in Workers, NEW c \in Clients, NEW op \in Queries, NEW line \in Lines(op),
             Begin(v, c, op, line), work'[w] # work[w]
      PROVE  /\ work'[w].at \in {"parse", "check"} /\ work[w].at = "idle"
             /\ work'[w].n = Len(req) + 1
             /\ Op(w)' \in Parsed => work'[w].at = "parse"
  <2>1. v = w /\ work[w].at = "idle"
    BY <1>5, BeginEffect
  <2>4. /\ work'[w].n = Len(req) + 1 /\ work'[w].at = (IF op \in Parsed THEN "parse" ELSE "check")
        /\ req'[Len(req) + 1].op = op
    BY <1>5, <2>1, BeginFields
  <2>5. Op(w)' = op
    BY <2>4 DEF Op, Req
  <2> QED
    BY <2>1, <2>4, <2>5
<1>6. ASSUME NEW v \in Workers, Drop(v)
      PROVE  work'[w] = work[w]
  BY <1>6 DEF Drop
<1>7. UNCHANGED vars => work'[w] = work[w]
  BY DEF vars
<1>8. \/ work'[w] = work[w] \/ Step(w)
      \/ /\ work'[w].at \in {"parse", "check"} /\ work[w].at = "idle"
         /\ work'[w].n = Len(req) + 1
         /\ Op(w)' \in Parsed => work'[w].at = "parse"
  BY <1>4, <1>5, <1>6, <1>7 DEF Next
<1> QED
  BY <1>2, <1>3, <1>8

\* Only Begin alters the requests and the bufs.
LEMMA BufStep ==
  ASSUME TypeOK, LineInv, WorkInv, SeenInv, TextInv, [Next]_vars
  PROVE  \/ req' = req /\ buf' = buf
         \/ \E w \in Workers, c \in Clients, op \in Queries : \E line \in Lines(op) : Begin(w, c, op, line)
<1>1. \A w \in Workers : Step(w) => req' = req /\ buf' = buf
  BY StepShape DEF Shape
<1>2. \A w \in Workers : Drop(w) => req' = req /\ buf' = buf
  BY DEF Drop, history
<1>3. UNCHANGED vars => req' = req /\ buf' = buf
  BY DEF vars, history
<1> QED
  BY <1>1, <1>2, <1>3 DEF Next

LEMMA SeenStep ==
  ASSUME TypeOK, LineInv, WorkInv, SeenInv, TextInv, [Next]_vars
  PROVE  SeenInv'
<1>1. /\ \A n \in 1..Len(req) : req'[n] = req[n]
      /\ \A n \in DOMAIN ans : n \in DOMAIN ans'
  BY StepGrows DEF Grows
<1>2. ASSUME NEW w \in Workers, NEW c \in Clients, NEW op \in Queries, NEW line \in Lines(op),
             Begin(w, c, op, line)
      PROVE  SeenInv'
  <2>1. Len(req') = Len(req) + 1 /\ UNCHANGED <<users, data, txn, conn, user, ans, faults>>
    BY <1>2, BeginEffect
  <2>2. req'[Len(req) + 1].seen = DOMAIN ans
    BY <1>2, BeginFields
  <2>3. Len(req) \in Nat
    BY DEF TypeOK
  <2> QED
    BY <1>1, <2>1, <2>2, <2>3 DEF SeenInv
<1>3. CASE req' = req
  BY <1>1, <1>3 DEF SeenInv
<1> QED
  BY <1>2, <1>3, BufStep

\* A line that is overwritten stays overwritten, and one that is not has not been.
LEMMA OverwritesStay ==
  ASSUME TypeOK, LineInv, WorkInv, SeenInv, TextInv, [Next]_vars, NEW n \in 1..Len(req)
  PROVE  /\ \A m \in 1..Len(req) : Overwrites(m, n)' <=> Overwrites(m, n)
         /\ Own(n)' => Own(n)
<1>1. \A m \in 1..Len(req) : req'[m] = req[m] /\ m \in 1..Len(req')
  BY StepGrows, Longer DEF Grows
<1>2. \A m \in 1..Len(req) : Overwrites(m, n)' <=> Overwrites(m, n)
  BY <1>1 DEF Overwrites
<1> QED
  BY <1>1, <1>2 DEF Own

LEMMA BufInvStep ==
  ASSUME TypeOK, LineInv, WorkInv, SeenInv, TextInv, [Next]_vars, NEW n \in 1..Len(req')
  PROVE  LET b == buf'[req'[n].op]
         IN b \in 1..Len(req') /\ b >= n /\ req'[b].op = req'[n].op
<1>1. CASE req' = req /\ buf' = buf
  BY <1>1 DEF TextInv
<1>2. ASSUME NEW w \in Workers, NEW c \in Clients, NEW op \in Queries, NEW line \in Lines(op),
             Begin(w, c, op, line)
      PROVE  LET b == buf'[req'[n].op]
             IN b \in 1..Len(req') /\ b >= n /\ req'[b].op = req'[n].op
  <2>9. buf' = [buf EXCEPT ![op] = Len(req) + 1]
    BY <1>2 DEF Begin
  <2>0. Len(req') = Len(req) + 1 /\ \A m \in 1..Len(req) : req'[m] = req[m]
    BY <1>2, BeginGrows
  <2>1. buf'[op] = Len(req) + 1 /\ \A o \in Queries : o # op => buf'[o] = buf[o]
    BY <1>2, <2>9 DEF TypeOK
  <2>2. req'[Len(req) + 1].op = op /\ Len(req) \in Nat
    BY <1>2, BeginGrows
  <2>3. CASE req'[n].op = op
    BY <2>0, <2>1, <2>2, <2>3
  <2>4. CASE req'[n].op # op
    <3>1. n \in 1..Len(req) /\ req'[n] = req[n]
      BY <2>0, <2>2, <2>4
    <3>2. req[n].op \in Queries
      <4>1. req[n] \in Request
        BY <3>1 DEF TypeOK
      <4> QED
        BY <4>1 DEF Request
    <3>3. buf'[req'[n].op] = buf[req[n].op]
      BY <2>1, <2>4, <3>1, <3>2
    <3> DEFINE b == buf[req[n].op]
    <3>4. b \in 1..Len(req) /\ b >= n /\ req[b].op = req[n].op
      BY <3>1 DEF TextInv
    <3> HIDE DEF b
    <3>5. b \in 1..Len(req') /\ req'[b] = req[b]
      BY <2>0, <2>2, <3>4
    <3> QED
      BY <3>1, <3>3, <3>4, <3>5 DEF b
  <2> QED
    BY <2>3, <2>4
<1> QED
  BY <1>1, <1>2, BufStep

LEMMA TextStep ==
  ASSUME TypeOK, LineInv, WorkInv, SeenInv, TextInv, [Next]_vars
  PROVE  TextInv'
<1>1. ASSUME NEW w \in Workers, work'[w].at \notin {"idle", "parse"}, Op(w)' \in Parsed
      PROVE  work'[w].line \in 1..Len(req') /\ Named(work[w].n, work[w].line)'
  <2>1. ASSUME NEW n \in 1..Len(req), NEW l \in 1..Len(req), Named(n, l),
               work'[w].n = n, work'[w].line = l
        PROVE  work'[w].line \in 1..Len(req') /\ Named(work[w].n, work[w].line)'
    BY <2>1, Longer, OverwritesStay DEF Named, Overwrites
  <2>2. CASE work'[w] = work[w] /\ work[w].n \in 1..Len(req) /\ Op(w)' = Op(w)
    <3>1. work[w].line \in 1..Len(req) /\ Named(work[w].n, work[w].line)
      BY <1>1, <2>2 DEF TextInv
    <3> QED
      BY <2>1, <2>2, <3>1
  <2>3. CASE Step(w) /\ NewPlace(w) /\ work[w].n \in 1..Len(req) /\ Op(w)' = Op(w)
    <3>1. work'[w].n = work[w].n
      BY <2>3 DEF NewPlace
    <3>2. CASE Parse(w) /\ work'[w].line = buf[Op(w)]
      <4>1. work[w].at # "idle"
        BY <3>2 DEF Parse, At
      <4>2. buf[Op(w)] \in 1..Len(req) /\ Named(work[w].n, buf[Op(w)])
        BY <4>1, BufNamed
      <4> QED
        BY <2>1, <2>3, <3>1, <3>2, <4>2
    <3>3. CASE work'[w].line = work[w].line /\ work[w].at # "parse"
      <4>1. work[w].at # "idle"
        BY <2>3, StepShape DEF Shape
      <4>2. work[w].line \in 1..Len(req) /\ Named(work[w].n, work[w].line)
        BY <1>1, <2>3, <3>3, <4>1 DEF TextInv
      <4> QED
        BY <2>1, <2>3, <3>1, <3>3, <4>2
    <3> QED
      BY <2>3, <3>2, <3>3 DEF NewPlace
  <2> QED
    BY <1>1, <2>2, <2>3, OthersWork
<1> QED
  BY <1>1, BufInvStep DEF TextInv

\* A new answer is the answer of a worker's step.
LEMMA NewAnswers ==
  ASSUME TypeOK, LineInv, WorkInv, SeenInv, TextInv, [Next]_vars, NEW n \in DOMAIN ans', n \notin DOMAIN ans
  PROVE  \E w \in Workers : /\ Step(w) /\ NewAnswer(w, n) /\ work[w].n = n /\ n \in 1..Len(req)
                            /\ Op(w) = req[n].op /\ Req(w) = req[n] /\ req'[n] = req[n]
<1>1. ASSUME NEW w \in Workers, Step(w)
      PROVE  NewAnswer(w, n) /\ work[w].n = n /\ n \in 1..Len(req)
  <2>1. StepKind(w) /\ work[w].n \in 1..Len(req)
    BY <1>1, Kinds, StepShape DEF Shape, WorkInv
  <2>2. ~NewPlace(w)
    BY DEF NewPlace
  <2>3. NewAnswer(w, work[w].n) /\ DOMAIN ans' = DOMAIN ans \cup {work[w].n}
    BY <2>1, <2>2 DEF StepKind
  <2>4. n = work[w].n
    BY <2>3
  <2> QED
    BY <2>1, <2>3, <2>4
<1>2. \E w \in Workers : Step(w)
  <2>1. ans' # ans
    OBVIOUS
  <2> QED
    BY <2>1 DEF Next, Drop, Begin, history, vars
<1>3. \A m \in 1..Len(req) : req'[m] = req[m]
  BY StepGrows DEF Grows
<1> QED
  BY <1>1, <1>2, <1>3 DEF Op, Req

\* An answered request, before and after a step.
LEMMA AnsweredStays ==
  ASSUME TypeOK, LineInv, WorkInv, SeenInv, TextInv, [Next]_vars, NEW n \in DOMAIN ans
  PROVE  /\ n \in 1..Len(req) /\ n \in DOMAIN ans' /\ ans'[n] = ans[n] /\ req'[n] = req[n]
         /\ \A op : Succeeded(n, op)' <=> Succeeded(n, op)
         /\ Own(n)' => Own(n)
<1>1. n \in 1..Len(req) /\ n \in DOMAIN ans' /\ ans'[n] = ans[n] /\ req'[n] = req[n]
  BY StepGrows DEF TypeOK, Grows
<1> QED
  BY <1>1, OverwritesStay DEF Succeeded

\* What is answered to an operation that succeeds.
LEMMA NewSuccess ==
  ASSUME TypeOK, LineInv, WorkInv, SeenInv, TextInv, NEW w \in Workers, NEW n, NewAnswer(w, n),
         ans'[n].res = SUCCESS, Op(w) \in Operations
  PROVE  \/ Record(w) /\ work[w].at = "record" /\ ans'[n].row = work[w].row
         \/ Delete(w) /\ Op(w) = del
<1>1. SUCCESS \notin {disconnect, existing, not_exist}
  BY DEF SUCCESS, disconnect, existing, not_exist
<1>2. Register(w) => Op(w) = registration
  BY AskedAt DEF Register
<1>3. Op(w) \notin {registration, authentification}
  BY DEF Operations, get, edit, registration, authentification
<1> QED
  BY <1>1, <1>2, <1>3 DEF NewAnswer

\* The answers a request has seen do not change.
LEMMA SeenStays ==
  ASSUME TypeOK, LineInv, WorkInv, SeenInv, TextInv, [Next]_vars, NEW n \in 1..Len(req)
  PROVE  /\ req'[n] = req[n]
         /\ \A d \in req[n].seen : /\ d \in 1..Len(req) /\ d \in DOMAIN ans /\ d \in DOMAIN ans'
                                   /\ ans'[d] = ans[d] /\ req'[d] = req[d]
                                   /\ (SameEntry(d, n)' <=> SameEntry(d, n))
                                   /\ \A op : Succeeded(d, op)' <=> Succeeded(d, op)
                                   /\ Own(d)' => Own(d)
<1>1. req'[n] = req[n]
  BY StepGrows DEF Grows
<1>2. ASSUME NEW d \in req[n].seen
      PROVE  d \in 1..Len(req) /\ d \in DOMAIN ans
  BY <1>2 DEF SeenInv, TypeOK
<1> QED
  BY <1>1, <1>2, AnsweredStays DEF SameEntry
-----------------------------------------------------------------------------
(***************************************************************************)
(* What the tables data and transaction hold.                              *)
(***************************************************************************)

\* The rows are those of Adds, with names that fit.
DataInv == \A n \in DOMAIN data : /\ req[n].op = add /\ data[n] \notin Long
                                  /\ Own(n) => data[n] = req[n].name

\* A request makes its record once.
TxnInv == \A w \in Workers : work[w].at \notin {"idle", "delete"} => work[w].n \notin DOMAIN txn

\* A Del that goes on to its DELETE with its own line is on record, or its
\* DELETE will fail, or there is nothing to delete.
DelInv == \A w \in Workers :
            work[w].at = "delete" /\ buf[del] = work[w].n =>
              \/ work[w].n \in DOMAIN txn /\ txn[work[w].n] = Req(w).name
              \/ conn[w] # "up" \/ Req(w).name \in Long

\* Which steps change which table.
LEMMA TableStep ==
  ASSUME [Next]_vars
  PROVE  /\ data' = data \/ \E w \in Workers : Insert(w) \/ Delete(w)
         /\ txn' = txn \/ \E w \in Workers : Record(w)
         /\ users' = users \/ \E w \in Workers : Register(w) \/ Update(w)
<1>1. ASSUME NEW w \in Workers, Step(w)
      PROVE  /\ data' = data \/ Insert(w) \/ Delete(w)
             /\ txn' = txn \/ Record(w)
             /\ users' = users \/ Register(w) \/ Update(w)
  <2>1. Parse(w) \/ Lookup(w) \/ Reconnect(w) => database' = database
    BY DEF Parse, Lookup, Reconnect, database
  <2>2. Login(w) \/ Find(w) => database' = database
    BY DEF Login, Find, database
  <2>3. Register(w) \/ Update(w) => data' = data /\ txn' = txn
    BY DEF Register, Update
  <2>4. Insert(w) \/ Delete(w) => txn' = txn /\ users' = users
    BY DEF Insert, Delete
  <2>5. Record(w) => data' = data /\ users' = users
    BY DEF Record
  <2> QED
    BY <1>1, <2>1, <2>2, <2>3, <2>4, <2>5 DEF Step, database
<1>2. ASSUME NEW w \in Workers, Drop(w)
      PROVE  database' = database
  BY <1>2 DEF Drop, database
<1>3. ASSUME NEW w \in Workers, NEW c \in Clients, NEW op \in Queries, NEW line \in Lines(op),
             Begin(w, c, op, line)
      PROVE  database' = database
  BY <1>3 DEF Begin, database
<1>4. vars' = vars => database' = database
  BY DEF vars
<1>5. database' = database => data' = data /\ txn' = txn /\ users' = users
  BY DEF database
<1>6. CASE vars' = vars
  BY <1>4, <1>5, <1>6
<1>7. CASE Next
  BY <1>1, <1>2, <1>3, <1>5, <1>7 DEF Next
<1> QED
  BY <1>6, <1>7

\* The three ways of the table data.
LEMMA DataStep ==
  ASSUME TypeOK, LineInv, WorkInv, SeenInv, TextInv, [Next]_vars
  PROVE  \/ data' = data
         \/ \E w \in Workers : /\ Insert(w) /\ Op(w) = add /\ work[w].at \in {"check", "query"}
                               /\ Text(w).name \notin Long
                               /\ data' = With(data, work[w].n, Text(w).name)
         \/ \E w \in Workers : /\ Delete(w) /\ work[w].at = "delete" /\ Op(w) = del
                               /\ conn[w] = "up" /\ data' = Restrict(data, DOMAIN data \ Rows(w))
<1>1. ASSUME NEW w \in Workers, Insert(w), data' # data
      PROVE  /\ Op(w) = add /\ work[w].at \in {"check", "query"}
             /\ Text(w).name \notin Long /\ data' = With(data, work[w].n, Text(w).name)
  <2>1. PICK did \in BOOLEAN, fine \in BOOLEAN :
       /\ Query(w, Text(w).name \notin Long, did, fine)
       /\ data' = IF did THEN With(data, work[w].n, Text(w).name) ELSE data
    BY <1>1 DEF Insert
  <2>2. did => Text(w).name \notin Long
    BY <2>1, QueryEffect
  <2>3. Op(w) = add /\ work[w].at \in {"check", "query"}
    BY <1>1, AskedAt DEF Insert
  <2> QED
    BY <1>1, <2>1, <2>2, <2>3
<1>2. ASSUME NEW w \in Workers, Delete(w), data' # data
      PROVE  work[w].at = "delete" /\ Op(w) = del /\ conn[w] = "up"
             /\ data' = Restrict(data, DOMAIN data \ Rows(w))
  <2>1. PICK did \in BOOLEAN, fine \in BOOLEAN :
       /\ Query(w, TRUE, did, fine)
       /\ data' = IF did THEN Restrict(data, DOMAIN data \ Rows(w)) ELSE data
    BY <1>2 DEF Delete
  <2>2. did => conn[w] = "up"
    BY <2>1, QueryEffect
  <2>3. work[w].at = "delete" /\ Op(w) = del
    BY <1>2, RequestType DEF Delete, At, Fits
  <2> QED
    BY <1>2, <2>1, <2>2, <2>3
<1>3. \/ data' = data
      \/ \E w \in Workers : Insert(w) \/ Delete(w)
  BY TableStep
<1> QED
  BY <1>1, <1>2, <1>3

\* Where a row of data comes from, and how it goes.
LEMMA RowComes ==
  ASSUME TypeOK, LineInv, WorkInv, SeenInv, TextInv, [Next]_vars, NEW n \in DOMAIN data'
  PROVE  \/ n \in DOMAIN data /\ data'[n] = data[n]
         \/ \E w \in Workers : /\ Insert(w) /\ Op(w) = add /\ work[w].at \in {"check", "query"}
                               /\ n = work[w].n /\ n \in 1..Len(req) /\ n \notin DOMAIN ans
                               /\ Text(w).name \notin Long /\ data'[n] = Text(w).name
<1>1. ASSUME NEW w \in Workers, work[w].at \in {"check", "query"}
      PROVE  work[w].n \in 1..Len(req) /\ work[w].n \notin DOMAIN ans
  BY <1>1 DEF WorkInv
<1>2. \A w \in Workers : data' = With(data, work[w].n, Text(w).name) =>
        \/ n \in DOMAIN data /\ data'[n] = data[n]
        \/ n = work[w].n /\ data'[n] = Text(w).name
  BY DEF With
<1>3. \A w \in Workers : data' = Restrict(data, DOMAIN data \ Rows(w)) =>
        n \in DOMAIN data /\ data'[n] = data[n]
  BY DEF Restrict
<1> QED
  BY <1>1, <1>2, <1>3, DataStep

LEMMA RowGoes ==
  ASSUME TypeOK, LineInv, WorkInv, SeenInv, TextInv, [Next]_vars, NEW n \in DOMAIN data, n \notin DOMAIN data'
  PROVE  \E w \in Workers : /\ Delete(w) /\ work[w].at = "delete" /\ Op(w) = del
                            /\ conn[w] = "up" /\ n \in Rows(w)
<1>1. \A w \in Workers : data' # With(data, work[w].n, Text(w).name)
  BY DEF With
<1>2. \A w \in Workers : data' = Restrict(data, DOMAIN data \ Rows(w)) => n \in Rows(w)
  BY DEF Restrict
<1> QED
  BY <1>1, <1>2, DataStep

\* The table transaction only grows, by the record of a request.
LEMMA TxnStep ==
  ASSUME TypeOK, LineInv, WorkInv, SeenInv, TextInv, TxnInv, [Next]_vars
  PROVE  /\ \A n \in DOMAIN txn : n \in DOMAIN txn' /\ txn'[n] = txn[n]
         /\ \A n \in DOMAIN txn' : n \in DOMAIN txn \/ \E w \in Workers : Record(w) /\ n = work[w].n
<1>1. ASSUME NEW w \in Workers, Record(w)
      PROVE  /\ \A n \in DOMAIN txn : n \in DOMAIN txn' /\ txn'[n] = txn[n]
             /\ \A n \in DOMAIN txn' : n \in DOMAIN txn \/ n = work[w].n
  <2>1. txn' = txn \/ txn' = With(txn, work[w].n, Text(w).name)
    BY <1>1 DEF Record
  <2>2. work[w].at \in {"record", "check", "query"}
    BY <1>1, AskedAt DEF Record, At
  <2>3. work[w].n \notin DOMAIN txn
    BY <2>2 DEF TxnInv
  <2> QED
    BY <2>1, <2>3 DEF With
<1>2. txn' = txn \/ \E w \in Workers : Record(w)
  BY TableStep
<1> QED
  BY <1>1, <1>2

LEMMA DataInvStep ==
  ASSUME TypeOK, LineInv, WorkInv, SeenInv, TextInv, DataInv, [Next]_vars
  PROVE  DataInv'
<1> SUFFICES ASSUME NEW n \in DOMAIN data'
             PROVE  /\ req'[n].op = add /\ data'[n] \notin Long
                    /\ Own(n)' => data'[n] = req'[n].name
  BY DEF DataInv
<1>1. CASE n \in DOMAIN data /\ data'[n] = data[n]
  <2>1. n \in 1..Len(req)
    BY <1>1 DEF TypeOK
  <2>2. req'[n] = req[n] /\ (Own(n)' => Own(n))
    BY <2>1, StepGrows, OverwritesStay DEF Grows
  <2> QED
    BY <1>1, <2>2 DEF DataInv
<1>2. ASSUME NEW w \in Workers, Op(w) = add, work[w].at \in {"check", "query"},
             n = work[w].n, n \in 1..Len(req), Text(w).name \notin Long, data'[n] = Text(w).name
      PROVE  /\ req'[n].op = add /\ data'[n] \notin Long
             /\ Own(n)' => data'[n] = req'[n].name
  <2>1. req'[n] = req[n] /\ (Own(n)' => Own(n))
    BY <1>2, StepGrows, OverwritesStay DEF Grows
  <2>2. Own(n) => Text(w) = req[n]
    BY <1>2, TextType DEF Req
  <2> QED
    BY <1>2, <2>1, <2>2 DEF Op, Req
<1> QED
  BY <1>1, <1>2, RowComes

LEMMA TxnInvStep ==
  ASSUME TypeOK, LineInv, WorkInv, SeenInv, TextInv, TxnInv, [Next]_vars
  PROVE  TxnInv'
<1> SUFFICES ASSUME NEW w \in Workers, work'[w].at \notin {"idle", "delete"}, work'[w].n \in DOMAIN txn'
             PROVE  FALSE
  BY DEF TxnInv
<1>0. Len(req) \in Nat /\ \A n \in DOMAIN txn : n \in 1..Len(req)
  BY DEF TypeOK
<1>1. ASSUME NEW v \in Workers, Record(v), work'[w].n = work[v].n
      PROVE  FALSE
  <2>1. work[v].at # "idle" /\ work'[v].at \in {"idle", "delete"}
    <3>1. StepKind(v) /\ work[v].at # "idle"
      BY <1>1, Kinds, StepShape DEF Step, Shape
    <3>2. PICK did \in BOOLEAN, fine \in BOOLEAN :
            \/ Goto(v, "delete", fine, 0) /\ UNCHANGED <<user, ans>>
            \/ Answer(v, SUCCESS, fine, work[v].row)
      BY <1>1 DEF Record
    <3>3. work[v].row \in Nat
      BY DEF TypeOK, Work
    <3>4. Goto(v, "delete", fine, 0) => work'[v].at = "delete"
      BY <3>1, GotoPlace DEF Places
    <3>5. Answer(v, SUCCESS, fine, work[v].row) => work'[v] = Idle
      BY DEF Answer, TypeOK
    <3> QED
      BY <3>1, <3>2, <3>4, <3>5 DEF Idle
  <2>2. v # w
    BY <2>1
  <2>3. work'[w] = work[w]
    BY <1>1, <2>2, StepShape, ShapeWork DEF Step
  <2> QED
    BY <1>1, <2>1, <2>2, <2>3 DEF WorkInv
<1>2. work'[w].n \in DOMAIN txn
  BY <1>1, TxnStep
<1>3. CASE work'[w] = work[w]
  BY <1>2, <1>3 DEF TxnInv
<1>4. CASE Step(w) /\ NewPlace(w)
  <2>1. work[w].at # "idle" /\ work[w].at # "delete"
    <3>1. ~Delete(w) \/ work'[w].at = "idle"
      <4>1. Delete(w) => work'[w] = Idle
        BY DEF Delete, Answer, TypeOK
      <4> QED
        BY <4>1 DEF Idle
    <3>2. work[w].at # "idle"
      BY <1>4, StepShape DEF Shape
    <3>3. work[w].at = "delete" => Op(w) = del
      BY <3>2, RequestType DEF Fits
    <3>4. work[w].at # "delete"
      BY <1>4, <3>1, AskedAt DEF Step, Parse, Lookup, Reconnect, Register, Login, Find, Insert, Update,
         Record, At
    <3> QED
      BY <3>2, <3>4
  <2> QED
    BY <1>2, <1>4, <2>1 DEF TxnInv, NewPlace
<1>5. CASE work'[w].n = Len(req) + 1
  BY <1>0, <1>2, <1>5
<1> QED
  BY <1>3, <1>4, <1>5, OthersWork

LEMMA DelStep ==
  ASSUME TypeOK, LineInv, WorkInv, SeenInv, TextInv, TxnInv, DelInv, [Next]_vars
  PROVE  DelInv'
<1> SUFFICES ASSUME NEW w \in Workers, work'[w].at = "delete", buf'[del] = work'[w].n,
                    conn'[w] = "up", Req(w)'.name \notin Long
             PROVE  work'[w].n \in DOMAIN txn' /\ txn'[work'[w].n] = Req(w)'.name
  BY DEF DelInv
<1>0. Len(req) \in Nat /\ del \in Queries
  BY DEF TypeOK, Queries, Operations, get, add, del, edit
<1>1. ASSUME work'[w].n \in 1..Len(req)
      PROVE  buf[del] = work'[w].n
  <2>1. ASSUME NEW v \in Workers, NEW c \in Clients, NEW op \in Queries, NEW line \in Lines(op),
               Begin(v, c, op, line)
        PROVE  buf[del] = work'[w].n
    <3>1. buf' = [buf EXCEPT ![op] = Len(req) + 1] /\ buf \in [Queries -> 0..Len(req)]
      BY <2>1 DEF Begin, TypeOK
    <3> QED
      BY <1>0, <1>1, <3>1
  <2> QED
    BY <2>1, BufStep
<1>2. CASE work'[w] = work[w] /\ work[w].n \in 1..Len(req) /\ Req(w)' = Req(w)
  <2>1. conn[w] = "up"
    <3>1. ASSUME NEW v \in Workers, Step(v), v # w
          PROVE  conn'[w] = conn[w]
      BY <3>1, StepShape DEF Shape
    <3>2. Step(w) => work'[w] # work[w]
      <4>1. work[w].at = "delete" /\ Step(w) => Delete(w)
        BY AskedAt DEF Step, Parse, Lookup, Reconnect, Register, Login, Find, Insert, Update, Record, At
      <4>2. Delete(w) => work'[w] = Idle
        BY DEF Delete, Answer, TypeOK
      <4> QED
        BY <1>2, <4>1, <4>2 DEF Idle
    <3>3. ASSUME NEW v \in Workers, Drop(v)
          PROVE  conn'[w] = conn[w] \/ conn'[w] = "dead"
      BY <3>3 DEF Drop, TypeOK
    <3>4. ASSUME NEW v \in Workers, NEW c \in Clients, NEW op \in Queries, NEW line \in Lines(op),
                 Begin(v, c, op, line)
          PROVE  conn'[w] = conn[w]
      BY <3>4, BeginFields
    <3>5. UNCHANGED vars => conn'[w] = conn[w]
      BY DEF vars
    <3> QED
      BY <1>2, <3>1, <3>2, <3>3, <3>4, <3>5 DEF Next
  <2>2. work[w].n \in DOMAIN txn /\ txn[work[w].n] = Req(w).name
    BY <1>1, <1>2, <2>1 DEF DelInv
  <2> QED
    BY <1>2, <2>2, TxnStep
<1>3. CASE Step(w) /\ NewPlace(w) /\ work[w].n \in 1..Len(req) /\ Req(w)' = Req(w)
  <2>1. Record(w) /\ Op(w) = del /\ work'[w].n = work[w].n
    BY <1>3 DEF NewPlace
  <2>2. Text(w) = Req(w)
    BY <1>1, <1>3, <2>1 DEF Text, Source, Req, Parsed, del, add, registration, authentification
  <2>3. PICK did \in BOOLEAN, fine \in BOOLEAN :
          /\ Query(w, Text(w).name \notin Long, did, fine)
          /\ txn' = IF did THEN With(txn, work[w].n, Text(w).name) ELSE txn
    BY <2>1 DEF Record
  <2>4. did
    BY <1>3, <2>2, <2>3, QueryEffect
  <2> QED
    BY <1>3, <2>1, <2>2, <2>3, <2>4 DEF With
<1> QED
  BY <1>2, <1>3, OthersWork
-----------------------------------------------------------------------------
(***************************************************************************)
(* What is added stays.                                                    *)
(***************************************************************************)

Kept(n) == n \in DOMAIN data \/ Removed(n)

\* An Add that has done its INSERT without a failure has its row.
KeptInv == \A w \in Workers : work[w].at = "record" /\ Op(w) = add /\ work[w].clean /\ Own(work[w].n) =>
             Kept(work[w].n)

LEMMA RemovedStays ==
  ASSUME TypeOK, LineInv, WorkInv, SeenInv, TextInv, TxnInv, [Next]_vars,
         NEW n \in 1..Len(req), Removed(n)
  PROVE  Removed(n)'
<1>1. PICK d \in 1..Len(req) :
        /\ req[d].op = del /\ req[d].user = req[n].user /\ d \notin req[n].seen
        /\ \/ d \in DOMAIN txn /\ txn[d] = req[n].name
           \/ \E m \in 1..Len(req) : Overwrites(m, d) /\ req[m].name = req[n].name
  BY DEF Removed
<1>2. \A m \in 1..Len(req) : m \in 1..Len(req') /\ req'[m] = req[m]
  BY Longer, StepGrows DEF Grows
<1>3. d \in DOMAIN txn => d \in DOMAIN txn' /\ txn'[d] = txn[d]
  BY TxnStep
<1>4. \A m \in 1..Len(req) : Overwrites(m, d) => Overwrites(m, d)'
  BY OverwritesStay
<1>5. /\ d \in 1..Len(req') /\ req'[d].op = del /\ req'[d].user = req'[n].user /\ d \notin req'[n].seen
      /\ \/ d \in DOMAIN txn' /\ txn'[d] = req'[n].name
         \/ \E m \in 1..Len(req') : Overwrites(m, d)' /\ req'[m].name = req'[n].name
  BY <1>1, <1>2, <1>3, <1>4
<1> QED
  BY <1>5 DEF Removed

\* No step loses a row without the record of a deletion.
LEMMA KeptStays ==
  ASSUME TypeOK, LineInv, WorkInv, SeenInv, TextInv, DataInv, TxnInv, DelInv, [Next]_vars,
         NEW n \in 1..Len(req), Own(n), Kept(n)
  PROVE  Kept(n)'
<1>1. CASE Removed(n)
  BY <1>1, RemovedStays DEF Kept
<1>2. CASE n \in DOMAIN data /\ n \notin DOMAIN data'
  <2>1. PICK w \in Workers : /\ work[w].at = "delete" /\ Op(w) = del
                             /\ conn[w] = "up" /\ n \in Rows(w)
    BY <1>2, RowGoes
  <2>2. /\ req[n].user = Req(w).user /\ data[n] = Text(w).name
        /\ data[n] \notin Long /\ data[n] = req[n].name
    BY <2>1 DEF Rows, DataInv
  <2>3. PICK d \in 1..Len(req) : d = work[w].n /\ d \notin req[n].seen
    BY <2>1 DEF WorkInv, SeenInv
  <2>4. req[d].op = del /\ req[d].user = req[n].user /\ d \notin req[n].seen
    BY <2>1, <2>2, <2>3 DEF Op, Req
  <2>5. /\ Source(w) = buf[del] /\ Source(w) \in 1..Len(req) /\ Named(d, Source(w))
    BY <2>1, <2>3, TextType DEF Source, Parsed, del, add, registration, authentification
  <2>6. CASE Source(w) = d
    <3>1. d \in DOMAIN txn /\ txn[d] = Req(w).name
      BY <2>1, <2>2, <2>3, <2>5, <2>6 DEF DelInv, Text, Req
    <3>2. Req(w).name = req[n].name
      BY <2>2, <2>3, <2>6 DEF Text, Req
    <3>3. Removed(n)
      BY <2>4, <3>1, <3>2 DEF Removed
    <3> QED
      BY <3>3, RemovedStays DEF Kept
  <2>7. CASE Overwrites(Source(w), d)
    <3>1. req[Source(w)].name = req[n].name
      BY <2>2 DEF Text
    <3>2. Removed(n)
      BY <2>4, <2>5, <2>7, <3>1 DEF Removed
    <3> QED
      BY <3>2, RemovedStays DEF Kept
  <2> QED
    BY <2>5, <2>6, <2>7 DEF Named
<1> QED
  BY <1>1, <1>2 DEF Kept

\* Inserted without a failure.
LEMMA InsertKeeps ==
  ASSUME TypeOK, LineInv, WorkInv, SeenInv, TextInv, NEW w \in Workers, Insert(w), work'[w].clean
  PROVE  work[w].n \in DOMAIN data'
<1>1. PICK did \in BOOLEAN, fine \in BOOLEAN :
       /\ Query(w, Text(w).name \notin Long, did, fine)
       /\ data' = IF did THEN With(data, work[w].n, Text(w).name) ELSE data
       /\ Goto(w, "record", fine, 0)
  BY DEF Insert
<1>2. work[w].at # "idle"
  BY AskedAt DEF Insert
<1>3. fine
  BY <1>1, <1>2, GotoPlace DEF Places
<1>4. did
  BY <1>1, <1>3, QueryEffect
<1> QED
  BY <1>1, <1>4 DEF With

LEMMA KeptInvStep ==
  ASSUME TypeOK, LineInv, WorkInv, SeenInv, TextInv, DataInv, TxnInv, DelInv, KeptInv, [Next]_vars
  PROVE  KeptInv'
<1> SUFFICES ASSUME NEW w \in Workers, work'[w].at = "record", Op(w)' = add, work'[w].clean,
                    Own(work[w].n)'
             PROVE  Kept(work[w].n)'
  BY DEF KeptInv
<1>0. PICK n : n = work'[w].n
  OBVIOUS
<1>1. CASE work'[w] = work[w] /\ work[w].n \in 1..Len(req) /\ Op(w)' = Op(w)
  <2>1. n \in 1..Len(req) /\ Own(n)'
    BY <1>0, <1>1
  <2>2. Own(n)
    BY <2>1, OverwritesStay
  <2>3. Kept(n)
    BY <1>0, <1>1, <2>2 DEF KeptInv
  <2>4. Kept(n)'
    BY <2>1, <2>2, <2>3, KeptStays
  <2> QED
    BY <1>0, <2>4
<1>2. CASE Step(w) /\ NewPlace(w) /\ work[w].n \in 1..Len(req) /\ Op(w)' = Op(w)
  <2>1. Op(w) = add
    BY <1>2
  <2>2. Insert(w) /\ work'[w].n = work[w].n
    BY <1>2, <2>1 DEF NewPlace, get, add, edit, del
  <2>3. n \in DOMAIN data'
    BY <1>0, <2>2, InsertKeeps
  <2>4. Kept(n)'
    BY <2>3 DEF Kept
  <2> QED
    BY <1>0, <2>4
<1> QED
  BY <1>1, <1>2, OthersWork

LEMMA StaysStep ==
  ASSUME TypeOK, LineInv, WorkInv, SeenInv, TextInv, DataInv, TxnInv, DelInv, KeptInv, AddedStays,
         [Next]_vars
  PROVE  AddedStays'
<1> SUFFICES ASSUME NEW n \in DOMAIN ans', Succeeded(n, add)', ans'[n].clean, Own(n)'
             PROVE  Kept(n)'
  BY DEF AddedStays, Kept
<1>1. CASE n \in DOMAIN ans
  <2>1. n \in 1..Len(req) /\ ans'[n] = ans[n] /\ Succeeded(n, add) /\ Own(n)
    BY <1>1, AnsweredStays
  <2>2. Kept(n)
    BY <1>1, <2>1 DEF AddedStays, Kept
  <2> QED
    BY <2>1, <2>2, KeptStays
<1>2. CASE n \notin DOMAIN ans
  <2>1. PICK w \in Workers : /\ Step(w) /\ NewAnswer(w, n) /\ work[w].n = n /\ n \in 1..Len(req)
                             /\ Op(w) = req[n].op /\ req'[n] = req[n]
    BY <1>2, NewAnswers
  <2>2. Op(w) = add /\ ans'[n].res = SUCCESS
    BY <2>1 DEF Succeeded
  <2>3. Op(w) \in Operations /\ Op(w) # del
    BY <2>2 DEF Operations, get, edit, add, del
  <2>4. work[w].at = "record"
    BY <2>1, <2>2, <2>3, NewSuccess
  <2>5. Own(n)
    BY <2>1, OverwritesStay
  <2>6. Kept(n)
    BY <2>1, <2>2, <2>4, <2>5 DEF KeptInv, NewAnswer
  <2> QED
    BY <2>1, <2>5, <2>6, KeptStays
<1> QED
  BY <1>1, <1>2
-----------------------------------------------------------------------------
(***************************************************************************)
(* What a Get finds and an Add does not.                                   *)
(***************************************************************************)

\* The row r that request n reads is not one that a deletion before n had seen.
GoodRow(r, n) == \A d \in req[n].seen : Succeeded(d, del) /\ Own(d) /\ SameEntry(d, n) =>
                   r \notin req[d].seen

RowInv  == \A w \in Workers : work[w].at = "record" /\ Op(w) = get /\ Own(work[w].n) =>
             GoodRow(work[w].row, work[w].n)
ReadInv == \A n \in DOMAIN ans : Succeeded(n, get) /\ Own(n) => GoodRow(ans[n].row, n)
MissInv == \A n \in DOMAIN ans :
             req[n].op = get /\ Own(n) /\ ans[n].clean /\ ans[n].res = not_exist =>
               \A m \in req[n].seen :
                 Succeeded(m, add) /\ ans[m].clean /\ Own(m) /\ SameEntry(m, n) => Removed(m)

\* None of the rows of that name that n's client could know of is there.
Clear(n, name) == \A m \in req[n].seen : m \in DOMAIN data =>
                    ~(req[m].user = req[n].user /\ data[m] = name)

GoneInv  == \A d \in DOMAIN ans : Succeeded(d, del) /\ Own(d) => Clear(d, req[d].name)
EntryInv == /\ \A w \in Workers : /\ Op(w) = add /\ work[w].at \in {"check", "query", "record"}
                                  /\ work[w].clean
                                  => Clear(work[w].n, Text(w).name)
            /\ \A n \in DOMAIN data : CleanSoFar(n) => Clear(n, data[n])

\* An answered Add is not inserted again.
LEMMA ClearStays ==
  ASSUME TypeOK, LineInv, WorkInv, SeenInv, TextInv, [Next]_vars,
         NEW n \in 1..Len(req), NEW name, Clear(n, name)
  PROVE  Clear(n, name)'
<1>1. req'[n] = req[n]
  BY StepGrows DEF Grows
<1> SUFFICES ASSUME NEW m \in req'[n].seen, m \in DOMAIN data'
             PROVE  ~(req'[m].user = req'[n].user /\ data'[m] = name)
  BY DEF Clear
<1>2. m \in DOMAIN ans /\ req'[m] = req[m] /\ m \in req[n].seen
  BY <1>1, SeenStays
<1>3. m \in DOMAIN data /\ data'[m] = data[m]
  BY <1>2, RowComes
<1> QED
  BY <1>1, <1>2, <1>3 DEF Clear

LEMMA GoodStays ==
  ASSUME TypeOK, LineInv, WorkInv, SeenInv, TextInv, [Next]_vars, NEW n \in 1..Len(req), NEW r, GoodRow(r, n)
  PROVE  GoodRow(r, n)'
<1> SUFFICES ASSUME NEW d \in req'[n].seen, Succeeded(d, del)', Own(d)', SameEntry(d, n)'
             PROVE  r \notin req'[d].seen
  BY DEF GoodRow
<1>1. d \in req[n].seen
  BY SeenStays
<1>2. Succeeded(d, del) /\ Own(d) /\ SameEntry(d, n) /\ req'[d] = req[d]
  BY <1>1, SeenStays
<1> QED
  BY <1>1, <1>2 DEF GoodRow

\* What a SELECT has returned.
LEMMA FindRow ==
  ASSUME TypeOK, LineInv, WorkInv, SeenInv, TextInv, NEW w \in Workers, Find(w), work'[w].at # "idle"
  PROVE  work'[w].row \in Rows(w)
<1>1. work[w].at \in {"check", "query"}
  BY AskedAt DEF Find
<1>2. PICK fine \in BOOLEAN :
        \/ \E n \in Rows(w) : Goto(w, "record", fine, n)
        \/ Answer(w, not_exist, fine, 0)
  BY DEF Find
<1>3. ~Answer(w, not_exist, fine, 0)
  <2>1. Answer(w, not_exist, fine, 0) => work'[w] = Idle
    BY DEF Answer, TypeOK
  <2>2. Idle.at = "idle"
    BY DEF Idle
  <2> QED
    BY <2>1, <2>2
<1>4. ASSUME NEW n \in Rows(w), Goto(w, "record", fine, n)
      PROVE  work'[w].row = n
  <2>1. n \in Nat
    BY RowsNumbers
  <2> QED
    BY <1>1, <1>4, <2>1, GotoPlace DEF Places
<1> QED
  BY <1>2, <1>3, <1>4

LEMMA FindMiss ==
  ASSUME TypeOK, LineInv, WorkInv, SeenInv, TextInv, NEW w \in Workers, Find(w), work'[w].at = "idle",
         ans'[work[w].n].clean
  PROVE  Rows(w) = {}
<1>1. work[w].at \in {"check", "query"}
  BY AskedAt DEF Find
<1>2. PICK fine \in BOOLEAN :
        \/ \E n \in Rows(w) : Goto(w, "record", fine, n)
        \/ (fine => Rows(w) = {}) /\ Answer(w, not_exist, fine, 0)
  BY DEF Find
<1>3. ASSUME NEW n \in Rows(w), Goto(w, "record", fine, n)
      PROVE  FALSE
  <2>1. n \in Nat
    BY RowsNumbers
  <2>2. work'[w].at = "record"
    BY <1>1, <1>3, <2>1, GotoPlace DEF Places
  <2> QED
    BY <2>2
<1>4. ASSUME Answer(w, not_exist, fine, 0)
      PROVE  fine
  <2>1. PICK k : k = work[w].n
    OBVIOUS
  <2>2. ans'[k] = [res |-> not_exist, clean |-> work[w].clean /\ fine, row |-> 0]
    BY <1>4, <2>1 DEF Answer, With
  <2>3. ans'[k].clean = (work[w].clean /\ fine)
    BY <2>2
  <2> QED
    BY <2>1, <2>3
<1> QED
  BY <1>2, <1>3, <1>4

LEMMA LookupNone ==
  ASSUME TypeOK, LineInv, WorkInv, SeenInv, TextInv, NEW w \in Workers, Lookup(w),
         work'[w].at = "check", work'[w].clean
  PROVE  Rows(w) = {}
<1>1. PICK fine \in BOOLEAN :
        IF fine /\ Rows(w) # {}
        THEN Answer(w, existing, fine, 0)
        ELSE Goto(w, "check", fine, 0) /\ UNCHANGED <<user, ans>>
  BY DEF Lookup
<1>2. work[w].at = "lookup"
  BY DEF Lookup, At
<1>3. ~Answer(w, existing, fine, 0)
  <2>1. Answer(w, existing, fine, 0) => work'[w] = Idle
    BY DEF Answer, TypeOK
  <2>2. Idle.at = "idle"
    BY DEF Idle
  <2> QED
    BY <2>1, <2>2
<1>4. Goto(w, "check", fine, 0) => fine
  BY <1>2, GotoPlace DEF Places
<1> QED
  BY <1>1, <1>3, <1>4

LEMMA RowStep ==
  ASSUME TypeOK, LineInv, WorkInv, SeenInv, TextInv, GoneInv, RowInv, [Next]_vars
  PROVE  RowInv'
<1> SUFFICES ASSUME NEW w \in Workers, work'[w].at = "record", Op(w)' = get, Own(work[w].n)'
             PROVE  GoodRow(work[w].row, work[w].n)'
  BY DEF RowInv
<1>0. PICK n, r : n = work'[w].n /\ r = work'[w].row
  OBVIOUS
<1>1. ASSUME n \in 1..Len(req), GoodRow(r, n)
      PROVE  GoodRow(work[w].row, work[w].n)'
  <2>1. GoodRow(r, n)'
    BY <1>1, GoodStays
  <2> QED
    BY <1>0, <2>1
<1>2. n \in 1..Len(req) => Own(n)
  <2>1. Own(n)'
    BY <1>0
  <2> QED
    BY <2>1, OverwritesStay
<1>3. CASE work'[w] = work[w] /\ work[w].n \in 1..Len(req) /\ Op(w)' = Op(w)
  BY <1>0, <1>1, <1>2, <1>3 DEF RowInv
<1>4. CASE Step(w) /\ NewPlace(w) /\ work[w].n \in 1..Len(req) /\ Op(w)' = Op(w)
  <2>1. Find(w) /\ n = work[w].n /\ Op(w) = get
    BY <1>0, <1>4 DEF NewPlace, get, add, edit, del
  <2>2. r \in Rows(w)
    BY <1>0, <2>1, FindRow
  <2>3. Text(w) = req[n] /\ Req(w) = req[n]
    <3>1. work[w].at \notin {"idle", "parse"}
      BY <2>1, AskedAt DEF Find
    <3> QED
      BY <1>2, <1>4, <2>1, <3>1, TextType DEF Req
  <2>4. r \in DOMAIN data /\ req[r].user = req[n].user /\ data[r] = req[n].name
    BY <2>2, <2>3 DEF Rows
  <2>5. ASSUME NEW d \in req[n].seen, Succeeded(d, del), Own(d), SameEntry(d, n)
        PROVE  r \notin req[d].seen
    <3>1. Clear(d, req[d].name)
      BY <1>4, <2>1, <2>5 DEF SeenInv, GoneInv
    <3> QED
      BY <2>4, <2>5, <3>1 DEF Clear, SameEntry
  <2> QED
    BY <1>1, <1>4, <2>1, <2>5 DEF GoodRow
<1> QED
  BY <1>3, <1>4, OthersWork

LEMMA ReadStep ==
  ASSUME TypeOK, LineInv, WorkInv, SeenInv, TextInv, RowInv, ReadInv, [Next]_vars
  PROVE  ReadInv'
<1> SUFFICES ASSUME NEW n \in DOMAIN ans', Succeeded(n, get)', Own(n)'
             PROVE  GoodRow(ans[n].row, n)'
  BY DEF ReadInv
<1>0. PICK r : r = ans'[n].row
  OBVIOUS
<1>1. ASSUME n \in 1..Len(req), GoodRow(r, n)
      PROVE  GoodRow(ans[n].row, n)'
  <2>1. GoodRow(r, n)'
    BY <1>1, GoodStays
  <2> QED
    BY <1>0, <2>1
<1>2. CASE n \in DOMAIN ans
  BY <1>0, <1>1, <1>2, AnsweredStays DEF ReadInv
<1>3. CASE n \notin DOMAIN ans
  <2>1. PICK w \in Workers : /\ Step(w) /\ NewAnswer(w, n) /\ work[w].n = n /\ n \in 1..Len(req)
                             /\ Op(w) = req[n].op /\ req'[n] = req[n]
    BY <1>3, NewAnswers
  <2>2. Op(w) = get /\ ans'[n].res = SUCCESS
    BY <2>1 DEF Succeeded
  <2>3. Op(w) \in Operations /\ Op(w) # del
    BY <2>2 DEF Operations, get, edit, add, del
  <2>4. work[w].at = "record" /\ r = work[w].row
    BY <1>0, <2>1, <2>2, <2>3, NewSuccess
  <2>5. Own(n)
    BY <2>1, OverwritesStay
  <2>6. GoodRow(r, n)
    BY <2>1, <2>2, <2>4, <2>5 DEF RowInv
  <2> QED
    BY <1>1, <2>1, <2>6
<1> QED
  BY <1>2, <1>3

\* Only Find answers a Get with not_exist.
LEMMA NewMiss ==
  ASSUME TypeOK, LineInv, WorkInv, SeenInv, TextInv, NEW w \in Workers, NEW n, NewAnswer(w, n),
         ans'[n].res = not_exist, Op(w) = get
  PROVE  Find(w)
<1>1. not_exist \notin {disconnect, SUCCESS}
  BY DEF SUCCESS, disconnect, not_exist
<1>2. Register(w) => Op(w) = registration
  BY AskedAt DEF Register
<1>3. Op(w) \notin {registration, authentification, add, del}
  BY DEF get, add, del, registration, authentification
<1> QED
  BY <1>1, <1>2, <1>3 DEF NewAnswer

LEMMA MissStep ==
  ASSUME TypeOK, LineInv, WorkInv, SeenInv, TextInv, DataInv, TxnInv, AddedStays, MissInv, [Next]_vars
  PROVE  MissInv'
<1> SUFFICES ASSUME NEW n \in DOMAIN ans',
                    req'[n].op = get, Own(n)', ans'[n].clean, ans'[n].res = not_exist,
                    NEW m \in req'[n].seen,
                    Succeeded(m, add)', ans'[m].clean, Own(m)', SameEntry(m, n)'
             PROVE  Removed(m)'
  BY DEF MissInv
<1>1. n \in 1..Len(req)
  BY AnsweredStays, NewAnswers
<1>2. /\ m \in req[n].seen /\ m \in 1..Len(req) /\ m \in DOMAIN ans
      /\ Succeeded(m, add) /\ ans[m].clean /\ Own(m) /\ SameEntry(m, n)
  BY <1>1, SeenStays
<1>3. Removed(m)
  <2>1. CASE n \in DOMAIN ans
    <3>1. ans'[n] = ans[n] /\ req'[n] = req[n] /\ Own(n)
      BY <2>1, AnsweredStays
    <3> QED
      BY <1>2, <2>1, <3>1 DEF MissInv
  <2>2. CASE n \notin DOMAIN ans
    <3>1. PICK w \in Workers : /\ Step(w) /\ NewAnswer(w, n) /\ work[w].n = n /\ n \in 1..Len(req)
                               /\ Op(w) = req[n].op /\ Req(w) = req[n] /\ req'[n] = req[n]
      BY <2>2, NewAnswers
    <3>2. Find(w) /\ work'[w].at = "idle"
      BY <3>1, NewMiss DEF NewAnswer, Idle
    <3>3. Rows(w) = {}
      BY <3>1, <3>2, FindMiss
    <3>4. Text(w) = req[n]
      <4>1. work[w].at \notin {"idle", "parse"}
        BY <3>2, AskedAt DEF Find
      <4>2. Own(n)
        BY <1>1, OverwritesStay
      <4> QED
        BY <3>1, <4>1, <4>2, TextType
    <3>5. m \notin DOMAIN data
      <4>1. m \in DOMAIN data => data[m] = req[n].name /\ req[m].user = req[n].user
        BY <1>2 DEF DataInv, SameEntry
      <4> QED
        BY <3>1, <3>3, <3>4, <4>1 DEF Rows
    <3> QED
      BY <1>2, <3>5 DEF AddedStays
  <2> QED
    BY <2>1, <2>2
<1> QED
  BY <1>2, <1>3, RemovedStays

\* A Del that succeeds leaves no row of its entry.
LEMMA DeleteClears ==
  ASSUME TypeOK, LineInv, WorkInv, SeenInv, TextInv, NEW w \in Workers, Delete(w),
         ans'[work[w].n].res = SUCCESS
  PROVE  data' = Restrict(data, DOMAIN data \ Rows(w)) /\ req' = req
<1>1. PICK did \in BOOLEAN, fine \in BOOLEAN :
       /\ Query(w, TRUE, did, fine)
       /\ data' = IF did THEN Restrict(data, DOMAIN data \ Rows(w)) ELSE data
       /\ Answer(w, IF fine THEN SUCCESS ELSE not_exist, fine, 0)
  BY DEF Delete
<1>2. work[w].at # "idle"
  BY DEF Delete, At
<1>3. fine
  <2>1. CASE ~fine
    <3>1. Answer(w, not_exist, FALSE, 0)
      <4>1. fine = FALSE /\ (IF fine THEN SUCCESS ELSE not_exist) = not_exist
        BY <1>1, <2>1
      <4> QED
        BY <1>1, <4>1
    <3>2. ans'[work[w].n].res = not_exist
      BY <1>2, <3>1, AnswerGiven, Operation
    <3> QED
      BY <3>2 DEF not_exist, SUCCESS
  <2> QED
    BY <2>1
<1>4. did
  BY <1>1, <1>3, QueryEffect
<1> QED
  BY <1>1, <1>4 DEF Delete

LEMMA GoneStep ==
  ASSUME TypeOK, LineInv, WorkInv, SeenInv, TextInv, GoneInv, [Next]_vars
  PROVE  GoneInv'
<1> SUFFICES ASSUME NEW d \in DOMAIN ans', Succeeded(d, del)', Own(d)'
             PROVE  Clear(d, req[d].name)'
  BY DEF GoneInv
<1>1. CASE d \in DOMAIN ans
  <2>1. d \in 1..Len(req) /\ req'[d] = req[d] /\ Succeeded(d, del) /\ Own(d)
    BY <1>1, AnsweredStays
  <2>2. PICK name : name = req[d].name
    OBVIOUS
  <2>3. Clear(d, name)
    BY <1>1, <2>1, <2>2 DEF GoneInv
  <2>4. Clear(d, name)'
    BY <2>1, <2>3, ClearStays
  <2> QED
    BY <2>1, <2>2, <2>4
<1>2. CASE d \notin DOMAIN ans
  <2>1. PICK w \in Workers : /\ Step(w) /\ NewAnswer(w, d) /\ work[w].n = d /\ d \in 1..Len(req)
                             /\ Op(w) = req[d].op /\ Req(w) = req[d] /\ req'[d] = req[d]
    BY <1>2, NewAnswers
  <2>2. Op(w) = del /\ ans'[d].res = SUCCESS
    BY <2>1 DEF Succeeded
  <2>3. Op(w) \in Operations /\ Op(w) \notin {get, add, edit}
    BY <2>2 DEF Operations, get, edit, add, del
  <2>4. work[w].at # "record"
    BY <2>1, <2>3, StepShape, RequestType DEF Shape, Fits
  <2>5. Delete(w) /\ work[w].at = "delete"
    BY <2>1, <2>2, <2>3, <2>4, NewSuccess DEF Delete, At
  <2>6. data' = Restrict(data, DOMAIN data \ Rows(w)) /\ req' = req
    BY <2>1, <2>2, <2>5, DeleteClears
  <2>7. Text(w) = req[d]
    BY <2>1, <2>5, OverwritesStay, TextType
  <2>8. \A m \in DOMAIN data' : ~(req[m].user = req[d].user /\ data'[m] = req[d].name)
    BY <2>1, <2>6, <2>7 DEF Rows, Restrict
  <2> QED
    BY <2>6, <2>8 DEF Clear
<1> QED
  BY <1>1, <1>2

\* What becomes of the request of a worker.
LEMMA WorkGoes ==
  ASSUME TypeOK, LineInv, WorkInv, SeenInv, TextInv, [Next]_vars, NEW w \in Workers, work[w].at # "idle"
  PROVE  \/ work'[w] = work[w]
         \/ work'[w].n = work[w].n /\ (work'[w].clean => work[w].clean)
         \/ work[w].n \in DOMAIN ans' /\ (ans'[work[w].n].clean => work[w].clean)
<1>1. CASE Step(w)
  <2>1. StepKind(w)
    BY <1>1, Kinds
  <2> QED
    BY <2>1 DEF StepKind, NewPlace, NewAnswer
<1>2. ASSUME NEW v \in Workers, v # w, Step(v)
      PROVE  work'[w] = work[w]
  BY <1>2, StepShape, ShapeWork
<1>3. ASSUME NEW v \in Workers, NEW c \in Clients, NEW op \in Queries, NEW line \in Lines(op),
             Begin(v, c, op, line)
      PROVE  work'[w] = work[w]
  BY <1>3, BeginEffect
<1>4. ASSUME NEW v \in Workers, Drop(v)
      PROVE  work'[w] = work[w]
  BY <1>4 DEF Drop
<1>5. UNCHANGED vars => work'[w] = work[w]
  BY DEF vars
<1> QED
  BY <1>1, <1>2, <1>3, <1>4, <1>5 DEF Next

\* A failure is not forgotten.
LEMMA CleanStays ==
  ASSUME TypeOK, LineInv, WorkInv, SeenInv, TextInv, [Next]_vars, NEW n \in 1..Len(req), CleanSoFar(n)'
  PROVE  CleanSoFar(n)
<1>1. CASE n \in DOMAIN ans
  <2>1. n \in DOMAIN ans' /\ ans'[n] = ans[n]
    BY <1>1, StepGrows DEF Grows
  <2> QED
    BY <1>1, <2>1 DEF CleanSoFar
<1>2. ASSUME n \notin DOMAIN ans, NEW w \in Workers, work[w].n = n
      PROVE  work[w].clean
  <2>1. work[w].at # "idle"
    BY <1>2 DEF TypeOK, At
  <2>2. CASE n \notin DOMAIN ans'
    <3>1. \A v \in Workers : work'[v].n = n => work'[v].clean
      BY <2>2 DEF CleanSoFar
    <3>2. work'[w] = work[w] \/ (work'[w].n = work[w].n /\ (work'[w].clean => work[w].clean))
      BY <1>2, <2>1, <2>2, WorkGoes
    <3> QED
      BY <1>2, <3>1, <3>2
  <2>3. CASE n \in DOMAIN ans'
    <3>1. PICK v \in Workers : NewAnswer(v, n) /\ work[v].n = n
      BY <1>2, <2>3, NewAnswers
    <3>2. v = w
      BY <1>2, <2>1, <3>1 DEF WorkInv
    <3>3. ans'[n].clean
      BY <2>3 DEF CleanSoFar
    <3> QED
      BY <3>1, <3>2, <3>3 DEF NewAnswer
  <2> QED
    BY <2>2, <2>3
<1> QED
  BY <1>1, <1>2 DEF CleanSoFar

\* An Add that has looked and found nothing.
LEMMA LookedStep ==
  ASSUME TypeOK, LineInv, WorkInv, SeenInv, TextInv, EntryInv, [Next]_vars,
         NEW w \in Workers, Op(w)' = add, work'[w].at \in {"check", "query", "record"}, work'[w].clean
  PROVE  Clear(work[w].n, Text(w).name)'
<1>0. PICK n, name : n = work'[w].n /\ name = (Text(w).name)'
  OBVIOUS
<1>1. ASSUME n \in 1..Len(req), Clear(n, name)
      PROVE  Clear(work[w].n, Text(w).name)'
  <2>1. Clear(n, name)'
    BY <1>1, ClearStays
  <2> QED
    BY <1>0, <2>1
<1>2. ASSUME work[w].n \in 1..Len(req), work'[w].n = work[w].n, work'[w].line = work[w].line,
             work[w].at \notin {"idle", "parse"}, Op(w)' = Op(w)
      PROVE  name = Text(w).name
  <2>1. Op(w) \in Parsed
    BY <1>2 DEF Parsed
  <2>2. work[w].line \in 1..Len(req)
    BY <1>2, <2>1 DEF TextInv
  <2>3. Text(w) = req[work[w].line] /\ Text(w)' = req'[work[w].line]
    BY <1>2, <2>1 DEF Text, Source
  <2>4. req'[work[w].line] = req[work[w].line]
    BY <2>2, StepGrows DEF Grows
  <2> QED
    BY <1>0, <2>3, <2>4
<1>3. CASE work'[w] = work[w] /\ work[w].n \in 1..Len(req) /\ Op(w)' = Op(w)
  <2>1. name = Text(w).name
    BY <1>2, <1>3
  <2>2. Clear(n, name)
    BY <1>0, <1>3, <2>1 DEF EntryInv
  <2> QED
    BY <1>0, <1>1, <1>3, <2>2
<1>4. CASE Step(w) /\ NewPlace(w) /\ work[w].n \in 1..Len(req) /\ Op(w)' = Op(w)
  <2>1. Op(w) = add /\ n = work[w].n /\ work'[w].n = work[w].n /\ work[w].clean
    BY <1>0, <1>4 DEF NewPlace
  <2>2. ~(Parse(w) /\ work'[w].at = "lookup")
    OBVIOUS
  <2>3. /\ work'[w].line = work[w].line /\ work[w].at # "parse"
        /\ \/ Lookup(w) /\ work'[w].at = "check"
           \/ Reconnect(w)
           \/ Insert(w)
    BY <1>4, <2>1 DEF NewPlace, get, add, edit, del
  <2>4. work[w].at # "idle"
    BY <1>4, StepShape DEF Shape
  <2>5. name = Text(w).name
    BY <1>2, <1>4, <2>1, <2>3, <2>4
  <2>6. CASE Lookup(w) /\ work'[w].at = "check"
    <3>1. Rows(w) = {}
      BY <2>6, LookupNone
    <3> QED
      BY <1>1, <1>4, <2>1, <2>5, <3>1 DEF Rows, Clear, Req
  <2>7. CASE Reconnect(w) \/ Insert(w)
    <3>1. work[w].at \in {"check", "query"}
      BY <2>7, AskedAt DEF Reconnect, At, Insert
    <3> QED
      BY <1>1, <1>4, <2>1, <2>5, <3>1 DEF EntryInv
  <2> QED
    BY <2>3, <2>6, <2>7
<1>5. ASSUME work'[w].at \in {"parse", "check"}, Op(w)' \in Parsed => work'[w].at = "parse"
      PROVE  FALSE
  BY <1>5 DEF Parsed
<1> QED
  BY <1>3, <1>4, <1>5, OthersWork

LEMMA EntryStep ==
  ASSUME TypeOK, LineInv, WorkInv, SeenInv, TextInv, EntryInv, [Next]_vars
  PROVE  EntryInv'
<1>1. ASSUME NEW n \in DOMAIN data', CleanSoFar(n)'
      PROVE  Clear(n, data[n])'
  <2>0. PICK name : name = data'[n]
    OBVIOUS
  <2>1. ASSUME n \in 1..Len(req), Clear(n, name)
        PROVE  Clear(n, data[n])'
    <3>1. Clear(n, name)'
      BY <2>1, ClearStays
    <3> QED
      BY <2>0, <3>1
  <2>2. CASE n \in DOMAIN data /\ data'[n] = data[n]
    <3>1. n \in 1..Len(req)
      BY <2>2 DEF TypeOK
    <3> QED
      BY <1>1, <2>0, <2>1, <2>2, <3>1, CleanStays DEF EntryInv
  <2>3. ASSUME NEW w \in Workers, Insert(w), Op(w) = add, work[w].at \in {"check", "query"},
               n = work[w].n, n \in 1..Len(req), data'[n] = Text(w).name
        PROVE  Clear(n, data[n])'
    <3>1. CleanSoFar(n) /\ n \notin DOMAIN ans
      BY <1>1, <2>3, CleanStays DEF WorkInv
    <3>2. work[w].clean
      BY <2>3, <3>1 DEF CleanSoFar
    <3>3. Clear(n, name)
      BY <2>0, <2>3, <3>2 DEF EntryInv
    <3> QED
      BY <2>1, <2>3, <3>3
  <2> QED
    BY <2>2, <2>3, RowComes
<1>2. ASSUME NEW w \in Workers, Op(w)' = add, work'[w].at \in {"check", "query", "record"},
             work'[w].clean
      PROVE  Clear(work[w].n, Text(w).name)'
  BY <1>2, LookedStep
<1> QED
  BY <1>1, <1>2 DEF EntryInv
-----------------------------------------------------------------------------
(***************************************************************************)
(* Who logs in.                                                            *)
(***************************************************************************)

\* p is a password that the change s gave user i, s = 0: before the start.
Written(i, s, p) ==
  \/ s = 0 /\ i <= Len(Known) /\ p = Known[i].pw
  \/ /\ s \in 1..Len(req) /\ p \in Stored(s)
     /\ s = users[i].by \/ (req[s].op = edit /\ req[s].user = i)

\* What is stored of a user's password is the hash of the last change's.
HashInv == \A i \in 1..Len(users) : \/ users[i].pw = NoHash
                                    \/ Written(i, users[i].set, users[i].pw)

\* The change on which user i stands is not older than Edit e.
Since(e, s) == s # 0 /\ s \notin req[e].seen
EditInv == /\ \A w \in Workers : work[w].at = "record" /\ Op(w) = edit /\ work[w].clean =>
                Since(work[w].n, users[Req(w).user].set)
           /\ \A e \in DOMAIN ans : Succeeded(e, edit) /\ ans[e].clean =>
                Since(e, users[req[e].user].set)

\* A login is the login of a user, with the password of the last change.
TrueLogin(n, i, s) ==
  /\ i \in 1..Len(users) /\ users[i].name = req[n].name /\ Written(i, s, req[n].pw)
  /\ \A e \in req[n].seen : Succeeded(e, edit) /\ ans[e].clean /\ req[e].user = i => Since(e, s)
LoginInv == \A n \in DOMAIN ans : req[n].op = authentification /\ ans[n].res > 0 /\ Own(n) =>
              TrueLogin(n, ans[n].res, ans[n].row)

\* Where the row of a user comes from.
LEMMA UsersStep ==
  ASSUME TypeOK, LineInv, WorkInv, SeenInv, TextInv, [Next]_vars, NEW i \in 1..Len(users')
  PROVE  \/ i \in 1..Len(users) /\ users'[i] = users[i]
         \/ \E w \in Workers : \E h \in {Text(w).pw, NoHash} :
              /\ work[w].at \in {"check", "query"} /\ req' = req
              /\ users'[i].pw = h /\ users'[i].set = work[w].n
              /\ \/ Op(w) = registration /\ users'[i].by = work[w].n /\ i \notin 1..Len(users)
                 \/ Op(w) = edit /\ i \in 1..Len(users) /\ i = Req(w).user
<1>0. users \in Seq(User) /\ Len(users) \in Nat
  BY DEF TypeOK
<1>1. ASSUME NEW w \in Workers, Register(w), ~(i \in 1..Len(users) /\ users'[i] = users[i])
      PROVE  \E h \in {Text(w).pw, NoHash} :
              /\ work[w].at \in {"check", "query"} /\ req' = req
              /\ users'[i].pw = h /\ users'[i].set = work[w].n
              /\ Op(w) = registration /\ users'[i].by = work[w].n /\ i \notin 1..Len(users)
  <2>1. work[w].at \in {"check", "query"} /\ Op(w) = registration /\ UNCHANGED <<data, txn, buf, req>>
    BY <1>1, RegisterUsers
  <2>2. PICK h \in {Text(w).pw, NoHash}, did \in BOOLEAN :
          users' = IF did THEN Append(users, [name |-> Text(w).name, pw |-> h,
                                              by |-> work[w].n, set |-> work[w].n])
                          ELSE users
    BY <1>1, RegisterUsers
  <2> DEFINE row == [name |-> Text(w).name, pw |-> h, by |-> work[w].n, set |-> work[w].n]
  <2>3. users' = Append(users, row)
    BY <1>1, <2>2
  <2>4. row.pw = h /\ row.by = work[w].n /\ row.set = work[w].n
    OBVIOUS
  <2> HIDE DEF row
  <2>5. users'[i] = row /\ i \notin 1..Len(users)
    BY <1>0, <1>1, <2>3
  <2> QED
    BY <2>1, <2>2, <2>4, <2>5
<1>2. ASSUME NEW w \in Workers, Update(w), ~(i \in 1..Len(users) /\ users'[i] = users[i])
      PROVE  \E h \in {Text(w).pw, NoHash} :
              /\ work[w].at \in {"check", "query"} /\ req' = req
              /\ users'[i].pw = h /\ users'[i].set = work[w].n
              /\ Op(w) = edit /\ i \in 1..Len(users) /\ i = Req(w).user
  <2>1. work[w].at \in {"check", "query"} /\ Op(w) = edit
        /\ UNCHANGED <<data, txn, user, buf, req, ans>>
    BY <1>2, UpdateUsers
  <2>2. PICK h \in {Text(w).pw, NoHash}, did \in BOOLEAN :
          users' = IF did THEN [users EXCEPT ![Req(w).user] =
                                  Hashed(users[Req(w).user], h, work[w].n)] ELSE users
    BY <1>2, UpdateUsers
  <2> DEFINE u   == Req(w).user
             row == Hashed(users[u], h, work[w].n)
  <2>3. users' = [users EXCEPT ![u] = row]
    BY <1>2, <2>2
  <2>4. u \in 1..Len(users)
    BY <2>1, RequestType DEF Operations, edit, get
  <2>5. users[u] \in User
    BY <1>0, <2>4
  <2>6. row = [name |-> users[u].name, pw |-> h, by |-> users[u].by, set |-> work[w].n]
    BY <2>5, HashedRow
  <2>7. row.pw = h /\ row.set = work[w].n
    BY <2>6
  <2> HIDE DEF row, u
  <2>8. DOMAIN users' = 1..Len(users)
    BY <1>0, <2>3
  <2>9. DOMAIN users' = 1..Len(users')
    BY TypeStep DEF TypeOK
  <2>10. i \in 1..Len(users) /\ users'[i] = IF i = u THEN row ELSE users[i]
    BY <1>0, <2>3, <2>8, <2>9
  <2>11. i = u /\ users'[i] = row
    BY <1>2, <2>10
  <2> QED
    BY <2>1, <2>2, <2>7, <2>10, <2>11 DEF u
<1>3. users' = users \/ \E w \in Workers : Register(w) \/ Update(w)
  BY TableStep
<1>4. users' = users => i \in 1..Len(users) /\ users'[i] = users[i]
  OBVIOUS
<1> QED
  BY <1>1, <1>2, <1>3, <1>4

\* What has been written stays written.
LEMMA WrittenStays ==
  ASSUME TypeOK, LineInv, WorkInv, SeenInv, TextInv, [Next]_vars,
         NEW i \in 1..Len(users), NEW s, NEW p, Written(i, s, p)
  PROVE  Written(i, s, p)'
<1>1. users'[i].by = users[i].by
  BY StepGrows DEF Grows, UsersGrow
<1>2. CASE s = 0 /\ i <= Len(Known) /\ p = Known[i].pw
  BY <1>2 DEF Written
<1>3. CASE /\ s \in 1..Len(req) /\ p \in Stored(s)
           /\ s = users[i].by \/ (req[s].op = edit /\ req[s].user = i)
  <2>1. PICK m \in 1..Len(req) : (m = s \/ Overwrites(m, s)) /\ p = req[m].pw
    BY <1>3 DEF Stored
  <2>2. m \in 1..Len(req') /\ s \in 1..Len(req') /\ req'[m] = req[m] /\ req'[s] = req[s]
    BY <1>3, Longer, StepGrows DEF Grows
  <2>3. m = s \/ Overwrites(m, s)'
    BY <1>3, <2>1, OverwritesStay
  <2>4. p \in Stored(s)'
    BY <2>1, <2>2, <2>3 DEF Stored
  <2> QED
    BY <1>1, <1>3, <2>2, <2>4 DEF Written
<1> QED
  BY <1>2, <1>3 DEF Written

LEMMA HashStep ==
  ASSUME TypeOK, LineInv, WorkInv, SeenInv, TextInv, HashInv, [Next]_vars
  PROVE  HashInv'
<1> SUFFICES ASSUME NEW i \in 1..Len(users'), users'[i].pw # NoHash
             PROVE  Written(i, users[i].set, users[i].pw)'
  BY DEF HashInv
<1>0. PICK s, p : s = users'[i].set /\ p = users'[i].pw
  OBVIOUS
<1>1. CASE i \in 1..Len(users) /\ users'[i] = users[i]
  <2>1. Written(i, s, p)
    BY <1>0, <1>1 DEF HashInv
  <2>2. Written(i, s, p)'
    BY <1>1, <2>1, WrittenStays
  <2> QED
    BY <1>0, <2>2
<1>2. ASSUME NEW w \in Workers, work[w].at \in {"check", "query"}, req' = req,
             p = Text(w).pw, s = work[w].n,
             \/ Op(w) = registration /\ users'[i].by = work[w].n
             \/ Op(w) = edit /\ i = Req(w).user
      PROVE  Written(i, s, p)'
  <2>1. s \in 1..Len(req)
    BY <1>2 DEF WorkInv
  <2>2. p \in Stored(s)'
    <3>1. Source(w) \in 1..Len(req) /\ Named(s, Source(w)) /\ p = req[Source(w)].pw
      BY <1>2, TextType DEF Text
    <3>2. Source(w) = s \/ Overwrites(Source(w), s)
      BY <3>1 DEF Named
    <3>3. p \in Stored(s)
      BY <3>1, <3>2 DEF Stored
    <3> QED
      BY <1>2, <3>3 DEF Stored, Overwrites
  <2>3. s = users'[i].by \/ (req'[s].op = edit /\ req'[s].user = i)
    BY <1>2 DEF Op, Req
  <2> QED
    BY <1>2, <2>1, <2>2, <2>3 DEF Written
<1>3. ASSUME Written(i, s, p)'
      PROVE  Written(i, users[i].set, users[i].pw)'
  BY <1>0, <1>3
<1> QED
  BY <1>0, <1>1, <1>2, <1>3, UsersStep

\* A user does not fall back to a change older than an Edit.
LEMMA SinceStays ==
  ASSUME TypeOK, LineInv, WorkInv, SeenInv, TextInv, [Next]_vars,
         NEW e \in 1..Len(req), req[e].op = edit, Since(e, users[req[e].user].set)
  PROVE  Since(e, users[req[e].user].set)'
<1>1. req'[e] = req[e]
  BY StepGrows DEF Grows
<1>2. PICK i : i = req[e].user
  OBVIOUS
<1>3. i \in 1..Len(users) /\ i \in 1..Len(users')
  <2>0. edit \in Operations
    BY DEF Operations, edit, get
  <2>1. i # 0 /\ i <= Len(users)
    BY <1>2, <2>0 DEF TypeOK, LineInv
  <2>2. i \in Nat /\ Len(users) \in Nat
    <3>1. req[e] \in Request
      BY DEF TypeOK
    <3> QED
      BY <1>2, <3>1 DEF Request, TypeOK
  <2>3. i \in 1..Len(users)
    BY <2>1, <2>2
  <2> QED
    BY <2>3, Longer
<1>4. CASE users'[i] = users[i]
  BY <1>1, <1>2, <1>4 DEF Since
<1>5. ASSUME NEW w \in Workers, work[w].at \in {"check", "query"}, users'[i].set = work[w].n
      PROVE  Since(e, users[req[e].user].set)'
  <2>1. work[w].n \notin DOMAIN ans /\ work[w].n \in 1..Len(req)
    BY <1>5 DEF WorkInv
  <2>2. work[w].n \notin req[e].seen /\ work[w].n # 0
    BY <2>1 DEF SeenInv
  <2> QED
    BY <1>1, <1>2, <1>5, <2>2 DEF Since
<1> QED
  BY <1>3, <1>4, <1>5, UsersStep

LEMMA UpdateSets ==
  ASSUME TypeOK, LineInv, WorkInv, SeenInv, TextInv, NEW w \in Workers, Update(w), work'[w].clean
  PROVE  users'[Req(w).user].set = work[w].n /\ work[w].n \in 1..Len(req) /\ work[w].n \notin DOMAIN ans
<1>1. work[w].at \in {"check", "query"} /\ Op(w) = edit
  BY UpdateUsers
<1>2. PICK h \in {Text(w).pw, NoHash}, did \in BOOLEAN, fine \in BOOLEAN :
        /\ Query(w, TRUE, did, fine)
        /\ users' = IF did THEN [users EXCEPT ![Req(w).user] =
                                   Hashed(users[Req(w).user], h, work[w].n)] ELSE users
        /\ Goto(w, "record", fine /\ h # NoHash, 0)
  BY UpdateUsers
<1>3. fine
  <2>1. (fine /\ h # NoHash) \in BOOLEAN
    OBVIOUS
  <2>2. fine /\ h # NoHash
    BY <1>1, <1>2, <2>1, GotoPlace DEF Places
  <2> QED
    BY <2>2
<1>4. did
  BY <1>2, <1>3, QueryEffect
<1> DEFINE u   == Req(w).user
           row == Hashed(users[u], h, work[w].n)
<1>5. users' = [users EXCEPT ![u] = row]
  BY <1>2, <1>4
<1>6. u \in 1..Len(users) /\ users \in Seq(User)
  BY <1>1, RequestType DEF Operations, edit, get, TypeOK
<1>7. users[u] \in User
  BY <1>6
<1>8. row = [name |-> users[u].name, pw |-> h, by |-> users[u].by, set |-> work[w].n]
  BY <1>7, HashedRow
<1>9. row.set = work[w].n
  BY <1>8
<1> HIDE DEF row, u
<1>10. users'[u] = row
  BY <1>5, <1>6
<1> QED
  BY <1>1, <1>9, <1>10 DEF u, WorkInv

LEMMA EditStep ==
  ASSUME TypeOK, LineInv, WorkInv, SeenInv, TextInv, EditInv, [Next]_vars
  PROVE  EditInv'
<1>1. ASSUME NEW e \in 1..Len(req), req[e].op = edit, Since(e, users[req[e].user].set)
      PROVE  Since(e, users[req[e].user].set)'
  BY <1>1, SinceStays
<1>2. ASSUME NEW w \in Workers, work'[w].at = "record", Op(w)' = edit, work'[w].clean
      PROVE  Since(work[w].n, users[Req(w).user].set)'
  <2>0. PICK n : n = work'[w].n
    OBVIOUS
  <2>1. ASSUME Since(n, users[req[n].user].set)'
        PROVE  Since(work[w].n, users[Req(w).user].set)'
    BY <2>0, <2>1 DEF Req
  <2>2. CASE work'[w] = work[w] /\ work[w].n \in 1..Len(req) /\ Op(w)' = Op(w)
    <3>1. req[n].op = edit /\ Since(n, users[req[n].user].set) /\ n \in 1..Len(req)
      BY <1>2, <2>0, <2>2 DEF EditInv, Op, Req
    <3> QED
      BY <1>1, <2>1, <3>1
  <2>3. CASE Step(w) /\ NewPlace(w) /\ work[w].n \in 1..Len(req) /\ Op(w)' = Op(w) /\ Req(w)' = Req(w)
    <3>1. Update(w) /\ work'[w].n = work[w].n
      BY <1>2, <2>3 DEF NewPlace, get, add, edit, del
    <3>2. users'[Req(w).user].set = work[w].n /\ work[w].n \notin DOMAIN ans
      BY <1>2, <3>1, UpdateSets
    <3>3. work[w].n \notin req[work[w].n].seen /\ req'[work[w].n] = req[work[w].n] /\ work[w].n # 0
      BY <2>3, <3>2, StepGrows DEF SeenInv, Grows
    <3>4. (users[Req(w).user].set)' = work[w].n
      BY <2>3, <3>2
    <3> QED
      BY <3>1, <3>3, <3>4 DEF Since
  <2> QED
    BY <1>2, <2>2, <2>3, OthersWork
<1>3. ASSUME NEW e \in DOMAIN ans', Succeeded(e, edit)', ans'[e].clean
      PROVE  Since(e, users[req[e].user].set)'
  <2>1. CASE e \in DOMAIN ans
    <3>0. \A op : Succeeded(e, op)' <=> Succeeded(e, op)
      BY <2>1, AnsweredStays
    <3>1. e \in 1..Len(req) /\ ans'[e] = ans[e] /\ Succeeded(e, edit)
      BY <1>3, <2>1, <3>0, StepGrows DEF Grows, TypeOK
    <3>2. req[e].op = edit /\ Since(e, users[req[e].user].set)
      BY <1>3, <2>1, <3>1 DEF EditInv, Succeeded
    <3> QED
      BY <1>1, <3>1, <3>2
  <2>2. CASE e \notin DOMAIN ans
    <3>1. PICK w \in Workers : /\ Step(w) /\ NewAnswer(w, e) /\ work[w].n = e /\ e \in 1..Len(req)
                               /\ Op(w) = req[e].op /\ Req(w) = req[e] /\ req'[e] = req[e]
      BY <2>2, NewAnswers
    <3>2. Op(w) = edit /\ ans'[e].res = SUCCESS
      BY <1>3, <3>1 DEF Succeeded
    <3>3. Op(w) \in Operations /\ Op(w) # del
      BY <3>2 DEF Operations, get, edit, add, del
    <3>4. work[w].at = "record"
      BY <3>1, <3>2, <3>3, NewSuccess
    <3>5. Since(e, users[req[e].user].set)
      BY <1>3, <3>1, <3>2, <3>4 DEF EditInv, NewAnswer
    <3> QED
      BY <1>1, <3>1, <3>2, <3>5
  <2> QED
    BY <2>1, <2>2
<1> QED
  BY <1>2, <1>3 DEF EditInv

LEMMA LoginStays ==
  ASSUME TypeOK, LineInv, WorkInv, SeenInv, TextInv, [Next]_vars,
         NEW n \in 1..Len(req), NEW i, NEW s, TrueLogin(n, i, s)
  PROVE  TrueLogin(n, i, s)'
<1>1. req'[n] = req[n]
  BY StepGrows DEF Grows
<1>2. PICK p : p = req[n].pw
  OBVIOUS
<1>3. i \in 1..Len(users') /\ users'[i].name = req'[n].name
  BY <1>1, Longer, StepGrows DEF TrueLogin, Grows, UsersGrow
<1>4. Written(i, s, p)'
  BY <1>2, WrittenStays DEF TrueLogin
<1>5. ASSUME NEW e \in req'[n].seen, Succeeded(e, edit)', ans'[e].clean, req'[e].user = i
      PROVE  Since(e, s)'
  <2>1. /\ e \in req[n].seen /\ Succeeded(e, edit) /\ ans[e].clean /\ req[e].user = i
        /\ req'[e] = req[e]
    BY <1>1, <1>5, SeenStays
  <2> QED
    BY <2>1 DEF TrueLogin, Since
<1>6. Written(i, s, req[n].pw)'
  BY <1>1, <1>2, <1>4
<1> QED
  BY <1>3, <1>5, <1>6 DEF TrueLogin

LEMMA LoginStep ==
  ASSUME TypeOK, LineInv, WorkInv, SeenInv, TextInv, HashInv, EditInv, LoginInv, [Next]_vars
  PROVE  LoginInv'
<1> SUFFICES ASSUME NEW n \in DOMAIN ans', req'[n].op = authentification, ans'[n].res > 0, Own(n)'
             PROVE  TrueLogin(n, ans[n].res, ans[n].row)'
  BY DEF LoginInv
<1>0. PICK i, s : i = ans'[n].res /\ s = ans'[n].row
  OBVIOUS
<1>1. ASSUME n \in 1..Len(req), TrueLogin(n, i, s)
      PROVE  TrueLogin(n, ans[n].res, ans[n].row)'
  <2>1. TrueLogin(n, i, s)'
    BY <1>1, LoginStays
  <2> QED
    BY <1>0, <2>1
<1>2. CASE n \in DOMAIN ans
  BY <1>0, <1>1, <1>2, AnsweredStays DEF LoginInv
<1>3. CASE n \notin DOMAIN ans
  <2>1. PICK w \in Workers : /\ Step(w) /\ NewAnswer(w, n) /\ work[w].n = n /\ n \in 1..Len(req)
                             /\ Op(w) = req[n].op /\ Req(w) = req[n] /\ req'[n] = req[n]
    BY <1>3, NewAnswers
  <2>2. Op(w) = authentification
    BY <2>1
  <2>3. Login(w)
    <3>1. ans'[n].res # disconnect
      BY DEF disconnect
    <3>2. Op(w) \notin {registration, get, add, del, edit}
      BY <2>2 DEF registration, authentification, get, add, del, edit
    <3>3. Register(w) => Op(w) = registration
      BY AskedAt DEF Register
    <3>4. work[w].at # "record"
      BY <2>1, <3>2, StepShape, RequestType DEF Shape, Fits
    <3> QED
      BY <2>1, <3>1, <3>2, <3>3, <3>4 DEF NewAnswer
  <2>4. work[w].at \in {"check", "query"} /\ Text(w) = req[n]
    <3>1. work[w].at \in {"check", "query"}
      BY <2>3, LoginAnswer
    <3> QED
      BY <2>1, <3>1, OverwritesStay, TextType
  <2>5. ASSUME NEW fine \in BOOLEAN, Answer(w, bad_auth, fine, 0)
        PROVE  FALSE
    <3>1. ans'[n] = [res |-> bad_auth, clean |-> work[w].clean /\ fine, row |-> 0]
      BY <2>1, <2>5 DEF Answer, With
    <3>2. ans'[n].res = bad_auth
      BY <3>1
    <3> QED
      BY <3>2 DEF bad_auth
  <2>6. ASSUME NEW fine \in BOOLEAN, NEW j \in 1..Len(users), users[j].name = Text(w).name,
               users[j].pw = Text(w).pw, Answer(w, j, fine, users[j].set)
        PROVE  TrueLogin(n, i, s)
    <3>1. ans'[n] = [res |-> j, clean |-> work[w].clean /\ fine, row |-> users[j].set]
      BY <2>1, <2>6 DEF Answer, With
    <3>2. i = j /\ s = users[j].set
      BY <1>0, <3>1
    <3>3. Written(j, users[j].set, req[n].pw)
      <4>1. Text(w).pw \in Passwords
        BY <2>2, <2>4, TextType
      <4>2. users[j].pw # NoHash
        BY <2>6, <4>1, VaultAssumption DEF VaultAssumption
      <4> QED
        BY <2>4, <2>6, <4>2 DEF HashInv
    <3>4. \A e \in req[n].seen : Succeeded(e, edit) /\ ans[e].clean /\ req[e].user = j =>
            Since(e, users[j].set)
      BY <2>1 DEF SeenInv, EditInv
    <3> QED
      BY <2>4, <2>6, <3>2, <3>3, <3>4 DEF TrueLogin
  <2> QED
    BY <1>1, <2>1, <2>3, <2>5, <2>6, LoginAnswer
<1> QED
  BY <1>2, <1>3
-----------------------------------------------------------------------------
(***************************************************************************)
(* The theorems.                                                           *)
(***************************************************************************)

\* Each part needs some of the others to be inductive: what is added stays
\* because a Del that reads one line is on record before it deletes (DelInv),
\* and one that reads two is overwritten (TextInv); a Get misses an entry only
\* if it is gone (MissInv, from AddedStays and DataInv); a login is true and
\* current because the stored hashes are (HashInv, EditInv).
IInv == /\ TypeOK /\ LineInv /\ WorkInv /\ SeenInv /\ TextInv
        /\ DataInv /\ TxnInv /\ DelInv
        /\ KeptInv /\ AddedStays
        /\ RowInv /\ ReadInv /\ MissInv /\ GoneInv
        /\ EntryInv
        /\ HashInv /\ EditInv /\ LoginInv

LEMMA InitInv == Init => IInv
<1> SUFFICES ASSUME Init
             PROVE  IInv
  OBVIOUS
<1> USE VaultAssumption DEF VaultAssumption
<1>1. /\ DOMAIN data = {} /\ DOMAIN txn = {} /\ req = <<>> /\ DOMAIN ans = {}
      /\ conn \in [Workers -> {"up", "bad"}] /\ user \in [Clients -> 0..Len(Known)]
      /\ buf = [op \in Queries |-> 0]
      /\ work = [w \in Workers |-> Idle] /\ faults \in 0..MaxFaults
  BY DEF Init
<1>2. Idle \in Work /\ Idle.n = 0 /\ Idle.at = "idle"
  BY DEF Idle, Work
<1>3. \A w \in Workers : work[w] = Idle /\ work[w].n = 0 /\ work[w].at = "idle"
  BY <1>1, <1>2
<1>4. Len(req) = 0 /\ 1..Len(req) = {} /\ req \in Seq(Request) /\ Len(Known) \in Nat
  BY <1>1
<1>5. /\ users \in Seq(User) /\ Len(users) = Len(Known)
      /\ \A i \in 1..Len(users) : users[i].set = 0 /\ users[i].pw = Known[i].pw
  <2> DEFINE row(i) == [name |-> Known[i].name, pw |-> Known[i].pw, by |-> 0, set |-> 0]
  <2>1. users = [i \in 1..Len(Known) |-> row(i)]
    BY DEF Init
  <2>2. ASSUME NEW i \in 1..Len(Known)
        PROVE  row(i) \in User /\ row(i).set = 0 /\ row(i).pw = Known[i].pw
    <3>1. Known[i] \in [name : Names \ Long, pw : Passwords]
      BY ElementOfSeq
    <3> QED
      BY <3>1 DEF User
  <2> HIDE DEF row
  <2>3. users \in [1..Len(Known) -> User] /\ \A i \in 1..Len(Known) : users[i] = row(i)
    BY <2>1, <2>2
  <2>4. users \in Seq(User) /\ Len(users) = Len(Known)
    BY <1>4, <2>3
  <2> QED
    BY <2>2, <2>3, <2>4
<1>6. TypeOK
  <2>1. user \in [Clients -> Nat] /\ \A c \in Clients : user[c] <= Len(users)
    BY <1>1, <1>4, <1>5
  <2>2. conn \in [Workers -> {"up", "dead", "bad"}] /\ work \in [Workers -> Work]
    BY <1>1, <1>2
  <2>3. buf \in [Queries -> 0..Len(req)]
    BY <1>1, <1>4
  <2> QED
    BY <1>1, <1>3, <1>4, <1>5, <2>1, <2>2, <2>3 DEF TypeOK, At
<1>7. HashInv
  BY <1>5 DEF HashInv, Written
<1>8. LineInv /\ WorkInv /\ SeenInv /\ TextInv
  BY <1>3, <1>4 DEF LineInv, WorkInv, SeenInv, TextInv
<1>9. DataInv /\ TxnInv /\ DelInv /\ KeptInv /\ RowInv /\ EditInv
  BY <1>1, <1>3 DEF DataInv, TxnInv, DelInv, KeptInv, RowInv, EditInv
<1>10. AddedStays /\ ReadInv /\ MissInv /\ GoneInv /\ EntryInv /\ LoginInv
  BY <1>1, <1>3 DEF AddedStays, ReadInv, MissInv, GoneInv, EntryInv, LoginInv
<1> QED
  BY <1>6, <1>7, <1>8, <1>9, <1>10 DEF IInv

LEMMA NextInv == IInv /\ [Next]_vars => IInv'
<1> SUFFICES ASSUME IInv, [Next]_vars
             PROVE  IInv'
  OBVIOUS
<1>1. /\ TypeOK /\ LineInv /\ WorkInv /\ SeenInv /\ TextInv
      /\ DataInv /\ TxnInv /\ DelInv /\ KeptInv /\ AddedStays
      /\ RowInv /\ ReadInv /\ MissInv /\ GoneInv /\ EntryInv
      /\ HashInv /\ EditInv /\ LoginInv
  BY DEF IInv
<1>2. TypeOK' /\ WorkInv' /\ LineInv' /\ SeenInv' /\ TextInv'
  BY <1>1, TypeStep, SeenStep, TextStep
<1>3. DataInv' /\ TxnInv' /\ DelInv'
  BY <1>1, DataInvStep, TxnInvStep, DelStep
<1>4. KeptInv' /\ AddedStays'
  BY <1>1, KeptInvStep, StaysStep
<1>5. RowInv' /\ ReadInv' /\ MissInv' /\ GoneInv'
  BY <1>1, RowStep, ReadStep, MissStep, GoneStep
<1>6. EntryInv' /\ HashInv' /\ EditInv' /\ LoginInv'
  BY <1>1, EntryStep, HashStep, EditStep, LoginStep
<1> QED
  BY <1>2, <1>3, <1>4, <1>5, <1>6 DEF IInv

LEMMA Invariant == Spec => []IInv
  BY InitInv, NextInv, PTL DEF Spec

\* The tables, the connections, the bufs and the requests under way have their
\* types: in particular every session and every request carries the id of a
\* user the table users has.
THEOREM TypeCorrect == Spec => []TypeOK
<1>1. IInv => TypeOK
  BY DEF IInv
<1> QED
  BY <1>1, Invariant, PTL

\* What an acknowledged Add wrote, when no query of it failed and no other line
\* came into its handler's buf, is in the table data, or a Del that was not
\* over when the Add began has it on record, or is one of two lines between
\* the record and the DELETE (Add.cpp, Del.cpp).
THEOREM AddedStaysCorrect == Spec => []AddedStays
<1>1. IInv => AddedStays
  BY DEF IInv
<1> QED
  BY <1>1, Invariant, PTL

\* A Get that kept its line does not miss an Add that was over before it and
\* that no Del after the Add has removed, nor does it return a row that a Del
\* that was over before it had to delete (Get.cpp).
THEOREM ReadsLatestCorrect == Spec => []ReadsLatest
<1>1. IInv => ReadsLatest
  <2> SUFFICES ASSUME IInv, NEW n \in DOMAIN ans, req[n].op = get, Own(n)
               PROVE  /\ ans[n].clean /\ ans[n].res = not_exist =>
                           \A m \in req[n].seen :
                             Succeeded(m, add) /\ ans[m].clean /\ Own(m) /\ SameEntry(m, n) => Removed(m)
                      /\ Succeeded(n, get) =>
                           \A d \in req[n].seen : Succeeded(d, del) /\ Own(d) /\ SameEntry(d, n) =>
                             ans[n].row \notin req[d].seen
    BY DEF ReadsLatest
  <2>1. MissInv /\ ReadInv
    BY DEF IInv
  <2> QED
    BY <2>1 DEF MissInv, ReadInv, GoodRow
<1> QED
  BY <1>1, Invariant, PTL

\* Two rows of one account and name were added by Adds that overlapped, or the
\* later had a failed query (is_not_exist, Add.cpp).
THEOREM OneEntryCorrect == Spec => []OneEntry
<1>1. IInv => OneEntry
  BY DEF IInv, EntryInv, Clear, OneEntry
<1> QED
  BY <1>1, Invariant, PTL

\* Who is logged in as a user gave the user's name and the password of the
\* change the user stands on, which no Edit before the login is later than
\* (Registration.cpp, Authentification.cpp, Edit.cpp).
THEOREM LoginsTrueCorrect == Spec => []LoginsTrue
<1>1. IInv => LoginsTrue
  <2> SUFFICES ASSUME IInv, NEW n \in DOMAIN ans,
                      req[n].op = authentification, ans[n].res > 0, Own(n)
               PROVE  LET i == ans[n].res
                          s == ans[n].row
                      IN /\ users[i].name = req[n].name
                         /\ \/ s = 0 /\ i <= Len(Known) /\ req[n].pw = Known[i].pw
                            \/ /\ s # 0 /\ req[n].pw \in Stored(s)
                               /\ s = users[i].by \/ (req[s].op = edit /\ req[s].user = i)
                         /\ \A e \in req[n].seen : Succeeded(e, edit) /\ ans[e].clean /\ req[e].user = i =>
                              s # 0 /\ s \notin req[e].seen
    BY DEF LoginsTrue
  <2>1. TrueLogin(n, ans[n].res, ans[n].row)
    BY DEF IInv, LoginInv
  <2> QED
    BY <2>1 DEF TrueLogin, Written, Since
<1> QED
  BY <1>1, Invariant, PTL
=============================================================================
