------------------------------- MODULE Vault -------------------------------
(***************************************************************************)
(* What the handlers do to the database: the queries of Registration,      *)
(* Authentification, Add, Get, Del and Edit, one query at a time, by a     *)
(* pool of workers with a connection each, PostgresDB.                     *)
(*                                                                         *)
(* A connection can break at any time, before a query or under it, and     *)
(* libpq notices at the next query only: until then is_connect says true.  *)
(* A query that breaks under way may have taken effect.  A query also      *)
(* fails, with the connection in order, when the text does not fit its     *)
(* column (VARCHAR(64) in tests/test_db_create.cpp; a line has up to       *)
(* MAXLINE-2 characters).                                                  *)
(*                                                                         *)
(* A request is one line of a client and has a number.  The rows of data   *)
(* and transaction carry the number of the request that inserted them and  *)
(* the name it wrote: the password of an Add, which nothing looks at, is   *)
(* not modelled otherwise.                                                 *)
(*                                                                         *)
(* All workers share the six handlers and with them their member buf.      *)
(* Registration, Authentification and Add copy its words once; Get, Del    *)
(* and Edit take it anew for every query, whatever line it holds by then.  *)
(* A line is one value: one that is overwritten while it is copied, or     *)
(* empty, is not modelled.                                                 *)
(***************************************************************************)
EXTENDS Protocol, Sequences, FiniteSets, Functions

CONSTANTS
  Clients,      \* the connected clients
  Workers,      \* the threads of the pool
  Names,        \* names of users
  Passwords,    \* login passwords
  Resources,    \* names of stored passwords
  Credentials,  \* the pairs of name and password that clients enter
  NewPasswords, \* the passwords they change to
  NoHash,       \* the hash make_hash returns when it fails
  Long,         \* the texts that do not fit into a VARCHAR(64)
  Known,        \* the users the database has at the start
  MaxRequests,  \* bound: the requests of all clients
  MaxFaults     \* bound: broken connections (failed hashes are not counted)

ASSUME VaultAssumption ==
  /\ Known \in Seq([name : Names \ Long, pw : Passwords])
  /\ \A i, j \in 1..Len(Known) : Known[i].name = Known[j].name => i = j
  /\ Credentials \subseteq Names \X Passwords /\ NewPasswords \subseteq Passwords
  /\ NoHash \notin Passwords
  /\ MaxRequests \in Nat /\ MaxFaults \in Nat

VARIABLES
  \* the database
  users,   \* the table users, by id
  data,    \* the table data: the name each row has, by the Add that inserted it
  txn,     \* the table transaction: the name on record, by request
  \* the program
  conn,    \* per worker: "up", "dead" (broken, not noticed), "bad"
  user,    \* per client: the id of the session, 0 before the login
  buf,     \* per handler: the request whose line its member buf holds
  work,    \* per worker: [n, line, at, clean, row], see Idle
  \* bookkeeping
  req,     \* the requests begun: [c, user, op, name, pw, seen]
  ans,     \* the answers given, by request: [res, clean, row]
  faults

database == <<users, data, txn>>
history  == <<req, ans>>
vars     == <<database, conn, user, buf, work, history, faults>>

\* The actions whose handlers ask the database, and those that copy words.
Queries == {registration, authentification} \cup Operations
Parsed  == {registration, authentification, add}

\* Request n is at the given place; line: the request whose words were copied;
\* clean: all its queries have succeeded; row: the row Get has read.
Idle == [n |-> 0, line |-> 0, at |-> "idle", clean |-> TRUE, row |-> 0]

\* A row of users: by has inserted it, set has written its hash (0: before).
Init ==
  /\ users = [i \in 1..Len(Known) |-> [name |-> Known[i].name, pw |-> Known[i].pw,
                                       by |-> 0, set |-> 0]]
  /\ data = [n \in {} |-> 0] /\ txn = [n \in {} |-> 0]
  /\ conn \in [Workers -> {"up", "bad"}]     \* the first connect may fail
  /\ user \in [Clients -> 0..Len(Known)]  \* some clients have logged in before
  /\ buf = [op \in Queries |-> 0]
  /\ work = [w \in Workers |-> Idle]
  /\ req = <<>> /\ ans = [n \in {} |-> 0]
  /\ faults \in 0..MaxFaults /\ faults = Cardinality({w \in Workers : conn[w] = "bad"})
-----------------------------------------------------------------------------
\* PostgresDB.

\* One PQexecParams by worker w: accepted if the database has no objection to
\* the statement, did if it takes effect, fine if the program learns so.
Query(w, accepted, did, fine) ==
  \/ /\ conn[w] = "up" /\ accepted /\ did /\ fine
     /\ UNCHANGED <<conn, faults>>
  \/ /\ conn[w] = "up" /\ accepted /\ did /\ ~fine
     /\ faults < MaxFaults /\ faults' = faults + 1
     /\ conn' = [conn EXCEPT ![w] = "bad"]
  \/ /\ conn[w] = "up" /\ ~accepted /\ ~did /\ ~fine
     /\ UNCHANGED <<conn, faults>>
  \/ /\ conn[w] # "up" /\ ~did /\ ~fine
     /\ conn' = [conn EXCEPT ![w] = "bad"]
     /\ UNCHANGED faults

is_connect(w) == conn[w] # "bad"

Drop(w) ==
  /\ conn[w] = "up" /\ faults < MaxFaults
  /\ conn' = [conn EXCEPT ![w] = "dead"]
  /\ faults' = faults + 1
  /\ UNCHANGED <<database, user, buf, work, history>>

\* A SELECT has no effect to be in doubt about.
Select(w, fine) == \E did \in BOOLEAN : Query(w, TRUE, did, fine)

\* Hasher: make_hash fails when libsodium gets no memory, and its empty
\* string is stored like a hash.
make_hash(p)          == {p, NoHash}
verify_password(h, p) == h = p
-----------------------------------------------------------------------------
\* A worker and its request.

At(w, pc) == work[w].at = pc
Req(w)    == req[work[w].n]
Op(w)     == Req(w).op

\* The line a query of worker w is made from.
Source(w) == IF Op(w) \in Parsed THEN work[w].line ELSE buf[Op(w)]
Text(w)   == req[Source(w)]

Goto(w, pc, fine, row) ==
  work' = [work EXCEPT ![w].at = pc, ![w].clean = @ /\ fine, ![w].row = row]

\* Table f with a row for request k.
With(f, k, r) == [n \in DOMAIN f \cup {k} |-> IF n = k THEN r ELSE f[n]]

\* Wrong variant: whatever a login returns is the id.
AnswerUnseen(w, res, fine, row) ==
  LET k == work[w]
  IN /\ ans' = With(ans, k.n, [res |-> res, clean |-> k.clean /\ fine, row |-> row])
     /\ work' = [work EXCEPT ![w] = Idle]
     /\ user' = [user EXCEPT ![Req(w).c] =
                   IF Op(w) \in {registration, authentification} THEN res ELSE @]

\* The handler returns and the session takes the id or ends; row: what the
\* answer rests on, the row of a Get, the set of the user who logs in.
Answer(w, res, fine, row) ==
  LET k == work[w]
  IN /\ ans' = With(ans, k.n, [res |-> res, clean |-> k.clean /\ fine, row |-> row])
     /\ work' = [work EXCEPT ![w] = Idle]
     /\ user' = [user EXCEPT ![Req(w).c] = IF res = disconnect THEN 0
                                           ELSE IF LogsIn(Op(w), res) THEN res ELSE @]

\* The lines of a client: what a handler parses from them.
Lines(op) == IF op \in {registration, authentification} THEN Credentials
             ELSE IF op = edit THEN {<<p, p>> : p \in NewPasswords}
             ELSE {<<r, r>> : r \in Resources}

Served(c) == \E w \in Workers : ~At(w, "idle") /\ Req(w).c = c

\* read_fd: a worker has a line in the handler's buf (see Server: one worker
\* per client, any number per handler).
Begin(w, c, op, line) ==
  /\ At(w, "idle") /\ ~Served(c) /\ Len(req) < MaxRequests
  /\ op \in IF user[c] = 0 THEN {registration, authentification} ELSE Operations
  /\ buf' = [buf EXCEPT ![op] = Len(req) + 1]
  /\ req' = Append(req, [c |-> c, user |-> user[c], op |-> op,
                         name |-> line[1], pw |-> line[2], seen |-> DOMAIN ans])
  /\ work' = [work EXCEPT ![w] = [n |-> Len(req) + 1, line |-> 0, clean |-> TRUE, row |-> 0,
                                  at |-> IF op \in Parsed THEN "parse" ELSE "check"]]
  /\ UNCHANGED <<database, conn, user, ans, faults>>

\* The rows WHERE resourse_name = $1 AND user_id = $2.
Rows(w) == {n \in DOMAIN data : req[n].user = Req(w).user /\ data[n] = Text(w).name}
-----------------------------------------------------------------------------
\* istringstream ss(buf); ss >> name >> pass.
Parse(w) ==
  /\ At(w, "parse")
  /\ work' = [work EXCEPT ![w].line = buf[Op(w)],
                          ![w].at = IF Op(w) = add THEN "lookup" ELSE "check"]
  /\ UNCHANGED <<database, conn, user, buf, history, faults>>

\* Wrong variant: the result is not looked at.
LookupInVain(w) ==
  /\ At(w, "lookup")
  /\ \E fine \in BOOLEAN : Select(w, fine) /\ Goto(w, "check", fine, 0)
  /\ UNCHANGED <<database, user, buf, history>>

\* Add::is_not_exist, before the connection is looked at.
Lookup(w) ==
  /\ At(w, "lookup")
  /\ \E fine \in BOOLEAN :
       /\ Select(w, fine)
       /\ IF fine /\ Rows(w) # {}
          THEN Answer(w, existing, fine, 0)
          ELSE Goto(w, "check", fine, 0) /\ UNCHANGED <<user, ans>>
  /\ UNCHANGED <<database, buf, req>>

\* if(!db->is_connect()): reconnect or give up.  A worker that is connected
\* goes on to its query; what breaks in between breaks the query.
Reconnect(w) ==
  /\ At(w, "check") /\ ~is_connect(w)
  /\ \/ /\ conn' = [conn EXCEPT ![w] = "up"]
        /\ Goto(w, "query", TRUE, 0)
        /\ UNCHANGED <<user, ans>>
     \/ /\ Answer(w, disconnect, FALSE, 0)
        /\ UNCHANGED conn
  /\ UNCHANGED <<database, buf, req, faults>>

Checked(w)  == At(w, "query") \/ (At(w, "check") /\ is_connect(w))
Asks(w, op) == Checked(w) /\ Op(w) = op

\* Wrong variant: ON CONFLICT (name_user) DO UPDATE SET password.
RegisterAgain(w) ==
  /\ Asks(w, registration)
  /\ \E h \in make_hash(Text(w).pw), did, fine \in BOOLEAN :
       LET taken == {i \in 1..Len(users) : users[i].name = Text(w).name}
       IN /\ Query(w, Text(w).name \notin Long, did, fine)
          /\ users' = IF ~did THEN users
                      ELSE IF taken # {}
                      THEN [i \in 1..Len(users) |-> IF i \in taken
                              THEN [users[i] EXCEPT !.pw = h, !.set = work[w].n] ELSE users[i]]
                      ELSE Append(users, [name |-> Text(w).name, pw |-> h,
                                          by |-> work[w].n, set |-> work[w].n])
          /\ Answer(w, IF fine /\ taken = {} THEN Len(users) + 1 ELSE existing,
                    fine /\ h # NoHash, 0)
  /\ UNCHANGED <<data, txn, buf, req>>

\* INSERT INTO users ... RETURNING id.  name_user is UNIQUE.
Register(w) ==
  /\ Asks(w, registration)
  /\ \E h \in make_hash(Text(w).pw), did, fine \in BOOLEAN :
       /\ Query(w, /\ Text(w).name \notin Long
                   /\ \A i \in 1..Len(users) : users[i].name # Text(w).name, did, fine)
       /\ users' = IF did THEN Append(users, [name |-> Text(w).name, pw |-> h,
                                              by |-> work[w].n, set |-> work[w].n])
                          ELSE users
       /\ Answer(w, IF fine THEN Len(users) + 1 ELSE existing, fine /\ h # NoHash, 0)
  /\ UNCHANGED <<data, txn, buf, req>>

\* SELECT * FROM users WHERE name_user = $1.
Login(w) ==
  /\ Asks(w, authentification)
  /\ \E fine \in BOOLEAN :
       LET found == {i \in 1..Len(users) : /\ fine /\ users[i].name = Text(w).name
                                           /\ verify_password(users[i].pw, Text(w).pw)}
       IN /\ Select(w, fine)
          /\ \/ \E i \in found : Answer(w, i, fine, users[i].set)
             \/ found = {} /\ Answer(w, bad_auth, fine, 0)
  /\ UNCHANGED <<database, buf, req>>

\* SELECT * FROM data: Get takes the first of the rows, in no order.
Find(w) ==
  /\ Asks(w, get)
  /\ \E fine \in BOOLEAN :
       /\ Select(w, fine)
       /\ \/ \E n \in Rows(w) : fine /\ Goto(w, "record", fine, n) /\ UNCHANGED <<user, ans>>
          \/ (fine => Rows(w) = {}) /\ Answer(w, not_exist, fine, 0)
  /\ UNCHANGED <<database, buf, req>>

\* INSERT INTO data; the result of execute is not looked at.
Insert(w) ==
  /\ Asks(w, add)
  /\ \E did, fine \in BOOLEAN :
       /\ Query(w, Text(w).name \notin Long, did, fine)
       /\ data' = IF did THEN With(data, work[w].n, Text(w).name) ELSE data
       /\ Goto(w, "record", fine, 0)
  /\ UNCHANGED <<users, txn, user, buf, history>>

\* UPDATE users SET password; nor is it here.
Update(w) ==
  /\ Asks(w, edit)
  /\ \E h \in make_hash(Text(w).pw), did, fine \in BOOLEAN :
       /\ Query(w, TRUE, did, fine)
       /\ users' = IF did THEN [users EXCEPT ![Req(w).user] =
                                   [@ EXCEPT !.pw = h, !.set = work[w].n]] ELSE users
       /\ Goto(w, "record", fine /\ h # NoHash, 0)
  /\ UNCHANGED <<data, txn, user, buf, history>>

\* Wrong variant: Del makes no record.
RecordButDel(w) ==
  /\ At(w, "record") \/ Asks(w, del)
  /\ \E did, fine \in BOOLEAN :
       /\ Query(w, Text(w).name \notin Long, did, fine)
       /\ txn' = IF did /\ Op(w) # del THEN With(txn, work[w].n, Text(w).name) ELSE txn
       /\ IF Op(w) = del THEN Goto(w, "delete", fine, 0) /\ UNCHANGED <<user, ans>>
                         ELSE Answer(w, SUCCESS, fine, work[w].row)
  /\ UNCHANGED <<users, data, buf, req>>

\* make_transaction; Del makes its record before it deletes.
Record(w) ==
  /\ At(w, "record") \/ Asks(w, del)
  /\ \E did, fine \in BOOLEAN :
       /\ Query(w, Text(w).name \notin Long, did, fine)
       /\ txn' = IF did THEN With(txn, work[w].n, Text(w).name) ELSE txn
       /\ IF Op(w) = del THEN Goto(w, "delete", fine, 0) /\ UNCHANGED <<user, ans>>
                         ELSE Answer(w, SUCCESS, fine, work[w].row)
  /\ UNCHANGED <<users, data, buf, req>>

\* Wrong variant: WHERE names another column, and no row matches.
DeleteNone(w) ==
  /\ At(w, "delete")
  /\ \E did, fine \in BOOLEAN :
       /\ Query(w, TRUE, did, fine)
       /\ Answer(w, IF fine THEN SUCCESS ELSE not_exist, fine, 0)
  /\ UNCHANGED <<database, buf, req>>

\* DELETE FROM data, with buf as it is by now; no row to delete is no failure.
Delete(w) ==
  /\ At(w, "delete")
  /\ \E did, fine \in BOOLEAN :
       /\ Query(w, TRUE, did, fine)
       /\ data' = IF did THEN Restrict(data, DOMAIN data \ Rows(w)) ELSE data
       /\ Answer(w, IF fine THEN SUCCESS ELSE not_exist, fine, 0)
  /\ UNCHANGED <<users, txn, buf, req>>

Step(w) == \/ Parse(w) \/ Lookup(w) \/ Reconnect(w) \/ Register(w) \/ Login(w) \/ Find(w)
           \/ Insert(w) \/ Update(w) \/ Record(w) \/ Delete(w)

Next == \E w \in Workers :
          \/ Drop(w) \/ Step(w)
          \/ \E c \in Clients, op \in Queries : \E line \in Lines(op) : Begin(w, c, op, line)

Spec == Init /\ [][Next]_vars
-----------------------------------------------------------------------------
Texts   == Names \cup Resources \cup Passwords
User    == [name : Names \ Long, pw : Passwords \cup {NoHash}, by : Nat, set : Nat]
Request == [c : Clients, user : Nat, op : Queries, name : Texts,
            pw : Passwords \cup Resources, seen : SUBSET Nat]
Work    == [n : Nat, line : Nat, clean : BOOLEAN, row : Nat,
            at : {"idle", "parse", "lookup", "check", "query", "record", "delete"}]

TypeOK ==
  /\ users \in Seq(User)
  /\ req \in Seq(Request)
  /\ \A n \in 1..Len(req) : req[n].user <= Len(users) /\ req[n].seen \subseteq 1..(n-1)
  /\ DOMAIN ans \subseteq 1..Len(req)
  /\ \A n \in DOMAIN ans : ans[n] \in [res : Int, clean : BOOLEAN, row : Nat]
  /\ \A n \in DOMAIN data : n \in 1..Len(req) /\ data[n] \in Texts
  /\ \A n \in DOMAIN txn : n \in 1..Len(req) /\ txn[n] \in Texts
  /\ conn \in [Workers -> {"up", "dead", "bad"}]
  /\ user \in [Clients -> Nat] /\ \A c \in Clients : user[c] <= Len(users)
  /\ buf \in [Queries -> 0..Len(req)]
  /\ work \in [Workers -> Work]
  /\ \A w \in Workers : work[w].n <= Len(req) /\ (At(w, "idle") <=> work[w].n = 0)
  /\ faults \in 0..MaxFaults

SameEntry(m, n)  == req[m].user = req[n].user /\ req[m].name = req[n].name
Succeeded(n, op) == n \in DOMAIN ans /\ req[n].op = op /\ ans[n].res = SUCCESS

\* Request m began before n was answered, in the same handler: n's worker may
\* have found the line of m in buf.
Overwrites(m, n) == m \in 1..Len(req) /\ m > n /\ req[m].op = req[n].op /\ n \notin req[m].seen
Own(n)           == \A m \in 1..Len(req) : ~Overwrites(m, n)

\* The deletion that has removed what n added: it was not over when n began,
\* and it is on record, or an overlapping Del has put its line between the
\* record and the DELETE.
Removed(n) ==
  \E d \in 1..Len(req) :
    /\ req[d].op = del /\ req[d].user = req[n].user /\ d \notin req[n].seen
    /\ \/ d \in DOMAIN txn /\ txn[d] = req[n].name
       \/ \E m \in 1..Len(req) : Overwrites(m, d) /\ req[m].name = req[n].name

\* Every password of an acknowledged Add is there, or the transaction table
\* has the later deletion that removed it, as long as no query of the Add
\* failed and its line was not overwritten: make_transaction of Del comes
\* before its DELETE, which a failure between the two must not turn round.
AddedStays == \A n \in DOMAIN ans : Succeeded(n, add) /\ ans[n].clean /\ Own(n) =>
                n \in DOMAIN data \/ Removed(n)

\* "New data was added" (new_TCP_server.cpp:295), whatever became of the query.
AddedIsStored == \A n \in DOMAIN ans : Succeeded(n, add) /\ Own(n) =>
                   n \in DOMAIN data \/ Removed(n)

\* A Get whose line was not overwritten finds what was added before the client
\* asked and not removed since, and does not find what was deleted before,
\* although several workers and connections are in between.
ReadsLatest ==
  \A n \in DOMAIN ans : req[n].op = get /\ Own(n) =>
    /\ ans[n].clean /\ ans[n].res = not_exist =>
         \A m \in req[n].seen :
           Succeeded(m, add) /\ ans[m].clean /\ Own(m) /\ SameEntry(m, n) => Removed(m)
    /\ Succeeded(n, get) =>
         \A d \in req[n].seen : Succeeded(d, del) /\ Own(d) /\ SameEntry(d, n) =>
           ans[n].row \notin req[d].seen

\* An account has two rows of one name only if the two Adds overlapped, or a
\* query of the later one failed (is_not_exist takes that for an answer).
CleanSoFar(n) == IF n \in DOMAIN ans THEN ans[n].clean
                 ELSE \A w \in Workers : work[w].n = n => work[w].clean
OneEntry == \A m, n \in DOMAIN data :
              m < n /\ req[m].user = req[n].user /\ data[m] = data[n] =>
                m \notin req[n].seen \/ ~CleanSoFar(n)

\* The passwords that request s may have stored a hash of.
Stored(s) == {req[m].pw : m \in {i \in 1..Len(req) : i = s \/ Overwrites(i, s)}}

\* A login whose line was not overwritten gave the name of the user it is
\* taken for and the password of the user's last change: of the Edits, or of
\* the registration that made the user (not of one refused since), and never
\* one older than an Edit that had succeeded before the login began.
LoginsTrue ==
  \A n \in DOMAIN ans :
    req[n].op = authentification /\ ans[n].res > 0 /\ Own(n) =>
      LET i == ans[n].res
          s == ans[n].row
      IN /\ users[i].name = req[n].name
         /\ \/ s = 0 /\ i <= Len(Known) /\ req[n].pw = Known[i].pw
            \/ /\ s # 0 /\ req[n].pw \in Stored(s)
               /\ s = users[i].by \/ (req[s].op = edit /\ req[s].user = i)
         /\ \A e \in req[n].seen : Succeeded(e, edit) /\ ans[e].clean /\ req[e].user = i =>
              s # 0 /\ s \notin req[e].seen

=============================================================================
