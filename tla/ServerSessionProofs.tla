-------------------------- MODULE ServerSessionProofs --------------------------
(***************************************************************************)
(* What one client can rely on while no update of master_fd is lost and no *)
(* descriptor reused under a thread: its handler never waits for input     *)
(* (ReaderHasInput); while also no handler buffer is shared, it works with *)
(* its own account (OperatesOnOwnAccount), and the client's whole session  *)
(* is one of module Session (ImplementsSession), for every number of       *)
(* clients, workers and descriptors.                                       *)
(***************************************************************************)
EXTENDS ServerPlaceProofs, ServerSession

USE DEF MainAt, At
-----------------------------------------------------------------------------
(***************************************************************************)
(* Input.  select reports a descriptor readable, and nobody but the worker *)
(* that will get it can take the input away: it is out of master_fd before *)
(* it is queued, and no other descriptor stands for the same connection.   *)
(***************************************************************************)
\* A connection is open as long as a descriptor stands for it, and no two do.
OwnedInv == /\ \A f \in Fds : owner[f] # NoConn => peer[owner[f]].at = "open"
            /\ \A f, g \in Fds : owner[f] # NoConn /\ f # g => owner[f] # owner[g]

\* select has reported the descriptor, and it has not been read since.
Awaited(f) == \/ f \in ready \cup Queued
              \/ \E w \in Workers : wpc[w] = "read" /\ Fd(w) = f

InputInv == \A f \in Fds : Awaited(f) => Readable(f)

\* What Readable says of a client.
HasInput(f) == owner[f] # NoConn /\ (peer[owner[f]].data \/ peer[owner[f]].eof)

LEMMA ReadableClient == ASSUME NEW f \in Fds PROVE Readable(f) <=> HasInput(f)
  BY FdAssumption DEF Readable, HasInput

LEMMA ReadableClientNext == ASSUME NEW f \in Fds PROVE Readable(f)' <=> HasInput(f)'
  BY FdAssumption DEF Readable, HasInput
-----------------------------------------------------------------------------
(***************************************************************************)
(* The descriptors and their connections, whatever strikes.                *)
(***************************************************************************)
LEMMA OwnedInit == Init => OwnedInv
  BY DEF Init, OwnedInv

\* No descriptor changes hands; open connections stay open.
LEMMA OwnedSame ==
  ASSUME TypeOK, OwnedInv, UNCHANGED owner,
         \A c \in Conns : peer[c].at = "open" => peer'[c].at = "open"
  PROVE  OwnedInv'
  BY DEF OwnedInv, TypeOK, KernelOK

LEMMA OwnedNext == TypeOK /\ OwnedInv /\ [Next]_vars => OwnedInv'
<1> SUFFICES ASSUME TypeOK, OwnedInv, [Next]_vars PROVE OwnedInv'
  OBVIOUS
<1> USE DEF kernel
<1>1. peer \in [Conns -> Peer] /\ owner \in [Fds -> Conns \cup {NoConn}]
  BY DEF TypeOK, KernelOK
<1>2. CASE UNCHANGED kernel
  BY <1>2, OwnedSame
<1>3. ASSUME NEW c \in Conns, Connect(c) \/ Send(c) \/ HangUp(c) PROVE OwnedInv'
  <2>1. UNCHANGED owner /\ \A b \in Conns : peer[b].at = "open" => peer'[b].at = "open"
    BY <1>1, <1>3 DEF Connect, Send, HangUp, Peer
  <2> QED
    BY <2>1, OwnedSame
<1>4. ASSUME NEW c \in Conns, AcceptBanned(c) PROVE OwnedInv'
  BY <1>1, <1>4, OwnedSame DEF AcceptBanned
<1>5. ASSUME NEW c \in Conns, NEW f \in Fds, AcceptClient(c, f) PROVE OwnedInv'
  BY <1>1, <1>5, ConnAssumption DEF AcceptClient, OwnedInv, Peer
<1>6. ASSUME NEW w \in Workers, ReadLine(w) PROVE OwnedInv'
  <2>1. UNCHANGED owner /\ \A c \in Conns : peer'[c].at = peer[c].at
    BY <1>1, <1>6 DEF ReadLine, Peer
  <2> QED
    BY <2>1, OwnedSame
<1>7. ASSUME NEW w \in Workers, CloseFd(w) PROVE OwnedInv'
  <2> DEFINE f == loc[w].cli.fd
  <2>1. f \in Fds
    BY <1>7 DEF CloseFd, TypeOK, PoolOK, Busy, Client
  <2>2. /\ owner' = [owner EXCEPT ![f] = NoConn]
        /\ peer' = IF owner[f] = NoConn THEN peer ELSE [peer EXCEPT ![owner[f]] = Gone]
    BY <1>7 DEF CloseFd
  <2> HIDE DEF f
  <2> QED
    BY <1>1, <2>1, <2>2, ConnAssumption DEF OwnedInv
<1>8. CASE Environment
  BY <1>2, <1>3, <1>8 DEF Environment, BanExpires
<1>9. CASE MainStep
  BY <1>2, <1>4, <1>5, <1>9 DEF MainStep, Select, AcceptNothing, AcceptWatch, AcceptInsert,
     ScanClear, ScanUnwatch, ScanPush, ScanCrash
<1>10. ASSUME NEW w \in Workers, WorkerStep(w) PROVE OwnedInv'
  BY <1>2, <1>6, <1>7, <1>10 DEF WorkerStep, Take, ReadFails, Parse, Dispatch, Ban, Settle,
     EraseEntry, Fetch, Cleared, Watched
<1> QED
  BY <1>2, <1>8, <1>9, <1>10 DEF Next, vars
-----------------------------------------------------------------------------
(***************************************************************************)
(* Input that select has reported stays until the worker reads it.         *)
(***************************************************************************)
LEMMA InputInit == Init => InputInv
  BY FdAssumption DEF Init, InputInv, Awaited, Queued

\* Nobody reads, hangs up or closes.
LEMMA InputSame ==
  ASSUME InputInv, UNCHANGED kernel,
         \A f \in Fds : Awaited(f)' => Awaited(f) \/ Readable(f)
  PROVE  InputInv'
<1>1. \A f \in Fds : HasInput(f)' <=> HasInput(f)
  BY DEF HasInput, kernel
<1> QED
  BY <1>1, ReadableClient, ReadableClientNext DEF InputInv

\* The connections of awaited descriptors keep their input.
LEMMA InputKept ==
  ASSUME InputInv,
         \A f \in Fds : Awaited(f)' => Awaited(f),
         \A f \in Fds : Awaited(f)' /\ HasInput(f) => HasInput(f)'
  PROVE  InputInv'
  BY ReadableClient, ReadableClientNext DEF InputInv

LEMMA AwaitedSame ==
  ASSUME UNCHANGED <<ready, queue>>,
         \A w \in Workers : wpc'[w] = "read" => wpc[w] = "read" /\ Fd(w)' = Fd(w)
  PROVE  \A f : Awaited(f)' => Awaited(f)
  BY DEF Awaited, Queued

LEMMA InputEnvironment ==
  ASSUME TypeOK, InputInv, Environment \/ UNCHANGED vars
  PROVE  InputInv'
<1> USE DEF kernel, main, store, workers
<1>1. peer \in [Conns -> Peer] /\ owner \in [Fds -> Conns \cup {NoConn}]
  BY DEF TypeOK, KernelOK
<1>2. UNCHANGED <<ready, queue, workers, owner>>
  BY DEF vars, Environment, Connect, Send, HangUp, BanExpires
<1>3. \A f : Awaited(f)' => Awaited(f)
  BY <1>2, AwaitedSame DEF Fd
<1>4. \A c \in Conns : peer[c].data \/ peer[c].eof => peer'[c].data \/ peer'[c].eof
  BY <1>1 DEF vars, Environment, Connect, Send, HangUp, BanExpires, Peer
<1>5. \A f \in Fds : HasInput(f) => HasInput(f)'
  BY <1>1, <1>2, <1>4 DEF HasInput
<1> QED
  BY <1>3, <1>5, InputKept

LEMMA InputMain ==
  ASSUME TypeOK, PlaceInv, OwnedInv, InputInv, MainStep
  PROVE  InputInv'
<1> USE DEF store, workers
<1>1. peer \in [Conns -> Peer] /\ owner \in [Fds -> Conns \cup {NoConn}]
  BY DEF TypeOK, KernelOK
<1>2. UNCHANGED workers /\ \A w \in Workers : Fd(w)' = Fd(w) /\ wpc'[w] = wpc[w]
  BY DEF MainStep, Select, AcceptNothing, AcceptBanned, AcceptClient, AcceptWatch, AcceptInsert,
     ScanClear, ScanUnwatch, ScanPush, ScanCrash, main, Fd
<1>3. CASE Select
  <2>1. UNCHANGED kernel /\ queue' = queue /\ \A f \in ready' : Readable(f)
    BY <1>3 DEF Select
  <2> QED
    BY <1>2, <2>1, InputSame DEF Awaited, Queued
<1>4. CASE AcceptNothing \/ AcceptWatch \/ AcceptInsert \/ ScanClear
           \/ \E f \in AllFds : ScanUnwatch(f) \/ ScanCrash(f)
  <2>1. UNCHANGED kernel /\ queue' = queue /\ ready' \subseteq ready
    BY <1>4 DEF AcceptNothing, AcceptWatch, AcceptInsert, ScanClear, ScanUnwatch, ScanCrash,
       AfterAccept, main
  <2> QED
    BY <1>2, <2>1, InputSame DEF Awaited, Queued
<1>5. ASSUME NEW f \in AllFds, ScanPush(f) PROVE InputInv'
  <2> DEFINE k == [fd |-> f, conn |-> table[f].conn, id |-> table[f].id]
  <2>1. /\ UNCHANGED kernel /\ f \in ready /\ ready' = ready \ {f}
        /\ queue' = Append(queue, k) /\ queue \in Seq(Client)
    BY <1>5 DEF ScanPush, IsLowest, TypeOK, StoreOK
  <2>2. k \in Client /\ k.fd = f
    BY <1>5 DEF ScanPush, TypeOK, StoreOK, Entry, Client
  <2> HIDE DEF k
  <2>3. Queued' = Queued \cup {f}
    BY <2>1, <2>2, Pushed
  <2> QED
    BY <1>2, <2>1, <2>3, InputSame DEF Awaited
<1>6. ASSUME NEW c \in Conns, AcceptBanned(c) PROVE InputInv'
  <2>1. /\ owner' = owner /\ queue' = queue /\ ready' \subseteq ready
        /\ peer' = [peer EXCEPT ![c] = Gone] /\ peer[c].at = "pending"
    BY <1>6 DEF AcceptBanned, AfterAccept
  <2>2. \A f \in Fds : HasInput(f) => HasInput(f)'
    BY <1>1, <2>1 DEF HasInput, OwnedInv
  <2>3. \A f : Awaited(f)' => Awaited(f)
    BY <1>2, <2>1 DEF Awaited, Queued
  <2> QED
    BY <2>2, <2>3, InputKept
<1>7. ASSUME NEW c \in Conns, NEW f \in Fds, AcceptClient(c, f) PROVE InputInv'
  <2>1. /\ owner' = [owner EXCEPT ![f] = c] /\ owner[f] = NoConn
        /\ queue' = queue /\ ready' = ready
        /\ peer' = [peer EXCEPT ![c].at = "open"]
    BY <1>7 DEF AcceptClient, Free
  <2>2. \A b \in Conns : peer'[b].data = peer[b].data /\ peer'[b].eof = peer[b].eof
    BY <1>1, <2>1 DEF Peer
  <2>3. \A g \in Fds : HasInput(g) => HasInput(g)'
    BY <1>1, <2>1, <2>2 DEF HasInput
  <2>4. \A g : Awaited(g)' => Awaited(g)
    BY <1>2, <2>1 DEF Awaited, Queued
  <2> QED
    BY <2>3, <2>4, InputKept
<1> QED
  BY <1>3, <1>4, <1>5, <1>6, <1>7 DEF MainStep

\* A worker that takes input away, or closes, takes it from itself only: its
\* descriptor is nowhere else, and no other stands for its connection.
LEMMA InputTaken ==
  ASSUME TypeOK, PlaceInv, OwnedInv, InputInv, NEW w \in Workers, Busy(w), wpc'[w] # "read",
         UNCHANGED <<ready, queue>>,
         \A v \in Workers \ {w} : wpc'[v] = wpc[v] /\ Fd(v)' = Fd(v),
         \A f \in Fds \ {Fd(w)} : owner'[f] = owner[f],
         \A c \in Conns : owner[Fd(w)] # c => peer'[c] = peer[c]
  PROVE  InputInv'
<1>1. Fd(w) \in Fds /\ owner \in [Fds -> Conns \cup {NoConn}]
  BY DEF TypeOK, PoolOK, KernelOK, Client, Fd
<1>2. Fd(w) \notin ready \cup Queued
  BY DEF PlaceInv, Apart
<1>3. Queued' = Queued
  BY DEF Queued
<1>4. \A f : Awaited(f)' => Awaited(f) /\ f # Fd(w)
  BY <1>2, <1>3 DEF Awaited, PlaceInv, Apart, Busy
<1>5. ASSUME NEW f \in Fds, f # Fd(w), HasInput(f) PROVE HasInput(f)'
  <2>1. owner'[f] = owner[f] /\ owner[f] \in Conns /\ owner[f] # owner[Fd(w)]
    BY <1>1, <1>5 DEF OwnedInv, HasInput
  <2> QED
    BY <1>5, <2>1 DEF HasInput
<1> QED
  BY <1>4, <1>5, InputKept

LEMMA InputWorker ==
  ASSUME TypeOK, PlaceInv, OwnedInv, InputInv, NEW w \in Workers, WorkerStep(w)
  PROVE  InputInv'
<1> USE DEF kernel, main, store, workers
<1>1. /\ peer \in [Conns -> Peer] /\ owner \in [Fds -> Conns \cup {NoConn}]
      /\ wpc \in [Workers -> WorkerPC] /\ loc \in [Workers -> Local]
      /\ queue \in Seq(Client)
  BY DEF TypeOK, KernelOK, PoolOK, StoreOK
<1>2. CASE Take(w)
  <2>1. UNCHANGED kernel /\ ready' = ready
    BY <1>2 DEF Take
  <2>2. Queued' \subseteq Queued /\ Head(queue).fd \in Queued
    BY <1>1, <1>2, Popped DEF Take, PlaceInv, Apart
  <2>3. CASE UNCHANGED workers
    <3>1. \A v \in Workers : wpc'[v] = wpc[v] /\ Fd(v)' = Fd(v)
      BY <2>3 DEF Fd
    <3> QED
      BY <2>1, <2>2, <3>1, InputSame DEF Awaited
  <2>4. CASE loc' = [loc EXCEPT ![w].cli = Head(queue), ![w].act = table[Head(queue).fd].act]
              /\ Goto(w, "read")
    <3> DEFINE l == [loc[w] EXCEPT !.cli = Head(queue), !.act = table[Head(queue).fd].act]
    <3>1. loc' = [loc EXCEPT ![w] = l] /\ l.cli = Head(queue)
      BY <1>1, <2>4 DEF Local
    <3> HIDE DEF l
    <3>2. /\ Fd(w)' = Head(queue).fd
          /\ \A v \in Workers \ {w} : wpc'[v] = wpc[v] /\ Fd(v)' = Fd(v)
      BY <1>1, <2>4, <3>1 DEF Fd, Goto
    <3> QED
      BY <2>1, <2>2, <3>2, InputSame DEF Awaited
  <2> QED
    BY <1>2, <2>3, <2>4 DEF Take
<1>3. CASE ReadLine(w)
  <2>1. /\ Busy(w) /\ wpc' = [wpc EXCEPT ![w] = "parse"] /\ loc' = loc
        /\ owner' = owner /\ ready' = ready /\ queue' = queue
        /\ peer' = [peer EXCEPT ![owner[Fd(w)]].data = FALSE]
    BY <1>3 DEF ReadLine, Goto, Busy, Fd
  <2>2. /\ wpc'[w] # "read"
        /\ \A v \in Workers \ {w} : wpc'[v] = wpc[v] /\ Fd(v)' = Fd(v)
    BY <1>1, <2>1 DEF Fd
  <2>3. \A c \in Conns : owner[Fd(w)] # c => peer'[c] = peer[c]
    BY <1>1, <2>1
  <2> QED
    BY <2>1, <2>2, <2>3, InputTaken
<1>4. CASE CloseFd(w)
  <2>1. /\ Busy(w) /\ wpc' = [wpc EXCEPT ![w] = "erase"] /\ loc' = loc
        /\ owner' = [owner EXCEPT ![Fd(w)] = NoConn] /\ ready' = ready /\ queue' = queue
        /\ peer' = IF owner[Fd(w)] = NoConn THEN peer ELSE [peer EXCEPT ![owner[Fd(w)]] = Gone]
    BY <1>4 DEF CloseFd, Goto, Busy, Fd
  <2>2. /\ wpc'[w] # "read"
        /\ \A v \in Workers \ {w} : wpc'[v] = wpc[v] /\ Fd(v)' = Fd(v)
    BY <1>1, <2>1 DEF Fd
  <2>3. /\ \A c \in Conns : owner[Fd(w)] # c => peer'[c] = peer[c]
        /\ \A f \in Fds \ {Fd(w)} : owner'[f] = owner[f]
    BY <1>1, <2>1
  <2> QED
    BY <2>1, <2>2, <2>3, InputTaken
<1>5. CASE \/ ReadFails(w) \/ Parse(w) \/ Dispatch(w) \/ Ban(w) \/ Settle(w) \/ EraseEntry(w)
           \/ Fetch(w) \/ Cleared(w) \/ Watched(w)
  <2>1. UNCHANGED <<kernel, ready, queue>>
    BY <1>5 DEF ReadFails, Parse, Dispatch, Ban, Settle, EraseEntry, Fetch, Cleared, Watched
  <2>2. /\ wpc'[w] # "read"
        /\ \A v \in Workers \ {w} : wpc'[v] = wpc[v] /\ loc'[v] = loc[v]
    BY <1>1, <1>5 DEF ReadFails, Parse, Dispatch, Ban, Settle, EraseEntry, Fetch, Cleared,
       Watched, Goto
  <2>3. \A f : Awaited(f)' => Awaited(f)
    BY <2>1, <2>2, AwaitedSame DEF Fd
  <2> QED
    BY <2>1, <2>3, InputSame
<1> QED
  BY <1>2, <1>3, <1>4, <1>5 DEF WorkerStep
-----------------------------------------------------------------------------
LEMMA InputNext ==
  ASSUME PlacesInv, OwnedInv, Steady => InputInv, [Next]_vars
  PROVE  Steady' => InputInv'
<1> SUFFICES ASSUME Steady' PROVE InputInv'
  OBVIOUS
<1>1. TypeOK /\ PlaceInv /\ InputInv
  BY SteadyBack DEF PlacesInv
<1> QED
  BY <1>1, InputEnvironment, InputMain, InputWorker DEF Next

\* A worker at read_fd finds input or the end of the stream.
THEOREM ReaderHasInputCorrect == Spec => []ReaderHasInput
<1> DEFINE Inv == PlacesInv /\ OwnedInv /\ (Steady => InputInv)
<1>1. Init => Inv
  BY PlacesInit, OwnedInit, InputInit
<1>2. Inv /\ TypeOK' /\ [Next]_vars => Inv'
  BY PlacesNext, OwnedNext, InputNext DEF PlacesInv
<1>3. Inv => ReaderHasInput
  <2> SUFFICES ASSUME Inv, Steady, NEW w \in Workers, wpc[w] = "read"
               PROVE  Readable(loc[w].cli.fd)
    BY DEF ReaderHasInput
  <2>1. Fd(w) \in Fds
    BY DEF PlacesInv, TypeOK, PoolOK, Busy, Client, Fd
  <2> QED
    BY <2>1 DEF InputInv, Awaited, Fd
<1> QED
  BY <1>1, <1>2, <1>3, TypeCorrect, PTL DEF Spec
-----------------------------------------------------------------------------
(***************************************************************************)
(* Accounts.  The user id a handler is called with is the one of the       *)
(* account whose credentials the client's own lines held.  The id is       *)
(* stored by the login, carried by the entry in handle_clients, copied to  *)
(* the queue by the scan and to the worker by the queue.                   *)
(***************************************************************************)
\* The id of an entry goes with its action.
OwnId(e) ==
  e.id = IF e.act \in {greetings, registration, authentification} THEN -1 ELSE AccountOf[e.conn]

\* What handle can return to a worker whose line is its own client's.
OwnResults(l) == Results(l.act, AccountOf[l.cli.conn], Offered) \cup {disconnect}

\* A worker's copy of the id is current until the answer; its entry is missing
\* only when the connection is closed.
WorkerId(w) ==
  /\ wpc[w] \in {"read", "parse", "dispatch"} => loc[w].cli.id = table[Fd(w)].id
  /\ wpc[w] = "dispatch" => loc[w].res \in OwnResults(loc[w])
  /\ Busy(w) /\ Fd(w) \notin DOMAIN table => owner[Fd(w)] = NoConn

EntryIds  == \A f \in DOMAIN table : owner[f] # NoConn => OwnId(table[f])
QueueIds  == \A i \in 1..Len(queue) : queue[i].id = table[queue[i].fd].id
NewClient == mpc \in {"watch", "insert"} => mcli.id = -1

AccountInv == EntryIds /\ QueueIds /\ NewClient /\ \A w \in Workers : WorkerId(w)
-----------------------------------------------------------------------------
(***************************************************************************)
(* A session's answers: what the protocol makes of an entry's id.          *)
(***************************************************************************)
\* The only answer a login stores is the account's id.
LEMMA LoginResult ==
  ASSUME NEW a \in Actions, NEW c \in Conns, NEW r \in Results(a, AccountOf[c], Offered),
         LogsIn(a, r)
  PROVE  r = AccountOf[c]
<1>1. a \in {registration, authentification}
  BY DEF LogsIn
<1> QED
  BY <1>1 DEF LogsIn, Results, Registration, Authentification, greetings, registration,
     authentification, command_checker, get, add, del, edit

\* The menus offer no way past the login.
LEMMA MenuChoice ==
  ASSUME NEW a \in Actions, NEW c \in Conns, NEW r \in Results(a, AccountOf[c], Offered),
         r # NOONE
  PROVE  /\ a = greetings => r \in {registration, authentification}
         /\ a = command_checker => r \in Operations
<1>1. Offered \subseteq Operations
  BY ClientAssumption
<1> QED
  BY <1>1 DEF Results, Reg_or_Auth, Command_checker, greetings, registration, authentification,
     command_checker, get, add, del, edit, NOONE

LEMMA AnsweredOwn ==
  ASSUME NEW e \in Entry, e.act \in Actions, OwnId(e),
         NEW r \in Results(e.act, AccountOf[e.conn], Offered)
  PROVE  OwnId(Answered(e, r))
<1> DEFINE g == Answered(e, r)
<1>1. /\ g.act = NextAction(e.act, r) /\ g.conn = e.conn
      /\ g.id = IF LogsIn(e.act, r) THEN r ELSE e.id
      /\ e.conn \in Conns
  BY DEF Answered, Entry
<1> HIDE DEF g
<1>2. CASE LogsIn(e.act, r)
  <2>1. r = AccountOf[e.conn]
    BY <1>1, <1>2, LoginResult
  <2>2. g.act = command_checker
    BY <1>1, <1>2 DEF NextAction, LogsIn, greetings, registration, authentification, command_checker
  <2> QED
    BY <1>1, <1>2, <2>1, <2>2 DEF OwnId, greetings, registration, authentification, command_checker, g
<1>3. CASE ~LogsIn(e.act, r) /\ e.act \in {greetings, command_checker} /\ r # NOONE
  <2>1. g.act = r
    BY <1>1, <1>3 DEF NextAction, Operations, get, edit, greetings, command_checker
  <2>2. /\ e.act = greetings => r \in {1, 2}
        /\ e.act = command_checker => r \in 4..7
    BY <1>1, <1>3, MenuChoice DEF registration, authentification, Operations, get, edit
  <2> QED
    BY <1>1, <1>3, <2>1, <2>2 DEF OwnId, greetings, registration, authentification, command_checker, g
<1>4. CASE ~LogsIn(e.act, r) /\ ~(e.act \in {greetings, command_checker} /\ r # NOONE)
  <2>1. g.act = IF e.act \in Operations THEN command_checker ELSE e.act
    BY <1>1, <1>4 DEF NextAction
  <2> QED
    BY <1>1, <1>4, <2>1 DEF OwnId, Operations, get, edit, greetings, registration,
       authentification, command_checker, g
<1> QED
  BY <1>2, <1>3, <1>4
-----------------------------------------------------------------------------
(***************************************************************************)
(* The steps.                                                              *)
(***************************************************************************)
LEMMA AccountInit == Init => AccountInv
<1> SUFFICES ASSUME Init PROVE AccountInv
  OBVIOUS
<1>1. /\ DOMAIN table = {} /\ Len(queue) = 0 /\ mpc = "select"
      /\ \A w \in Workers : wpc[w] = "idle"
  BY DEF Init
<1> QED
  BY <1>1 DEF AccountInv, EntryIds, QueueIds, NewClient, WorkerId, Busy

LEMMA OthersId ==
  ASSUME NEW v \in Workers, wpc'[v] = wpc[v], loc'[v] = loc[v], owner'[Fd(v)] = owner[Fd(v)],
         Fd(v) \in DOMAIN table' <=> Fd(v) \in DOMAIN table, table'[Fd(v)] = table[Fd(v)]
  PROVE  WorkerId(v) => WorkerId(v)'
  BY DEF WorkerId, OwnResults, Fd, Busy

\* A queued client has its entry.
LEMMA QueuedListed ==
  ASSUME TypeOK, PlaceInv, TableInv, NEW i \in 1..Len(queue)
  PROVE  queue[i] \in Client /\ queue[i].fd \in Queued /\ queue[i].fd \in DOMAIN table
<1>1. queue[i] \in Client
  BY ElementOfSeq DEF TypeOK, StoreOK
<1>2. queue[i].fd \in Queued /\ queue[i].fd \in Fds
  BY <1>1 DEF Queued, Client
<1>3. queue[i].fd \notin Entering
  BY <1>2 DEF Entering, PlaceInv, Apart, Kept
<1> QED
  BY <1>1, <1>2, <1>3 DEF Listed, TableInv, ListedOK

\* A worker that has a client disturbs what is said of this client only.
LEMMA AccountByWorker ==
  ASSUME TypeOK, PlaceInv, TableInv, AccountInv, NEW w \in Workers, Busy(w),
         UNCHANGED <<queue, main>>,
         \A v \in Workers \ {w} : loc'[v] = loc[v] /\ wpc'[v] = wpc[v],
         \A f : f # Fd(w) => (f \in DOMAIN table' <=> f \in DOMAIN table),
         \A f \in DOMAIN table : f # Fd(w) => table'[f] = table[f],
         \A f \in Fds : f # Fd(w) => owner'[f] = owner[f],
         Fd(w) \in DOMAIN table' /\ owner'[Fd(w)] # NoConn => OwnId(table'[Fd(w)]),
         WorkerId(w)'
  PROVE  AccountInv'
<1>1. queue' = queue /\ mpc' = mpc /\ mcli' = mcli /\ DOMAIN table \subseteq Fds
  BY DEF main, TypeOK, StoreOK
<1>2. EntryIds'
  BY <1>1 DEF AccountInv, EntryIds, OwnId
<1>3. QueueIds'
  <2>1. ASSUME NEW i \in 1..Len(queue) PROVE queue[i].fd # Fd(w) /\ queue[i].fd \in DOMAIN table
    BY QueuedListed DEF PlaceInv, Apart
  <2> QED
    BY <1>1, <2>1 DEF AccountInv, QueueIds
<1>4. NewClient'
  BY <1>1 DEF AccountInv, NewClient
<1>5. ASSUME NEW v \in Workers \ {w} PROVE WorkerId(v)'
  <2>1. CASE Busy(v)
    <3>1. Fd(v) # Fd(w) /\ Fd(v) \in Fds
      BY <1>5, <2>1 DEF PlaceInv, Apart, TypeOK, PoolOK, Client, Fd
    <3>2. WorkerId(v)
      BY DEF AccountInv
    <3>3. CASE Fd(v) \in DOMAIN table
      BY <3>1, <3>2, <3>3, OthersId
    <3>4. CASE Fd(v) \notin DOMAIN table
      <4>1. wpc[v] \notin {"read", "parse", "dispatch"}
        BY <2>1, <3>4 DEF TableInv, WorkerEntry
      <4> QED
        BY <3>1, <3>2, <3>4, <4>1 DEF WorkerId, Fd, Busy
    <3> QED
      BY <3>3, <3>4
  <2>2. CASE ~Busy(v)
    BY <2>2 DEF WorkerId, Busy
  <2> QED
    BY <2>1, <2>2
<1> QED
  BY <1>2, <1>3, <1>4, <1>5 DEF AccountInv

\* The login's answer, whatever handler gave it, leaves the entry its own id.
LEMMA AccountDispatch ==
  ASSUME TypeOK, PlaceInv, TableInv, AccountInv, NEW w \in Workers, Dispatch(w)
  PROVE  AccountInv'
<1> USE DEF kernel, fdset, store
<1> DEFINE e == table[Fd(w)]
           r == loc[w].res
<1>1. loc \in [Workers -> Local] /\ wpc \in [Workers -> WorkerPC]
  BY DEF TypeOK, PoolOK
<1>2. Busy(w) /\ wpc[w] = "dispatch" /\ Fd(w) \in DOMAIN table /\ WorkerEntry(w) /\ WorkerId(w)
      /\ owner[Fd(w)] # NoConn
  BY DEF Dispatch, Busy, TableInv, WorkerEntry, AccountInv, PlaceInv, Open, WorkerOpen
<1>3. Touch(table, loc[w].cli) = table
  BY <1>2 DEF Touch, Insert, Fd
<1>4. /\ wpc' = [wpc EXCEPT ![w] = IF Closes(e.act, r) THEN "close" ELSE "check"]
      /\ loc' = [loc EXCEPT ![w].call = "handler"]
      /\ table' = IF Closes(e.act, r) THEN table ELSE [table EXCEPT ![Fd(w)] = Answered(e, r)]
      /\ UNCHANGED <<queue, main, owner>>
  BY <1>3 DEF Dispatch, Goto, Fd
<1>5. e \in Entry /\ e.act \in Actions /\ e.act = loc[w].act /\ e.conn = loc[w].cli.conn
      /\ OwnId(e)
  BY <1>2 DEF TypeOK, StoreOK, WorkerEntry, TableInv, EntriesOK, AccountInv, EntryIds
<1>6. DOMAIN table' = DOMAIN table /\ \A f \in DOMAIN table : f # Fd(w) => table'[f] = table[f]
  BY <1>4
<1>7. OwnId(table'[Fd(w)])
  <2>1. CASE Closes(e.act, r)
    BY <1>4, <1>5, <2>1
  <2>2. CASE ~Closes(e.act, r)
    <3>1. r \in Results(e.act, AccountOf[e.conn], Offered)
      <4>1. r # disconnect
        BY <1>5, <2>2 DEF Closes
      <4> QED
        BY <1>2, <1>5, <4>1 DEF WorkerId, OwnResults
    <3>2. OwnId(Answered(e, r))
      BY <1>5, <3>1, AnsweredOwn
    <3> QED
      BY <1>2, <1>4, <2>2, <3>2
  <2> QED
    BY <2>1, <2>2
<1> HIDE DEF e, r
<1>8. /\ wpc'[w] \in {"close", "check"} /\ Fd(w)' = Fd(w)
      /\ \A v \in Workers \ {w} : loc'[v] = loc[v] /\ wpc'[v] = wpc[v]
  <2> DEFINE l == [loc[w] EXCEPT !.call = "handler"]
  <2>1. loc' = [loc EXCEPT ![w] = l] /\ l.cli = loc[w].cli
    BY <1>1, <1>4 DEF Local
  <2> HIDE DEF l
  <2> QED
    BY <1>1, <1>4, <2>1 DEF Fd
<1>9. WorkerId(w)'
  BY <1>2, <1>4, <1>6, <1>8 DEF WorkerId
<1> QED
  BY <1>2, <1>4, <1>6, <1>7, <1>8, <1>9, AccountByWorker

\* The other steps of a worker that has a client.
LEMMA AccountServe ==
  ASSUME TypeOK, PlaceInv, TableInv, AccountInv, NEW w \in Workers, struck' = {},
         \/ ReadLine(w) \/ ReadFails(w) \/ Parse(w) \/ Ban(w) \/ Settle(w) \/ CloseFd(w)
         \/ EraseEntry(w) \/ Fetch(w) \/ Cleared(w) \/ Watched(w)
  PROVE  AccountInv'
<1> USE DEF kernel, fdset, store, history
<1>1. /\ loc \in [Workers -> Local] /\ wpc \in [Workers -> WorkerPC] /\ loc[w] \in Local
      /\ owner \in [Fds -> Conns \cup {NoConn}]
  BY DEF TypeOK, PoolOK, KernelOK
<1>2. Busy(w) /\ WorkerId(w) /\ WorkerEntry(w) /\ WorkerOpen(w) /\ Fd(w) \in Fds
      /\ loc[w].cli \in Client
  BY DEF ReadLine, ReadFails, Parse, Ban, Settle, CloseFd, EraseEntry, Fetch, Cleared, Watched,
     Busy, AccountInv, TableInv, PlaceInv, Open, TypeOK, PoolOK, Client, Fd
<1>3. \A v \in Workers \ {w} : loc'[v] = loc[v] /\ wpc'[v] = wpc[v]
  BY <1>1 DEF ReadLine, ReadFails, Parse, Ban, Settle, CloseFd, EraseEntry, Fetch, Cleared,
     Watched, Goto
\* Those that leave the map and the kernel's descriptors alone.
<1>4. ASSUME UNCHANGED <<queue, main, owner, table>>, WorkerId(w)'
      PROVE  AccountInv'
  BY <1>2, <1>3, <1>4, AccountByWorker DEF AccountInv, EntryIds
<1>5. ASSUME NEW l \in Local, l.cli = loc[w].cli, l.act = loc[w].act,
             loc' = [loc EXCEPT ![w] = l],
             wpc'[w] = "dispatch" => l.res \in OwnResults(l),
             wpc'[w] \in {"read", "parse", "dispatch"} => wpc[w] \in {"read", "parse", "dispatch"},
             UNCHANGED <<owner, table>>
      PROVE  WorkerId(w)'
  BY <1>1, <1>2, <1>5 DEF WorkerId, Fd, Busy
<1>6. CASE ReadLine(w)
  <2>1. /\ loc' = [loc EXCEPT ![w] = loc[w]] /\ wpc[w] = "read" /\ wpc'[w] = "parse"
        /\ UNCHANGED <<queue, main, owner, table>>
    BY <1>1, <1>6 DEF ReadLine, Goto
  <2> QED
    BY <1>1, <1>4, <1>5, <2>1
<1>7. CASE ReadFails(w)
  <2> DEFINE l == [loc[w] EXCEPT !.res = disconnect]
  <2>0. disconnect \in Int
    BY DEF disconnect
  <2>1. l \in Local /\ l.cli = loc[w].cli /\ l.act = loc[w].act /\ l.res = disconnect
    BY <1>1, <2>0 DEF Local
  <2>2. /\ loc' = [loc EXCEPT ![w] = l] /\ wpc[w] = "read" /\ wpc'[w] = "dispatch"
        /\ UNCHANGED <<queue, main, owner, table>>
    BY <1>1, <1>7 DEF ReadFails, Goto
  <2> HIDE DEF l
  <2>3. l.res \in OwnResults(l)
    BY <2>1 DEF OwnResults
  <2> QED
    BY <1>4, <1>5, <2>1, <2>2, <2>3
<1>8. CASE Parse(w)
  <2>1. loc[w].act \in Actions /\ loc[w].cli.conn \in Conns
    BY <1>1, <1>2 DEF Local, Client
  <2>2. buf[loc[w].act] = loc[w].cli.conn
    BY <1>8 DEF Parse, Strike
  <2>3. PICK r \in Results(loc[w].act, AccountOf[loc[w].cli.conn], Offered) :
          loc' = [loc EXCEPT ![w].res = r]
    BY <1>8, <2>2 DEF Parse
  <2>4. r \in Int
    BY <2>1, ResultsType
  <2> DEFINE l == [loc[w] EXCEPT !.res = r]
  <2>5. l \in Local /\ l.cli = loc[w].cli /\ l.act = loc[w].act /\ l.res = r
    BY <1>1, <2>4 DEF Local
  <2>6. /\ loc' = [loc EXCEPT ![w] = l] /\ wpc[w] = "parse" /\ wpc'[w] = "dispatch"
        /\ UNCHANGED <<queue, main, owner, table>>
    BY <1>1, <1>8, <2>3 DEF Parse, Goto
  <2> HIDE DEF l
  <2>7. l.res \in OwnResults(l)
    BY <2>5 DEF OwnResults
  <2> QED
    BY <1>4, <1>5, <2>5, <2>6, <2>7
\* Ban and Settle look the entry up; it is there, or the connection is closed.
<1>9. CASE Ban(w) \/ Settle(w)
  <2>1. PICK c \in {"ban", "result"} :
          /\ loc' = [loc EXCEPT ![w].call = c] /\ wpc[w] = "check" /\ wpc'[w] \in {"close", "watch"}
          /\ table' = Touch(table, loc[w].cli)
          /\ UNCHANGED <<queue, main, owner>>
    BY <1>1, <1>9 DEF Ban, Settle, Goto
  <2> DEFINE l == [loc[w] EXCEPT !.call = c]
  <2>2. l.cli = loc[w].cli /\ loc' = [loc EXCEPT ![w] = l]
    BY <1>1, <2>1 DEF Local
  <2> HIDE DEF l
  <2>3. /\ DOMAIN table' = DOMAIN table \cup {Fd(w)} /\ \A f \in DOMAIN table : table'[f] = table[f]
    BY <1>2, <2>1, Touched
  <2>4. Fd(w)' = Fd(w) /\ owner' = owner
    BY <1>1, <2>1, <2>2 DEF Fd
  <2>5. WorkerId(w)'
    BY <2>1, <2>3, <2>4 DEF WorkerId
  <2>6. owner'[Fd(w)] # NoConn => OwnId(table'[Fd(w)])
    <3>1. owner[Fd(w)] # NoConn => Fd(w) \in DOMAIN table
      BY <1>2 DEF WorkerId
    <3> QED
      BY <2>3, <2>4, <3>1 DEF AccountInv, EntryIds
  <2> QED
    BY <1>2, <1>3, <2>1, <2>3, <2>4, <2>5, <2>6, AccountByWorker
<1>10. CASE CloseFd(w)
  <2>1. /\ loc' = loc /\ wpc'[w] = "erase" /\ owner' = [owner EXCEPT ![Fd(w)] = NoConn]
        /\ UNCHANGED <<queue, main, table>>
    BY <1>1, <1>10 DEF CloseFd, Goto, Fd
  <2>2. owner'[Fd(w)] = NoConn /\ \A f \in Fds : f # Fd(w) => owner'[f] = owner[f]
    BY <1>1, <1>2, <2>1
  <2>3. WorkerId(w)'
    BY <2>1, <2>2 DEF WorkerId, Fd
  <2> QED
    BY <1>2, <1>3, <2>1, <2>2, <2>3, AccountByWorker
<1>11. CASE EraseEntry(w)
  <2>1. /\ loc' = loc /\ wpc[w] = "erase" /\ wpc'[w] = "clear" /\ table' = Erase(table, Fd(w))
        /\ UNCHANGED <<queue, main, owner>>
    BY <1>1, <1>11 DEF EraseEntry, Goto, Fd
  <2>2. DOMAIN table' = DOMAIN table \ {Fd(w)}
        /\ \A f \in DOMAIN table : f # Fd(w) => table'[f] = table[f]
    BY <2>1 DEF Erase
  <2>3. owner'[Fd(w)] = NoConn
    BY <1>2, <2>1 DEF WorkerOpen
  <2>4. WorkerId(w)'
    BY <2>1, <2>3 DEF WorkerId, Fd
  <2> QED
    BY <1>2, <1>3, <2>1, <2>2, <2>4, AccountByWorker
<1>12. CASE Fetch(w)
  <2> DEFINE l == [loc[w] EXCEPT !.copy = master]
  <2>1. l \in Local /\ l.cli = loc[w].cli /\ l.act = loc[w].act
    BY <1>1 DEF Local, TypeOK, StoreOK
  <2>2. /\ loc' = [loc EXCEPT ![w] = l] /\ wpc'[w] \in {"cleared", "watched"}
        /\ UNCHANGED <<queue, main, owner, table>>
    BY <1>1, <1>12 DEF Fetch, Goto
  <2> HIDE DEF l
  <2> QED
    BY <1>4, <1>5, <2>1, <2>2
<1>13. CASE Cleared(w) \/ Watched(w)
  <2>1. UNCHANGED <<queue, main, owner, table>>
    BY <1>13 DEF Cleared, Watched
  <2>2. CASE wpc'[w] = "idle"
    BY <1>4, <2>1, <2>2 DEF WorkerId, Busy
  <2>3. CASE Goto(w, "check") /\ loc' = [loc EXCEPT ![w].copy = {}]
    <3> DEFINE l == [loc[w] EXCEPT !.copy = {}]
    <3>1. l \in Local /\ l.cli = loc[w].cli /\ l.act = loc[w].act /\ loc' = [loc EXCEPT ![w] = l]
      BY <1>1, <2>3 DEF Local
    <3>2. wpc'[w] = "check"
      BY <1>1, <2>3 DEF Goto
    <3> HIDE DEF l
    <3> QED
      BY <1>4, <1>5, <2>1, <3>1, <3>2
  <2> QED
    BY <1>1, <1>13, <2>2, <2>3 DEF Cleared, Watched, Goto
<1> QED
  BY <1>6, <1>7, <1>8, <1>9, <1>10, <1>11, <1>12, <1>13

\* The queue hands its copy of the id to the worker.
LEMMA AccountTake ==
  ASSUME TypeOK, PlaceInv, TableInv, AccountInv, NEW w \in Workers, Take(w)
  PROVE  AccountInv'
<1> USE DEF kernel, fdset, store, history
<1> DEFINE k == Head(queue)
           l == [loc[w] EXCEPT !.cli = k, !.act = table[k.fd].act]
<1>1. loc \in [Workers -> Local] /\ wpc \in [Workers -> WorkerPC] /\ queue \in Seq(Client)
  BY DEF TypeOK, PoolOK, StoreOK
<1>2. queue # <<>> /\ queue' = Tail(queue) /\ mpc' = mpc /\ mcli' = mcli
      /\ owner' = owner /\ table' = table
  BY DEF Take, main
<1>3. k.fd \in DOMAIN table /\ table[k.fd].act \in Actions
  BY <1>2, HeadListed
<1>4. k.id = table[k.fd].id
  <2>1. k = queue[1] /\ 1 \in 1..Len(queue)
    BY <1>1, <1>2, HeadTailProperties, EmptySeq
  <2> QED
    BY <2>1 DEF AccountInv, QueueIds
<1>5. /\ loc' = [loc EXCEPT ![w].cli = k, ![w].act = table[k.fd].act] /\ Goto(w, "read")
  BY <1>3 DEF Take
<1>6. loc' = [loc EXCEPT ![w] = l] /\ l.cli = k
  BY <1>1, <1>5 DEF Local
<1> HIDE DEF l
<1>7. /\ Fd(w)' = k.fd /\ wpc'[w] = "read" /\ loc'[w].cli = k
      /\ \A v \in Workers \ {w} : loc'[v] = loc[v] /\ wpc'[v] = wpc[v]
  BY <1>1, <1>5, <1>6 DEF Goto, Fd
<1>8. QueueIds'
  <2>1. ASSUME NEW i \in 1..Len(queue') PROVE queue'[i].id = table'[queue'[i].fd].id
    <3>1. queue'[i] = queue[i + 1] /\ i + 1 \in 1..Len(queue)
      BY <1>1, <1>2, HeadTailProperties, EmptySeq
    <3> QED
      BY <1>2, <3>1 DEF AccountInv, QueueIds
  <2> QED
    BY <2>1 DEF QueueIds
<1> HIDE DEF k
<1>9. WorkerId(w)'
  BY <1>2, <1>3, <1>4, <1>7 DEF WorkerId
<1>10. \A v \in Workers \ {w} : WorkerId(v)'
  BY <1>2, <1>7, OthersId DEF AccountInv
<1>11. EntryIds' /\ NewClient'
  BY <1>2 DEF AccountInv, EntryIds, NewClient, OwnId
<1> QED
  BY <1>8, <1>9, <1>10, <1>11 DEF AccountInv

\* Clients, clock and most of the main thread touch no id.
LEMMA AccountIdle ==
  ASSUME AccountInv, UNCHANGED <<workers, queue, owner, table>>,
         mpc' \in {"watch", "insert"} => mpc \in {"watch", "insert"} /\ mcli' = mcli
  PROVE  AccountInv'
<1>1. /\ wpc' = wpc /\ loc' = loc /\ queue' = queue /\ owner' = owner /\ table' = table
  BY DEF workers
<1>2. \A w \in Workers : WorkerId(w)' <=> WorkerId(w)
  BY <1>1 DEF WorkerId, OwnResults, Fd, Busy
<1>3. EntryIds' /\ QueueIds' /\ NewClient'
  BY <1>1 DEF AccountInv, EntryIds, QueueIds, NewClient, OwnId
<1> QED
  BY <1>2, <1>3 DEF AccountInv

\* The steps of the main thread; PlaceInv and TableInv hold after them, too.
LEMMA AccountMain ==
  ASSUME TypeOK, PlaceInv, TableInv, PlaceInv', TableInv', AccountInv, MainStep
  PROVE  AccountInv'
<1> USE DEF kernel, fdset, store, history
<1>1. ASSUME \/ Select \/ AcceptNothing \/ AcceptWatch \/ ScanClear
             \/ \E c \in Conns : AcceptBanned(c)
             \/ \E f \in AllFds : ScanUnwatch(f) \/ ScanCrash(f)
      PROVE  AccountInv'
  <2>1. /\ UNCHANGED <<workers, queue, owner, table>>
        /\ mpc' \in {"watch", "insert"} => mpc \in {"watch", "insert"} /\ mcli' = mcli
    BY <1>1 DEF Select, AcceptNothing, AcceptWatch, ScanClear, AcceptBanned, ScanUnwatch,
       ScanCrash, AfterAccept, main
  <2> QED
    BY <2>1, AccountIdle
<1>2. ASSUME NEW c \in Conns, NEW f \in Fds, AcceptClient(c, f) PROVE AccountInv'
  <2>1. /\ owner' = [owner EXCEPT ![f] = c] /\ owner[f] = NoConn
        /\ UNCHANGED <<workers, queue, table>> /\ mpc' = "watch" /\ mcli'.id = -1 /\ mcli'.fd = f
    BY <1>2 DEF AcceptClient, Free
  <2>2. f \notin DOMAIN table /\ \A w \in Workers : Busy(w) => Fd(w) # f
    <3>1. Entering' = {f}
      BY <2>1 DEF Entering
    <3>2. f \notin DOMAIN table
      BY <2>1, <3>1 DEF TableInv, EnteringOK
    <3>3. \A w \in Workers : Busy(w)' => Fd(w)' # f
      <4>1. Kept' = {f}
        BY <2>1 DEF Kept
      <4> QED
        BY <4>1 DEF PlaceInv, Apart
    <3>4. \A w \in Workers : (Busy(w)' <=> Busy(w)) /\ Fd(w)' = Fd(w)
      BY <2>1 DEF workers, Busy, Fd
    <3> QED
      BY <3>2, <3>3, <3>4
  <2>3. \A g : g # f => owner'[g] = owner[g]
    BY <2>1 DEF TypeOK, KernelOK
  <2>4. ASSUME NEW w \in Workers PROVE WorkerId(w)'
    <3>1. wpc'[w] = wpc[w] /\ loc'[w] = loc[w] /\ table' = table /\ WorkerId(w)
      BY <2>1 DEF workers, AccountInv
    <3>2. CASE Busy(w)
      BY <2>2, <2>3, <3>1, <3>2, OthersId
    <3>3. CASE ~Busy(w)
      BY <3>1, <3>3 DEF WorkerId, Busy
    <3> QED
      BY <3>2, <3>3
  <2>5. EntryIds' /\ QueueIds' /\ NewClient'
    BY <2>1, <2>2, <2>3 DEF AccountInv, EntryIds, QueueIds, NewClient, OwnId
  <2> QED
    BY <2>4, <2>5 DEF AccountInv
<1>3. CASE AcceptInsert
  <2> DEFINE f == mcli.fd
             e == NewEntry(mcli)
  <2>1. /\ mpc = "insert" /\ mpc' \in {"select", "scan"} /\ table' = Insert(table, f, e)
        /\ UNCHANGED <<queue, owner, workers>> /\ mcli.id = -1
    BY <1>3 DEF AcceptInsert, AfterAccept, AccountInv, NewClient
  <2>2. Entering = {f} /\ f \in master
    BY <2>1 DEF Entering, PlaceInv, Apart
  <2>3. f \notin DOMAIN table /\ f \notin Queued /\ \A w \in Workers : Busy(w) => Fd(w) # f
    BY <2>2, ServedApart DEF TableInv, EnteringOK, PlaceInv, Apart
  <2>4. OwnId(e)
    BY <2>1 DEF OwnId, NewEntry
  <2>5. /\ DOMAIN table' = DOMAIN table \cup {f} /\ table'[f] = e
        /\ \A g \in DOMAIN table : table'[g] = table[g]
    BY <2>1, <2>3 DEF Insert
  <2> HIDE DEF f, e
  <2>6. ASSUME NEW w \in Workers PROVE WorkerId(w)'
    <3>1. wpc'[w] = wpc[w] /\ loc'[w] = loc[w] /\ owner' = owner /\ WorkerId(w) /\ Fd(w)' = Fd(w)
      BY <2>1 DEF workers, AccountInv, Fd
    <3>2. CASE Busy(w) /\ Fd(w) \in DOMAIN table
      BY <2>5, <3>1, <3>2, OthersId
    <3>3. CASE Busy(w) /\ Fd(w) \notin DOMAIN table
      <4>1. wpc[w] \notin {"read", "parse", "dispatch"}
        BY <3>3 DEF TableInv, WorkerEntry
      <4> QED
        BY <2>3, <2>5, <3>1, <3>3, <4>1 DEF WorkerId
    <3>4. CASE ~Busy(w)
      BY <3>1, <3>4 DEF WorkerId, Busy
    <3> QED
      BY <3>2, <3>3, <3>4
  <2>7. EntryIds' /\ NewClient'
    BY <2>1, <2>4, <2>5 DEF AccountInv, EntryIds, NewClient, OwnId
  <2>8. QueueIds'
    BY <2>1, <2>5, QueuedListed DEF AccountInv, QueueIds
  <2> QED
    BY <2>6, <2>7, <2>8 DEF AccountInv
<1>4. ASSUME NEW f \in AllFds, ScanPush(f) PROVE AccountInv'
  <2> DEFINE k == [fd |-> f, conn |-> table[f].conn, id |-> table[f].id]
  <2>1. /\ queue' = Append(queue, k) /\ queue \in Seq(Client) /\ mpc' \in {"select", "scan"}
        /\ UNCHANGED <<owner, workers, table>>
    BY <1>4 DEF ScanPush, TypeOK, StoreOK
  <2>2. k \in Client /\ k.id = table[k.fd].id
    BY <1>4 DEF ScanPush, TypeOK, StoreOK, Entry, Client
  <2> HIDE DEF k
  <2>3. QueueIds'
    <3>1. /\ Len(queue') = Len(queue) + 1 /\ Len(queue) \in Nat
          /\ queue'[Len(queue) + 1] = k
          /\ \A i \in 1..Len(queue) : queue'[i] = queue[i]
      BY <2>1, <2>2, AppendProperties, LenProperties
    <3>2. ASSUME NEW i \in 1..Len(queue') PROVE queue'[i].id = table'[queue'[i].fd].id
      <4>1. CASE i = Len(queue) + 1
        BY <2>1, <2>2, <3>1, <4>1
      <4>2. CASE i \in 1..Len(queue)
        BY <2>1, <3>1, <4>2 DEF AccountInv, QueueIds
      <4> QED
        BY <3>1, <4>1, <4>2
    <3> QED
      BY <3>2 DEF QueueIds
  <2>4. \A w \in Workers : WorkerId(w)' <=> WorkerId(w)
    BY <2>1 DEF workers, WorkerId, OwnResults, Fd, Busy
  <2>5. EntryIds' /\ NewClient'
    BY <2>1 DEF AccountInv, EntryIds, NewClient, OwnId
  <2> QED
    BY <2>3, <2>4, <2>5 DEF AccountInv
<1> QED
  BY <1>1, <1>2, <1>3, <1>4 DEF MainStep
-----------------------------------------------------------------------------
LEMMA AccountNext ==
  ASSUME PlacesInv, PlacesInv', struck = {} => AccountInv, [Next]_vars
  PROVE  struck' = {} => AccountInv'
<1> SUFFICES ASSUME struck' = {} PROVE AccountInv'
  OBVIOUS
<1>1. struck = {} /\ Steady /\ Steady'
  BY StruckGrows DEF Steady
<1>2. TypeOK /\ PlaceInv /\ TableInv /\ PlaceInv' /\ TableInv' /\ AccountInv
  BY <1>1 DEF PlacesInv
<1>3. CASE Environment \/ UNCHANGED vars
  <2>1. UNCHANGED <<workers, queue, owner, table, mpc, mcli>>
    BY <1>3 DEF vars, kernel, store, main, Environment, Connect, Send, HangUp, BanExpires
  <2> QED
    BY <1>2, <2>1, AccountIdle
<1>4. CASE MainStep
  BY <1>2, <1>4, AccountMain
<1>5. ASSUME NEW w \in Workers, WorkerStep(w) PROVE AccountInv'
  BY <1>2, <1>5, AccountTake, AccountDispatch, AccountServe DEF WorkerStep
<1> QED
  BY <1>3, <1>4, <1>5 DEF Next

\* An operation runs with the user id of its own client's account, and a
\* session has no id before its login.
THEOREM OperatesOnOwnAccountCorrect == Spec => []OperatesOnOwnAccount
<1> DEFINE Inv == PlacesInv /\ (struck = {} => AccountInv)
<1>1. Init => Inv
  BY PlacesInit, AccountInit
<1>2. Inv /\ TypeOK' /\ [Next]_vars => Inv'
  BY PlacesNext, AccountNext
<1>3. Inv => OperatesOnOwnAccount
  <2> SUFFICES ASSUME Inv, struck = {} PROVE OperatesOnOwnAccount
    BY DEF OperatesOnOwnAccount
  <2>1. AccountInv /\ PlaceInv /\ TableInv
    BY DEF PlacesInv, Steady
  <2>2. \A f \in DOMAIN table : owner[f] # NoConn => OwnId(table[f])
    BY <2>1 DEF AccountInv, EntryIds
  <2>3. ASSUME NEW w \in Workers, wpc[w] = "dispatch", loc[w].act \in Operations
        PROVE  loc[w].cli.id = AccountOf[loc[w].cli.conn]
    <3>1. /\ Fd(w) \in DOMAIN table /\ table[Fd(w)].act = loc[w].act
          /\ table[Fd(w)].conn = loc[w].cli.conn /\ owner[Fd(w)] # NoConn
      BY <2>1, <2>3 DEF TableInv, WorkerEntry, Busy, PlaceInv, Open, WorkerOpen
    <3>2. loc[w].cli.id = table[Fd(w)].id
      BY <2>1, <2>3 DEF AccountInv, WorkerId
    <3>3. loc[w].act \notin {greetings, registration, authentification}
      BY <2>3 DEF Operations, get, edit, greetings, registration, authentification
    <3> QED
      BY <2>2, <3>1, <3>2, <3>3 DEF OwnId
  <2> QED
    BY <2>2, <2>3 DEF OperatesOnOwnAccount, OwnId
<1> QED
  BY <1>1, <1>2, <1>3, TypeCorrect, PTL DEF Spec
-----------------------------------------------------------------------------
(***************************************************************************)
(* Sessions: the server implements Session.                                *)
(***************************************************************************)
\* The entry of a connection is the one of its only descriptor.
LEMMA EntryIs == ASSUME NEW c, NEW f, Serving(c) = {f} PROVE EntryOf(c) = table[f]
  BY DEF EntryOf

LEMMA EntryIsNext ==
  ASSUME NEW c, NEW f, Serving(c)' = {f}
  PROVE  EntryOf(c)' = table'[f]
  BY DEF EntryOf

LEMMA ServingOne ==
  ASSUME TypeOK, OwnedInv, NEW c \in Conns, NEW f \in Serving(c)
  PROVE  Serving(c) = {f}
  BY ConnAssumption DEF Serving, OwnedInv, TypeOK, StoreOK

\* Nothing happens to what serves c.
LEMMA EntrySame ==
  ASSUME TypeOK, OwnedInv, NEW c \in Conns, Serving(c)' = Serving(c),
         \A f \in Serving(c) : table'[f] = table[f]
  PROVE  EntryOf(c)' = EntryOf(c)
<1>1. CASE Serving(c) = {}
  BY <1>1 DEF EntryOf
<1>2. ASSUME NEW f \in Serving(c) PROVE EntryOf(c)' = EntryOf(c)
  <2>1. Serving(c) = {f}
    BY ServingOne
  <2> QED
    BY <2>1, EntryIs, EntryIsNext
<1> QED
  BY <1>1, <1>2

\* What the protocol sees of one connection.
SameSession(c) == Phases'[c] = Phases[c] /\ Fails'[c] = Fails[c] /\ Users'[c] = Users[c]

LEMMA SameFor ==
  ASSUME TypeOK, OwnedInv, NEW c \in Conns,
         \/ peer'[c].at = peer[c].at
         \/ peer[c].at \in {"new", "pending"} /\ peer'[c].at \in {"new", "pending"},
         peer[c].at = "open" => EntryOf(c)' = EntryOf(c)
  PROVE  SameSession(c)
<1>1. peer[c].at \in {"new", "pending", "open", "closed"}
  BY DEF TypeOK, KernelOK, Peer
<1> QED
  BY <1>1 DEF SameSession, Phases, Fails, Users

\* Steps that touch neither the entries nor the descriptors.
LEMMA SameAll ==
  ASSUME TypeOK, OwnedInv, UNCHANGED <<table, owner>>,
         \A c \in Conns : \/ peer'[c].at = peer[c].at
                          \/ peer[c].at \in {"new", "pending"} /\ peer'[c].at \in {"new", "pending"}
  PROVE  \A c \in Conns : SameSession(c)
<1> SUFFICES ASSUME NEW c \in Conns PROVE SameSession(c)
  OBVIOUS
<1>1. EntryOf(c)' = EntryOf(c)
  BY DEF EntryOf, Serving
<1> QED
  BY <1>1, SameFor

LEMMA Stutters ==
  ASSUME \A c \in Conns : SameSession(c)
  PROVE  UNCHANGED Abstract!vars
  BY DEF SameSession, Phases, Fails, Users, Abstract!vars

\* One session moves.
Moves(c, from, to) == Phases[c] = from /\ Phases'[c] = to

LEMMA OneMoves ==
  ASSUME NEW c \in Conns, \A d \in Conns \ {c} : SameSession(d),
         \/ /\ Fails'[c] = Fails[c] /\ Users'[c] = Users[c]
            /\ \/ Moves(c, "away", "menu") \/ Moves(c, "away", "left")
               \/ Moves(c, "menu", "register") \/ Moves(c, "menu", "login")
               \/ Moves(c, "commands", "operation") \/ Moves(c, "operation", "commands")
         \/ /\ Moves(c, "register", "commands") \/ Moves(c, "login", "commands")
            /\ Fails[c] < ClientTries
            /\ Fails'[c] = Fails[c] /\ Users'[c] = AccountOf[c]
         \/ /\ Moves(c, "login", "login") /\ Fails[c] < ClientTries
            /\ Fails'[c] = Fails[c] + 1 /\ Users'[c] = Users[c]
         \/ /\ Phases[c] \notin {"away", "left"} /\ Phases'[c] = "left"
            /\ Fails'[c] = 0 /\ Users'[c] = -1
  PROVE  Abstract!Next
<1>1. /\ Phases = [d \in Conns |-> Phases[d]] /\ Phases' = [d \in Conns |-> Phases'[d]]
      /\ Fails = [d \in Conns |-> Fails[d]] /\ Fails' = [d \in Conns |-> Fails'[d]]
      /\ Users = [d \in Conns |-> Users[d]] /\ Users' = [d \in Conns |-> Users'[d]]
  BY DEF Phases, Fails, Users
<1>2. /\ Phases' = [Phases EXCEPT ![c] = Phases'[c]]
      /\ Fails' = [Fails EXCEPT ![c] = Fails'[c]]
      /\ Users' = [Users EXCEPT ![c] = Users'[c]]
  BY <1>1 DEF SameSession
<1>3. /\ Fails'[c] = Fails[c] => Fails' = Fails
      /\ Users'[c] = Users[c] => Users' = Users
      /\ Phases'[c] = Phases[c] => Phases' = Phases
  BY <1>1, <1>2
<1> QED
  BY <1>2, <1>3 DEF Moves, Abstract!Next, Abstract!Move, Abstract!Arrive, Abstract!Refuse,
     Abstract!Choose, Abstract!Enter, Abstract!Fail, Abstract!Ask, Abstract!Answer, Abstract!Leave
-----------------------------------------------------------------------------
\* One answer of a handler is one step of the client's session, or none.
LEMMA AnswerMoves ==
  ASSUME NEW e \in Entry, e.act \in Actions, e.tries < ClientTries,
         NEW r \in Results(e.act, AccountOf[e.conn], Offered), ~Closes(e.act, r),
         NEW g, g = Answered(e, r)
  PROVE  \/ g.act = e.act /\ g.tries = e.tries /\ g.id = e.id
         \/ /\ g.tries = e.tries /\ g.id = e.id
            /\ \/ e.act = greetings /\ g.act \in {registration, authentification}
               \/ e.act = command_checker /\ g.act \in Operations
               \/ e.act \in Operations /\ g.act = command_checker
         \/ /\ e.act \in {registration, authentification} /\ g.act = command_checker
            /\ g.tries = e.tries /\ g.id = AccountOf[e.conn]
         \/ /\ e.act = authentification /\ g.act = e.act
            /\ g.tries = e.tries + 1 /\ g.id = e.id
<1>1. /\ g.act = NextAction(e.act, r)
      /\ g.tries = IF FailedTry(e.act, r) THEN e.tries + 1 ELSE e.tries
      /\ g.id = IF LogsIn(e.act, r) THEN r ELSE e.id
      /\ e.conn \in Conns
  BY DEF Answered, Entry
<1> HIDE DEF Answered
<1>2. CASE e.act = greetings
  <2>1. ~LogsIn(e.act, r) /\ ~FailedTry(e.act, r) /\ e.act \notin Operations
    BY <1>2 DEF LogsIn, FailedTry, greetings, registration, authentification, Operations, get, edit
  <2>2. r # NOONE => r \in {registration, authentification}
    BY <1>1, <1>2, MenuChoice
  <2> QED
    BY <1>1, <1>2, <2>1, <2>2 DEF NextAction
<1>3. CASE e.act = command_checker
  <2>1. ~LogsIn(e.act, r) /\ ~FailedTry(e.act, r) /\ e.act \notin Operations
    BY <1>3 DEF LogsIn, FailedTry, command_checker, registration, authentification, Operations,
       get, edit
  <2>2. r # NOONE => r \in Operations
    BY <1>1, <1>3, MenuChoice
  <2> QED
    BY <1>1, <1>3, <2>1, <2>2 DEF NextAction
<1>4. CASE e.act \in Operations
  <2>1. ~LogsIn(e.act, r) /\ ~FailedTry(e.act, r) /\ e.act \notin {greetings, command_checker}
    BY <1>4 DEF LogsIn, FailedTry, greetings, command_checker, registration, authentification,
       Operations, get, edit
  <2> QED
    BY <1>1, <1>4, <2>1 DEF NextAction
<1>5. CASE e.act \in {registration, authentification}
  <2>1. e.act \notin {greetings, command_checker} /\ e.act \notin Operations
    BY <1>5 DEF greetings, command_checker, registration, authentification, Operations, get, edit
  <2>2. CASE LogsIn(e.act, r)
    <3>1. r = AccountOf[e.conn]
      BY <1>1, <2>2, LoginResult
    <3>2. ~FailedTry(e.act, r)
      BY <1>5, <2>2 DEF LogsIn, FailedTry, registration, authentification
    <3> QED
      BY <1>1, <1>5, <2>1, <2>2, <3>1, <3>2 DEF NextAction
  <2>3. CASE ~LogsIn(e.act, r)
    BY <1>1, <1>5, <2>1, <2>3 DEF NextAction, FailedTry
  <2> QED
    BY <2>2, <2>3
<1> QED
  BY <1>2, <1>3, <1>4, <1>5 DEF Actions, Operations, greetings, registration, authentification,
     command_checker, get, edit

LEMMA PhaseOfAction ==
  /\ PhaseOf(greetings) = "menu" /\ PhaseOf(registration) = "register"
  /\ PhaseOf(authentification) = "login" /\ PhaseOf(command_checker) = "commands"
  /\ \A a \in Operations : PhaseOf(a) = "operation"
  BY DEF PhaseOf, greetings, registration, authentification, command_checker, Operations, get, edit

\* What the client of an open connection sees.
LEMMA OpenSession ==
  ASSUME NEW c \in Conns, peer[c].at = "open", NEW e, e = EntryOf(c)
  PROVE  Phases[c] = PhaseOf(e.act) /\ Fails[c] = e.tries /\ Users[c] = e.id
  BY DEF Phases, Fails, Users

LEMMA OpenSessionNext ==
  ASSUME NEW c \in Conns, peer'[c].at = "open", NEW e, e = EntryOf(c)'
  PROVE  Phases'[c] = PhaseOf(e.act) /\ Fails'[c] = e.tries /\ Users'[c] = e.id
  BY DEF Phases, Fails, Users

LEMMA SessionDispatch ==
  ASSUME TypeOK, PlaceInv, TableInv, OwnedInv, AccountInv, NEW w \in Workers, Dispatch(w)
  PROVE  [Abstract!Next]_(Abstract!vars)
<1> USE DEF kernel
<1> DEFINE e == table[Fd(w)]
           r == loc[w].res
           g == Answered(e, r)
<1>1. /\ Busy(w) /\ wpc[w] = "dispatch" /\ Fd(w) \in DOMAIN table /\ WorkerEntry(w) /\ WorkerId(w)
      /\ owner[Fd(w)] # NoConn
  BY DEF Dispatch, Busy, TableInv, WorkerEntry, AccountInv, PlaceInv, Open, WorkerOpen
<1>2. Touch(table, loc[w].cli) = table
  BY <1>1 DEF Touch, Insert, Fd
<1>3. /\ table' = IF Closes(e.act, r) THEN table ELSE [table EXCEPT ![Fd(w)] = g]
      /\ owner' = owner /\ peer' = peer
  BY <1>2 DEF Dispatch, Fd
<1>4. /\ e \in Entry /\ e.act \in Actions /\ e.act = loc[w].act /\ e.conn \in Conns
      /\ owner[Fd(w)] = e.conn /\ e.tries < ClientTries
  BY <1>1 DEF TypeOK, StoreOK, WorkerEntry, TableInv, EntriesOK, Entry
<1>5. CASE Closes(e.act, r)
  <2>1. UNCHANGED <<table, owner>> /\ peer' = peer
    BY <1>3, <1>5
  <2> QED
    BY <2>1, SameAll, Stutters
<1>6. CASE ~Closes(e.act, r)
  <2>0. PICK c \in Conns, f \in Fds : c = e.conn /\ f = Fd(w)
    BY <1>1, <1>4 DEF TypeOK, StoreOK
  <2>1. table' = [table EXCEPT ![f] = g]
    BY <1>3, <1>6, <2>0
  <2>2. r \in Results(e.act, AccountOf[e.conn], Offered)
    <3>1. r # disconnect
      BY <1>4, <1>6 DEF Closes
    <3>2. e.conn = loc[w].cli.conn
      BY <1>1 DEF WorkerEntry
    <3> QED
      BY <1>1, <1>4, <3>1, <3>2 DEF WorkerId, OwnResults
  <2>3. g.conn = c
    BY <1>4, <2>0 DEF Answered, Entry
  <2>4. f \in Serving(c) /\ f \in DOMAIN table /\ table[f] = e
    BY <1>1, <1>4, <2>0 DEF Serving
  <2>5. Serving(c) = {f}
    BY <2>4, ServingOne
  <2>6. \A d \in Conns : Serving(d)' = Serving(d)
    <3>1. DOMAIN table' = DOMAIN table /\ \A h \in DOMAIN table : table'[h].conn = table[h].conn
      BY <2>0, <2>1, <2>3, <2>4
    <3> QED
      BY <1>3, <3>1 DEF Serving
  <2>7. EntryOf(c) = e /\ EntryOf(c)' = g
    <3>1. table'[f] = g
      BY <2>1, <2>4
    <3>2. Serving(c)' = {f}
      BY <2>5, <2>6
    <3> QED
      BY <2>4, <2>5, <3>1, <3>2, EntryIs, EntryIsNext
  <2>8. peer[c].at = "open"
    BY <1>1, <1>4, <2>0 DEF OwnedInv
  <2>9. ASSUME NEW d \in Conns \ {c} PROVE SameSession(d)
    <3>1. \A h \in Serving(d) : table'[h] = table[h]
      BY <2>0, <1>4, <2>1, <2>9 DEF Serving
    <3> QED
      BY <1>3, <2>6, <3>1, EntrySame, SameFor
  <2>10. /\ Phases[c] = PhaseOf(e.act) /\ Phases'[c] = PhaseOf(g.act)
         /\ Fails[c] = e.tries /\ Fails'[c] = g.tries
         /\ Users[c] = e.id /\ Users'[c] = g.id
    BY <1>3, <2>7, <2>8, OpenSession, OpenSessionNext
  <2> HIDE DEF g, e, r
  <2>11. \/ g.act = e.act /\ g.tries = e.tries /\ g.id = e.id
         \/ /\ g.tries = e.tries /\ g.id = e.id
            /\ \/ e.act = greetings /\ g.act \in {registration, authentification}
               \/ e.act = command_checker /\ g.act \in Operations
               \/ e.act \in Operations /\ g.act = command_checker
         \/ /\ e.act \in {registration, authentification} /\ g.act = command_checker
            /\ g.tries = e.tries /\ g.id = AccountOf[c]
         \/ /\ e.act = authentification /\ g.act = e.act
            /\ g.tries = e.tries + 1 /\ g.id = e.id
    BY <1>4, <1>6, <2>0, <2>2, AnswerMoves DEF g
  <2>12. CASE g.act = e.act /\ g.tries = e.tries /\ g.id = e.id
    <3>1. SameSession(c)
      BY <2>10, <2>12 DEF SameSession
    <3> QED
      BY <2>9, <3>1, Stutters
  <2>13. CASE ~(g.act = e.act /\ g.tries = e.tries /\ g.id = e.id)
    BY <1>4, <2>9, <2>10, <2>11, <2>13, PhaseOfAction, OneMoves DEF Moves
  <2> QED
    BY <2>12, <2>13
<1> QED
  BY <1>5, <1>6
-----------------------------------------------------------------------------
\* An entry that serves nobody comes and goes unseen.
LEMMA UnservedSame ==
  ASSUME TypeOK, OwnedInv, UNCHANGED <<peer, owner>>, NEW f, f \in Fds => owner[f] = NoConn,
         \A g : g # f => (g \in DOMAIN table' <=> g \in DOMAIN table),
         \A g \in DOMAIN table : g # f => table'[g] = table[g],
         DOMAIN table' \subseteq Fds
  PROVE  UNCHANGED Abstract!vars
<1>1. DOMAIN table \subseteq Fds
  BY DEF TypeOK, StoreOK
<1> SUFFICES ASSUME NEW c \in Conns PROVE SameSession(c)
  BY Stutters
<1>2. c # NoConn
  BY ConnAssumption
<1>3. Serving(c)' = Serving(c) /\ \A g \in Serving(c) : table'[g] = table[g]
  BY <1>1, <1>2 DEF Serving
<1> QED
  BY <1>3, EntrySame, SameFor

\* A new client is at the menu as soon as it is accepted: the entry that
\* accept_clients inserts later says the same.
LEMMA SessionAccept ==
  ASSUME TypeOK, OwnedInv, TableInv', NEW c \in Conns, NEW f \in Fds, AcceptClient(c, f)
  PROVE  Abstract!Next
<1>1. /\ peer[c].at = "pending" /\ peer' = [peer EXCEPT ![c].at = "open"]
      /\ owner' = [owner EXCEPT ![f] = c] /\ owner[f] = NoConn
      /\ table' = table /\ mpc' = "watch" /\ mcli' = [fd |-> f, conn |-> c, id |-> -1]
  BY DEF AcceptClient, store, Free
<1>2. peer \in [Conns -> Peer] /\ owner \in [Fds -> Conns \cup {NoConn}] /\ DOMAIN table \subseteq Fds
  BY DEF TypeOK, KernelOK, StoreOK
<1>3. f \notin DOMAIN table
  <2>1. f \in Entering'
    BY <1>1 DEF Entering
  <2>2. f \notin DOMAIN table'
    BY <2>1 DEF TableInv, EnteringOK
  <2> QED
    BY <1>1, <2>2
<1>4. peer'[c].at = "open" /\ \A d \in Conns \ {c} : peer'[d] = peer[d]
  BY <1>1, <1>2 DEF Peer
<1>5. \A g \in DOMAIN table : owner'[g] = owner[g]
  BY <1>1, <1>2, <1>3
<1>6. \A d : Serving(d)' = Serving(d)
  BY <1>1, <1>5 DEF Serving
<1>7. Serving(c) = {}
  <2>1. \A g \in Fds : owner[g] # c
    BY <1>1, ConnAssumption DEF OwnedInv
  <2> QED
    BY <1>2, <2>1 DEF Serving
<1>8. EntryOf(c)' = NewEntry([id |-> -1, conn |-> c])
  BY <1>6, <1>7 DEF EntryOf
<1>9. /\ NewEntry([id |-> -1, conn |-> c]).act = greetings
      /\ NewEntry([id |-> -1, conn |-> c]).tries = 0
      /\ NewEntry([id |-> -1, conn |-> c]).id = -1
  BY DEF NewEntry
<1>10. Phases'[c] = "menu" /\ Fails'[c] = 0 /\ Users'[c] = -1
  BY <1>4, <1>8, <1>9, OpenSessionNext, PhaseOfAction
<1>11. Phases[c] = "away" /\ Fails[c] = 0 /\ Users[c] = -1
  BY <1>1 DEF Phases, Fails, Users
<1>12. ASSUME NEW d \in Conns \ {c} PROVE SameSession(d)
  BY <1>1, <1>4, <1>6, EntrySame, SameFor
<1> QED
  BY <1>10, <1>11, <1>12, OneMoves DEF Moves

LEMMA SessionBanned ==
  ASSUME TypeOK, OwnedInv, NEW c \in Conns, AcceptBanned(c)
  PROVE  Abstract!Next
<1>1. /\ peer[c].at = "pending" /\ peer' = [peer EXCEPT ![c] = Gone]
      /\ owner' = owner /\ table' = table
  BY DEF AcceptBanned, store
<1>2. peer \in [Conns -> Peer]
  BY DEF TypeOK, KernelOK
<1>3. peer'[c].at = "closed" /\ \A d \in Conns \ {c} : peer'[d] = peer[d]
  BY <1>1, <1>2 DEF Gone
<1>4. Phases[c] = "away" /\ Fails[c] = 0 /\ Users[c] = -1
  BY <1>1 DEF Phases, Fails, Users
<1>5. Phases'[c] = "left" /\ Fails'[c] = 0 /\ Users'[c] = -1
  BY <1>3 DEF Phases, Fails, Users
<1>6. ASSUME NEW d \in Conns \ {c} PROVE SameSession(d)
  <2>1. EntryOf(d)' = EntryOf(d)
    BY <1>1 DEF EntryOf, Serving
  <2> QED
    BY <1>3, <2>1, SameFor
<1> QED
  BY <1>4, <1>5, <1>6, OneMoves DEF Moves

LEMMA SessionInsert ==
  ASSUME TypeOK, PlaceInv, TableInv, OwnedInv, AccountInv, AcceptInsert
  PROVE  UNCHANGED Abstract!vars
<1> USE DEF kernel
<1>1. /\ mpc = "insert" /\ table' = Insert(table, mcli.fd, NewEntry(mcli))
      /\ UNCHANGED <<peer, owner>> /\ mcli.id = -1
  BY DEF AcceptInsert, AccountInv, NewClient
<1>2. PICK f \in Fds, c \in Conns : f = mcli.fd /\ c = mcli.conn
  BY <1>1 DEF TypeOK, MainOK, Client
<1>3. f \notin DOMAIN table /\ owner[f] = c
  BY <1>1, <1>2 DEF TableInv, EnteringOK, Entering
<1> DEFINE e == NewEntry([id |-> -1, conn |-> c])
<1>4. NewEntry(mcli) = e
  BY <1>1, <1>2 DEF NewEntry
<1>5. /\ DOMAIN table' = DOMAIN table \cup {f} /\ table'[f] = e
      /\ \A g \in DOMAIN table : table'[g] = table[g]
  BY <1>1, <1>2, <1>3, <1>4 DEF Insert
<1>6. e.conn = c
  BY DEF NewEntry
<1> HIDE DEF e
<1>7. DOMAIN table \subseteq Fds /\ c # NoConn
  BY ConnAssumption DEF TypeOK, StoreOK
<1>8. Serving(c) = {} /\ Serving(c)' = {f}
  <2>1. \A g \in Fds : owner[g] = c => g = f
    BY <1>3, <1>7 DEF OwnedInv
  <2> QED
    BY <1>1, <1>3, <1>5, <1>6, <1>7, <2>1 DEF Serving
<1>9. EntryOf(c)' = EntryOf(c)
  <2>1. EntryOf(c) = e
    BY <1>8 DEF EntryOf, e
  <2>2. EntryOf(c)' = e
    BY <1>5, <1>8, EntryIsNext
  <2> QED
    BY <2>1, <2>2
<1>10. ASSUME NEW d \in Conns \ {c} PROVE EntryOf(d)' = EntryOf(d)
  <2>1. Serving(d)' = Serving(d) /\ \A g \in Serving(d) : table'[g] = table[g]
    BY <1>1, <1>3, <1>5 DEF Serving
  <2> QED
    BY <2>1, EntrySame
<1>11. \A d \in Conns : SameSession(d)
  BY <1>1, <1>9, <1>10, SameFor
<1> QED
  BY <1>11, Stutters

LEMMA SessionClose ==
  ASSUME TypeOK, PlaceInv, TableInv, OwnedInv, NEW w \in Workers, CloseFd(w)
  PROVE  [Abstract!Next]_(Abstract!vars)
<1>1. PICK f \in Fds, c \in Conns \cup {NoConn} : f = loc[w].cli.fd /\ c = owner[f]
  BY DEF CloseFd, Busy, TypeOK, PoolOK, KernelOK, Client
<1>2. /\ owner' = [owner EXCEPT ![f] = NoConn] /\ table' = table
      /\ peer' = IF c = NoConn THEN peer ELSE [peer EXCEPT ![c] = Gone]
  BY <1>1 DEF CloseFd, store
<1>3. peer \in [Conns -> Peer] /\ owner \in [Fds -> Conns \cup {NoConn}] /\ DOMAIN table \subseteq Fds
  BY DEF TypeOK, KernelOK, StoreOK
<1>4. CASE c = NoConn
  <2>1. UNCHANGED <<table, owner>> /\ peer' = peer
    BY <1>1, <1>2, <1>3, <1>4
  <2> QED
    BY <2>1, SameAll, Stutters
<1>5. CASE c # NoConn
  <2>1. c \in Conns /\ peer[c].at = "open"
    BY <1>1, <1>5 DEF OwnedInv
  <2>2. peer'[c].at = "closed" /\ \A d \in Conns \ {c} : peer'[d] = peer[d]
    BY <1>2, <1>3, <2>1, ConnAssumption DEF Gone
  <2>3. Phases[c] \notin {"away", "left"}
    <3>1. Phases[c] = PhaseOf(EntryOf(c).act)
      BY <2>1, OpenSession
    <3> QED
      BY <3>1 DEF PhaseOf
  <2>4. Phases'[c] = "left" /\ Fails'[c] = 0 /\ Users'[c] = -1
    BY <2>1, <2>2 DEF Phases, Fails, Users
  <2>5. ASSUME NEW d \in Conns \ {c} PROVE SameSession(d)
    <3>1. \A g \in Fds : owner'[g] = d <=> owner[g] = d
      BY <1>1, <1>2, <1>3, <2>5, ConnAssumption
    <3>2. Serving(d)' = Serving(d)
      BY <1>2, <1>3, <3>1 DEF Serving
    <3> QED
      BY <1>2, <2>2, <3>2, EntrySame, SameFor
  <2> QED
    BY <2>1, <2>3, <2>4, <2>5, OneMoves
<1> QED
  BY <1>4, <1>5
-----------------------------------------------------------------------------
LEMMA SessionInit == Init => Abstract!Init
<1> SUFFICES ASSUME Init PROVE Abstract!Init
  OBVIOUS
<1>1. \A c \in Conns : peer[c].at = "new"
  BY DEF Init
<1> QED
  BY <1>1 DEF Abstract!Init, Phases, Fails, Users

LEMMA SessionWorker ==
  ASSUME TypeOK, PlaceInv, TableInv, OwnedInv, AccountInv, TypeOK', NEW w \in Workers, WorkerStep(w)
  PROVE  [Abstract!Next]_(Abstract!vars)
<1> USE DEF kernel, store
<1>1. CASE \/ Take(w) \/ ReadFails(w) \/ Parse(w) \/ Fetch(w) \/ Cleared(w) \/ Watched(w)
  <2>1. UNCHANGED <<table, owner, peer>>
    BY <1>1 DEF Take, ReadFails, Parse, Fetch, Cleared, Watched
  <2> QED
    BY <2>1, SameAll, Stutters
<1>2. CASE ReadLine(w)
  <2>1. UNCHANGED <<table, owner>> /\ \A c \in Conns : peer'[c].at = peer[c].at
    BY <1>2 DEF ReadLine, TypeOK, KernelOK, Peer
  <2> QED
    BY <2>1, SameAll, Stutters
<1>3. CASE Ban(w) \/ Settle(w)
  <2>1. Busy(w) /\ UNCHANGED <<peer, owner>> /\ table' = Touch(table, loc[w].cli)
    BY <1>3 DEF Ban, Settle, Busy
  <2>2. DOMAIN table' = DOMAIN table \cup {Fd(w)} /\ \A f \in DOMAIN table : table'[f] = table[f]
    BY <2>1, Touched
  <2>3. DOMAIN table' \subseteq Fds
    BY DEF TypeOK, StoreOK
  <2>4. CASE Fd(w) \in DOMAIN table
    <3>1. table' = table
      BY <2>1, <2>4 DEF Touch, Insert, Fd
    <3> QED
      BY <2>1, <3>1, SameAll, Stutters
  <2>5. CASE Fd(w) \notin DOMAIN table
    <3>1. owner[Fd(w)] = NoConn
      BY <2>1, <2>5 DEF AccountInv, WorkerId
    <3>2. PICK f : f = Fd(w)
      OBVIOUS
    <3> QED
      BY <2>1, <2>2, <2>3, <3>1, <3>2, UnservedSame
  <2> QED
    BY <2>4, <2>5
<1>4. CASE EraseEntry(w)
  <2>1. UNCHANGED <<peer, owner>> /\ table' = Erase(table, Fd(w))
    BY <1>4 DEF EraseEntry, Fd
  <2>2. owner[Fd(w)] = NoConn
    BY <1>4 DEF EraseEntry, PlaceInv, Open, WorkerOpen
  <2>3. PICK f : f = Fd(w)
    OBVIOUS
  <2>4. DOMAIN table' = DOMAIN table \ {f} /\ \A g \in DOMAIN table : g # f => table'[g] = table[g]
    BY <2>1, <2>3 DEF Erase
  <2>5. DOMAIN table' \subseteq Fds
    BY DEF TypeOK, StoreOK
  <2> QED
    BY <2>1, <2>2, <2>3, <2>4, <2>5, UnservedSame
<1> QED
  BY <1>1, <1>2, <1>3, <1>4, SessionDispatch, SessionClose DEF WorkerStep

LEMMA SessionNext ==
  ASSUME TypeOK, PlaceInv, TableInv, OwnedInv, AccountInv, TypeOK', TableInv', [Next]_vars
  PROVE  [Abstract!Next]_(Abstract!vars)
<1> USE DEF kernel, store, main
<1>1. CASE UNCHANGED vars \/ Environment
  <2>1. /\ UNCHANGED <<table, owner>>
        /\ \A c \in Conns : \/ peer'[c].at = peer[c].at
                            \/ peer[c].at \in {"new", "pending"} /\ peer'[c].at \in {"new", "pending"}
    BY <1>1 DEF vars, Environment, Connect, Send, HangUp, BanExpires, TypeOK, KernelOK, Peer
  <2> QED
    BY <2>1, SameAll, Stutters
<1>2. CASE \/ Select \/ AcceptNothing \/ AcceptWatch \/ ScanClear
           \/ \E f \in AllFds : ScanUnwatch(f) \/ ScanPush(f) \/ ScanCrash(f)
  <2>1. UNCHANGED <<table, owner, peer>>
    BY <1>2 DEF Select, AcceptNothing, AcceptWatch, ScanClear, ScanUnwatch, ScanPush, ScanCrash
  <2> QED
    BY <2>1, SameAll, Stutters
<1> QED
  BY <1>1, <1>2, SessionAccept, SessionBanned, SessionInsert, SessionWorker DEF Next, MainStep

\* As long as none of the hazards strikes, every client's session is one of
\* Session: each step of the server is a step of one session, or of none.
THEOREM SessionImplemented == QuietSpec => ImplementsSession
<1> DEFINE Inv == PlacesInv /\ OwnedInv /\ AccountInv /\ struck = {}
           Step == [Next /\ struck' = {}]_vars
<1>1. Init => Inv
  BY PlacesInit, OwnedInit, AccountInit DEF Init
<1>2. Inv /\ Step => Inv'
  <2> SUFFICES ASSUME Inv, Step PROVE Inv'
    OBVIOUS
  <2>1. [Next]_vars /\ struck' = {}
    BY DEF vars, history
  <2>2. TypeOK'
    BY <2>1, TypeNext DEF PlacesInv
  <2>3. PlacesInv' /\ OwnedInv'
    BY <2>1, <2>2, PlacesNext, OwnedNext DEF PlacesInv
  <2> QED
    BY <2>1, <2>3, AccountNext
<1>3. Inv /\ Inv' /\ Step => [Abstract!Next]_(Abstract!vars)
  <2> SUFFICES ASSUME Inv, Inv', Step PROVE [Abstract!Next]_(Abstract!vars)
    OBVIOUS
  <2>1. [Next]_vars
    OBVIOUS
  <2>2. Steady /\ Steady'
    BY DEF Steady
  <2> QED
    BY <2>1, <2>2, SessionNext DEF PlacesInv
<1> HIDE DEF Inv
<1> QED
  BY <1>1, <1>2, <1>3, SessionInit, PTL DEF QuietSpec, ImplementsSession, Abstract!Spec
==============================================================================
