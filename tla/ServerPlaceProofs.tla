-------------------------- MODULE ServerPlaceProofs --------------------------
(***************************************************************************)
(* The protocol that stands in for a lock on the clients: as long as no    *)
(* update of master_fd is lost and no descriptor reused under a thread, an *)
(* open connection is in exactly one place, in master_fd, in the main      *)
(* thread's hands, in the queue or with one worker (PlaceInv), and its     *)
(* entry in handle_clients is the one of that place (TableInv).  Proved    *)
(* for every number of clients, workers and descriptors, with the          *)
(* properties of Server that follow.                                       *)
(***************************************************************************)
EXTENDS ServerProofs

USE DEF MainAt, At

\* The descriptor a worker works on.
Fd(w) == loc[w].cli.fd

\* What the main thread has taken out of master_fd, and what it has accepted
\* and not yet put there.
Kept == CASE mpc = "push"  -> {f \in ready : IsLowest(f, ready)}
          [] mpc = "watch" -> {mcli.fd}
          [] OTHER         -> {}

\* A worker's connection is open until close_connect has closed it; when it is
\* closed twice, the worker still has the result disconnect.
WorkerOpen(w) ==
  /\ wpc[w] \in {"read", "parse", "dispatch", "watch", "watched"} => owner[Fd(w)] # NoConn
  /\ wpc[w] \in {"check", "close"} => owner[Fd(w)] # NoConn \/ loc[w].res = disconnect
  /\ wpc[w] \in {"erase", "clear", "cleared"} => owner[Fd(w)] = NoConn
  /\ wpc[w] \in {"close", "erase", "clear", "cleared"} /\ loc[w].call = "handler" =>
       loc[w].res = disconnect
  /\ loc[w].res # blocked

QueueDistinct == \A i, j \in 1..Len(queue) : i # j => queue[i].fd # queue[j].fd

\* No descriptor is in two places ...
Apart == /\ QueueDistinct
         /\ Queued \cap master = {} /\ Kept \cap (Queued \cup master) = {}
         /\ \A w \in Workers : Busy(w) => Fd(w) \notin master \cup Queued \cup Kept
         /\ \A w, v \in Workers : Busy(w) /\ Busy(v) /\ w # v => Fd(w) # Fd(v)
         /\ ready \ Kept \subseteq master
         /\ mpc = "insert" => mcli.fd \in master

\* ... those in a place are open, and the open ones are in a place.
Open == /\ \A f \in Fds \cap (master \cup Queued \cup Kept) : owner[f] # NoConn
        /\ \A f \in Fds : owner[f] # NoConn =>
             \/ f \in master \cup Queued \cup Kept
             \/ \E w \in Workers : Busy(w) /\ Fd(w) = f
        /\ \A w \in Workers : WorkerOpen(w)

PlaceInv == Apart /\ Open
-----------------------------------------------------------------------------
(***************************************************************************)
(* The queue.                                                              *)
(***************************************************************************)
LEMMA Pushed ==
  ASSUME queue \in Seq(Client), NEW k, k \in Client, queue' = Append(queue, k)
  PROVE  /\ Queued' = Queued \cup {k.fd}
         /\ QueueDistinct /\ k.fd \notin Queued => QueueDistinct'
<1>1. /\ Len(queue') = Len(queue) + 1 /\ Len(queue) \in Nat
      /\ queue'[Len(queue) + 1] = k
      /\ \A i \in 1..Len(queue) : queue'[i] = queue[i]
  BY AppendProperties, LenProperties
<1>2. Queued' = Queued \cup {k.fd}
  BY <1>1 DEF Queued
<1>3. QueueDistinct /\ k.fd \notin Queued => QueueDistinct'
  BY <1>1 DEF QueueDistinct, Queued
<1> QED
  BY <1>2, <1>3

LEMMA Popped ==
  ASSUME queue \in Seq(Client), queue # <<>>, queue' = Tail(queue), QueueDistinct
  PROVE  /\ Head(queue) \in Client /\ Head(queue).fd \in Queued
         /\ Queued' = Queued \ {Head(queue).fd} /\ QueueDistinct'
<1>1. /\ Len(queue) \in Nat \ {0} /\ Len(queue') = Len(queue) - 1
      /\ Head(queue) = queue[1] /\ Head(queue) \in Client
      /\ \A i \in 1..Len(queue') : queue'[i] = queue[i + 1]
  BY HeadTailProperties, EmptySeq
<1>2. \A i \in 2..Len(queue) : queue[i] = queue'[i - 1] /\ i - 1 \in 1..Len(queue')
  BY <1>1
<1>3. \A i \in 1..Len(queue') : i + 1 \in 2..Len(queue)
  BY <1>1
<1>4. \A i \in 2..Len(queue) : queue[i].fd # queue[1].fd
  BY <1>1 DEF QueueDistinct
<1>5. Queued = {queue[1].fd} \cup {queue[i].fd : i \in 2..Len(queue)}
  BY <1>1 DEF Queued
<1>6. Queued' = {queue[i].fd : i \in 2..Len(queue)}
  <2>1. \A i \in 1..Len(queue') : queue'[i].fd \in {queue[j].fd : j \in 2..Len(queue)}
    BY <1>1, <1>3
  <2>2. \A i \in 2..Len(queue) : queue[i].fd \in {queue'[j].fd : j \in 1..Len(queue')}
    BY <1>2
  <2> QED
    BY <2>1, <2>2 DEF Queued
<1>7. QueueDistinct'
  BY <1>1, <1>3 DEF QueueDistinct
<1> QED
  BY <1>1, <1>4, <1>5, <1>6, <1>7
-----------------------------------------------------------------------------
(***************************************************************************)
(* While Steady, writing back a word of master_fd changes one bit.         *)
(***************************************************************************)
LEMMA StruckGrows == ASSUME [Next]_vars PROVE struck \subseteq struck'
<1> USE DEF history
<1>1. CASE UNCHANGED vars
  BY <1>1 DEF vars
<1>2. CASE Environment
  BY <1>2 DEF Environment, Connect, Send, HangUp, BanExpires
<1>3. CASE MainStep
  BY <1>3 DEF MainStep, Select, AcceptNothing, AcceptBanned, AcceptClient, AcceptWatch,
     AcceptInsert, ScanClear, ScanUnwatch, ScanPush, ScanCrash, Strike
<1>4. ASSUME NEW w \in Workers, WorkerStep(w) PROVE struck \subseteq struck'
  BY <1>4 DEF WorkerStep, Take, ReadLine, ReadFails, Parse, Dispatch, Ban, Settle, CloseFd,
     EraseEntry, Fetch, Cleared, Watched, Strike
<1> QED
  BY <1>1, <1>2, <1>3, <1>4 DEF Next

LEMMA SteadyBack == ASSUME [Next]_vars, Steady' PROVE Steady
  BY StruckGrows DEF Steady

LEMMA NotStruck ==
  ASSUME NEW happened \in BOOLEAN, NEW what \in {"raced", "recycled"},
         Strike(happened, what), Steady'
  PROVE  ~happened
  BY DEF Strike, Steady
-----------------------------------------------------------------------------
(***************************************************************************)
(* The steps of a worker.                                                  *)
(***************************************************************************)
\* A step that moves no descriptor only has to account for its own worker.
LEMMA PlaceSilent ==
  ASSUME PlaceInv, NEW w \in Workers,
         UNCHANGED <<master, queue, owner, main>>,
         \A v \in Workers : Fd(v)' = Fd(v) /\ (Busy(v)' <=> Busy(v)),
         \A v \in Workers \ {w} : WorkerOpen(v) => WorkerOpen(v)',
         WorkerOpen(w)'
  PROVE  PlaceInv'
<1>1. Queued' = Queued /\ Kept' = Kept
  BY DEF Queued, Kept, main, IsLowest
<1>2. QueueDistinct'
  BY DEF PlaceInv, Apart, QueueDistinct
<1>3. /\ master' = master /\ ready' = ready /\ mpc' = mpc /\ mcli' = mcli /\ owner' = owner
  BY DEF main
<1>4. Apart'
  BY <1>1, <1>2, <1>3 DEF PlaceInv, Apart
<1>5. Open'
  BY <1>1, <1>3 DEF PlaceInv, Open
<1> QED
  BY <1>4, <1>5 DEF PlaceInv

\* The other workers' locals stay.
LEMMA OthersOpen ==
  ASSUME NEW v \in Workers, wpc'[v] = wpc[v], loc'[v] = loc[v], owner'[Fd(v)] = owner[Fd(v)]
  PROVE  WorkerOpen(v) => WorkerOpen(v)'
  BY DEF WorkerOpen, Fd

\* handle returns no blocked; its results are those of Protocol.
LEMMA NoBlocked ==
  ASSUME NEW a \in Actions, NEW c \in Conns, NEW r \in Results(a, AccountOf[c], Offered)
  PROVE  r # blocked
<1>1. AccountOf[c] > 0 /\ AccountOf[c] \in Int
  BY ClientAssumption
<1>2. Offered \subseteq 4..7
  BY ClientAssumption DEF Operations, get, edit
<1> QED
  BY <1>1, <1>2 DEF Results, Reg_or_Auth, Registration, Authentification, Command_checker,
     Get, Add, Del, Edit, Actions, greetings, registration, authentification,
     command_checker, get, add, del, edit, disconnect, existing, bad_auth, not_exist,
     empty_values, NOONE, SUCCESS, blocked

\* On a result that closes, the result is disconnect: nothing returns blocked.
LEMMA ClosesDisconnect ==
  ASSUME NEW a, NEW r, r # blocked, Closes(a, r)
  PROVE  r = disconnect
  BY DEF Closes

LEMMA PlaceServe ==
  ASSUME TypeOK, PlaceInv, NEW w \in Workers,
         \/ ReadLine(w) \/ ReadFails(w) \/ Parse(w) \/ Dispatch(w)
         \/ Ban(w) \/ Settle(w) \/ EraseEntry(w) \/ Fetch(w)
  PROVE  PlaceInv'
<1> USE DEF kernel, fdset, store
<1>1. loc \in [Workers -> Local] /\ wpc \in [Workers -> WorkerPC] /\ loc[w] \in Local
  BY DEF TypeOK, PoolOK
<1>2. WorkerOpen(w)
  BY DEF PlaceInv, Open
<1>3. ASSUME NEW l \in Local, NEW pc \in WorkerPC,
             l.cli = loc[w].cli, wpc[w] # "idle", pc # "idle",
             loc' = [loc EXCEPT ![w] = l], wpc' = [wpc EXCEPT ![w] = pc],
             UNCHANGED <<master, queue, owner, main>>, WorkerOpen(w)'
      PROVE  PlaceInv'
  <2>1. \A v \in Workers : Fd(v)' = Fd(v) /\ (Busy(v)' <=> Busy(v))
    BY <1>1, <1>3 DEF Fd, Busy
  <2>2. \A v \in Workers \ {w} : WorkerOpen(v) => WorkerOpen(v)'
    BY <1>1, <1>3, OthersOpen
  <2> QED
    BY <1>3, <2>1, <2>2, PlaceSilent
<1>4. CASE ReadLine(w)
  <2>1. /\ wpc' = [wpc EXCEPT ![w] = "parse"] /\ loc' = [loc EXCEPT ![w] = loc[w]]
        /\ wpc[w] = "read"
        /\ UNCHANGED <<master, queue, owner, main>>
    BY <1>1, <1>4 DEF ReadLine, Goto
  <2>2. WorkerOpen(w)'
    BY <1>1, <1>2, <2>1 DEF WorkerOpen, Fd
  <2> QED
    BY <1>1, <1>3, <2>1, <2>2 DEF WorkerPC
<1>5. CASE ReadFails(w)
  <2> DEFINE l == [loc[w] EXCEPT !.res = disconnect]
  <2>1. disconnect \in Int /\ disconnect # blocked
    BY DEF disconnect, blocked
  <2>2. l \in Local /\ l.cli = loc[w].cli /\ l.res = disconnect /\ l.call = loc[w].call
    BY <1>1, <2>1 DEF Local
  <2>3. /\ wpc' = [wpc EXCEPT ![w] = "dispatch"] /\ loc' = [loc EXCEPT ![w] = l]
        /\ wpc[w] = "read"
        /\ UNCHANGED <<master, queue, owner, main>>
    BY <1>5 DEF ReadFails, Goto
  <2> HIDE DEF l
  <2>4. WorkerOpen(w)'
    BY <1>1, <1>2, <2>1, <2>2, <2>3 DEF WorkerOpen, Fd
  <2> QED
    BY <1>3, <2>2, <2>3, <2>4 DEF WorkerPC
<1>6. CASE Parse(w)
  <2>1. buf[loc[w].act] \in Conns /\ loc[w].act \in Actions
    BY <1>1, <1>6 DEF Parse, TypeOK, StoreOK, PoolOK, Local
  <2>2. PICK r \in Results(loc[w].act, AccountOf[buf[loc[w].act]], Offered) :
          loc' = [loc EXCEPT ![w].res = r]
    BY <1>6 DEF Parse
  <2>3. r \in Int /\ r # blocked
    BY <2>1, NoBlocked, ResultsType
  <2> DEFINE l == [loc[w] EXCEPT !.res = r]
  <2>4. l \in Local /\ l.cli = loc[w].cli /\ l.res = r /\ l.call = loc[w].call
    BY <1>1, <2>3 DEF Local
  <2>5. /\ wpc' = [wpc EXCEPT ![w] = "dispatch"] /\ loc' = [loc EXCEPT ![w] = l]
        /\ wpc[w] = "parse"
        /\ UNCHANGED <<master, queue, owner, main>>
    BY <1>6, <2>2 DEF Parse, Goto
  <2> HIDE DEF l
  <2>6. WorkerOpen(w)'
    BY <1>1, <1>2, <2>3, <2>4, <2>5 DEF WorkerOpen, Fd
  <2> QED
    BY <1>3, <2>4, <2>5, <2>6 DEF WorkerPC
<1>7. ASSUME NEW c \in {"handler", "result", "ban"}, NEW pc \in {"check", "close", "watch"},
             wpc[w] \in {"dispatch", "check"},
             loc' = [loc EXCEPT ![w].call = c], wpc' = [wpc EXCEPT ![w] = pc],
             pc = "close" /\ c = "handler" => loc[w].res = disconnect,
             pc = "watch" => loc[w].res # disconnect,
             UNCHANGED <<master, queue, owner, main>>
      PROVE  PlaceInv'
  <2> DEFINE l == [loc[w] EXCEPT !.call = c]
  <2>1. l \in Local /\ l.cli = loc[w].cli /\ l.res = loc[w].res /\ l.call = c
    BY <1>1 DEF Local
  <2>2. loc' = [loc EXCEPT ![w] = l]
    BY <1>7
  <2> HIDE DEF l
  <2>3. WorkerOpen(w)'
    BY <1>1, <1>2, <1>7, <2>1, <2>2 DEF WorkerOpen, Fd
  <2> QED
    BY <1>3, <1>7, <2>1, <2>2, <2>3 DEF WorkerPC
<1>8. CASE Dispatch(w)
  <2> DEFINE e == Touch(table, loc[w].cli)[loc[w].cli.fd]
             pc == IF Closes(e.act, loc[w].res) THEN "close" ELSE "check"
  <2>1. /\ wpc[w] = "dispatch" /\ wpc' = [wpc EXCEPT ![w] = pc]
        /\ loc' = [loc EXCEPT ![w].call = "handler"]
        /\ UNCHANGED <<master, queue, owner, main>>
    BY <1>8 DEF Dispatch, Goto
  <2>2. pc = "close" => loc[w].res = disconnect
    BY <1>2, ClosesDisconnect DEF WorkerOpen
  <2>3. pc \in {"check", "close"}
    OBVIOUS
  <2> HIDE DEF pc
  <2> QED
    BY <1>7, <2>1, <2>2, <2>3
<1>9. CASE Ban(w)
  <2>1. /\ wpc[w] = "check" /\ wpc' = [wpc EXCEPT ![w] = "close"]
        /\ loc' = [loc EXCEPT ![w].call = "ban"]
        /\ UNCHANGED <<master, queue, owner, main>>
    BY <1>9 DEF Ban, Goto
  <2> QED
    BY <1>7, <2>1
<1>10. CASE Settle(w)
  <2> DEFINE pc == IF loc[w].res = disconnect THEN "close" ELSE "watch"
  <2>1. /\ wpc[w] = "check" /\ wpc' = [wpc EXCEPT ![w] = pc]
        /\ loc' = [loc EXCEPT ![w].call = "result"]
        /\ UNCHANGED <<master, queue, owner, main>>
    BY <1>10 DEF Settle, Goto
  <2>2. pc \in {"close", "watch"} /\ (pc = "watch" => loc[w].res # disconnect)
    OBVIOUS
  <2> HIDE DEF pc
  <2> QED
    BY <1>7, <2>1, <2>2
<1>11. CASE EraseEntry(w)
  <2>1. /\ wpc' = [wpc EXCEPT ![w] = "clear"] /\ loc' = [loc EXCEPT ![w] = loc[w]]
        /\ wpc[w] = "erase"
        /\ UNCHANGED <<master, queue, owner, main>>
    BY <1>1, <1>11 DEF EraseEntry, Goto
  <2>2. WorkerOpen(w)'
    BY <1>1, <1>2, <2>1 DEF WorkerOpen, Fd
  <2> QED
    BY <1>1, <1>3, <2>1, <2>2 DEF WorkerPC
<1>12. CASE Fetch(w)
  <2> DEFINE l == [loc[w] EXCEPT !.copy = master]
             pc == IF wpc[w] = "clear" THEN "cleared" ELSE "watched"
  <2>1. l \in Local /\ l.cli = loc[w].cli /\ l.res = loc[w].res /\ l.call = loc[w].call
    BY <1>1 DEF Local, TypeOK, StoreOK
  <2>2. /\ wpc' = [wpc EXCEPT ![w] = pc] /\ loc' = [loc EXCEPT ![w] = l]
        /\ wpc[w] \in {"clear", "watch"}
        /\ UNCHANGED <<master, queue, owner, main>>
    BY <1>12 DEF Fetch, Goto
  <2>3. pc \in WorkerPC /\ pc # "idle"
    BY DEF WorkerPC
  <2> HIDE DEF l
  <2>4. WorkerOpen(w)'
    BY <1>1, <1>2, <2>1, <2>2 DEF WorkerOpen, Fd
  <2> HIDE DEF pc
  <2> QED
    BY <1>3, <2>1, <2>2, <2>3, <2>4
<1> QED
  BY <1>4, <1>5, <1>6, <1>8, <1>9, <1>10, <1>11, <1>12

\* The head of the queue moves to the worker, if it is found in the map.
LEMMA PlaceTake ==
  ASSUME TypeOK, PlaceInv, NEW w \in Workers, Take(w),
         Head(queue).fd \in DOMAIN table, table[Head(queue).fd].act \in Actions
  PROVE  PlaceInv'
<1> USE DEF kernel, fdset, store
<1> DEFINE k == Head(queue)
           l == [loc[w] EXCEPT !.cli = k, !.act = table[k.fd].act]
<1>1. loc \in [Workers -> Local] /\ wpc \in [Workers -> WorkerPC] /\ loc[w] \in Local
  BY DEF TypeOK, PoolOK
<1>2. /\ k \in Client /\ k.fd \in Queued /\ Queued' = Queued \ {k.fd} /\ QueueDistinct'
  BY Popped DEF Take, TypeOK, StoreOK, PlaceInv, Apart
<1>3. /\ master' = master /\ ready' = ready /\ mpc' = mpc /\ mcli' = mcli /\ owner' = owner
      /\ Kept' = Kept
  BY DEF Take, main, Kept, IsLowest
<1>4. k.fd \notin master \cup Kept /\ owner[k.fd] # NoConn /\ k.fd \in Fds
  BY <1>2 DEF PlaceInv, Apart, Open, Client
<1>5. loc' = [loc EXCEPT ![w].cli = k, ![w].act = table[k.fd].act] /\ Goto(w, "read")
  BY DEF Take
<1>6. loc' = [loc EXCEPT ![w] = l]
  BY <1>1, <1>5
<1>7. l.cli = k /\ l.res = loc[w].res
  BY <1>1 DEF Local
<1> HIDE DEF l
<1>8. /\ wpc[w] = "idle" /\ Fd(w)' = k.fd /\ wpc'[w] = "read" /\ loc'[w].res = loc[w].res
      /\ \A v \in Workers \ {w} : loc'[v] = loc[v] /\ wpc'[v] = wpc[v] /\ Fd(v)' = Fd(v)
  BY <1>1, <1>5, <1>6, <1>7 DEF Take, Goto, Fd
<1> HIDE DEF k
<1>9. Apart'
  BY <1>2, <1>3, <1>4, <1>8 DEF PlaceInv, Apart, Busy
<1>10. WorkerOpen(w)'
  BY <1>3, <1>4, <1>8 DEF PlaceInv, Open, WorkerOpen
<1>11. \A v \in Workers \ {w} : WorkerOpen(v)'
  BY <1>3, <1>8, OthersOpen DEF PlaceInv, Open
<1>12. Open'
  BY <1>2, <1>3, <1>8, <1>10, <1>11 DEF PlaceInv, Open, Busy
<1> QED
  BY <1>9, <1>12 DEF PlaceInv

\* The worker's descriptor is closed; it is nobody else's.
LEMMA PlaceClose == ASSUME TypeOK, PlaceInv, NEW w \in Workers, CloseFd(w) PROVE PlaceInv'
<1> USE DEF kernel, fdset, store
<1>1. loc \in [Workers -> Local] /\ wpc \in [Workers -> WorkerPC] /\ owner \in [Fds -> Conns \cup {NoConn}]
  BY DEF TypeOK, PoolOK, KernelOK
<1>2. /\ wpc[w] = "close" /\ wpc' = [wpc EXCEPT ![w] = "erase"] /\ loc' = loc
      /\ owner' = [owner EXCEPT ![Fd(w)] = NoConn]
      /\ UNCHANGED <<master, queue, main>>
  BY DEF CloseFd, Goto, Fd
<1>3. Fd(w) \in Fds
  BY <1>2 DEF TypeOK, PoolOK, Busy, Client, Fd
<1>4. /\ Queued' = Queued /\ Kept' = Kept /\ QueueDistinct'
      /\ master' = master /\ ready' = ready /\ mpc' = mpc /\ mcli' = mcli
      /\ \A v \in Workers : Fd(v)' = Fd(v) /\ (Busy(v)' <=> Busy(v))
  BY <1>1, <1>2 DEF Queued, Kept, main, IsLowest, QueueDistinct, PlaceInv, Apart, Fd, Busy
<1>5. Apart'
  BY <1>4 DEF PlaceInv, Apart
<1>6. owner'[Fd(w)] = NoConn /\ \A f \in Fds \ {Fd(w)} : owner'[f] = owner[f]
  BY <1>1, <1>2, <1>3
<1>7. Busy(w) /\ Fd(w) \notin master \cup Queued \cup Kept
  BY <1>2 DEF PlaceInv, Apart, Busy
<1>8. WorkerOpen(w)'
  BY <1>1, <1>2, <1>4, <1>6 DEF PlaceInv, Open, WorkerOpen
<1>9. ASSUME NEW v \in Workers \ {w} PROVE WorkerOpen(v)'
  <2>1. CASE Busy(v)
    <3>1. Fd(v) # Fd(w) /\ Fd(v) \in Fds
      BY <1>7, <1>9, <2>1 DEF PlaceInv, Apart, TypeOK, PoolOK, Client, Fd
    <3>2. WorkerOpen(v) => WorkerOpen(v)'
      BY <1>1, <1>2, <1>6, <3>1, OthersOpen
    <3> QED
      BY <3>2 DEF PlaceInv, Open
  <2>2. CASE ~Busy(v)
    BY <1>1, <1>2, <2>2 DEF Busy, PlaceInv, Open, WorkerOpen
  <2> QED
    BY <2>1, <2>2
<1>10. Open'
  BY <1>4, <1>6, <1>7, <1>8, <1>9 DEF PlaceInv, Open
<1> QED
  BY <1>5, <1>10 DEF PlaceInv

\* The client goes back into master_fd, or what is left of it is cleared.
LEMMA PlaceReturn ==
  ASSUME TypeOK, PlaceInv, Steady', NEW w \in Workers, Cleared(w) \/ Watched(w)
  PROVE  PlaceInv'
<1> USE DEF kernel, fdset, store
<1>1. loc \in [Workers -> Local] /\ wpc \in [Workers -> WorkerPC] /\ loc[w] \in Local
  BY DEF TypeOK, PoolOK
<1>2. /\ Queued' = Queued /\ Kept' = Kept /\ QueueDistinct'
      /\ ready' = ready /\ mpc' = mpc /\ mcli' = mcli /\ owner' = owner
  <2>1. UNCHANGED <<queue, owner, main>>
    BY DEF Cleared, Watched
  <2> QED
    BY <2>1 DEF Queued, Kept, main, IsLowest, QueueDistinct, PlaceInv, Apart
<1>3. Busy(w) /\ Fd(w) \notin master \cup Queued \cup Kept /\ Fd(w) \in Fds /\ WorkerOpen(w)
  BY DEF Cleared, Watched, PlaceInv, Apart, Open, Busy, TypeOK, PoolOK, Client, Fd
<1>4. ASSUME NEW v \in Workers \ {w}, loc'[v] = loc[v], wpc'[v] = wpc[v]
      PROVE  WorkerOpen(v)' /\ Fd(v)' = Fd(v) /\ (Busy(v)' <=> Busy(v)) /\ (Busy(v) => Fd(v) # Fd(w))
  BY <1>2, <1>3, <1>4, OthersOpen DEF PlaceInv, Open, Apart, Fd, Busy
<1>5. Idle.res # blocked
  BY DEF Idle, NOONE, blocked
<1>6. CASE Cleared(w)
  <2>1. master' = master
    <3>1. master' = FdClr(master, Fd(w))
      BY <1>6, NotStruck DEF Cleared, Fd
    <3> QED
      BY <1>3, <3>1 DEF FdClr
  <2>2. owner[Fd(w)] = NoConn
    BY <1>3, <1>6 DEF Cleared, WorkerOpen
  <2>3. \A v \in Workers \ {w} : loc'[v] = loc[v] /\ wpc'[v] = wpc[v]
    BY <1>1, <1>6 DEF Cleared, Goto
  <2>4. \/ wpc'[w] = "idle" /\ loc'[w].res # blocked
        \/ /\ wpc'[w] = "check" /\ Fd(w)' = Fd(w)
           /\ loc'[w].res = disconnect
    <3>1. CASE Goto(w, "check") /\ loc' = [loc EXCEPT ![w].copy = {}] /\ loc[w].call = "handler"
      <4> DEFINE l == [loc[w] EXCEPT !.copy = {}]
      <4>1. l.cli = loc[w].cli /\ l.res = loc[w].res
        BY <1>1 DEF Local
      <4>2. loc' = [loc EXCEPT ![w] = l]
        BY <3>1
      <4> HIDE DEF l
      <4> QED
        BY <1>1, <1>3, <1>6, <3>1, <4>1, <4>2 DEF Cleared, Goto, WorkerOpen, Fd
    <3>2. CASE Goto(w, "idle") /\ loc' = [loc EXCEPT ![w] = Idle]
      BY <1>1, <1>5, <3>2 DEF Goto
    <3> QED
      BY <1>6, <3>1, <3>2 DEF Cleared
  <2>5. Apart'
    BY <1>2, <1>3, <1>4, <2>1, <2>3, <2>4 DEF PlaceInv, Apart, Busy
  <2>6. WorkerOpen(w)'
    BY <2>4 DEF WorkerOpen, disconnect, blocked
  <2>7. Open'
    BY <1>2, <1>3, <1>4, <2>1, <2>2, <2>3, <2>6 DEF PlaceInv, Open
  <2> QED
    BY <2>5, <2>7 DEF PlaceInv
<1>7. CASE Watched(w)
  <2>1. master' = master \cup {Fd(w)}
    <3>1. master' = FdSet(master, Fd(w))
      BY <1>7, NotStruck DEF Watched, Fd
    <3> QED
      BY <3>1 DEF FdSet
  <2>2. owner[Fd(w)] # NoConn
    BY <1>3, <1>7 DEF Watched, WorkerOpen
  <2>3. \A v \in Workers \ {w} : loc'[v] = loc[v] /\ wpc'[v] = wpc[v]
    BY <1>1, <1>7 DEF Watched, Goto
  <2>4. wpc'[w] = "idle" /\ loc'[w].res # blocked
    BY <1>1, <1>5, <1>7 DEF Watched, Goto
  <2>5. Apart'
    BY <1>2, <1>3, <1>4, <2>1, <2>3, <2>4 DEF PlaceInv, Apart, Busy
  <2>6. WorkerOpen(w)'
    BY <2>4 DEF WorkerOpen
  <2>7. Open'
    BY <1>2, <1>3, <1>4, <2>1, <2>2, <2>3, <2>6 DEF PlaceInv, Open
  <2> QED
    BY <2>5, <2>7 DEF PlaceInv
<1> QED
  BY <1>6, <1>7
-----------------------------------------------------------------------------
(***************************************************************************)
(* The steps of the main thread.                                           *)
(***************************************************************************)
LEMMA KeptPush ==
  ASSUME TypeOK, NEW f, IsLowest(f, ready), mpc = "push"
  PROVE  Kept = {f}
<1>1. ready \subseteq Int
  BY FdsInt DEF TypeOK, MainOK
<1>2. \A g : IsLowest(g, ready) => g = f
  BY <1>1 DEF IsLowest
<1> QED
  BY <1>2 DEF Kept, IsLowest

\* The main thread leaves the workers and, but for the queue and the new
\* connection, the descriptors alone.
LEMMA PlaceByMain ==
  ASSUME TypeOK, PlaceInv, UNCHANGED <<workers, queue, owner>>,
         ready' \ Kept' \subseteq master',
         mpc' = "insert" => mcli'.fd \in master',
         Kept' \cap master' = {},
         master' \cup Kept' = master \cup Kept
  PROVE  PlaceInv'
<1>1. Queued' = Queued /\ QueueDistinct' /\ owner' = owner
  BY DEF Queued, QueueDistinct, PlaceInv, Apart
<1>2. \A v \in Workers : /\ Fd(v)' = Fd(v) /\ (Busy(v)' <=> Busy(v))
                         /\ WorkerOpen(v)' <=> WorkerOpen(v)
  BY DEF workers, Fd, Busy, WorkerOpen
<1>3. Apart'
  BY <1>1, <1>2 DEF PlaceInv, Apart
<1>4. Open'
  BY <1>1, <1>2 DEF PlaceInv, Open
<1> QED
  BY <1>3, <1>4 DEF PlaceInv

LEMMA PlaceAccept ==
  ASSUME TypeOK, PlaceInv, Steady', NEW c \in Conns, NEW f \in Fds, AcceptClient(c, f)
  PROVE  PlaceInv'
<1> USE DEF fdset, store
<1>1. /\ mpc = "accept" /\ mpc' = "watch" /\ mcli'.fd = f /\ owner[f] = NoConn
      /\ owner' = [owner EXCEPT ![f] = c]
      /\ UNCHANGED <<master, queue, ready, workers>>
  BY DEF AcceptClient, Free
<1>2. f \notin Queued /\ \A w \in Workers : Busy(w) => Fd(w) # f
  BY NotStruck DEF AcceptClient, Fd
<1>3. Kept = {} /\ Kept' = {f}
  BY <1>1 DEF Kept
<1>4. f \notin master
  BY <1>1 DEF PlaceInv, Open
<1>5. /\ Queued' = Queued /\ QueueDistinct' /\ owner'[f] = c /\ c # NoConn
      /\ \A g \in Fds \ {f} : owner'[g] = owner[g]
  BY <1>1, ConnAssumption DEF Queued, QueueDistinct, PlaceInv, Apart, TypeOK, KernelOK
<1>6. \A v \in Workers : Fd(v)' = Fd(v) /\ (Busy(v)' <=> Busy(v))
  BY <1>1 DEF workers, Fd, Busy
<1>7. Apart'
  BY <1>1, <1>2, <1>3, <1>4, <1>5, <1>6 DEF PlaceInv, Apart
<1>8. ASSUME NEW v \in Workers PROVE WorkerOpen(v)'
  <2>1. CASE Busy(v)
    <3>1. Fd(v) \in Fds \ {f} /\ loc'[v] = loc[v] /\ wpc'[v] = wpc[v]
      BY <1>1, <1>2, <2>1 DEF TypeOK, PoolOK, Client, Fd, workers
    <3> QED
      BY <1>5, <3>1, OthersOpen DEF PlaceInv, Open
  <2>2. CASE ~Busy(v)
    BY <1>1, <2>2 DEF workers, Busy, PlaceInv, Open, WorkerOpen
  <2> QED
    BY <2>1, <2>2
<1>9. Open'
  BY <1>1, <1>3, <1>5, <1>6, <1>8 DEF PlaceInv, Open
<1> QED
  BY <1>7, <1>9 DEF PlaceInv

LEMMA PlacePush ==
  ASSUME TypeOK, PlaceInv, NEW f \in AllFds, ScanPush(f)
  PROVE  PlaceInv'
<1> USE DEF kernel, fdset, store
<1> DEFINE k == [fd |-> f, conn |-> table[f].conn, id |-> table[f].id]
<1>1. /\ mpc = "push" /\ IsLowest(f, ready) /\ queue' = Append(queue, k)
      /\ ready' = ready \ {f} /\ mpc' \in {"select", "scan"}
      /\ UNCHANGED <<master, owner, workers>>
  BY DEF ScanPush
<1>2. k \in Client /\ k.fd = f
  BY DEF ScanPush, TypeOK, StoreOK, Entry, Client
<1>3. Kept = {f} /\ Kept' = {}
  <2>1. Kept = {f}
    BY <1>1, KeptPush
  <2> QED
    BY <1>1, <2>1 DEF Kept
<1> HIDE DEF k
<1>4. Queued' = Queued \cup {f} /\ QueueDistinct'
  <2>1. f \notin Queued /\ QueueDistinct /\ queue \in Seq(Client)
    BY <1>3 DEF PlaceInv, Apart, TypeOK, StoreOK
  <2> QED
    BY <1>1, <1>2, <2>1, Pushed
<1>5. \A v \in Workers : /\ Fd(v)' = Fd(v) /\ (Busy(v)' <=> Busy(v))
                         /\ WorkerOpen(v)' <=> WorkerOpen(v)
  BY <1>1 DEF workers, Fd, Busy, WorkerOpen
<1>6. master' = master /\ owner' = owner
  BY <1>1
<1>7. Apart'
  BY <1>1, <1>3, <1>4, <1>5, <1>6 DEF PlaceInv, Apart
<1>8. Open'
  BY <1>3, <1>4, <1>5, <1>6 DEF PlaceInv, Open
<1> QED
  BY <1>7, <1>8 DEF PlaceInv

LEMMA PlaceMain == TypeOK /\ PlaceInv /\ MainStep /\ Steady' => PlaceInv'
<1> SUFFICES ASSUME TypeOK, PlaceInv, MainStep, Steady' PROVE PlaceInv'
  OBVIOUS
<1> USE DEF kernel, fdset, store
<1>1. CASE Select
  <2>1. /\ mpc = "select" /\ mpc' \in {"accept", "scan"} /\ ready' \subseteq master
        /\ UNCHANGED <<master, workers, queue, owner>>
    BY <1>1 DEF Select
  <2>2. Kept = {} /\ Kept' = {}
    BY <2>1 DEF Kept
  <2> QED
    BY <2>1, <2>2, PlaceByMain
<1>2. ASSUME AcceptNothing \/ \E c \in Conns : AcceptBanned(c) PROVE PlaceInv'
  <2>1. /\ mpc = "accept" /\ mpc' \in {"select", "scan"} /\ ready' \subseteq ready
        /\ UNCHANGED <<master, workers, queue, owner>>
    BY <1>2 DEF AcceptNothing, AcceptBanned, AfterAccept
  <2>2. Kept = {} /\ Kept' = {}
    BY <2>1 DEF Kept
  <2>3. ready' \subseteq master'
    BY <2>1, <2>2 DEF PlaceInv, Apart
  <2> QED
    BY <2>1, <2>2, <2>3, PlaceByMain
<1>3. CASE AcceptWatch
  <2>1. /\ mpc = "watch" /\ mpc' = "insert" /\ mcli' = mcli /\ ready' = ready
        /\ UNCHANGED <<workers, queue, owner>>
    BY <1>3 DEF AcceptWatch
  <2>2. master' = master \cup {mcli.fd}
    BY <1>3, NotStruck DEF AcceptWatch, FdSet
  <2>3. Kept = {mcli.fd} /\ Kept' = {}
    BY <2>1 DEF Kept
  <2>4. ready' \subseteq master'
    BY <2>1, <2>2, <2>3 DEF PlaceInv, Apart
  <2> QED
    BY <2>1, <2>2, <2>3, <2>4, PlaceByMain
<1>4. CASE AcceptInsert
  <2>1. /\ mpc = "insert" /\ mpc' \in {"select", "scan"} /\ ready' \subseteq ready
        /\ UNCHANGED <<master, workers, queue, owner>>
    BY <1>4 DEF AcceptInsert, AfterAccept
  <2>2. Kept = {} /\ Kept' = {}
    BY <2>1 DEF Kept
  <2>3. ready' \subseteq master'
    BY <2>1, <2>2 DEF PlaceInv, Apart
  <2> QED
    BY <2>1, <2>2, <2>3, PlaceByMain
<1>5. CASE ScanClear
  <2>1. /\ mpc = "scan" /\ mpc' = "unwatch" /\ ready' = ready
        /\ UNCHANGED <<master, workers, queue, owner>>
    BY <1>5 DEF ScanClear
  <2>2. Kept = {} /\ Kept' = {}
    BY <2>1 DEF Kept
  <2>3. ready' \subseteq master'
    BY <2>1, <2>2 DEF PlaceInv, Apart
  <2> QED
    BY <2>1, <2>2, <2>3, PlaceByMain
<1>6. ASSUME NEW f \in AllFds, ScanUnwatch(f) PROVE PlaceInv'
  <2>1. /\ mpc = "unwatch" /\ mpc' = "push" /\ IsLowest(f, ready) /\ ready' = ready
        /\ UNCHANGED <<workers, queue, owner>>
    BY <1>6 DEF ScanUnwatch
  <2>2. master' = master \ {f}
    BY <1>6, NotStruck DEF ScanUnwatch, FdClr
  <2>3. Kept = {} /\ Kept' = {f}
    <3>1. TypeOK'
      BY TypeMain
    <3>2. IsLowest(f, ready)' /\ mpc' = "push"
      BY <2>1 DEF IsLowest
    <3>3. Kept' = {f}
      <4>1. ready' \subseteq Int
        BY <3>1, FdsInt DEF TypeOK, MainOK
      <4>2. \A g : IsLowest(g, ready)' => g = f
        BY <3>2, <4>1 DEF IsLowest
      <4> QED
        BY <3>2, <4>2 DEF Kept, IsLowest
    <3> QED
      BY <2>1, <3>3 DEF Kept
  <2>4. f \in master /\ ready' \ {f} \subseteq master'
    BY <2>1, <2>2, <2>3 DEF PlaceInv, Apart, IsLowest
  <2> QED
    BY <2>1, <2>2, <2>3, <2>4, PlaceByMain
<1>7. ASSUME NEW f \in AllFds, ScanCrash(f) PROVE PlaceInv'
  <2>1. UNCHANGED <<main, master, workers, queue, owner>>
    BY <1>7 DEF ScanCrash
  <2>2. /\ Kept' = Kept /\ mpc' = mpc /\ ready' = ready /\ mcli' = mcli /\ master' = master
    BY <2>1 DEF main, Kept, IsLowest
  <2> QED
    BY <2>1, <2>2, PlaceByMain DEF PlaceInv, Apart
<1> QED
  BY <1>1, <1>2, <1>3, <1>4, <1>5, <1>6, <1>7, PlaceAccept, PlacePush DEF MainStep

LEMMA PlaceEnvironment == TypeOK /\ PlaceInv /\ (Environment \/ UNCHANGED vars) => PlaceInv'
<1> SUFFICES ASSUME TypeOK, PlaceInv, Environment \/ UNCHANGED vars PROVE PlaceInv'
  OBVIOUS
<1>1. UNCHANGED <<main, master, workers, queue, owner>>
  BY DEF vars, kernel, fdset, store, Environment, Connect, Send, HangUp, BanExpires
<1>2. /\ Kept' = Kept /\ mpc' = mpc /\ ready' = ready /\ mcli' = mcli /\ master' = master
  BY <1>1 DEF main, Kept, IsLowest
<1> QED
  BY <1>1, <1>2, PlaceByMain DEF PlaceInv, Apart
-----------------------------------------------------------------------------
(***************************************************************************)
(* The entries of handle_clients.  A client the main thread has accepted   *)
(* is entering until it is inserted; every other client that waits in some *)
(* place is listed under its own connection, with tries left.              *)
(***************************************************************************)
Entering == IF mpc \in {"watch", "insert"} THEN {mcli.fd} ELSE {}
Listed   == (Fds \cap (master \cup Queued \cup Kept)) \ Entering

WorkerEntry(w) ==
  Busy(w) =>
    /\ owner[Fd(w)] \in {NoConn, loc[w].cli.conn}
    /\ Fd(w) \in DOMAIN table => table[Fd(w)].conn = loc[w].cli.conn
    /\ wpc[w] \in {"read", "parse", "dispatch", "watch", "watched"} =>
         Fd(w) \in DOMAIN table /\ table[Fd(w)].tries < ClientTries
    /\ wpc[w] \in {"read", "parse", "dispatch"} => table[Fd(w)].act = loc[w].act
    /\ wpc[w] = "dispatch" /\ loc[w].act \in {greetings, command_checker} =>
         loc[w].res \in Actions \cup {disconnect}
    /\ wpc[w] \in {"clear", "cleared"} => Fd(w) \notin DOMAIN table

EntriesOK == \A f \in DOMAIN table : table[f].act \in Actions /\ table[f].tries <= ClientTries
ListedOK  == \A f \in Listed : /\ f \in DOMAIN table
                               /\ table[f].conn = owner[f] /\ table[f].tries < ClientTries
KnownOK   == \A f \in DOMAIN table : f \in Listed \/ \E w \in Workers : Busy(w) /\ Fd(w) = f
EnteringOK == \A f \in Entering : f \notin DOMAIN table /\ owner[f] = mcli.conn
QueueOK   == \A i \in 1..Len(queue) : owner[queue[i].fd] = queue[i].conn
CrashOK   == crashed => mpc = "push" /\ ServerFd \in ready

TableInv == /\ EntriesOK /\ ListedOK /\ KnownOK /\ EnteringOK /\ QueueOK /\ CrashOK
            /\ \A w \in Workers : WorkerEntry(w)

\* A worker's descriptor is no place of a client that waits.
LEMMA ServedApart ==
  ASSUME PlaceInv, NEW w \in Workers, Busy(w)
  PROVE  Fd(w) \notin Listed \cup Entering
<1>1. Fd(w) \notin Listed
  BY DEF PlaceInv, Apart, Listed
<1>2. Fd(w) \notin Entering
  BY DEF PlaceInv, Apart, Entering, Kept
<1> QED
  BY <1>1, <1>2

LEMMA OthersEntry ==
  ASSUME NEW v \in Workers, wpc'[v] = wpc[v], loc'[v] = loc[v], owner'[Fd(v)] = owner[Fd(v)],
         Fd(v) \in DOMAIN table' <=> Fd(v) \in DOMAIN table, table'[Fd(v)] = table[Fd(v)]
  PROVE  WorkerEntry(v) => WorkerEntry(v)'
  BY DEF WorkerEntry, Fd, Busy

\* A step of a worker that changes at most its own entry.
LEMMA TableSilent ==
  ASSUME TypeOK, PlaceInv, TableInv, NEW w \in Workers, Busy(w), Busy(w)',
         UNCHANGED <<master, queue, owner, main, crashed>>,
         Fd(w)' = Fd(w),
         \A v \in Workers \ {w} : loc'[v] = loc[v] /\ wpc'[v] = wpc[v],
         \A f : f # Fd(w) => (f \in DOMAIN table' <=> f \in DOMAIN table),
         \A f \in DOMAIN table : f # Fd(w) => table'[f] = table[f],
         Fd(w) \in DOMAIN table' => /\ table'[Fd(w)].act \in Actions
                                    /\ table'[Fd(w)].tries <= ClientTries,
         WorkerEntry(w)'
  PROVE  TableInv'
<1>1. /\ Queued' = Queued /\ Kept' = Kept /\ Entering' = Entering
      /\ mpc' = mpc /\ mcli' = mcli /\ ready' = ready /\ owner' = owner
      /\ queue' = queue /\ crashed' = crashed /\ master' = master
  BY DEF Queued, Kept, Entering, main, IsLowest
<1>2. Listed' = Listed
  BY <1>1 DEF Listed
<1>3. Fd(w) \notin Listed \cup Entering
  BY ServedApart
<1>4. EntriesOK'
  BY DEF TableInv, EntriesOK
<1>5. ListedOK'
  BY <1>1, <1>2, <1>3 DEF TableInv, ListedOK
<1>6. \A v \in Workers : Fd(v)' = Fd(v) /\ (Busy(v)' <=> Busy(v))
  BY DEF Fd, Busy
<1>7. KnownOK'
  BY <1>2, <1>6 DEF TableInv, KnownOK
<1>8. EnteringOK' /\ QueueOK' /\ CrashOK'
  BY <1>1, <1>3 DEF TableInv, EnteringOK, QueueOK, CrashOK
<1>9. ASSUME NEW v \in Workers \ {w} PROVE WorkerEntry(v)'
  <2>1. CASE Busy(v)
    <3>1. Fd(v) # Fd(w)
      BY <1>9, <2>1 DEF PlaceInv, Apart
    <3>2. WorkerEntry(v)
      BY DEF TableInv
    <3>3. CASE Fd(v) \in DOMAIN table
      BY <1>1, <3>1, <3>2, <3>3, OthersEntry
    <3>4. CASE Fd(v) \notin DOMAIN table
      BY <1>1, <1>6, <2>1, <3>1, <3>2, <3>4 DEF WorkerEntry, Fd
    <3> QED
      BY <3>3, <3>4
  <2>2. CASE ~Busy(v)
    BY <1>6, <2>2 DEF WorkerEntry
  <2> QED
    BY <2>1, <2>2
<1> QED
  BY <1>4, <1>5, <1>7, <1>8, <1>9 DEF TableInv

\* Looking an entry up with operator[].
LEMMA Touched ==
  ASSUME TypeOK, TableInv, NEW w \in Workers, Busy(w), NEW t, t = Touch(table, loc[w].cli)
  PROVE  /\ DOMAIN t = DOMAIN table \cup {Fd(w)} /\ \A f \in DOMAIN table : t[f] = table[f]
         /\ t[Fd(w)] \in Entry /\ t[Fd(w)].conn = loc[w].cli.conn
         /\ t[Fd(w)].act \in Actions /\ t[Fd(w)].tries \in 0..ClientTries
<1>1. loc[w].cli \in Client /\ WorkerEntry(w) /\ EntriesOK
  BY DEF TypeOK, PoolOK, TableInv
<1>2. NewEntry(loc[w].cli) \in Entry /\ NewEntry(loc[w].cli).act \in Actions
      /\ NewEntry(loc[w].cli).tries = 0 /\ NewEntry(loc[w].cli).conn = loc[w].cli.conn
  BY <1>1 DEF NewEntry, Client, Entry, greetings, Actions, edit
<1>3. ClientTries \in Nat /\ table \in [DOMAIN table -> Entry]
  BY LimitAssumption DEF TypeOK, StoreOK
<1>4. CASE Fd(w) \in DOMAIN table
  <2>1. t = table
    BY <1>4 DEF Touch, Insert, Fd
  <2>2. table[Fd(w)] \in Entry /\ table[Fd(w)].tries \in Nat
    BY <1>3, <1>4 DEF Entry
  <2> QED
    BY <1>1, <1>3, <1>4, <2>1, <2>2 DEF WorkerEntry, EntriesOK
<1>5. CASE Fd(w) \notin DOMAIN table
  <2>1. t = [g \in DOMAIN table \cup {Fd(w)} |->
              IF g = Fd(w) THEN NewEntry(loc[w].cli) ELSE table[g]]
    BY <1>5 DEF Touch, Insert, Fd
  <2> QED
    BY <1>2, <1>3, <1>5, <2>1
<1> QED
  BY <1>4, <1>5

\* What the menus and the other handlers make of a session's action.
LEMMA NextActionType ==
  ASSUME NEW a \in Actions, NEW r \in Int, ~Closes(a, r),
         a \in {greetings, command_checker} => r \in Actions \cup {disconnect}
  PROVE  NextAction(a, r) \in Actions
  BY DEF NextAction, Closes, Actions, greetings, command_checker, edit, disconnect, Operations,
     get

LEMMA MenuResults ==
  ASSUME NEW a \in {greetings, command_checker}, NEW c \in Conns,
         NEW r \in Results(a, AccountOf[c], Offered)
  PROVE  r \in Actions
<1>1. Offered \subseteq 4..7
  BY ClientAssumption DEF Operations, get, edit
<1>2. r \in {0, 1, 2} \cup Offered
  <2>1. CASE a = greetings
    BY <2>1 DEF Results, Reg_or_Auth, NOONE, greetings, registration,
       authentification, command_checker, get, add, del, edit
  <2>2. CASE a = command_checker
    BY <2>2 DEF Results, Command_checker, NOONE, greetings, registration,
       authentification, command_checker, get, add, del, edit
  <2> QED
    BY <2>1, <2>2
<1> QED
  BY <1>1, <1>2 DEF Actions, greetings, edit

LEMMA TableServe ==
  ASSUME TypeOK, PlaceInv, TableInv, NEW w \in Workers,
         \/ ReadLine(w) \/ ReadFails(w) \/ Parse(w) \/ Dispatch(w)
         \/ Ban(w) \/ Settle(w) \/ EraseEntry(w) \/ Fetch(w)
  PROVE  TableInv'
<1> USE DEF kernel, fdset, store, history
<1>1. loc \in [Workers -> Local] /\ wpc \in [Workers -> WorkerPC] /\ loc[w] \in Local
  BY DEF TypeOK, PoolOK
<1>2. WorkerEntry(w) /\ WorkerOpen(w) /\ EntriesOK
  BY DEF TableInv, PlaceInv, Open
<1>3. ASSUME NEW l \in Local, NEW pc \in WorkerPC,
             l.cli = loc[w].cli, wpc[w] # "idle", pc # "idle",
             loc' = [loc EXCEPT ![w] = l], wpc' = [wpc EXCEPT ![w] = pc],
             UNCHANGED <<master, queue, owner, main, crashed>>,
             \A f : f # Fd(w) => (f \in DOMAIN table' <=> f \in DOMAIN table),
             \A f \in DOMAIN table : f # Fd(w) => table'[f] = table[f],
             Fd(w) \in DOMAIN table' => /\ table'[Fd(w)].act \in Actions
                                        /\ table'[Fd(w)].tries <= ClientTries,
             WorkerEntry(w)'
      PROVE  TableInv'
  <2>1. Busy(w) /\ Busy(w)' /\ Fd(w)' = Fd(w)
    BY <1>1, <1>3 DEF Fd, Busy
  <2>2. \A v \in Workers \ {w} : loc'[v] = loc[v] /\ wpc'[v] = wpc[v]
    BY <1>1, <1>3
  <2> QED
    BY <1>3, <2>1, <2>2, TableSilent
\* A step that leaves the map alone.
<1>4. ASSUME NEW l \in Local, NEW pc \in WorkerPC,
             l.cli = loc[w].cli, wpc[w] # "idle", pc # "idle",
             loc' = [loc EXCEPT ![w] = l], wpc' = [wpc EXCEPT ![w] = pc],
             UNCHANGED <<master, queue, owner, main, crashed, table>>,
             WorkerEntry(w)'
      PROVE  TableInv'
  BY <1>2, <1>3, <1>4 DEF EntriesOK
<1>5. CASE ReadLine(w)
  <2>1. /\ wpc' = [wpc EXCEPT ![w] = "parse"] /\ loc' = [loc EXCEPT ![w] = loc[w]]
        /\ wpc[w] = "read"
        /\ UNCHANGED <<master, queue, owner, main, crashed, table>>
    BY <1>1, <1>5 DEF ReadLine, Goto
  <2>2. WorkerEntry(w)'
    BY <1>1, <1>2, <2>1 DEF WorkerEntry, Fd, Busy
  <2> QED
    BY <1>1, <1>4, <2>1, <2>2 DEF WorkerPC
<1>6. CASE ReadFails(w)
  <2> DEFINE l == [loc[w] EXCEPT !.res = disconnect]
  <2>0. disconnect \in Int
    BY DEF disconnect
  <2>1. l \in Local /\ l.cli = loc[w].cli /\ l.res = disconnect /\ l.act = loc[w].act
    BY <1>1, <2>0 DEF Local
  <2>2. /\ wpc' = [wpc EXCEPT ![w] = "dispatch"] /\ loc' = [loc EXCEPT ![w] = l]
        /\ wpc[w] = "read"
        /\ UNCHANGED <<master, queue, owner, main, crashed, table>>
    BY <1>6 DEF ReadFails, Goto
  <2> HIDE DEF l
  <2>3. WorkerEntry(w)'
    BY <1>1, <1>2, <2>1, <2>2 DEF WorkerEntry, Fd, Busy
  <2> QED
    BY <1>4, <2>1, <2>2, <2>3 DEF WorkerPC
<1>7. CASE Parse(w)
  <2>1. buf[loc[w].act] \in Conns /\ loc[w].act \in Actions
    BY <1>1, <1>7 DEF Parse, TypeOK, StoreOK, PoolOK, Local
  <2>2. PICK r \in Results(loc[w].act, AccountOf[buf[loc[w].act]], Offered) :
          loc' = [loc EXCEPT ![w].res = r]
    BY <1>7 DEF Parse
  <2>3. r \in Int /\ (loc[w].act \in {greetings, command_checker} => r \in Actions)
    BY <2>1, MenuResults, ResultsType
  <2> DEFINE l == [loc[w] EXCEPT !.res = r]
  <2>4. l \in Local /\ l.cli = loc[w].cli /\ l.res = r /\ l.act = loc[w].act
    BY <1>1, <2>3 DEF Local
  <2>5. /\ wpc' = [wpc EXCEPT ![w] = "dispatch"] /\ loc' = [loc EXCEPT ![w] = l]
        /\ wpc[w] = "parse"
        /\ UNCHANGED <<master, queue, owner, main, crashed, table>>
    BY <1>7, <2>2 DEF Parse, Goto
  <2> HIDE DEF l
  <2>6. WorkerEntry(w)'
    BY <1>1, <1>2, <2>3, <2>4, <2>5 DEF WorkerEntry, Fd, Busy
  <2> QED
    BY <1>4, <2>4, <2>5, <2>6 DEF WorkerPC
\* A step of the dispatcher, with the entry looked up.
<1>8. ASSUME NEW c \in {"handler", "result", "ban"}, NEW pc \in {"check", "close", "watch"},
             wpc[w] \in {"dispatch", "check"},
             DOMAIN table' = DOMAIN table \cup {Fd(w)},
             \A f \in DOMAIN table : f # Fd(w) => table'[f] = table[f],
             table'[Fd(w)].conn = loc[w].cli.conn,
             table'[Fd(w)].act \in Actions, table'[Fd(w)].tries <= ClientTries,
             pc = "watch" => table'[Fd(w)].tries < ClientTries,
             loc' = [loc EXCEPT ![w].call = c], wpc' = [wpc EXCEPT ![w] = pc],
             UNCHANGED <<master, queue, owner, main, crashed>>
      PROVE  TableInv'
  <2> DEFINE l == [loc[w] EXCEPT !.call = c]
  <2>1. l \in Local /\ l.cli = loc[w].cli
    BY <1>1 DEF Local
  <2>2. loc' = [loc EXCEPT ![w] = l]
    BY <1>8
  <2> HIDE DEF l
  <2>3. WorkerEntry(w)'
    BY <1>1, <1>2, <1>8, <2>1, <2>2 DEF WorkerEntry, Fd, Busy
  <2> QED
    BY <1>3, <1>8, <2>1, <2>2, <2>3 DEF WorkerPC
<1>9. ASSUME Busy(w), table' = Touch(table, loc[w].cli)
      PROVE  /\ DOMAIN table' = DOMAIN table \cup {Fd(w)}
             /\ \A f \in DOMAIN table : f # Fd(w) => table'[f] = table[f]
             /\ table'[Fd(w)].conn = loc[w].cli.conn
             /\ table'[Fd(w)].act \in Actions /\ table'[Fd(w)].tries \in 0..ClientTries
  BY <1>9, Touched
<1>10. CASE Dispatch(w)
  <2> DEFINE e == table[Fd(w)]
             r == loc[w].res
             pc == IF Closes(e.act, r) THEN "close" ELSE "check"
  <2>1. Busy(w) /\ wpc[w] = "dispatch" /\ Fd(w) \in DOMAIN table
    BY <1>2, <1>10 DEF Dispatch, Busy, WorkerEntry
  <2>2. Touch(table, loc[w].cli) = table
    BY <2>1 DEF Touch, Insert, Fd
  <2>3. /\ wpc' = [wpc EXCEPT ![w] = pc] /\ loc' = [loc EXCEPT ![w].call = "handler"]
        /\ table' = IF Closes(e.act, r) THEN table ELSE [table EXCEPT ![Fd(w)] = Answered(e, r)]
        /\ UNCHANGED <<master, queue, owner, main, crashed>>
    BY <1>10, <2>2 DEF Dispatch, Goto, Fd
  <2>4. /\ e \in Entry /\ e.act \in Actions /\ e.act = loc[w].act /\ e.conn = loc[w].cli.conn
        /\ e.tries \in Nat /\ e.tries < ClientTries
    BY <1>2, <2>1 DEF TypeOK, StoreOK, Entry, WorkerEntry, EntriesOK
  <2>5. pc \in {"check", "close"} /\ pc # "watch"
    OBVIOUS
  <2>6. CASE Closes(e.act, r)
    <3>1. table' = table
      BY <2>3, <2>6
    <3>2. e.tries <= ClientTries
      BY <2>4, LimitAssumption
    <3> HIDE DEF pc
    <3> QED
      BY <1>8, <2>1, <2>3, <2>4, <2>5, <3>1, <3>2
  <2>7. CASE ~Closes(e.act, r)
    <3> DEFINE g == Answered(e, r)
    <3>1. NextAction(e.act, r) \in Actions
      <4>1. r \in Int
        BY <1>1 DEF Local
      <4> QED
        BY <1>2, <2>1, <2>4, <2>7, <4>1, NextActionType DEF WorkerEntry
    <3>2. g.conn = e.conn /\ g.act = NextAction(e.act, r) /\ g.tries \in {e.tries, e.tries + 1}
      BY <2>4 DEF Answered, Entry
    <3>3. g.act \in Actions /\ g.tries <= ClientTries
      BY <2>4, <3>1, <3>2, LimitAssumption
    <3>4. table' = [table EXCEPT ![Fd(w)] = g]
      BY <2>3, <2>7
    <3> HIDE DEF g
    <3>5. /\ DOMAIN table' = DOMAIN table \cup {Fd(w)} /\ table'[Fd(w)] = g
          /\ \A f \in DOMAIN table : f # Fd(w) => table'[f] = table[f]
      BY <2>1, <3>4
    <3> HIDE DEF pc
    <3> QED
      BY <1>8, <2>1, <2>3, <2>4, <2>5, <3>2, <3>3, <3>5
  <2> QED
    BY <2>6, <2>7
<1>11. CASE Ban(w)
  <2>1. /\ wpc[w] = "check" /\ wpc' = [wpc EXCEPT ![w] = "close"]
        /\ table' = Touch(table, loc[w].cli)
        /\ loc' = [loc EXCEPT ![w].call = "ban"]
        /\ UNCHANGED <<master, queue, owner, main, crashed>>
    BY <1>11 DEF Ban, Goto
  <2>2. Busy(w) /\ \A n \in 0..ClientTries : n <= ClientTries
    BY <2>1 DEF Busy
  <2> QED
    BY <1>8, <1>9, <2>1, <2>2
<1>12. CASE Settle(w)
  <2> DEFINE pc == IF loc[w].res = disconnect THEN "close" ELSE "watch"
  <2>1. /\ wpc[w] = "check" /\ wpc' = [wpc EXCEPT ![w] = pc]
        /\ table' = Touch(table, loc[w].cli) /\ table'[Fd(w)].tries # ClientTries
        /\ loc' = [loc EXCEPT ![w].call = "result"]
        /\ UNCHANGED <<master, queue, owner, main, crashed>>
    BY <1>12 DEF Settle, Goto, Fd
  <2>2. Busy(w) /\ \A n \in 0..ClientTries : n # ClientTries => n < ClientTries /\ n <= ClientTries
    BY <2>1, LimitAssumption DEF Busy
  <2>3. pc \in {"close", "watch"}
    OBVIOUS
  <2> HIDE DEF pc
  <2> QED
    BY <1>8, <1>9, <2>1, <2>2, <2>3
<1>13. CASE EraseEntry(w)
  <2>1. /\ wpc' = [wpc EXCEPT ![w] = "clear"] /\ loc' = [loc EXCEPT ![w] = loc[w]]
        /\ wpc[w] = "erase" /\ table' = Erase(table, Fd(w))
        /\ UNCHANGED <<master, queue, owner, main, crashed>>
    BY <1>1, <1>13 DEF EraseEntry, Goto, Fd
  <2>2. /\ DOMAIN table' = DOMAIN table \ {Fd(w)}
        /\ \A f \in DOMAIN table : f # Fd(w) => table'[f] = table[f]
    BY <2>1 DEF Erase
  <2>3. WorkerEntry(w)'
    BY <1>1, <1>2, <2>1, <2>2 DEF WorkerEntry, Fd, Busy
  <2> QED
    BY <1>1, <1>3, <2>1, <2>2, <2>3 DEF WorkerPC
<1>14. CASE Fetch(w)
  <2> DEFINE l == [loc[w] EXCEPT !.copy = master]
             pc == IF wpc[w] = "clear" THEN "cleared" ELSE "watched"
  <2>1. l \in Local /\ l.cli = loc[w].cli
    BY <1>1 DEF Local, TypeOK, StoreOK
  <2>2. /\ wpc' = [wpc EXCEPT ![w] = pc] /\ loc' = [loc EXCEPT ![w] = l]
        /\ wpc[w] \in {"clear", "watch"}
        /\ UNCHANGED <<master, queue, owner, main, crashed, table>>
    BY <1>14 DEF Fetch, Goto
  <2>3. pc \in WorkerPC /\ pc # "idle"
    BY DEF WorkerPC
  <2> HIDE DEF l
  <2>4. WorkerEntry(w)'
    BY <1>1, <1>2, <2>1, <2>2 DEF WorkerEntry, Fd, Busy
  <2> HIDE DEF pc
  <2> QED
    BY <1>4, <2>1, <2>2, <2>3, <2>4
<1> QED
  BY <1>5, <1>6, <1>7, <1>10, <1>11, <1>12, <1>13, <1>14

LEMMA HeadListed ==
  ASSUME TypeOK, PlaceInv, TableInv, queue # <<>>
  PROVE  /\ Head(queue) \in Client /\ Head(queue).fd \in Listed
         /\ Head(queue).fd \in DOMAIN table /\ table[Head(queue).fd].act \in Actions
         /\ owner[Head(queue).fd] = Head(queue).conn
<1>1. queue \in Seq(Client)
  BY DEF TypeOK, StoreOK
<1>2. Head(queue) = queue[1] /\ 1 \in 1..Len(queue) /\ Head(queue) \in Client
  BY <1>1, HeadTailProperties, EmptySeq
<1>3. Head(queue).fd \in Fds \cap Queued
  BY <1>2 DEF Queued, Client
<1>4. Head(queue).fd \notin Entering
  BY <1>3 DEF Entering, PlaceInv, Apart, Kept
<1>5. Head(queue).fd \in Listed
  BY <1>3, <1>4 DEF Listed
<1> QED
  BY <1>2, <1>5 DEF TableInv, ListedOK, EntriesOK, QueueOK

LEMMA TableTake ==
  ASSUME TypeOK, PlaceInv, TableInv, NEW w \in Workers, Take(w)
  PROVE  TableInv'
<1> USE DEF kernel, fdset, store, history
<1> DEFINE k == Head(queue)
           l == [loc[w] EXCEPT !.cli = k, !.act = table[k.fd].act]
<1>1. loc \in [Workers -> Local] /\ wpc \in [Workers -> WorkerPC] /\ loc[w] \in Local
  BY DEF TypeOK, PoolOK
<1>2. queue # <<>> /\ queue' = Tail(queue) /\ queue \in Seq(Client)
  BY DEF Take, TypeOK, StoreOK
<1>3. /\ k \in Client /\ k.fd \in Listed /\ k.fd \in DOMAIN table /\ table[k.fd].act \in Actions
      /\ owner[k.fd] = k.conn
  BY <1>2, HeadListed
<1>4. /\ k.fd \in Queued /\ Queued' = Queued \ {k.fd}
  BY <1>2, Popped DEF PlaceInv, Apart
<1>5. /\ master' = master /\ ready' = ready /\ mpc' = mpc /\ mcli' = mcli /\ owner' = owner
      /\ Kept' = Kept /\ Entering' = Entering /\ table' = table
  BY DEF Take, main, Kept, Entering, IsLowest
<1>6. /\ loc' = [loc EXCEPT ![w].cli = k, ![w].act = table[k.fd].act] /\ Goto(w, "read")
      /\ crashed' = crashed
  BY <1>3 DEF Take
<1>7. loc' = [loc EXCEPT ![w] = l]
  BY <1>1, <1>6
<1>8. l.cli = k /\ l.act = table[k.fd].act
  BY <1>1 DEF Local
<1> HIDE DEF l
<1>9. /\ wpc[w] = "idle" /\ Fd(w)' = k.fd /\ wpc'[w] = "read" /\ loc'[w].act = table[k.fd].act
      /\ loc'[w].cli = k
      /\ \A v \in Workers \ {w} : loc'[v] = loc[v] /\ wpc'[v] = wpc[v] /\ Fd(v)' = Fd(v)
  BY <1>1, <1>6, <1>7, <1>8 DEF Take, Goto, Fd
<1>10. Listed' = Listed \ {k.fd}
  BY <1>4, <1>5 DEF Listed, PlaceInv, Apart
<1>11. QueueOK'
  <2>1. ASSUME NEW i \in 1..Len(queue') PROVE owner'[queue'[i].fd] = queue'[i].conn
    <3>1. queue'[i] = queue[i + 1] /\ i + 1 \in 1..Len(queue)
      BY <1>2, HeadTailProperties, EmptySeq
    <3> QED
      BY <1>5, <3>1 DEF TableInv, QueueOK
  <2> QED
    BY <2>1 DEF QueueOK
<1> HIDE DEF k
<1>12. EntriesOK' /\ ListedOK' /\ EnteringOK' /\ CrashOK'
  BY <1>5, <1>6, <1>10 DEF TableInv, EntriesOK, ListedOK, EnteringOK, CrashOK
<1>13. KnownOK'
  BY <1>5, <1>9, <1>10 DEF TableInv, KnownOK, Busy
<1>14. WorkerEntry(w)'
  BY <1>3, <1>5, <1>9 DEF TableInv, ListedOK, WorkerEntry
<1>15. \A v \in Workers \ {w} : WorkerEntry(v)'
  BY <1>5, <1>9, OthersEntry DEF TableInv
<1> QED
  BY <1>11, <1>12, <1>13, <1>14, <1>15 DEF TableInv

LEMMA TableClose == ASSUME TypeOK, PlaceInv, TableInv, NEW w \in Workers, CloseFd(w) PROVE TableInv'
<1> USE DEF kernel, fdset, store
<1>1. loc \in [Workers -> Local] /\ wpc \in [Workers -> WorkerPC] /\ owner \in [Fds -> Conns \cup {NoConn}]
  BY DEF TypeOK, PoolOK, KernelOK
<1>2. /\ wpc[w] = "close" /\ wpc' = [wpc EXCEPT ![w] = "erase"] /\ loc' = loc
      /\ owner' = [owner EXCEPT ![Fd(w)] = NoConn]
      /\ UNCHANGED <<master, queue, main, table, crashed>>
  BY DEF CloseFd, Goto, Fd, history
<1>3. Fd(w) \in Fds /\ Busy(w)
  BY <1>2 DEF TypeOK, PoolOK, Busy, Client, Fd
<1>4. /\ Queued' = Queued /\ Kept' = Kept /\ Entering' = Entering /\ queue' = queue
      /\ master' = master /\ ready' = ready /\ mpc' = mpc /\ mcli' = mcli /\ crashed' = crashed
      /\ table' = table
      /\ \A v \in Workers : Fd(v)' = Fd(v) /\ (Busy(v)' <=> Busy(v))
  BY <1>1, <1>2 DEF Queued, Kept, Entering, main, IsLowest, Fd, Busy
<1>5. owner'[Fd(w)] = NoConn /\ \A f \in Fds \ {Fd(w)} : owner'[f] = owner[f]
  BY <1>1, <1>2, <1>3
<1>6. Fd(w) \notin Listed \cup Entering \cup Queued
  BY <1>3, ServedApart DEF PlaceInv, Apart
<1>7. Listed' = Listed
  BY <1>4 DEF Listed
<1>8. Listed \subseteq Fds /\ Entering \subseteq Fds /\ Queued \subseteq Fds
  <2>1. Listed \subseteq Fds /\ Entering \subseteq Fds
    BY DEF Listed, Entering, TypeOK, MainOK, Client
  <2>2. \A i \in 1..Len(queue) : queue[i] \in Client
    BY ElementOfSeq DEF TypeOK, StoreOK
  <2> QED
    BY <2>1, <2>2 DEF Queued, Client
<1>9. EntriesOK' /\ KnownOK' /\ CrashOK'
  BY <1>4, <1>7 DEF TableInv, EntriesOK, KnownOK, CrashOK
<1>10. ListedOK' /\ EnteringOK'
  BY <1>4, <1>5, <1>6, <1>7, <1>8 DEF TableInv, ListedOK, EnteringOK
<1>11. QueueOK'
  BY <1>4, <1>5, <1>6, <1>8 DEF TableInv, QueueOK, Queued
<1>12. WorkerEntry(w)'
  BY <1>1, <1>2, <1>4, <1>5 DEF TableInv, WorkerEntry
<1>13. ASSUME NEW v \in Workers \ {w} PROVE WorkerEntry(v)'
  <2>1. CASE Busy(v)
    <3>1. Fd(v) # Fd(w) /\ Fd(v) \in Fds
      BY <1>3, <1>13, <2>1 DEF PlaceInv, Apart, TypeOK, PoolOK, Client, Fd
    <3> QED
      BY <1>1, <1>2, <1>4, <1>5, <3>1, OthersEntry DEF TableInv
  <2>2. CASE ~Busy(v)
    BY <1>4, <2>2 DEF WorkerEntry
  <2> QED
    BY <2>1, <2>2
<1> QED
  BY <1>9, <1>10, <1>11, <1>12, <1>13 DEF TableInv

LEMMA TableReturn ==
  ASSUME TypeOK, PlaceInv, TableInv, Steady', NEW w \in Workers, Cleared(w) \/ Watched(w)
  PROVE  TableInv'
<1> USE DEF kernel, fdset, store
<1>1. loc \in [Workers -> Local] /\ wpc \in [Workers -> WorkerPC] /\ loc[w] \in Local
  BY DEF TypeOK, PoolOK
<1>2. /\ Queued' = Queued /\ Kept' = Kept /\ Entering' = Entering /\ queue' = queue
      /\ mpc' = mpc /\ mcli' = mcli /\ ready' = ready /\ owner' = owner /\ crashed' = crashed
      /\ table' = table
  BY DEF Cleared, Watched, main, Queued, Kept, Entering, IsLowest
<1>3. /\ Busy(w) /\ Fd(w) \in Fds /\ WorkerOpen(w) /\ WorkerEntry(w)
      /\ Fd(w) \notin master \cup Queued \cup Kept \cup Listed \cup Entering
  BY ServedApart DEF Cleared, Watched, PlaceInv, Apart, Open, Busy, TypeOK, PoolOK, Client, Fd,
     TableInv
<1>4. \A v \in Workers \ {w} : loc'[v] = loc[v] /\ wpc'[v] = wpc[v]
  BY <1>1 DEF Cleared, Watched, Goto
<1>5. \A v \in Workers \ {w} : WorkerEntry(v)' /\ Fd(v)' = Fd(v) /\ (Busy(v)' <=> Busy(v))
  BY <1>2, <1>4, OthersEntry DEF TableInv, Fd, Busy
<1>6. EntriesOK' /\ EnteringOK' /\ QueueOK' /\ CrashOK'
  BY <1>2 DEF TableInv, EntriesOK, EnteringOK, QueueOK, CrashOK
<1>7. CASE Cleared(w)
  <2>1. master' = master
    <3>1. master' = FdClr(master, Fd(w))
      BY <1>7, NotStruck DEF Cleared, Fd
    <3> QED
      BY <1>3, <3>1 DEF FdClr
  <2>2. Listed' = Listed
    BY <1>2, <2>1 DEF Listed
  <2>3. Fd(w) \notin DOMAIN table
    BY <1>3, <1>7 DEF Cleared, WorkerEntry
  <2>4. ListedOK' /\ KnownOK'
    BY <1>2, <1>5, <2>2, <2>3 DEF TableInv, ListedOK, KnownOK
  <2>5. wpc'[w] = "idle" \/ (wpc'[w] = "check" /\ Fd(w)' = Fd(w) /\ loc'[w].cli = loc[w].cli)
    <3>1. CASE Goto(w, "check") /\ loc' = [loc EXCEPT ![w].copy = {}]
      <4> DEFINE l == [loc[w] EXCEPT !.copy = {}]
      <4>1. l.cli = loc[w].cli
        BY <1>1 DEF Local
      <4>2. loc' = [loc EXCEPT ![w] = l]
        BY <3>1
      <4> HIDE DEF l
      <4> QED
        BY <1>1, <3>1, <4>1, <4>2 DEF Goto, Fd
    <3>2. CASE Goto(w, "idle")
      BY <1>1, <3>2 DEF Goto
    <3> QED
      BY <1>7, <3>1, <3>2 DEF Cleared
  <2>6. WorkerEntry(w)'
    BY <1>2, <1>3, <2>3, <2>5 DEF WorkerEntry, Busy
  <2> QED
    BY <1>5, <1>6, <2>4, <2>6 DEF TableInv
<1>8. CASE Watched(w)
  <2>1. master' = master \cup {Fd(w)}
    <3>1. master' = FdSet(master, Fd(w))
      BY <1>8, NotStruck DEF Watched, Fd
    <3> QED
      BY <3>1 DEF FdSet
  <2>2. Listed' = Listed \cup {Fd(w)}
    BY <1>2, <1>3, <2>1 DEF Listed
  <2>3. wpc'[w] = "idle"
    BY <1>1, <1>8 DEF Watched, Goto
  <2>4. /\ Fd(w) \in DOMAIN table /\ table[Fd(w)].conn = owner[Fd(w)]
        /\ table[Fd(w)].tries < ClientTries
    BY <1>3, <1>8 DEF Watched, WorkerOpen, WorkerEntry
  <2>5. ListedOK' /\ KnownOK'
    BY <1>2, <1>5, <2>2, <2>4 DEF TableInv, ListedOK, KnownOK
  <2>6. WorkerEntry(w)'
    BY <2>3 DEF WorkerEntry, Busy
  <2> QED
    BY <1>5, <1>6, <2>5, <2>6 DEF TableInv
<1> QED
  BY <1>7, <1>8

\* A step of the main thread that does not touch the entries.
LEMMA TableByMain ==
  ASSUME TypeOK, PlaceInv, TableInv,
         UNCHANGED <<workers, queue, owner, table, crashed>>, ~crashed,
         master' \cup Kept' = master \cup Kept,
         Entering' = Entering, Entering # {} => mcli' = mcli
  PROVE  TableInv'
<1>1. Queued' = Queued /\ owner' = owner /\ table' = table /\ queue' = queue /\ ~crashed'
  BY DEF Queued
<1>2. Listed' = Listed
  BY <1>1 DEF Listed
<1>3. \A v \in Workers : Fd(v)' = Fd(v) /\ (Busy(v)' <=> Busy(v)) /\ (WorkerEntry(v)' <=> WorkerEntry(v))
  BY <1>1 DEF workers, Fd, Busy, WorkerEntry
<1>4. EntriesOK' /\ ListedOK' /\ EnteringOK' /\ QueueOK' /\ CrashOK'
  BY <1>1, <1>2 DEF TableInv, EntriesOK, ListedOK, EnteringOK, QueueOK, CrashOK
<1>5. KnownOK'
  BY <1>1, <1>2, <1>3 DEF TableInv, KnownOK
<1> QED
  BY <1>3, <1>4, <1>5 DEF TableInv

LEMMA TableAccept ==
  ASSUME TypeOK, PlaceInv, TableInv, Steady', NEW c \in Conns, NEW f \in Fds, AcceptClient(c, f)
  PROVE  TableInv'
<1> USE DEF fdset, store
<1>1. /\ mpc = "accept" /\ mpc' = "watch" /\ mcli'.fd = f /\ mcli'.conn = c /\ owner[f] = NoConn
      /\ owner' = [owner EXCEPT ![f] = c] /\ owner \in [Fds -> Conns \cup {NoConn}]
      /\ UNCHANGED <<master, queue, ready, workers, table, crashed>> /\ ~crashed
  BY DEF AcceptClient, Free, TypeOK, KernelOK
<1>2. f \notin Queued /\ \A w \in Workers : Busy(w) => Fd(w) # f
  BY NotStruck DEF AcceptClient, Fd
<1>3. Kept = {} /\ Kept' = {f} /\ Entering = {} /\ Entering' = {f}
  BY <1>1 DEF Kept, Entering
<1>4. f \notin Listed
  BY <1>1 DEF PlaceInv, Open, Listed
<1>5. f \notin DOMAIN table
  BY <1>2, <1>4 DEF TableInv, KnownOK
<1>6. /\ Queued' = Queued /\ owner'[f] = c /\ table' = table /\ queue' = queue
      /\ \A g : g # f => owner'[g] = owner[g]
  BY <1>1 DEF Queued
<1>7. Listed' = Listed
  BY <1>1, <1>3, <1>4, <1>6 DEF Listed
<1>8. \A v \in Workers : Fd(v)' = Fd(v) /\ (Busy(v)' <=> Busy(v)) /\ loc'[v] = loc[v] /\ wpc'[v] = wpc[v]
  BY <1>1 DEF workers, Fd, Busy
<1>9. EntriesOK' /\ KnownOK' /\ CrashOK'
  BY <1>1, <1>7, <1>8 DEF TableInv, EntriesOK, KnownOK, CrashOK
<1>10. ListedOK' /\ EnteringOK'
  BY <1>1, <1>3, <1>4, <1>5, <1>6, <1>7 DEF TableInv, ListedOK, EnteringOK
<1>11. QueueOK'
  BY <1>2, <1>6 DEF TableInv, QueueOK, Queued
<1>12. ASSUME NEW v \in Workers PROVE WorkerEntry(v)'
  <2>1. CASE Busy(v)
    BY <1>2, <1>6, <1>8, <2>1, OthersEntry DEF TableInv
  <2>2. CASE ~Busy(v)
    BY <1>8, <2>2 DEF WorkerEntry
  <2> QED
    BY <2>1, <2>2
<1> QED
  BY <1>9, <1>10, <1>11, <1>12 DEF TableInv

LEMMA TableInsert == ASSUME TypeOK, PlaceInv, TableInv, AcceptInsert PROVE TableInv'
<1> USE DEF kernel, history
<1> DEFINE f == mcli.fd
           e == NewEntry(mcli)
<1>1. /\ mpc = "insert" /\ mpc' \in {"select", "scan"} /\ table' = Insert(table, f, e)
      /\ UNCHANGED <<master, queue, owner, workers, crashed>> /\ ~crashed /\ mcli \in Client
  BY DEF AcceptInsert, AfterAccept, TypeOK, MainOK
<1>2. Kept = {} /\ Kept' = {} /\ Entering = {f} /\ Entering' = {}
  BY <1>1 DEF Kept, Entering
<1>3. f \notin DOMAIN table /\ owner[f] = mcli.conn /\ f \in master /\ f \in Fds
  BY <1>1, <1>2 DEF TableInv, EnteringOK, PlaceInv, Apart, Client
<1>4. e.act \in Actions /\ e.tries = 0 /\ e.conn = owner[f] /\ 0 < ClientTries /\ 0 <= ClientTries
  BY <1>3, LimitAssumption DEF NewEntry, Actions, greetings, edit
<1>5. /\ DOMAIN table' = DOMAIN table \cup {f} /\ table'[f] = e
      /\ \A g \in DOMAIN table : table'[g] = table[g]
  BY <1>1, <1>3 DEF Insert
<1>6. \A v \in Workers : Busy(v) => Fd(v) # f
  BY <1>2, ServedApart
<1> HIDE DEF f, e
<1>7. Queued' = Queued /\ owner' = owner /\ queue' = queue /\ master' = master
  BY <1>1 DEF Queued
<1>8. Listed' = Listed \cup {f} /\ f \notin Listed
  BY <1>2, <1>3, <1>7 DEF Listed
<1>9. \A v \in Workers : Fd(v)' = Fd(v) /\ (Busy(v)' <=> Busy(v)) /\ loc'[v] = loc[v] /\ wpc'[v] = wpc[v]
  BY <1>1 DEF workers, Fd, Busy
<1>10. EntriesOK' /\ EnteringOK' /\ QueueOK' /\ CrashOK'
  BY <1>1, <1>2, <1>4, <1>5, <1>7 DEF TableInv, EntriesOK, EnteringOK, QueueOK, CrashOK
<1>11. ListedOK' /\ KnownOK'
  BY <1>4, <1>5, <1>7, <1>8, <1>9 DEF TableInv, ListedOK, KnownOK
<1>12. ASSUME NEW v \in Workers PROVE WorkerEntry(v)'
  <2>1. CASE Busy(v) /\ Fd(v) \in DOMAIN table
    BY <1>5, <1>6, <1>7, <1>9, <2>1, OthersEntry DEF TableInv
  <2>2. CASE Busy(v) /\ Fd(v) \notin DOMAIN table
    BY <1>5, <1>6, <1>7, <1>9, <2>2 DEF TableInv, WorkerEntry
  <2>3. CASE ~Busy(v)
    BY <1>9, <2>3 DEF WorkerEntry
  <2> QED
    BY <2>1, <2>2, <2>3
<1> QED
  BY <1>10, <1>11, <1>12 DEF TableInv

LEMMA TablePush ==
  ASSUME TypeOK, PlaceInv, TableInv, NEW f \in AllFds, ScanPush(f)
  PROVE  TableInv'
<1> USE DEF kernel, fdset, store, history
<1> DEFINE k == [fd |-> f, conn |-> table[f].conn, id |-> table[f].id]
<1>1. /\ mpc = "push" /\ IsLowest(f, ready) /\ queue' = Append(queue, k)
      /\ mpc' \in {"select", "scan"} /\ f \in DOMAIN table
      /\ UNCHANGED <<master, owner, workers, table, crashed>> /\ ~crashed
  BY DEF ScanPush
<1>2. k \in Client /\ k.fd = f /\ k.conn = table[f].conn /\ f \in Fds
  BY DEF ScanPush, TypeOK, StoreOK, Entry, Client
<1>3. Kept = {f} /\ Kept' = {} /\ Entering = {} /\ Entering' = {}
  <2>1. Kept = {f}
    BY <1>1, KeptPush
  <2> QED
    BY <1>1, <2>1 DEF Kept, Entering
<1>4. f \in Listed
  BY <1>2, <1>3 DEF Listed
<1>5. k.conn = owner[f]
  BY <1>2, <1>4 DEF TableInv, ListedOK
<1> HIDE DEF k
<1>6. Queued' = Queued \cup {f} /\ owner' = owner /\ table' = table
  BY <1>1, <1>2, Pushed DEF TypeOK, StoreOK
<1>7. Listed' = Listed
  BY <1>1, <1>3, <1>6 DEF Listed
<1>8. QueueOK'
  <2>1. /\ Len(queue') = Len(queue) + 1 /\ Len(queue) \in Nat
        /\ queue'[Len(queue) + 1] = k
        /\ \A i \in 1..Len(queue) : queue'[i] = queue[i]
    BY <1>1, <1>2, AppendProperties, LenProperties DEF TypeOK, StoreOK
  <2>2. ASSUME NEW i \in 1..Len(queue') PROVE owner'[queue'[i].fd] = queue'[i].conn
    <3>1. CASE i = Len(queue) + 1
      BY <1>2, <1>5, <1>6, <2>1, <3>1
    <3>2. CASE i \in 1..Len(queue)
      BY <1>6, <2>1, <3>2 DEF TableInv, QueueOK
    <3> QED
      BY <2>1, <3>1, <3>2
  <2> QED
    BY <2>2 DEF QueueOK
<1>9. \A v \in Workers : Fd(v)' = Fd(v) /\ (Busy(v)' <=> Busy(v)) /\ (WorkerEntry(v)' <=> WorkerEntry(v))
  BY <1>1 DEF workers, Fd, Busy, WorkerEntry
<1>10. EntriesOK' /\ ListedOK' /\ EnteringOK' /\ CrashOK'
  BY <1>1, <1>3, <1>6, <1>7 DEF TableInv, EntriesOK, ListedOK, EnteringOK, CrashOK
<1>11. KnownOK'
  BY <1>6, <1>7, <1>9 DEF TableInv, KnownOK
<1> QED
  BY <1>8, <1>9, <1>10, <1>11 DEF TableInv

\* The lookup of the scan fails for the listening socket only.
LEMMA TableCrash ==
  ASSUME TypeOK, PlaceInv, TableInv, NEW f \in AllFds, ScanCrash(f)
  PROVE  TableInv'
<1> USE DEF kernel, fdset, store
<1>1. /\ mpc = "push" /\ IsLowest(f, ready) /\ f \notin DOMAIN table
      /\ UNCHANGED <<main, master, owner, workers, table, queue>>
  BY DEF ScanCrash
<1>2. Kept = {f} /\ Entering = {}
  BY <1>1, KeptPush DEF Entering
<1>3. f = ServerFd /\ f \in ready
  BY <1>1, <1>2 DEF AllFds, Listed, TableInv, ListedOK, IsLowest
<1>4. /\ Kept' = Kept /\ Entering' = Entering /\ Queued' = Queued
      /\ mpc' = mpc /\ mcli' = mcli /\ ready' = ready /\ owner' = owner
      /\ queue' = queue /\ master' = master /\ table' = table
  BY <1>1 DEF Queued, Kept, Entering, main, IsLowest
<1>5. Listed' = Listed
  BY <1>4 DEF Listed
<1>6. \A v \in Workers : Fd(v)' = Fd(v) /\ (Busy(v)' <=> Busy(v)) /\ (WorkerEntry(v)' <=> WorkerEntry(v))
  BY <1>1 DEF workers, Fd, Busy, WorkerEntry
<1>7. EntriesOK' /\ ListedOK' /\ EnteringOK' /\ QueueOK'
  BY <1>4, <1>5 DEF TableInv, EntriesOK, ListedOK, EnteringOK, QueueOK
<1>8. KnownOK' /\ CrashOK'
  BY <1>1, <1>3, <1>4, <1>5, <1>6 DEF TableInv, KnownOK, CrashOK
<1> QED
  BY <1>6, <1>7, <1>8 DEF TableInv

LEMMA TableMain == TypeOK /\ PlaceInv /\ TableInv /\ MainStep /\ Steady' => TableInv'
<1> SUFFICES ASSUME TypeOK, PlaceInv, TableInv, MainStep, Steady' PROVE TableInv'
  OBVIOUS
<1> USE DEF kernel, fdset, store, history
<1>1. ASSUME \/ Select \/ AcceptNothing \/ ScanClear
             \/ \E c \in Conns : AcceptBanned(c)
      PROVE  TableInv'
  <2>1. /\ mpc \in {"select", "accept", "scan"} /\ mpc' \in {"select", "accept", "scan", "unwatch"}
        /\ UNCHANGED <<master, workers, queue, owner, table, crashed>> /\ ~crashed
    BY <1>1 DEF Select, AcceptNothing, ScanClear, AcceptBanned, AfterAccept
  <2>2. Kept = {} /\ Kept' = {} /\ Entering = {} /\ Entering' = {}
    BY <2>1 DEF Kept, Entering
  <2> QED
    BY <2>1, <2>2, TableByMain
<1>2. CASE AcceptWatch
  <2>1. /\ mpc = "watch" /\ mpc' = "insert" /\ mcli' = mcli
        /\ UNCHANGED <<workers, queue, owner, table, crashed>> /\ ~crashed
    BY <1>2 DEF AcceptWatch
  <2>2. master' = master \cup {mcli.fd}
    BY <1>2, NotStruck DEF AcceptWatch, FdSet
  <2>3. Kept = {mcli.fd} /\ Kept' = {} /\ Entering' = Entering
    BY <2>1 DEF Kept, Entering
  <2> QED
    BY <2>1, <2>2, <2>3, TableByMain
<1>3. ASSUME NEW f \in AllFds, ScanUnwatch(f) PROVE TableInv'
  <2>1. /\ mpc = "unwatch" /\ mpc' = "push" /\ IsLowest(f, ready) /\ ready' = ready
        /\ UNCHANGED <<workers, queue, owner, table, crashed>> /\ ~crashed
    BY <1>3 DEF ScanUnwatch
  <2>2. master' = master \ {f}
    BY <1>3, NotStruck DEF ScanUnwatch, FdClr
  <2>3. Kept = {} /\ Entering = {} /\ Entering' = {}
    BY <2>1 DEF Kept, Entering
  <2>4. Kept' = {f}
    <3>1. ready \subseteq Int
      BY FdsInt DEF TypeOK, MainOK
    <3>2. \A g : IsLowest(g, ready) => g = f
      BY <2>1, <3>1 DEF IsLowest
    <3> QED
      BY <2>1, <3>2 DEF Kept, IsLowest
  <2>5. f \in master
    BY <2>1, <2>3 DEF PlaceInv, Apart, IsLowest
  <2> QED
    BY <2>1, <2>2, <2>3, <2>4, <2>5, TableByMain
<1> QED
  BY <1>1, <1>2, <1>3, TableAccept, TableInsert, TablePush, TableCrash DEF MainStep

LEMMA TableEnvironment == TypeOK /\ TableInv /\ (Environment \/ UNCHANGED vars) => TableInv'
<1> SUFFICES ASSUME TypeOK, TableInv, Environment \/ UNCHANGED vars PROVE TableInv'
  OBVIOUS
<1>1. UNCHANGED <<main, workers, master, queue, owner, table, crashed>>
  BY DEF vars, kernel, fdset, store, history, Environment, Connect, Send, HangUp, BanExpires
<1>2. /\ Kept' = Kept /\ Entering' = Entering /\ Queued' = Queued
      /\ mpc' = mpc /\ mcli' = mcli /\ ready' = ready /\ owner' = owner
      /\ queue' = queue /\ table' = table /\ crashed' = crashed
  BY <1>1 DEF main, Kept, Entering, Queued, IsLowest
<1>3. Listed' = Listed
  BY <1>1, <1>2 DEF Listed
<1>4. \A v \in Workers : Fd(v)' = Fd(v) /\ (Busy(v)' <=> Busy(v)) /\ (WorkerEntry(v)' <=> WorkerEntry(v))
  BY <1>1 DEF workers, Fd, Busy, WorkerEntry
<1>5. EntriesOK' /\ ListedOK' /\ EnteringOK' /\ QueueOK' /\ CrashOK'
  BY <1>2, <1>3 DEF TableInv, EntriesOK, ListedOK, EnteringOK, QueueOK, CrashOK
<1>6. KnownOK'
  BY <1>2, <1>3, <1>4 DEF TableInv, KnownOK
<1> QED
  BY <1>4, <1>5, <1>6 DEF TableInv
-----------------------------------------------------------------------------
(***************************************************************************)
(* The inductive invariant: both parts, while Steady.  A step that is not  *)
(* Steady afterwards may break them, so that what is inductive is the      *)
(* implication; SteadyBack gives its premise back before the step.         *)
(***************************************************************************)
PlacesInv == TypeOK /\ (Steady => PlaceInv /\ TableInv)

LEMMA PlacesInit == Init => PlacesInv
<1> SUFFICES ASSUME Init PROVE PlacesInv
  OBVIOUS
<1>1. TypeOK
  BY TypeInit
<1>2. /\ Queued = {} /\ Kept = {} /\ Entering = {} /\ Len(queue) = 0 /\ master = {ServerFd}
      /\ ready = {} /\ mpc = "select" /\ crashed = FALSE /\ DOMAIN table = {}
      /\ \A f \in Fds : owner[f] = NoConn
      /\ \A w \in Workers : ~Busy(w) /\ wpc[w] = "idle" /\ loc[w].res = NOONE
  BY DEF Init, Queued, Kept, Entering, Busy, Idle
<1>3. ServerFd \notin Fds
  BY FdAssumption
<1>4. QueueDistinct /\ QueueOK
  BY <1>2 DEF QueueDistinct, QueueOK
<1>5. Apart
  BY <1>2, <1>4 DEF Apart
<1>6. Open
  BY <1>2, <1>3 DEF Open, WorkerOpen, NOONE, blocked
<1>7. Listed = {}
  BY <1>2, <1>3 DEF Listed
<1>8. TableInv
  BY <1>2, <1>4, <1>7 DEF TableInv, EntriesOK, ListedOK, KnownOK, EnteringOK, CrashOK,
     WorkerEntry
<1> QED
  BY <1>1, <1>5, <1>6, <1>8 DEF PlacesInv, PlaceInv

LEMMA PlacesNext == PlacesInv /\ TypeOK' /\ [Next]_vars => PlacesInv'
<1> SUFFICES ASSUME PlacesInv, TypeOK', [Next]_vars, Steady' PROVE PlaceInv' /\ TableInv'
  BY DEF PlacesInv
<1>1. TypeOK /\ PlaceInv /\ TableInv
  BY SteadyBack DEF PlacesInv
<1>2. CASE Environment \/ UNCHANGED vars
  BY <1>1, <1>2, PlaceEnvironment, TableEnvironment
<1>3. CASE MainStep
  BY <1>1, <1>3, PlaceMain, TableMain
<1>4. ASSUME NEW w \in Workers, WorkerStep(w) PROVE PlaceInv' /\ TableInv'
  <2>1. CASE Take(w)
    <3>1. queue # <<>>
      BY <2>1 DEF Take
    <3>2. Head(queue).fd \in DOMAIN table /\ table[Head(queue).fd].act \in Actions
      BY <1>1, <3>1, HeadListed
    <3> QED
      BY <1>1, <2>1, <3>2, PlaceTake, TableTake
  <2>2. CASE CloseFd(w)
    BY <1>1, <2>2, PlaceClose, TableClose
  <2>3. CASE Cleared(w) \/ Watched(w)
    BY <1>1, <2>3, PlaceReturn, TableReturn
  <2>4. CASE \/ ReadLine(w) \/ ReadFails(w) \/ Parse(w) \/ Dispatch(w)
             \/ Ban(w) \/ Settle(w) \/ EraseEntry(w) \/ Fetch(w)
    BY <1>1, <2>4, PlaceServe, TableServe
  <2> QED
    BY <1>4, <2>1, <2>2, <2>3, <2>4 DEF WorkerStep
<1> QED
  BY <1>2, <1>3, <1>4 DEF Next

\* The inductive invariant holds in every reachable state.
THEOREM PlacesCorrect == Spec => []PlacesInv
<1>1. PlacesInv /\ [][Next]_vars /\ []TypeOK => []PlacesInv
  BY PlacesNext, PTL
<1> QED
  BY <1>1, PlacesInit, TypeCorrect, PTL DEF Spec

\* One worker at a time: a client is with one worker or waits once.
THEOREM SoleHandlerCorrect == Spec => []SoleHandler
<1>1. PlacesInv => SoleHandler
  BY DEF PlacesInv, PlaceInv, Apart, QueueDistinct, SoleHandler, Fd
<1> QED
  BY <1>1, PlacesCorrect, PTL

\* No accepted client is forgotten by all threads.
THEOREM NoneForgottenCorrect == Spec => []NoneForgotten
<1>1. PlacesInv => NoneForgotten
  <2> SUFFICES ASSUME PlacesInv, Steady, NEW f \in Fds, owner[f] # NoConn PROVE Placed(f)
    BY DEF NoneForgotten
  <2>1. \/ f \in master \cup Queued \cup Kept
        \/ \E w \in Workers : Busy(w) /\ Fd(w) = f
    BY DEF PlacesInv, PlaceInv, Open
  <2>2. f \in Kept => f \in Scanned \/ mcli.fd = f
    BY DEF Kept, Scanned
  <2> QED
    BY <2>1, <2>2 DEF Placed, Fd
<1> QED
  BY <1>1, PlacesCorrect, PTL

\* The queue's and the workers' copies of a client name its own descriptor.
THEOREM OwnDescriptorCorrect == Spec => []OwnDescriptor
<1>1. PlacesInv => OwnDescriptor
  <2> SUFFICES ASSUME PlacesInv, Steady PROVE OwnDescriptor
    BY DEF OwnDescriptor
  <2>1. QueueOK
    BY DEF PlacesInv, TableInv
  <2>2. ASSUME NEW w \in Workers, Busy(w)
        PROVE  \/ owner[Fd(w)] = loc[w].cli.conn
               \/ /\ owner[Fd(w)] = NoConn /\ loc[w].res = disconnect
                  /\ wpc[w] \in {"check", "close"}
               \/ wpc[w] \in {"erase", "clear", "cleared"}
    <3>1. owner[Fd(w)] \in {NoConn, loc[w].cli.conn} /\ WorkerOpen(w) /\ wpc[w] \in WorkerPC
      BY <2>2 DEF PlacesInv, TableInv, WorkerEntry, PlaceInv, Open, TypeOK, PoolOK
    <3> QED
      BY <2>2, <3>1 DEF WorkerOpen, WorkerPC, Busy
  <2> QED
    BY <2>1, <2>2 DEF OwnDescriptor, QueueOK, Fd
<1> QED
  BY <1>1, PlacesCorrect, PTL

\* Every client the scan or a worker looks up has its entry, with an action
\* that has a handler: only the listening socket is looked up in vain.
THEOREM OnlyListenerCrashesCorrect == Spec => []OnlyListenerCrashes
<1>1. PlacesInv => OnlyListenerCrashes
  BY DEF PlacesInv, TableInv, CrashOK, OnlyListenerCrashes
<1> QED
  BY <1>1, PlacesCorrect, PTL

\* A client without tries left is with the worker that closes it.
THEOREM BannedNotServedCorrect == Spec => []BannedNotServed
<1>1. PlacesInv => BannedNotServed
  <2> SUFFICES ASSUME PlacesInv, Steady, NEW f \in DOMAIN table
               PROVE  /\ table[f].tries <= ClientTries
                      /\ table[f].tries = ClientTries =>
                           \E w \in Workers : loc[w].cli.fd = f /\ wpc[w] \in {"check", "close", "erase"}
    BY DEF BannedNotServed
  <2>1. table[f].tries <= ClientTries
    BY DEF PlacesInv, TableInv, EntriesOK
  <2>2. ~(ClientTries < ClientTries)
    BY LimitAssumption
  <2>3. CASE f \in Listed
    BY <2>1, <2>2, <2>3 DEF PlacesInv, TableInv, ListedOK
  <2>4. ASSUME NEW w \in Workers, Busy(w), Fd(w) = f, table[f].tries = ClientTries
        PROVE  wpc[w] \in {"check", "close", "erase"}
    <3>1. WorkerEntry(w) /\ wpc[w] \in WorkerPC
      BY DEF PlacesInv, TableInv, TypeOK, PoolOK
    <3> QED
      BY <2>2, <2>4, <3>1 DEF WorkerEntry, WorkerPC, Busy
  <2> QED
    BY <2>1, <2>3, <2>4 DEF PlacesInv, TableInv, KnownOK, Fd
<1> QED
  BY <1>1, PlacesCorrect, PTL

\* An entry of a closed connection is with the worker that is to erase it.
THEOREM EntriesLiveCorrect == Spec => []EntriesLive
<1>1. PlacesInv => EntriesLive
  <2> SUFFICES ASSUME PlacesInv, Steady, NEW f \in DOMAIN table, owner[f] = NoConn
               PROVE  \E w \in Workers : loc[w].cli.fd = f /\ wpc[w] \in {"check", "close", "erase"}
    BY DEF EntriesLive
  <2>1. f \notin Listed
    BY DEF PlacesInv, PlaceInv, Open, Listed
  <2>2. PICK w \in Workers : Busy(w) /\ Fd(w) = f
    BY <2>1 DEF PlacesInv, TableInv, KnownOK
  <2>3. WorkerOpen(w) /\ WorkerEntry(w) /\ wpc[w] \in WorkerPC
    BY DEF PlacesInv, PlaceInv, Open, TableInv, TypeOK, PoolOK
  <2>4. wpc[w] \in {"check", "close", "erase", "clear", "cleared"}
    BY <2>2, <2>3 DEF WorkerOpen, WorkerPC, Busy
  <2>5. wpc[w] \notin {"clear", "cleared"}
    BY <2>2, <2>3 DEF WorkerEntry
  <2> QED
    BY <2>2, <2>4, <2>5 DEF Fd
<1> QED
  BY <1>1, PlacesCorrect, PTL
=============================================================================
