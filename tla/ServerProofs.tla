---------------------------- MODULE ServerProofs ----------------------------
(***************************************************************************)
(* What holds of Server for every set of connections, descriptors and      *)
(* workers and every limit: the type invariant, and that maxfd covers      *)
(* master_fd whenever select is called.                                    *)
(***************************************************************************)
EXTENDS Server, TLAPS, SequenceTheorems

USE DEF MainAt, At

-----------------------------------------------------------------------------
(***************************************************************************)
(* The pure parts: results, protocol and containers keep their types.      *)
(***************************************************************************)

\* A handler's answers are integers (result codes, actions or user ids).
LEMMA ResultsType ==
  ASSUME NEW a \in Actions, NEW c \in Conns,
         NEW r \in Results(a, AccountOf[c], Offered)
  PROVE  r \in Int
<1>1. AccountOf[c] \in Int
  BY ClientAssumption
<1>2. Offered \subseteq Int
  BY ClientAssumption DEF Operations, get, edit
<1> QED
  BY <1>1, <1>2 DEF Results, Reg_or_Auth, Registration, Authentification, Command_checker,
     Get, Add, Del, Edit, Actions, greetings, registration, authentification,
     command_checker, get, add, del, edit, disconnect, existing, bad_auth, not_exist,
     empty_values, NOONE, SUCCESS

\* handle_<action> leaves an entry of the map an entry of the map.
LEMMA AnsweredType ==
  ASSUME NEW e \in Entry, NEW r \in Int
  PROVE  Answered(e, r) \in Entry
<1>1. NextAction(e.act, r) \in Int
  BY DEF NextAction, LogsIn, Entry, command_checker
<1>2. (IF FailedTry(e.act, r) THEN e.tries + 1 ELSE e.tries) \in Nat
  BY DEF Entry
<1>3. (IF LogsIn(e.act, r) THEN r ELSE e.id) \in Int
  BY DEF Entry
<1> QED
  BY <1>1, <1>2, <1>3 DEF Answered, Entry

\* insert and operator[] of handle_clients keep its keys and values typed, and
\* the key asked for is there afterwards.
LEMMA InsertType ==
  ASSUME NEW t, DOMAIN t \subseteq Fds, t \in [DOMAIN t -> Entry],
         NEW f \in Fds, NEW e \in Entry
  PROVE  /\ f \in DOMAIN Insert(t, f, e)
         /\ DOMAIN Insert(t, f, e) \subseteq Fds
         /\ Insert(t, f, e) \in [DOMAIN Insert(t, f, e) -> Entry]
  BY DEF Insert

LEMMA TouchType ==
  ASSUME NEW t, DOMAIN t \subseteq Fds, t \in [DOMAIN t -> Entry], NEW k \in Client
  PROVE  /\ k.fd \in DOMAIN Touch(t, k)
         /\ DOMAIN Touch(t, k) \subseteq Fds
         /\ Touch(t, k) \in [DOMAIN Touch(t, k) -> Entry]
<1>1. k.fd \in Fds /\ NewEntry(k) \in Entry
  BY DEF NewEntry, Client, Entry, greetings
<1> QED
  BY <1>1, InsertType DEF Touch

\* A worker's locals stay typed when one of them is assigned.
LEMMA LocalType ==
  ASSUME NEW l \in Local
  PROVE  /\ Idle \in Local
         /\ \A k \in Client, a \in Actions : [l EXCEPT !.cli = k, !.act = a] \in Local
         /\ \A r \in Int : [l EXCEPT !.res = r] \in Local
         /\ \A s \in SUBSET AllFds : [l EXCEPT !.copy = s] \in Local
         /\ \A c \in {"handler", "result", "ban"} : [l EXCEPT !.call = c] \in Local
<1>1. Idle \in Local
  BY DEF Local, Idle, Actions, greetings, edit, NOONE
<1>2. ASSUME NEW k \in Client, NEW a \in Actions PROVE [l EXCEPT !.cli = k, !.act = a] \in Local
  BY DEF Local
<1>3. ASSUME NEW r \in Int PROVE [l EXCEPT !.res = r] \in Local
  BY DEF Local
<1>4. ASSUME NEW s \in SUBSET AllFds PROVE [l EXCEPT !.copy = s] \in Local
  BY DEF Local
<1>5. ASSUME NEW c \in {"handler", "result", "ban"} PROVE [l EXCEPT !.call = c] \in Local
  BY DEF Local
<1> QED
  BY <1>1, <1>2, <1>3, <1>4, <1>5
-----------------------------------------------------------------------------
(***************************************************************************)
(* The type invariant.                                                     *)
(***************************************************************************)
LEMMA TypeInit == Init => TypeOK
<1> SUFFICES ASSUME Init PROVE TypeOK
  OBVIOUS
<1>1. KernelOK
  BY DEF Init, KernelOK, Peer
<1>2. StoreOK
  BY DEF Init, StoreOK, AllFds
<1>3. MainOK
  BY DEF Init, MainOK
<1>4. Idle \in Local
  BY DEF Local, Idle, Actions, greetings, edit, NOONE
<1>5. PoolOK
  BY <1>4 DEF Init, PoolOK, WorkerPC, Busy
<1>6. HistoryOK
  BY DEF Init, HistoryOK
<1> QED
  BY <1>1, <1>2, <1>3, <1>5, <1>6 DEF TypeOK

\* What a step of one worker has to keep of the others' state.
LEMMA PoolStep ==
  ASSUME PoolOK, NEW w \in Workers, NEW pc \in WorkerPC, NEW l \in Local,
         wpc' = [wpc EXCEPT ![w] = pc], loc' = [loc EXCEPT ![w] = l],
         pc # "idle" => l.cli \in Client,
         pc = "parse" => buf'[l.act] # NoConn,
         \A v \in Workers \ {w} :
            wpc[v] = "parse" /\ buf[loc[v].act] # NoConn => buf'[loc[v].act] # NoConn
  PROVE  PoolOK'
  BY DEF PoolOK, Busy

\* The main thread and the environment do not touch the workers or buffers.
LEMMA PoolSame ==
  ASSUME PoolOK, UNCHANGED <<workers, buf>>
  PROVE  PoolOK'
  BY DEF PoolOK, Busy, workers

LEMMA TypeEnvironment == TypeOK /\ Environment => TypeOK'
<1> SUFFICES ASSUME TypeOK, Environment PROVE TypeOK'
  OBVIOUS
<1> USE DEF kernel, fdset, store, main, history
<1>1. ASSUME NEW c \in Conns, Connect(c) \/ Send(c) \/ HangUp(c) PROVE TypeOK'
  <2>1. KernelOK'
    BY <1>1 DEF Connect, Send, HangUp, TypeOK, KernelOK, Peer
  <2>2. PoolOK'
    BY <1>1, PoolSame DEF Connect, Send, HangUp, TypeOK
  <2> QED
    BY <1>1, <2>1, <2>2 DEF Connect, Send, HangUp, TypeOK, StoreOK, MainOK, HistoryOK
<1>2. ASSUME NEW a \in Addrs, BanExpires(a) PROVE TypeOK'
  <2>1. PoolOK'
    BY <1>2, PoolSame DEF BanExpires, TypeOK
  <2> QED
    BY <1>2, <2>1 DEF BanExpires, TypeOK, KernelOK, StoreOK, MainOK, HistoryOK
<1> QED
  BY <1>1, <1>2 DEF Environment

LEMMA TypeMain == TypeOK /\ MainStep => TypeOK'
<1> SUFFICES ASSUME TypeOK, MainStep PROVE TypeOK'
  OBVIOUS
<1> USE DEF kernel, fdset, store, history
<1>1. PoolOK'
  BY PoolSame DEF TypeOK, MainStep, Select, AcceptNothing, AcceptBanned, AcceptClient,
     AcceptWatch, AcceptInsert, ScanClear, ScanUnwatch, ScanPush, ScanCrash, main
<1>2. CASE Select
  BY <1>1, <1>2 DEF Select, TypeOK, KernelOK, StoreOK, MainOK, HistoryOK
<1>3. CASE AcceptNothing
  BY <1>1, <1>3 DEF AcceptNothing, AfterAccept, TypeOK, KernelOK, StoreOK, MainOK, HistoryOK
<1>4. ASSUME NEW c \in Conns, AcceptBanned(c) PROVE TypeOK'
  <2>1. KernelOK'
    BY <1>4 DEF AcceptBanned, TypeOK, KernelOK, Peer, Gone
  <2> QED
    BY <1>1, <1>4, <2>1 DEF AcceptBanned, AfterAccept, TypeOK, StoreOK, MainOK, HistoryOK
<1>5. ASSUME NEW c \in Conns, NEW f \in Fds, AcceptClient(c, f) PROVE TypeOK'
  <2>1. KernelOK'
    BY <1>5 DEF AcceptClient, TypeOK, KernelOK, Peer
  <2>2. MainOK'
    BY <1>5 DEF AcceptClient, TypeOK, MainOK, StoreOK, Client
  <2> QED
    BY <1>1, <1>5, <2>1, <2>2 DEF AcceptClient, Strike, TypeOK, StoreOK, HistoryOK
<1>6. CASE AcceptWatch
  <2>1. mcli.fd \in AllFds
    BY <1>6 DEF AcceptWatch, TypeOK, MainOK, AllFds, Client
  <2> QED
    BY <1>1, <1>6, <2>1 DEF AcceptWatch, Strike, FdSet, TypeOK, KernelOK, StoreOK, MainOK, HistoryOK
<1>7. CASE AcceptInsert
  <2>1. mcli \in Client /\ NewEntry(mcli) \in Entry
    BY <1>7 DEF AcceptInsert, TypeOK, MainOK, NewEntry, Client, Entry, greetings
  <2>2. DOMAIN table' \subseteq Fds /\ table' \in [DOMAIN table' -> Entry]
    BY <1>7, <2>1, InsertType DEF AcceptInsert, TypeOK, StoreOK, Client
  <2>3. maxfd' \in AllFds
    BY <1>7, <2>1 DEF AcceptInsert, NewMaxfd, TypeOK, StoreOK, Client, AllFds
  <2> QED
    BY <1>1, <1>7, <2>2, <2>3 DEF AcceptInsert, AfterAccept, TypeOK, KernelOK, StoreOK, MainOK,
       HistoryOK
<1>8. CASE ScanClear
  BY <1>1, <1>8 DEF ScanClear, TypeOK, KernelOK, StoreOK, MainOK, HistoryOK
<1>9. ASSUME NEW f \in AllFds, ScanUnwatch(f) PROVE TypeOK'
  BY <1>1, <1>9 DEF ScanUnwatch, Strike, FdClr, TypeOK, KernelOK, StoreOK, MainOK, HistoryOK
<1>10. ASSUME NEW f \in AllFds, ScanPush(f) PROVE TypeOK'
  <2>1. [fd |-> f, conn |-> table[f].conn, id |-> table[f].id] \in Client
    BY <1>10 DEF ScanPush, TypeOK, StoreOK, Entry, Client
  <2>2. queue' \in Seq(Client)
    BY <1>10, <2>1, AppendProperties DEF ScanPush, TypeOK, StoreOK
  <2> QED
    BY <1>1, <1>10, <2>2 DEF ScanPush, TypeOK, KernelOK, StoreOK, MainOK, HistoryOK
<1>11. ASSUME NEW f \in AllFds, ScanCrash(f) PROVE TypeOK'
  BY <1>1, <1>11 DEF ScanCrash, TypeOK, KernelOK, StoreOK, MainOK, HistoryOK, main
<1> QED
  BY <1>2, <1>3, <1>4, <1>5, <1>6, <1>7, <1>8, <1>9, <1>10, <1>11 DEF MainStep

LEMMA TypeWorker == ASSUME TypeOK, NEW w \in Workers, WorkerStep(w) PROVE TypeOK'
<1> USE DEF kernel, fdset, store, main, history
<1> DEFINE l == loc[w]
           t == Touch(table, l.cli)
<1>1. l \in Local /\ wpc[w] \in WorkerPC /\ (wpc[w] # "idle" => l.cli \in Client)
  BY DEF TypeOK, PoolOK, Busy
<1>2. wpc[w] # "idle" => /\ DOMAIN t \subseteq Fds /\ t \in [DOMAIN t -> Entry]
                         /\ l.cli.fd \in DOMAIN t
  BY <1>1, TouchType DEF TypeOK, StoreOK
<1>3. wpc[w] # "idle" => l.cli.fd \in Fds /\ l.cli.fd \in AllFds /\ l.cli.conn \in Conns
  BY <1>1 DEF Client, AllFds
<1>4. l.act \in Actions
  BY <1>1 DEF Local
<1>5. CASE Take(w)
  <2>1. Head(queue) \in Client /\ queue' \in Seq(Client)
    BY <1>5, HeadTailProperties DEF Take, TypeOK, StoreOK
  <2>2. PoolOK'
    <3>1. CASE UNCHANGED workers
      BY <1>5, <3>1, PoolSame DEF Take, TypeOK
    <3>2. CASE table[Head(queue).fd].act \in Actions /\ Goto(w, "read") /\
               loc' = [loc EXCEPT ![w].cli = Head(queue),
                                  ![w].act = table[Head(queue).fd].act]
      <4> DEFINE m == [l EXCEPT !.cli = Head(queue), !.act = table[Head(queue).fd].act]
      <4>1. m \in Local /\ m.cli \in Client
        BY <1>1, <2>1, <3>2, LocalType DEF Local
      <4>2. loc' = [loc EXCEPT ![w] = m]
        BY <3>2 DEF TypeOK, PoolOK
      <4>3. PoolOK /\ buf' = buf /\ wpc' = [wpc EXCEPT ![w] = "read"] /\ "read" \in WorkerPC
        BY <1>5, <3>2 DEF Take, Goto, TypeOK, WorkerPC
      <4> QED
        BY <4>1, <4>2, <4>3, PoolStep
    <3> QED
      BY <1>5, <3>1, <3>2 DEF Take
  <2> QED
    BY <1>5, <2>1, <2>2 DEF Take, TypeOK, KernelOK, StoreOK, MainOK, HistoryOK
<1>6. CASE ReadLine(w)
  <2>1. owner[l.cli.fd] \in Conns
    BY <1>3, <1>6 DEF ReadLine, TypeOK, KernelOK
  <2>2. KernelOK'
    BY <1>6, <2>1 DEF ReadLine, TypeOK, KernelOK, Peer
  <2>3. StoreOK'
    BY <1>4, <1>6, <2>1 DEF ReadLine, TypeOK, StoreOK
  <2>4. PoolOK'
    <3>1. loc' = [loc EXCEPT ![w] = l]
      BY <1>6 DEF ReadLine, TypeOK, PoolOK
    <3>2. wpc' = [wpc EXCEPT ![w] = "parse"] /\ "parse" \in WorkerPC /\ l.cli \in Client
      BY <1>1, <1>6 DEF ReadLine, Goto, WorkerPC
    <3>3. buf' = [buf EXCEPT ![l.act] = owner[l.cli.fd]] /\ buf \in [Actions -> Conns \cup {NoConn}]
      BY <1>6 DEF ReadLine, TypeOK, StoreOK
    <3>4. \A v \in Workers : buf[loc[v].act] # NoConn => buf'[loc[v].act] # NoConn
      BY <2>1, <3>3, <1>4, ConnAssumption DEF TypeOK, PoolOK, Local
    <3>5. buf'[l.act] # NoConn
      BY <2>1, <3>3, <1>4, ConnAssumption
    <3> QED
      BY <1>1, <3>1, <3>2, <3>4, <3>5, PoolStep DEF TypeOK
  <2> QED
    BY <1>6, <2>2, <2>3, <2>4 DEF ReadLine, TypeOK, MainOK, HistoryOK
<1>7. CASE ReadFails(w)
  <2> DEFINE m == [l EXCEPT !.res = disconnect]
  <2>1. m \in Local /\ m.cli = l.cli
    <3>1. disconnect \in Int
      BY DEF disconnect
    <3> QED
      BY <1>1, <3>1, LocalType DEF Local
  <2>2. loc' = [loc EXCEPT ![w] = m] /\ wpc' = [wpc EXCEPT ![w] = "dispatch"] /\ buf' = buf
    BY <1>7 DEF ReadFails, Goto
  <2>3. PoolOK'
    BY <1>1, <1>7, <2>1, <2>2, PoolStep DEF ReadFails, TypeOK, WorkerPC
  <2> QED
    BY <1>7, <2>3 DEF ReadFails, TypeOK, KernelOK, StoreOK, MainOK, HistoryOK
<1>8. CASE Parse(w)
  <2>1. buf[l.act] \in Conns
    BY <1>4, <1>8 DEF Parse, TypeOK, StoreOK, PoolOK
  <2>2. PICK r \in Int : loc' = [loc EXCEPT ![w].res = r]
    BY <1>4, <1>8, <2>1, ResultsType DEF Parse
  <2> DEFINE m == [l EXCEPT !.res = r]
  <2>3. m \in Local /\ m.cli = l.cli /\ m.act = l.act
    BY <1>1, LocalType DEF Local
  <2>4. loc' = [loc EXCEPT ![w] = m] /\ wpc' = [wpc EXCEPT ![w] = "dispatch"]
    BY <1>8, <2>2 DEF Parse, Goto
  <2>5. ASSUME NEW v \in Workers \ {w}, wpc[v] = "parse", buf[loc[v].act] # NoConn
        PROVE  buf'[loc[v].act] # NoConn
    BY <1>8, <2>5 DEF Parse, TypeOK, StoreOK
  <2>6. PoolOK'
    BY <1>1, <1>8, <2>3, <2>4, <2>5, PoolStep DEF Parse, TypeOK, WorkerPC
  <2>7. StoreOK'
    BY <1>8 DEF Parse, TypeOK, StoreOK
  <2> QED
    BY <1>8, <2>6, <2>7 DEF Parse, Strike, TypeOK, KernelOK, MainOK, HistoryOK
<1>9. ASSUME NEW c \in {"handler", "result", "ban"}, NEW pc \in WorkerPC, pc # "parse", Busy(w),
             DOMAIN table' \subseteq Fds, table' \in [DOMAIN table' -> Entry],
             prison' \subseteq Addrs, loc' = [loc EXCEPT ![w].call = c], Goto(w, pc),
             UNCHANGED <<kernel, fdset, queue, buf, main, history>>
      PROVE  TypeOK'
  <2> DEFINE m == [l EXCEPT !.call = c]
  <2>1. m \in Local /\ m.cli = l.cli
    BY <1>1, LocalType DEF Local
  <2>2. PoolOK'
    BY <1>1, <1>9, <2>1, PoolStep DEF Goto, TypeOK, Busy
  <2> QED
    BY <1>9, <2>2 DEF TypeOK, KernelOK, StoreOK, MainOK, HistoryOK
<1>10. CASE Dispatch(w)
  <2> DEFINE closes == Closes(t[l.cli.fd].act, l.res)
  <2>1. wpc[w] = "dispatch" /\ l.res \in Int
    BY <1>1, <1>10 DEF Dispatch, Local
  <2>2. Answered(t[l.cli.fd], l.res) \in Entry
    BY <1>2, <2>1, AnsweredType
  <2>3. DOMAIN table' \subseteq Fds /\ table' \in [DOMAIN table' -> Entry]
    BY <1>2, <1>10, <2>1, <2>2 DEF Dispatch
  <2>4. /\ Goto(w, IF closes THEN "close" ELSE "check")
        /\ loc' = [loc EXCEPT ![w].call = "handler"]
        /\ UNCHANGED <<kernel, fdset, queue, buf, prison, main, history>>
    BY <1>10 DEF Dispatch
  <2> HIDE DEF closes
  <2>5. (IF closes THEN "close" ELSE "check") \in WorkerPC \ {"parse"}
    BY DEF WorkerPC
  <2> QED
    BY <1>9, <2>1, <2>3, <2>4, <2>5 DEF Busy, TypeOK, StoreOK
<1>11. CASE Ban(w)
  <2>1. AddrOf[l.cli.conn] \in Addrs /\ wpc[w] = "check"
    BY <1>3, <1>11 DEF Ban, Addrs
  <2> QED
    BY <1>2, <1>9, <1>11, <2>1 DEF Ban, Busy, TypeOK, StoreOK, WorkerPC
<1>12. CASE Settle(w)
  <2>1. (IF l.res = disconnect THEN "close" ELSE "watch") \in WorkerPC \ {"parse"} /\ wpc[w] = "check"
    BY <1>12 DEF Settle, WorkerPC
  <2> QED
    BY <1>2, <1>9, <1>12, <2>1 DEF Settle, Busy, TypeOK, StoreOK
<1>13. CASE CloseFd(w)
  <2>1. KernelOK' /\ HistoryOK'
    BY <1>3, <1>13 DEF CloseFd, TypeOK, KernelOK, HistoryOK, Peer, Gone
  <2>2. loc' = [loc EXCEPT ![w] = l] /\ wpc' = [wpc EXCEPT ![w] = "erase"] /\ buf' = buf
    BY <1>13 DEF CloseFd, Goto, TypeOK, PoolOK
  <2>3. PoolOK'
    BY <1>1, <1>13, <2>2, PoolStep DEF CloseFd, TypeOK, WorkerPC
  <2> QED
    BY <1>13, <2>1, <2>3 DEF CloseFd, TypeOK, StoreOK, MainOK
<1>14. CASE EraseEntry(w)
  <2>1. StoreOK'
    BY <1>14 DEF EraseEntry, Erase, TypeOK, StoreOK
  <2>2. loc' = [loc EXCEPT ![w] = l] /\ wpc' = [wpc EXCEPT ![w] = "clear"] /\ buf' = buf
    BY <1>14 DEF EraseEntry, Goto, TypeOK, PoolOK
  <2>3. PoolOK'
    BY <1>1, <1>14, <2>2, PoolStep DEF EraseEntry, TypeOK, WorkerPC
  <2> QED
    BY <1>14, <2>1, <2>3 DEF EraseEntry, TypeOK, KernelOK, MainOK, HistoryOK
<1>15. CASE Fetch(w)
  <2> DEFINE m  == [l EXCEPT !.copy = master]
             pc == IF wpc[w] = "clear" THEN "cleared" ELSE "watched"
  <2>1. m \in Local /\ m.cli = l.cli /\ pc \in WorkerPC \ {"parse"}
    BY <1>1, LocalType DEF Local, TypeOK, StoreOK, WorkerPC
  <2>2. loc' = [loc EXCEPT ![w] = m] /\ wpc' = [wpc EXCEPT ![w] = pc] /\ buf' = buf
    BY <1>15 DEF Fetch, Goto
  <2> HIDE DEF pc
  <2>3. PoolOK'
    BY <1>1, <1>15, <2>1, <2>2, PoolStep DEF Fetch, TypeOK
  <2> QED
    BY <1>15, <2>3 DEF Fetch, TypeOK, KernelOK, StoreOK, MainOK, HistoryOK
<1>16. CASE Cleared(w)
  <2>1. StoreOK'
    BY <1>1, <1>16 DEF Cleared, FdClr, TypeOK, StoreOK, Local
  <2>2. PoolOK'
    <3>1. CASE Goto(w, "check") /\ loc' = [loc EXCEPT ![w].copy = {}]
      <4> DEFINE m == [l EXCEPT !.copy = {}]
      <4>1. m \in Local /\ m.cli = l.cli
        BY <1>1, LocalType DEF Local
      <4> QED
        BY <1>1, <1>16, <3>1, <4>1, PoolStep DEF Cleared, Goto, TypeOK, WorkerPC
    <3>2. CASE Goto(w, "idle") /\ loc' = [loc EXCEPT ![w] = Idle]
      BY <1>1, <1>16, <3>2, LocalType, PoolStep DEF Cleared, Goto, TypeOK, WorkerPC
    <3> QED
      BY <1>16, <3>1, <3>2 DEF Cleared
  <2> QED
    BY <1>16, <2>1, <2>2 DEF Cleared, Strike, TypeOK, KernelOK, MainOK, HistoryOK
<1>17. CASE Watched(w)
  <2>1. StoreOK'
    BY <1>1, <1>3, <1>17 DEF Watched, FdSet, TypeOK, StoreOK, Local
  <2>2. PoolOK'
    BY <1>1, <1>17, LocalType, PoolStep DEF Watched, Goto, TypeOK, WorkerPC
  <2> QED
    BY <1>17, <2>1, <2>2 DEF Watched, Strike, TypeOK, KernelOK, MainOK, HistoryOK
<1> QED
  BY <1>5, <1>6, <1>7, <1>8, <1>10, <1>11, <1>12, <1>13, <1>14, <1>15, <1>16, <1>17
     DEF WorkerStep

LEMMA TypeNext == TypeOK /\ [Next]_vars => TypeOK'
<1> SUFFICES ASSUME TypeOK, [Next]_vars PROVE TypeOK'
  OBVIOUS
<1>1. CASE UNCHANGED vars
  <2>1. PoolOK'
    BY <1>1, PoolSame DEF TypeOK, vars, store
  <2> QED
    BY <1>1, <2>1 DEF vars, TypeOK, KernelOK, StoreOK, MainOK, HistoryOK,
       kernel, fdset, store, main, history
<1> QED
  BY <1>1, TypeEnvironment, TypeMain, TypeWorker DEF Next

\* The shared structures and the threads' locals always have their types: a
\* worker between read and FD_SET holds a client, and handle_clients never
\* gets an entry for the listening socket.
THEOREM TypeCorrect == Spec => []TypeOK
<1> QED
  BY TypeInit, TypeNext, PTL DEF Spec
-----------------------------------------------------------------------------
(***************************************************************************)
(* maxfd.  The copies of master_fd that FD_SET and FD_CLR write back may be *)
(* old, and a lost update may bring a cleared bit back, but every bit was  *)
(* set by accept_clients, which raises maxfd before it returns to select,  *)
(* and maxfd never falls.                                                  *)
(***************************************************************************)
InRange(S) == \A f \in S : f <= maxfd \/ (mpc = "insert" /\ f = mcli.fd)

RangeInv == /\ InRange(master)
            /\ mpc \in {"watch", "unwatch"} => \A f \in mcopy : f <= maxfd
            /\ \A w \in Workers : InRange(loc[w].copy)
            /\ \A w \in Workers : Busy(w) => loc[w].cli.fd <= maxfd
            /\ \A i \in 1..Len(queue) : queue[i].fd <= maxfd
            /\ \A f \in DOMAIN table : f <= maxfd

LEMMA RangeInit == Init => RangeInv
<1> SUFFICES ASSUME Init PROVE RangeInv
  OBVIOUS
<1>1. InRange(master)
  BY FdAssumption DEF Init, InRange
<1>2. \A w \in Workers : loc[w].copy = {} /\ ~Busy(w)
  BY DEF Init, Idle, Busy
<1> QED
  BY <1>1, <1>2 DEF Init, RangeInv, InRange

\* maxfd after accept_clients covers the old range and the new descriptor.
LEMMA NewMaxfdBound ==
  ASSUME NEW m \in Int, NEW f \in Int
  PROVE  m <= NewMaxfd(m, f) /\ f <= NewMaxfd(m, f)
  BY DEF NewMaxfd

LEMMA FdsInt == AllFds \subseteq Int
  BY FdAssumption DEF AllFds

LEMMA RangeMain == TypeOK /\ RangeInv /\ MainStep => RangeInv'
<1> SUFFICES ASSUME TypeOK, RangeInv, MainStep PROVE RangeInv'
  OBVIOUS
<1> USE DEF kernel, fdset, store, workers, history
<1>1. CASE Select
  BY <1>1 DEF Select, RangeInv, InRange, Busy
<1>2. CASE AcceptNothing
  BY <1>2 DEF AcceptNothing, AfterAccept, RangeInv, InRange, Busy
<1>3. ASSUME NEW c \in Conns, AcceptBanned(c) PROVE RangeInv'
  BY <1>3 DEF AcceptBanned, AfterAccept, RangeInv, InRange, Busy
<1>4. ASSUME NEW c \in Conns, NEW f \in Fds, AcceptClient(c, f) PROVE RangeInv'
  BY <1>4 DEF AcceptClient, RangeInv, InRange, Busy
<1>5. CASE AcceptWatch
  BY <1>5 DEF AcceptWatch, FdSet, RangeInv, InRange, Busy
<1>6. CASE AcceptInsert
  <2>1. maxfd \in Int /\ mcli.fd \in Fds /\ AllFds \subseteq Int /\ Fds \subseteq Int
    BY <1>6, FdsInt DEF AcceptInsert, TypeOK, StoreOK, MainOK, Client, AllFds
  <2>2. maxfd <= maxfd' /\ mcli.fd <= maxfd' /\ maxfd' \in Int
    BY <1>6, <2>1, NewMaxfdBound DEF AcceptInsert, NewMaxfd
  <2>3. \A f \in AllFds : f <= maxfd => f <= maxfd'
    BY <2>1, <2>2
  <2>4. mpc' # "watch" /\ mpc' # "unwatch" /\ mpc' # "insert"
    BY <1>6 DEF AcceptInsert, AfterAccept
  <2>5. InRange(master)'
    BY <1>6, <2>2, <2>3 DEF AcceptInsert, TypeOK, StoreOK, RangeInv, InRange
  <2>6. \A w \in Workers : InRange(loc[w].copy)'
    BY <1>6, <2>2, <2>3 DEF AcceptInsert, TypeOK, PoolOK, Local, RangeInv, InRange
  <2>7. \A w \in Workers : Busy(w)' => loc'[w].cli.fd <= maxfd'
    BY <1>6, <2>3 DEF AcceptInsert, TypeOK, PoolOK, Client, AllFds, RangeInv, Busy
  <2>8. \A i \in 1..Len(queue') : queue'[i].fd <= maxfd'
    <3>1. queue' = queue /\ \A i \in 1..Len(queue) : queue[i] \in Client
      BY <1>6, ElementOfSeq DEF AcceptInsert, TypeOK, StoreOK
    <3> QED
      BY <2>3, <3>1 DEF Client, AllFds, RangeInv
  <2>9. \A f \in DOMAIN table' : f <= maxfd'
    BY <1>6, <2>2, <2>3 DEF AcceptInsert, Insert, TypeOK, StoreOK, AllFds, RangeInv
  <2> QED
    BY <2>4, <2>5, <2>6, <2>7, <2>8, <2>9 DEF RangeInv
<1>7. CASE ScanClear
  BY <1>7 DEF ScanClear, RangeInv, InRange, Busy
<1>8. ASSUME NEW f \in AllFds, ScanUnwatch(f) PROVE RangeInv'
  BY <1>8 DEF ScanUnwatch, FdClr, RangeInv, InRange, Busy
<1>9. ASSUME NEW f \in AllFds, ScanPush(f) PROVE RangeInv'
  <2>1. \A i \in 1..Len(queue') : queue'[i].fd <= maxfd
    BY <1>9, AppendProperties DEF ScanPush, TypeOK, StoreOK, RangeInv
  <2> QED
    BY <1>9, <2>1 DEF ScanPush, RangeInv, InRange, Busy
<1>10. ASSUME NEW f \in AllFds, ScanCrash(f) PROVE RangeInv'
  BY <1>10 DEF ScanCrash, main, RangeInv, InRange, Busy
<1> QED
  BY <1>1, <1>2, <1>3, <1>4, <1>5, <1>6, <1>7, <1>8, <1>9, <1>10 DEF MainStep

LEMMA RangeWorker == ASSUME TypeOK, RangeInv, NEW w \in Workers, WorkerStep(w) PROVE RangeInv'
<1> USE DEF kernel, fdset, store, main, history
<1>1. loc \in [Workers -> Local] /\ wpc \in [Workers -> WorkerPC]
  BY DEF TypeOK, PoolOK
<1>2. Idle.copy = {} /\ \A v \in Workers : wpc[v] # "idle" => loc[v].cli.fd <= maxfd
  BY DEF Idle, RangeInv, Busy
<1>3. CASE Take(w)
  <2>1. queue \in Seq(Client) /\ queue # <<>>
    BY <1>3 DEF Take, TypeOK, StoreOK
  <2>2. Head(queue).fd <= maxfd /\ \A i \in 1..Len(queue') : queue'[i].fd <= maxfd
    BY <1>3, <2>1, HeadTailProperties DEF Take, RangeInv
  <2>3. \A v \in Workers : /\ Busy(v)' => loc'[v].cli.fd <= maxfd
                           /\ loc'[v].copy = loc[v].copy
    BY <1>1, <1>3, <2>2 DEF Take, Goto, workers, RangeInv, Busy, Local
  <2> QED
    BY <1>3, <2>2, <2>3 DEF Take, RangeInv, InRange
<1>4. ASSUME Busy(w), DOMAIN table' \subseteq DOMAIN table \cup {loc[w].cli.fd},
             \A v \in Workers : /\ loc'[v].cli = loc[v].cli /\ loc'[v].copy = loc[v].copy
                                /\ Busy(v)' => Busy(v),
             UNCHANGED <<fdset, queue, main>>
      PROVE  RangeInv'
  BY <1>4 DEF RangeInv, InRange
<1>5. CASE ReadLine(w)
  BY <1>1, <1>4, <1>5 DEF ReadLine, Goto, Busy
<1>6. CASE ReadFails(w)
  BY <1>1, <1>4, <1>6 DEF ReadFails, Goto, Busy, Local
<1>7. CASE Parse(w)
  BY <1>1, <1>4, <1>7 DEF Parse, Goto, Busy, Local
<1>8. CASE Dispatch(w) \/ Ban(w) \/ Settle(w)
  <2>1. DOMAIN table' \subseteq DOMAIN table \cup {loc[w].cli.fd}
    BY <1>8 DEF Dispatch, Ban, Settle, Touch, Insert
  <2> QED
    BY <1>1, <1>4, <1>8, <2>1 DEF Dispatch, Ban, Settle, Goto, Busy, Local
<1>9. CASE CloseFd(w)
  BY <1>1, <1>4, <1>9 DEF CloseFd, Goto, Busy
<1>10. CASE EraseEntry(w)
  BY <1>1, <1>4, <1>10 DEF EraseEntry, Erase, Goto, Busy
<1>11. CASE Fetch(w)
  <2>1. \A v \in Workers : /\ loc'[v].cli = loc[v].cli /\ (wpc'[v] # "idle" => wpc[v] # "idle")
                           /\ loc'[v].copy = loc[v].copy \/ loc'[v].copy = master
    BY <1>1, <1>11 DEF Fetch, Goto, Busy, Local
  <2>2. /\ mpc' = mpc /\ mcli' = mcli /\ mcopy' = mcopy /\ maxfd' = maxfd
        /\ master' = master /\ queue' = queue /\ table' = table
    BY <1>11 DEF Fetch
  <2>3. \A v \in Workers : InRange(loc[v].copy)'
    BY <2>1, <2>2 DEF RangeInv, InRange
  <2>4. ASSUME NEW v \in Workers, wpc'[v] # "idle" PROVE loc'[v].cli.fd <= maxfd'
    <3>1. loc'[v].cli = loc[v].cli /\ loc[v].cli.fd <= maxfd
      BY <1>2, <2>1, <2>4 DEF Busy
    <3> QED
      BY <2>2, <3>1
  <2>5. InRange(master)' /\ (mpc \in {"watch", "unwatch"} => \A f \in mcopy : f <= maxfd)'
    BY <2>2 DEF RangeInv, InRange
  <2> QED
    BY <2>2, <2>3, <2>4, <2>5 DEF RangeInv, Busy
<1>12. CASE Cleared(w) \/ Watched(w)
  <2>1. /\ loc[w].cli.fd <= maxfd
        /\ master' \subseteq loc[w].copy \cup {loc[w].cli.fd}
    BY <1>12 DEF Cleared, Watched, FdClr, FdSet, RangeInv, Busy
  <2>2. \A v \in Workers : /\ wpc'[v] # "idle" => wpc[v] # "idle" /\ loc'[v].cli = loc[v].cli
                           /\ loc'[v].copy = loc[v].copy \/ loc'[v].copy = {}
    BY <1>1, <1>2, <1>12 DEF Cleared, Watched, Goto, Busy, Local
  <2>3. /\ mpc' = mpc /\ mcli' = mcli /\ mcopy' = mcopy /\ maxfd' = maxfd
        /\ queue' = queue /\ table' = table
    BY <1>12 DEF Cleared, Watched
  <2>4. InRange(master)'
    BY <2>1, <2>3 DEF RangeInv, InRange
  <2>5. \A v \in Workers : InRange(loc[v].copy)'
    BY <2>2, <2>3 DEF RangeInv, InRange
  <2>6. ASSUME NEW v \in Workers, wpc'[v] # "idle" PROVE loc'[v].cli.fd <= maxfd'
    <3>1. loc'[v].cli = loc[v].cli /\ loc[v].cli.fd <= maxfd
      BY <1>2, <2>2, <2>6 DEF Busy
    <3> QED
      BY <2>3, <3>1
  <2> QED
    BY <2>3, <2>4, <2>5, <2>6 DEF RangeInv, Busy
<1> QED
  BY <1>3, <1>5, <1>6, <1>7, <1>8, <1>9, <1>10, <1>11, <1>12 DEF WorkerStep

LEMMA RangeNext == TypeOK /\ RangeInv /\ [Next]_vars => RangeInv'
<1> SUFFICES ASSUME TypeOK, RangeInv, [Next]_vars PROVE RangeInv'
  OBVIOUS
<1>1. CASE UNCHANGED vars
  BY <1>1 DEF vars, fdset, store, main, workers, RangeInv, InRange, Busy
<1>2. CASE Environment
  BY <1>2 DEF Environment, Connect, Send, HangUp, BanExpires, fdset, store, main, workers,
     RangeInv, InRange, Busy
<1> QED
  BY <1>1, <1>2, RangeMain, RangeWorker DEF Next

\* No descriptor in master_fd is ever beyond the range select examines, even
\* when updates of master_fd are lost.
THEOREM RangeCorrect == Spec => []WatchedInRange
<1>1. RangeInv => WatchedInRange
  BY DEF RangeInv, InRange, WatchedInRange
<1> QED
  BY <1>1, TypeInit, TypeNext, RangeInit, RangeNext, PTL DEF Spec
=============================================================================
