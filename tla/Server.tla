------------------------------- MODULE Server -------------------------------
(***************************************************************************)
(* new_TCP_server: one main thread that runs select() over master_fd,      *)
(* accepts clients and queues the readable ones, and a pool of worker      *)
(* threads that take a client from the queue, run the handler of the       *)
(* client's current action, and either put the descriptor back into        *)
(* master_fd or close the connection.                                      *)
(*                                                                         *)
(* Only the queue is protected by a mutex.  handle_clients, master_fd, the *)
(* descriptor numbers and the line buffer inside each handler object are   *)
(* shared by the main thread and all workers without one, and the model    *)
(* keeps them so:                                                          *)
(*   - FD_SET and FD_CLR read a word of master_fd and write it back, in    *)
(*     two steps;                                                          *)
(*   - close_connect closes, erases and clears in separate steps, and a    *)
(*     closed descriptor can be given to the next accept;                  *)
(*   - reading a line into a handler's buffer and parsing the buffer are   *)
(*     two steps.                                                          *)
(* A single call of handle_clients (find, insert, erase, operator[]) is    *)
(* one atomic step: corruption inside the hash table is not modelled.      *)
(*                                                                         *)
(* The history variable struck records which of these hazards have struck: *)
(* "raced", "recycled", "mixed".  The invariants say what holds for every  *)
(* client for as long as none has.                                         *)
(***************************************************************************)
EXTENDS Protocol, Sequences, FiniteSets

CONSTANTS
  Conns,        \* connections clients make, each used once
  NoConn,       \* no connection
  Workers,      \* the threads of the pool
  Fds,          \* descriptors accept can return
  ServerFd,     \* the listening socket
  MaxClients,   \* MAX_CLIENTS_NOW
  ClientTries,  \* CLIENT_TRIES
  Offered,      \* the operations clients ask for, a part of Operations
  AddrOf,       \* the peer address of a connection
  AccountOf     \* the account whose credentials a connection's user knows

ASSUME ConnAssumption   == NoConn \notin Conns
ASSUME FdAssumption     == /\ Fds \subseteq Nat
                           /\ ServerFd \in Nat
                           /\ \A f \in Fds : ServerFd < f
ASSUME LimitAssumption  == MaxClients \in Nat /\ ClientTries \in Nat \ {0}
ASSUME ClientAssumption == /\ Offered \subseteq Operations
                           /\ AccountOf \in [Conns -> Nat \ {0}]

VARIABLES
  \* the kernel and the clients
  peer,      \* per connection: [at, data, eof], see Peer
  owner,     \* per descriptor: the open connection it stands for, or NoConn
  \* shared by the threads
  master,    \* master_fd
  maxfd,
  table,     \* handle_clients: descriptor -> [act, tries, id, conn]
  queue,     \* clients, the ready queue
  buf,       \* per handler: the connection whose line its buffer holds
  prison,    \* Blocker::prisons, the addresses whose ban has not expired
  \* the main thread
  mpc,
  ready,     \* the bits of readset still to be looked at
  mcli,      \* sockfd and cliaddr in accept_clients
  mcopy,     \* word of master_fd read by FD_SET or FD_CLR
  \* the workers
  wpc,
  loc,       \* locals: [cli, act, res, call, copy], see Local
  \* outcome and history
  crashed,   \* the process has dereferenced the end of a map
  struck     \* the hazards that have struck

kernel  == <<peer, owner>>
fdset   == <<master, maxfd>>
store   == <<table, queue, buf, prison>>
main    == <<mpc, ready, mcli, mcopy>>
workers == <<wpc, loc>>
history == <<crashed, struck>>
vars    == <<kernel, fdset, store, main, workers, history>>

AllFds   == Fds \cup {ServerFd}
Addrs    == {AddrOf[c] : c \in Conns}
Gone     == [at |-> "closed", data |-> FALSE, eof |-> FALSE]
NoClient == [fd |-> ServerFd, conn |-> NoConn, id |-> -1]
\* A worker between two clients: cli, act and res are dead values.
Idle     == [cli |-> NoClient, act |-> greetings, res |-> NOONE,
             call |-> "handler", copy |-> {}]
-----------------------------------------------------------------------------
\* The containers.

\* Wrong variants: the call is missing.
FdKeep(s, f)       == s
InsertNone(t, f, e) == t
EraseNone(t, f)     == t

FdSet(s, f) == s \cup {f}
FdClr(s, f) == s \ {f}

\* insert: an existing key keeps its value.
Insert(t, f, e) == IF f \in DOMAIN t THEN t
                   ELSE [g \in DOMAIN t \cup {f} |-> IF g = f THEN e ELSE t[g]]
Erase(t, f)     == [g \in DOMAIN t \ {f} |-> t[g]]

\* handle_clients[client]: a missing key is inserted, with a copy of client.
NewEntry(k) == [act |-> greetings, tries |-> 0, id |-> k.id, conn |-> k.conn]
Touch(t, k) == Insert(t, k.fd, NewEntry(k))

\* What select reports as readable.
Readable(f) ==
  IF f = ServerFd THEN \E c \in Conns : peer[c].at = "pending"
  ELSE owner[f] # NoConn /\ (peer[owner[f]].data \/ peer[owner[f]].eof)

\* What accept can return.  The kernel takes the lowest number that is free in
\* the whole process; log files and database connections use some as well and
\* come and go, so that any number no client has can be the lowest.
Free           == {f \in Fds : owner[f] = NoConn}
IsLowest(f, S) == f \in S /\ \A g \in S : f <= g

Busy(w) == wpc[w] # "idle"
Queued  == {queue[i].fd : i \in 1..Len(queue)}

Strike(happened, what) ==
  struck' = IF happened THEN struck \cup {what} ELSE struck

\* Where a thread is, while the process runs: a crash stops all of them.
MainAt(pc) == ~crashed /\ mpc = pc
At(w, pc)  == ~crashed /\ wpc[w] = pc
-----------------------------------------------------------------------------
Init ==
  /\ peer = [c \in Conns |-> [at |-> "new", data |-> FALSE, eof |-> FALSE]]
  /\ owner = [f \in Fds |-> NoConn]
  /\ master = {ServerFd} /\ maxfd = ServerFd
  /\ table = [f \in {} |-> NewEntry(NoClient)]
  /\ queue = <<>>
  /\ buf = [a \in Actions |-> NoConn]
  /\ prison = {}
  /\ mpc = "select" /\ ready = {} /\ mcli = NoClient /\ mcopy = {}
  /\ wpc = [w \in Workers |-> "idle"] /\ loc = [w \in Workers |-> Idle]
  /\ crashed = FALSE /\ struck = {}
-----------------------------------------------------------------------------
\* The clients and the clock: none of these steps is the server's to refuse.

Connect(c) ==
  /\ peer[c].at = "new"
  /\ peer' = [peer EXCEPT ![c].at = "pending"]
  /\ UNCHANGED <<owner, fdset, store, main, workers, history>>

Send(c) ==
  /\ peer[c].at \in {"pending", "open"} /\ ~peer[c].eof /\ ~peer[c].data
  /\ peer' = [peer EXCEPT ![c].data = TRUE]
  /\ UNCHANGED <<owner, fdset, store, main, workers, history>>

HangUp(c) ==
  /\ peer[c].at \in {"pending", "open"} /\ ~peer[c].eof
  /\ peer' = [peer EXCEPT ![c].eof = TRUE]
  /\ UNCHANGED <<owner, fdset, store, main, workers, history>>

\* TIME_BLOCK minutes after the ban, has_prison stops reporting the address.
BanExpires(a) ==
  /\ a \in prison
  /\ prison' = prison \ {a}
  /\ UNCHANGED <<kernel, fdset, table, queue, buf, main, workers, history>>

Environment == \/ \E c \in Conns : Connect(c) \/ Send(c) \/ HangUp(c)
               \/ \E a \in Addrs : BanExpires(a)
-----------------------------------------------------------------------------
(***************************************************************************)
(* The main thread: start and accept_clients.                              *)
(*                                                                         *)
(* select examines the descriptors of its copy of master_fd up to maxfd.   *)
(* It fails with EBADF when one of them is closed, and the loop then just  *)
(* runs again; so does a timeout.  Only a successful call is a step.       *)
(***************************************************************************)
\* Wrong variant: the scan looks at master_fd instead of readset.
SelectAll ==
  LET polled == {f \in master : f <= maxfd}
  IN /\ MainAt("select")
     /\ \A f \in polled \ {ServerFd} : owner[f] # NoConn
     /\ \E f \in polled : Readable(f)
     /\ ready' = IF Readable(ServerFd) THEN polled ELSE polled \ {ServerFd}
     /\ mpc' = IF Readable(ServerFd) THEN "accept" ELSE "scan"
     /\ UNCHANGED <<kernel, fdset, store, mcli, mcopy, workers, history>>

Select ==
  LET polled == {f \in master : f <= maxfd}
      live   == {f \in polled : Readable(f)}
  IN /\ MainAt("select")
     /\ \A f \in polled \ {ServerFd} : owner[f] # NoConn
     /\ live # {}
     /\ ready' = live
     /\ mpc' = IF ServerFd \in live THEN "accept" ELSE "scan"
     /\ UNCHANGED <<kernel, fdset, store, mcli, mcopy, workers, history>>

\* Wrong variant: continue after every accept.
AlwaysContinue == mpc' = "select" /\ ready' = {}

\* if(--n <= 0) continue; the bit of the listening socket stays in readset.
AfterAccept ==
  IF ready = {ServerFd} THEN mpc' = "select" /\ ready' = {}
                        ELSE mpc' = "scan" /\ UNCHANGED ready

IsFull == Cardinality(DOMAIN table) = MaxClients

\* The limit is reached, or accept itself fails (no descriptor, no memory,
\* a firewall rule): the client stays in the backlog.
AcceptNothing ==
  /\ MainAt("accept")
  /\ AfterAccept
  /\ UNCHANGED <<kernel, fdset, store, mcli, mcopy, workers, history>>

\* has_prison: the client is told and its socket closed at once.
AcceptBanned(c) ==
  /\ MainAt("accept") /\ ~IsFull
  /\ peer[c].at = "pending" /\ Free # {} /\ AddrOf[c] \in prison
  /\ peer' = [peer EXCEPT ![c] = Gone]
  /\ AfterAccept
  /\ UNCHANGED <<owner, fdset, store, mcli, mcopy, workers, history>>

\* accept, the "100001" note, and the read half of FD_SET.
AcceptClient(c, f) ==
  /\ MainAt("accept") /\ ~IsFull
  /\ peer[c].at = "pending" /\ f \in Free /\ AddrOf[c] \notin prison
  /\ peer' = [peer EXCEPT ![c].at = "open"]
  /\ owner' = [owner EXCEPT ![f] = c]
  /\ mcli' = [fd |-> f, conn |-> c, id |-> -1]
  /\ mcopy' = master /\ mpc' = "watch"
  /\ Strike(f \in Queued \/ \E w \in Workers : Busy(w) /\ loc[w].cli.fd = f, "recycled")
  /\ UNCHANGED <<fdset, store, ready, workers, crashed>>

\* The write half of FD_SET.
AcceptWatch ==
  /\ MainAt("watch")
  /\ master' = FdSet(mcopy, mcli.fd)
  /\ Strike(master' # FdSet(master, mcli.fd), "raced")
  /\ mcopy' = {} /\ mpc' = "insert"
  /\ UNCHANGED <<kernel, maxfd, store, ready, mcli, workers, crashed>>

\* Wrong variants: the number of descriptors for the highest one, and the
\* comparison the wrong way round.
NfdsForMaxfd(old, f) == (IF old > f THEN old ELSE f) + 1
LowestForMaxfd(old, f) == IF old < f THEN old ELSE f

NewMaxfd(old, f) == IF old > f THEN old ELSE f

\* maxfd and handle_clients; then the greeting is written.
AcceptInsert ==
  /\ MainAt("insert")
  /\ maxfd' = NewMaxfd(maxfd, mcli.fd)
  /\ table' = Insert(table, mcli.fd, NewEntry(mcli))
  /\ mcli' = NoClient
  /\ AfterAccept
  /\ UNCHANGED <<kernel, master, queue, buf, prison, mcopy, workers, history>>

\* The scan over readset, lowest descriptor first: FD_CLR in two steps ...
ScanClear ==
  /\ MainAt("scan")
  /\ mcopy' = master /\ mpc' = "unwatch"
  /\ UNCHANGED <<kernel, fdset, store, ready, mcli, workers, history>>

ScanUnwatch(f) ==
  /\ MainAt("unwatch") /\ IsLowest(f, ready)
  /\ master' = FdClr(mcopy, f)
  /\ Strike(master' # FdClr(master, f), "raced")
  /\ mcopy' = {} /\ mpc' = "push"
  /\ UNCHANGED <<kernel, maxfd, store, ready, mcli, workers, crashed>>

\* ... then find(i)->first is copied to the queue under mtx, and a worker
\* notified.  f need not be a key: the listening socket never is.
ScanPush(f) ==
  /\ MainAt("push") /\ IsLowest(f, ready) /\ f \in DOMAIN table
  /\ queue' = Append(queue, [fd |-> f, conn |-> table[f].conn, id |-> table[f].id])
  /\ ready' = ready \ {f}
  /\ mpc' = IF ready' = {} THEN "select" ELSE "scan"
  /\ UNCHANGED <<kernel, fdset, table, buf, prison, mcli, mcopy, workers, history>>

ScanCrash(f) ==
  /\ MainAt("push") /\ IsLowest(f, ready) /\ f \notin DOMAIN table
  /\ crashed' = TRUE
  /\ UNCHANGED <<kernel, fdset, store, main, workers, struck>>

MainStep ==
  \/ Select \/ AcceptNothing \/ AcceptWatch \/ AcceptInsert \/ ScanClear
  \/ \E c \in Conns : AcceptBanned(c) \/ \E f \in Fds : AcceptClient(c, f)
  \/ \E f \in AllFds : ScanUnwatch(f) \/ ScanPush(f) \/ ScanCrash(f)
-----------------------------------------------------------------------------
(***************************************************************************)
(* A worker: workThread, the handler it calls, handle_<action> and         *)
(* close_connect.                                                          *)
(***************************************************************************)
Goto(w, pc) == wpc' = [wpc EXCEPT ![w] = pc]

\* Take the head of the queue and look its action up; without an entry, or
\* with an action that has no handler, find returns the end of a map.
Take(w) ==
  /\ At(w, "idle") /\ queue # <<>>
  /\ queue' = Tail(queue)
  /\ LET k == Head(queue) IN
     IF k.fd \in DOMAIN table /\ table[k.fd].act \in Actions
     THEN /\ loc' = [loc EXCEPT ![w].cli = k, ![w].act = table[k.fd].act]
          /\ Goto(w, "read")
          /\ UNCHANGED crashed
     ELSE crashed' = TRUE /\ UNCHANGED workers
  /\ UNCHANGED <<kernel, fdset, table, buf, prison, main, struck>>

\* read_fd: one read takes everything the socket holds into the buffer of
\* the handler; with nothing to read and no end of file it blocks.  The length
\* n is a member too and ends the line in the buffer after the read: that is
\* the same step here, and a line that another worker's n cuts short is not
\* modelled.
ReadLine(w) ==
  LET c == owner[loc[w].cli.fd] IN
  /\ At(w, "read") /\ c # NoConn /\ peer[c].data
  /\ peer' = [peer EXCEPT ![c].data = FALSE]
  /\ buf' = [buf EXCEPT ![loc[w].act] = c]
  /\ Goto(w, "parse")
  /\ UNCHANGED <<owner, fdset, table, queue, prison, main, loc, history>>

\* read_fd: end of file, or a descriptor that is closed.
ReadFails(w) ==
  LET c == owner[loc[w].cli.fd] IN
  /\ At(w, "read") /\ (c # NoConn => ~peer[c].data /\ peer[c].eof)
  /\ loc' = [loc EXCEPT ![w].res = disconnect]
  /\ Goto(w, "dispatch")
  /\ UNCHANGED <<kernel, fdset, store, main, history>>

\* The rest of handle(): the line in the buffer decides, whoever sent it.
\* What the last user leaves in a buffer is never read, so it is dropped.
Parse(w) ==
  LET a == loc[w].act
      c == buf[a]
  IN /\ At(w, "parse")
     /\ \E r \in Results(a, AccountOf[c], Offered) : loc' = [loc EXCEPT ![w].res = r]
     /\ buf' = IF \E v \in Workers \ {w} : wpc[v] = "parse" /\ loc[v].act = a
               THEN buf ELSE [buf EXCEPT ![a] = NoConn]
     /\ Strike(c # loc[w].cli.conn, "mixed")
     /\ Goto(w, "dispatch")
     /\ UNCHANGED <<kernel, fdset, table, queue, prison, main, crashed>>

\* Wrong variant: the user id is not stored.
AnsweredAnonymously(e, r) ==
  [e EXCEPT !.act   = NextAction(e.act, r),
            !.tries = IF FailedTry(e.act, r) THEN @ + 1 ELSE @]

\* switch(handle_clients[client].first) and handle_<action>.
Answered(e, r) ==
  [e EXCEPT !.act   = NextAction(e.act, r),
            !.tries = IF FailedTry(e.act, r) THEN @ + 1 ELSE @,
            !.id    = IF LogsIn(e.act, r) THEN r ELSE @]

Dispatch(w) ==
  LET k == loc[w].cli
      r == loc[w].res
      t == Touch(table, k)
      e == t[k.fd]
  IN /\ At(w, "dispatch")
     /\ table' = IF Closes(e.act, r) THEN t ELSE [t EXCEPT ![k.fd] = Answered(e, r)]
     /\ Goto(w, IF Closes(e.act, r) THEN "close" ELSE "check")
     /\ loc' = [loc EXCEPT ![w].call = "handler"]
     /\ UNCHANGED <<kernel, fdset, queue, buf, prison, main, history>>

\* Wrong variant: no close_connect, no continue.
BanOnly(w) ==
  LET t == Touch(table, loc[w].cli) IN
  /\ At(w, "check") /\ t[loc[w].cli.fd].tries = ClientTries
  /\ table' = t
  /\ prison' = prison \cup {AddrOf[loc[w].cli.conn]}
  /\ loc' = [loc EXCEPT ![w].call = "result"]
  /\ Goto(w, "watch")
  /\ UNCHANGED <<kernel, fdset, queue, buf, main, history>>

\* if(handle_clients[client].second == CLIENT_TRIES): ban the address.
Ban(w) ==
  LET t == Touch(table, loc[w].cli) IN
  /\ At(w, "check") /\ t[loc[w].cli.fd].tries = ClientTries
  /\ table' = t
  /\ prison' = prison \cup {AddrOf[loc[w].cli.conn]}
  /\ loc' = [loc EXCEPT ![w].call = "ban"]
  /\ Goto(w, "close")
  /\ UNCHANGED <<kernel, fdset, queue, buf, main, history>>

\* Otherwise the result decides between FD_SET and close_connect.
Settle(w) ==
  LET t == Touch(table, loc[w].cli) IN
  /\ At(w, "check") /\ t[loc[w].cli.fd].tries # ClientTries
  /\ table' = t
  /\ Goto(w, IF loc[w].res = disconnect THEN "close" ELSE "watch")
  /\ loc' = [loc EXCEPT ![w].call = "result"]
  /\ UNCHANGED <<kernel, fdset, queue, buf, prison, main, history>>

\* close_connect: close(sockfd) ...
CloseFd(w) ==
  LET k == loc[w].cli
      c == owner[k.fd]
  IN /\ At(w, "close")
     /\ owner' = [owner EXCEPT ![k.fd] = NoConn]
     /\ peer' = IF c = NoConn THEN peer ELSE [peer EXCEPT ![c] = Gone]
     /\ Goto(w, "erase")
     /\ UNCHANGED <<fdset, store, main, loc, history>>

\* ... handle_clients.erase ...
EraseEntry(w) ==
  /\ At(w, "erase")
  /\ table' = Erase(table, loc[w].cli.fd)
  /\ Goto(w, "clear")
  /\ UNCHANGED <<kernel, fdset, queue, buf, prison, main, loc, history>>

\* ... and the read half of FD_CLR; also that of the worker's FD_SET.
Fetch(w) ==
  /\ At(w, "clear") \/ At(w, "watch")
  /\ loc' = [loc EXCEPT ![w].copy = master]
  /\ Goto(w, IF wpc[w] = "clear" THEN "cleared" ELSE "watched")
  /\ UNCHANGED <<kernel, fdset, store, main, history>>

\* The write half of FD_CLR.  close_connect called by handle_<action> returns
\* into workThread, which goes on to the tries and the result; the other two
\* calls end the iteration.
Cleared(w) ==
  LET f == loc[w].cli.fd IN
  /\ At(w, "cleared")
  /\ master' = FdClr(loc[w].copy, f)
  /\ Strike(master' # FdClr(master, f), "raced")
  /\ IF loc[w].call = "handler"
     THEN Goto(w, "check") /\ loc' = [loc EXCEPT ![w].copy = {}]
     ELSE Goto(w, "idle") /\ loc' = [loc EXCEPT ![w] = Idle]
  /\ UNCHANGED <<kernel, maxfd, store, main, crashed>>

\* The write half of FD_SET: the client can be served again.
Watched(w) ==
  LET f == loc[w].cli.fd IN
  /\ At(w, "watched")
  /\ master' = FdSet(loc[w].copy, f)
  /\ Strike(master' # FdSet(master, f), "raced")
  /\ Goto(w, "idle") /\ loc' = [loc EXCEPT ![w] = Idle]
  /\ UNCHANGED <<kernel, maxfd, store, main, crashed>>

WorkerStep(w) ==
  \/ Take(w) \/ ReadLine(w) \/ ReadFails(w) \/ Parse(w) \/ Dispatch(w)
  \/ Ban(w) \/ Settle(w) \/ CloseFd(w) \/ EraseEntry(w)
  \/ Fetch(w) \/ Cleared(w) \/ Watched(w)

Next == Environment \/ MainStep \/ \E w \in Workers : WorkerStep(w)

Spec == Init /\ [][Next]_vars

(***************************************************************************)
(* The operating system runs every thread that can run; clients owe        *)
(* nothing.                                                                *)
(***************************************************************************)
Fairness == WF_vars(MainStep) /\ \A w \in Workers : WF_vars(WorkerStep(w))

FairSpec == Spec /\ Fairness

(***************************************************************************)
(* The behaviours of FairSpec in which no update of master_fd is lost and  *)
(* no descriptor reused under a thread, for the properties that hold of    *)
(* these only: the ones conditional on Steady.                             *)
(***************************************************************************)
Steady == struck \cap {"raced", "recycled"} = {}

SteadySpec == Init /\ [][Next /\ Steady']_vars /\ Fairness
-----------------------------------------------------------------------------
(***************************************************************************)
(* Properties.                                                             *)
(***************************************************************************)
Peer   == [at : {"new", "pending", "open", "closed"}, data : BOOLEAN, eof : BOOLEAN]
Client == [fd : Fds, conn : Conns, id : Int]
Entry  == [act : Int, tries : Nat, id : Int, conn : Conns]
Local  == [cli : Client \cup {NoClient}, act : Actions, res : Int,
           call : {"handler", "result", "ban"}, copy : SUBSET AllFds]

KernelOK  == peer \in [Conns -> Peer] /\ owner \in [Fds -> Conns \cup {NoConn}]
StoreOK   == /\ master \subseteq AllFds /\ maxfd \in AllFds
             /\ DOMAIN table \subseteq Fds /\ table \in [DOMAIN table -> Entry]
             /\ queue \in Seq(Client)
             /\ buf \in [Actions -> Conns \cup {NoConn}]
             /\ prison \subseteq Addrs
MainOK    == /\ mpc \in {"select", "accept", "watch", "insert", "scan", "unwatch", "push"}
             /\ ready \subseteq AllFds /\ mcopy \subseteq AllFds
             /\ mcli \in Client \cup {NoClient}
             /\ mpc \in {"watch", "insert"} => mcli \in Client
WorkerPC  == {"idle", "read", "parse", "dispatch", "check", "close", "erase",
              "clear", "cleared", "watch", "watched"}
PoolOK    == /\ wpc \in [Workers -> WorkerPC] /\ loc \in [Workers -> Local]
             /\ \A w \in Workers : /\ Busy(w) => loc[w].cli \in Client
                                   /\ wpc[w] = "parse" => buf[loc[w].act] # NoConn
HistoryOK == /\ crashed \in BOOLEAN
             /\ struck \subseteq {"raced", "recycled", "mixed"}

\* Every variable has its type; in particular a worker between "read" and
\* "watched" holds a client, never the empty value, a buffer to parse holds a
\* line, and the map has no entry for the listening socket.
TypeOK == KernelOK /\ StoreOK /\ MainOK /\ PoolOK /\ HistoryOK

(***************************************************************************)
(* While Steady, a connection is in one place: watched, listed by the      *)
(* scan, queued, or held by one worker.                                    *)
(***************************************************************************)
Scanned == IF mpc \in {"scan", "unwatch", "push"} THEN ready ELSE {}

\* One worker at a time: two workers never serve the same descriptor, a
\* served one is neither queued nor watched, and the queue has no duplicates.
\* This is what lets workThread use handle_clients without a lock.
SoleHandler ==
  Steady =>
    /\ \A w \in Workers : Busy(w) => loc[w].cli.fd \notin Queued \cup master
    /\ \A w, v \in Workers : Busy(w) /\ Busy(v) /\ w # v => loc[w].cli.fd # loc[v].cli.fd
    /\ \A i, j \in 1..Len(queue) : i # j => queue[i].fd # queue[j].fd
    /\ Queued \cap master = {}

\* No client is forgotten: every connection accepted and not closed is
\* watched, being accepted or scanned by the main thread, queued, or served.
Placed(f) == \/ f \in master \cup Scanned \cup Queued \/ mcli.fd = f
             \/ \E w \in Workers : Busy(w) /\ loc[w].cli.fd = f

NoneForgotten == Steady => \A f \in Fds : owner[f] # NoConn => Placed(f)

\* The descriptor in a thread's or the queue's copy of a client is still the
\* one of that client, until close_connect has closed it: nothing is read
\* from, written to or closed on somebody else's connection.
OwnDescriptor ==
  Steady =>
    /\ \A i \in 1..Len(queue) : owner[queue[i].fd] = queue[i].conn
    /\ \A w \in Workers : Busy(w) => \/ owner[loc[w].cli.fd] = loc[w].cli.conn
                                     \/ /\ owner[loc[w].cli.fd] = NoConn
                                        /\ loc[w].res = disconnect
                                        /\ wpc[w] \in {"check", "close"}
                                     \/ wpc[w] \in {"erase", "clear", "cleared"}

\* A worker that calls read finds input or the end of the stream: read_fd
\* never blocks the thread on a silent client.
ReaderHasInput ==
  Steady => \A w \in Workers : wpc[w] = "read" => Readable(loc[w].cli.fd)

\* The process dereferences the end of handle_clients for one reason only, the
\* listening socket left in the scanned set: every client the scan or a
\* worker looks up has its entry.
OnlyListenerCrashes ==
  Steady /\ crashed => mpc = "push" /\ ServerFd \in ready

\* select looks at every descriptor that waits to be served: maxfd covers
\* master_fd whenever the main thread is back at select.
WatchedInRange == mpc = "select" => \A f \in master : f <= maxfd

\* A client that has used up CLIENT_TRIES is never served again: its count
\* stops at the limit, where the worker that reached it is about to ban the
\* address and close.
BannedNotServed ==
  Steady =>
    \A f \in DOMAIN table :
      /\ table[f].tries <= ClientTries
      /\ table[f].tries = ClientTries =>
           \E w \in Workers : loc[w].cli.fd = f /\ wpc[w] \in {"check", "close", "erase"}

\* handle_clients keeps no entry of a closed connection: one is there only
\* while a worker is about to erase it, the entry included that operator[]
\* makes anew after close_connect has erased the client.  A number given out
\* again would find it, and insert would keep its action and its tries.
EntriesLive ==
  Steady =>
    \A f \in DOMAIN table : owner[f] = NoConn =>
      \E w \in Workers : loc[w].cli.fd = f /\ wpc[w] \in {"check", "close", "erase"}

\* While also no handler buffer has been mixed up: an operation on stored
\* passwords runs with the user id of the account whose credentials its own
\* client sent, and a session before login has no id.
OperatesOnOwnAccount ==
  struck = {} =>
    /\ \A w \in Workers :
         wpc[w] = "dispatch" /\ loc[w].act \in Operations /\ loc[w].res # disconnect
           => loc[w].cli.id = AccountOf[loc[w].cli.conn]
    /\ \A f \in DOMAIN table : owner[f] # NoConn =>
         table[f].id = IF table[f].act \in {greetings, registration, authentification}
                       THEN -1 ELSE AccountOf[table[f].conn]

\* "Queue ready clients" (new_TCP_server.h): what the scan takes out of
\* readset and looks up in handle_clients is a client.
ScansClients == mpc = "push" => \E f \in DOMAIN table : IsLowest(f, ready)

\* "Read socket buffer" (Handle.h): the line a handler works on is the one
\* the client it was called for has sent.
OwnLine == "mixed" \notin struck

\* "All set for select" (new_TCP_server.h): a connection that is neither held
\* by a thread nor queued nor being accepted is in master_fd.
AllSetForSelect ==
  "recycled" \notin struck => \A f \in Fds : owner[f] # NoConn => Placed(f)

\* A line an accepted client sends is eventually read, or its connection
\* closed, unless the process crashes.
Waiting(c) == peer[c].at = "open" /\ peer[c].data
Served == \A c \in Conns : Steady /\ Waiting(c) ~> (~Waiting(c) \/ crashed \/ ~Steady)

\* Once a client has shut its side the server eventually closes the
\* connection and frees the descriptor.
HungUp(c) == peer[c].at = "open" /\ peer[c].eof
Reaped == \A c \in Conns : Steady /\ HungUp(c) ~> (~HungUp(c) \/ crashed \/ ~Steady)
=============================================================================
