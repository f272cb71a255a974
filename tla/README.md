# Analyzator in TLA+

Analyzator is a TCP server that stores passwords for its users, together with
a log module that condenses the server's log into a daily report. This
directory holds TLA+ modules of both halves, TLC configurations that check
them on small instances, and TLAPS proofs of what holds for every instance.
Paths and line numbers refer to the repository; the program is in `src/src` and
`src/include`.

## 1. The system

### Components

| Component | State | Operations | Interacts with |
|---|---|---|---|
| `new_TCP_server` | `master_fd`, `maxfd`, `handle_clients` (descriptor -> action, tries, user id), the queue `clients` under `mtx` | main thread: `start`, `accept_clients`; workers: `workThread`, `close_connect`, `handle_<action>` | kernel sockets, handlers, `Blocker`, `Log` |
| Handlers (`Reg_or_Auth`, `Registration`, `Authentification`, `Command_checker`, `Get`, `Add`, `Del`, `Edit`) | one object per action with the line buffer `buf` | `handle`: read a line, parse it, ask the database, return a result | the worker's `PostgresDB`, the client's socket |
| `Blocker` | `prisons`: address -> time of the ban | `add_prison`, `has_prison` | server |
| `PostgresDB` | one libpq connection per worker | `connect`, `execute`, `fetch`, `is_connect` | database |
| `Log` | `que`, `que_size` under `mtx_que`; `log_file` and the file under `mtx_file` | `make_note`, `flush_file`, `read_all_note`, `new_log_filename` | every component makes notes; the time-check thread reads them |
| `Compressor` | `transfer`, `sz`, `compressed_info` | `insert`, `make_compress`, `handle_time` | fed by `read_all_note`, read by the report |
| `Analyzer`, `Result_generator`, `CSV_reader` | the daily cycle, the table of codes | `time_check`, `generate_report`, `get_definition` | `Log`, `Compressor` |
| `Client`, `Code_value`, `Info_value`, `Hasher` | values | | |
| `example_clients`, `tests`, `old_code` | | client programs, test programs, the previous server (not built) | |

### What is hard

*The server.* Only the queue has a mutex. The main thread and the workers
change `master_fd` with `FD_SET` and `FD_CLR`, which read and write whole
words; look up, insert and erase in `handle_clients`; close descriptors whose
numbers the next `accept` hands out again; and share one line buffer per
handler. What protects them is a protocol: a descriptor is taken out of
`master_fd` before its client is queued and put back by the worker that is
done with it. The correctness questions are whether this protocol makes one
worker the sole owner of a client, whether a client can drop out of it,
whether the counts tested with `==` can be passed, and what a client's session
can do.

*The log.* A full buffer is flushed by the thread that finds it full, after it
has reset the count and released the mutex; several flushes can be under way;
the reader changes the file's name between them; and the reader makes a note
with the file's mutex locked. The questions are where a note can get lost, be
reported twice or out of order, how long the queue can grow, and whether a
thread can wait for ever.

*The compressor.* A session's two notes can fall into different portions, an
address can have several sessions, the container can be full. The questions
are whether every note is counted once whatever the portions, and what the
figures of the report mean.

*The database.* A worker's connection can be gone without libpq knowing; a
query fails, or takes effect without the program learning so; some handlers
look at the result and some do not; a record is made before or after the change
it is about; and all workers share the handlers' line buffers, from which some
handlers take the words anew for every query. The question is what an answer to
a client says of the data.

*The client.* The example client enciphers what it sends after `add` and
deciphers what it reads after `get`. It decides so by the lines typed, and
neither side marks where a message ends. The questions are when its guess of
the server's state is right, and what happens when it is not.

### What makes each component correct

* Server: one owner per connection, none forgotten, no work on somebody else's
  descriptor, no blocking read, the limits kept, a line sent is read, a closed
  client's descriptor is freed.
* Session: menu, registration or login, commands, one operation at a time; the
  user id is that of the credentials; no answer after the last failed login.
* Log: every note is in one place and in at most one report, in order.
* Compressor: counted codes and numbers of sessions do not depend on the
  portions; the container never overflows.
* Vault: an operation's answer says what happened to the database; a login is
  that of the user named.
* Report: a note is counted once over all reports; every code of a report has
  a definition; a report is begun when a day has passed since the last, and not
  much later.
* Dialogue: the client enciphers what it stores, is in step with the server,
  and is answered.

## 2. The modules

| Module | What it is |
|---|---|
| `Protocol` | result codes, the results of each handler, and what a result does to a session (`Closes`, `FailedTry`, `LogsIn`, `NextAction`) |
| `Server` | the main thread, the workers, the kernel's descriptors and the clients |
| `Session` | the abstract protocol one client sees |
| `ServerSession` | the refinement mapping from `Server` to `Session` |
| `MCServer` | instances for TLC |
| `ServerProofs` | proofs about `Server`: its types and `maxfd` |
| `ServerPlaceProofs` | proofs about `Server`: the place and the entry of a client |
| `ServerSessionProofs` | proofs about `Server`: the input and the user id of a session, and that it implements `Session` |
| `Log`, `LogBook`, `MCLog` | the log, what it promises, instances |
| `LogProofs` | proofs about `Log`, and that it implements `LogBook` |
| `Compressor` | the compressor and the loop that feeds it |
| `CompressorProofs` | proofs about `Compressor` |
| `Report`, `MCReport` | the daily cycle around `Compressor` with the table of codes, instance |
| `ReportProofs` | proofs about `Report` |
| `Vault`, `MCVault` | the handlers' queries on a shared database, instance |
| `VaultProofs` | proofs about `Vault` |
| `Dialogue` | a user, an example client and the server |
| `DialogueProofs` | proofs about `Dialogue` |

`Server`, `Vault` and `Dialogue` look at a session from three sides and share
the results and transitions of `Protocol`: `Server` has the threads and leaves
the database open, `Vault` has the database and takes from `Server` that one
worker serves a client at a time, `Dialogue` has the two ends of one connection
and takes from `Server` that a line sent is read. `Report` extends
`Compressor`, and takes from `LogBook` that each reading of the log gives the
notes made since the last.

A definition introduced by the comment "Wrong variant" is not used: it is a
definition of the model with a mistake in it, and the property it stands for
fails when it replaces the correct one. This shows that the property depends on
that line of the code.

### Server

The state has the names of the code where it has one: `master` (`master_fd`),
`maxfd`, `table` (`handle_clients`, with the id that the key carries), `queue`
(`clients`), `buf` (one per handler), `prison` (`Blocker::prisons`). `peer` and
`owner` are the sockets and the kernel's descriptor table. `mpc`, `ready`,
`mcli`, `mcopy` are the main thread's place and locals, `wpc` and `loc` the
workers'.

A step of the main thread or of a worker ends where another thread can observe
or disturb it:

| Code | Actions |
|---|---|
| `select` in `start` | `Select` |
| `accept_clients` | `AcceptNothing`, `AcceptBanned`, `AcceptClient` (to the read of `FD_SET`), `AcceptWatch` (its write), `AcceptInsert` |
| the scan of `readset` | `ScanClear`, `ScanUnwatch` (`FD_CLR`), `ScanPush`, or `ScanCrash` if `find` returns the end |
| `workThread`, taking a client | `Take` |
| `read_fd` and the rest of `handle` | `ReadLine`, `ReadFails`; `Parse` |
| `switch` and `handle_<action>` | `Dispatch` |
| the test of the tries and of the result | `Ban`, `Settle` |
| `close_connect` | `CloseFd`, `EraseEntry`, `Fetch`, `Cleared` |
| `FD_SET` of the worker | `Fetch`, `Watched` |

`FD_SET` and `FD_CLR` are two steps, a read of the word and a write: the model
treats all descriptors as bits of one word. One call of `handle_clients` is one
step. `operator[]` inserts a missing key (`Touch`), as it does after
`close_connect` when the handler has closed the connection already. A handler's
result is any of the results its code can return; its database work is left
out.

Three things can go wrong by timing alone, and the history variable `struck`
records them: a lost update of `master_fd` ("raced"), a descriptor number given
out while a thread or the queue still uses it ("recycled"), and a handler's
buffer overwritten between read and parse ("mixed"). The runs
`Server_lost` and `Server_buffer` show that two of them happen. All
other safety properties say what holds as long as the first two have not
happened (`Steady`), because nothing does afterwards. `TypeOK` and
`WatchedInRange` hold regardless.

### Session

`ServerSession!Abstract` maps the entry of a connection in `table` to a phase,
a number of failed logins and a user (`Phases`, `Fails`, `Users`). A connection accepted but not yet
inserted is at the menu. `ImplementsSession` says that each client's steps are
those of `Session`, whatever the threads do.

### Log

A note is its number. The code under `mtx_que` is one step, and so is the code
under `mtx_file`, except where `read_all_note` calls `make_note` while it holds
`mtx_file`: `holder` is set then. `Note` is the first half of `make_note`,
`Take` and `Write` are `flush_file`, `Push` is the second half, `ReadAllNote`,
`ReadFile`, `FileMissing`, `NoteMissing` and `Rename` are `read_all_note`.
`StartNamed` says whether `new_log_filename` has run before the first note:
`tests/test_log_module.cpp:61` does so, `Analyzer::start_process` does not.
A new name stands for a new file. Locking a mutex twice in one thread is
modelled as waiting.

`LogBook` is what the log promises: pending notes, and reports that take some
of them for good. `ImplementsBook` maps the queue, the batches in flight and
the file to the pending notes.

### Compressor

The lines of the file are chosen as they are read. `ReadLine` is one round of
the loop in `read_all_note` with `insert`, and `make_compress` when the
container is full; `Finish` is the last `make_compress`. `Counted` and
`Tallied` are the first half of `make_compress`, `Ends` to `Timed` are
`handle_time`, `Erased` and `Removed` its erasing loop with its own count.
Which of several ends of an address `conn_map` lists first is open
(`FirstEnds`).

### Report

`Sleep`, `Look`, `Publish` are `time_check` and `generate_report`; `Read` is a
step of `Compressor` on the log of this report. Time is counted in ticks finer
than the seconds of the code, because `duration_cast` cuts them off. A new
compressor is made for every report, so `Publish` resets its variables: what
waited in it is gone. `codes.csv` may be there or not at each report;
`Defaults` is the table the program writes if it is not. `MCReport` has the
codes of `res/codes.csv`, the file of the repository; any other is possible
(`tests/test_fill_csv.cpp` writes one without a code), and nothing validates
it. `before`, `reported` and `past` add up the reports for `CountedOnce`;
`slept` is the time since the last report was begun, whatever `t` says, for
`DailyReport`.

### Vault

One action is one query or one test of the connection: `Lookup`
(`Add::is_not_exist`), `Reconnect` (`if(!db->is_connect())`), `Register`,
`Login`, `Find`, `Insert`, `Update`, `Delete`, and `Record`
(`make_transaction`). `Query` is one `PQexecParams`: it takes effect and is
reported, or takes effect and the connection breaks before the report, or is
refused, or fails on a connection that was gone. `Drop` is a connection that
breaks between queries: `dead` until the next query finds out.

A request has a number, and `req` what its client has asked for. `Begin` is
`read_fd`: the line is in the `buf` of its handler, which all workers share.
`Registration`, `Authentification` and `Add` copy its words (`Parse`); `Get`,
`Del` and `Edit` pass `buf` to each of their queries, and `Source` is the
request whose line is in there at that time. So a `Del` can record one name and
delete another (`Del.cpp:18-19`), and a `Get` can record a name it has not
looked up. The rows of `data` and `transaction` carry the number of the request
that inserted them, which stands for the account and the password, and the name
written. A row of `users` has the requests that inserted it (`by`) and last
wrote its hash (`set`).

`seen` of a request are the requests answered before it began: what its client
could know of. `clean` of an answer says that none of its queries failed.
`Overwrites(m, n)` says that `m` began in the same handler while `n` was under
way; `Own(n)` that no request did so, and hence that all of `n`'s queries were
made from its own line. The properties use these:

* `AddedStays`: the row of an acknowledged Add that was clean and kept its line
  is there, or `Removed`: some `Del` of the account that was not over when the
  Add began has the name on record, or was overwritten by a line with that name.
* `ReadsLatest`: a Get that kept its line does not miss an added row unless it
  was removed in that sense, and does not find a row that a finished `Del` had
  to delete.
* `OneEntry`: an account has two rows of one name only from overlapping Adds or
  a failed query of the later one. It compares the names in the rows, whatever
  the lines were.
* `LoginsTrue`: who is logged in gave the password of the request that last
  wrote the hash: the registration that inserted the row or an `edit` of that
  user; and an `edit` that was over and clean before the login began is not
  passed over.

### Dialogue

`up` and `down` are the two directions of the connection; one read takes any
number of the messages in it, since TCP keeps no boundaries. `Flags`,
`SendName`, `SendSealed`, `SendLine`, `Decipher` are `str_cli` with its
variables; `SendOnly` is the older client and the test client. `Serve` is one
read of the server with everything written in response: `Answers` has one
message for a result and two for a bad command, which both
`Command_checker::handle` and `handle_command_checker` answer. `Typed` has the
words of the menus and one line that begins like `add` and one like `get`
without being them (`strncmp` looks at three characters). A stored password is
"sealed" or "plain". `patient` says whether the user waits for an answer before
typing.

## 3. The runs

| Run | Instance | What it shows |
|---|---|---|
| `Server_threads` | 2 clients of one address, 2 workers, descriptors 4 and 5, 2 tries, no operations; steady states | `TypeOK`, `SoleHandler`, `NoneForgotten`, `OwnDescriptor`, `ReaderHasInput`, `OnlyListenerCrashes`, `WatchedInRange`, `BannedNotServed`, `EntriesLive` |
| `Server_live` | 1 worker, 2 clients, no operations, fair threads | `Served`, `Reaped` |
| `Server_session` | as `Server_threads` with 1 try and the operation `get`, behaviours in which no hazard strikes | `OperatesOnOwnAccount`, `ImplementsSession` |
| `Log_threads` | the reader and 2 server threads, buffer of 1, 7 notes, 2 reports, fair threads | `TypeOK`, `OnceOnly`, `InOrder`, `QueueBounded`, `ImplementsBook`, `FlushEnds` |
| `Report` | 6 notes in all, cut into logs of up to 6 and portions of 3 in every way; 2 addresses, 4 codes; days of 2 hours, 2 ticks a second | `DayTypeOK`, `SizeExact`, `CountsExact`, `ConnectionsKept`, `ReportsSessions`, `CountedOnce`, `AllDefined`, `DailyReport` |
| `Vault` | 2 clients, 2 workers, 1 user known, 3 resource names of which one is too long for its column, 3 requests, 1 fault | `TypeOK`, `AddedStays`, `ReadsLatest`, `OneEntry`, `LoginsTrue` |
| `Dialogue` | both kinds of client, 2 tries, a line typed while at most 1 message is under way, fair server and client | `TypeOK`, `OneLineAtATime`, `InStep`, `StoresSealed`, `FailsOnlyAtGet`, `Answered` |
| `Server_listener` (violation) | as `Server_session`, all behaviours | `ScansClients` fails |
| `Server_buffer` (violation) | as `Server_session`, all behaviours | `OwnLine` fails |
| `Server_lost` (violation) | as `Server_session`, all behaviours | `AllSetForSelect` fails |
| `Log_unnamed` (violation) | as `Log_threads` with 8 notes, no name at the start | `NothingLost` fails |
| `Vault_added` (violation) | as `Vault` | `AddedIsStored` fails |

The violations are the findings of `PROJECT.json`: statements of the
repository that its code does not keep.

**Bounds.** Two clients and two workers are the least with which two threads
can meet on a descriptor, a buffer or a word of `master_fd`, and a client can
be given the number of another. Two descriptors suffice for two clients, the
second of which may also reuse the first one's. Two tries tell the last failed
login from one before it; where the tries are not the question, one is enough.
A client that is offered no operation still passes the menus and the login and
stays at the command menu.
Each client sends any number of lines, but has one unread line at a time: a
second one would be taken by the same `read`. `get` stands for the four
operations, which differ in their results only by codes the dispatcher treats
alike. For the log, a buffer of 1 is full after two notes, so 7 notes are
enough for three threads to be in a flush each. Portions of 3 hold a session
and a foreign note; 6 notes make two full portions, or three reports of a
session each, or a session cut by a report and one cut by a portion. With 2
ticks a second a day of 2 hours can be over by half a second that
`duration_cast` cuts off, so that the report waits for another round.
In `Vault` two requests can overlap while a third has seen the answer of one of
them, and one fault is tried at every place; more of both are a matter of the
proofs, which have no bound on either. With two resource names that fit, a
`Del` can be overwritten by one of the other name; the one that does not fit is
acknowledged without being stored. Two passwords tell a hash that was changed
from one that was not. In `Dialogue` two
messages can be under way, so that one read takes both; a user who waits has
one, unless a bad command has been answered twice. `Report` cannot deadlock and
is checked for it. The others may stop: the server when its clients say
nothing more, `Log` and `Vault` at their bounds, `Dialogue` when the
connection has ended.

**Symmetry.** Workers are interchangeable, and so are the two addresses of the
report, the clients of `Vault` and its two resource names that fit. Runs with liveness properties use none.

**Fairness.** The main thread and each worker are scheduled weakly fairly:
they are operating-system threads with no condition to wait for but those in
the guards (`select` polls, `cv.wait` wakes up because `notify_one` follows
every push). Clients owe nothing. In the log a thread inside a flush goes on,
and so does the reader; nobody has to make a note or ask for a report.
In `Dialogue` a worker reads what has arrived and closes a client that is gone
(`ServerSteps`; `Served` and `Reaped` of `Server_live` are the reason), and the
client reads what it is sent, because it is in `select` when it does nothing
else. The user need not type anything.
`Served` and `Reaped` are checked over the behaviours that stay steady
(`SteadySpec`): after a lost update nothing is promised.

## 4. The proofs

| Theorem | Statement | Argument |
|---|---|---|
| `ServerProofs!TypeCorrect` | `Spec => []TypeOK` | `TypeOK` is inductive. It says more than types: a worker past `Take` holds a client, a worker at "parse" finds a line in the buffer (`Parse` of another worker must not drop it), the main thread between `accept` and `insert` holds a client. One lemma per group of actions, one step per conjunct an action can disturb. |
| `ServerProofs!RangeCorrect` | `Spec => []WatchedInRange` | `RangeInv`: every bit of `master_fd`, of the copies threads have read of it and every descriptor a thread or the queue holds is at most `maxfd`, except the one the main thread is about to insert. The copies are needed because a stale copy can be written back. |
| `ServerPlaceProofs!PlacesCorrect` | `Spec => []PlacesInv` | While `Steady`, a connection is in one place and its entry goes with the place; see below. |
| `...!SoleHandlerCorrect` | `Spec => []SoleHandler` | `Apart` of `PlacesInv`. |
| `...!NoneForgottenCorrect` | `Spec => []NoneForgotten` | `Open` of `PlacesInv`. |
| `...!OwnDescriptorCorrect` | `Spec => []OwnDescriptor` | `QueueOK` and `WorkerEntry`: the owner of a descriptor is the connection in the copy, or none. |
| `...!OnlyListenerCrashesCorrect` | `Spec => []OnlyListenerCrashes` | Whoever waits in a place is `Listed`, and the listed ones have an entry. |
| `...!EntriesLiveCorrect` | `Spec => []EntriesLive` | The descriptors listed are open (`Open`), so that an entry of a closed one is a worker's (`KnownOK`), and one that has erased it has none (`WorkerEntry`). |
| `...!BannedNotServedCorrect` | `Spec => []BannedNotServed` | Listed entries and those of a worker that serves have tries left; an entry belongs to a listed client or to a worker (`KnownOK`). |
| `ServerSessionProofs!ReaderHasInputCorrect` | `Spec => []ReaderHasInput` | `OwnedInv`: an open connection has one descriptor. `InputInv`: what `select` has reported, the queue holds or a worker is about to read has input. A worker that reads or closes takes the input from itself only, since its descriptor is in no other place (`InputTaken`). |
| `...!OperatesOnOwnAccountCorrect` | `Spec => []OperatesOnOwnAccount` | `AccountInv` follows the id from the login (`AnsweredOwn`) through the entry, the scan's copy in the queue and the worker's copy, while `struck = {}`. |
| `...!SessionImplemented` | `QuietSpec => ImplementsSession` | From `PlacesInv`, `OwnedInv` and `AccountInv`: the entry that serves a connection is the one of its only descriptor, so a step of a thread changes what at most one client sees. `Dispatch` is a choice, a login, a failed try, a request or an answer of that client (`AnswerMoves`), `AcceptClient` its arrival, `AcceptBanned` its refusal, `CloseFd` its leaving; an entry made or erased for a closed descriptor is seen by nobody (`UnservedSame`). |
| `CompressorProofs!SizeCorrect` | `Spec => []SizeExact` | The same invariant `IInv` carries these three. A new line has a number of its own, so inserting it adds one to the number of notes; `make_compress` takes off `sz` what it erases because the ends and the matched connections are disjoint (`ErasedNumber`, `CompressSize`). |
| `CompressorProofs!CountsCorrect` | `Spec => []CountsExact` | `Balanced`: what is counted and what waits make up the lines read. `CompressCounts` shows that a portion's notes of a counted code go to the figure and none stays. |
| `CompressorProofs!ConnectionsCorrect` | `Spec => []ConnectionsKept` | `CompressConnections`: the connections erased are those added to the sessions, unless the container is cleared. |
| `CompressorProofs!TypeCorrect` | `Spec => []TypeOK` | `Typed`. The average is a sum over the matched connections: that it is a number follows from the smallest set of them that had none (`SumType`). |
| `CompressorProofs!SessionsCorrect` | `Spec => []ReportsSessions` | `SessionInv`; see below. |
| `ReportProofs!DayTypes` | `DaySpec => []DayTypeOK` | From the invariants of the next ones. |
| `...!DaySizes`, `DayCounts`, `DaySessions` | `DaySpec => []...` of the compressor's properties | A step of the daily cycle is one of the compressor, or leaves it alone, or makes a new one (`DayStep`). |
| `...!CountedOnceCorrect` | `DaySpec => []CountedOnce` | `Settled`: the figures and the numbers of notes of the reports made agree, because after `Finish` no counted note waits (`Balanced`) when `Publish` adds them up. |
| `...!DailyReportCorrect` | `DaySpec => DailyReport` | `Elapsed`: `t` is the time of the last report (`since = slept`), since which some number of rounds has passed, each at least an hour and at most an hour and its delay; asleep, it is at most `Day \div Hour`, because one more is due (`Div`, `Within`). That a report is begun means that `IsDue` holds, which rounds the time down (`DueAfterDay`). |
| `LogProofs!TypeCorrect` | `Spec => []TypeOK` | Inductive. |
| `...!OnceOnlyCorrect`, `NamedLosesNothing` | `Spec => []OnceOnly`, `Spec => [](StartNamed => NothingLost)` | `NoteInv`: the places a note can be in are disjoint (`PlaceInv`), hold no note twice (`DistinctInv`), and the file is empty while it does not exist (`FileInv`), which is why a new name loses nothing. Each action moves notes between the places in one of six ways. |
| `...!BookCorrect` | `Spec => ImplementsBook` | Those moves are the steps of `LogBook`, or stutter. |
| `...!QueueBoundedCorrect` | `Spec => []QueueBounded` | The threads between the reset of `que_size` and the taking of the queue are counted; a flush entered by the reader and one entered by a full buffer add to the bound differently (`PushInv`). |
| `...!InOrderCorrect` | `Spec => []InOrder` | `OneWriter`: while no flushes overlap at most one batch is in flight; `OrderInv`: report, file, that batch and the queue are each sorted, and each before the next. |
| `DialogueProofs!TypeCorrect`, `OneLineCorrect`, `InStepCorrect`, `StoresSealedCorrect`, `FailsOnlyAtGetCorrect` | `TypeOK`, `OneLineAtATime`, `InStep`, `StoresSealed`, `FailsOnlyAtGet` | `IInv`: `TurnInv` (a waiting user's turn means nothing is under way, else exactly one message is), `FlagInv` (only the enciphering client sets its flags, and `crypt` means that an answer is to come), `StepInv` (the flags, the line under way, the server's action and the answer under way agree), `SealedInv` (what is stored, and the line that will be, is enciphered). |
| `VaultProofs!TypeCorrect` | `Spec => []TypeOK` | With `LineInv` and `WorkInv`: a line fits its operation, and a worker's place its request; and `TextInv`: a handler's `buf` holds a line of its own operation, no older than any request in its hands. It includes that ids in use are ids of `users`. |
| `...!AddedStaysCorrect` | `Spec => []AddedStays` | `DelInv`: a `Del` about to delete that still has its own line in `buf` has it on record, or its connection is gone, or its name fits no row; one that has another line there was overwritten by it (`TextInv`). Either way the row it deletes is `Removed`. `KeptInv` carries the row of an Add to its answer. |
| `...!ReadsLatestCorrect` | `Spec => []ReadsLatest` | `GoneInv`: after an acknowledged `Del` with its own line no row its client could know of is left, and rows are never inserted again; `RowInv`, `ReadInv`, `MissInv` say what a `Get` has found. |
| `...!OneEntryCorrect` | `Spec => []OneEntry` | `EntryInv`: an Add past its lookup, without a failure, has no earlier row of the name it will write among those it could know of. |
| `...!LoginsTrueCorrect` | `Spec => []LoginsTrue` | `HashInv`: the hash of a user is of a line of the request in `set`, which is the one in `by` or an `edit` of the user, or is the empty hash, which no password matches. `EditInv`: after a clean `edit`, `set` is no request that was over before it. Ids and names are never changed. |

**The place of a client.** `SoleHandler` is not inductive. That a worker may
put a descriptor into `master_fd` without taking it from anybody needs that the
descriptor is open and that every open one is in exactly one place. The places
are `master_fd`, the queue, the workers, and what the main thread has taken out
of `master_fd` or accepted and not put there (`Kept`): `PlaceInv`. A closed
descriptor is in none but with its worker, so that `accept` can give it to
nobody twice. That the worker keeps going at all (`Take` finds an entry with a
handler) needs the entries: `TableInv` relates `handle_clients` to the places.
A client is entering until `AcceptInsert`, listed while it waits, and with its
worker after that; the entry may be missing only while its worker closes it.
Both parts hold while `Steady`, and a step can make `Steady` false but never
true again (`SteadyBack`), so the inductive invariant is `TypeOK /\ (Steady =>
PlaceInv /\ TableInv)`. A step that stays steady wrote back what a single bit
operation would have (`NotStruck`). There is one lemma for each kind of step:
those that move no descriptor (`PlaceSilent`, `TableSilent`, `PlaceByMain`,
`TableByMain`), and one for each step that does.

The theorems about the server hold for every set of connections, descriptors
and workers, every limit and number of tries, under the assumptions
`ConnAssumption`, `FdAssumption`, `LimitAssumption` and `ClientAssumption` of
`Server` and `Protocol`'s codes. Those about the compressor hold for every set
of codes and addresses, every size of a portion
and logs of every length, under `NoteAssumption` and `LimitAssumption` of
`Compressor` (`LIMIT_ACCUMULATION_ADDR` is `MAX_LOG_READ`, as in
`Compressor.h`).

Those about the log hold for every finite set of threads and every buffer
(`ThreadAssumption`, `BufferAssumption`, `BoundAssumption`), those about the
vault for every set of clients, workers, users, names and faults
(`VaultAssumption`), those about the dialogue for every number of tries and of
messages under way (`DialogueAssumption`), those about the report for every
day, hour, delay and clock, under the assumptions of `Report`.

The invariants of `Dialogue` and `Vault` are inductive only together.
In `Vault`, that an added password stays needs that a deletion is on record
before it happens, whatever its worker's connection and its handler's `buf` do
in between (`DelInv`, `TextInv`).
That a `Get` misses an entry only when it has been deleted needs that in turn
(`MissInv`). That a login is true needs what is stored, through every `Update`
in doubt (`HashInv`, `EditInv`). In `Dialogue`, that the client is in step needs that there
is at most one message (`TurnInv`), and that the client's flags are what its
last lines have made them (`FlagInv`, `StepInv`).

What the dialogue's theorems say, they say of a user who waits for answers
(`patient`) until a bad command has been answered twice (`doubled`); `InStep`
and `FailsOnlyAtGet` also need that no line which is not a command has begun like
one (`odd`). After either the client can be out of step: see section 5.

**The sessions of a report.** `ReportsSessions` compares the report with the
whole log, of which the compressor sees a portion and what it kept. The
invariant says, for a log with one connection per address: a connection that
waits in the container has all its ends in there with it (`Waits`); one that is
gone has an end in the log (`Ended`); and if every address has one end, the
figure of the longest is zero or the time of a session that is gone, and no
session that is gone took longer (`LongestOf`). After `Finish` no end waits, so
no finished connection does. With two ends of a connection in one portion, as
`close_connect` can run twice, either may be listed first, which is why the
longest is exact only if ends are noted once.

**Sums and largest elements.** The largest element of a set is a `CHOOSE`, a sum
over a set a fold, and the library's induction over finite sets is out of
reach. What is needed of them is proved from the least counterexample: if some
finite set had none, one of the smallest number of elements would, and it has
an element to take away (`Smallest`, `Greatest`, `SumType`).

Proved are the safety properties of the passing runs but one, and the two
refinements, `ImplementsBook` and `ImplementsSession`. Only model-checked is
`AllDefined`, which is a matter of the 29 codes of `res/codes.csv` and of the 24
of `Defaults`, and no consequence of the code for other files; and what needs
fairness, `Served`, `Reaped`, `FlushEnds` and `Answered`: liveness is out of the
prover's reach. The violations are counterexamples and stay with
TLC.

## 5. Differences found and not carried by a run

The server:

* A client that hangs up is closed twice, by the handler's `disconnect` and by
  `workThread` (`new_TCP_server.cpp:208`): two `100002` notes are made, and the
  number is closed a second time, by when `accept` may have given it to another
  client.
* `handle_clients.size() == MAX_CLIENTS_NOW` (`new_TCP_server.cpp:119`) is
  tested on a map into which `operator[]` can insert after `close_connect`: the
  limit can be passed. `EntriesLive` shows that such an entry is erased again.
* A bad command is answered twice, by `Command_checker::handle` and by
  `handle_command_checker`. From then on a user who waits for an answer is one
  answer ahead; the enciphering client can then read a text as a cipher and
  exit, or store a password in clear.
* After "Enter another name" and "Try again" (`handle_add`, `handle_get`) the
  action is `command_checker` already: the name and password typed next are a
  bad command, and the enciphering client sends them in clear.
* User names and passwords that begin with `get` or `add` put the enciphering
  client out of step (`main.c:121`, `strncmp` of three characters).

The database:

* `Del` answers that the resource was deleted when no row matched
  (`Del.cpp:19`), although there is an answer for that case.
* `Edit` records the new login password as the resource name of its transaction
  (`Edit.cpp:20`), in clear.
* `Del` makes its record of `buf` and then deletes what `buf` names by then
  (`Del.cpp:18-19`): when another worker has read a line for `Del` in between,
  the record and the deletion are of different resources. `Get` and `Edit` take
  `buf` twice as well (`Get.cpp:20,26`, `Edit.cpp:19-20`).
* A login whose query fails counts as a failed try (`Authentification.cpp:30`),
  and a registration whose query fails is answered as an existing name
  (`Registration.cpp:30`), even when the user has been inserted.

The log and the report:

* README.md:39 says that connections without an end "remain in the container
  and wait"; they wait until the report, with which the compressor is
  destroyed. A session cut by a report is in no report.
* `400001`, the longest session, is measured to the first end that the portion
  lists for the address (`Compressor.cpp:64`): with several sessions of an
  address in a portion it can be too long or too short, and two connections can
  be matched with one end.
* `400002:average time` (`res/codes.csv:27`) is the largest of the portions'
  averages (`Compressor.cpp:83`).
* `400003:banned client` (`res/codes.csv:28`) is never written; `100003` notes
  are neither counted nor erased (`Compressor.cpp:88-108`), so they take up the
  container until it is cleared with the open connections in it.
* A report is due after more than 24 sleeps of an hour, which is the 25th when
  a sleep is exact to the second (`Analyzer.cpp:15`); it is titled "Daily
  result". `DailyReport` has the bound.
* Without the directory of the results the report is lost
  (`Result_generator.cpp:14`; the stream is not tested), and if `codes.csv`
  cannot be created the table stays empty and the first lookup dereferences its
  end. `AllDefined` assumes that the file can be written, and that a `codes.csv`
  which is there has the codes of the one in `res`: the reader checks neither
  (`CSV_reader.cpp:43`), and after `tests/test_fill_csv.cpp`, which writes
  a file without codes, the first report would do so too.
* `Log.h:11` relates `MAX_BUFFER_QUEUE` to the number of threads; the queue can
  exceed that by a full buffer for every flush that has not taken the queue
  (`QueueBounded`).
* `read_all_note` calls `make_note` with `mtx_file` locked (`Log.cpp:65`); with
  a full buffer the thread locks it again. `FlushEnds` names the case.

## 6. Not modelled, and what is left

Not modelled, and why:

* `socket`, `bind`, `listen` and the number of workers: one-time calls at the
  start, whose failure is only logged.
* Writes that block or raise SIGPIPE, and lines that arrive in pieces: the
  models have whole messages, and no server that waits for a reader.
* Lines that are overwritten while they are copied, or cut short by the `n` of
  another worker (`Handle.cpp:8-12`): `read_fd` is one step, and a line in a
  `buf` is one whole line.
* Corruption of the standard containers by overlapping calls (`handle_clients`,
  `Blocker::prisons`): undefined behaviour, each call is one step here. The
  races on `master_fd`, the queue's copies and the line buffers are modelled.
* The hash and the cipher (libsodium, OpenSSL), the text of notes and reports,
  the clock behind file names.
* Moving and copying of the value types, which the server does not use.
* `old_code`, which is not built, and the test programs.

What could be added: the composition of `Log` and `Report`, in which a report
reads what `LogBook` gives it.
