-------------------------------- MODULE Log --------------------------------
(***************************************************************************)
(* Log: every thread makes notes in a queue shared under mtx_que; the      *)
(* thread that finds the queue full writes it to the log file under        *)
(* mtx_file; once a day the time-check thread reads the file into the      *)
(* report and goes on with a new file name.                                *)
(*                                                                         *)
(* A note is its number in the order the notes entered the queue.  The     *)
(* code under mtx_que is one step, and so is the code under mtx_file,      *)
(* unless it calls make_note: holder is the thread inside such a call.     *)
(***************************************************************************)
EXTENDS Integers, Sequences, FiniteSets, SequencesExt

CONSTANTS Threads,    \* all threads, the time-check thread among them
          Reader,     \* the time-check thread
          NoThread,
          MaxBuffer,  \* MAX_BUFFER_QUEUE
          StartNamed, \* whether new_log_filename is called before the first note
          MaxNotes,   \* bound: notes made in a behaviour
          MaxReports  \* bound: calls of read_all_note in a behaviour

ASSUME ThreadAssumption == /\ IsFiniteSet(Threads)
                           /\ Reader \in Threads /\ NoThread \notin Threads
ASSUME BufferAssumption == MaxBuffer \in Nat /\ StartNamed \in BOOLEAN
ASSUME BoundAssumption  == MaxNotes \in Nat /\ MaxReports \in Nat

VARIABLES
  que, size,  \* que and que_size
  named,      \* log_file is not the empty string
  exists,     \* there is a file with that name ...
  file,       \* ... and these are its notes
  holder,     \* the thread that holds mtx_file across a call of make_note
  pc,         \* per thread, see ThreadPC
  batch,      \* local_queue in flush_file
  back,       \* where flush_file returns to: "push" or "open"
  \* history
  made,       \* notes that have entered the queue
  report,     \* notes read_all_note has handed to the compressor
  lost,       \* notes written while there was no file name
  overlap,    \* two flushes have been under way at once
  reports     \* calls of read_all_note

buffer == <<que, size, made>>
disk   == <<named, exists, file, lost, report>>
vars   == <<buffer, disk, holder, pc, batch, back, overlap, reports>>

Init ==
  /\ que = <<>> /\ size = 0 /\ made = 0
  /\ named = StartNamed /\ exists = FALSE /\ file = <<>> /\ lost = {} /\ report = <<>>
  /\ holder = NoThread
  /\ pc = [t \in Threads |-> "idle"]
  /\ batch = [t \in Threads |-> <<>>] /\ back = [t \in Threads |-> "push"]
  /\ overlap = FALSE /\ reports = 0
-----------------------------------------------------------------------------
\* Wrong variants: the note goes to the front, or is not counted.
EnqueueFirst == /\ size' = size + 1
                /\ que' = <<made + 1>> \o que
                /\ made' = made + 1

EnqueueUncounted == /\ size' = size
                    /\ que' = Append(que, made + 1)
                    /\ made' = made + 1

\* que_size++; que.push(...)
Enqueue == /\ size' = size + 1
           /\ que' = Append(que, made + 1)
           /\ made' = made + 1

IsFull == size > MaxBuffer

Goto(t, l) == pc' = [pc EXCEPT ![t] = l]

\* The start of make_note, with mtx_que: a full buffer is to be flushed first,
\* and its count starts again at once.
Note(t, from, done) ==
  /\ pc[t] = from
  /\ IF IsFull THEN /\ size' = 0 /\ Goto(t, "take") /\ back' = [back EXCEPT ![t] = "push"]
                    /\ UNCHANGED <<que, made>>
               ELSE /\ Enqueue /\ Goto(t, done) /\ UNCHANGED back
  /\ UNCHANGED <<disk, holder, batch, overlap, reports>>

MakeNote(t) == made < MaxNotes /\ Note(t, "idle", "idle")

\* Wrong variant: the queue is copied, not moved.
TakeCopy(t) ==
  /\ pc[t] = "take"
  /\ batch' = [batch EXCEPT ![t] = que]
  /\ overlap' = (overlap \/ \E u \in Threads : pc[u] = "write")
  /\ Goto(t, "write")
  /\ UNCHANGED <<que, size, made, disk, holder, back, reports>>

\* flush_file: the queue is moved out under mtx_que ...
Take(t) ==
  /\ pc[t] = "take"
  /\ batch' = [batch EXCEPT ![t] = que]
  /\ que' = <<>>
  /\ overlap' = (overlap \/ \E u \in Threads : pc[u] = "write")
  /\ Goto(t, "write")
  /\ UNCHANGED <<size, made, disk, holder, back, reports>>

\* Wrong variant: the local queue is not popped.
WriteKeeping(t) ==
  /\ pc[t] = "write" /\ holder = NoThread
  /\ exists' = named
  /\ file' = IF named THEN file \o batch[t] ELSE file
  /\ lost' = IF named THEN lost ELSE lost \cup ToSet(batch[t])
  /\ Goto(t, back[t])
  /\ UNCHANGED <<buffer, named, report, holder, batch, back, overlap, reports>>

\* ... and written under mtx_file; without a name the stream does not open.
Write(t) ==
  /\ pc[t] = "write" /\ holder = NoThread
  /\ exists' = named
  /\ file' = IF named THEN file \o batch[t] ELSE file
  /\ lost' = IF named THEN lost ELSE lost \cup ToSet(batch[t])
  /\ batch' = [batch EXCEPT ![t] = <<>>]
  /\ Goto(t, back[t])
  /\ UNCHANGED <<buffer, named, report, holder, back, overlap, reports>>

\* Back in make_note, with mtx_que again: the note goes in unconditionally.
Push(t) ==
  /\ pc[t] = "push"
  /\ Enqueue
  /\ Goto(t, IF holder = t THEN "rename" ELSE "idle")
  /\ UNCHANGED <<disk, holder, batch, back, overlap, reports>>

\* read_all_note: que.empty() without mtx_que decides about a flush.
ReadAllNote ==
  /\ pc[Reader] = "idle" /\ reports < MaxReports
  /\ reports' = reports + 1
  /\ Goto(Reader, IF que = <<>> THEN "open" ELSE "take")
  /\ back' = [back EXCEPT ![Reader] = "open"]
  /\ UNCHANGED <<buffer, disk, holder, batch, overlap>>

\* Wrong variant: no new_log_filename after the report.
ReadFileAgain ==
  /\ pc[Reader] = "open" /\ holder = NoThread /\ exists
  /\ report' = report \o file
  /\ Goto(Reader, "idle")
  /\ UNCHANGED <<buffer, named, exists, file, lost, holder, batch, back, overlap, reports>>

\* With mtx_file: the file is read to its end and left behind.
ReadFile ==
  /\ pc[Reader] = "open" /\ holder = NoThread /\ exists
  /\ report' = report \o file
  /\ named' = TRUE /\ exists' = FALSE /\ file' = <<>>
  /\ Goto(Reader, "idle")
  /\ UNCHANGED <<buffer, lost, holder, batch, back, overlap, reports>>

\* No file: make_note("1007") is called with mtx_file still locked.
FileMissing ==
  /\ pc[Reader] = "open" /\ holder = NoThread /\ ~exists
  /\ holder' = Reader
  /\ Goto(Reader, "note")
  /\ UNCHANGED <<buffer, disk, batch, back, overlap, reports>>

NoteMissing == Note(Reader, "note", "rename")

\* Wrong variant: mtx_file is not released.
RenameHolding ==
  /\ pc[Reader] = "rename"
  /\ named' = TRUE /\ exists' = FALSE /\ file' = <<>>
  /\ Goto(Reader, "idle")
  /\ UNCHANGED <<buffer, lost, report, holder, batch, back, overlap, reports>>

\* new_log_filename after the note.
Rename ==
  /\ pc[Reader] = "rename"
  /\ named' = TRUE /\ exists' = FALSE /\ file' = <<>>
  /\ holder' = NoThread
  /\ Goto(Reader, "idle")
  /\ UNCHANGED <<buffer, lost, report, batch, back, overlap, reports>>

Flush(t) == Take(t) \/ Write(t) \/ Push(t)
Reading  == ReadFile \/ FileMissing \/ NoteMissing \/ Rename

Next == \/ \E t \in Threads : MakeNote(t) \/ Flush(t)
        \/ ReadAllNote \/ Reading

Spec == Init /\ [][Next]_vars

\* Threads run on; nobody has to make a note or to ask for a report.
FairSpec == Spec /\ WF_vars(Reading) /\ \A t \in Threads : WF_vars(Flush(t))
-----------------------------------------------------------------------------
ThreadPC == {"idle", "take", "write", "push", "open", "note", "rename"}

\* Types, and what the places of a thread imply: mtx_file is held across a
\* call only by the reader, and a batch is in flight only on its way to the
\* file.
TypeOK ==
  /\ que \in Seq(Nat) /\ size \in Nat /\ made \in Nat
  /\ named \in BOOLEAN /\ exists \in BOOLEAN /\ (exists => named)
  /\ file \in Seq(Nat) /\ report \in Seq(Nat) /\ lost \subseteq Nat
  /\ holder \in {NoThread, Reader}
  /\ pc \in [Threads -> ThreadPC]
  /\ \A t \in Threads : pc[t] \in {"open", "note", "rename"} => t = Reader
  /\ batch \in [Threads -> Seq(Nat)]
  /\ \A t \in Threads : pc[t] # "write" => batch[t] = <<>>
  /\ back \in [Threads -> {"push", "open"}]
  /\ \A t \in Threads : back[t] = "open" => t = Reader
  /\ overlap \in BOOLEAN /\ reports \in Nat

\* Where note n is.
Spots(n) ==
  LET At(place, s) == {<<place, i>> : i \in {j \in 1..Len(s) : s[j] = n}}
  IN At("queue", que) \cup At("file", file) \cup At("report", report)
       \cup {<<"lost", 0>> : m \in lost \cap {n}}
       \cup UNION {At(t, batch[t]) : t \in Threads}

\* Every note ever made is in exactly one place, whatever the flushes of
\* several threads and the change of the file's name do: none disappears and
\* none is reported twice.
OnceOnly == \A n \in 1..made : Cardinality(Spots(n)) = 1

\* The notes in flight of the thread that is writing (there is at most one
\* as long as no two flushes overlap).
InFlight == IF \E t \in Threads : pc[t] = "write"
            THEN batch[CHOOSE t \in Threads : pc[t] = "write"] ELSE <<>>

\* As long as no two flushes have overlapped, the report, the file and the
\* queue together hold the notes in the order they were made, which is what
\* the compressor's pairing of 100001 and 100002 notes builds on.
InOrder ==
  ~overlap => LET all == report \o file \o InFlight \o que
              IN \A i, j \in 1..Len(all) : i < j => all[i] < all[j]

Takers == {t \in Threads : pc[t] = "take"}
Pushers == {t \in Threads : pc[t] \in {"take", "write", "push"} /\ back[t] = "push"}
Effective == MaxBuffer + Cardinality(Threads)

\* que_size is not the length of que: the queue can exceed it by a full buffer
\* for every thread on its way to flush, and no more; and que_size itself
\* exceeds MAX_BUFFER_QUEUE by at most the number of threads.
QueueBounded == /\ Len(que) <= size + Effective * Cardinality(Takers)
                /\ size + Cardinality(Pushers) <= Effective

\* The reader waits for the mutex it holds, and with it everyone who flushes.
SelfLocked == holder = Reader /\ pc[Reader] \in {"take", "write"}

\* Every make_note that flushes, and the flush of a report, comes to its end,
\* unless the reader has locked itself out.
FlushEnds ==
  \A t \in Threads : pc[t] \in {"take", "write", "push"} ~> (pc[t] \in {"idle", "open"} \/ SelfLocked)

\* "Can be clear queue and write all data in log-file" (Log.h): what flush_file
\* takes from the queue reaches a file.
NothingLost == lost = {}
-----------------------------------------------------------------------------
(***************************************************************************)
(* Log implements LogBook.                                                 *)
(***************************************************************************)
Book == INSTANCE LogBook WITH
  Unsafe   <- ~StartNamed,
  pending  <- ToSet(que) \cup ToSet(file) \cup UNION {ToSet(batch[t]) : t \in Threads},
  reported <- ToSet(report),
  dropped  <- lost

\* The threads, the queue and the file together are a book: a note is pending
\* from make_note until one report takes it, and is dropped only if the log
\* started without a file name.
ImplementsBook == Book!Spec
=============================================================================
