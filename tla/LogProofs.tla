----------------------------- MODULE LogProofs -----------------------------
(***************************************************************************)
(* Proofs about Log, for every number of threads, every buffer size, and   *)
(* every number of notes and reports.                                      *)
(***************************************************************************)
EXTENDS Log, SequenceTheorems, FiniteSetTheorems, TLAPS

USE DEF ThreadPC

-----------------------------------------------------------------------------
(***************************************************************************)
(* Types.                                                                  *)
(***************************************************************************)

\* The start of make_note, for MakeNote and NoteMissing.
LEMMA NoteType ==
  ASSUME TypeOK, NEW t \in Threads, NEW from \in {"idle", "note"}, NEW done \in {"idle", "rename"},
         done = "rename" => t = Reader, Note(t, from, done)
  PROVE  TypeOK'
<1>1. CASE IsFull
  <2>1. /\ size' = 0 /\ pc' = [pc EXCEPT ![t] = "take"] /\ back' = [back EXCEPT ![t] = "push"]
        /\ UNCHANGED <<que, made, named, exists, file, lost, report, holder, batch, overlap, reports>>
    BY <1>1 DEF Note, Goto, disk
  <2> QED
    BY <2>1 DEF TypeOK, Note
<1>2. CASE ~IsFull
  <2>1. /\ size' = size + 1 /\ que' = Append(que, made + 1) /\ made' = made + 1
        /\ pc' = [pc EXCEPT ![t] = done]
        /\ UNCHANGED <<back, named, exists, file, lost, report, holder, batch, overlap, reports>>
    BY <1>2 DEF Note, Goto, Enqueue, disk
  <2> QED
    BY <2>1 DEF TypeOK, Note
<1> QED
  BY <1>1, <1>2

LEMMA TakeType ==
  ASSUME TypeOK, NEW t \in Threads, Take(t)
  PROVE  TypeOK'
<1>1. /\ pc[t] = "take" /\ batch' = [batch EXCEPT ![t] = que] /\ que' = <<>>
      /\ pc' = [pc EXCEPT ![t] = "write"]
      /\ overlap' = (overlap \/ \E u \in Threads : pc[u] = "write")
      /\ UNCHANGED <<size, made, named, exists, file, lost, report, holder, back, reports>>
  BY DEF Take, Goto, disk
<1>2. batch' \in [Threads -> Seq(Nat)] /\ \A u \in Threads : pc'[u] # "write" => batch'[u] = <<>>
  BY <1>1 DEF TypeOK
<1>3. pc' \in [Threads -> ThreadPC] /\ \A u \in Threads : pc'[u] \in {"open", "note", "rename"} => u = Reader
  BY <1>1 DEF TypeOK
<1>4. overlap' \in BOOLEAN
  BY <1>1 DEF TypeOK
<1> QED
  BY <1>1, <1>2, <1>3, <1>4 DEF TypeOK

LEMMA WriteType ==
  ASSUME TypeOK, NEW t \in Threads, Write(t)
  PROVE  TypeOK'
<1>1. /\ pc[t] = "write" /\ exists' = named
      /\ file' = IF named THEN file \o batch[t] ELSE file
      /\ lost' = IF named THEN lost ELSE lost \cup ToSet(batch[t])
      /\ batch' = [batch EXCEPT ![t] = <<>>]
      /\ pc' = [pc EXCEPT ![t] = back[t]]
      /\ UNCHANGED <<que, size, made, named, report, holder, back, overlap, reports>>
  BY DEF Write, Goto, buffer
<1>2. batch[t] \in Seq(Nat) /\ file \in Seq(Nat) /\ lost \subseteq Nat
  BY DEF TypeOK
<1>3. file' \in Seq(Nat)
  BY <1>1, <1>2
<1>4. lost' \subseteq Nat
  <2>1. \A i \in DOMAIN batch[t] : batch[t][i] \in Nat
    BY <1>2
  <2>2. ToSet(batch[t]) \subseteq Nat
    BY <2>1 DEF ToSet
  <2> QED
    BY <1>1, <1>2, <2>2
<1>5. back[t] \in {"push", "open"} /\ (back[t] = "open" => t = Reader)
  BY DEF TypeOK
<1>6. pc' \in [Threads -> ThreadPC] /\ \A u \in Threads : pc'[u] \in {"open", "note", "rename"} => u = Reader
  BY <1>1, <1>5 DEF TypeOK
<1>7. batch' \in [Threads -> Seq(Nat)] /\ \A u \in Threads : pc'[u] # "write" => batch'[u] = <<>>
  BY <1>1 DEF TypeOK
<1> QED
  BY <1>1, <1>3, <1>4, <1>6, <1>7 DEF TypeOK

LEMMA PushType ==
  ASSUME TypeOK, NEW t \in Threads, Push(t)
  PROVE  TypeOK'
<1>1. /\ pc[t] = "push" /\ size' = size + 1 /\ que' = Append(que, made + 1) /\ made' = made + 1
      /\ pc' = [pc EXCEPT ![t] = IF holder = t THEN "rename" ELSE "idle"]
      /\ UNCHANGED <<named, exists, file, lost, report, holder, batch, back, overlap, reports>>
  BY DEF Push, Goto, Enqueue, disk
<1>2. holder = t => t = Reader
  BY ThreadAssumption DEF TypeOK
<1>3. pc' \in [Threads -> ThreadPC] /\ \A u \in Threads : pc'[u] \in {"open", "note", "rename"} => u = Reader
  BY <1>1, <1>2 DEF TypeOK
<1>4. \A u \in Threads : pc'[u] # "write" => batch'[u] = <<>>
  BY <1>1 DEF TypeOK
<1> QED
  BY <1>1, <1>3, <1>4 DEF TypeOK

LEMMA ReaderType ==
  ASSUME TypeOK, ReadAllNote \/ ReadFile \/ FileMissing \/ Rename
  PROVE  TypeOK'
<1> USE ThreadAssumption
<1>1. CASE ReadAllNote
  <2>1. /\ pc[Reader] = "idle" /\ reports' = reports + 1
        /\ pc' = [pc EXCEPT ![Reader] = IF que = <<>> THEN "open" ELSE "take"]
        /\ back' = [back EXCEPT ![Reader] = "open"]
        /\ UNCHANGED <<que, size, made, named, exists, file, lost, report, holder, batch, overlap>>
    BY <1>1 DEF ReadAllNote, Goto, buffer, disk
  <2>2. pc' \in [Threads -> ThreadPC] /\ \A u \in Threads : pc'[u] \in {"open", "note", "rename"} => u = Reader
    BY <2>1 DEF TypeOK
  <2>3. back' \in [Threads -> {"push", "open"}] /\ \A u \in Threads : back'[u] = "open" => u = Reader
    BY <2>1 DEF TypeOK
  <2> QED
    BY <2>1, <2>2, <2>3 DEF TypeOK
<1>2. CASE ReadFile
  <2>1. /\ pc[Reader] = "open" /\ report' = report \o file /\ named' = TRUE /\ exists' = FALSE
        /\ file' = <<>> /\ pc' = [pc EXCEPT ![Reader] = "idle"]
        /\ UNCHANGED <<que, size, made, lost, holder, batch, back, overlap, reports>>
    BY <1>2 DEF ReadFile, Goto, buffer
  <2>2. report' \in Seq(Nat) /\ file' \in Seq(Nat)
    BY <2>1 DEF TypeOK
  <2> QED
    BY <2>1, <2>2 DEF TypeOK
<1>3. CASE FileMissing
  BY <1>3 DEF FileMissing, Goto, buffer, disk, TypeOK
<1>4. CASE Rename
  <2>1. /\ pc[Reader] = "rename" /\ named' = TRUE /\ exists' = FALSE
        /\ file' = <<>> /\ holder' = NoThread /\ pc' = [pc EXCEPT ![Reader] = "idle"]
        /\ UNCHANGED <<que, size, made, lost, report, batch, back, overlap, reports>>
    BY <1>4 DEF Rename, Goto, buffer
  <2>2. file' \in Seq(Nat)
    BY <2>1
  <2>3. pc' \in [Threads -> ThreadPC] /\ \A u \in Threads : pc'[u] \in {"open", "note", "rename"} => u = Reader
    BY <2>1 DEF TypeOK
  <2>4. \A u \in Threads : pc'[u] # "write" => batch'[u] = <<>>
    BY <2>1 DEF TypeOK
  <2> QED
    BY <2>1, <2>2, <2>3, <2>4 DEF TypeOK
<1> QED
  BY <1>1, <1>2, <1>3, <1>4

\* The steps, with make_note in its two places.
LEMMA Steps ==
  ASSUME Next
  PROVE  \/ \E t \in Threads : \/ Note(t, "idle", "idle") \/ Take(t) \/ Write(t) \/ Push(t)
         \/ Note(Reader, "note", "rename")
         \/ ReadAllNote \/ ReadFile \/ FileMissing \/ Rename
  BY DEF Next, MakeNote, Flush, Reading, NoteMissing

LEMMA TypeStep ==
  ASSUME TypeOK, [Next]_vars
  PROVE  TypeOK'
<1>1. CASE UNCHANGED vars
  BY <1>1 DEF vars, buffer, disk, TypeOK
<1>2. CASE Next
  BY <1>2, Steps, ThreadAssumption, NoteType, TakeType, WriteType, PushType, ReaderType
<1> QED
  BY <1>1, <1>2

LEMMA TypeInit == Init => TypeOK
<1> SUFFICES ASSUME Init
             PROVE  TypeOK
  OBVIOUS
<1>1. que \in Seq(Nat) /\ file \in Seq(Nat) /\ report \in Seq(Nat)
  BY DEF Init
<1>2. /\ pc \in [Threads -> ThreadPC] /\ \A t \in Threads : pc[t] = "idle"
      /\ batch \in [Threads -> Seq(Nat)] /\ \A t \in Threads : batch[t] = <<>>
      /\ back \in [Threads -> {"push", "open"}] /\ \A t \in Threads : back[t] = "push"
  BY DEF Init
<1>3. /\ size \in Nat /\ made \in Nat /\ named \in BOOLEAN /\ exists \in BOOLEAN /\ (exists => named)
      /\ lost \subseteq Nat /\ holder \in {NoThread, Reader} /\ overlap \in BOOLEAN /\ reports \in Nat
  BY BufferAssumption DEF Init
<1> QED
  BY <1>1, <1>2, <1>3 DEF TypeOK

\* Whatever notes the threads make while others flush and read: who is inside
\* a flush, and where it returns to (Log.cpp).
THEOREM TypeCorrect == Spec => []TypeOK
  BY TypeInit, TypeStep, PTL DEF Spec
-----------------------------------------------------------------------------
(***************************************************************************)
(* Sequences and the sets of their elements.                               *)
(***************************************************************************)

\* No element twice.
Distinct(s) == \A i, j \in 1..Len(s) : s[i] = s[j] => i = j

LEMMA SetOf ==
  ASSUME NEW s \in Seq(Nat)
  PROVE  /\ ToSet(s) = {s[i] : i \in 1..Len(s)} /\ ToSet(s) \subseteq Nat
         /\ \A n : n \in ToSet(s) <=> \E i \in 1..Len(s) : s[i] = n
<1>1. DOMAIN s = 1..Len(s)
  OBVIOUS
<1>2. \A i \in 1..Len(s) : s[i] \in Nat
  OBVIOUS
<1> QED
  BY <1>1, <1>2 DEF ToSet

LEMMA SetOfNone == ToSet(<<>>) = {} /\ Distinct(<<>>)
  BY DEF ToSet, Distinct

LEMMA SetOfAppend ==
  ASSUME NEW s \in Seq(Nat), NEW n \in Nat
  PROVE  /\ ToSet(Append(s, n)) = ToSet(s) \cup {n}
         /\ Distinct(s) /\ n \notin ToSet(s) => Distinct(Append(s, n))
<1> DEFINE u == Append(s, n)
<1>1. /\ u \in Seq(Nat) /\ Len(u) = Len(s) + 1 /\ Len(s) \in Nat
      /\ \A i \in 1..Len(s) : u[i] = s[i]
      /\ u[Len(s) + 1] = n
  OBVIOUS
<1> HIDE DEF u
<1>2. \A m : m \in ToSet(u) <=> m \in ToSet(s) \/ m = n
  <2>1. \A m : m \in ToSet(u) <=> \E i \in 1..Len(u) : u[i] = m
    BY <1>1, SetOf
  <2>2. \A m : m \in ToSet(s) <=> \E i \in 1..Len(s) : s[i] = m
    BY SetOf
  <2>3. 1..Len(u) = 1..Len(s) \cup {Len(s) + 1}
    BY <1>1
  <2> QED
    BY <1>1, <2>1, <2>2, <2>3
<1>3. ASSUME Distinct(s), n \notin ToSet(s)
      PROVE  Distinct(u)
  <2>1. \A i \in 1..Len(s) : s[i] # n
    BY <1>3, SetOf
  <2>2. SUFFICES ASSUME NEW i \in 1..Len(u), NEW j \in 1..Len(u), u[i] = u[j]
                 PROVE  i = j
    BY DEF Distinct
  <2>3. CASE i \in 1..Len(s) /\ j \in 1..Len(s)
    BY <1>1, <1>3, <2>2, <2>3 DEF Distinct
  <2>4. CASE i = Len(s) + 1 \/ j = Len(s) + 1
    BY <1>1, <2>1, <2>2, <2>4
  <2> QED
    BY <1>1, <2>2, <2>3, <2>4
<1> QED
  BY <1>2, <1>3 DEF u

LEMMA SetOfConcat ==
  ASSUME NEW s \in Seq(Nat), NEW r \in Seq(Nat)
  PROVE  /\ ToSet(s \o r) = ToSet(s) \cup ToSet(r)
         /\ Distinct(s) /\ Distinct(r) /\ ToSet(s) \cap ToSet(r) = {} => Distinct(s \o r)
<1> DEFINE u == s \o r
<1>1. /\ u \in Seq(Nat) /\ Len(u) = Len(s) + Len(r) /\ Len(s) \in Nat /\ Len(r) \in Nat
      /\ \A i \in 1..Len(s) : u[i] = s[i]
      /\ \A i \in 1..Len(u) : i > Len(s) => i - Len(s) \in 1..Len(r) /\ u[i] = r[i - Len(s)]
  BY ConcatProperties
<1>2. \A i \in 1..Len(r) : i + Len(s) \in 1..Len(u) /\ u[i + Len(s)] = r[i]
  BY <1>1
<1> HIDE DEF u
<1>3. \A m : m \in ToSet(u) <=> m \in ToSet(s) \/ m \in ToSet(r)
  <2>1. /\ \A m : m \in ToSet(u) <=> \E i \in 1..Len(u) : u[i] = m
        /\ \A m : m \in ToSet(s) <=> \E i \in 1..Len(s) : s[i] = m
        /\ \A m : m \in ToSet(r) <=> \E i \in 1..Len(r) : r[i] = m
    BY <1>1, SetOf
  <2>2. ASSUME NEW m \in ToSet(u)
        PROVE  m \in ToSet(s) \/ m \in ToSet(r)
    <3>1. PICK i \in 1..Len(u) : u[i] = m
      BY <2>1
    <3>2. i \in 1..Len(s) \/ i > Len(s)
      BY <1>1
    <3> QED
      BY <1>1, <2>1, <3>1, <3>2
  <2>3. ASSUME NEW m \in ToSet(s)
        PROVE  m \in ToSet(u)
    <3>1. PICK i \in 1..Len(s) : s[i] = m
      BY <2>1
    <3>2. i \in 1..Len(u) /\ u[i] = m
      BY <1>1, <3>1
    <3> QED
      BY <2>1, <3>2
  <2>4. ASSUME NEW m \in ToSet(r)
        PROVE  m \in ToSet(u)
    BY <1>2, <2>1, <2>4
  <2> QED
    BY <2>2, <2>3, <2>4
<1>4. ASSUME Distinct(s), Distinct(r), ToSet(s) \cap ToSet(r) = {}
      PROVE  Distinct(u)
  <2>1. ASSUME NEW i \in 1..Len(s), NEW j \in 1..Len(r)
        PROVE  s[i] # r[j]
    <3>1. s[i] \in ToSet(s) /\ r[j] \in ToSet(r)
      BY SetOf
    <3> QED
      BY <1>4, <3>1
  <2>2. SUFFICES ASSUME NEW i \in 1..Len(u), NEW j \in 1..Len(u), u[i] = u[j]
                 PROVE  i = j
    BY DEF Distinct
  <2>3. CASE i \in 1..Len(s) /\ j \in 1..Len(s)
    BY <1>1, <1>4, <2>2, <2>3 DEF Distinct
  <2>4. CASE i > Len(s) /\ j > Len(s)
    <3>1. i - Len(s) = j - Len(s)
      BY <1>1, <1>4, <2>2, <2>4 DEF Distinct
    <3> QED
      BY <1>1, <3>1
  <2>5. CASE i \in 1..Len(s) /\ j > Len(s)
    BY <1>1, <2>1, <2>2, <2>5
  <2>6. CASE i > Len(s) /\ j \in 1..Len(s)
    BY <1>1, <2>1, <2>2, <2>6
  <2> QED
    BY <1>1, <2>2, <2>3, <2>4, <2>5, <2>6
<1> QED
  BY <1>3, <1>4 DEF u
-----------------------------------------------------------------------------
(***************************************************************************)
(* Every note is in one place.                                             *)
(***************************************************************************)

\* mtx_file is held only while there is no file, so that the new name loses
\* nothing; and a log that starts with a name keeps one.
FileInv == /\ ~exists => file = <<>>
           /\ holder = Reader => ~exists
           /\ pc[Reader] \in {"note", "rename"} => holder = Reader
           /\ StartNamed => named /\ lost = {}

Flying == UNION {ToSet(batch[t]) : t \in Threads}

\* The places have no note in common, and hold all of them.
PlaceInv ==
  /\ ToSet(que) \cup ToSet(file) \cup ToSet(report) \cup lost \cup Flying = 1..made
  /\ ToSet(que) \cap (ToSet(file) \cup ToSet(report) \cup lost \cup Flying) = {}
  /\ ToSet(file) \cap (ToSet(report) \cup lost \cup Flying) = {}
  /\ ToSet(report) \cap (lost \cup Flying) = {}
  /\ lost \cap Flying = {}
  /\ \A t, u \in Threads : t # u => ToSet(batch[t]) \cap ToSet(batch[u]) = {}

\* No place holds one twice.
DistinctInv == /\ Distinct(que) /\ Distinct(file) /\ Distinct(report)
               /\ \A t \in Threads : Distinct(batch[t])

LEMMA FileStep ==
  ASSUME TypeOK, FileInv, [Next]_vars
  PROVE  FileInv'
<1> USE ThreadAssumption
<1>0. pc[Reader] \in ThreadPC /\ back[Reader] \in {"push", "open"} /\ pc \in [Threads -> ThreadPC]
  BY DEF TypeOK
<1>1. ASSUME NEW t \in Threads, Note(t, "idle", "idle")
      PROVE  FileInv'
  BY <1>0, <1>1 DEF Note, Goto, disk, FileInv
<1>2. ASSUME Note(Reader, "note", "rename")
      PROVE  FileInv'
  BY <1>0, <1>2 DEF Note, Goto, disk, FileInv
<1>3. ASSUME NEW t \in Threads, Take(t)
      PROVE  FileInv'
  BY <1>0, <1>3 DEF Take, Goto, disk, FileInv
<1>4. ASSUME NEW t \in Threads, Write(t)
      PROVE  FileInv'
  <2>1. /\ exists' = named /\ holder = NoThread /\ holder' = holder /\ named' = named
        /\ file' = IF named THEN file \o batch[t] ELSE file
        /\ lost' = IF named THEN lost ELSE lost \cup ToSet(batch[t])
        /\ pc' = [pc EXCEPT ![t] = back[t]] /\ pc[t] = "write"
    BY <1>4 DEF Write, Goto, buffer
  <2>2. ~named => ~exists
    BY DEF TypeOK
  <2>3. ~exists' => file' = <<>>
    BY <2>1, <2>2 DEF FileInv
  <2>4. pc'[Reader] \in {"note", "rename"} => holder' = Reader
    BY <1>0, <2>1 DEF FileInv
  <2> QED
    BY <2>1, <2>3, <2>4 DEF FileInv
<1>5. ASSUME NEW t \in Threads, Push(t)
      PROVE  FileInv'
  BY <1>0, <1>5 DEF Push, Goto, disk, FileInv
<1>6. ASSUME ReadAllNote
      PROVE  FileInv'
  BY <1>0, <1>6 DEF ReadAllNote, Goto, disk, FileInv
<1>7. ASSUME ReadFile
      PROVE  FileInv'
  BY <1>0, <1>7 DEF ReadFile, Goto, FileInv
<1>8. ASSUME FileMissing
      PROVE  FileInv'
  BY <1>0, <1>8 DEF FileMissing, Goto, disk, FileInv
<1>9. ASSUME Rename
      PROVE  FileInv'
  BY <1>0, <1>9 DEF Rename, Goto, FileInv
<1>10. CASE UNCHANGED vars
  BY <1>10 DEF vars, disk, FileInv
<1> QED
  BY <1>1, <1>2, <1>3, <1>4, <1>5, <1>6, <1>7, <1>8, <1>9, <1>10, Steps

\* What becomes of the notes: a new one enters the queue, the queue becomes
\* the batch of t, the batch goes to the file or is lost, the file becomes
\* part of the report, or nothing happens to them.
Enters  == /\ que' = Append(que, made + 1) /\ made' = made + 1
           /\ UNCHANGED <<file, report, lost, batch>>
Departs(t) == /\ batch[t] = <<>> /\ batch' = [batch EXCEPT ![t] = que] /\ que' = <<>>
              /\ UNCHANGED <<file, report, lost, made>>
Lands(t) == /\ named /\ file' = file \o batch[t] /\ batch' = [batch EXCEPT ![t] = <<>>]
            /\ UNCHANGED <<que, report, lost, made>>
GetsLost(t) == /\ ~named /\ lost' = lost \cup ToSet(batch[t]) /\ batch' = [batch EXCEPT ![t] = <<>>]
               /\ UNCHANGED <<que, file, report, made>>
IsRead == /\ report' = report \o file /\ file' = <<>>
          /\ UNCHANGED <<que, batch, lost, made>>
Rests == UNCHANGED <<que, file, report, lost, batch, made>>

LEMMA NoteMoves ==
  ASSUME TypeOK, FileInv, [Next]_vars
  PROVE  \/ Enters \/ IsRead \/ Rests
         \/ \E t \in Threads : Departs(t) \/ Lands(t) \/ GetsLost(t)
<1>1. ASSUME NEW t \in Threads, NEW from, NEW done, Note(t, from, done)
      PROVE  Enters \/ Rests
  BY <1>1 DEF Note, Enqueue, Enters, Rests, disk
<1>2. ASSUME NEW t \in Threads, Take(t)
      PROVE  Departs(t)
  BY <1>2 DEF Take, Departs, TypeOK, disk
<1>3. ASSUME NEW t \in Threads, Write(t)
      PROVE  Lands(t) \/ GetsLost(t)
  BY <1>3 DEF Write, Lands, GetsLost, buffer
<1>4. ASSUME NEW t \in Threads, Push(t)
      PROVE  Enters
  BY <1>4 DEF Push, Enqueue, Enters, disk
<1>5. ASSUME ReadAllNote \/ FileMissing
      PROVE  Rests
  BY <1>5 DEF ReadAllNote, FileMissing, Rests, buffer, disk
<1>6. ASSUME ReadFile
      PROVE  IsRead
  BY <1>6 DEF ReadFile, IsRead, buffer
<1>7. ASSUME Rename
      PROVE  Rests
  <2>1. file = <<>>
    BY <1>7 DEF Rename, FileInv
  <2> QED
    BY <1>7, <2>1 DEF Rename, Rests, buffer
<1>8. CASE UNCHANGED vars
  BY <1>8 DEF vars, buffer, disk, Rests
<1> QED
  BY <1>1, <1>2, <1>3, <1>4, <1>5, <1>6, <1>7, <1>8, Steps, ThreadAssumption

\* What a change of one batch does to the notes in flight.
LEMMA FlyingTo ==
  ASSUME NEW t \in Threads, NEW s, TypeOK, batch' = [batch EXCEPT ![t] = s]
  PROVE  /\ \A u \in Threads : u # t => batch'[u] = batch[u]
         /\ batch'[t] = s
         /\ ToSet(batch[t]) = {} => Flying' = Flying \cup ToSet(s)
         /\ ToSet(s) = {} /\ (\A u, v \in Threads : u # v => ToSet(batch[u]) \cap ToSet(batch[v]) = {})
              => Flying' = Flying \ ToSet(batch[t])
<1>1. batch'[t] = s /\ \A u \in Threads : u # t => batch'[u] = batch[u]
  BY DEF TypeOK
<1>2. \A n : n \in Flying <=> \E u \in Threads : n \in ToSet(batch[u])
  BY DEF Flying
<1>3. \A n : n \in Flying' <=> \E u \in Threads : n \in ToSet(batch'[u])
  BY DEF Flying, ToSet
<1>4. ToSet(batch'[t]) = ToSet(s) /\ \A u \in Threads : u # t => ToSet(batch'[u]) = ToSet(batch[u])
  BY <1>1
<1>5. ASSUME ToSet(batch[t]) = {}
      PROVE  Flying' = Flying \cup ToSet(s)
  BY <1>2, <1>3, <1>4, <1>5
<1>6. ASSUME ToSet(s) = {}, \A u, v \in Threads : u # v => ToSet(batch[u]) \cap ToSet(batch[v]) = {}
      PROVE  Flying' = Flying \ ToSet(batch[t])
  BY <1>2, <1>3, <1>4, <1>6
<1> QED
  BY <1>1, <1>5, <1>6

\* The sets of the notes at the places.
LEMMA PlaceTypes ==
  ASSUME TypeOK
  PROVE  /\ que \in Seq(Nat) /\ file \in Seq(Nat) /\ report \in Seq(Nat) /\ made \in Nat
         /\ \A t \in Threads : batch[t] \in Seq(Nat) /\ ToSet(batch[t]) \subseteq Flying
  BY DEF TypeOK, Flying

LEMMA PlaceStep ==
  ASSUME TypeOK, FileInv, PlaceInv, [Next]_vars
  PROVE  PlaceInv'
<1>1. CASE Enters
  <2>1. /\ ToSet(que') = ToSet(que) \cup {made + 1} /\ made + 1 \notin 1..made
        /\ 1..made' = 1..made \cup {made + 1}
    BY <1>1, PlaceTypes, SetOfAppend DEF Enters
  <2>2. UNCHANGED <<file, report, lost, batch>>
    BY <1>1 DEF Enters
  <2>3. ToSet(file') = ToSet(file) /\ ToSet(report') = ToSet(report) /\ Flying' = Flying
        /\ \A t \in Threads : ToSet(batch'[t]) = ToSet(batch[t])
    BY <2>2 DEF Flying
  <2>4. made + 1 \notin ToSet(file) \cup ToSet(report) \cup lost \cup Flying
    BY <2>1 DEF PlaceInv
  <2> QED
    BY <2>1, <2>2, <2>3, <2>4 DEF PlaceInv
<1>2. ASSUME NEW t \in Threads, Departs(t)
      PROVE  PlaceInv'
  <2>1. /\ ToSet(batch[t]) = {} /\ batch' = [batch EXCEPT ![t] = que] /\ ToSet(que') = {}
        /\ UNCHANGED <<file, report, lost, made>>
    BY <1>2, SetOfNone DEF Departs
  <2>2. /\ Flying' = Flying \cup ToSet(que) /\ batch'[t] = que
        /\ \A u \in Threads : u # t => batch'[u] = batch[u]
    BY <2>1, FlyingTo
  <2>3. ToSet(file') = ToSet(file) /\ ToSet(report') = ToSet(report)
    BY <2>1
  <2>4. \A u \in Threads : ToSet(que) \cap ToSet(batch[u]) = {}
    BY PlaceTypes DEF PlaceInv
  <2>5. ASSUME NEW u \in Threads, NEW v \in Threads, u # v
        PROVE  ToSet(batch'[u]) \cap ToSet(batch'[v]) = {}
    BY <2>2, <2>4, <2>5 DEF PlaceInv
  <2>6. /\ ToSet(que') \cup ToSet(file') \cup ToSet(report') \cup lost' \cup Flying' = 1..made'
        /\ ToSet(que') \cap (ToSet(file') \cup ToSet(report') \cup lost' \cup Flying') = {}
        /\ ToSet(file') \cap (ToSet(report') \cup lost' \cup Flying') = {}
        /\ ToSet(report') \cap (lost' \cup Flying') = {}
        /\ lost' \cap Flying' = {}
    BY <2>1, <2>2, <2>3 DEF PlaceInv
  <2> QED
    BY <2>5, <2>6 DEF PlaceInv
<1>3. ASSUME NEW t \in Threads, Lands(t) \/ GetsLost(t)
      PROVE  PlaceInv'
  <2>1. batch' = [batch EXCEPT ![t] = <<>>] /\ UNCHANGED <<que, report, made>>
    BY <1>3 DEF Lands, GetsLost
  <2>2. /\ Flying' = Flying \ ToSet(batch[t]) /\ ToSet(batch'[t]) = {}
        /\ \A u \in Threads : u # t => batch'[u] = batch[u]
    BY <2>1, FlyingTo, SetOfNone DEF PlaceInv
  <2>3. ToSet(que') = ToSet(que) /\ ToSet(report') = ToSet(report)
    BY <2>1
  <2>4. ToSet(batch[t]) \subseteq Flying
    BY PlaceTypes
  <2>5. ASSUME NEW u \in Threads, NEW v \in Threads, u # v
        PROVE  ToSet(batch'[u]) \cap ToSet(batch'[v]) = {}
    BY <2>2, <2>5 DEF PlaceInv
  <2>6. \/ ToSet(file') = ToSet(file) \cup ToSet(batch[t]) /\ lost' = lost
        \/ ToSet(file') = ToSet(file) /\ lost' = lost \cup ToSet(batch[t])
    BY <1>3, PlaceTypes, SetOfConcat DEF Lands, GetsLost
  <2>7. /\ ToSet(que') \cup ToSet(file') \cup ToSet(report') \cup lost' \cup Flying' = 1..made'
        /\ ToSet(que') \cap (ToSet(file') \cup ToSet(report') \cup lost' \cup Flying') = {}
        /\ ToSet(file') \cap (ToSet(report') \cup lost' \cup Flying') = {}
        /\ ToSet(report') \cap (lost' \cup Flying') = {}
        /\ lost' \cap Flying' = {}
    BY <2>1, <2>2, <2>3, <2>4, <2>6 DEF PlaceInv
  <2> QED
    BY <2>5, <2>7 DEF PlaceInv
<1>4. CASE IsRead
  <2>1. /\ ToSet(report') = ToSet(report) \cup ToSet(file) /\ ToSet(file') = {}
        /\ UNCHANGED <<que, batch, lost, made>>
    BY <1>4, PlaceTypes, SetOfConcat, SetOfNone DEF IsRead
  <2>2. ToSet(que') = ToSet(que) /\ Flying' = Flying /\ \A t \in Threads : ToSet(batch'[t]) = ToSet(batch[t])
    BY <2>1 DEF Flying
  <2> QED
    BY <2>1, <2>2 DEF PlaceInv
<1>5. CASE Rests
  BY <1>5 DEF Rests, PlaceInv, Flying
<1> QED
  BY <1>1, <1>2, <1>3, <1>4, <1>5, NoteMoves

LEMMA DistinctStep ==
  ASSUME TypeOK, FileInv, PlaceInv, DistinctInv, [Next]_vars
  PROVE  DistinctInv'
<1>0. /\ que \in Seq(Nat) /\ file \in Seq(Nat) /\ report \in Seq(Nat) /\ batch \in [Threads -> Seq(Nat)]
      /\ made + 1 \in Nat /\ made + 1 \notin ToSet(que)
  BY DEF TypeOK, PlaceInv
<1>1. CASE Enters
  <2>1. Distinct(que')
    BY <1>0, <1>1, SetOfAppend DEF Enters, DistinctInv
  <2> QED
    BY <1>1, <2>1 DEF Enters, DistinctInv, Distinct
<1>2. ASSUME NEW t \in Threads, Departs(t)
      PROVE  DistinctInv'
  <2>1. \A u \in Threads : batch'[u] \in {que, batch[u]}
    BY <1>0, <1>2 DEF Departs
  <2>2. \A u \in Threads : Distinct(batch'[u])
    BY <2>1 DEF DistinctInv
  <2>3. Distinct(que') /\ Distinct(file') /\ Distinct(report')
    BY <1>2, SetOfNone DEF Departs, DistinctInv
  <2> QED
    BY <2>2, <2>3 DEF DistinctInv, Distinct
<1>3. ASSUME NEW t \in Threads, Lands(t) \/ GetsLost(t)
      PROVE  DistinctInv'
  <2>1. \A u \in Threads : batch'[u] \in {<<>>, batch[u]}
    BY <1>0, <1>3 DEF Lands, GetsLost
  <2>2. \A u \in Threads : Distinct(batch'[u])
    BY <2>1, SetOfNone DEF DistinctInv
  <2>3. ToSet(file) \cap ToSet(batch[t]) = {}
    BY PlaceTypes DEF PlaceInv
  <2>4. Distinct(file')
    <3>1. file' = file \/ file' = file \o batch[t]
      BY <1>3 DEF Lands, GetsLost
    <3>2. batch[t] \in Seq(Nat) /\ Distinct(batch[t]) /\ Distinct(file)
      BY <1>0 DEF DistinctInv
    <3>3. Distinct(file \o batch[t])
      BY <1>0, <2>3, <3>2, SetOfConcat
    <3> QED
      BY <3>1, <3>2, <3>3
  <2>5. Distinct(que') /\ Distinct(report')
    BY <1>3 DEF Lands, GetsLost, DistinctInv
  <2> QED
    BY <2>2, <2>4, <2>5 DEF DistinctInv, Distinct
<1>4. CASE IsRead
  <2>1. ToSet(report) \cap ToSet(file) = {}
    BY DEF PlaceInv
  <2>2. Distinct(report') /\ Distinct(file')
    BY <1>0, <1>4, <2>1, SetOfConcat, SetOfNone DEF IsRead, DistinctInv
  <2> QED
    BY <1>4, <2>2 DEF IsRead, DistinctInv, Distinct
<1>5. CASE Rests
  BY <1>5 DEF Rests, DistinctInv, Distinct
<1> QED
  BY <1>1, <1>2, <1>3, <1>4, <1>5, NoteMoves

\* The notes are once in the queue, in a batch, in the file, in the report or
\* among the lost.
NoteInv == TypeOK /\ FileInv /\ PlaceInv /\ DistinctInv

LEMMA NoteInit == Init => NoteInv
<1> SUFFICES ASSUME Init
             PROVE  NoteInv
  OBVIOUS
<1>1. TypeOK
  BY TypeInit
<1>2. /\ que = <<>> /\ file = <<>> /\ report = <<>> /\ lost = {} /\ made = 0
      /\ \A t \in Threads : batch[t] = <<>>
      /\ pc[Reader] = "idle" /\ holder = NoThread /\ named = StartNamed /\ ~exists
  BY ThreadAssumption DEF Init
<1>3. FileInv
  BY <1>2, ThreadAssumption DEF FileInv
<1>4. DistinctInv
  BY <1>2, SetOfNone DEF DistinctInv
<1>5. PlaceInv
  <2>1. Flying = {}
    BY <1>2, SetOfNone DEF Flying
  <2>2. 1..made = {}
    BY <1>2
  <2> QED
    BY <1>2, <2>1, <2>2, SetOfNone DEF PlaceInv
<1> QED
  BY <1>1, <1>3, <1>4, <1>5 DEF NoteInv

LEMMA NoteStep == NoteInv /\ [Next]_vars => NoteInv'
  BY TypeStep, FileStep, PlaceStep, DistinctStep DEF NoteInv

LEMMA NoteInvariant == Spec => []NoteInv
  BY NoteInit, NoteStep, PTL DEF Spec
-----------------------------------------------------------------------------
(***************************************************************************)
(* None is lost, none is reported twice.                                   *)
(***************************************************************************)

LEMMA SpotsAre ==
  ASSUME TypeOK, NEW n
  PROVE  \A x : x \in Spots(n) <=>
           \/ \E i \in 1..Len(que) : que[i] = n /\ x = <<"queue", i>>
           \/ \E i \in 1..Len(file) : file[i] = n /\ x = <<"file", i>>
           \/ \E i \in 1..Len(report) : report[i] = n /\ x = <<"report", i>>
           \/ \E t \in Threads : \E i \in 1..Len(batch[t]) : batch[t][i] = n /\ x = <<t, i>>
           \/ n \in lost /\ x = <<"lost", 0>>
  BY DEF Spots

LEMMA OneSpot ==
  ASSUME NoteInv, NEW n \in 1..made
  PROVE  \E x : Spots(n) = {x}
<1>0. /\ que \in Seq(Nat) /\ file \in Seq(Nat) /\ report \in Seq(Nat)
      /\ \A t \in Threads : batch[t] \in Seq(Nat)
  BY PlaceTypes DEF NoteInv
<1>1. /\ n \in ToSet(que) <=> \E i \in 1..Len(que) : que[i] = n
      /\ n \in ToSet(file) <=> \E i \in 1..Len(file) : file[i] = n
      /\ n \in ToSet(report) <=> \E i \in 1..Len(report) : report[i] = n
  BY <1>0, SetOf
<1>2. \A t \in Threads : n \in ToSet(batch[t]) <=> \E i \in 1..Len(batch[t]) : batch[t][i] = n
  BY <1>0, SetOf
<1>3. /\ \A i, j \in 1..Len(que) : que[i] = que[j] => i = j
      /\ \A i, j \in 1..Len(file) : file[i] = file[j] => i = j
      /\ \A i, j \in 1..Len(report) : report[i] = report[j] => i = j
      /\ \A t \in Threads : \A i, j \in 1..Len(batch[t]) : batch[t][i] = batch[t][j] => i = j
  BY DEF NoteInv, DistinctInv, Distinct
<1>4. n \in Flying <=> \E t \in Threads : n \in ToSet(batch[t])
  BY DEF Flying
<1>5. /\ n \in ToSet(que) \/ n \in ToSet(file) \/ n \in ToSet(report) \/ n \in lost \/ n \in Flying
      /\ n \in ToSet(que) => n \notin ToSet(file) /\ n \notin ToSet(report) /\ n \notin lost /\ n \notin Flying
      /\ n \in ToSet(file) => n \notin ToSet(report) /\ n \notin lost /\ n \notin Flying
      /\ n \in ToSet(report) => n \notin lost /\ n \notin Flying
      /\ n \in lost => n \notin Flying
      /\ \A t, u \in Threads : n \in ToSet(batch[t]) /\ n \in ToSet(batch[u]) => t = u
  BY DEF NoteInv, PlaceInv
<1>6. \A x : x \in Spots(n) <=>
           \/ \E i \in 1..Len(que) : que[i] = n /\ x = <<"queue", i>>
           \/ \E i \in 1..Len(file) : file[i] = n /\ x = <<"file", i>>
           \/ \E i \in 1..Len(report) : report[i] = n /\ x = <<"report", i>>
           \/ \E t \in Threads : \E i \in 1..Len(batch[t]) : batch[t][i] = n /\ x = <<t, i>>
           \/ n \in lost /\ x = <<"lost", 0>>
  BY SpotsAre DEF NoteInv
<1>7. CASE n \in ToSet(que)
  <2>1. PICK i \in 1..Len(que) : que[i] = n
    BY <1>1, <1>7
  <2>2. \A x : x \in Spots(n) <=> x = <<"queue", i>>
    BY <1>1, <1>2, <1>3, <1>4, <1>5, <1>6, <1>7, <2>1
  <2>3. Spots(n) = {<<"queue", i>>}
    BY <2>2
  <2> QED
    BY <2>3
<1>8. CASE n \in ToSet(file)
  <2>1. PICK i \in 1..Len(file) : file[i] = n
    BY <1>1, <1>8
  <2>2. \A x : x \in Spots(n) <=> x = <<"file", i>>
    BY <1>1, <1>2, <1>3, <1>4, <1>5, <1>6, <1>8, <2>1
  <2>3. Spots(n) = {<<"file", i>>}
    BY <2>2
  <2> QED
    BY <2>3
<1>9. CASE n \in ToSet(report)
  <2>1. PICK i \in 1..Len(report) : report[i] = n
    BY <1>1, <1>9
  <2>2. \A x : x \in Spots(n) <=> x = <<"report", i>>
    BY <1>1, <1>2, <1>3, <1>4, <1>5, <1>6, <1>9, <2>1
  <2>3. Spots(n) = {<<"report", i>>}
    BY <2>2
  <2> QED
    BY <2>3
<1>10. CASE n \in Flying
  <2>0. PICK t \in Threads : n \in ToSet(batch[t])
    BY <1>4, <1>10
  <2>1. PICK i \in 1..Len(batch[t]) : batch[t][i] = n
    BY <1>2, <2>0
  <2>2. \A x : x \in Spots(n) <=> x = <<t, i>>
    <3>1. ASSUME NEW u \in Threads, NEW j \in 1..Len(batch[u]), batch[u][j] = n
          PROVE  u = t /\ j = i
      <4>1. u = t
        BY <1>2, <1>5, <2>0, <3>1
      <4> QED
        BY <1>3, <2>0, <2>1, <3>1, <4>1
    <3>2. n \notin ToSet(que) /\ n \notin ToSet(file) /\ n \notin ToSet(report) /\ n \notin lost
      BY <1>5, <1>10
    <3> QED
      BY <1>1, <1>6, <2>0, <2>1, <3>1, <3>2
  <2>3. Spots(n) = {<<t, i>>}
    BY <2>2
  <2> QED
    BY <2>3
<1>11. CASE n \in lost
  <2>1. \A x : x \in Spots(n) <=> x = <<"lost", 0>>
    BY <1>1, <1>2, <1>4, <1>5, <1>6, <1>11
  <2>2. Spots(n) = {<<"lost", 0>>}
    BY <2>1
  <2> QED
    BY <2>2
<1> QED
  BY <1>5, <1>7, <1>8, <1>9, <1>10, <1>11

\* Whatever the threads do to the queue and the file, a note is in exactly one
\* place (make_note, flush_file, read_all_note, Log.cpp).
THEOREM OnceOnlyCorrect == Spec => []OnceOnly
<1>1. NoteInv => OnceOnly
  BY OneSpot, FS_Singleton DEF OnceOnly
<1> QED
  BY <1>1, NoteInvariant, PTL

\* A log that is given its file's name before the first note loses none.
THEOREM NamedLosesNothing == Spec => [](StartNamed => NothingLost)
<1>1. NoteInv => (StartNamed => NothingLost)
  BY DEF NoteInv, FileInv, NothingLost
<1> QED
  BY <1>1, NoteInvariant, PTL
-----------------------------------------------------------------------------
(***************************************************************************)
(* The log implements the book.                                            *)
(***************************************************************************)

LEMMA BookInit == Init => Book!Init
  BY SetOfNone DEF Init, Book!Init

LEMMA BookStep ==
  ASSUME NoteInv, [Next]_vars
  PROVE  [Book!Next]_(Book!vars)
<1>0. /\ TypeOK /\ FileInv /\ PlaceInv
      /\ que \in Seq(Nat) /\ file \in Seq(Nat) /\ report \in Seq(Nat) /\ made \in Nat
      /\ \A t \in Threads : batch[t] \in Seq(Nat) /\ ToSet(batch[t]) \subseteq Flying
  BY PlaceTypes DEF NoteInv
<1> DEFINE old == ToSet(que) \cup ToSet(file) \cup Flying
           new == ToSet(que') \cup ToSet(file') \cup Flying'
<1>1. CASE Enters
  <2>1. /\ ToSet(que') = ToSet(que) \cup {made + 1} /\ made + 1 \notin 1..made
        /\ UNCHANGED <<file, report, lost, batch>>
    BY <1>0, <1>1, SetOfAppend DEF Enters
  <2>2. new = old \cup {made + 1} /\ ToSet(report') = ToSet(report) /\ lost' = lost
    BY <2>1 DEF Flying
  <2>3. made + 1 \notin old \cup ToSet(report) \cup lost
    BY <1>0, <2>1 DEF PlaceInv
  <2>4. Book!Make(made + 1)
    BY <2>2, <2>3 DEF Book!Make, Book!Known, Flying
  <2> QED
    BY <2>2, <2>4 DEF Book!Next, Flying
<1>2. ASSUME NEW t \in Threads, Departs(t)
      PROVE  [Book!Next]_(Book!vars)
  <2>1. Flying' = Flying \cup ToSet(que) /\ ToSet(que') = {} /\ UNCHANGED <<file, report, lost>>
    BY <1>0, <1>2, FlyingTo, SetOfNone DEF Departs
  <2>2. new = old /\ ToSet(report') = ToSet(report) /\ lost' = lost
    BY <2>1
  <2> QED
    BY <2>2 DEF Book!vars, Flying
<1>3. ASSUME NEW t \in Threads, Lands(t)
      PROVE  [Book!Next]_(Book!vars)
  <2>1. Flying' = Flying \ ToSet(batch[t])
    BY <1>0, <1>3, FlyingTo, SetOfNone DEF Lands, PlaceInv
  <2>2. ToSet(file') = ToSet(file) \cup ToSet(batch[t]) /\ UNCHANGED <<que, report, lost>>
    BY <1>0, <1>3, SetOfConcat DEF Lands
  <2>3. new = old /\ ToSet(report') = ToSet(report) /\ lost' = lost
    BY <1>0, <2>1, <2>2
  <2> QED
    BY <2>3 DEF Book!vars, Flying
<1>4. ASSUME NEW t \in Threads, GetsLost(t)
      PROVE  [Book!Next]_(Book!vars)
  <2>1. Flying' = Flying \ ToSet(batch[t])
    BY <1>0, <1>4, FlyingTo, SetOfNone DEF GetsLost, PlaceInv
  <2>2. lost' = lost \cup ToSet(batch[t]) /\ UNCHANGED <<que, file, report>> /\ ~StartNamed
    BY <1>0, <1>4 DEF GetsLost, FileInv
  <2>3. /\ ToSet(batch[t]) \subseteq old /\ ToSet(batch[t]) \cap lost = {} /\ lost \cap old = {}
        /\ ToSet(que) \cap ToSet(batch[t]) = {} /\ ToSet(file) \cap ToSet(batch[t]) = {}
    BY <1>0 DEF PlaceInv
  <2>4. new = old \ lost' /\ lost' \ lost \subseteq old
    BY <2>1, <2>2, <2>3
  <2>5. Book!Drop
    BY <2>2, <2>4 DEF Book!Drop, Flying
  <2> QED
    BY <2>5 DEF Book!Next
<1>5. CASE IsRead
  <2>1. /\ ToSet(report') = ToSet(report) \cup ToSet(file) /\ ToSet(file') = {}
        /\ UNCHANGED <<que, batch, lost>>
    BY <1>0, <1>5, SetOfConcat, SetOfNone DEF IsRead
  <2>2. Flying' = Flying
    BY <2>1 DEF Flying
  <2>3. new = old \ ToSet(report')
    BY <1>0, <2>1, <2>2 DEF PlaceInv
  <2>4. Book!Report
    BY <2>1, <2>3 DEF Book!Report, Flying
  <2> QED
    BY <2>4 DEF Book!Next
<1>6. CASE Rests
  BY <1>6 DEF Rests, Book!vars
<1> QED
  BY <1>0, <1>1, <1>2, <1>3, <1>4, <1>5, <1>6, NoteMoves

\* The queue, the batches and the file are one book of pending notes: a note
\* made is pending until one report takes it, and is dropped only if the log
\* had no file name at the start (Log.cpp).
THEOREM BookCorrect == Spec => ImplementsBook
<1>1. Init => Book!Init
  BY BookInit
<1>2. NoteInv /\ [Next]_vars => [Book!Next]_(Book!vars)
  BY BookStep
<1> QED
  BY <1>1, <1>2, NoteInvariant, PTL DEF Spec, ImplementsBook, Book!Spec
-----------------------------------------------------------------------------
(***************************************************************************)
(* The buffer.                                                             *)
(***************************************************************************)

\* A thread pushes its note after a flush only if it came from make_note.
PushInv == \A t \in Threads : pc[t] = "push" => back[t] = "push"

LEMMA PushStep ==
  ASSUME TypeOK, PushInv, [Next]_vars
  PROVE  PushInv'
<1> USE ThreadAssumption
<1>0. pc \in [Threads -> ThreadPC] /\ back \in [Threads -> {"push", "open"}]
  BY DEF TypeOK
<1>1. ASSUME NEW t \in Threads, NEW from \in {"idle", "note"}, NEW done \in {"idle", "rename"},
             Note(t, from, done)
      PROVE  PushInv'
  BY <1>0, <1>1 DEF Note, Goto, PushInv
<1>2. ASSUME NEW t \in Threads, Take(t) \/ Write(t) \/ Push(t)
      PROVE  PushInv'
  BY <1>0, <1>2 DEF Take, Write, Push, Goto, PushInv
<1>3. ASSUME ReadAllNote \/ ReadFile \/ FileMissing \/ Rename
      PROVE  PushInv'
  BY <1>0, <1>3 DEF ReadAllNote, ReadFile, FileMissing, Rename, Goto, PushInv
<1>4. CASE UNCHANGED vars
  BY <1>4 DEF vars, PushInv
<1> QED
  BY <1>1, <1>2, <1>3, <1>4, Steps

\* Sets of threads and their sizes.
LEMMA Sizes ==
  ASSUME NEW S, S \subseteq Threads
  PROVE  /\ IsFiniteSet(S) /\ Cardinality(S) \in Nat /\ Cardinality(S) <= Cardinality(Threads)
         /\ \A t \in Threads \ S : /\ Cardinality(S \cup {t}) = Cardinality(S) + 1
                                   /\ Cardinality(S) + 1 <= Cardinality(Threads)
         /\ \A t \in S : Cardinality(S \ {t}) = Cardinality(S) - 1
<1>1. IsFiniteSet(Threads) /\ IsFiniteSet(S) /\ Cardinality(S) <= Cardinality(Threads)
  BY ThreadAssumption, FS_Subset
<1>2. Cardinality(S) \in Nat /\ Cardinality(Threads) \in Nat
  BY <1>1, FS_CardinalityType
<1>3. ASSUME NEW t \in Threads \ S
      PROVE  Cardinality(S \cup {t}) = Cardinality(S) + 1 /\ Cardinality(S) + 1 <= Cardinality(Threads)
  <2>1. Cardinality(S \cup {t}) = Cardinality(S) + 1
    BY <1>1, FS_AddElement
  <2>2. S \cup {t} \subseteq Threads
    OBVIOUS
  <2>3. Cardinality(S \cup {t}) <= Cardinality(Threads)
    BY <1>1, <2>2, FS_Subset
  <2> QED
    BY <2>1, <2>3
<1>4. ASSUME NEW t \in S
      PROVE  Cardinality(S \ {t}) = Cardinality(S) - 1
  BY <1>1, FS_RemoveElement
<1> QED
  BY <1>1, <1>2, <1>3, <1>4

\* The counts that QueueBounded relates.
LEMMA CountTypes ==
  ASSUME TypeOK
  PROVE  /\ Effective \in Nat /\ Effective >= MaxBuffer /\ MaxBuffer \in Nat
         /\ Takers \subseteq Threads /\ Pushers \subseteq Threads
         /\ Cardinality(Takers) \in Nat /\ Cardinality(Pushers) \in Nat /\ Cardinality(Threads) \in Nat
         /\ Effective = MaxBuffer + Cardinality(Threads)
         /\ size \in Nat /\ Len(que) \in Nat
<1>1. Takers \subseteq Threads /\ Pushers \subseteq Threads
  BY DEF Takers, Pushers
<1>2. Cardinality(Takers) \in Nat /\ Cardinality(Pushers) \in Nat /\ Cardinality(Threads) \in Nat
  BY <1>1, Sizes
<1> QED
  BY <1>1, <1>2, BufferAssumption DEF Effective, TypeOK

\* Full buffers of k threads.
LEMMA Products ==
  ASSUME NEW e \in Nat, NEW k \in Nat
  PROVE  e * k \in Nat /\ e * (k + 1) = e * k + e
  OBVIOUS

\* The bound, with its product in a name.
LEMMA Bound ==
  ASSUME NEW e \in Nat, NEW k \in Nat, NEW f \in Nat, f = e * k, Effective' = e,
         \/ Cardinality(Takers') = k /\ Len(que') <= size' + f
         \/ Cardinality(Takers') = k + 1 /\ Len(que') <= size' + (f + e),
         size' + Cardinality(Pushers') <= e
  PROVE  QueueBounded'
<1>1. e * (k + 1) = f + e
  BY Products
<1>2. \/ Effective' * Cardinality(Takers') = f /\ Len(que') <= size' + f
      \/ Effective' * Cardinality(Takers') = f + e /\ Len(que') <= size' + (f + e)
  <2>1. Cardinality(Takers') = k => Effective' * Cardinality(Takers') = f
    OBVIOUS
  <2>2. Cardinality(Takers') = k + 1 => Effective' * Cardinality(Takers') = f + e
    BY <1>1
  <2> QED
    BY <2>1, <2>2
<1>3. Len(que') <= size' + Effective' * Cardinality(Takers')
  BY <1>2
<1> QED
  BY <1>3 DEF QueueBounded

LEMMA BoundedStep ==
  ASSUME TypeOK, PushInv, QueueBounded, [Next]_vars
  PROVE  QueueBounded'
<1> USE ThreadAssumption
<1>1. PICK e \in Nat, k \in Nat, p \in Nat :
        e = Effective /\ k = Cardinality(Takers) /\ p = Cardinality(Pushers)
  BY CountTypes
<1>2. PICK f \in Nat : f = e * k
  BY <1>1, Products
<1>3. Effective' = e
  BY <1>1 DEF Effective
<1>4. Len(que) <= size + f /\ size + p <= e
  <2>1. Len(que) <= size + Effective * Cardinality(Takers)
    BY DEF QueueBounded
  <2>2. Effective * Cardinality(Takers) = f
    BY <1>1, <1>2
  <2> QED
    BY <1>1, <2>1, <2>2 DEF QueueBounded
<1>5. /\ e \in Nat /\ k \in Nat /\ p \in Nat /\ f \in Nat /\ size \in Nat /\ Len(que) \in Nat
      /\ e = MaxBuffer + Cardinality(Threads) /\ MaxBuffer \in Nat /\ Cardinality(Threads) \in Nat
      /\ pc \in [Threads -> ThreadPC] /\ back \in [Threads -> {"push", "open"}]
  BY <1>1, <1>2, CountTypes DEF TypeOK
<1>6. ASSUME \/ /\ Cardinality(Takers') = k /\ Len(que') <= size' + f
                /\ size' + Cardinality(Pushers') <= e
             \/ /\ Cardinality(Takers') = k + 1 /\ Len(que') <= size' + (f + e)
                /\ size' + Cardinality(Pushers') <= e
      PROVE  QueueBounded'
  BY <1>2, <1>3, <1>5, <1>6, Bound
<1>7. ASSUME Takers' = Takers, Pushers' = Pushers, size' = size, que' = que
      PROVE  QueueBounded'
  <2>1. /\ Cardinality(Takers') = k /\ Len(que') <= size' + f
        /\ size' + Cardinality(Pushers') <= e
    BY <1>1, <1>4, <1>5, <1>7
  <2> QED
    BY <1>6, <2>1
<1>8. ASSUME NEW t \in Threads, NEW from \in {"idle", "note"}, NEW done \in {"idle", "rename"},
             Note(t, from, done)
      PROVE  \/ /\ Cardinality(Takers') = k /\ Len(que') <= size' + f
                /\ size' + Cardinality(Pushers') <= e
             \/ /\ Cardinality(Takers') = k + 1 /\ Len(que') <= size' + (f + e)
                /\ size' + Cardinality(Pushers') <= e
  <2>1. t \notin Takers /\ t \notin Pushers
    BY <1>8 DEF Note, Takers, Pushers
  <2>2. p + 1 <= Cardinality(Threads)
    BY <1>1, <2>1, CountTypes, Sizes
  <2>3. CASE IsFull
    <3>1. /\ size' = 0 /\ que' = que /\ pc' = [pc EXCEPT ![t] = "take"]
          /\ back' = [back EXCEPT ![t] = "push"]
      BY <1>8, <2>3 DEF Note, Goto
    <3>2. Takers' = Takers \cup {t} /\ Pushers' = Pushers \cup {t}
      BY <1>5, <3>1 DEF Takers, Pushers
    <3>3. Cardinality(Takers') = k + 1 /\ Cardinality(Pushers') = p + 1
      BY <1>1, <2>1, <3>2, CountTypes, Sizes
    <3> QED
      BY <1>4, <1>5, <2>2, <3>1, <3>3
  <2>4. CASE ~IsFull
    <3>1. /\ size' = size + 1 /\ que' = Append(que, made + 1) /\ pc' = [pc EXCEPT ![t] = done]
          /\ back' = back /\ pc[t] = from
      BY <1>8, <2>4 DEF Note, Goto, Enqueue
    <3>2. size <= MaxBuffer
      BY <1>5, <2>4 DEF IsFull
    <3>3. Takers' = Takers /\ Pushers' = Pushers
      BY <1>5, <3>1 DEF Takers, Pushers
    <3>4. Len(que') = Len(que) + 1
      BY <3>1 DEF TypeOK
    <3>5. Cardinality(Takers') = k /\ Len(que') <= size' + f
      BY <1>1, <1>4, <1>5, <3>1, <3>3, <3>4
    <3>6. size' + Cardinality(Pushers') <= e
      BY <1>1, <1>5, <2>2, <3>1, <3>2, <3>3
    <3> QED
      BY <3>5, <3>6
  <2> QED
    BY <2>3, <2>4
<1>9. ASSUME NEW t \in Threads, Take(t)
      PROVE  QueueBounded'
  <2>1. /\ pc[t] = "take" /\ que' = <<>> /\ pc' = [pc EXCEPT ![t] = "write"]
        /\ size' = size /\ back' = back
    BY <1>9 DEF Take, Goto
  <2>2. Pushers' = Pushers /\ Takers' \subseteq Threads
    BY <1>5, <2>1 DEF Takers, Pushers
  <2>3. PICK j \in Nat : j = Cardinality(Takers')
    BY <2>2, Sizes
  <2>4. Len(que') = 0 /\ e * j \in Nat
    BY <1>5, <2>1, Products
  <2>5. Len(que') <= size' + e * j
    BY <1>5, <2>1, <2>4
  <2>6. size' + Cardinality(Pushers') <= e
    BY <1>1, <1>4, <2>1, <2>2
  <2> QED
    BY <1>3, <2>3, <2>5, <2>6 DEF QueueBounded
<1>10. ASSUME NEW t \in Threads, Write(t)
       PROVE  Takers' = Takers /\ Pushers' = Pushers /\ size' = size /\ que' = que
  <2>1. /\ pc[t] = "write" /\ pc' = [pc EXCEPT ![t] = back[t]]
        /\ size' = size /\ que' = que /\ back' = back
    BY <1>10 DEF Write, Goto, buffer
  <2> QED
    BY <1>5, <2>1 DEF Takers, Pushers
<1>11. ASSUME NEW t \in Threads, Push(t)
       PROVE  /\ Cardinality(Takers') = k /\ Len(que') <= size' + f
              /\ size' + Cardinality(Pushers') <= e
  <2>1. /\ pc[t] = "push" /\ size' = size + 1 /\ que' = Append(que, made + 1)
        /\ pc' = [pc EXCEPT ![t] = IF holder = t THEN "rename" ELSE "idle"]
        /\ back' = back /\ back[t] = "push"
    BY <1>11 DEF Push, Goto, Enqueue, PushInv
  <2>2. Pushers' = Pushers \ {t} /\ Takers' = Takers /\ t \in Pushers
    BY <1>5, <2>1 DEF Takers, Pushers
  <2>3. Cardinality(Pushers') = p - 1
    BY <1>1, <2>2, CountTypes, Sizes
  <2>4. Len(que') = Len(que) + 1
    BY <2>1 DEF TypeOK
  <2> QED
    BY <1>1, <1>4, <1>5, <2>1, <2>2, <2>3, <2>4
<1>12. ASSUME ReadAllNote
       PROVE  \/ /\ Cardinality(Takers') = k /\ Len(que') <= size' + f
                 /\ size' + Cardinality(Pushers') <= e
              \/ /\ Cardinality(Takers') = k + 1 /\ Len(que') <= size' + (f + e)
                 /\ size' + Cardinality(Pushers') <= e
  <2>1. /\ pc[Reader] = "idle" /\ size' = size /\ que' = que
        /\ pc' = [pc EXCEPT ![Reader] = IF que = <<>> THEN "open" ELSE "take"]
        /\ back' = [back EXCEPT ![Reader] = "open"]
    BY <1>12 DEF ReadAllNote, Goto, buffer
  <2>2. Pushers' = Pushers /\ Reader \notin Takers /\ (Takers' = Takers \/ Takers' = Takers \cup {Reader})
    BY <1>5, <2>1 DEF Takers, Pushers
  <2>3. Cardinality(Takers') = k \/ Cardinality(Takers') = k + 1
    BY <1>1, <2>2, CountTypes, Sizes
  <2> QED
    BY <1>1, <1>4, <1>5, <2>1, <2>2, <2>3
<1>13. ASSUME ReadFile \/ FileMissing \/ Rename
       PROVE  Takers' = Takers /\ Pushers' = Pushers /\ size' = size /\ que' = que
  <2>1. /\ size' = size /\ que' = que /\ back' = back
        /\ pc[Reader] \in {"open", "rename"}
        /\ \E l \in {"idle", "note"} : pc' = [pc EXCEPT ![Reader] = l]
    BY <1>13 DEF ReadFile, FileMissing, Rename, Goto, buffer
  <2> QED
    BY <1>5, <2>1 DEF Takers, Pushers
<1>14. UNCHANGED vars => Takers' = Takers /\ Pushers' = Pushers /\ size' = size /\ que' = que
  BY DEF vars, buffer, Takers, Pushers
<1> QED
  BY <1>6, <1>7, <1>8, <1>9, <1>10, <1>11, <1>12, <1>13, <1>14, Steps

LEMMA BoundedInit == Init => PushInv /\ QueueBounded
<1> SUFFICES ASSUME Init
             PROVE  PushInv /\ QueueBounded
  OBVIOUS
<1>1. PushInv
  BY DEF Init, PushInv
<1>2. TypeOK /\ Len(que) = 0 /\ size = 0 /\ \A t \in Threads : pc[t] = "idle"
  BY TypeInit DEF Init
<1>3. Takers = {} /\ Pushers = {}
  BY <1>2 DEF Takers, Pushers
<1>4. Cardinality(Takers) = 0 /\ Cardinality(Pushers) = 0
  BY <1>3, FS_EmptySet
<1> QED
  BY <1>1, <1>2, <1>4, CountTypes, Products DEF QueueBounded

\* The queue grows past MAX_BUFFER_QUEUE only with the threads that are on
\* their way to flush it (make_note sets que_size to 0 before flush_file has
\* taken the notes, Log.cpp).
THEOREM QueueBoundedCorrect == Spec => []QueueBounded
<1>1. TypeOK /\ PushInv /\ QueueBounded /\ [Next]_vars => (TypeOK /\ PushInv /\ QueueBounded)'
  BY TypeStep, PushStep, BoundedStep
<1> QED
  BY <1>1, TypeInit, BoundedInit, PTL DEF Spec
-----------------------------------------------------------------------------
(***************************************************************************)
(* The order of the notes.                                                 *)
(***************************************************************************)

Sorted(s)    == \A i, j \in 1..Len(s) : i < j => s[i] < s[j]
Before(s, r) == \A m \in ToSet(s), n \in ToSet(r) : m < n

LEMMA SortedConcat ==
  ASSUME NEW s \in Seq(Nat), NEW r \in Seq(Nat)
  PROVE  Sorted(s \o r) <=> Sorted(s) /\ Sorted(r) /\ Before(s, r)
<1> DEFINE u == s \o r
<1>1. /\ u \in Seq(Nat) /\ Len(u) = Len(s) + Len(r) /\ Len(s) \in Nat /\ Len(r) \in Nat
      /\ \A i \in 1..Len(s) : u[i] = s[i]
      /\ \A i \in 1..Len(u) : i > Len(s) => i - Len(s) \in 1..Len(r) /\ u[i] = r[i - Len(s)]
  BY ConcatProperties
<1>2. \A i \in 1..Len(r) : i + Len(s) \in 1..Len(u) /\ u[i + Len(s)] = r[i]
  BY <1>1
<1>3. \A i \in 1..Len(s) : i \in 1..Len(u)
  BY <1>1
<1> HIDE DEF u
<1>4. Before(s, r) <=> \A i \in 1..Len(s), j \in 1..Len(r) : s[i] < r[j]
  <2>1. /\ \A m : m \in ToSet(s) <=> \E i \in 1..Len(s) : s[i] = m
        /\ \A m : m \in ToSet(r) <=> \E i \in 1..Len(r) : r[i] = m
    BY SetOf
  <2>2. ASSUME Before(s, r), NEW i \in 1..Len(s), NEW j \in 1..Len(r)
        PROVE  s[i] < r[j]
    <3>1. s[i] \in ToSet(s) /\ r[j] \in ToSet(r)
      BY <2>1
    <3> QED
      BY <2>2, <3>1 DEF Before
  <2>3. ASSUME \A i \in 1..Len(s), j \in 1..Len(r) : s[i] < r[j], NEW m \in ToSet(s), NEW n \in ToSet(r)
        PROVE  m < n
    <3>1. PICK i \in 1..Len(s) : s[i] = m
      BY <2>1
    <3>2. PICK j \in 1..Len(r) : r[j] = n
      BY <2>1
    <3> QED
      BY <2>3, <3>1, <3>2
  <2> QED
    BY <2>2, <2>3 DEF Before
<1>5. ASSUME Sorted(u)
      PROVE  Sorted(s) /\ Sorted(r) /\ Before(s, r)
  <2>1. ASSUME NEW i \in 1..Len(s), NEW j \in 1..Len(s), i < j
        PROVE  s[i] < s[j]
    BY <1>1, <1>3, <1>5, <2>1 DEF Sorted
  <2>2. ASSUME NEW i \in 1..Len(r), NEW j \in 1..Len(r), i < j
        PROVE  r[i] < r[j]
    <3>1. i + Len(s) < j + Len(s)
      BY <1>1, <2>2
    <3>2. u[i + Len(s)] < u[j + Len(s)]
      BY <1>2, <1>5, <3>1 DEF Sorted
    <3> QED
      BY <1>2, <3>2
  <2>3. ASSUME NEW i \in 1..Len(s), NEW j \in 1..Len(r)
        PROVE  s[i] < r[j]
    <3>1. i < j + Len(s)
      BY <1>1
    <3>2. u[i] < u[j + Len(s)]
      BY <1>2, <1>3, <1>5, <3>1 DEF Sorted
    <3> QED
      BY <1>1, <1>2, <3>2
  <2> QED
    BY <1>4, <2>1, <2>2, <2>3 DEF Sorted
<1>6. ASSUME Sorted(s), Sorted(r), Before(s, r)
      PROVE  Sorted(u)
  <2>1. SUFFICES ASSUME NEW i \in 1..Len(u), NEW j \in 1..Len(u), i < j
                 PROVE  u[i] < u[j]
    BY DEF Sorted
  <2>2. CASE i \in 1..Len(s) /\ j \in 1..Len(s)
    BY <1>1, <1>6, <2>1, <2>2 DEF Sorted
  <2>3. CASE i \in 1..Len(s) /\ j > Len(s)
    BY <1>1, <1>4, <1>6, <2>1, <2>3
  <2>4. CASE i > Len(s) /\ j > Len(s)
    <3>1. i - Len(s) \in 1..Len(r) /\ j - Len(s) \in 1..Len(r) /\ i - Len(s) < j - Len(s)
      BY <1>1, <2>1, <2>4
    <3>2. r[i - Len(s)] < r[j - Len(s)]
      BY <1>6, <3>1 DEF Sorted
    <3> QED
      BY <1>1, <2>1, <2>4, <3>2
  <2> QED
    BY <1>1, <2>1, <2>2, <2>3, <2>4
<1> QED
  BY <1>5, <1>6 DEF u

\* A note that is later than all of s.
LEMMA SortedAppend ==
  ASSUME NEW s \in Seq(Nat), NEW n \in Nat, Sorted(s), \A m \in ToSet(s) : m < n
  PROVE  Sorted(Append(s, n))
<1> DEFINE u == Append(s, n)
<1>1. /\ Len(u) = Len(s) + 1 /\ Len(s) \in Nat /\ u[Len(s) + 1] = n
      /\ \A i \in 1..Len(s) : u[i] = s[i]
  OBVIOUS
<1>2. \A i \in 1..Len(s) : s[i] < n
  BY SetOf
<1> HIDE DEF u
<1>3. SUFFICES ASSUME NEW i \in 1..Len(u), NEW j \in 1..Len(u), i < j
               PROVE  u[i] < u[j]
  BY DEF Sorted, u
<1>4. CASE j \in 1..Len(s)
  BY <1>1, <1>3, <1>4 DEF Sorted
<1>5. CASE j = Len(s) + 1
  BY <1>1, <1>2, <1>3, <1>5
<1> QED
  BY <1>1, <1>3, <1>4, <1>5

LEMMA SortedNone == Sorted(<<>>)
  BY DEF Sorted

\* Four parts in order.
Ordered(a, b, c, d) ==
  /\ Sorted(a) /\ Sorted(b) /\ Sorted(c) /\ Sorted(d)
  /\ Before(a, b) /\ Before(a, c) /\ Before(a, d)
  /\ Before(b, c) /\ Before(b, d) /\ Before(c, d)

LEMMA OrderedAll ==
  ASSUME NEW a \in Seq(Nat), NEW b \in Seq(Nat), NEW c \in Seq(Nat), NEW d \in Seq(Nat)
  PROVE  Ordered(a, b, c, d) <=> Sorted(a \o b \o c \o d)
<1>1. a \o b \in Seq(Nat) /\ a \o b \o c \in Seq(Nat)
  OBVIOUS
<1>2. Sorted(a \o b) <=> Sorted(a) /\ Sorted(b) /\ Before(a, b)
  BY SortedConcat
<1>3. Sorted(a \o b \o c) <=> Sorted(a \o b) /\ Sorted(c) /\ Before(a \o b, c)
  BY <1>1, SortedConcat
<1>4. Sorted(a \o b \o c \o d) <=> Sorted(a \o b \o c) /\ Sorted(d) /\ Before(a \o b \o c, d)
  BY <1>1, SortedConcat
<1>5. ToSet(a \o b) = ToSet(a) \cup ToSet(b) /\ ToSet(a \o b \o c) = ToSet(a) \cup ToSet(b) \cup ToSet(c)
  <2>1. ToSet(a \o b) = ToSet(a) \cup ToSet(b)
    BY SetOfConcat
  <2>2. ToSet((a \o b) \o c) = ToSet(a \o b) \cup ToSet(c)
    BY <1>1, SetOfConcat
  <2> QED
    BY <2>1, <2>2
<1>6. Before(a \o b, c) <=> Before(a, c) /\ Before(b, c)
  BY <1>5 DEF Before
<1>7. Before(a \o b \o c, d) <=> Before(a, d) /\ Before(b, d) /\ Before(c, d)
  BY <1>5 DEF Before
<1> QED
  BY <1>2, <1>3, <1>4, <1>6, <1>7 DEF Ordered

\* The notes in flight, when one thread is writing and when none is.
FlightOf(p, b) == IF \E t \in Threads : p[t] = "write"
                  THEN b[CHOOSE t \in Threads : p[t] = "write"] ELSE <<>>

LEMMA OneFlight ==
  ASSUME NEW p, NEW b, NEW t \in Threads, p[t] = "write",
         \A u \in Threads : p[u] = "write" => u = t
  PROVE  FlightOf(p, b) = b[t]
<1>1. (CHOOSE u \in Threads : p[u] = "write") = t
  OBVIOUS
<1> QED
  BY <1>1 DEF FlightOf

LEMMA NoFlight ==
  ASSUME NEW p, NEW b, \A u \in Threads : p[u] # "write"
  PROVE  FlightOf(p, b) = <<>>
  BY DEF FlightOf

LEMMA FlightIs == InFlight = FlightOf(pc, batch) /\ InFlight' = FlightOf(pc', batch')
  BY DEF InFlight, FlightOf

\* Who is writing.
OneWriter == ~overlap => \A t, u \in Threads : pc[t] = "write" /\ pc[u] = "write" => t = u

WritersStay == overlap' = overlap /\ \A u \in Threads : pc'[u] = "write" <=> pc[u] = "write"
StartsWriting(t) == /\ overlap' = (overlap \/ \E u \in Threads : pc[u] = "write")
                    /\ pc'[t] = "write" /\ \A u \in Threads : u # t => pc'[u] = pc[u]
StopsWriting(t) == /\ overlap' = overlap /\ pc[t] = "write"
                   /\ pc'[t] # "write" /\ \A u \in Threads : u # t => pc'[u] = pc[u]

LEMMA WriterMoves ==
  ASSUME TypeOK, FileInv, [Next]_vars
  PROVE  \/ (Enters \/ IsRead \/ Rests) /\ WritersStay
         \/ \E t \in Threads : Departs(t) /\ StartsWriting(t)
         \/ \E t \in Threads : (Lands(t) \/ GetsLost(t)) /\ StopsWriting(t)
<1> USE ThreadAssumption
<1>0. pc \in [Threads -> ThreadPC] /\ \A t \in Threads : back[t] \in {"push", "open"}
  BY DEF TypeOK
<1>1. ASSUME NEW t \in Threads, NEW from \in {"idle", "note"}, NEW done \in {"idle", "rename"},
             Note(t, from, done)
      PROVE  (Enters \/ Rests) /\ WritersStay
  <2>1. Enters \/ Rests
    BY <1>1 DEF Note, Enqueue, Enters, Rests, disk
  <2>2. WritersStay
    BY <1>0, <1>1 DEF Note, Goto, WritersStay
  <2> QED
    BY <2>1, <2>2
<1>2. ASSUME NEW t \in Threads, Take(t)
      PROVE  Departs(t) /\ StartsWriting(t)
  BY <1>0, <1>2 DEF Take, Departs, TypeOK, disk, StartsWriting, Goto
<1>3. ASSUME NEW t \in Threads, Write(t)
      PROVE  (Lands(t) \/ GetsLost(t)) /\ StopsWriting(t)
  <2>1. Lands(t) \/ GetsLost(t)
    BY <1>3 DEF Write, Lands, GetsLost, buffer
  <2>2. StopsWriting(t)
    BY <1>0, <1>3 DEF Write, StopsWriting, Goto
  <2> QED
    BY <2>1, <2>2
<1>4. ASSUME NEW t \in Threads, Push(t)
      PROVE  Enters /\ WritersStay
  <2>1. Enters
    BY <1>4 DEF Push, Enqueue, Enters, disk
  <2>2. WritersStay
    BY <1>0, <1>4 DEF Push, WritersStay, Goto
  <2> QED
    BY <2>1, <2>2
<1>5. ASSUME ReadAllNote \/ FileMissing
      PROVE  Rests /\ WritersStay
  BY <1>0, <1>5 DEF ReadAllNote, FileMissing, Rests, buffer, disk, Goto, WritersStay
<1>6. ASSUME ReadFile
      PROVE  IsRead /\ WritersStay
  BY <1>0, <1>6 DEF ReadFile, IsRead, buffer, Goto, WritersStay
<1>7. ASSUME Rename
      PROVE  Rests /\ WritersStay
  <2>1. file = <<>>
    BY <1>7 DEF Rename, FileInv
  <2> QED
    BY <1>0, <1>7, <2>1 DEF Rename, Rests, buffer, Goto, WritersStay
<1>8. CASE UNCHANGED vars
  BY <1>8 DEF vars, buffer, disk, Rests, WritersStay
<1> QED
  BY <1>1, <1>2, <1>3, <1>4, <1>5, <1>6, <1>7, <1>8, Steps

LEMMA WriterStep ==
  ASSUME TypeOK, FileInv, OneWriter, [Next]_vars
  PROVE  OneWriter'
<1>1. ASSUME WritersStay
      PROVE  OneWriter'
  BY <1>1 DEF WritersStay, OneWriter
<1>2. ASSUME NEW t \in Threads, StartsWriting(t)
      PROVE  OneWriter'
  BY <1>2 DEF StartsWriting, OneWriter
<1>3. ASSUME NEW t \in Threads, StopsWriting(t)
      PROVE  OneWriter'
  BY <1>3 DEF StopsWriting, OneWriter
<1> QED
  BY <1>1, <1>2, <1>3, WriterMoves

OrderInv == ~overlap => Ordered(report, file, FlightOf(pc, batch), que)

LEMMA OrderStep ==
  ASSUME NoteInv, OneWriter, OrderInv, [Next]_vars
  PROVE  OrderInv'
<1>0. /\ TypeOK /\ FileInv /\ PlaceInv
      /\ que \in Seq(Nat) /\ file \in Seq(Nat) /\ report \in Seq(Nat) /\ made \in Nat
      /\ batch \in [Threads -> Seq(Nat)]
  BY PlaceTypes DEF NoteInv, TypeOK
<1> SUFFICES ASSUME ~overlap'
             PROVE  Ordered(report', file', FlightOf(pc', batch'), que')
  BY DEF OrderInv, Ordered, Sorted, Before, FlightOf
<1>1. ~overlap => /\ Ordered(report, file, FlightOf(pc, batch), que)
                  /\ \A t, u \in Threads : pc[t] = "write" /\ pc[u] = "write" => t = u
  BY DEF OrderInv, OneWriter
<1>2. \A s : Before(<<>>, s) /\ Before(s, <<>>)
  BY SetOfNone DEF Before
<1>3. ASSUME WritersStay, UNCHANGED batch, Enters \/ IsRead \/ Rests
      PROVE  Ordered(report', file', FlightOf(pc', batch'), que')
  <2>1. ~overlap /\ \A u \in Threads : pc'[u] = "write" <=> pc[u] = "write"
    BY <1>3 DEF WritersStay
  <2>2. PICK f : f = FlightOf(pc, batch)
    OBVIOUS
  <2>3. FlightOf(pc', batch') = f
    <3>1. CASE \E t \in Threads : pc[t] = "write"
      <4>1. PICK t \in Threads : pc[t] = "write"
        BY <3>1
      <4>2. \A u \in Threads : pc[u] = "write" => u = t
        BY <1>1, <2>1, <4>1
      <4>3. FlightOf(pc, batch) = batch[t]
        BY <4>1, <4>2, OneFlight
      <4>4. FlightOf(pc', batch') = batch'[t]
        BY <2>1, <4>1, <4>2, OneFlight
      <4> QED
        BY <1>3, <2>2, <4>3, <4>4
    <3>2. CASE ~\E t \in Threads : pc[t] = "write"
      BY <2>1, <2>2, <3>2, NoFlight
    <3> QED
      BY <3>1, <3>2
  <2>4. Ordered(report, file, f, que)
    BY <1>1, <2>1, <2>2
  <2>5. ToSet(f) \subseteq 1..made
    <3>1. ToSet(f) \subseteq Flying
      <4>1. CASE \E t \in Threads : pc[t] = "write"
        <5>1. PICK t \in Threads : pc[t] = "write"
          BY <4>1
        <5>2. \A u \in Threads : pc[u] = "write" => u = t
          BY <1>1, <2>1, <5>1
        <5>3. f = batch[t]
          BY <2>2, <5>1, <5>2, OneFlight
        <5> QED
          BY <1>0, <5>3, PlaceTypes
      <4>2. CASE ~\E t \in Threads : pc[t] = "write"
        <5>1. f = <<>>
          BY <2>2, <4>2, NoFlight
        <5> QED
          BY <5>1, SetOfNone
      <4> QED
        BY <4>1, <4>2
    <3> QED
      BY <1>0, <3>1 DEF PlaceInv
  <2>6. CASE Enters
    <3>1. que' = Append(que, made + 1) /\ file' = file /\ report' = report
      BY <2>6 DEF Enters
    <3>2. \A m \in ToSet(que) \cup ToSet(file) \cup ToSet(report) \cup ToSet(f) : m < made + 1
      <4>1. ToSet(que) \cup ToSet(file) \cup ToSet(report) \cup ToSet(f) \subseteq 1..made
        BY <1>0, <2>5 DEF PlaceInv
      <4> QED
        BY <1>0, <4>1
    <3>3. Sorted(que')
      BY <1>0, <2>4, <3>1, <3>2, SortedAppend DEF Ordered
    <3>4. ToSet(que') = ToSet(que) \cup {made + 1}
      BY <1>0, <3>1, SetOfAppend
    <3>5. Before(report, que') /\ Before(file, que') /\ Before(f, que')
      BY <2>4, <3>2, <3>4 DEF Ordered, Before
    <3>6. Ordered(report', file', f, que')
      BY <2>4, <3>1, <3>3, <3>5 DEF Ordered
    <3> QED
      BY <2>3, <3>6 DEF Ordered, Sorted, Before
  <2>7. CASE IsRead
    <3>1. report' = report \o file /\ file' = <<>> /\ que' = que
      BY <2>7 DEF IsRead
    <3>2. Sorted(report') /\ ToSet(report') = ToSet(report) \cup ToSet(file)
      BY <1>0, <2>4, <3>1, SortedConcat, SetOfConcat DEF Ordered
    <3>3. Before(report', f) /\ Before(report', que')
      BY <2>4, <3>1, <3>2 DEF Ordered, Before
    <3>4. Ordered(report', file', f, que')
      BY <1>2, <2>4, <3>1, <3>2, <3>3, SortedNone DEF Ordered
    <3> QED
      BY <2>3, <3>4 DEF Ordered, Sorted, Before
  <2>8. CASE Rests
    <3>1. Ordered(report', file', f, que')
      BY <2>4, <2>8 DEF Rests
    <3> QED
      BY <2>3, <3>1 DEF Ordered, Sorted, Before
  <2> QED
    BY <1>3, <2>6, <2>7, <2>8
<1>4. ASSUME NEW t \in Threads, Departs(t), StartsWriting(t)
      PROVE  Ordered(report', file', FlightOf(pc', batch'), que')
  <2>1. ~overlap /\ (\A u \in Threads : pc[u] # "write") /\ pc'[t] = "write"
        /\ \A u \in Threads : pc'[u] = "write" => u = t
    BY <1>4 DEF StartsWriting
  <2>2. FlightOf(pc, batch) = <<>>
    BY <2>1, NoFlight
  <2>3. FlightOf(pc', batch') = batch'[t]
    BY <2>1, OneFlight
  <2>4. batch'[t] = que /\ que' = <<>> /\ file' = file /\ report' = report
    BY <1>0, <1>4 DEF Departs
  <2>5. Ordered(report, file, <<>>, que)
    BY <1>1, <2>1, <2>2
  <2>6. Ordered(report, file, que, <<>>)
    BY <1>2, <2>5 DEF Ordered
  <2> QED
    BY <2>3, <2>4, <2>6
<1>5. ASSUME NEW t \in Threads, Lands(t) \/ GetsLost(t), StopsWriting(t)
      PROVE  Ordered(report', file', FlightOf(pc', batch'), que')
  <2>1. /\ ~overlap /\ pc[t] = "write" /\ \A u \in Threads : pc[u] = "write" => u = t
        /\ \A u \in Threads : pc'[u] # "write"
    BY <1>1, <1>5 DEF StopsWriting
  <2>2. PICK f \in Seq(Nat) : f = batch[t]
    BY <1>0
  <2>3. FlightOf(pc, batch) = f /\ FlightOf(pc', batch') = <<>>
    BY <2>1, <2>2, OneFlight, NoFlight
  <2>4. Ordered(report, file, f, que)
    BY <1>1, <2>1, <2>3
  <2>5. CASE Lands(t)
    <3>1. file' = file \o f /\ que' = que /\ report' = report
      BY <2>2, <2>5 DEF Lands
    <3>2. Sorted(file') /\ ToSet(file') = ToSet(file) \cup ToSet(f)
      BY <1>0, <2>2, <2>4, <3>1, SortedConcat, SetOfConcat DEF Ordered
    <3>3. Before(report, file') /\ Before(file', que)
      BY <2>4, <3>2 DEF Ordered, Before
    <3>4. Ordered(report', file', <<>>, que')
      BY <1>2, <2>4, <3>1, <3>2, <3>3, SortedNone DEF Ordered
    <3> QED
      BY <2>3, <3>4
  <2>6. CASE GetsLost(t)
    <3>1. file' = file /\ que' = que /\ report' = report
      BY <2>6 DEF GetsLost
    <3>2. Ordered(report', file', <<>>, que')
      BY <1>2, <2>4, <3>1, SortedNone DEF Ordered
    <3> QED
      BY <2>3, <3>2
  <2> QED
    BY <1>5, <2>5, <2>6
<1> QED
  BY <1>3, <1>4, <1>5, WriterMoves, <1>0 DEF Enters, IsRead, Rests

LEMMA OrderIsInOrder ==
  ASSUME TypeOK, OneWriter, OrderInv
  PROVE  InOrder
<1>1. SUFFICES ASSUME ~overlap
               PROVE  Sorted(report \o file \o InFlight \o que)
  BY DEF InOrder, Sorted
<1>2. PICK f : f = FlightOf(pc, batch) /\ f = InFlight
  BY FlightIs
<1>3. f \in Seq(Nat)
  <2>1. CASE \E t \in Threads : pc[t] = "write"
    <3>1. PICK t \in Threads : pc[t] = "write"
      BY <2>1
    <3>2. f = batch[t]
      BY <1>1, <1>2, <3>1, OneFlight DEF OneWriter
    <3> QED
      BY <3>2 DEF TypeOK
  <2>2. CASE ~\E t \in Threads : pc[t] = "write"
    <3>1. f = <<>>
      BY <1>2, <2>2, NoFlight
    <3> QED
      BY <3>1
  <2> QED
    BY <2>1, <2>2
<1>4. Ordered(report, file, f, que)
  BY <1>1, <1>2 DEF OrderInv
<1>5. Sorted(report \o file \o f \o que)
  BY <1>3, <1>4, PlaceTypes, OrderedAll
<1> QED
  BY <1>2, <1>5

LEMMA OrderInit == Init => OneWriter /\ OrderInv
<1> SUFFICES ASSUME Init
             PROVE  OneWriter /\ OrderInv
  OBVIOUS
<1>1. /\ que = <<>> /\ file = <<>> /\ report = <<>> /\ \A t \in Threads : pc[t] # "write"
  BY DEF Init
<1>2. FlightOf(pc, batch) = <<>>
  BY <1>1, NoFlight
<1>3. Before(<<>>, <<>>)
  BY SetOfNone DEF Before
<1> QED
  BY <1>1, <1>2, <1>3, SortedNone DEF OneWriter, OrderInv, Ordered

\* As long as no two flushes overlap the notes are reported in the order they
\* were made, although the queue is taken under one mutex and written under
\* another (flush_file, Log.cpp).
THEOREM InOrderCorrect == Spec => []InOrder
<1>1. Init => NoteInv /\ OneWriter /\ OrderInv
  BY NoteInit, OrderInit
<1>2. NoteInv /\ OneWriter /\ OrderInv /\ [Next]_vars => (NoteInv /\ OneWriter /\ OrderInv)'
  BY NoteStep, WriterStep, OrderStep DEF NoteInv
<1>3. NoteInv /\ OneWriter /\ OrderInv => InOrder
  BY OrderIsInOrder DEF NoteInv
<1> QED
  BY <1>1, <1>2, <1>3, PTL DEF Spec
=============================================================================
