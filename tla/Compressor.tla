----------------------------- MODULE Compressor -----------------------------
(***************************************************************************)
(* Compressor, fed by the loop of Log::read_all_note: the log is read in   *)
(* portions of MAX_LOG_READ notes, each portion is counted and dropped,    *)
(* and the notes of connections that have no end yet wait in transfer for  *)
(* the next portion.                                                       *)
(*                                                                         *)
(* A note carries the number n of its line, which only tells equal notes   *)
(* apart; sz is the count of the container that the code keeps beside it.  *)
(* The lines of the file are chosen as they are read, in order of time     *)
(* (Log!InOrder); log is what has been read.                               *)
(***************************************************************************)
EXTENDS Integers, Sequences, FiniteSets, FiniteSetsExt

CONSTANTS Addrs,
          Codes,       \* the codes of the notes
          Gaps,        \* the time between two notes
          MaxLogRead,  \* MAX_LOG_READ
          Limit,       \* LIMIT_ACCUMULATION_ADDR
          MaxLength    \* bound: the lines of a log

ASSUME NoteAssumption  == Codes \subseteq Nat /\ Gaps \subseteq Nat
ASSUME LimitAssumption == MaxLogRead \in Nat \ {0} /\ Limit = MaxLogRead
ASSUME BoundAssumption == MaxLength \in Nat

connection == 100001
closing    == 100002
longest    == 400001
average    == 400002
sessions   == 400004
\* count_codes in make_compress
CountCodes == {107, 402, 1001, 1003, 2001, 200001}

VARIABLES
  log,       \* the lines read so far
  transfer,
  sz,
  info,      \* compressed_info: the codes that have an entry, with its value
  done,      \* the last make_compress has been made
  cleared    \* history: transfer was emptied at Limit

vars == <<log, transfer, sz, info, done, cleared>>

Note == [code : Codes, addr : Addrs, at : Nat, n : Nat]

Of(c, S) == {x \in S : x.code = c}
Value(c) == IF c \in DOMAIN info THEN info[c] ELSE 0

Init == /\ log = <<>>
        /\ transfer = {} /\ sz = 0
        /\ info = [c \in {} |-> 0]
        /\ done = FALSE /\ cleared = FALSE
-----------------------------------------------------------------------------
\* The counting half of make_compress, for the notes S.
Counted(S) == {x \in S : x.code \in CountCodes}
\* compressed_info[c] = f[c] for every c that f has.
With(m, f) == [c \in DOMAIN m \cup DOMAIN f |-> IF c \in DOMAIN f THEN f[c] ELSE m[c]]

\* Wrong variant: = for +=.
TalliedLast(S) == With(info, [c \in {x.code : x \in Counted(S)} |-> Cardinality(Of(c, S))])

Tallied(S) == With(info, [c \in {x.code : x \in Counted(S)} |->
                            Value(c) + Cardinality(Of(c, S))])

\* handle_time on the notes S that are left.  A connection is matched if the
\* portion has an end for its address; first is the end of each address that
\* the unordered map lists first, and every connection of the address is
\* measured against that one.
Ends(S)        == {x.addr : x \in Of(closing, S)}
Matched(S)     == {x \in Of(connection, S) : x.addr \in Ends(S)}
FirstEnds(S)   == {first \in [Ends(S) -> Of(closing, S)] :
                     \A a \in Ends(S) : first[a].addr = a}
\* Wrong variant: the difference the wrong way round.
SpanBack(first, x) == x.at - first[x.addr].at

Span(first, x) == first[x.addr].at - x.at

\* max_time and average_time, in the report so far.  The quotient is truncated
\* in the code and rounded down here: they differ only below zero, where the
\* old value of 400002 wins.
Longest(S, first) == Max({Value(longest), 0} \cup {Span(first, x) : x \in Matched(S)})

Mean(S, first) == IF Matched(S) = {} THEN 0
                  ELSE MapThenSumSet(LAMBDA x : Span(first, x), Matched(S))
                         \div Cardinality(Matched(S))

\* Wrong variant: the average is that of the last portion.
AverageLast(S, first) == Mean(S, first)

Average(S, first) == Max({Value(average), Mean(S, first)})

Timed(m, S, first) ==
  With(m, [c \in {sessions, longest, average} |->
             IF c = sessions THEN Value(sessions) + Cardinality(Matched(S))
             ELSE IF c = longest THEN Longest(S, first) ELSE Average(S, first)])

\* Wrong variants: the open connections go too; sz-- for the matched only.
ErasedAll(S)      == Of(closing, S) \cup Of(connection, S)
RemovedMatched(S) == Cardinality(Matched(S))

\* item_erase, and how often its loop decrements sz.
Erased(S)  == Of(closing, S) \cup Matched(S)
Removed(S) == Cardinality(Of(closing, S)) + Cardinality(Matched(S))

\* make_compress on a container with the notes S and the count k.
Compress(S, k) ==
  LET rest == S \ Counted(S)
      left == k - Cardinality(Counted(S))
      size == left - Removed(rest)
  IN IF left = 0
     THEN /\ transfer' = rest /\ sz' = left
          /\ info' = Tallied(S)
          /\ UNCHANGED cleared
     ELSE /\ \E first \in FirstEnds(rest) : info' = Timed(Tallied(S), rest, first)
          /\ transfer' = IF size = Limit THEN {} ELSE rest \ Erased(rest)
          /\ sz' = IF size = Limit THEN 0 ELSE size
          /\ cleared' = (cleared \/ size = Limit)

\* One line: insert, and make_compress once the container is full.
ReadLine(c, a, gap) ==
  LET last == IF log = <<>> THEN 0 ELSE log[Len(log)].at
      note == [code |-> c, addr |-> a, at |-> last + gap, n |-> Len(log) + 1]
  IN /\ ~done /\ Len(log) < MaxLength
     /\ log' = Append(log, note)
     /\ IF sz + 1 = MaxLogRead
        THEN Compress(transfer \cup {note}, sz + 1)
        ELSE /\ transfer' = transfer \cup {note} /\ sz' = sz + 1
             /\ UNCHANGED <<info, cleared>>
     /\ UNCHANGED done

\* The end of the file.
Finish == /\ ~done
          /\ done' = TRUE
          /\ Compress(transfer, sz)
          /\ UNCHANGED log

Next == Finish \/ \E c \in Codes, a \in Addrs, gap \in Gaps : ReadLine(c, a, gap)

Spec == Init /\ [][Next]_vars
-----------------------------------------------------------------------------
Lines == {log[i] : i \in 1..Len(log)}

TypeOK == /\ log \in Seq(Note)
          /\ transfer \subseteq Lines
          /\ sz \in Int
          /\ DOMAIN info \subseteq CountCodes \cup {longest, average, sessions}
          /\ \A c \in DOMAIN info : info[c] \in Nat
          /\ done \in BOOLEAN /\ cleared \in BOOLEAN

\* sz, which insert, make_compress and handle_time keep by hand, is the number
\* of notes in the container, and the container always has room for a note:
\* the tests size() == MAX_LOG_READ and sz == LIMIT_ACCUMULATION_ADDR are
\* never jumped over.
SizeExact == sz = Cardinality(transfer) /\ sz < MaxLogRead

\* The counted codes are exact whatever the portions: a note is counted once
\* or still in the container.
CountsExact ==
  \A c \in CountCodes : Value(c) + Cardinality(Of(c, transfer)) = Cardinality(Of(c, Lines))

\* No connection is counted twice or dropped uncounted, until the container
\* has been cleared at its limit.
ConnectionsKept ==
  LET open == Cardinality(Of(connection, transfer))
      all  == Cardinality(Of(connection, Lines))
  IN /\ Value(sessions) + open <= all
     /\ ~cleared => Value(sessions) + open = all

\* The pairs of lines that are the connection and the end of one session: no
\* other connection or end of the address between them.
SessionNotes == Of(connection, Lines) \cup Of(closing, Lines)
Sessions == {s \in Of(connection, Lines) \X Of(closing, Lines) :
               /\ s[1].addr = s[2].addr /\ s[1].n < s[2].n
               /\ \A x \in SessionNotes : x.addr = s[1].addr => x.n \notin s[1].n+1 .. s[2].n-1}
Lasted(s) == s[2].at - s[1].at

\* An address has one connection, and its ends come after it ...
OneConnection == \A x, y \in SessionNotes : x.addr = y.addr /\ x.n < y.n => y.code = closing
\* ... and are noted once: close_connect may run twice for a connection.
OneEach == OneConnection /\ Cardinality(Sessions) = Cardinality(Of(closing, Lines))

\* The reference for the session figures: for a log with one connection per
\* address, the report has the number of finished sessions, and if their ends
\* are noted once the longest of them, although portions cut sessions apart.
ReportsSessions ==
  done /\ OneConnection /\ ~cleared =>
    /\ Value(sessions) = Cardinality(Sessions)
    /\ OneEach => Value(longest) = Max({0} \cup {Lasted(s) : s \in Sessions})
=============================================================================
