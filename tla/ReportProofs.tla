---------------------------- MODULE ReportProofs ----------------------------
(***************************************************************************)
(* What holds of the reports for every table of definitions, every length  *)
(* of a day and any number of reports: the compressor's properties, as     *)
(* Publish makes a new one, that the sums over all reports are exact, and  *)
(* how far apart two reports are.                                          *)
(***************************************************************************)
EXTENDS Report, CompressorProofs
-----------------------------------------------------------------------------
(***************************************************************************)
(* A step of the report is a step of the compressor, or makes a new one.   *)
(***************************************************************************)
LEMMA DayStep == [DayNext]_day => [Next]_vars \/ Init'
<1>1. Read => Next
  BY DEF Read, Next
<1>2. Publish => Init'
  BY DEF Publish, Init
<1>3. Sleep \/ Look => UNCHANGED vars
  BY DEF Sleep, Look
<1>4. UNCHANGED day => UNCHANGED vars
  BY DEF day
<1> QED
  BY <1>1, <1>2, <1>3, <1>4 DEF DayNext

CompressorInv == IInv /\ Typed /\ SessionInv

LEMMA CompressorInvariance == DaySpec => []CompressorInv
<1>1. Init => CompressorInv
  BY InitIInv, InitTyped, InitSession DEF CompressorInv
<1>2. (Init => CompressorInv)'
  BY <1>1, PTL
<1>3. CompressorInv /\ [Next]_vars => CompressorInv'
  BY NextIInv, NextTyped, NextSession DEF CompressorInv
<1>4. CompressorInv /\ [DayNext]_day => CompressorInv'
  BY <1>2, <1>3, DayStep
<1>5. DayInit => Init
  BY DEF DayInit
<1> QED
  BY <1>1, <1>4, <1>5, PTL DEF DaySpec

-----------------------------------------------------------------------------
(***************************************************************************)
(* The sums over all reports.  Between two notes the reports so far have   *)
(* counted what their logs had of the counted codes, and no more sessions  *)
(* than there were connections.                                            *)
(***************************************************************************)
Settled == /\ reported \in [Summed -> Nat] /\ past \in [Summed -> Nat]
           /\ \A c \in CountCodes : reported[c] = past[c]
           /\ reported[sessions] <= past[connection]
           /\ done => \A c \in CountCodes : Of(c, transfer) = {}

LEMMA SummedCodes == /\ CountCodes \subseteq Summed
                     /\ sessions \in Summed /\ connection \in Summed
  BY DEF Summed

LEMMA NumberType == CompressorInv => \A c : Value(c) \in Nat /\ Number(c) \in Nat
<1> SUFFICES ASSUME CompressorInv, NEW c PROVE Value(c) \in Nat /\ Number(c) \in Nat
  OBVIOUS
<1>1. Of(c, Lines) \subseteq Lines /\ IsFiniteSet(Lines)
  BY DEF CompressorInv, IInv, LinesNumbered, Of
<1>2. Number(c) \in Nat
  BY <1>1, FS_Subset, FS_CardinalityType DEF Number
<1>3. Value(c) \in Nat
  BY DEF CompressorInv, Typed, Value
<1> QED
  BY <1>2, <1>3

\* What a finished log adds to the two sides.
LEMMA DoneExact ==
  CompressorInv /\ Settled /\ done =>
    /\ \A c \in CountCodes : Value(c) = Number(c)
    /\ Value(sessions) <= Number(connection)
<1> SUFFICES ASSUME CompressorInv, Settled, done
             PROVE  /\ \A c \in CountCodes : Value(c) = Number(c)
                    /\ Value(sessions) <= Number(connection)
  OBVIOUS
<1>1. \A c : Value(c) \in Nat /\ Number(c) \in Nat
  BY NumberType
<1>2. Balanced(transfer, Lines)
  BY DEF CompressorInv, IInv
<1>3. ASSUME NEW c \in CountCodes PROVE Value(c) = Number(c)
  <2>1. Cardinality(Of(c, transfer)) = 0
    BY FS_EmptySet DEF Settled
  <2> QED
    BY <1>1, <1>2, <2>1 DEF Balanced, Number
<1>4. Value(sessions) <= Number(connection)
  <2>1. Of(connection, transfer) \subseteq Lines /\ IsFiniteSet(Lines)
    BY DEF CompressorInv, IInv, LinesNumbered, Of
  <2>2. Open(transfer) \in Nat
    BY <2>1, FS_Subset, FS_CardinalityType DEF Open
  <2>3. Open(Lines) = Number(connection)
    BY DEF Open, Number
  <2> QED
    BY <1>1, <1>2, <2>2, <2>3 DEF Balanced
<1> QED
  BY <1>3, <1>4

LEMMA InitSettled == DayInit => Settled
  BY SummedCodes DEF DayInit, Init, Settled

LEMMA NextSettled == CompressorInv /\ Settled /\ [DayNext]_day => Settled'
<1> SUFFICES ASSUME CompressorInv, Settled, [DayNext]_day PROVE Settled'
  OBVIOUS
<1>1. CASE Read
  <2>1. reported' = reported /\ past' = past
    BY <1>1 DEF Read, sums
  <2>2. ASSUME Finish, NEW c \in CountCodes PROVE Of(c, transfer') = {}
    <3>1. IsFiniteSet(transfer) /\ Compress(transfer, Cardinality(transfer)) /\ Value(c) \in Nat
      BY <2>2, FS_Subset, NumberType
         DEF CompressorInv, IInv, LinesNumbered, SizeExact, Finish
    <3> QED
      BY <3>1, CompressCounts
  <2>3. done' => Finish
    BY <1>1 DEF Read, ReadLine
  <2> QED
    BY <2>1, <2>2, <2>3 DEF Settled
<1>2. CASE Publish
  <2>1. done /\ ~done'
    BY <1>2 DEF Publish
  <2>2. /\ reported' = [c \in Summed |-> reported[c] + Value(c)]
        /\ past' = [c \in Summed |-> past[c] + Number(c)]
    BY <1>2 DEF Publish, Summing
  <2>3. \A c : Value(c) \in Nat /\ Number(c) \in Nat
    BY NumberType
  <2>4. /\ \A c \in CountCodes : Value(c) = Number(c)
        /\ Value(sessions) <= Number(connection)
    BY <2>1, DoneExact
  <2>5. reported' \in [Summed -> Nat] /\ past' \in [Summed -> Nat]
    BY <2>2, <2>3 DEF Settled
  <2>6. \A c \in CountCodes : reported'[c] = past'[c]
    BY <2>2, <2>4, SummedCodes DEF Settled
  <2>7. reported'[sessions] <= past'[connection]
    <3>1. /\ reported'[sessions] = reported[sessions] + Value(sessions)
          /\ past'[connection] = past[connection] + Number(connection)
      BY <2>2, SummedCodes
    <3>2. /\ reported[sessions] \in Nat /\ past[connection] \in Nat
          /\ reported[sessions] <= past[connection]
      BY SummedCodes DEF Settled
    <3> QED
      BY <2>3, <2>4, <3>1, <3>2
  <2> QED
    BY <2>1, <2>5, <2>6, <2>7 DEF Settled
<1>3. CASE Sleep \/ Look \/ UNCHANGED day
  BY <1>3 DEF Sleep, Look, day, sums, vars, Settled
<1> QED
  BY <1>1, <1>2, <1>3 DEF DayNext

LEMMA SettledInvariance == DaySpec => [](CompressorInv /\ Settled)
  BY InitSettled, NextSettled, CompressorInvariance, PTL DEF DaySpec

LEMMA SettledCounts == CompressorInv /\ Settled => CountedOnce
<1> SUFFICES ASSUME CompressorInv, Settled PROVE CountedOnce
  OBVIOUS
<1>1. \A c : Value(c) \in Nat /\ Number(c) \in Nat
  BY NumberType
<1>2. \A c \in Summed : reported[c] \in Nat /\ past[c] \in Nat
  BY DEF Settled
<1>3. Balanced(transfer, Lines)
  BY DEF CompressorInv, IInv
<1>4. ASSUME NEW c \in CountCodes
      PROVE  reported[c] + Value(c) + Cardinality(Of(c, transfer)) = past[c] + Number(c)
  <2>1. Of(c, transfer) \subseteq Lines /\ IsFiniteSet(Lines)
    BY DEF CompressorInv, IInv, LinesNumbered, Of
  <2>2. Cardinality(Of(c, transfer)) \in Nat
    BY <2>1, FS_Subset, FS_CardinalityType
  <2>3. Value(c) + Cardinality(Of(c, transfer)) = Number(c) /\ reported[c] = past[c]
    BY <1>3 DEF Balanced, Number, Settled
  <2> QED
    BY <1>1, <1>2, <2>2, <2>3, SummedCodes
<1>5. reported[sessions] + Value(sessions) <= past[connection] + Number(connection)
  <2>1. Of(connection, transfer) \subseteq Lines /\ IsFiniteSet(Lines)
    BY DEF CompressorInv, IInv, LinesNumbered, Of
  <2>2. Open(transfer) \in Nat
    BY <2>1, FS_Subset, FS_CardinalityType DEF Open
  <2>3. Value(sessions) + Open(transfer) <= Number(connection)
    BY <1>3 DEF Balanced, Open, Number
  <2>4. reported[sessions] <= past[connection]
    BY DEF Settled
  <2> QED
    BY <1>1, <1>2, <2>2, <2>3, <2>4, SummedCodes
<1> QED
  BY <1>4, <1>5 DEF CountedOnce
-----------------------------------------------------------------------------
(***************************************************************************)
(* The time.  Since the last report k rounds of an hour and a delay each   *)
(* have passed; a round that finds the report not due leaves k hours       *)
(* within the day.                                                         *)
(***************************************************************************)
Wake == Hour * Second
Rounds(k) == since \in Nat /\ k * Wake <= since /\ since <= k * Round

Elapsed == /\ phase \in {"sleep", "awake", "read"} /\ since \in Nat
           /\ slept = since
           /\ phase = "sleep" => \E k \in 0 .. Day \div Hour : Rounds(k)
           /\ phase = "awake" => \E k \in 1 .. Day \div Hour + 1 : Rounds(k)
           /\ phase = "read"  => since = 0

\* Multiplication and division.
LEMMA Div ==
  ASSUME NEW a \in Nat, NEW b \in Nat \ {0}
  PROVE  a \div b \in Nat /\ b * (a \div b) <= a /\ a < b * (a \div b) + b
OBVIOUS

LEMMA Times ==
  ASSUME NEW a \in Nat, NEW b \in Nat, NEW c \in Nat
  PROVE  /\ a * c \in Nat /\ (a + 1) * c = a * c + c
         /\ a <= b => a * c <= b * c
         /\ a * (b * c) = (a * b) * c
OBVIOUS

LEMMA Within ==
  ASSUME NEW a \in Nat, NEW b \in Nat \ {0}, NEW q \in Nat, q * b <= a
  PROVE  q <= a \div b
<1>1. a \div b \in Nat /\ a < b * (a \div b) + b
  BY Div
<1> DEFINE d == a \div b
<1> HIDE DEF d
<1>2. ASSUME d + 1 <= q PROVE FALSE
  <2>1. (d + 1) * b <= q * b /\ (d + 1) * b = b * d + b
    BY <1>1, <1>2, Times DEF d
  <2> QED
    BY <1>1, <2>1, Times DEF d
<1> QED
  BY <1>1, <1>2 DEF d

LEMMA RoundsType == Wake \in Nat /\ Round \in Nat /\ Round = Wake + MaxLate /\ Day \div Hour \in Nat
  BY ClockAssumption, Div, Times DEF Wake, Round

LEMMA InitElapsed == DayInit => Elapsed
<1> SUFFICES ASSUME DayInit PROVE Elapsed
  OBVIOUS
<1>1. phase = "sleep" /\ since = 0 /\ slept = since
  BY DEF DayInit
<1>2. 0 * Wake = 0 /\ 0 * Round = 0 /\ 0 \in 0 .. Day \div Hour
  BY RoundsType
<1> QED
  BY <1>1, <1>2 DEF Elapsed, Rounds

LEMMA NextElapsed == Elapsed /\ [DayNext]_day => Elapsed'
<1> SUFFICES ASSUME Elapsed, [DayNext]_day PROVE Elapsed'
  OBVIOUS
<1> DEFINE days == Day \div Hour
<1>1. Wake \in Nat /\ Round \in Nat /\ Round = Wake + MaxLate /\ days \in Nat
  BY RoundsType
<1> HIDE DEF days
<1>2. CASE Sleep
  <2>1. PICK late \in 0..MaxLate : /\ phase = "sleep" /\ phase' = "awake"
                                   /\ since' = since + Wake + late
                                   /\ slept' = since'
    BY <1>2 DEF Sleep, Wake, Elapsed
  <2>2. PICK k \in 0 .. days : Rounds(k)
    BY <2>1 DEF Elapsed, days
  <2>3. k \in Nat /\ k + 1 \in 1 .. days + 1 /\ late \in Nat /\ late <= MaxLate
    BY <1>1, <2>1, <2>2, ClockAssumption
  <2>4. /\ (k + 1) * Wake = k * Wake + Wake /\ k * Wake \in Nat
        /\ (k + 1) * Round = k * Round + Round /\ k * Round \in Nat
    BY <1>1, <2>3, Times
  <2>5. since \in Nat /\ k * Wake <= since /\ since <= k * Round
    BY <2>2 DEF Rounds
  <2> DEFINE low  == k * Wake
             high == k * Round
  <2> HIDE DEF low, high
  <2>6. /\ since' \in Nat /\ low + Wake <= since' /\ since' <= high + Round
    BY <1>1, <2>1, <2>3, <2>4, <2>5, ClockAssumption DEF low, high
  <2>7. since' \in Nat /\ (k + 1) * Wake <= since' /\ since' <= (k + 1) * Round
    BY <2>4, <2>6 DEF low, high
  <2>8. Rounds(k + 1)'
    BY <2>7 DEF Rounds, Round, Wake
  <2> QED
    BY <2>1, <2>3, <2>7, <2>8 DEF Elapsed, days
<1>3. CASE Look
  <2>1. since \in Nat /\ phase = "awake" /\ slept' = since'
    BY <1>3 DEF Look, Elapsed
  <2>2. CASE IsDue
    <3>1. phase' = "read" /\ since' = 0
      BY <1>3, <2>2 DEF Look
    <3> QED
      BY <2>1, <3>1 DEF Elapsed
  <2>3. CASE ~IsDue
    <3>1. phase' = "sleep" /\ since' = since
      BY <1>3, <2>3 DEF Look
    <3>2. PICK k \in 1 .. days + 1 : Rounds(k)
      BY <2>1 DEF Elapsed, days
    <3>3. since \div Second <= Day /\ since \div Second \in Nat
      BY <2>1, <2>3, ClockAssumption, Div DEF IsDue
    <3>4. k \in Nat /\ k * Hour \in Nat /\ (k * Hour) * Second = k * Wake /\ k * Wake <= since
      BY <1>1, <3>2, ClockAssumption, Times DEF Rounds, Wake
    <3>5. k * Hour <= since \div Second
      BY <2>1, <3>4, ClockAssumption, Within
    <3>6. k * Hour <= Day
      BY <3>3, <3>4, <3>5, ClockAssumption
    <3>7. k <= days
      BY <3>4, <3>6, ClockAssumption, Within DEF days
    <3>8. k \in 0 .. days /\ Rounds(k)'
      BY <1>1, <3>1, <3>2, <3>4, <3>7 DEF Rounds, Round, Wake
    <3> QED
      BY <2>1, <3>1, <3>8 DEF Elapsed, days
  <2> QED
    BY <2>2, <2>3
<1>4. CASE Read \/ UNCHANGED day
  <2>1. phase' = phase /\ since' = since /\ slept' = slept
    BY <1>4 DEF Read, day, clock
  <2> QED
    BY <2>1 DEF Elapsed, Rounds, Round, Wake
<1>5. CASE Publish
  <2>1. phase' = "sleep" /\ since' = 0 /\ slept' = since'
    BY <1>5 DEF Publish, Elapsed
  <2>2. 0 * Wake = 0 /\ 0 * Round = 0 /\ 0 \in 0 .. days
    BY <1>1
  <2> QED
    BY <2>1, <2>2 DEF Elapsed, Rounds, Round, Wake, days
<1> QED
  BY <1>2, <1>3, <1>4, <1>5 DEF DayNext

\* No more than a round after the day,
LEMMA ElapsedBound == Elapsed => slept <= (Day \div Hour + 1) * Round
<1> SUFFICES ASSUME Elapsed PROVE slept <= (Day \div Hour + 1) * Round
  OBVIOUS
<1> DEFINE days == Day \div Hour
<1>1. Round \in Nat /\ days \in Nat
  BY RoundsType
<1> HIDE DEF days
<1>2. ASSUME NEW k \in Nat, k <= days + 1, Rounds(k)
      PROVE  since <= (days + 1) * Round
  <2>1. k * Round <= (days + 1) * Round /\ k * Round \in Nat /\ (days + 1) * Round \in Nat
    BY <1>1, <1>2, Times
  <2>2. since \in Nat /\ since <= k * Round
    BY <1>2 DEF Rounds
  <2> QED
    BY <2>1, <2>2
<1>3. since <= (days + 1) * Round
  <2>1. CASE phase = "read"
    <3>1. (days + 1) * Round \in Nat /\ since = 0
      BY <1>1, <2>1, Times DEF Elapsed
    <3> QED
      BY <3>1
  <2>2. CASE phase # "read"
    <3>1. \E k \in 0 .. days + 1 : Rounds(k)
      BY <1>1, <2>2 DEF Elapsed, days
    <3>2. PICK k \in 0 .. days + 1 : Rounds(k)
      BY <3>1
    <3>3. k \in Nat /\ k <= days + 1
      BY <1>1, <3>2
    <3> QED
      BY <1>2, <3>2, <3>3
  <2> QED
    BY <2>1, <2>2
<1> QED
  BY <1>3 DEF Elapsed, days

\* and not before the day is over.
LEMMA DueAfterDay ==
  Elapsed /\ [DayNext]_day /\ phase # "read" /\ phase' = "read" => slept > Day * Second
<1> SUFFICES ASSUME Elapsed, [DayNext]_day, phase # "read", phase' = "read"
             PROVE  slept > Day * Second
  OBVIOUS
<1>1. Look
  BY DEF DayNext, Sleep, Read, Publish, day, clock
<1>2. IsDue
  BY <1>1 DEF Look
<1> DEFINE q == since \div Second
<1>3. since \in Nat /\ slept = since
  BY DEF Elapsed
<1>4. q \in Nat /\ Second * q <= since /\ q > Day
  BY <1>2, <1>3, ClockAssumption, Div DEF IsDue
<1> HIDE DEF q
<1>5. Day + 1 <= q /\ Day + 1 \in Nat
  BY <1>4, ClockAssumption
<1>6. (Day + 1) * Second <= q * Second /\ q * Second \in Nat
  BY <1>4, <1>5, ClockAssumption, Times
<1>7. (Day + 1) * Second = Day * Second + Second /\ Day * Second \in Nat
  BY ClockAssumption, Times
<1>8. q * Second = Second * q
  BY <1>4, ClockAssumption
<1> QED
  BY <1>3, <1>4, <1>6, <1>7, <1>8, ClockAssumption
-----------------------------------------------------------------------------
(***************************************************************************)
(* The types of the daily cycle.                                           *)
(***************************************************************************)
Flags == crashed \in BOOLEAN /\ before \in Nat

LEMMA NextFlags == CompressorInv /\ Flags /\ [DayNext]_day => Flags'
<1> SUFFICES ASSUME CompressorInv, Flags, [DayNext]_day PROVE Flags'
  OBVIOUS
<1>1. CASE Publish
  <2>1. crashed' \in BOOLEAN
    BY <1>1 DEF Publish
  <2>2. Len(log) \in Nat
    BY TypedOK DEF CompressorInv, TypeOK
  <2>3. before' = before + Len(log)
    BY <1>1 DEF Publish, Summing
  <2> QED
    BY <2>1, <2>2, <2>3 DEF Flags
<1>2. CASE Sleep \/ Look \/ Read \/ UNCHANGED day
  BY <1>2 DEF Sleep, Look, Read, day, sums, Flags
<1> QED
  BY <1>1, <1>2 DEF DayNext

\* The clock, the sums and the compressor keep their types, in every day.
THEOREM DayTypes == DaySpec => []DayTypeOK
<1>1. DayInit => Flags
  <2> SUFFICES ASSUME DayInit PROVE Flags
    OBVIOUS
  <2>1. crashed = FALSE
    BY DEF DayInit
  <2>2. before = 0
    BY DEF DayInit
  <2> QED
    BY <2>1, <2>2 DEF Flags
<1>2. DaySpec => [](CompressorInv /\ Settled /\ Flags)
  BY <1>1, NextFlags, SettledInvariance, PTL DEF DaySpec
<1>3. DaySpec => []Elapsed
  BY InitElapsed, NextElapsed, PTL DEF DaySpec
<1>4. CompressorInv /\ Settled /\ Flags /\ Elapsed => DayTypeOK
  <2>1. CompressorInv => TypeOK
    BY TypedOK DEF CompressorInv
  <2> QED
    BY <2>1 DEF Settled, Flags, Elapsed, DayTypeOK
<1> QED
  BY <1>2, <1>3, <1>4, PTL

\* The compressor's own properties hold of every report: its container's count
\* is exact and below the limit,
THEOREM DaySizes == DaySpec => []SizeExact
<1>1. CompressorInv => SizeExact
  BY DEF CompressorInv, IInv
<1> QED
  BY <1>1, CompressorInvariance, PTL

\* no counted note and no connection lost or doubled where portions meet,
THEOREM DayCounts == DaySpec => [](CountsExact /\ ConnectionsKept)
<1>1. CompressorInv => CountsExact /\ ConnectionsKept
  BY DEF CompressorInv, IInv, Balanced, CountsExact, ConnectionsKept, Open
<1> QED
  BY <1>1, CompressorInvariance, PTL

\* and its sessions those of its log.
THEOREM DaySessions == DaySpec => []ReportsSessions
<1>1. CompressorInv => ReportsSessions
  BY SessionsReported DEF CompressorInv
<1> QED
  BY <1>1, CompressorInvariance, PTL

\* Over all reports, cut wherever time_check cuts the stream of notes, every
\* counted note is in exactly one report and no connection is two sessions.
THEOREM CountedOnceCorrect == DaySpec => []CountedOnce
  BY SettledInvariance, SettledCounts, PTL

\* time_check begins a report only when more than Day seconds have passed since
\* the last, and no more than Day \div Hour + 1 rounds pass without one.
THEOREM DailyReportCorrect == DaySpec => DailyReport
<1>1. DaySpec => []Elapsed
  BY InitElapsed, NextElapsed, PTL DEF DaySpec
<1>2. Elapsed' => slept' <= (Day \div Hour + 1) * Round
  <2>1. (Elapsed => slept <= (Day \div Hour + 1) * Round)'
    BY ElapsedBound, PTL
  <2> QED
    BY <2>1 DEF Round
<1>3. Elapsed /\ Elapsed' /\ [DayNext]_day =>
        [/\ slept' <= (Day \div Hour + 1) * Round
         /\ phase # "read" /\ phase' = "read" => slept > Day * Second]_day
  BY <1>2, DueAfterDay
<1> QED
  BY <1>1, <1>3, PTL DEF DaySpec, DailyReport
=============================================================================
