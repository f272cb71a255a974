------------------------------- MODULE Report -------------------------------
(***************************************************************************)
(* Analyzer::time_check: wake up every hour, and when more than a day has  *)
(* passed read the log with a new Compressor, as in module Compressor, and *)
(* write the report with the definitions that CSV_reader has found.        *)
(*                                                                         *)
(* Each round of read_all_note reads the notes made since the last one     *)
(* (LogBook); log is what this round has read.                             *)
(* Time is in ticks, finer than the seconds the code counts.  The file     *)
(* codes.csv may come and go between reports.                              *)
(***************************************************************************)
EXTENDS Compressor

CONSTANTS Second,     \* ticks of a second
          Hour, Day,  \* 3600 and 3600*24, in seconds
          MaxLate,    \* bound: what a round takes beyond its hour, in ticks
          Given,      \* the codes that codes.csv defines: any, as nothing checks the file
          MaxNotes    \* bound: the notes of all logs

ASSUME ClockAssumption == /\ Second \in Nat \ {0} /\ Hour \in Nat \ {0}
                          /\ Day \in Nat /\ MaxLate \in Nat
ASSUME MaxAssumption   == MaxNotes \in Nat

VARIABLES
  phase,     \* time_check: "sleep", "awake", "read"
  since,     \* the ticks since t
  crashed,   \* get_definition has dereferenced the end of the table
  \* history
  slept,     \* the ticks since the last report was begun, or the start
  before,    \* the number of notes in the logs of earlier reports
  reported,  \* the sum of the reports' figures, by code
  past       \* before, by code

clock  == <<phase, since, slept>>
sums   == <<before, reported, past>>
day    == <<clock, crashed, sums, vars>>

Summed == CountCodes \cup {connection, sessions}
Number(c) == Cardinality(Of(c, Lines))

DayInit == /\ Init
           /\ phase = "sleep" /\ since = 0 /\ slept = 0
           /\ crashed = FALSE /\ before = 0
           /\ reported = [c \in Summed |-> 0] /\ past = [c \in Summed |-> 0]
-----------------------------------------------------------------------------
\* std::this_thread::sleep_for(std::chrono::seconds(3600))
Sleep == \E late \in 0..MaxLate :
           /\ phase = "sleep" /\ ~crashed
           /\ since' = since + Hour * Second + late
           /\ slept' = slept + Hour * Second + late
           /\ phase' = "awake"
           /\ UNCHANGED <<crashed, sums, vars>>

\* duration_cast<seconds> cuts off the rest.
IsDue == since \div Second > Day

\* Wrong variant: t stays where it was.
LookOnly == /\ phase = "awake"
            /\ phase' = IF IsDue THEN "read" ELSE "sleep"
            /\ slept' = IF IsDue THEN 0 ELSE slept
            /\ UNCHANGED <<since, crashed, sums, vars>>

\* if(... > 3600*24) t = now().
Look == /\ phase = "awake"
        /\ phase' = IF IsDue THEN "read" ELSE "sleep"
        /\ since' = IF IsDue THEN 0 ELSE since
        /\ slept' = IF IsDue THEN 0 ELSE slept
        /\ UNCHANGED <<crashed, sums, vars>>

\* Log::read_all_note.
Read == /\ phase = "read"
        /\ \/ \E c \in Codes, a \in Addrs, gap \in Gaps :
                /\ before + Len(log) < MaxNotes
                /\ ReadLine(c, a, gap)
           \/ Finish
        /\ UNCHANGED <<clock, crashed, sums>>

\* Wrong variant: a line is missing.
DefaultsWithout == {101, 102, 103, 106, 107, 108, 109, 110, 402, 1002, 1003,
                    1004, 2001, 4001, 5001, 10001, 100001, 100002, 200001,
                    400001, 400002, 400003, 400004}

\* The codes that create_table_and_fill writes.
Defaults == {101, 102, 103, 106, 107, 108, 109, 110, 402, 1001, 1002, 1003,
             1004, 2001, 4001, 5001, 10001, 100001, 100002, 200001,
             400001, 400002, 400003, 400004}

\* CSV_reader: a missing file is replaced and read.
definition_codes(exists) == IF exists THEN Given ELSE Defaults

\* get_definition, which does not test the result of find.
Undefined(exists) == DOMAIN info \ definition_codes(exists)

\* The figures of the report are those of info.
Summing == /\ before' = before + Len(log)
           /\ reported' = [c \in Summed |-> reported[c] + Value(c)]
           /\ past' = [c \in Summed |-> past[c] + Number(c)]

\* Wrong variant: the compressor lives on.
PublishOnly == /\ phase = "read" /\ done
               /\ phase' = "sleep"
               /\ Summing
               /\ log' = <<>> /\ done' = FALSE
               /\ UNCHANGED <<since, slept, crashed, transfer, sz, info, cleared>>

\* Result_generator::generate_report, and the end of the block: the compressor
\* is destroyed with what waits in it.
Publish == /\ phase = "read" /\ done
           /\ \E exists \in BOOLEAN :
                crashed' = (Undefined(exists) # {})
           /\ phase' = "sleep"
           /\ Summing
           /\ log' = <<>> /\ transfer' = {} /\ sz' = 0
           /\ info' = [c \in {} |-> 0]
           /\ done' = FALSE /\ cleared' = FALSE
           /\ UNCHANGED <<since, slept>>

DayNext == Sleep \/ Look \/ Read \/ Publish

DaySpec == DayInit /\ [][DayNext]_day
-----------------------------------------------------------------------------
\* The types of time_check's variables and of the compressor it makes.
DayTypeOK ==
  /\ TypeOK
  /\ phase \in {"sleep", "awake", "read"}
  /\ since \in Nat /\ slept \in Nat /\ before \in Nat
  /\ crashed \in BOOLEAN
  /\ reported \in [Summed -> Nat] /\ past \in [Summed -> Nat]

\* Over all reports every note of a counted code is counted exactly once, and
\* no connection makes two sessions, wherever the reports cut the stream of
\* notes.
CountedOnce ==
  /\ \A c \in CountCodes :
       reported[c] + Value(c) + Cardinality(Of(c, transfer)) = past[c] + Number(c)
  /\ reported[sessions] + Value(sessions) <= past[connection] + Number(connection)

\* get_definition finds every code of a report, in the codes.csv of res/ and in
\* the one the program makes up.
AllDefined == ~crashed

\* time_check begins a report only when more than a day has passed since it
\* began the last one, and does not let an hour and the rounds' delays more go
\* by: t, which Look sets and IsDue reads, is the time of the last report.
Round       == Hour * Second + MaxLate
DailyReport == [][/\ slept' <= (Day \div Hour + 1) * Round
                  /\ phase # "read" /\ phase' = "read" => slept > Day * Second]_day

=============================================================================
