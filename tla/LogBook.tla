------------------------------ MODULE LogBook ------------------------------
(***************************************************************************)
(* What the log promises: a note made is pending until some report takes   *)
(* it, and no report takes it again.  Which of the pending notes a report  *)
(* takes is open.  Notes can be dropped only if Unsafe.                    *)
(***************************************************************************)
EXTENDS Integers

CONSTANT Unsafe

VARIABLES pending, reported, dropped

vars == <<pending, reported, dropped>>

Known == pending \cup reported \cup dropped

Init == pending = {} /\ reported = {} /\ dropped = {}

Make(n) == /\ n \notin Known
           /\ pending' = pending \cup {n}
           /\ UNCHANGED <<reported, dropped>>

Report == /\ reported \subseteq reported' /\ reported' \ reported \subseteq pending
          /\ pending' = pending \ reported'
          /\ UNCHANGED dropped

Drop == /\ Unsafe
        /\ dropped \subseteq dropped' /\ dropped' \ dropped \subseteq pending
        /\ pending' = pending \ dropped'
        /\ UNCHANGED reported

Next == (\E n \in pending' : Make(n)) \/ Report \/ Drop

Spec == Init /\ [][Next]_vars
=============================================================================
