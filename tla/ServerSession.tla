---------------------------- MODULE ServerSession ----------------------------
(***************************************************************************)
(* The server implements Session for every connection, as long as no       *)
(* update of master_fd is lost, no descriptor reused under a thread and no *)
(* handler buffer shared at the same time.                                 *)
(***************************************************************************)
EXTENDS Server

\* The entry of handle_clients that serves c; from accept to insert there is
\* none yet, and the session counts as one at the menu.
Serving(c) == {f \in DOMAIN table : owner[f] = c /\ table[f].conn = c}

EntryOf(c) == IF Serving(c) = {} THEN NewEntry([id |-> -1, conn |-> c])
              ELSE table[CHOOSE f \in Serving(c) : TRUE]

PhaseOf(act) ==
  CASE act = greetings        -> "menu"
    [] act = registration     -> "register"
    [] act = authentification -> "login"
    [] act = command_checker  -> "commands"
    [] OTHER                  -> "operation"

\* What the clients see of their sessions.
Phases == [c \in Conns |-> CASE peer[c].at \in {"new", "pending"} -> "away"
                             [] peer[c].at = "closed" -> "left"
                             [] OTHER -> PhaseOf(EntryOf(c).act)]
Fails  == [c \in Conns |-> IF peer[c].at = "open" THEN EntryOf(c).tries ELSE 0]
Users  == [c \in Conns |-> IF peer[c].at = "open" THEN EntryOf(c).id ELSE -1]

Abstract == INSTANCE Session WITH
  Clients <- Conns, Tries <- ClientTries, Account <- AccountOf,
  phase <- Phases, fails <- Fails, user <- Users

\* The behaviours in which none of the hazards strikes.
QuietSpec == Init /\ [][Next /\ struck' = {}]_vars

\* Each client's session follows the protocol of Session, whatever the other
\* clients and threads do: no answer is skipped, repeated or given to another
\* session, and nobody is served past the last try.
ImplementsSession == Abstract!Spec
=============================================================================
