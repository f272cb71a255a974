------------------------------ MODULE Protocol ------------------------------
(***************************************************************************)
(* The vocabulary of a client session and what one answer of a handler     *)
(* does to it.  A session is in one Action; the handler object of that     *)
(* action reads a line from the client and returns a result code; the      *)
(* server's handle_<action> function turns the code into the next action.  *)
(* The codes are those of Handle.h, kept as numbers because the program    *)
(* casts results to actions and user ids to results.                       *)
(***************************************************************************)
EXTENDS Integers

\* enum Action
greetings        == 0
registration     == 1
authentification == 2
command_checker  == 3
get              == 4
add              == 5
del              == 6
edit             == 7

Actions    == greetings..edit
Operations == get..edit        \* what a logged-in client can ask for

\* enum Error, and the two answers that are neither an error nor a user id
disconnect   == -1
blocked      == -2
existing     == -4
bad_auth     == -5
not_exist    == -6
empty_values == -7
NOONE        == 0
SUCCESS      == 1

(***************************************************************************)
(* What the handlers return once a line has been read, for a client who    *)
(* logs in to account id and asks for the operations ops.  disconnect is   *)
(* the answer to a database that stays down.                               *)
(***************************************************************************)
Reg_or_Auth          == {NOONE, registration, authentification}
Registration(id)     == {disconnect, existing, empty_values, id}
Authentification(id) == {disconnect, bad_auth, empty_values, id}
Command_checker(ops) == {NOONE} \cup ops
Get                  == {disconnect, not_exist, SUCCESS}
Add                  == {disconnect, existing, empty_values, SUCCESS}
Del                  == {disconnect, not_exist, SUCCESS}
Edit                 == {disconnect, SUCCESS}

\* map_handle
Results(a, id, ops) ==
  CASE a = greetings        -> Reg_or_Auth
    [] a = registration     -> Registration(id)
    [] a = authentification -> Authentification(id)
    [] a = command_checker  -> Command_checker(ops)
    [] a = get              -> Get
    [] a = add              -> Add
    [] a = del              -> Del
    [] a = edit             -> Edit
    [] OTHER                -> {}

\* Wrong variant: the branch for a bad password closes as well.
ClosesOnBadAuth(a, r) == \/ a \in Actions /\ r = disconnect
                         \/ a = authentification /\ r \in {blocked, bad_auth}

\* handle_<a> calls close_connect itself on these results.
Closes(a, r) == \/ a \in Actions /\ r = disconnect
                \/ a = authentification /\ r = blocked

\* handle_authentification counts these against the client.
FailedTry(a, r) == a = authentification /\ r \in {bad_auth, empty_values}

\* Wrong variant: handle_authentification has no branch for empty_values.
LogsInOnEmpty(a, r) ==
  \/ a = registration     /\ r \notin {disconnect, existing, empty_values}
  \/ a = authentification /\ r \notin {disconnect, blocked, bad_auth}

\* The two branches that store the result as the client's user id.
LogsIn(a, r) ==
  \/ a = registration     /\ r \notin {disconnect, existing, empty_values}
  \/ a = authentification /\ r \notin {disconnect, blocked, bad_auth, empty_values}

(***************************************************************************)
(* The action a session is in after handle_<a> got result r and did not    *)
(* close: the menus (greetings, command_checker) store the chosen action,  *)
(* a login moves to command_checker, an operation returns there whatever   *)
(* its result, everything else stays.                                      *)
(***************************************************************************)
NextAction(a, r) ==
  CASE a \in {greetings, command_checker} /\ r # NOONE -> r
    [] LogsIn(a, r) \/ a \in Operations                -> command_checker
    [] OTHER                                           -> a
=============================================================================
