------------------------------ MODULE Session ------------------------------
(***************************************************************************)
(* What the server promises one client, with threads, sockets and result   *)
(* codes left out: a session opens at the menu, goes through registration  *)
(* or login to the command menu, and from there to one operation at a      *)
(* time; it carries the account of the credentials it was given; and a     *)
(* client that has failed to log in Tries times gets no more answers.      *)
(***************************************************************************)
EXTENDS Integers

CONSTANTS Clients,   \* the connections
          Tries,     \* failed logins after which a session is over
          Account    \* the account whose credentials a client knows

VARIABLES phase,     \* "away", "menu", "register", "login", "commands",
                     \* "operation" or "left"
          fails,     \* failed logins
          user       \* the account a session is logged in to, or -1

vars == <<phase, fails, user>>

Init == /\ phase = [c \in Clients |-> "away"]
        /\ fails = [c \in Clients |-> 0]
        /\ user  = [c \in Clients |-> -1]

Move(c, from, to) == phase[c] = from /\ phase' = [phase EXCEPT ![c] = to]

Arrive(c) == Move(c, "away", "menu") /\ UNCHANGED <<fails, user>>

\* A banned address is turned away.
Refuse(c) == Move(c, "away", "left") /\ UNCHANGED <<fails, user>>

Choose(c) == /\ Move(c, "menu", "register") \/ Move(c, "menu", "login")
             /\ UNCHANGED <<fails, user>>

Enter(c)  == /\ Move(c, "register", "commands") \/ Move(c, "login", "commands")
             /\ fails[c] < Tries
             /\ user' = [user EXCEPT ![c] = Account[c]]
             /\ UNCHANGED fails

Fail(c)   == /\ phase[c] = "login" /\ fails[c] < Tries
             /\ fails' = [fails EXCEPT ![c] = @ + 1]
             /\ UNCHANGED <<phase, user>>

Ask(c)    == Move(c, "commands", "operation") /\ UNCHANGED <<fails, user>>

Answer(c) == Move(c, "operation", "commands") /\ UNCHANGED <<fails, user>>

Leave(c)  == /\ phase[c] \notin {"away", "left"}
             /\ phase' = [phase EXCEPT ![c] = "left"]
             /\ fails' = [fails EXCEPT ![c] = 0]
             /\ user' = [user EXCEPT ![c] = -1]

Next == \E c \in Clients : \/ Arrive(c) \/ Refuse(c) \/ Choose(c) \/ Enter(c)
                           \/ Fail(c) \/ Ask(c) \/ Answer(c) \/ Leave(c)

Spec == Init /\ [][Next]_vars
=============================================================================
