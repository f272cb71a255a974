------------------------------ MODULE Dialogue ------------------------------
(***************************************************************************)
(* One session of the server with one of the example clients: the user,    *)
(* the client, the two directions of the connection, and the server as     *)
(* Protocol describes it.                                                  *)
(*                                                                         *)
(* str_cli of client/src/main.c enciphers the password of the line after   *)
(* "add" and deciphers the answer to the line after "get".  It knows of    *)
(* the session only what the user types: whether the server is in the      *)
(* action add or get it has to guess.  The older client.c and              *)
(* client_for_tests.cpp send every line as it is.                          *)
(*                                                                         *)
(* Neither side marks where a message ends: one read takes any number of   *)
(* the lines or answers that have been written.  That a line arrives in    *)
(* pieces is not modelled (lines are shorter than a segment).              *)
(***************************************************************************)
EXTENDS Protocol, Sequences

CONSTANTS ClientTries,  \* CLIENT_TRIES
          MaxAhead      \* bound: what is under way when the user types a line

ASSUME DialogueAssumption == ClientTries \in Nat \ {0} /\ MaxAhead \in Nat

VARIABLES
  \* the server's side: the client's entry, and how the passwords of the
  \* account are stored, "sealed" for those the client has enciphered
  act, tries, open, vault,
  \* the connection: lines to the server, answers to the client
  up, down,
  \* the client: "running", "shut" (the input has ended), "finished", "failed";
  \* and the variables of str_cli
  client, encrypt, precrypt, crypt,
  \* which client, and whether the user waits for an answer before typing
  sealing, patient,
  \* history
  awaiting,  \* a line has been typed since an answer was read
  odd,       \* a line that is no command began like one
  doubled    \* a line got two answers

session == <<act, tries, open, vault>>
wire    == <<up, down>>
flags   == <<encrypt, precrypt>>
program == <<client, flags, crypt>>
choices == <<sealing, patient>>
history == <<odd, doubled>>
vars    == <<session, wire, program, choices, awaiting, history>>

\* What the user types: the words the menus know, and other text, some of
\* which begins like a word the client looks for.
Menu      == [auth |-> authentification, reg |-> registration]
Commands  == [get |-> get, add |-> add, del |-> del, edit |-> edit]
AddText   == "address"
GetText   == "getaway"
Typed     == DOMAIN Menu \cup DOMAIN Commands \cup {AddText, GetText, "text"}
BeginsAdd == {"add", AddText}
BeginsGet == {"get", GetText}

\* How a line is sent: with its '\n', with a NUL in its place, or without
\* either and its password enciphered.
Forms == {"line", "name", "sealed"}

Init ==
  /\ act = greetings /\ tries = 0 /\ open = TRUE
  /\ vault \in SUBSET {"sealed", "plain"}
  /\ up = <<>> /\ down = <<"text">>        \* accept_clients says hello
  /\ client = "running"
  /\ encrypt = FALSE /\ precrypt = FALSE /\ crypt = FALSE
  /\ sealing \in BOOLEAN /\ patient \in BOOLEAN
  /\ awaiting = TRUE /\ odd = FALSE /\ doubled = FALSE
-----------------------------------------------------------------------------
\* The client.

\* Wrong variant: the flags are not reset.
FlagsStay(l) == /\ encrypt' = (encrypt \/ l \in BeginsAdd)
                /\ precrypt' = (precrypt \/ l \in BeginsGet)

\* Wrong variant: only "get" is looked for.
FlagsGetOnly(l) == /\ precrypt' = (l \in BeginsGet)
                   /\ encrypt' = FALSE

\* The strncmp of the line that was typed, after it has been sent.
Flags(l) == /\ encrypt'  = (l \in BeginsAdd \/ (l \in BeginsGet /\ encrypt))
            /\ precrypt' = (l \in BeginsGet \/ (l \in BeginsAdd /\ precrypt))

Send(l, form) ==
  /\ client = "running" /\ Len(up) + Len(down) < MaxAhead
  /\ patient => ~awaiting
  /\ up' = Append(up, [line |-> l, form |-> form])
  /\ awaiting' = TRUE
  /\ odd' = (odd \/ /\ l \in BeginsAdd \cup BeginsGet
                    /\ ~(act = command_checker /\ l \in DOMAIN Commands))
  /\ UNCHANGED <<session, down, client, choices, doubled>>

\* precrypt: the line is kept as the name the answer is deciphered with; the
\* flags are not looked at.
SendName(l) == /\ sealing /\ precrypt
               /\ Send(l, "name")
               /\ crypt' = TRUE
               /\ UNCHANGED flags

\* Wrong variant: the name and the cipher are written one after the other.
SendInTwo(l) == /\ sealing /\ ~precrypt /\ encrypt
                /\ client = "running" /\ Len(up) + Len(down) < MaxAhead
                /\ patient => ~awaiting
                /\ up' = up \o <<[line |-> l, form |-> "line"], [line |-> l, form |-> "sealed"]>>
                /\ awaiting' = TRUE /\ Flags(l)
                /\ UNCHANGED <<session, down, client, crypt, choices, history>>

\* encrypt: the second word is enciphered.
SendSealed(l) == /\ sealing /\ ~precrypt /\ encrypt
                 /\ Send(l, "sealed") /\ Flags(l)
                 /\ UNCHANGED crypt

SendLine(l) == /\ sealing /\ ~precrypt /\ ~encrypt
               /\ Send(l, "line") /\ Flags(l)
               /\ UNCHANGED crypt

\* client.c, and work in client_for_tests.cpp, which reads before it writes.
SendOnly(l) == /\ ~sealing
               /\ Send(l, "line")
               /\ UNCHANGED <<flags, crypt>>

\* The end of the input: shutdown(sockfd, SHUT_WR).
Shut == /\ client = "running"
        /\ client' = "shut"
        /\ UNCHANGED <<session, wire, flags, crypt, choices, awaiting, history>>

Reads(k) == /\ client \in {"running", "shut"} /\ k \in 1..Len(down)
            /\ down' = SubSeq(down, k + 1, Len(down))
            /\ awaiting' = FALSE
            /\ UNCHANGED <<session, up, choices, history>>

Show(k) == /\ ~crypt /\ Reads(k)
           /\ UNCHANGED program

\* decipher exits the process unless it is given a cipher and nothing else.
IsCipher(k) == k = 1 /\ down[1] = "sealed"

\* Wrong variant: crypt is not reset.
DecipherOn(k) == /\ crypt /\ Reads(k)
                 /\ precrypt' = FALSE /\ UNCHANGED <<crypt, encrypt>>
                 /\ client' = IF IsCipher(k) THEN client ELSE "failed"

Decipher(k) == /\ crypt /\ Reads(k)
               /\ precrypt' = FALSE /\ crypt' = FALSE /\ UNCHANGED encrypt
               /\ client' = IF IsCipher(k) THEN client ELSE "failed"

\* read returns 0.
Finish == /\ client \in {"running", "shut"} /\ ~open /\ down = <<>>
          /\ client' = "finished"
          /\ UNCHANGED <<session, wire, flags, crypt, choices, awaiting, history>>

ClientReads == Finish \/ \E k \in 1..Len(down) : Show(k) \/ Decipher(k)
-----------------------------------------------------------------------------
\* The server.

\* The word that a menu looks up when one read has taken k lines: read_fd
\* strips the last '\n', and a NUL ends the word.
Word(k) == IF up[1].form = "name" \/ (k = 1 /\ up[1].form = "line") THEN up[1].line ELSE ""

Chosen(menu, w) == IF w \in DOMAIN menu THEN menu[w] ELSE NOONE

\* What the handler of the action makes of k lines.
Result(k) == {r \in Results(act, 1, Operations) :
                /\ act = greetings => r = Chosen(Menu, Word(k))
                /\ act = command_checker => r = Chosen(Commands, Word(k))
                /\ act = get /\ vault = {} => r # SUCCESS}

\* Wrong variant: the count is tested before it is raised.
BannedLate(r) == FailedTry(act, r) /\ tries = ClientTries

Banned(r) == FailedTry(act, r) /\ tries + 1 = ClientTries

\* What is written of a result: Get answers with a stored password.
Told(r) == IF act # get THEN {"text"} ELSE IF r = not_exist THEN {"missing"} ELSE vault

\* A bad command is answered by the handler and by handle_command_checker.
Twice(r) == act = command_checker /\ r = NOONE

\* Wrong variant: an Add that exists is not answered.
AnswersNot(r) == {IF act = add /\ r = existing THEN <<>>
                  ELSE IF Twice(r) THEN <<v, v>> ELSE <<v>> : v \in Told(r)}

\* What the handler, handle_<action> and workThread write.
Answers(r) == {IF Twice(r) THEN <<v, v>> ELSE <<v>> : v \in Told(r)}

Stored(k) == IF k = 1 /\ up[1].form = "sealed" THEN "sealed" ELSE "plain"

\* The handler's result r for k lines, written as a.
Reply(k, r, a) ==
  /\ down' = down \o a
  /\ doubled' = (doubled \/ Len(a) > 1)
  /\ act' = NextAction(act, r)
  /\ tries' = IF FailedTry(act, r) THEN tries + 1 ELSE tries
  /\ open' = ~Banned(r)
  /\ vault' = IF act = add /\ r = SUCCESS THEN vault \cup {Stored(k)} ELSE vault

\* One read, its handler and what is written.
Serve(k) ==
  /\ open /\ k \in 1..Len(up)
  /\ up' = SubSeq(up, k + 1, Len(up))
  /\ \E r \in Result(k) \ {disconnect} : \E a \in Answers(r) : Reply(k, r, a)
  /\ UNCHANGED <<program, choices, awaiting, odd>>

\* The database stays down, in the actions that ask it.
GiveUp(k) ==
  /\ open /\ k \in 1..Len(up) /\ disconnect \in Result(k)
  /\ up' = SubSeq(up, k + 1, Len(up)) /\ open' = FALSE
  /\ UNCHANGED <<act, tries, vault, down, program, choices, awaiting, history>>

\* read_fd returns 0 when the client has shut its side or is gone.
HangUp ==
  /\ open /\ up = <<>> /\ client # "running"
  /\ open' = FALSE
  /\ UNCHANGED <<act, tries, vault, wire, program, choices, awaiting, history>>

ServerSteps == HangUp \/ \E k \in 1..Len(up) : Serve(k) \/ GiveUp(k)

Next ==
  \/ \E l \in Typed : SendName(l) \/ SendSealed(l) \/ SendLine(l) \/ SendOnly(l)
  \/ Shut \/ ClientReads \/ ServerSteps

\* A worker takes what select has reported (Served in Server), and the client
\* is in select when it does nothing else.  The user owes nothing.
Spec == Init /\ [][Next]_vars /\ WF_vars(ServerSteps) /\ WF_vars(ClientReads)
-----------------------------------------------------------------------------
Answer == {"text", "missing", "sealed", "plain"}

TypeOK ==
  /\ act \in Actions /\ tries \in 0..ClientTries /\ open \in BOOLEAN
  /\ open => tries < ClientTries
  /\ vault \subseteq {"sealed", "plain"}
  /\ up \in Seq([line : Typed, form : Forms]) /\ down \in Seq(Answer)
  /\ client \in {"running", "shut", "finished", "failed"}
  /\ encrypt \in BOOLEAN /\ precrypt \in BOOLEAN /\ crypt \in BOOLEAN
  /\ sealing \in BOOLEAN /\ patient \in BOOLEAN
  /\ awaiting \in BOOLEAN /\ odd \in BOOLEAN /\ doubled \in BOOLEAN

\* Turns are kept by waiting alone: neither side marks the end of a message.  A
\* bad command, which is answered twice, ends them for the rest of a session.
Turns == patient /\ ~doubled
OneLineAtATime == Turns /\ open => Len(up) + Len(down) <= 1

\* "a cloud storage of encrypted user passwords" (README.md:29): what a user
\* who waits for each answer stores with the enciphering client is enciphered,
\* also after lines that are no command but begin like one (odd).  Of a session
\* in which a bad command has been answered twice it says nothing more (Turns).
StoresSealed == [][sealing /\ Turns /\ "plain" \notin vault => "plain" \notin vault']_vars

\* Whenever it is the user's turn the client's guess of the server's action is
\* right, and so is what it will do with the next line: in sessions where the
\* turns are kept (Turns) and no line that is not a command has begun like one
\* (~odd), which are the two ways to get a waiting user's client out of step.
InStep == sealing /\ Turns /\ ~odd /\ open /\ client = "running" /\ ~awaiting =>
            (encrypt <=> act = add) /\ (precrypt <=> act = get) /\ ~crypt

\* In those sessions the client fails only of a Get that finds nothing, or finds what
\* another client has stored.
FailsOnlyAtGet ==
  [][Turns /\ ~odd /\ client' = "failed" => client = "failed" \/ Head(down) \in {"missing", "plain"}]_vars

\* Every line is answered, or the connection ends, however the lines and the
\* answers are taken together: no branch of a handler leaves both sides
\* waiting.
Answered == awaiting ~> ~awaiting \/ client \in {"finished", "failed"}

=============================================================================
