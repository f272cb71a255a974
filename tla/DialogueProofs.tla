-------------------------- MODULE DialogueProofs --------------------------
(***************************************************************************)
(* Proofs about Dialogue: turns, the client's guess, and what is stored,   *)
(* for every number of tries and every bound on what is under way.         *)
(***************************************************************************)
EXTENDS Dialogue, TLAPS

\* A line or an answer is under way only after the user has typed and until
\* the answer is read.
TurnInv ==
  Turns => /\ open => Len(up) + Len(down) <= 1
           /\ Len(down) <= 1
           /\ ~awaiting => down = <<>> /\ (open => up = <<>>)

\* The flags belong to the enciphering client, and crypt to an answer that is
\* to be read.
FlagInv ==
  /\ encrypt \/ precrypt \/ crypt => sealing
  /\ crypt => awaiting

InAction == (encrypt <=> act = add) /\ (precrypt <=> act = get) /\ ~crypt

\* What the flags say of a line that the server has not read yet.
LineInv ==
  \/ act = get /\ crypt /\ precrypt /\ ~encrypt
  \/ act = add /\ ~encrypt /\ ~precrypt /\ ~crypt
  \/ /\ act = command_checker /\ ~crypt
     /\ up[1].form = "line"
     /\ encrypt <=> up[1].line = "add"
     /\ precrypt <=> up[1].line = "get"
  \/ act \notin {get, add, command_checker} /\ ~encrypt /\ ~precrypt /\ ~crypt

\* What they say of an answer that the client has not read yet.
AnswerInv ==
  \/ InAction
  \/ crypt /\ ~encrypt /\ down[1] \in Answer \ {"text"} /\ (open => act = command_checker)

StepInv ==
  sealing /\ Turns /\ ~odd =>
    /\ open /\ up # <<>> => LineInv
    /\ down # <<>> => (IF open THEN AnswerInv ELSE crypt => down[1] # "text")
    /\ open /\ up = <<>> /\ down = <<>> /\ ~awaiting => InAction

\* The lines that reach the server in the action add are enciphered, whatever
\* the user has typed before.
SealedInv ==
  sealing /\ Turns /\ open =>
    /\ up # <<>> =>
         /\ up[1].form = "name" => crypt
         /\ act = add => up[1].form = "sealed"
         /\ up[1].form = "line" /\ up[1].line = "add" => encrypt /\ ~precrypt /\ ~crypt
    /\ act = add /\ down # <<>> => (encrypt /\ ~precrypt /\ ~crypt) \/ (crypt /\ down[1] = "text")
    /\ act = add /\ up = <<>> /\ down = <<>> /\ ~awaiting /\ client = "running" => encrypt /\ ~precrypt

IInv == TypeOK /\ TurnInv /\ FlagInv /\ StepInv /\ SealedInv
-----------------------------------------------------------------------------
(***************************************************************************)
(* What the actions do.                                                    *)
(***************************************************************************)

\* A line that is sent is one of the four kinds.
Sends(l) == SendName(l) \/ SendSealed(l) \/ SendLine(l) \/ SendOnly(l)

\* What a step of the server writes.
LEMMA AnswersType ==
  ASSUME TypeOK, NEW r, NEW a \in Answers(r)
  PROVE  /\ a \in Seq(Answer) /\ Len(a) \in 1..2
         /\ Len(a) = 2 <=> Twice(r)
         /\ act # get => a[1] = "text"
         /\ act = get => a[1] \in Answer \ {"text"}
<1>1. PICK v \in Told(r) : a = IF Twice(r) THEN <<v, v>> ELSE <<v>>
  BY DEF Answers
<1>2. v \in Answer /\ (act # get => v = "text") /\ (act = get => v # "text")
  BY DEF Told, TypeOK, Answer
<1>3. CASE Twice(r)
  BY <1>1, <1>2, <1>3
<1>4. CASE ~Twice(r)
  BY <1>1, <1>2, <1>4
<1> QED
  BY <1>3, <1>4

\* The actions a result leads to.
LEMMA ResultActs ==
  ASSUME TypeOK, NEW k \in 1..Len(up), NEW r \in Result(k) \ {disconnect}
  PROVE  /\ NextAction(act, r) \in Actions
         /\ act \in greetings..authentification => NextAction(act, r) \in greetings..command_checker
         /\ act \in Operations => NextAction(act, r) = command_checker
         /\ act = command_checker =>
              /\ Twice(r) => NextAction(act, r) = command_checker
              /\ ~Twice(r) => /\ NextAction(act, r) = Chosen(Commands, Word(k))
                              /\ Word(k) \in DOMAIN Commands
<1> USE DEF greetings, registration, authentification, command_checker, get, add, del, edit, Actions, Operations
<1>1. act \in 0..7
  BY DEF TypeOK
<1>2. CASE act = greetings
  <2>1. r \in {NOONE, registration, authentification}
    BY <1>2 DEF Result, Chosen, Menu
  <2> QED
    BY <1>2, <2>1 DEF NextAction, LogsIn, NOONE
<1>3. CASE act \in {registration, authentification}
  BY <1>3 DEF NextAction, LogsIn
<1>4. CASE act = command_checker
  <2>1. r = Chosen(Commands, Word(k))
    BY <1>4 DEF Result
  <2>2. Twice(r) <=> Word(k) \notin DOMAIN Commands
    BY <1>4, <2>1 DEF Twice, Chosen, Commands, NOONE
  <2> QED
    BY <1>4, <2>1, <2>2 DEF NextAction, LogsIn, Twice, Chosen, Commands, NOONE
<1>5. CASE act \in Operations
  BY <1>5 DEF NextAction, LogsIn
<1> QED
  BY <1>1, <1>2, <1>3, <1>4, <1>5
-----------------------------------------------------------------------------
(***************************************************************************)
(* Types and turns.                                                        *)
(***************************************************************************)

\* What is left of a sequence when k messages are taken from its front.
LEMMA RestType ==
  ASSUME NEW S, NEW s \in Seq(S), NEW k \in 1..Len(s)
  PROVE  SubSeq(s, k + 1, Len(s)) \in Seq(S)
<1>1. \A i \in 1..Len(s) : s[i] \in S
  OBVIOUS
<1> QED
  BY <1>1

\* Sends(l) in one conjunction: what every way of sending a line does.
LEMMA SendsEffect ==
  ASSUME NEW l \in Typed, Sends(l)
  PROVE  \E form \in Forms :
           /\ Send(l, form)
           /\ form \in {"name", "sealed"} => sealing
  BY DEF Sends, SendName, SendSealed, SendLine, SendOnly, Forms

LEMMA FlagsType ==
  ASSUME TypeOK, NEW l \in Typed, Sends(l)
  PROVE  encrypt' \in BOOLEAN /\ precrypt' \in BOOLEAN /\ crypt' \in BOOLEAN
  BY DEF TypeOK, Sends, SendName, SendSealed, SendLine, SendOnly, Flags, flags

LEMMA ServeType ==
  ASSUME DialogueAssumption, TypeOK, NEW k \in 1..Len(up), Serve(k)
  PROVE  TypeOK'
<1> USE DialogueAssumption
<1>1. up' = SubSeq(up, k + 1, Len(up)) /\ open
  BY DEF Serve
<1>2. up' \in Seq([line : Typed, form : Forms])
  BY <1>1, RestType DEF TypeOK
<1>0. PICK r \in Result(k) \ {disconnect} : \E a \in Answers(r) : Reply(k, r, a)
  BY DEF Serve
<1>3. PICK a \in Answers(r) : Reply(k, r, a)
  BY <1>0
<1>4. down' \in Seq(Answer)
  BY <1>3, AnswersType DEF Reply, TypeOK
<1>5. act' \in Actions
  BY <1>3, ResultActs DEF Reply
<1>6. tries' \in 0..ClientTries /\ (open' => tries' < ClientTries) /\ open' \in BOOLEAN
  <2>1. tries \in 0..ClientTries /\ tries < ClientTries /\ ClientTries \in Nat
    BY <1>1 DEF TypeOK, DialogueAssumption
  <2>2. CASE FailedTry(act, r)
    <3>1. tries' = tries + 1
      BY <1>3, <2>2 DEF Reply
    <3>2. open' = ~(tries + 1 = ClientTries)
      BY <1>3, <2>2 DEF Reply, Banned
    <3>3. open' \in BOOLEAN /\ (open' <=> tries + 1 # ClientTries)
      BY <3>2
    <3> QED
      BY <2>1, <3>1, <3>3
  <2>3. CASE ~FailedTry(act, r)
    BY <1>3, <2>1, <2>3 DEF Reply, Banned
  <2> QED
    BY <2>2, <2>3
<1>7. vault' \subseteq {"sealed", "plain"}
  BY <1>3 DEF Reply, TypeOK, Stored
<1>8. doubled' \in BOOLEAN
  BY <1>3 DEF Reply
<1> QED
  BY <1>2, <1>4, <1>5, <1>6, <1>7, <1>8 DEF Serve, TypeOK, program, flags, choices

LEMMA TypeStep ==
  ASSUME DialogueAssumption, TypeOK, [Next]_vars
  PROVE  TypeOK'
<1> USE DEF vars, session, wire, program, flags, choices, history
<1>1. CASE \E l \in Typed : SendName(l) \/ SendSealed(l) \/ SendLine(l) \/ SendOnly(l)
  <2>1. PICK l \in Typed : Sends(l)
    BY <1>1 DEF Sends
  <2>2. PICK form \in Forms : Send(l, form)
    BY <2>1, SendsEffect
  <2>3. up' \in Seq([line : Typed, form : Forms])
    BY <2>2 DEF Send, TypeOK
  <2> QED
    BY <2>1, <2>2, <2>3, FlagsType DEF Send, TypeOK
<1>2. CASE Shut
  BY <1>2 DEF Shut, TypeOK
<1>8. CASE Finish
  BY <1>8 DEF Finish, TypeOK
<1>3. ASSUME NEW k \in 1..Len(down), Show(k) \/ Decipher(k)
      PROVE  TypeOK'
  <2>1. down' = SubSeq(down, k + 1, Len(down)) /\ awaiting' = FALSE
        /\ UNCHANGED <<act, tries, open, vault, up, sealing, patient, odd, doubled, encrypt>>
    BY <1>3 DEF Show, Decipher, Reads
  <2>2. down' \in Seq(Answer)
    BY <2>1, RestType DEF TypeOK
  <2>3. /\ client' \in {client, "failed"} /\ precrypt' \in {precrypt, FALSE}
        /\ crypt' \in {crypt, FALSE}
    BY <1>3 DEF Show, Decipher
  <2> QED
    BY <2>1, <2>2, <2>3 DEF TypeOK
<1>4. ASSUME NEW k \in 1..Len(up), Serve(k)
      PROVE  TypeOK'
  BY <1>4, ServeType
<1>5. ASSUME NEW k \in 1..Len(up), GiveUp(k)
      PROVE  TypeOK'
  <2>1. up' \in Seq([line : Typed, form : Forms])
    BY <1>5, RestType DEF GiveUp, TypeOK
  <2> QED
    BY <1>5, <2>1 DEF GiveUp, TypeOK
<1>6. CASE HangUp
  BY <1>6 DEF HangUp, TypeOK
<1>7. CASE UNCHANGED vars
  BY <1>7 DEF TypeOK
<1> QED
  BY <1>1, <1>2, <1>3, <1>4, <1>5, <1>6, <1>7, <1>8 DEF Next, ClientReads, ServerSteps

\* While turns are kept a read takes the one message there is.
LEMMA OneTaken ==
  ASSUME TypeOK, TurnInv, Turns
  PROVE  /\ \A k \in 1..Len(down) : k = 1 /\ SubSeq(down, k + 1, Len(down)) = <<>>
         /\ \A k \in 1..Len(up) : open => k = 1 /\ SubSeq(up, k + 1, Len(up)) = <<>> /\ down = <<>>
<1>1. Len(down) \in Nat /\ Len(up) \in Nat /\ down \in Seq(Answer) /\ up \in Seq([line : Typed, form : Forms])
  BY DEF TypeOK
<1>2. Len(down) <= 1 /\ (open => Len(up) + Len(down) <= 1)
  BY DEF TurnInv
<1> QED
  BY <1>1, <1>2

LEMMA TurnStep ==
  ASSUME TypeOK, TurnInv, [Next]_vars
  PROVE  TurnInv'
<1> SUFFICES ASSUME Turns'
             PROVE  /\ open' => Len(up)' + Len(down)' <= 1
                    /\ Len(down)' <= 1
                    /\ ~awaiting' => down' = <<>> /\ (open' => up' = <<>>)
  BY DEF TurnInv
<1> USE DEF vars, session, wire, program, flags, choices, history
<1>0. /\ Len(down) \in Nat /\ Len(up) \in Nat
      /\ down \in Seq(Answer) /\ up \in Seq([line : Typed, form : Forms])
  BY DEF TypeOK
<1>1. CASE \E l \in Typed : SendName(l) \/ SendSealed(l) \/ SendLine(l) \/ SendOnly(l)
  <2>1. PICK l \in Typed, form \in Forms : Send(l, form)
    BY <1>1, SendsEffect DEF Sends
  <2>2. Turns /\ ~awaiting
    BY <2>1 DEF Send, Turns
  <2>3. down = <<>> /\ (open => up = <<>>)
    BY <2>2 DEF TurnInv
  <2> QED
    BY <1>0, <2>1, <2>3 DEF Send
<1>2. CASE Shut \/ Finish \/ UNCHANGED vars
  <2>1. UNCHANGED <<patient, doubled, awaiting, up, down, open>>
    BY <1>2 DEF Shut, Finish
  <2> QED
    BY <2>1 DEF Turns, TurnInv
<1>3. ASSUME NEW k \in 1..Len(down), Show(k) \/ Decipher(k)
      PROVE  TurnInv'
  <2>1. /\ down' = SubSeq(down, k + 1, Len(down))
        /\ UNCHANGED <<open, up, patient, doubled>>
    BY <1>3 DEF Show, Decipher, Reads
  <2>2. down' = <<>> /\ Turns
    BY <2>1, OneTaken DEF Turns
  <2>3. open => up = <<>>
    BY <1>0, <2>2 DEF TurnInv
  <2> QED
    BY <1>0, <2>1, <2>2, <2>3 DEF TurnInv
<1>4. ASSUME NEW k \in 1..Len(up), Serve(k)
      PROVE  TurnInv'
  <2>0. PICK r \in Result(k) \ {disconnect} : \E a \in Answers(r) : Reply(k, r, a)
    BY <1>4 DEF Serve
  <2>1. PICK a \in Answers(r) : down' = down \o a /\ doubled' = (doubled \/ Len(a) > 1)
    BY <2>0 DEF Reply
  <2>2. open /\ up' = SubSeq(up, k + 1, Len(up)) /\ UNCHANGED <<patient, awaiting>>
    BY <1>4 DEF Serve
  <2>3. Turns /\ ~(Len(a) > 1)
    BY <2>1, <2>2 DEF Turns
  <2>4. up' = <<>> /\ down = <<>> /\ up # <<>>
    BY <1>0, <2>2, <2>3, OneTaken
  <2>5. Len(a) = 1 /\ a \in Seq(Answer)
    BY <2>3, AnswersType
  <2>6. down' = a
    BY <2>1, <2>4, <2>5
  <2>7. awaiting
    BY <1>0, <2>2, <2>3, <2>4 DEF TurnInv
  <2>8. Len(up') = 0 /\ Len(down') = 1 /\ awaiting'
    BY <2>2, <2>4, <2>5, <2>6, <2>7
  <2> QED
    BY <2>8 DEF TurnInv
<1>5. ASSUME NEW k \in 1..Len(up), GiveUp(k)
      PROVE  TurnInv'
  BY <1>0, <1>5 DEF GiveUp, TurnInv, Turns
<1>6. CASE HangUp
  BY <1>0, <1>6 DEF HangUp, TurnInv, Turns
<1> QED
  BY <1>1, <1>2, <1>3, <1>4, <1>5, <1>6 DEF Next, ClientReads, ServerSteps, TurnInv
-----------------------------------------------------------------------------
(***************************************************************************)
(* The client's flags.                                                     *)
(***************************************************************************)

LEMMA FlagStep ==
  ASSUME TypeOK, FlagInv, [Next]_vars
  PROVE  FlagInv'
<1> USE DEF vars, session, wire, program, flags, choices, history
<1>1. CASE \E l \in Typed : SendName(l) \/ SendSealed(l) \/ SendLine(l) \/ SendOnly(l)
  <2>1. PICK l \in Typed : Sends(l)
    BY <1>1 DEF Sends
  <2>2. awaiting' = TRUE /\ sealing' = sealing
    BY <2>1, SendsEffect DEF Send
  <2>3. sealing \/ UNCHANGED <<encrypt, precrypt, crypt>>
    BY <2>1 DEF Sends, SendName, SendSealed, SendLine, SendOnly
  <2> QED
    BY <2>2, <2>3 DEF FlagInv
<1>2. ASSUME NEW k \in 1..Len(down), Show(k) \/ Decipher(k)
      PROVE  FlagInv'
  <2>1. CASE Show(k)
    BY <2>1 DEF Show, Reads, FlagInv
  <2>2. CASE Decipher(k)
    BY <2>2 DEF Decipher, Reads, FlagInv
  <2> QED
    BY <1>2, <2>1, <2>2
<1>3. CASE Shut \/ Finish \/ ServerSteps \/ UNCHANGED vars
  <2>1. UNCHANGED <<sealing, encrypt, precrypt, crypt, awaiting>>
    BY <1>3 DEF Shut, Finish, ServerSteps, HangUp, Serve, GiveUp
  <2> QED
    BY <2>1 DEF FlagInv
<1> QED
  BY <1>1, <1>2, <1>3 DEF Next, ClientReads

\* The user's turn: nothing is under way.
LEMMA MyTurn ==
  ASSUME TypeOK, TurnInv, Turns, NEW l \in Typed, Sends(l)
  PROVE  /\ down = <<>> /\ (open => up = <<>>)
         /\ client = "running" /\ ~awaiting /\ awaiting' = TRUE
         /\ UNCHANGED <<act, open, down, vault, client, sealing, patient, doubled>>
<1>1. PICK form \in Forms : Send(l, form)
  BY SendsEffect
<1>2. ~awaiting /\ client = "running" /\ awaiting' = TRUE
      /\ UNCHANGED <<act, open, down, vault, client, sealing, patient, doubled>>
  BY <1>1 DEF Send, Turns, session, choices
<1> QED
  BY <1>2 DEF TurnInv

\* The server's turn: one line, which is answered once.
LEMMA ServerTurn ==
  ASSUME TypeOK, TurnInv, NEW k \in 1..Len(up), Serve(k), Turns'
  PROVE  \E r \in Result(1) \ {disconnect} : \E a \in Answers(r) :
           /\ Reply(1, r, a)
           /\ ~Twice(r) /\ a \in Seq(Answer) /\ Len(a) = 1 /\ down' = a
           /\ Turns /\ open /\ up # <<>> /\ down = <<>> /\ up' = <<>> /\ awaiting /\ k = 1
           /\ UNCHANGED <<client, encrypt, precrypt, crypt, sealing, patient, awaiting, odd>>
<1>1. /\ open /\ up' = SubSeq(up, k + 1, Len(up))
      /\ UNCHANGED <<client, encrypt, precrypt, crypt, sealing, patient, awaiting, odd>>
  BY DEF Serve, program, flags, choices
<1>2. PICK r \in Result(k) \ {disconnect} : \E a \in Answers(r) : Reply(k, r, a)
  BY DEF Serve
<1>3. PICK a \in Answers(r) : Reply(k, r, a)
  BY <1>2
<1>4. Turns /\ ~(Len(a) > 1)
  BY <1>1, <1>3 DEF Reply, Turns
<1>5. up \in Seq([line : Typed, form : Forms]) /\ Len(up) \in Nat /\ down \in Seq(Answer)
  BY DEF TypeOK
<1>6. k = 1 /\ up' = <<>> /\ down = <<>> /\ up # <<>>
  BY <1>1, <1>4, <1>5, OneTaken
<1>7. Len(a) = 1 /\ a \in Seq(Answer) /\ ~Twice(r)
  BY <1>4, AnswersType
<1>8. down' = a
  BY <1>3, <1>6, <1>7 DEF Reply
<1>9. awaiting
  BY <1>1, <1>4, <1>6 DEF TurnInv, TypeOK
<1> QED
  BY <1>1, <1>2, <1>3, <1>4, <1>6, <1>7, <1>8, <1>9

\* The flags after a line that was sent with precrypt off.
LEMMA FlagsAre ==
  ASSUME NEW l, Flags(l), ~precrypt, encrypt => l \notin BeginsGet
  PROVE  /\ encrypt' <=> l \in BeginsAdd
         /\ precrypt' <=> l \in BeginsGet
<1>1. encrypt' = (l \in BeginsAdd \/ (l \in BeginsGet /\ encrypt))
  BY DEF Flags
<1>2. precrypt' = (l \in BeginsGet \/ (l \in BeginsAdd /\ precrypt))
  BY DEF Flags
<1> QED
  BY <1>1, <1>2

LEMMA StepSend ==
  ASSUME TypeOK, TurnInv, FlagInv, StepInv, NEW l \in Typed, Sends(l)
  PROVE  StepInv'
<1> SUFFICES ASSUME sealing', Turns', ~odd'
             PROVE  (open /\ up # <<>> => LineInv)' /\ down' = <<>> /\ up' # <<>>
  BY DEF StepInv
<1>1. Turns /\ sealing
  <2>1. PICK form \in Forms : Send(l, form)
    BY SendsEffect
  <2> QED
    BY <2>1 DEF Send, Turns, choices
<1>2. /\ down = <<>> /\ (open => up = <<>>) /\ ~awaiting
      /\ UNCHANGED <<act, open, down>>
  BY <1>1, MyTurn
<1>3. PICK form \in Forms :
        /\ up' = Append(up, [line |-> l, form |-> form])
        /\ odd' = (odd \/ /\ l \in BeginsAdd \cup BeginsGet
                          /\ ~(act = command_checker /\ l \in DOMAIN Commands))
        /\ \/ form = "name" /\ precrypt /\ crypt' = TRUE /\ UNCHANGED <<encrypt, precrypt>>
           \/ form = "sealed" /\ ~precrypt /\ encrypt /\ Flags(l) /\ crypt' = crypt
           \/ form = "line" /\ ~precrypt /\ ~encrypt /\ Flags(l) /\ crypt' = crypt
  BY <1>1 DEF Sends, SendName, SendSealed, SendLine, SendOnly, Send, Forms, flags
<1>4. up \in Seq([line : Typed, form : Forms])
  BY DEF TypeOK
<1>5. up' # <<>>
  BY <1>3, <1>4
<1>6. ASSUME open
      PROVE  LineInv'
  <2>1. up' = <<[line |-> l, form |-> form]>>
    BY <1>2, <1>3, <1>6
  <2>2. up'[1].line = l /\ up'[1].form = form
    BY <2>1
  <2>3. InAction
    BY <1>1, <1>2, <1>3, <1>6 DEF StepInv
  <2>4. /\ l \in BeginsAdd \cup BeginsGet => act = command_checker /\ l \in {"add", "get"}
    BY <1>3 DEF BeginsAdd, BeginsGet, Commands, AddText, GetText
  <2>5. act # get \/ act # add
    BY DEF get, add
  <2>6. CASE form = "name"
    <3>1. precrypt /\ act = get /\ ~encrypt
      BY <1>3, <2>3, <2>5, <2>6 DEF InAction
    <3>2. crypt' /\ precrypt' /\ ~encrypt' /\ act' = get
      BY <1>2, <1>3, <2>6, <3>1
    <3> QED
      BY <3>2 DEF LineInv
  <2>7. CASE form = "sealed"
    <3>1. act = add /\ ~crypt /\ l \notin BeginsAdd \cup BeginsGet
      BY <1>3, <2>3, <2>4, <2>7 DEF InAction, add, command_checker
    <3>2. ~encrypt' /\ ~precrypt' /\ ~crypt' /\ act' = add
      <4>1. Flags(l) /\ ~precrypt /\ crypt' = crypt /\ act' = act
        BY <1>2, <1>3, <2>7
      <4> QED
        BY <3>1, <4>1, FlagsAre
    <3> QED
      BY <3>2 DEF LineInv
  <2>8. CASE form = "line"
    <3>1. act \notin {get, add} /\ ~crypt
      BY <1>3, <2>3, <2>8 DEF InAction
    <3>2. (encrypt' <=> l \in BeginsAdd) /\ (precrypt' <=> l \in BeginsGet) /\ ~crypt' /\ act' = act
      <4>1. Flags(l) /\ ~precrypt /\ ~encrypt /\ crypt' = crypt /\ act' = act
        BY <1>2, <1>3, <2>8
      <4> QED
        BY <3>1, <4>1, FlagsAre
    <3>3. CASE act = command_checker
      <4>1. (encrypt' <=> l = "add") /\ (precrypt' <=> l = "get")
        BY <2>4, <3>2 DEF BeginsAdd, BeginsGet, AddText, GetText
      <4> QED
        BY <2>2, <2>8, <3>2, <3>3, <4>1 DEF LineInv
    <3>4. CASE act # command_checker
      BY <2>4, <3>1, <3>2, <3>4 DEF LineInv
    <3> QED
      BY <3>3, <3>4
  <2> QED
    BY <2>6, <2>7, <2>8 DEF Forms
<1> QED
  BY <1>2, <1>5, <1>6

LEMMA StepServe ==
  ASSUME TypeOK, TurnInv, StepInv, NEW k \in 1..Len(up), Serve(k)
  PROVE  StepInv'
<1> SUFFICES ASSUME sealing', Turns', ~odd'
             PROVE  /\ up' = <<>> /\ awaiting'
                    /\ IF open' THEN AnswerInv' ELSE crypt' => down'[1] # "text"
  BY DEF StepInv
<1>0. PICK r \in Result(1) \ {disconnect} : \E a \in Answers(r) :
           /\ Reply(1, r, a)
           /\ ~Twice(r) /\ a \in Seq(Answer) /\ Len(a) = 1 /\ down' = a
           /\ Turns /\ open /\ up # <<>> /\ down = <<>> /\ up' = <<>> /\ awaiting /\ k = 1
           /\ UNCHANGED <<client, encrypt, precrypt, crypt, sealing, patient, awaiting, odd>>
  BY ServerTurn
<1>1. PICK a \in Answers(r) :
           /\ Reply(1, r, a)
           /\ ~Twice(r) /\ a \in Seq(Answer) /\ Len(a) = 1 /\ down' = a
           /\ Turns /\ open /\ up # <<>> /\ down = <<>> /\ up' = <<>> /\ awaiting /\ k = 1
           /\ UNCHANGED <<client, encrypt, precrypt, crypt, sealing, patient, awaiting, odd>>
  BY <1>0
<1>2. LineInv /\ act' = NextAction(act, r)
  BY <1>1 DEF StepInv, Reply
<1>3. /\ act \in greetings..authentification => act' \in greetings..command_checker
      /\ act \in Operations => act' = command_checker
      /\ act = command_checker => act' = Chosen(Commands, Word(1)) /\ Word(1) \in DOMAIN Commands
  BY <1>1, <1>2, ResultActs
<1>4. act = get => down'[1] \in Answer \ {"text"}
  BY <1>1, AnswersType
<1>5. CASE act = get /\ crypt /\ precrypt /\ ~encrypt
  <2>1. crypt' /\ ~encrypt' /\ act' = command_checker
    BY <1>1, <1>3, <1>5 DEF Operations, get, edit
  <2> QED
    BY <1>1, <1>4, <1>5, <2>1 DEF AnswerInv
<1>6. CASE ~encrypt /\ ~precrypt /\ ~crypt /\ act \notin {get, command_checker}
  <2>1. act' \in greetings..command_checker
    BY <1>3, <1>6 DEF TypeOK, Actions, Operations, greetings, authentification, command_checker, get, edit
  <2>2. act' # get /\ act' # add
    BY <2>1 DEF greetings, command_checker, get, add
  <2> QED
    BY <1>1, <1>6, <2>2 DEF AnswerInv, InAction
<1>7. CASE /\ act = command_checker /\ ~crypt
           /\ up[1].form = "line"
           /\ encrypt <=> up[1].line = "add"
           /\ precrypt <=> up[1].line = "get"
  <2>1. Word(1) = up[1].line
    BY <1>7 DEF Word
  <2>2. act' = add <=> up[1].line = "add"
    BY <1>3, <1>7, <2>1 DEF Chosen, Commands, get, add, del, edit
  <2>3. act' = get <=> up[1].line = "get"
    BY <1>3, <1>7, <2>1 DEF Chosen, Commands, get, add, del, edit
  <2> QED
    BY <1>1, <1>7, <2>2, <2>3 DEF AnswerInv, InAction
<1> QED
  BY <1>2, <1>5, <1>6, <1>7 DEF LineInv, get, add, command_checker

LEMMA StepStep ==
  ASSUME TypeOK, TurnInv, FlagInv, StepInv, [Next]_vars
  PROVE  StepInv'
<1> USE DEF vars, session, wire, program, flags, choices, history
<1>1. CASE \E l \in Typed : SendName(l) \/ SendSealed(l) \/ SendLine(l) \/ SendOnly(l)
  BY <1>1, StepSend DEF Sends
<1>2. CASE Shut \/ Finish \/ UNCHANGED vars
  <2>1. UNCHANGED <<act, open, up, down, encrypt, precrypt, crypt, sealing, patient, doubled, odd, awaiting>>
    BY <1>2 DEF Shut, Finish
  <2> QED
    BY <2>1 DEF StepInv, LineInv, AnswerInv, InAction, Turns
<1>3. ASSUME NEW k \in 1..Len(down), Show(k) \/ Decipher(k)
      PROVE  StepInv'
  <2> SUFFICES ASSUME sealing', Turns', ~odd'
               PROVE  down' = <<>> /\ (open' => up' = <<>> /\ InAction')
    BY DEF StepInv
  <2>1. /\ down' = SubSeq(down, k + 1, Len(down))
        /\ UNCHANGED <<act, open, up, sealing, patient, doubled, odd, encrypt>>
    BY <1>3 DEF Show, Decipher, Reads
  <2>2. Turns /\ sealing /\ ~odd
    BY <2>1 DEF Turns
  <2>3. down' = <<>> /\ down # <<>> /\ (open => up = <<>>)
    <3>1. Len(down) \in Nat /\ Len(up) \in Nat /\ down \in Seq(Answer) /\ up \in Seq([line : Typed, form : Forms])
      BY DEF TypeOK
    <3> QED
      BY <2>1, <2>2, <3>1, OneTaken DEF TurnInv
  <2>4. ASSUME open
        PROVE  InAction'
    <3>1. AnswerInv
      BY <2>2, <2>3, <2>4 DEF StepInv
    <3>2. CASE Show(k)
      <4>1. ~crypt /\ UNCHANGED <<precrypt, crypt>>
        BY <3>2 DEF Show
      <4> QED
        BY <2>1, <3>1, <4>1 DEF AnswerInv, InAction
    <3>3. CASE Decipher(k)
      <4>1. crypt /\ precrypt' = FALSE /\ crypt' = FALSE
        BY <3>3 DEF Decipher
      <4>2. ~encrypt /\ act = command_checker
        BY <2>4, <3>1, <4>1 DEF AnswerInv, InAction
      <4> QED
        BY <2>1, <4>1, <4>2 DEF InAction, get, add, command_checker
    <3> QED
      BY <1>3, <3>2, <3>3
  <2> QED
    BY <2>1, <2>3, <2>4
<1>4. ASSUME NEW k \in 1..Len(up), Serve(k)
      PROVE  StepInv'
  BY <1>4, StepServe
<1>5. ASSUME NEW k \in 1..Len(up), GiveUp(k)
      PROVE  StepInv'
  <2>1. open /\ ~open' /\ up # <<>>
        /\ UNCHANGED <<down, crypt, sealing, patient, doubled, odd>>
    BY <1>5 DEF GiveUp, TypeOK
  <2>2. Turns' => down' = <<>>
    <3>1. Len(down) \in Nat /\ Len(up) \in Nat /\ down \in Seq(Answer) /\ up \in Seq([line : Typed, form : Forms])
      BY DEF TypeOK
    <3> QED
      BY <2>1, <3>1, OneTaken DEF Turns
  <2> QED
    BY <2>1, <2>2 DEF StepInv
<1>6. CASE HangUp
  <2>1. open /\ ~open' /\ UNCHANGED <<down, crypt, sealing, patient, doubled, odd>>
    BY <1>6 DEF HangUp
  <2>2. sealing' /\ Turns' /\ ~odd' /\ down' # <<>> => AnswerInv
    BY <2>1 DEF StepInv, Turns
  <2>3. AnswerInv /\ crypt => down[1] # "text"
    BY DEF AnswerInv, InAction, Answer
  <2> QED
    BY <2>1, <2>2, <2>3 DEF StepInv
<1> QED
  BY <1>1, <1>2, <1>3, <1>4, <1>5, <1>6 DEF Next, ClientReads, ServerSteps
-----------------------------------------------------------------------------
(***************************************************************************)
(* What is stored.                                                         *)
(***************************************************************************)

LEMMA SealedSend ==
  ASSUME TypeOK, TurnInv, FlagInv, SealedInv, NEW l \in Typed, Sends(l)
  PROVE  SealedInv'
<1> SUFFICES ASSUME sealing', Turns', open'
             PROVE  /\ up' # <<>> /\ down' = <<>>
                    /\ up'[1].form = "name" => crypt'
                    /\ act' = add => up'[1].form = "sealed"
                    /\ up'[1].form = "line" /\ up'[1].line = "add" => encrypt' /\ ~precrypt' /\ ~crypt'
  BY DEF SealedInv
<1>1. Turns /\ sealing /\ open
  <2>1. PICK form \in Forms : Send(l, form)
    BY SendsEffect
  <2> QED
    BY <2>1 DEF Send, Turns, choices, session
<1>2. /\ down = <<>> /\ up = <<>> /\ ~awaiting /\ client = "running"
      /\ UNCHANGED <<act, open, down>>
  BY <1>1, MyTurn
<1>3. PICK form \in Forms :
        /\ up' = Append(up, [line |-> l, form |-> form])
        /\ \/ form = "name" /\ precrypt /\ crypt' = TRUE
           \/ form = "sealed"
           \/ form = "line" /\ ~precrypt /\ ~encrypt /\ Flags(l) /\ crypt' = crypt
  BY <1>1 DEF Sends, SendName, SendSealed, SendLine, SendOnly, Send, Forms, flags
<1>4. up' = <<[line |-> l, form |-> form]>>
  BY <1>2, <1>3
<1>5. up' # <<>> /\ up'[1].line = l /\ up'[1].form = form
  BY <1>4
<1>6. act = add => encrypt /\ ~precrypt
  BY <1>1, <1>2 DEF SealedInv
<1>7. ~crypt
  BY <1>2 DEF FlagInv
<1>8. ASSUME form = "line", l = "add"
      PROVE  encrypt' /\ ~precrypt' /\ ~crypt'
  <2>1. Flags(l) /\ ~precrypt /\ ~encrypt /\ crypt' = crypt
    BY <1>3, <1>8
  <2>2. l \in BeginsAdd /\ l \notin BeginsGet
    BY <1>8 DEF BeginsAdd, BeginsGet, GetText
  <2> QED
    BY <1>7, <2>1, <2>2, FlagsAre
<1> QED
  BY <1>2, <1>3, <1>5, <1>6, <1>8

LEMMA SealedServe ==
  ASSUME TypeOK, TurnInv, SealedInv, NEW k \in 1..Len(up), Serve(k)
  PROVE  SealedInv'
<1> SUFFICES ASSUME sealing', Turns', open'
             PROVE  /\ up' = <<>> /\ awaiting'
                    /\ act' = add => (encrypt' /\ ~precrypt' /\ ~crypt') \/ (crypt' /\ down'[1] = "text")
  BY DEF SealedInv
<1>0. PICK r \in Result(1) \ {disconnect} : \E a \in Answers(r) :
           /\ Reply(1, r, a)
           /\ ~Twice(r) /\ a \in Seq(Answer) /\ Len(a) = 1 /\ down' = a
           /\ Turns /\ open /\ up # <<>> /\ down = <<>> /\ up' = <<>> /\ awaiting /\ k = 1
           /\ UNCHANGED <<client, encrypt, precrypt, crypt, sealing, patient, awaiting, odd>>
  BY ServerTurn
<1>1. PICK a \in Answers(r) :
           /\ Reply(1, r, a)
           /\ ~Twice(r) /\ a \in Seq(Answer) /\ Len(a) = 1 /\ down' = a
           /\ Turns /\ open /\ up # <<>> /\ down = <<>> /\ up' = <<>> /\ awaiting /\ k = 1
           /\ UNCHANGED <<client, encrypt, precrypt, crypt, sealing, patient, awaiting, odd>>
  BY <1>0
<1>2. act' = NextAction(act, r)
  BY <1>1 DEF Reply
<1>3. /\ act \in greetings..authentification => act' \in greetings..command_checker
      /\ act \in Operations => act' = command_checker
      /\ act = command_checker => act' = Chosen(Commands, Word(1)) /\ Word(1) \in DOMAIN Commands
  BY <1>1, <1>2, ResultActs
<1>4. ASSUME act' = add
      PROVE  (encrypt' /\ ~precrypt' /\ ~crypt') \/ (crypt' /\ down'[1] = "text")
  <2>1. act = command_checker
    <3>1. act \in 0..7
      BY DEF TypeOK, Actions, greetings, edit
    <3> QED
      BY <1>3, <1>4, <3>1 DEF Operations, greetings, authentification, command_checker, get, add, edit
  <2>2. Word(1) = "add"
    BY <1>3, <1>4, <2>1 DEF Chosen, Commands, get, add, del, edit
  <2>3. up[1].line = "add" /\ up[1].form \in {"name", "line"}
    BY <2>2 DEF Word
  <2>4. act # get => a[1] = "text"
    BY AnswersType
  <2>5. down'[1] = "text"
    BY <1>1, <2>1, <2>4 DEF command_checker, get
  <2>6. \/ crypt
        \/ encrypt /\ ~precrypt /\ ~crypt
    BY <1>1, <2>3 DEF SealedInv
  <2> QED
    BY <1>1, <2>5, <2>6
<1> QED
  BY <1>1, <1>4

LEMMA SealedStep ==
  ASSUME TypeOK, TurnInv, FlagInv, SealedInv, [Next]_vars
  PROVE  SealedInv'
<1> USE DEF vars, session, wire, program, flags, choices, history
<1>1. CASE \E l \in Typed : SendName(l) \/ SendSealed(l) \/ SendLine(l) \/ SendOnly(l)
  BY <1>1, SealedSend DEF Sends
<1>2. CASE Shut \/ UNCHANGED vars
  <2>1. /\ UNCHANGED <<act, open, up, down, encrypt, precrypt, crypt, sealing, patient, doubled, awaiting>>
        /\ client' = "running" => client = "running"
    BY <1>2 DEF Shut
  <2> QED
    BY <2>1 DEF SealedInv, Turns
<1>3. ASSUME NEW k \in 1..Len(down), Show(k) \/ Decipher(k)
      PROVE  SealedInv'
  <2> SUFFICES ASSUME sealing', Turns', open'
               PROVE  /\ up' = <<>> /\ down' = <<>>
                      /\ act' = add /\ client' = "running" => encrypt' /\ ~precrypt'
    BY DEF SealedInv
  <2>1. /\ down' = SubSeq(down, k + 1, Len(down))
        /\ UNCHANGED <<act, open, up, sealing, patient, doubled, encrypt>>
    BY <1>3 DEF Show, Decipher, Reads
  <2>2. Turns /\ sealing /\ open
    BY <2>1 DEF Turns
  <2>3. down' = <<>> /\ down # <<>> /\ up = <<>>
    <3>1. Len(down) \in Nat /\ Len(up) \in Nat /\ down \in Seq(Answer) /\ up \in Seq([line : Typed, form : Forms])
      BY DEF TypeOK
    <3> QED
      BY <2>1, <2>2, <3>1, OneTaken DEF TurnInv
  <2>4. act = add => (encrypt /\ ~precrypt /\ ~crypt) \/ (crypt /\ down[1] = "text")
    BY <2>2, <2>3 DEF SealedInv
  <2>5. CASE Show(k)
    <3>1. ~crypt /\ precrypt' = precrypt
      BY <2>5 DEF Show
    <3> QED
      BY <2>1, <2>3, <2>4, <3>1
  <2>6. CASE Decipher(k)
    <3>1. crypt /\ (down[1] = "text" => client' = "failed")
      BY <2>6 DEF Decipher, IsCipher
    <3> QED
      BY <2>1, <2>3, <2>4, <3>1
  <2> QED
    BY <1>3, <2>5, <2>6
<1>4. ASSUME NEW k \in 1..Len(up), Serve(k)
      PROVE  SealedInv'
  BY <1>4, SealedServe
<1>5. ASSUME NEW k \in 1..Len(up), GiveUp(k)
      PROVE  SealedInv'
  BY <1>5 DEF GiveUp, SealedInv
<1>6. CASE HangUp \/ Finish
  <2>1. ~open'
    BY <1>6 DEF HangUp, Finish
  <2> QED
    BY <2>1 DEF SealedInv
<1> QED
  BY <1>1, <1>2, <1>3, <1>4, <1>5, <1>6 DEF Next, ClientReads, ServerSteps
-----------------------------------------------------------------------------
(***************************************************************************)
(* The theorems.                                                           *)
(***************************************************************************)

LEMMA InitInv == Init => IInv
<1> SUFFICES ASSUME Init
             PROVE  IInv
  OBVIOUS
<1> USE DialogueAssumption
<1>1. TypeOK
  <2>1. tries \in 0..ClientTries /\ tries < ClientTries /\ act \in Actions
    BY DEF Init, DialogueAssumption, Actions, greetings, edit
  <2>2. up \in Seq([line : Typed, form : Forms]) /\ down \in Seq(Answer)
    <3>1. up = <<>> /\ down = <<"text">> /\ "text" \in Answer
      BY DEF Init, Answer
    <3> QED
      BY <3>1
  <2> QED
    BY <2>1, <2>2 DEF Init, TypeOK
<1>2. /\ act = 0 /\ open = TRUE /\ up = <<>> /\ down = <<"text">> /\ awaiting = TRUE
      /\ encrypt = FALSE /\ precrypt = FALSE /\ crypt = FALSE
  BY DEF Init, greetings
<1>3. Len(up) = 0 /\ Len(down) = 1 /\ down # <<>>
  BY <1>2
<1>4. TurnInv
  BY <1>2, <1>3 DEF TurnInv
<1>5. FlagInv
  BY <1>2 DEF FlagInv
<1>6. StepInv
  BY <1>2 DEF StepInv, AnswerInv, InAction, get, add
<1>7. SealedInv
  BY <1>2 DEF SealedInv, add
<1> QED
  BY <1>1, <1>4, <1>5, <1>6, <1>7 DEF IInv

LEMMA NextInv == IInv /\ [Next]_vars => IInv'
  BY TypeStep, TurnStep, FlagStep, StepStep, SealedStep, DialogueAssumption DEF IInv

LEMMA AlwaysInv == Spec => []IInv
  BY InitInv, NextInv, PTL DEF Spec

\* Every variable keeps its type.
THEOREM TypeCorrect == Spec => []TypeOK
<1>1. IInv => TypeOK
  BY DEF IInv
<1> QED
  BY <1>1, AlwaysInv, PTL

\* A user who waits keeps to one message at a time, as long as no line has had
\* two answers: on this alone the framing by single reads rests.
THEOREM OneLineCorrect == Spec => []OneLineAtATime
<1>1. IInv => OneLineAtATime
  BY DEF IInv, TurnInv, OneLineAtATime
<1> QED
  BY <1>1, AlwaysInv, PTL

\* When it is the user's turn the flags of str_cli name the server's action, if
\* the user waits, no bad command has been answered twice and no other text has
\* begun like a command.
THEOREM InStepCorrect == Spec => []InStep
<1>1. IInv => InStep
  BY DEF IInv, TurnInv, StepInv, InAction, InStep
<1> QED
  BY <1>1, AlwaysInv, PTL

\* What the enciphering client has stored is enciphered, whatever a user types
\* who waits, until a bad command has been answered twice.
THEOREM StoresSealedCorrect == Spec => StoresSealed
<1>1. ASSUME IInv, [Next]_vars, sealing, Turns, "plain" \notin vault
      PROVE  "plain" \notin vault'
  <2>1. CASE UNCHANGED vault
    BY <1>1, <2>1
  <2>2. ASSUME NEW k \in 1..Len(up), Serve(k)
        PROVE  "plain" \notin vault'
    <3>1. open /\ k = 1 /\ up # <<>>
      <4>1. open /\ Len(up) \in Nat /\ up \in Seq([line : Typed, form : Forms])
        BY <1>1, <2>2 DEF Serve, IInv, TypeOK
      <4>2. k = 1
        BY <1>1, <4>1, OneTaken DEF IInv
      <4> QED
        BY <4>1, <4>2
    <3>2. act = add => up[1].form = "sealed"
      BY <1>1, <3>1 DEF IInv, SealedInv
    <3>3. PICK r \in Result(k) \ {disconnect} : \E a \in Answers(r) : Reply(k, r, a)
      BY <2>2 DEF Serve
    <3>4. vault' = IF act = add /\ r = SUCCESS THEN vault \cup {Stored(k)} ELSE vault
      BY <3>3 DEF Reply
    <3>5. act = add => Stored(k) = "sealed"
      BY <3>1, <3>2 DEF Stored
    <3> QED
      BY <1>1, <3>4, <3>5
  <2>3. (\E k \in 1..Len(up) : Serve(k)) \/ UNCHANGED vault
    BY <1>1 DEF Next, vars, session, ClientReads, ServerSteps, SendName, SendSealed, SendLine,
       SendOnly, Send, Shut, Finish, Show, Decipher, Reads, GiveUp, HangUp
  <2> QED
    BY <2>1, <2>2, <2>3
<1>2. IInv /\ [Next]_vars => [sealing /\ Turns /\ "plain" \notin vault => "plain" \notin vault']_vars
  BY <1>1
<1> QED
  BY <1>2, AlwaysInv, PTL DEF Spec, StoresSealed

\* While the turns are kept, and no other text looks like a command, the client
\* fails only on an answer that is no cipher of its own.
THEOREM FailsOnlyAtGetCorrect == Spec => FailsOnlyAtGet
<1>1. ASSUME IInv, [Next]_vars, Turns, ~odd, client' = "failed", client # "failed"
      PROVE  Head(down) \in {"missing", "plain"}
  <2>1. PICK k \in 1..Len(down) : Decipher(k)
    BY <1>1 DEF Next, vars, program, ClientReads, ServerSteps, SendName, SendSealed, SendLine,
       SendOnly, Send, Shut, Finish, Show, Decipher, Reads, Serve, GiveUp, HangUp
  <2>2. crypt /\ ~IsCipher(k)
    BY <1>1, <2>1 DEF Decipher
  <2>3. down \in Seq(Answer) /\ Len(down) \in Nat /\ k = 1
    BY <1>1, OneTaken DEF IInv, TypeOK
  <2>4. down # <<>> /\ down[1] # "sealed" /\ Head(down) = down[1] /\ down[1] \in Answer
    BY <2>2, <2>3 DEF IsCipher
  <2>5. sealing
    BY <1>1, <2>2 DEF IInv, FlagInv
  <2>6. down[1] # "text"
    BY <1>1, <2>2, <2>4, <2>5 DEF IInv, StepInv, AnswerInv, InAction, Answer
  <2> QED
    BY <2>4, <2>6 DEF Answer
<1>2. IInv /\ [Next]_vars =>
        [Turns /\ ~odd /\ client' = "failed" => client = "failed" \/ Head(down) \in {"missing", "plain"}]_vars
  BY <1>1
<1> QED
  BY <1>2, AlwaysInv, PTL DEF Spec, FailsOnlyAtGet
=============================================================================
