--------------------------- MODULE HandlersProofs ---------------------------
(* What the steps of Handlers do to the requests in flight, for the proofs *)
(* about the services built from them.                                     *)
EXTENDS Handlers, TLAPS

OneAtATime ==
  ~overlap => \A r, q \in Requests : running[r] # Idle /\ running[q] # Idle => r = q

HandlersInv ==
  /\ running = [r \in Requests |-> running[r]]
  /\ OneAtATime

(* The other requests stay where they are.                                 *)
Only(r, call) ==
  /\ running'[r] = call
  /\ \A q \in Requests \ {r} : running'[q] = running[q]
  /\ overlap' = overlap

LEMMA InitiallyIdle == HandlersInit => HandlersInv /\ \A r \in Requests : running[r] = Idle
BY DEF HandlersInit, HandlersInv, OneAtATime

LEMMA NextCall ==
  ASSUME HandlersInv, NEW r \in Requests, NEW call,
         running' = [running EXCEPT ![r] = call], overlap' = overlap,
         running[r] # Idle \/ call = Idle \/ overlap \/ Quiet
  PROVE  HandlersInv' /\ Only(r, call)
<1>1. Only(r, call)
  BY DEF HandlersInv, Only
<1>2. running' = [q \in Requests |-> running'[q]]
  BY DEF HandlersInv
<1>3. OneAtATime'
  BY <1>1 DEF HandlersInv, OneAtATime, Only, Quiet
<1> QED BY <1>1, <1>2, <1>3 DEF HandlersInv

LEMMA Begins ==
  ASSUME HandlersInv, NEW r \in Requests, NEW step, NEW doc, NEW by, NEW saw,
         Begin(r, step, doc, by, saw)
  PROVE  /\ HandlersInv'
         /\ Only(r, Call(step, doc, by, saw))
         /\ running[r] = Idle
         /\ ~overlap => Quiet
<1>1. HandlersInv' /\ Only(r, Call(step, doc, by, saw))
  <2> DEFINE call == Call(step, doc, by, saw)
  <2>1. running' = [running EXCEPT ![r] = call] /\ overlap' = overlap /\ (overlap \/ Quiet)
    BY DEF Begin
  <2> HIDE DEF call
  <2>2. HandlersInv' /\ Only(r, call)
    BY <2>1, NextCall
  <2> QED BY <2>2 DEF call
<1> QED BY <1>1 DEF Begin

LEMMA Goes ==
  ASSUME HandlersInv, NEW r \in Requests, NEW step, NEW saw,
         Goto(r, step, saw), running[r] # Idle
  PROVE  /\ HandlersInv'
         /\ Only(r, Call(step, running[r].doc, running[r].by, saw))
<1> DEFINE call == Call(step, running[r].doc, running[r].by, saw)
<1>1. running' = [running EXCEPT ![r] = call] /\ overlap' = overlap
  BY DEF Goto, HandlersInv
<1> HIDE DEF call
<1>2. HandlersInv' /\ Only(r, call)
  BY <1>1, NextCall
<1> QED BY <1>2 DEF call

LEMMA Finishes ==
  ASSUME HandlersInv, NEW r \in Requests, Finish(r)
  PROVE  HandlersInv' /\ Only(r, Idle)
<1>1. running' = [running EXCEPT ![r] = Idle] /\ overlap' = overlap
  BY DEF Finish
<1>2. \A call : call = Idle => /\ running' = [running EXCEPT ![r] = call]
                               /\ running[r] # Idle \/ call = Idle \/ overlap \/ Quiet
  BY <1>1
<1> QED BY <1>1, <1>2, NextCall

LEMMA StaysPut ==
  ASSUME HandlersInv, UNCHANGED handlerVars
  PROVE  /\ HandlersInv'
         /\ \A r \in Requests : running'[r] = running[r]
         /\ overlap' = overlap
BY DEF HandlersInv, OneAtATime, handlerVars

LEMMA Busy ==
  ASSUME NEW r \in Requests, NEW step, At(r, step), step # "idle"
  PROVE  running[r] # Idle
BY DEF At, Idle, Call

LEMMA IdleStep == Idle.step = "idle"
BY DEF Idle, Call

(* One request at a time: whoever takes a step, the others are idle.       *)
LEMMA Alone ==
  ASSUME HandlersInv, ~overlap, NEW r \in Requests,
         running[r] # Idle \/ Quiet
  PROVE  \A q \in Requests \ {r} : running[q] = Idle
BY DEF HandlersInv, OneAtATime, Quiet

=============================================================================
