------------------------------ MODULE Handlers ------------------------------
(* How the API server runs the handlers of its services.  Every HTTP       *)
(* request runs one handler; the handlers of different requests interleave *)
(* at their database calls, because a Prisma read holds no lock: not       *)
(* outside a transaction, and not inside one at READ COMMITTED either.  A  *)
(* handler therefore is a chain of steps, each a read with its checks or a *)
(* write, and may end after any of them: the process stops, the database   *)
(* fails or a check that is not modelled refuses.                          *)
EXTENDS Naturals, FiniteSets

CONSTANTS
  Users,
  Requests,   \* requests in flight at the same time
  None,       \* a NULL column, an absent value
  Modes       \* the values of overlap a behaviour may have

ASSUME ModesAssumption == Modes \subseteq BOOLEAN

VARIABLES
  running,    \* running[r]: the next step of the handler request r runs
  overlap     \* FALSE in the behaviours where requests come one at a time

handlerVars == <<running, overlap>>

(* step: what the handler does next; doc: the row it works on; by: the     *)
(* user; saw: what it read and carries along.                              *)
Call(step, doc, by, saw) == [step |-> step, doc |-> doc, by |-> by, saw |-> saw]
Idle == Call("idle", None, None, None)

HandlersInit ==
  /\ running = [r \in Requests |-> Idle]
  /\ overlap \in Modes

Quiet == \A r \in Requests : running[r] = Idle

Begin(r, step, doc, by, saw) ==
  /\ running[r] = Idle
  /\ overlap \/ Quiet
  /\ running' = [running EXCEPT ![r] = Call(step, doc, by, saw)]
  /\ UNCHANGED overlap

At(r, step) == running[r].step = step

Goto(r, step, saw) ==
  /\ running' = [running EXCEPT ![r] = Call(step, @.doc, @.by, saw)]
  /\ UNCHANGED overlap

Finish(r) ==
  /\ running' = [running EXCEPT ![r] = Idle]
  /\ UNCHANGED overlap

(* A handler of a single statement: one read and one write nothing that    *)
(* the read saw can change in between.                                     *)
AtOnce(r) ==
  /\ running[r] = Idle
  /\ overlap \/ Quiet
  /\ UNCHANGED handlerVars

(* The handler ends early; what it wrote before stays.                     *)
Fail(r) == running[r] # Idle /\ Finish(r)

=============================================================================
