--------------------------- MODULE DispatchProofs ---------------------------
(***************************************************************************)
(* Machine-checked proofs about Dispatch, for any number of gates,         *)
(* directives, receipts, users and concurrent requests.                    *)
(*                                                                         *)
(* 1. Type correctness together with HandlersChecked, which says what each *)
(*    handler has established at its current step; neither is inductive    *)
(*    alone, because a transaction writes back the row its handler holds.  *)
(* 2. What a step can do to a row, and which steps write which table.      *)
(* 3. A version number identifies the contents of a row.                   *)
(* 4. The two-person rule, as a fact about tables and handlers' copies.    *)
(* 5. With clients that send versions they have seen, the version compared *)
(*    is that of the handler's copy.                                       *)
(* 6. Hence every commit follows the graphs and keeps what was submitted.  *)
(* 7. Every commit adds the audit rows of just the rows it changes.        *)
(***************************************************************************)
EXTENDS Dispatch, TLAPS

Trails == [Entities -> [rows : Nat, before : AuditState, after : AuditState]]

TypeInv == TypeOK /\ HandlersChecked

-----------------------------------------------------------------------------
(***************************************************************************)
(* 1. Types and handler knowledge.                                         *)
(***************************************************************************)

\* An idle handler holds nothing, which is well formed.
LEMMA IdleIsRequest == Idle \in Request /\ HandlerChecked(Idle)
  <1>1. NoGate \in GateRow
    BY DEF NoGate, GateRow, Life, GateState
  <1>2. NoDirective \in DirectiveRow
    BY DEF NoDirective, DirectiveRow, Life, DirectiveState, GateGoal
  <1>3. NoConfirmation \in ConfirmationRow
    BY DEF NoConfirmation, ConfirmationRow, Life, ConfirmationState
  <1>4. Idle \in Request
    BY <1>1, <1>2, <1>3 DEF Idle, Request, Step, GateGoal
  <1>5. HandlerChecked(Idle)
    BY DEF Idle, HandlerChecked
  <1> QED
    BY <1>4, <1>5

\* Logging keeps the trail well formed, whatever the entity.
LEMMA LoggedIsTrail ==
    ASSUME NEW log \in Trails, NEW e,
           NEW before \in AuditState, NEW after \in AuditState
    PROVE  Logged(log, e, before, after) \in Trails
  <1>1. CASE e \in Entities
    BY <1>1 DEF Logged, Trails
  <1>2. CASE e \notin Entities
    BY <1>2 DEF Logged, Trails
  <1> QED
    BY <1>1, <1>2

\* Replacing the memory of one handler by one that is well formed.
LEMMA RequestStepsPreserve ==
    ASSUME TypeInv, NEW r \in Requests, NEW q \in Request, HandlerChecked(q),
           req' = [req EXCEPT ![r] = q]
    PROVE  req' \in [Requests -> Request] /\ HandlersChecked'
  BY DEF TypeInv, TypeOK, HandlersChecked

\* Finish keeps types and handler knowledge.
LEMMA FinishPreserves ==
    ASSUME TypeInv, NEW r \in Requests, Finish(r)
    PROVE  req' \in [Requests -> Request] /\ HandlersChecked'
  BY IdleIsRequest, RequestStepsPreserve DEF Finish

\* A Begin step is the replacement of an idle memory by that of the request.
LEMMA BeginPreserves ==
    ASSUME TypeInv, NEW r \in Requests, NEW u, NEW route,
           NEW q \in Request, HandlerChecked(q), Begin(r, u, route, q)
    PROVE  TypeInv'
  BY RequestStepsPreserve DEF Begin, TypeInv, TypeOK, database

\* A read step changes the memory of one handler only.
LEMMA ReadPreserves ==
    ASSUME TypeInv, NEW r \in Requests, NEW q \in Request, HandlerChecked(q),
           req' = [req EXCEPT ![r] = q], UNCHANGED database
    PROVE  TypeInv'
  BY RequestStepsPreserve DEF TypeInv, TypeOK, database

\* What TypeInv says of one handler.
LEMMA RequestIsChecked ==
    ASSUME TypeInv, NEW r \in Requests
    PROVE  req[r] \in Request /\ HandlerChecked(req[r])
  BY DEF TypeInv, TypeOK, HandlersChecked

\* What TypeInv says of single rows.
LEMMA RowsAreRows ==
    ASSUME TypeInv
    PROVE  /\ \A g \in Gates : gates[g] \in GateRow
           /\ \A d \in Directives : directives[d] \in DirectiveRow
           /\ \A c \in Confirmations : confirmations[c] \in ConfirmationRow
           /\ \A d \in Directives : approvals[d] \in SUBSET ApprovalRow
           /\ trail \in Trails
  BY DEF TypeInv, TypeOK, Trails

\* Versions a client sends are natural numbers, as the versions of rows are.
LEMMA ClientVersionsAreNat ==
    ASSUME NEW n \in Nat, NEW v \in ClientVersions(n)
    PROVE  v \in Nat /\ v >= n
  BY LimitsAssumption DEF ClientVersions

\* Beginning a request: the guards establish what the handler knows.
LEMMA BeginDirectiveCreatePreserves ==
    ASSUME TypeInv, NEW r \in Requests, BeginDirectiveCreate(r)
    PROVE  TypeInv'
  <1>1. PICK u \in Users, d \in Directives, g \in Gates, goal \in GateGoal :
          /\ Begin(r, u, "directive.create",
                   [Idle EXCEPT !.pc = "insertDirective",
                                !.d = d,
                                !.g = g,
                                !.goal = goal])
    BY DEF BeginDirectiveCreate
  <1> DEFINE q == [Idle EXCEPT !.pc = "insertDirective",
                               !.d = d,
                               !.g = g,
                               !.goal = goal]
  <1>5. q \in Request
    BY <1>1, IdleIsRequest DEF Request, Step
  <1>6. HandlerChecked(q)
    BY <1>1, IdleIsRequest DEF HandlerChecked, Request
  <1> QED
    BY <1>1, <1>5, <1>6, BeginPreserves

\* BeginDirectiveUpdate keeps types and handler knowledge.
LEMMA BeginDirectiveUpdatePreserves ==
    ASSUME TypeInv, NEW r \in Requests, BeginDirectiveUpdate(r)
    PROVE  TypeInv'
  <1>1. PICK u \in Users, d \in Directives, g \in Gates, goal \in GateGoal :
          /\ directives[d].life = "live"
          /\ directives[d].status = "draft"
          /\ \E v \in ClientVersions(directives[d].version) :
               Begin(r, u, "directive.update",
                     [Idle EXCEPT !.pc = "readEditGate",
                                  !.d = d,
                                  !.dir = directives[d],
                                  !.g = g,
                                  !.goal = goal,
                                  !.expected = v])
    BY DEF BeginDirectiveUpdate
  <1>2. PICK v \in ClientVersions(directives[d].version) :
          Begin(r, u, "directive.update",
                [Idle EXCEPT !.pc = "readEditGate",
                             !.d = d,
                             !.dir = directives[d],
                             !.g = g,
                             !.goal = goal,
                             !.expected = v])
    BY <1>1
  <1> DEFINE q == [Idle EXCEPT !.pc = "readEditGate",
                               !.d = d,
                               !.dir = directives[d],
                               !.g = g,
                               !.goal = goal,
                               !.expected = v]
  <1>3. directives[d] \in DirectiveRow /\ directives[d].version \in Nat
    BY RowsAreRows DEF DirectiveRow
  <1>4. v \in Nat
    BY <1>3, ClientVersionsAreNat
  <1>5. q \in Request
    BY <1>1, <1>3, <1>4, IdleIsRequest DEF Request, Step
  <1>6. HandlerChecked(q)
    BY <1>1, <1>3, <1>4, IdleIsRequest DEF HandlerChecked, Request
  <1> QED
    BY <1>2, <1>5, <1>6, BeginPreserves

\* BeginDirectiveDelete keeps types and handler knowledge.
LEMMA BeginDirectiveDeletePreserves ==
    ASSUME TypeInv, NEW r \in Requests, BeginDirectiveDelete(r)
    PROVE  TypeInv'
  <1>1. PICK u \in Users, d \in Directives :
          /\ Begin(r, u, "directive.delete",
                   [Idle EXCEPT !.pc = "deleteDirective",
                                !.d = d,
                                !.dir = directives[d]])
    BY DEF BeginDirectiveDelete
  <1> DEFINE q == [Idle EXCEPT !.pc = "deleteDirective",
                               !.d = d,
                               !.dir = directives[d]]
  <1>3. directives[d] \in DirectiveRow
    BY RowsAreRows
  <1>5. q \in Request
    BY <1>1, <1>3, IdleIsRequest DEF Request, Step
  <1>6. HandlerChecked(q)
    BY <1>1, <1>3, IdleIsRequest DEF HandlerChecked, Request
  <1> QED
    BY <1>1, <1>5, <1>6, BeginPreserves

\* BeginDirectiveTransition keeps types and handler knowledge.
LEMMA BeginDirectiveTransitionPreserves ==
    ASSUME TypeInv, NEW r \in Requests, BeginDirectiveTransition(r)
    PROVE  TypeInv'
  <1>1. PICK u \in Users, d \in Directives, target \in DirectiveState :
          /\ directives[d].life = "live"
          /\ CanTransition(OperationDirectiveTransitions, directives[d].status, target)
          /\ target # "completed"
          /\ target = "approved" => SecondPerson(directives[d], u)
          /\ \E v \in ClientVersions(directives[d].version) :
               Begin(r, u, "directive.transition",
                     [Idle EXCEPT !.pc = IF NeedsGate(directives[d], target)
                             THEN "readLinkedGate" ELSE "commitDirective",
                                  !.actor = u,
                                  !.d = d,
                                  !.dir = directives[d],
                                  !.target = target,
                                  !.expected = v])
    BY DEF BeginDirectiveTransition
  <1>2. PICK v \in ClientVersions(directives[d].version) :
          Begin(r, u, "directive.transition",
                [Idle EXCEPT !.pc = IF NeedsGate(directives[d], target)
                             THEN "readLinkedGate" ELSE "commitDirective",
                             !.actor = u,
                             !.d = d,
                             !.dir = directives[d],
                             !.target = target,
                             !.expected = v])
    BY <1>1
  <1> DEFINE q == [Idle EXCEPT !.pc = IF NeedsGate(directives[d], target)
                             THEN "readLinkedGate" ELSE "commitDirective",
                               !.actor = u,
                               !.d = d,
                               !.dir = directives[d],
                               !.target = target,
                               !.expected = v]
  <1>3. directives[d] \in DirectiveRow /\ directives[d].version \in Nat
    BY RowsAreRows DEF DirectiveRow
  <1>4. v \in Nat
    BY <1>3, ClientVersionsAreNat
  <1>5. q \in Request
    BY <1>1, <1>3, <1>4, IdleIsRequest DEF Request, Step
  <1>6. HandlerChecked(q)
    BY <1>1, <1>3, <1>4, IdleIsRequest DEF HandlerChecked, Request, Idle
  <1> QED
    BY <1>2, <1>5, <1>6, BeginPreserves

\* BeginConfirmationCreate keeps types and handler knowledge.
LEMMA BeginConfirmationCreatePreserves ==
    ASSUME TypeInv, NEW r \in Requests, BeginConfirmationCreate(r)
    PROVE  TypeInv'
  <1>1. PICK u \in Users, c \in Confirmations, d \in Directives :
          /\ Begin(r, u, "confirmation.create",
                   [Idle EXCEPT !.pc = "countReceipts",
                                !.c = c,
                                !.d = d])
    BY DEF BeginConfirmationCreate
  <1> DEFINE q == [Idle EXCEPT !.pc = "countReceipts",
                               !.c = c,
                               !.d = d]
  <1>5. q \in Request
    BY <1>1, IdleIsRequest DEF Request, Step
  <1>6. HandlerChecked(q)
    BY <1>1, IdleIsRequest DEF HandlerChecked, Request
  <1> QED
    BY <1>1, <1>5, <1>6, BeginPreserves

\* BeginConfirmationUpdate keeps types and handler knowledge.
LEMMA BeginConfirmationUpdatePreserves ==
    ASSUME TypeInv, NEW r \in Requests, BeginConfirmationUpdate(r)
    PROVE  TypeInv'
  <1>1. PICK u \in Users, c \in Confirmations :
          /\ confirmations[c].life = "live"
          /\ \E v \in ClientVersions(confirmations[c].version) :
               Begin(r, u, "confirmation.update",
                     [Idle EXCEPT !.pc = "requireExecuting",
                                  !.c = c,
                                  !.conf = confirmations[c],
                                  !.expected = v])
    BY DEF BeginConfirmationUpdate
  <1>2. PICK v \in ClientVersions(confirmations[c].version) :
          Begin(r, u, "confirmation.update",
                [Idle EXCEPT !.pc = "requireExecuting",
                             !.c = c,
                             !.conf = confirmations[c],
                             !.expected = v])
    BY <1>1
  <1> DEFINE q == [Idle EXCEPT !.pc = "requireExecuting",
                               !.c = c,
                               !.conf = confirmations[c],
                               !.expected = v]
  <1>3. confirmations[c] \in ConfirmationRow /\ confirmations[c].version \in Nat
    BY RowsAreRows DEF ConfirmationRow
  <1>4. v \in Nat
    BY <1>3, ClientVersionsAreNat
  <1>5. q \in Request
    BY <1>1, <1>3, <1>4, IdleIsRequest DEF Request, Step
  <1>6. HandlerChecked(q)
    BY <1>1, <1>3, <1>4, IdleIsRequest DEF HandlerChecked, Request
  <1> QED
    BY <1>2, <1>5, <1>6, BeginPreserves

\* BeginConfirmationTransition keeps types and handler knowledge.
LEMMA BeginConfirmationTransitionPreserves ==
    ASSUME TypeInv, NEW r \in Requests, BeginConfirmationTransition(r)
    PROVE  TypeInv'
  <1>1. PICK u \in Users, c \in Confirmations, target \in ConfirmationState :
          /\ confirmations[c].life = "live"
          /\ CanTransition(ExecutionConfirmationTransitions, confirmations[c].status, target)
          /\ \E v \in ClientVersions(confirmations[c].version) :
               Begin(r, u, "confirmation.transition",
                     [Idle EXCEPT !.pc = IF confirmations[c].status = "pending"
                             THEN "readOutcomeDirective" ELSE "commitCancellation",
                                  !.c = c,
                                  !.conf = confirmations[c],
                                  !.target = target,
                                  !.expected = v])
    BY DEF BeginConfirmationTransition
  <1>2. PICK v \in ClientVersions(confirmations[c].version) :
          Begin(r, u, "confirmation.transition",
                [Idle EXCEPT !.pc = IF confirmations[c].status = "pending"
                             THEN "readOutcomeDirective" ELSE "commitCancellation",
                             !.c = c,
                             !.conf = confirmations[c],
                             !.target = target,
                             !.expected = v])
    BY <1>1
  <1> DEFINE q == [Idle EXCEPT !.pc = IF confirmations[c].status = "pending"
                             THEN "readOutcomeDirective" ELSE "commitCancellation",
                               !.c = c,
                               !.conf = confirmations[c],
                               !.target = target,
                               !.expected = v]
  <1>3. confirmations[c] \in ConfirmationRow /\ confirmations[c].version \in Nat
    BY RowsAreRows DEF ConfirmationRow
  <1>4. v \in Nat
    BY <1>3, ClientVersionsAreNat
  <1>5. q \in Request
    <2>1. q.pc \in Step
      BY IdleIsRequest DEF Request, Step
    <2> QED
      BY <1>3, <1>4, <2>1, IdleIsRequest DEF Request
  <1>6. HandlerChecked(q)
    <2>1. CASE confirmations[c].status = "pending"
      BY <1>1, <1>3, <1>4, <2>1, IdleIsRequest DEF HandlerChecked, Request, Idle
    <2>2. CASE confirmations[c].status # "pending"
      BY <1>1, <1>3, <1>4, <2>2, IdleIsRequest DEF HandlerChecked, Request
    <2> QED
      BY <2>1, <2>2
  <1> QED
    BY <1>2, <1>5, <1>6, BeginPreserves

\* BeginConfirmationDelete keeps types and handler knowledge.
LEMMA BeginConfirmationDeletePreserves ==
    ASSUME TypeInv, NEW r \in Requests, BeginConfirmationDelete(r)
    PROVE  TypeInv'
  <1>1. PICK u \in Users, c \in Confirmations :
          /\ Begin(r, u, "confirmation.delete",
                   [Idle EXCEPT !.pc = "deleteConfirmation",
                                !.c = c,
                                !.conf = confirmations[c]])
    BY DEF BeginConfirmationDelete
  <1> DEFINE q == [Idle EXCEPT !.pc = "deleteConfirmation",
                               !.c = c,
                               !.conf = confirmations[c]]
  <1>3. confirmations[c] \in ConfirmationRow
    BY RowsAreRows
  <1>5. q \in Request
    BY <1>1, <1>3, IdleIsRequest DEF Request, Step
  <1>6. HandlerChecked(q)
    BY <1>1, <1>3, IdleIsRequest DEF HandlerChecked, Request
  <1> QED
    BY <1>1, <1>5, <1>6, BeginPreserves

\* BeginGateUpdate keeps types and handler knowledge.
LEMMA BeginGateUpdatePreserves ==
    ASSUME TypeInv, NEW r \in Requests, BeginGateUpdate(r)
    PROVE  TypeInv'
  <1>1. PICK u \in Users, g \in Gates :
          /\ gates[g].life = "live"
          /\ \E v \in ClientVersions(gates[g].version) :
               Begin(r, u, "gate.update",
                     [Idle EXCEPT !.pc = "commitGate",
                                  !.g = g,
                                  !.gate = gates[g],
                                  !.target = gates[g].status,
                                  !.expected = v])
    BY DEF BeginGateUpdate
  <1>2. PICK v \in ClientVersions(gates[g].version) :
          Begin(r, u, "gate.update",
                [Idle EXCEPT !.pc = "commitGate",
                             !.g = g,
                             !.gate = gates[g],
                             !.target = gates[g].status,
                             !.expected = v])
    BY <1>1
  <1> DEFINE q == [Idle EXCEPT !.pc = "commitGate",
                               !.g = g,
                               !.gate = gates[g],
                               !.target = gates[g].status,
                               !.expected = v]
  <1>3. gates[g] \in GateRow /\ gates[g].version \in Nat
    BY RowsAreRows DEF GateRow
  <1>4. v \in Nat
    BY <1>3, ClientVersionsAreNat
  <1>5. q \in Request
    BY <1>1, <1>3, <1>4, IdleIsRequest DEF Request, Step, GateRow
  <1>6. HandlerChecked(q)
    BY <1>1, <1>3, <1>4, IdleIsRequest DEF HandlerChecked, Request, Reachable
  <1> QED
    BY <1>2, <1>5, <1>6, BeginPreserves

\* BeginGateTransition keeps types and handler knowledge.
LEMMA BeginGateTransitionPreserves ==
    ASSUME TypeInv, NEW r \in Requests, BeginGateTransition(r)
    PROVE  TypeInv'
  <1>1. PICK u \in Users, g \in Gates, target \in GateState :
          /\ gates[g].life = "live"
          /\ CanTransition(GateUnitTransitions, gates[g].status, target)
          /\ \E v \in ClientVersions(gates[g].version) :
               Begin(r, u, "gate.transition",
                     [Idle EXCEPT !.pc = "commitGate",
                                  !.g = g,
                                  !.gate = gates[g],
                                  !.target = target,
                                  !.expected = v])
    BY DEF BeginGateTransition
  <1>2. PICK v \in ClientVersions(gates[g].version) :
          Begin(r, u, "gate.transition",
                [Idle EXCEPT !.pc = "commitGate",
                             !.g = g,
                             !.gate = gates[g],
                             !.target = target,
                             !.expected = v])
    BY <1>1
  <1> DEFINE q == [Idle EXCEPT !.pc = "commitGate",
                               !.g = g,
                               !.gate = gates[g],
                               !.target = target,
                               !.expected = v]
  <1>3. gates[g] \in GateRow /\ gates[g].version \in Nat
    BY RowsAreRows DEF GateRow
  <1>4. v \in Nat
    BY <1>3, ClientVersionsAreNat
  <1>5. q \in Request
    BY <1>1, <1>3, <1>4, IdleIsRequest DEF Request, Step
  <1>6. HandlerChecked(q)
    BY <1>1, <1>3, <1>4, IdleIsRequest DEF HandlerChecked, Request, Reachable
  <1> QED
    BY <1>2, <1>5, <1>6, BeginPreserves

\* BeginGateDelete keeps types and handler knowledge.
LEMMA BeginGateDeletePreserves ==
    ASSUME TypeInv, NEW r \in Requests, BeginGateDelete(r)
    PROVE  TypeInv'
  <1>1. PICK u \in Users, g \in Gates :
          /\ Begin(r, u, "gate.delete",
                   [Idle EXCEPT !.pc = "deleteGate",
                                !.g = g,
                                !.gate = gates[g]])
    BY DEF BeginGateDelete
  <1> DEFINE q == [Idle EXCEPT !.pc = "deleteGate",
                               !.g = g,
                               !.gate = gates[g]]
  <1>3. gates[g] \in GateRow
    BY RowsAreRows
  <1>5. q \in Request
    BY <1>1, <1>3, IdleIsRequest DEF Request, Step
  <1>6. HandlerChecked(q)
    BY <1>1, <1>3, IdleIsRequest DEF HandlerChecked, Request
  <1> QED
    BY <1>1, <1>5, <1>6, BeginPreserves

\* Reads.

\* Reading on: the handler learns one row more.
LEMMA ReadEditGatePreserves ==
    ASSUME TypeInv, NEW r \in Requests, ReadEditGate(r)
    PROVE  TypeInv'
  <1> DEFINE q == [req[r] EXCEPT !.pc = "commitDirectiveUpdate"]
  <1>1. q \in Request /\ HandlerChecked(q)
    BY RequestIsChecked DEF ReadEditGate, Request, Step, HandlerChecked
  <1> QED
    BY <1>1, ReadPreserves DEF ReadEditGate

\* ReadLinkedGate keeps types and handler knowledge.
LEMMA ReadLinkedGatePreserves ==
    ASSUME TypeInv, NEW r \in Requests, ReadLinkedGate(r)
    PROVE  TypeInv'
  <1> DEFINE gate == gates[req[r].dir.gate]
             q == [req[r] EXCEPT !.pc = "commitDirective", !.gate = gate]
  <1>1. req[r] \in Request /\ HandlerChecked(req[r]) /\ req[r].pc = "readLinkedGate"
    BY RequestIsChecked DEF ReadLinkedGate
  <1>2. req[r].dir \in DirectiveRow /\ req[r].dir.life = "live"
    BY <1>1 DEF Request, HandlerChecked
  <1>3. req[r].dir.gate \in Gates
    BY <1>2 DEF DirectiveRow
  <1>4. gate \in GateRow
    BY <1>3, RowsAreRows
  <1>5. q \in Request
    BY <1>1, <1>4 DEF Request, Step
  <1>6. HandlerChecked(q)
    BY <1>1 DEF HandlerChecked, Request, ReadLinkedGate
  <1> QED
    BY <1>5, <1>6, ReadPreserves DEF ReadLinkedGate

\* CountReceipts keeps types and handler knowledge.
LEMMA CountReceiptsPreserves ==
    ASSUME TypeInv, NEW r \in Requests, CountReceipts(r)
    PROVE  TypeInv'
  <1> DEFINE q == [req[r] EXCEPT !.pc = "insertConfirmation"]
  <1>1. q \in Request /\ HandlerChecked(q)
    BY RequestIsChecked DEF CountReceipts, Request, Step, HandlerChecked
  <1> QED
    BY <1>1, ReadPreserves DEF CountReceipts

\* RequireExecuting keeps types and handler knowledge.
LEMMA RequireExecutingPreserves ==
    ASSUME TypeInv, NEW r \in Requests, RequireExecuting(r)
    PROVE  TypeInv'
  <1> DEFINE q == [req[r] EXCEPT !.pc = "commitConfirmationUpdate"]
  <1>1. q \in Request /\ HandlerChecked(q)
    BY RequestIsChecked DEF RequireExecuting, Request, Step, HandlerChecked
  <1> QED
    BY <1>1, ReadPreserves DEF RequireExecuting

\* ReadOutcomeDirective keeps types and handler knowledge.
LEMMA ReadOutcomeDirectivePreserves ==
    ASSUME TypeInv, NEW r \in Requests, ReadOutcomeDirective(r)
    PROVE  TypeInv'
  <1> DEFINE d == req[r].conf.directive
             q == [req[r] EXCEPT !.pc = "readOutcomeGate", !.dir = directives[d]]
  <1>1. req[r] \in Request /\ HandlerChecked(req[r])
        /\ req[r].pc = "readOutcomeDirective"
    BY RequestIsChecked DEF ReadOutcomeDirective
  <1>2. req[r].conf \in ConfirmationRow /\ req[r].conf.life = "live"
    BY <1>1 DEF Request, HandlerChecked
  <1>3. d \in Directives
    BY <1>2 DEF ConfirmationRow
  <1>4. directives[d] \in DirectiveRow
    BY <1>3, RowsAreRows
  <1>5. q \in Request
    BY <1>1, <1>4 DEF Request, Step
  <1>6. HandlerChecked(q)
    BY <1>1 DEF HandlerChecked, Request, ReadOutcomeDirective, IsExecuting
  <1> QED
    BY <1>5, <1>6, ReadPreserves DEF ReadOutcomeDirective

\* ReadOutcomeGate keeps types and handler knowledge.
LEMMA ReadOutcomeGatePreserves ==
    ASSUME TypeInv, NEW r \in Requests, ReadOutcomeGate(r)
    PROVE  TypeInv'
  <1> DEFINE gate == gates[req[r].dir.gate]
             q == [req[r] EXCEPT !.pc = "commitOutcome", !.gate = gate]
  <1>1. req[r] \in Request /\ HandlerChecked(req[r]) /\ req[r].pc = "readOutcomeGate"
    BY RequestIsChecked DEF ReadOutcomeGate
  <1>2. req[r].dir \in DirectiveRow /\ req[r].dir.life = "live"
    BY <1>1 DEF Request, HandlerChecked
  <1>3. req[r].dir.gate \in Gates
    BY <1>2 DEF DirectiveRow
  <1>4. gate \in GateRow
    BY <1>3, RowsAreRows
  <1>5. q \in Request
    BY <1>1, <1>4 DEF Request, Step
  <1>6. HandlerChecked(q)
    BY <1>1 DEF HandlerChecked, Request, ReadOutcomeGate
  <1> QED
    BY <1>5, <1>6, ReadPreserves DEF ReadOutcomeGate

\* Commits.

\* Every status can be named by an audit row.
LEMMA StatesAreAudited ==
    /\ GateState \subseteq AuditState
    /\ DirectiveState \subseteq AuditState
    /\ ConfirmationState \subseteq AuditState
    /\ None \in AuditState /\ "deleted" \in AuditState
  BY DEF AuditState

\* Committing: rows are written from well-formed memory.
LEMMA InsertDirectivePreserves ==
    ASSUME TypeInv, NEW r \in Requests, InsertDirective(r)
    PROVE  TypeInv'
  <1> DEFINE q == req[r]
             row == [NoDirective EXCEPT !.life = "live", !.version = 1,
                                        !.gate = q.g, !.goal = q.goal]
  <1>1. q \in Request /\ q.d \in Directives /\ q.g \in Gates
    BY RequestIsChecked DEF InsertDirective, HandlerChecked
  <1>2. row \in DirectiveRow
    BY <1>1, CodesAssumption DEF NoDirective, DirectiveRow, Life, Request, DirectiveState, Entities
  <1>3. trail' \in Trails
    BY LoggedIsTrail, RowsAreRows, StatesAreAudited DEF InsertDirective, DirectiveState
  <1> QED
    BY <1>2, <1>3, FinishPreserves DEF TypeInv, TypeOK, InsertDirective, Trails

\* CommitDirectiveUpdate keeps types and handler knowledge.
LEMMA CommitDirectiveUpdatePreserves ==
    ASSUME TypeInv, NEW r \in Requests, CommitDirectiveUpdate(r)
    PROVE  TypeInv'
  <1> DEFINE q == req[r]
             row == [q.dir EXCEPT !.version = q.expected + 1,
                                  !.gate = q.g, !.goal = q.goal]
  <1>1. q \in Request /\ q.g \in Gates
    BY RequestIsChecked DEF CommitDirectiveUpdate, HandlerChecked
  <1>2. q.dir \in DirectiveRow /\ q.expected + 1 \in Nat /\ q.goal \in GateGoal
    BY <1>1 DEF Request
  <1>3. row \in DirectiveRow
    BY <1>1, <1>2, CodesAssumption DEF DirectiveRow, Entities
  <1>4. trail' \in Trails
    BY <1>2, LoggedIsTrail, RowsAreRows, StatesAreAudited
    DEF CommitDirectiveUpdate, DirectiveRow
  <1> QED
    BY <1>3, <1>4, FinishPreserves DEF TypeInv, TypeOK, CommitDirectiveUpdate, Trails

\* DeleteDirective keeps types and handler knowledge.
LEMMA DeleteDirectivePreserves ==
    ASSUME TypeInv, NEW r \in Requests, DeleteDirective(r)
    PROVE  TypeInv'
  <1> DEFINE q == req[r]
             row == [directives[q.d] EXCEPT !.life = "deleted"]
  <1>1. q \in Request /\ q.d \in Directives
    BY RequestIsChecked DEF DeleteDirective, HandlerChecked
  <1>2. directives[q.d] \in DirectiveRow /\ directives[q.d].life = "live"
    BY <1>1, RowsAreRows DEF DeleteDirective
  <1>3. row \in DirectiveRow
    BY <1>2 DEF DirectiveRow, Life
  <1>4. q.dir.status \in DirectiveState
    BY <1>1 DEF Request, DirectiveRow
  <1>5. trail' \in Trails
    BY <1>4, LoggedIsTrail, RowsAreRows, StatesAreAudited DEF DeleteDirective
  <1> QED
    BY <1>3, <1>5, FinishPreserves DEF TypeInv, TypeOK, DeleteDirective, Trails

\* The gate write shared by the two transactions that settle a gate.
LEMMA GateSettledIsTyped ==
    ASSUME TypeInv, NEW g, NEW gate \in GateRow, NEW target \in GateState,
           NEW log \in Trails, GateSettled(g, gate, target, log)
    PROVE  gates' \in [Gates -> GateRow] /\ trail' \in Trails
  <1>1. gates \in [Gates -> GateRow]
    BY DEF TypeInv, TypeOK
  <1>2. CASE gate.status = target
    BY <1>1, <1>2 DEF GateSettled
  <1>3. CASE gate.status # target
    <2>1. [gate EXCEPT !.status = target, !.version = @ + 1] \in GateRow
      <3>1. gate.version + 1 \in Nat
        BY DEF GateRow
      <3> QED
        BY <3>1 DEF GateRow
    <2>2. Logged(log, g, gate.status, target) \in Trails
      BY LoggedIsTrail, StatesAreAudited DEF GateRow
    <2> QED
      BY <1>1, <1>3, <2>1, <2>2 DEF GateSettled
  <1> QED
    BY <1>2, <1>3

\* CommitDirective keeps types and handler knowledge.
LEMMA CommitDirectivePreserves ==
    ASSUME TypeInv, NEW r \in Requests, CommitDirective(r)
    PROVE  TypeInv'
  <1> DEFINE q == req[r]
             log == Logged(trail, q.d, q.dir.status, q.target)
             settled == ExecutionGateTarget(q.dir, q.gate, q.target)
  <1>1. q \in Request /\ HandlerChecked(q) /\ q.pc = "commitDirective"
    BY RequestIsChecked DEF CommitDirective
  <1>2. q.target \in DirectiveState /\ q.actor \in Users /\ q.dir.life = "live"
    BY <1>1 DEF HandlerChecked, CanTransition, OperationDirectiveTransitions,
                DirectiveState
  <1>3. q.dir \in DirectiveRow /\ q.gate \in GateRow /\ q.expected + 1 \in Nat
    BY <1>1 DEF Request
  <1>4. directives' \in [Directives -> DirectiveRow]
    <2>1. Transitioned(q.dir, q.target, q.actor, q.expected + 1) \in DirectiveRow
      <3> HIDE DEF q
      <3> QED
        BY <1>2, <1>3 DEF Transitioned, DirectiveRow
    <2> QED
      BY <2>1 DEF TypeInv, TypeOK, CommitDirective
  <1>5. approvals' \in [Directives -> SUBSET ApprovalRow]
    <2>1. NewApprovals(q.target, q.actor) \in SUBSET ApprovalRow
      BY <1>2 DEF NewApprovals, ApprovalRow
    <2> QED
      BY <2>1 DEF TypeInv, TypeOK, CommitDirective
  <1>6. log \in Trails
    BY <1>2, <1>3, LoggedIsTrail, RowsAreRows, StatesAreAudited DEF DirectiveRow
  <1>7. settled \in GateState
    BY <1>3 DEF ExecutionGateTarget, GateRow, GateState
  <1>8. gates' \in [Gates -> GateRow] /\ trail' \in Trails
    <2>1. CASE NeedsGate(q.dir, q.target)
      <3>1. GateSettled(q.dir.gate, q.gate, settled, log)
        BY <2>1 DEF CommitDirective
      <3> HIDE DEF q, settled, log
      <3> QED
        BY <1>3, <1>6, <1>7, <3>1, GateSettledIsTyped
    <2>2. CASE ~ NeedsGate(q.dir, q.target)
      BY <1>6, <2>2 DEF CommitDirective, TypeInv, TypeOK
    <2> QED
      BY <2>1, <2>2
  <1>9. req' \in [Requests -> Request] /\ HandlersChecked'
    BY FinishPreserves DEF CommitDirective
  <1>10. confirmations' \in [Confirmations -> ConfirmationRow]
    BY DEF CommitDirective, TypeInv, TypeOK
  <1> QED
    BY <1>4, <1>5, <1>8, <1>9, <1>10 DEF TypeInv, TypeOK, Trails

\* InsertConfirmation keeps types and handler knowledge.
LEMMA InsertConfirmationPreserves ==
    ASSUME TypeInv, NEW r \in Requests, InsertConfirmation(r)
    PROVE  TypeInv'
  <1> DEFINE q == req[r]
             row == [life |-> "live", status |-> "pending", version |-> 1,
                     directive |-> q.d]
  <1>1. q \in Request /\ q.d \in Directives
    BY RequestIsChecked DEF InsertConfirmation, HandlerChecked
  <1>2. row \in ConfirmationRow
    BY <1>1, CodesAssumption DEF ConfirmationRow, Life, ConfirmationState, Entities
  <1>3. trail' \in Trails
    BY LoggedIsTrail, RowsAreRows, StatesAreAudited
    DEF InsertConfirmation, ConfirmationState
  <1> QED
    BY <1>2, <1>3, FinishPreserves DEF TypeInv, TypeOK, InsertConfirmation, Trails

\* CommitConfirmationUpdate keeps types and handler knowledge.
LEMMA CommitConfirmationUpdatePreserves ==
    ASSUME TypeInv, NEW r \in Requests, CommitConfirmationUpdate(r)
    PROVE  TypeInv'
  <1> DEFINE q == req[r]
             row == [q.conf EXCEPT !.version = q.expected + 1]
  <1>1. q.conf \in ConfirmationRow /\ q.expected + 1 \in Nat
    BY RequestIsChecked DEF Request
  <1>2. row \in ConfirmationRow
    BY <1>1 DEF ConfirmationRow
  <1>3. trail' \in Trails
    BY <1>1, LoggedIsTrail, RowsAreRows, StatesAreAudited
    DEF CommitConfirmationUpdate, ConfirmationRow
  <1> QED
    BY <1>2, <1>3, FinishPreserves DEF TypeInv, TypeOK, CommitConfirmationUpdate, Trails

\* CommitOutcome keeps types and handler knowledge.
LEMMA CommitOutcomePreserves ==
    ASSUME TypeInv, NEW r \in Requests, CommitOutcome(r)
    PROVE  TypeInv'
  <1> DEFINE q == req[r]
             d == q.conf.directive
             outcome == DirectiveOutcome(q.target)
             log1 == Logged(trail, q.c, q.conf.status, q.target)
             log2 == Logged(log1, d, q.dir.status, outcome)
             settled == GateOutcome(q.target, q.dir)
  <1>1. q \in Request /\ HandlerChecked(q) /\ q.pc = "commitOutcome"
    BY RequestIsChecked DEF CommitOutcome
  <1>2. q.target \in ConfirmationState
    BY <1>1 DEF HandlerChecked, CanTransition, ExecutionConfirmationTransitions,
                ConfirmationState
  <1>3. /\ q.conf \in ConfirmationRow /\ q.dir \in DirectiveRow
        /\ q.gate \in GateRow /\ q.expected + 1 \in Nat
    BY <1>1 DEF Request
  <1>4. outcome \in DirectiveState /\ settled \in GateState
    BY <1>3 DEF DirectiveOutcome, DirectiveState, GateOutcome, GateState,
                DirectiveRow, GateGoal
  <1>5. confirmations' \in [Confirmations -> ConfirmationRow]
    <2>1. [q.conf EXCEPT !.status = q.target, !.version = q.expected + 1]
            \in ConfirmationRow
      BY <1>2, <1>3 DEF ConfirmationRow
    <2> QED
      BY <2>1 DEF TypeInv, TypeOK, CommitOutcome
  <1>6. directives' \in [Directives -> DirectiveRow]
    <2>1. [q.dir EXCEPT !.status = outcome, !.version = @ + 1] \in DirectiveRow
      <3>1. q.dir.version + 1 \in Nat
        BY <1>3 DEF DirectiveRow
      <3> HIDE DEF outcome, q
      <3> QED
        BY <1>3, <1>4, <3>1 DEF DirectiveRow
    <2> QED
      BY <2>1 DEF TypeInv, TypeOK, CommitOutcome
  <1>7. log1 \in Trails
    BY <1>2, <1>3, LoggedIsTrail, RowsAreRows, StatesAreAudited DEF ConfirmationRow
  <1>8. log2 \in Trails
    <2>1. q.dir.status \in AuditState /\ outcome \in AuditState
      BY <1>3, <1>4, StatesAreAudited DEF DirectiveRow
    <2> HIDE DEF log1, outcome, q, d
    <2> QED
      BY <1>7, <2>1, LoggedIsTrail
  <1>9. gates' \in [Gates -> GateRow] /\ trail' \in Trails
    <2>1. GateSettled(q.dir.gate, q.gate, settled, log2)
      BY DEF CommitOutcome
    <2> HIDE DEF q, settled, log2
    <2> QED
      BY <1>3, <1>4, <1>8, <2>1, GateSettledIsTyped
  <1>10. req' \in [Requests -> Request] /\ HandlersChecked'
    BY FinishPreserves DEF CommitOutcome
  <1>11. approvals' \in [Directives -> SUBSET ApprovalRow]
    BY DEF CommitOutcome, TypeInv, TypeOK
  <1> QED
    BY <1>5, <1>6, <1>9, <1>10, <1>11 DEF TypeInv, TypeOK, Trails

\* CommitCancellation keeps types and handler knowledge.
LEMMA CommitCancellationPreserves ==
    ASSUME TypeInv, NEW r \in Requests, CommitCancellation(r)
    PROVE  TypeInv'
  <1> DEFINE q == req[r]
             row == [q.conf EXCEPT !.status = q.target, !.version = q.expected + 1]
  <1>1. q \in Request /\ HandlerChecked(q) /\ q.pc = "commitCancellation"
    BY RequestIsChecked DEF CommitCancellation
  <1>2. q.target \in ConfirmationState
    BY <1>1 DEF HandlerChecked, CanTransition, ExecutionConfirmationTransitions,
                ConfirmationState
  <1>3. q.conf \in ConfirmationRow /\ q.expected + 1 \in Nat
    BY <1>1 DEF Request
  <1>4. row \in ConfirmationRow
    BY <1>2, <1>3 DEF ConfirmationRow
  <1>5. trail' \in Trails
    BY <1>2, <1>3, LoggedIsTrail, RowsAreRows, StatesAreAudited
    DEF CommitCancellation, ConfirmationRow
  <1> QED
    BY <1>4, <1>5, FinishPreserves DEF TypeInv, TypeOK, CommitCancellation, Trails

\* DeleteConfirmation keeps types and handler knowledge.
LEMMA DeleteConfirmationPreserves ==
    ASSUME TypeInv, NEW r \in Requests, DeleteConfirmation(r)
    PROVE  TypeInv'
  <1> DEFINE q == req[r]
             row == [confirmations[q.c] EXCEPT !.life = "deleted"]
  <1>1. q \in Request /\ q.c \in Confirmations
    BY RequestIsChecked DEF DeleteConfirmation, HandlerChecked
  <1>2. confirmations[q.c] \in ConfirmationRow /\ confirmations[q.c].life = "live"
    BY <1>1, RowsAreRows DEF DeleteConfirmation
  <1>3. row \in ConfirmationRow
    BY <1>2 DEF ConfirmationRow, Life
  <1>4. q.conf.status \in ConfirmationState
    BY <1>1 DEF Request, ConfirmationRow
  <1>5. trail' \in Trails
    BY <1>4, LoggedIsTrail, RowsAreRows, StatesAreAudited DEF DeleteConfirmation
  <1> QED
    BY <1>3, <1>5, FinishPreserves DEF TypeInv, TypeOK, DeleteConfirmation, Trails

\* CommitGate keeps types and handler knowledge.
LEMMA CommitGatePreserves ==
    ASSUME TypeInv, NEW r \in Requests, CommitGate(r)
    PROVE  TypeInv'
  <1> DEFINE q == req[r]
             row == [q.gate EXCEPT !.status = q.target, !.version = q.expected + 1]
  <1>1. q \in Request /\ HandlerChecked(q) /\ q.pc = "commitGate"
    BY RequestIsChecked DEF CommitGate
  <1>2. q.gate \in GateRow /\ q.expected + 1 \in Nat
    BY <1>1 DEF Request
  <1>3. q.target \in GateState
    BY <1>1, <1>2 DEF HandlerChecked, Reachable, CanTransition, GateUnitTransitions,
                      GateState, GateRow
  <1>4. row \in GateRow
    BY <1>2, <1>3 DEF GateRow
  <1>5. trail' \in Trails
    BY <1>2, <1>3, LoggedIsTrail, RowsAreRows, StatesAreAudited DEF CommitGate, GateRow
  <1> QED
    BY <1>4, <1>5, FinishPreserves DEF TypeInv, TypeOK, CommitGate, Trails

\* DeleteGate keeps types and handler knowledge.
LEMMA DeleteGatePreserves ==
    ASSUME TypeInv, NEW r \in Requests, DeleteGate(r)
    PROVE  TypeInv'
  <1> DEFINE q == req[r]
             row == [gates[q.g] EXCEPT !.life = "deleted"]
  <1>1. q \in Request /\ q.g \in Gates
    BY RequestIsChecked DEF DeleteGate, HandlerChecked
  <1>2. row \in GateRow
    BY <1>1, RowsAreRows DEF GateRow, Life
  <1>3. q.gate.status \in GateState
    BY <1>1 DEF Request, GateRow
  <1>4. trail' \in Trails
    BY <1>3, LoggedIsTrail, RowsAreRows, StatesAreAudited DEF DeleteGate
  <1> QED
    BY <1>2, <1>4, FinishPreserves DEF TypeInv, TypeOK, DeleteGate, Trails

\* Fail keeps types and handler knowledge.
LEMMA FailPreserves ==
    ASSUME TypeInv, NEW r \in Requests, Fail(r)
    PROVE  TypeInv'
  BY FinishPreserves DEF Fail, TypeInv, TypeOK, database

\* The seeded gates and the empty tables are well formed.
LEMMA InitTypeInv == Init => TypeInv
  <1> SUFFICES ASSUME Init PROVE TypeInv
    OBVIOUS
  <1>1. gates \in [Gates -> GateRow]
    BY DEF Init, GateRow, Life, GateState
  <1>2. directives \in [Directives -> DirectiveRow]
        /\ confirmations \in [Confirmations -> ConfirmationRow]
    <2>1. NoDirective \in DirectiveRow
      BY DEF NoDirective, DirectiveRow, Life, DirectiveState, GateGoal
    <2>2. NoConfirmation \in ConfirmationRow
      BY DEF NoConfirmation, ConfirmationRow, Life, ConfirmationState
    <2> QED
      BY <2>1, <2>2 DEF Init
  <1>3. approvals \in [Directives -> SUBSET ApprovalRow]
    BY DEF Init
  <1>4. trail \in Trails
    BY StatesAreAudited DEF Init, Trails
  <1>5. req \in [Requests -> Request] /\ HandlersChecked
    BY IdleIsRequest DEF Init, HandlersChecked
  <1> QED
    BY <1>1, <1>2, <1>3, <1>4, <1>5 DEF TypeInv, TypeOK, Trails

\* Every step keeps types and handler knowledge: one case per action.
LEMMA NextTypeInv == TypeInv /\ [Next]_vars => TypeInv'
  <1> SUFFICES ASSUME TypeInv, [Next]_vars PROVE TypeInv'
    OBVIOUS
  <1>1. CASE Next
    <2>1. PICK r \in Requests :
            DirectiveStep(r) \/ ConfirmationStep(r) \/ GateStep(r) \/ Fail(r)
      BY <1>1 DEF Next
    <2>2. CASE DirectiveStep(r)
      BY <2>2, BeginDirectiveCreatePreserves, InsertDirectivePreserves,
         BeginDirectiveUpdatePreserves, ReadEditGatePreserves,
         CommitDirectiveUpdatePreserves, BeginDirectiveTransitionPreserves,
         ReadLinkedGatePreserves, CommitDirectivePreserves,
         BeginDirectiveDeletePreserves, DeleteDirectivePreserves
      DEF DirectiveStep
    <2>3. CASE ConfirmationStep(r)
      BY <2>3, BeginConfirmationCreatePreserves, CountReceiptsPreserves,
         InsertConfirmationPreserves, BeginConfirmationUpdatePreserves,
         RequireExecutingPreserves, CommitConfirmationUpdatePreserves,
         BeginConfirmationTransitionPreserves, ReadOutcomeDirectivePreserves,
         ReadOutcomeGatePreserves, CommitOutcomePreserves,
         CommitCancellationPreserves, BeginConfirmationDeletePreserves,
         DeleteConfirmationPreserves
      DEF ConfirmationStep
    <2>4. CASE GateStep(r)
      BY <2>4, BeginGateUpdatePreserves, BeginGateTransitionPreserves,
         CommitGatePreserves, BeginGateDeletePreserves, DeleteGatePreserves
      DEF GateStep
    <2>5. CASE Fail(r)
      BY <2>5, FailPreserves
    <2> QED
      BY <2>1, <2>2, <2>3, <2>4, <2>5
  <1>2. CASE UNCHANGED vars
    BY <1>2 DEF vars, database, TypeInv, TypeOK, HandlersChecked, Row
  <1> QED
    BY <1>1, <1>2

\* The inductive invariant behind TypeCorrect.
LEMMA TypeInvHolds == Spec => []TypeInv
  BY InitTypeInv, NextTypeInv, PTL DEF Spec

\* Type correctness, for any set of codes, users and concurrent requests and
\* any versions the clients send.
THEOREM TypeCorrect == Spec => []TypeOK
  <1>1. TypeInv => TypeOK
    BY DEF TypeInv
  <1> QED
    BY <1>1, TypeInvHolds, PTL

-----------------------------------------------------------------------------
(***************************************************************************)
(* 2. What a step does to the rows and to the memory of the handlers.      *)
(***************************************************************************)

\* A row stays, is inserted, is written at the next version, or is soft-deleted.
RowStep(old, new) ==
    \/ new = old
    \/ old.life = "absent" /\ new.life = "live"
    \/ old.life = "live" /\ new.life = "live" /\ new.version = old.version + 1
    \/ old.life = "live" /\ new = [old EXCEPT !.life = "deleted"]

RowSteps ==
    /\ \A g \in Gates : RowStep(gates[g], gates'[g])
    /\ \A d \in Directives : RowStep(directives[d], directives'[d])
    /\ \A c \in Confirmations : RowStep(confirmations[c], confirmations'[c])

\* The gate write of a transaction moves each gate by a RowStep.
LEMMA GateSettledIsRowStep ==
    ASSUME TypeInv, NEW g, NEW gate \in GateRow, gate.life = "live",
           NEW target, NEW log, GateSettled(g, gate, target, log), NEW h \in Gates
    PROVE  RowStep(gates[h], gates'[h])
  <1>1. CASE gate.status = target \/ h # g
    BY <1>1 DEF GateSettled, RowStep, TypeInv, TypeOK
  <1>2. CASE gate.status # target /\ h = g
    <2>1. gates'[h] = [gate EXCEPT !.status = target, !.version = gate.version + 1]
      BY <1>2 DEF GateSettled, TypeInv, TypeOK
    <2>2. gates[h].life = "live" /\ gates[h].version = gate.version
      BY <1>2 DEF GateSettled, Matches
    <2>3. gates'[h].life = "live" /\ gates'[h].version = gate.version + 1
      BY <2>1 DEF GateRow
    <2> QED
      BY <2>2, <2>3 DEF RowStep
  <1> QED
    BY <1>1, <1>2

\* Every action on directives moves every row by a RowStep.
LEMMA DirectiveStepRows ==
    ASSUME TypeInv, NEW r \in Requests, DirectiveStep(r)
    PROVE  RowSteps
  <1> DEFINE q == req[r]
  <1>0. q \in Request /\ HandlerChecked(q)
    BY RequestIsChecked
  <1>1. CASE UNCHANGED database
    BY <1>1 DEF RowSteps, RowStep, database
  <1>2. CASE InsertDirective(r)
    BY <1>2 DEF InsertDirective, RowSteps, RowStep, TypeInv, TypeOK
  <1>3. CASE CommitDirectiveUpdate(r)
    <2>1. q.dir.life = "live" /\ q.dir \in DirectiveRow
      BY <1>0, <1>3 DEF CommitDirectiveUpdate, HandlerChecked, Request
    <2> QED
      BY <1>3, <2>1 DEF CommitDirectiveUpdate, RowSteps, RowStep, TypeInv, TypeOK,
                        Matches, DirectiveRow
  <1>4. CASE CommitDirective(r)
    <2>1. q.dir.life = "live" /\ q.dir \in DirectiveRow /\ q.gate \in GateRow
      BY <1>0, <1>4 DEF CommitDirective, HandlerChecked, Request
    <2>2. \A d \in Directives : RowStep(directives[d], directives'[d])
      BY <1>4, <2>1 DEF CommitDirective, RowStep, TypeInv, TypeOK, Matches,
                        DirectiveRow, Transitioned
    <2>3. \A g \in Gates : RowStep(gates[g], gates'[g])
      <3>1. CASE NeedsGate(q.dir, q.target)
        <4>1. q.gate.life = "live"
          BY <1>0, <1>4, <3>1 DEF CommitDirective, HandlerChecked
        <4>2. PICK log : GateSettled(q.dir.gate, q.gate,
                           ExecutionGateTarget(q.dir, q.gate, q.target), log)
          BY <1>4, <3>1 DEF CommitDirective
        <4> HIDE DEF q
        <4> QED
          BY <2>1, <4>1, <4>2, GateSettledIsRowStep
      <3>2. CASE ~ NeedsGate(q.dir, q.target)
        BY <1>4, <3>2 DEF CommitDirective, RowStep
      <3> QED
        BY <3>1, <3>2
    <2> QED
      BY <1>4, <2>2, <2>3 DEF CommitDirective, RowSteps, RowStep
  <1>5. CASE DeleteDirective(r)
    BY <1>5 DEF DeleteDirective, RowSteps, RowStep, TypeInv, TypeOK
  <1> QED
    BY <1>1, <1>2, <1>3, <1>4, <1>5 DEF DirectiveStep, BeginDirectiveCreate,
       BeginDirectiveUpdate, BeginDirectiveTransition, BeginDirectiveDelete,
       ReadEditGate, ReadLinkedGate, Begin

\* Every action on receipts moves every row by a RowStep.
LEMMA ConfirmationStepRows ==
    ASSUME TypeInv, NEW r \in Requests, ConfirmationStep(r)
    PROVE  RowSteps
  <1> DEFINE q == req[r]
  <1>0. q \in Request /\ HandlerChecked(q)
    BY RequestIsChecked
  <1>1. CASE UNCHANGED database
    BY <1>1 DEF RowSteps, RowStep, database
  <1>2. CASE InsertConfirmation(r)
    BY <1>2 DEF InsertConfirmation, ReceiptFits, RowSteps, RowStep, TypeInv, TypeOK
  <1>3. CASE CommitConfirmationUpdate(r)
    <2>1. q.conf.life = "live" /\ q.conf \in ConfirmationRow
      BY <1>0, <1>3 DEF CommitConfirmationUpdate, HandlerChecked, Request
    <2> QED
      BY <1>3, <2>1 DEF CommitConfirmationUpdate, RowSteps, RowStep, TypeInv, TypeOK,
                        Matches, ConfirmationRow
  <1>4. CASE CommitOutcome(r)
    <2>1. /\ q.conf.life = "live" /\ q.conf \in ConfirmationRow
          /\ q.dir.life = "live" /\ q.dir \in DirectiveRow
          /\ q.gate.life = "live" /\ q.gate \in GateRow
      BY <1>0, <1>4 DEF CommitOutcome, HandlerChecked, Request
    <2>2. \A c \in Confirmations : RowStep(confirmations[c], confirmations'[c])
      BY <1>4, <2>1 DEF CommitOutcome, RowStep, TypeInv, TypeOK, Matches,
                        ConfirmationRow
    <2>3. \A d \in Directives : RowStep(directives[d], directives'[d])
      BY <1>4, <2>1 DEF CommitOutcome, RowStep, TypeInv, TypeOK, Matches, DirectiveRow
    <2>4. PICK log : GateSettled(q.dir.gate, q.gate, GateOutcome(q.target, q.dir), log)
      BY <1>4 DEF CommitOutcome
    <2>5. \A g \in Gates : RowStep(gates[g], gates'[g])
      <3> HIDE DEF q
      <3> QED
        BY <2>1, <2>4, GateSettledIsRowStep
    <2> QED
      BY <2>2, <2>3, <2>5 DEF RowSteps
  <1>5. CASE CommitCancellation(r)
    <2>1. q.conf.life = "live" /\ q.conf \in ConfirmationRow
      BY <1>0, <1>5 DEF CommitCancellation, HandlerChecked, Request
    <2> QED
      BY <1>5, <2>1 DEF CommitCancellation, RowSteps, RowStep, TypeInv, TypeOK,
                        Matches, ConfirmationRow
  <1>6. CASE DeleteConfirmation(r)
    BY <1>6 DEF DeleteConfirmation, RowSteps, RowStep, TypeInv, TypeOK
  <1> QED
    BY <1>1, <1>2, <1>3, <1>4, <1>5, <1>6 DEF ConfirmationStep,
       BeginConfirmationCreate, CountReceipts, BeginConfirmationUpdate,
       RequireExecuting, BeginConfirmationTransition, ReadOutcomeDirective,
       ReadOutcomeGate, BeginConfirmationDelete, Begin

\* Every action on gates moves every row by a RowStep.
LEMMA GateStepRows ==
    ASSUME TypeInv, NEW r \in Requests, GateStep(r)
    PROVE  RowSteps
  <1> DEFINE q == req[r]
  <1>1. CASE UNCHANGED database
    BY <1>1 DEF RowSteps, RowStep, database
  <1>2. CASE CommitGate(r)
    <2>1. q.gate.life = "live" /\ q.gate \in GateRow
      BY <1>2, RequestIsChecked DEF CommitGate, HandlerChecked, Request
    <2> QED
      BY <1>2, <2>1 DEF CommitGate, RowSteps, RowStep, TypeInv, TypeOK, Matches, GateRow
  <1>3. CASE DeleteGate(r)
    BY <1>3 DEF DeleteGate, RowSteps, RowStep, TypeInv, TypeOK
  <1> QED
    BY <1>1, <1>2, <1>3 DEF GateStep, BeginGateUpdate, BeginGateTransition,
       BeginGateDelete, Begin

\* Every step moves every row by a RowStep; in particular a deleted row never
\* changes again and a version only ever grows by one.
LEMMA NextRows == TypeInv /\ [Next]_vars => RowSteps
  <1> SUFFICES ASSUME TypeInv, [Next]_vars PROVE RowSteps
    OBVIOUS
  <1>1. CASE Next
    <2>1. PICK r \in Requests :
            DirectiveStep(r) \/ ConfirmationStep(r) \/ GateStep(r) \/ Fail(r)
      BY <1>1 DEF Next
    <2>2. CASE Fail(r)
      BY <2>2 DEF Fail, database, RowSteps, RowStep
    <2> QED
      BY <2>1, <2>2, DirectiveStepRows, ConfirmationStepRows, GateStepRows
  <1>2. CASE UNCHANGED vars
    BY <1>2 DEF vars, database, RowSteps, RowStep
  <1> QED
    BY <1>1, <1>2

\* The steps that write directives; all others leave the table alone.
LEMMA DirectiveWriters ==
    ASSUME NEW r \in Requests,
           DirectiveStep(r) \/ ConfirmationStep(r) \/ GateStep(r) \/ Fail(r)
    PROVE  \/ directives' = directives
           \/ InsertDirective(r) \/ CommitDirectiveUpdate(r) \/ CommitDirective(r)
           \/ DeleteDirective(r) \/ CommitOutcome(r)
  BY DEF DirectiveStep, ConfirmationStep,
     GateStep, Fail, database, Begin, BeginDirectiveCreate, BeginDirectiveUpdate,
     BeginDirectiveTransition, BeginDirectiveDelete, ReadEditGate, ReadLinkedGate,
     BeginConfirmationCreate, CountReceipts, InsertConfirmation,
     BeginConfirmationUpdate, RequireExecuting, CommitConfirmationUpdate,
     BeginConfirmationTransition, ReadOutcomeDirective, ReadOutcomeGate,
     CommitCancellation, BeginConfirmationDelete, DeleteConfirmation,
     BeginGateUpdate, BeginGateTransition, CommitGate, BeginGateDelete, DeleteGate

\* The steps that write receipts.
LEMMA ConfirmationWriters ==
    ASSUME NEW r \in Requests,
           DirectiveStep(r) \/ ConfirmationStep(r) \/ GateStep(r) \/ Fail(r)
    PROVE  \/ confirmations' = confirmations
           \/ InsertConfirmation(r) \/ CommitConfirmationUpdate(r)
           \/ CommitOutcome(r) \/ CommitCancellation(r) \/ DeleteConfirmation(r)
  BY DEF DirectiveStep, ConfirmationStep,
     GateStep, Fail, database, Begin, BeginDirectiveCreate, BeginDirectiveUpdate,
     BeginDirectiveTransition, BeginDirectiveDelete, ReadEditGate, ReadLinkedGate,
     InsertDirective, CommitDirectiveUpdate, CommitDirective, DeleteDirective,
     BeginConfirmationCreate, CountReceipts, BeginConfirmationUpdate,
     RequireExecuting, BeginConfirmationTransition, ReadOutcomeDirective,
     ReadOutcomeGate, BeginConfirmationDelete,
     BeginGateUpdate, BeginGateTransition, CommitGate, BeginGateDelete, DeleteGate

\* The steps that write gates.
LEMMA GateWriters ==
    ASSUME NEW r \in Requests,
           DirectiveStep(r) \/ ConfirmationStep(r) \/ GateStep(r) \/ Fail(r)
    PROVE  \/ gates' = gates
           \/ CommitDirective(r) \/ CommitOutcome(r) \/ CommitGate(r) \/ DeleteGate(r)
  BY DEF DirectiveStep, ConfirmationStep,
     GateStep, Fail, database, Begin, BeginDirectiveCreate, BeginDirectiveUpdate,
     BeginDirectiveTransition, BeginDirectiveDelete, ReadEditGate, ReadLinkedGate,
     InsertDirective, CommitDirectiveUpdate, DeleteDirective,
     BeginConfirmationCreate, CountReceipts, InsertConfirmation,
     BeginConfirmationUpdate, RequireExecuting, CommitConfirmationUpdate,
     BeginConfirmationTransition, ReadOutcomeDirective, ReadOutcomeGate,
     CommitCancellation, BeginConfirmationDelete, DeleteConfirmation,
     BeginGateUpdate, BeginGateTransition, BeginGateDelete

-----------------------------------------------------------------------------
(***************************************************************************)
(* 3. Versions identify contents.                                          *)
(***************************************************************************)

SnapshotInv == TypeInv /\ SnapshotsSound

\* What a handler read stays sound while others write.
LEMMA SoundAcrossStep ==
    ASSUME NEW snapshot, NEW old, NEW new, snapshot.version \in Nat,
           \/ old \in GateRow /\ new \in GateRow
           \/ old \in DirectiveRow /\ new \in DirectiveRow
           \/ old \in ConfirmationRow /\ new \in ConfirmationRow,
           Sound(snapshot, old), RowStep(old, new)
    PROVE  Sound(snapshot, new)
  <1>1. old.version \in Nat /\ new.version \in Nat
    BY DEF GateRow, DirectiveRow, ConfirmationRow
  <1>2. CASE new = old
    BY <1>2
  <1>3. CASE old.life = "absent"
    BY <1>3 DEF Sound
  <1>4. CASE new.life = "live" /\ new.version = old.version + 1
    BY <1>1, <1>4 DEF Sound
  <1>5. CASE new = [old EXCEPT !.life = "deleted"]
    <2>1. new.life = "deleted" /\ new.version = old.version
          /\ [new EXCEPT !.life = "live"] = [old EXCEPT !.life = "live"]
      BY <1>5 DEF GateRow, DirectiveRow, ConfirmationRow
    <2> QED
      BY <2>1 DEF Sound
  <1> QED
    BY <1>2, <1>3, <1>4, <1>5 DEF RowStep

\* The rows a handler holds stay sound while any step changes the tables.
LEMMA MemoryAcrossStep ==
    ASSUME TypeInv, TypeInv', RowSteps, NEW q \in Request, MemorySound(q)
    PROVE  MemorySound(q)'
  <1>1. /\ q.conf \in ConfirmationRow /\ q.conf.version \in Nat
        /\ q.dir \in DirectiveRow /\ q.dir.version \in Nat
        /\ q.gate \in GateRow /\ q.gate.version \in Nat
    BY DEF Request, ConfirmationRow, DirectiveRow, GateRow
  <1>2. /\ \A g \in Gates : gates[g] \in GateRow /\ gates'[g] \in GateRow
        /\ \A d \in Directives : /\ directives[d] \in DirectiveRow
                                 /\ directives'[d] \in DirectiveRow
        /\ \A c \in Confirmations : /\ confirmations[c] \in ConfirmationRow
                                    /\ confirmations'[c] \in ConfirmationRow
    BY DEF TypeInv, TypeOK
  <1>3. ASSUME q.conf.life = "live"
        PROVE  q.c \in Confirmations /\ Sound(q.conf, confirmations'[q.c])
    BY <1>1, <1>2, <1>3, SoundAcrossStep DEF MemorySound, RowSteps
  <1>4. ASSUME q.dir.life = "live"
        PROVE  /\ DirectiveOf(q) \in Directives
               /\ Sound(q.dir, directives'[DirectiveOf(q)])
    BY <1>1, <1>2, <1>4, SoundAcrossStep DEF MemorySound, RowSteps
  <1>5. ASSUME q.gate.life = "live"
        PROVE  GateOf(q) \in Gates /\ Sound(q.gate, gates'[GateOf(q)])
    BY <1>1, <1>2, <1>5, SoundAcrossStep DEF MemorySound, RowSteps
  <1> QED
    BY <1>3, <1>4, <1>5 DEF MemorySound, Sound, DirectiveOf, GateOf

\* A handler that holds no row is sound.
LEMMA IdleIsSound == MemorySound(Idle)
  BY DEF MemorySound, Idle, NoGate, NoDirective, NoConfirmation

\* A row just read is sound.
LEMMA FreshIsSound ==
    ASSUME NEW row, row.life = "live", row.version \in Nat,
           row \in GateRow \/ row \in DirectiveRow \/ row \in ConfirmationRow
    PROVE  Sound(row, row)
  <1>1. [row EXCEPT !.life = "live"] = row
    BY DEF GateRow, DirectiveRow, ConfirmationRow
  <1> QED
    BY <1>1 DEF Sound

\* A handler that begins holds at most the one row it has read.
LEMMA BeginMemory ==
    ASSUME TypeInv, NEW r \in Requests,
           \/ BeginDirectiveCreate(r) \/ BeginDirectiveUpdate(r)
           \/ BeginDirectiveTransition(r) \/ BeginDirectiveDelete(r)
           \/ BeginConfirmationCreate(r) \/ BeginConfirmationUpdate(r)
           \/ BeginConfirmationTransition(r) \/ BeginConfirmationDelete(r)
           \/ BeginGateUpdate(r) \/ BeginGateTransition(r) \/ BeginGateDelete(r)
    PROVE  LET new == req'[r] IN
           /\ UNCHANGED database
           /\ \A s \in Requests \ {r} : req'[s] = req[s]
           /\ \/ new.dir = NoDirective
              \/ /\ new.d \in Directives /\ new.dir = directives[new.d]
                 /\ new.dir.life = "live"
           /\ \/ new.conf = NoConfirmation
              \/ /\ new.c \in Confirmations /\ new.conf = confirmations[new.c]
                 /\ new.conf.life = "live"
           /\ \/ new.gate = NoGate
              \/ /\ new.g \in Gates /\ new.gate = gates[new.g]
                 /\ new.gate.life = "live"
  <1>1. req \in [Requests -> Request]
    BY DEF TypeInv, TypeOK
  <1> DEFINE P(new) ==
           /\ \/ new.dir = NoDirective
              \/ /\ new.d \in Directives /\ new.dir = directives[new.d]
                 /\ new.dir.life = "live"
           /\ \/ new.conf = NoConfirmation
              \/ /\ new.c \in Confirmations /\ new.conf = confirmations[new.c]
                 /\ new.conf.life = "live"
           /\ \/ new.gate = NoGate
              \/ /\ new.g \in Gates /\ new.gate = gates[new.g]
                 /\ new.gate.life = "live"
  <1>2. SUFFICES \E new : P(new) /\ req' = [req EXCEPT ![r] = new] /\ UNCHANGED database
    BY <1>1
  <1>3. CASE BeginDirectiveCreate(r)
    BY <1>3 DEF BeginDirectiveCreate, Begin, Idle
  <1>4. CASE BeginDirectiveUpdate(r)
    <2>1. PICK u \in Users, d \in Directives, g \in Gates, goal \in GateGoal :
            /\ directives[d].life = "live"
            /\ \E v \in ClientVersions(directives[d].version) :
                 Begin(r, u, "directive.update",
                       [Idle EXCEPT !.pc = "readEditGate", !.d = d,
                                    !.dir = directives[d], !.g = g,
                                    !.goal = goal, !.expected = v])
      BY <1>4 DEF BeginDirectiveUpdate
    <2> QED
      BY <2>1 DEF Begin, Idle
  <1>5. CASE BeginDirectiveTransition(r)
    <2>1. PICK u \in Users, d \in Directives, target \in DirectiveState,
               pc \in Step :
            /\ directives[d].life = "live"
            /\ \E v \in ClientVersions(directives[d].version) :
                 Begin(r, u, "directive.transition",
                       [Idle EXCEPT !.pc = pc, !.actor = u, !.d = d,
                                    !.dir = directives[d],
                                    !.target = target, !.expected = v])
      BY <1>5 DEF BeginDirectiveTransition, Step
    <2> QED
      BY <2>1 DEF Begin, Idle
  <1>6. CASE BeginDirectiveDelete(r)
    BY <1>6 DEF BeginDirectiveDelete, Begin, Idle
  <1>7. CASE BeginConfirmationCreate(r)
    BY <1>7 DEF BeginConfirmationCreate, Begin, Idle
  <1>8. CASE BeginConfirmationUpdate(r)
    BY <1>8 DEF BeginConfirmationUpdate, Begin, Idle
  <1>9. CASE BeginConfirmationTransition(r)
    <2>1. PICK u \in Users, c \in Confirmations, target \in ConfirmationState,
               pc \in Step :
            /\ confirmations[c].life = "live"
            /\ \E v \in ClientVersions(confirmations[c].version) :
                 Begin(r, u, "confirmation.transition",
                       [Idle EXCEPT !.pc = pc, !.c = c,
                                    !.conf = confirmations[c],
                                    !.target = target, !.expected = v])
      BY <1>9 DEF BeginConfirmationTransition, Step
    <2> QED
      BY <2>1 DEF Begin, Idle
  <1>10. CASE BeginConfirmationDelete(r)
    BY <1>10 DEF BeginConfirmationDelete, Begin, Idle
  <1>11. CASE BeginGateUpdate(r)
    BY <1>11 DEF BeginGateUpdate, Begin, Idle
  <1>12. CASE BeginGateTransition(r)
    BY <1>12 DEF BeginGateTransition, Begin, Idle
  <1>13. CASE BeginGateDelete(r)
    BY <1>13 DEF BeginGateDelete, Begin, Idle
  <1> QED
    BY <1>3, <1>4, <1>5, <1>6, <1>7, <1>8, <1>9, <1>10, <1>11, <1>12, <1>13

\* A handler that reads keeps what it holds and gains a row as it is now.
LEMMA ReadMemory ==
    ASSUME TypeInv, NEW r \in Requests,
           \/ ReadEditGate(r) \/ ReadLinkedGate(r) \/ CountReceipts(r)
           \/ RequireExecuting(r) \/ ReadOutcomeDirective(r) \/ ReadOutcomeGate(r),
           MemorySound(req[r])
    PROVE  LET new == req'[r] IN
           /\ UNCHANGED database
           /\ \A s \in Requests \ {r} : req'[s] = req[s]
           /\ new.dir = req[r].dir \/ \E d \in Directives : new.dir = directives[d]
           /\ MemorySound(new)
  <1> DEFINE q == req[r]
             new == req'[r]
  <1>1. q \in Request /\ HandlerChecked(q) /\ req \in [Requests -> Request]
    BY RequestIsChecked DEF TypeInv, TypeOK
  <1>2. CASE ReadEditGate(r) \/ CountReceipts(r) \/ RequireExecuting(r)
    <2>1. /\ UNCHANGED database
          /\ \A s \in Requests \ {r} : req'[s] = req[s]
      BY <1>1, <1>2 DEF ReadEditGate, CountReceipts, RequireExecuting
    <2>2. \E pc : req' = [req EXCEPT ![r].pc = pc]
      BY <1>2 DEF ReadEditGate, CountReceipts, RequireExecuting
    <2>3. /\ new.conf = q.conf /\ new.dir = q.dir /\ new.gate = q.gate
          /\ new.c = q.c /\ new.d = q.d /\ new.g = q.g
      BY <1>1, <2>2 DEF Request
    <2> QED
      BY <2>1, <2>3 DEF MemorySound, DirectiveOf, GateOf
  <1>3. CASE ReadLinkedGate(r) \/ ReadOutcomeGate(r)
    <2>1. /\ UNCHANGED database
          /\ \A s \in Requests \ {r} : req'[s] = req[s]
      BY <1>1, <1>3 DEF ReadLinkedGate, ReadOutcomeGate
    <2>2. /\ gates[q.dir.gate].life = "live"
          /\ \E pc : req' = [req EXCEPT ![r].pc = pc, ![r].gate = gates[q.dir.gate]]
      BY <1>3 DEF ReadLinkedGate, ReadOutcomeGate
    <2>3. /\ new.conf = q.conf /\ new.dir = q.dir /\ new.gate = gates[q.dir.gate]
          /\ new.c = q.c /\ new.d = q.d /\ new.g = q.g
      BY <1>1, <2>2 DEF Request
    <2>4. q.g = None /\ q.dir.gate \in Gates
      <3>1. q.g = None /\ q.dir.life = "live" /\ q.dir \in DirectiveRow
        BY <1>1, <1>3 DEF HandlerChecked, ReadLinkedGate, ReadOutcomeGate, Request
      <3> QED
        BY <3>1 DEF DirectiveRow
    <2>5. Sound(new.gate, gates[GateOf(new)]) /\ GateOf(new) \in Gates
      <3>1. gates[q.dir.gate] \in GateRow /\ gates[q.dir.gate].version \in Nat
        BY <2>4, RowsAreRows DEF GateRow
      <3> QED
        BY <2>2, <2>3, <2>4, <3>1, FreshIsSound DEF GateOf
    <2> QED
      BY <2>1, <2>3, <2>5 DEF MemorySound, DirectiveOf
  <1>4. CASE ReadOutcomeDirective(r)
    <2> DEFINE d == q.conf.directive
    <2>1. /\ UNCHANGED database
          /\ \A s \in Requests \ {r} : req'[s] = req[s]
      BY <1>1, <1>4 DEF ReadOutcomeDirective
    <2>2. /\ directives[d].life = "live"
          /\ req' = [req EXCEPT ![r].pc = "readOutcomeGate", ![r].dir = directives[d]]
      BY <1>4 DEF ReadOutcomeDirective, IsExecuting
    <2>3. /\ new.conf = q.conf /\ new.dir = directives[d] /\ new.gate = q.gate
          /\ new.c = q.c /\ new.d = q.d /\ new.g = q.g
      BY <1>1, <2>2 DEF Request
    <2>4. q.d = None /\ q.g = None /\ d \in Directives /\ q.gate.life # "live"
      <3>1. q.d = None /\ q.g = None /\ q.conf.life = "live" /\ q.conf \in ConfirmationRow
            /\ q.gate.life # "live"
        BY <1>1, <1>4 DEF HandlerChecked, ReadOutcomeDirective, Request, NoGate
      <3> QED
        BY <3>1 DEF ConfirmationRow
    <2>5. Sound(new.dir, directives[DirectiveOf(new)]) /\ DirectiveOf(new) \in Directives
      <3>1. directives[d] \in DirectiveRow /\ directives[d].version \in Nat
        BY <2>4, RowsAreRows DEF DirectiveRow
      <3> QED
        BY <2>2, <2>3, <2>4, <3>1, FreshIsSound DEF DirectiveOf
    <2> QED
      BY <2>1, <2>3, <2>4, <2>5 DEF MemorySound
  <1> QED
    BY <1>2, <1>3, <1>4

\* A commit, a deletion or a failure drops the handler's memory.
LEMMA FinishMemory ==
    ASSUME TypeInv, NEW r \in Requests, Finish(r)
    PROVE  req'[r] = Idle /\ \A s \in Requests \ {r} : req'[s] = req[s]
  BY DEF Finish, TypeInv, TypeOK

\* What a step does to the memory of each handler.
LEMMA NextMemory ==
    ASSUME SnapshotInv, Next
    PROVE  /\ \A s \in Requests :
                 \/ req'[s] = req[s]
                 \/ req'[s] = Idle
                 \/ UNCHANGED database /\ MemorySound(req'[s])
           /\ \A s \in Requests :
                 \/ req'[s].dir = req[s].dir
                 \/ req'[s].dir = NoDirective
                 \/ \E d \in Directives : req'[s].dir = directives[d]
  <1>1. PICK r \in Requests :
          DirectiveStep(r) \/ ConfirmationStep(r) \/ GateStep(r) \/ Fail(r)
    BY DEF Next
  <1>2. TypeInv /\ MemorySound(req[r])
    BY DEF SnapshotInv, SnapshotsSound
  <1>3. CASE \/ BeginDirectiveCreate(r) \/ BeginDirectiveUpdate(r)
             \/ BeginDirectiveTransition(r) \/ BeginDirectiveDelete(r)
             \/ BeginConfirmationCreate(r) \/ BeginConfirmationUpdate(r)
             \/ BeginConfirmationTransition(r) \/ BeginConfirmationDelete(r)
             \/ BeginGateUpdate(r) \/ BeginGateTransition(r) \/ BeginGateDelete(r)
    <2> DEFINE new == req'[r]
    <2>1. /\ UNCHANGED database
          /\ \A s \in Requests \ {r} : req'[s] = req[s]
          /\ \/ new.dir = NoDirective
             \/ /\ new.d \in Directives /\ new.dir = directives[new.d]
                /\ new.dir.life = "live"
          /\ \/ new.conf = NoConfirmation
             \/ /\ new.c \in Confirmations /\ new.conf = confirmations[new.c]
                /\ new.conf.life = "live"
          /\ \/ new.gate = NoGate
             \/ /\ new.g \in Gates /\ new.gate = gates[new.g]
                /\ new.gate.life = "live"
      BY <1>2, <1>3, BeginMemory
    <2>2. new.conf.life = "live" =>
            new.c \in Confirmations /\ Sound(new.conf, confirmations[new.c])
      BY <1>2, <2>1, RowsAreRows, FreshIsSound DEF NoConfirmation, ConfirmationRow
    <2>3. new.dir.life = "live" =>
            /\ DirectiveOf(new) \in Directives
            /\ Sound(new.dir, directives[DirectiveOf(new)])
      BY <1>2, <2>1, RowsAreRows, FreshIsSound, CodesAssumption
      DEF NoDirective, DirectiveRow, DirectiveOf, Entities
    <2>4. new.gate.life = "live" =>
            GateOf(new) \in Gates /\ Sound(new.gate, gates[GateOf(new)])
      BY <1>2, <2>1, RowsAreRows, FreshIsSound, CodesAssumption
      DEF NoGate, GateRow, GateOf, Entities
    <2>5. MemorySound(new)
      BY <2>2, <2>3, <2>4 DEF MemorySound
    <2> QED
      BY <2>1, <2>5
  <1>4. CASE \/ ReadEditGate(r) \/ ReadLinkedGate(r) \/ CountReceipts(r)
             \/ RequireExecuting(r) \/ ReadOutcomeDirective(r) \/ ReadOutcomeGate(r)
    BY <1>2, <1>4, ReadMemory
  <1>5. CASE Finish(r)
    BY <1>2, <1>5, FinishMemory DEF Idle
  <1> QED
    BY <1>1, <1>3, <1>4, <1>5 DEF DirectiveStep, ConfirmationStep, GateStep, Fail,
       InsertDirective, CommitDirectiveUpdate, CommitDirective, DeleteDirective,
       InsertConfirmation, CommitConfirmationUpdate, CommitOutcome,
       CommitCancellation, DeleteConfirmation, CommitGate, DeleteGate

\* The inductive invariant behind VersionsIdentifyContents.
LEMMA SnapshotInvHolds == Spec => []SnapshotInv
  <1>1. Init => SnapshotInv
    BY InitTypeInv, IdleIsSound DEF Init, SnapshotInv, SnapshotsSound
  <1>2. SnapshotInv /\ [Next]_vars => SnapshotInv'
    <2> SUFFICES ASSUME SnapshotInv, [Next]_vars PROVE SnapshotInv'
      OBVIOUS
    <2>1. TypeInv /\ TypeInv' /\ RowSteps
      BY NextTypeInv, NextRows DEF SnapshotInv
    <2>2. CASE Next
      <3> SUFFICES ASSUME NEW s \in Requests PROVE MemorySound(req[s])'
        BY <2>1 DEF SnapshotInv, SnapshotsSound
      <3>1. CASE req'[s] = req[s]
        <4>1. PICK q : q = req[s]
          OBVIOUS
        <4>2. q \in Request /\ MemorySound(q)
          BY <4>1, <2>1, RequestIsChecked DEF SnapshotInv, SnapshotsSound
        <4>3. MemorySound(q)'
          BY <2>1, <4>2, MemoryAcrossStep
        <4> QED
          BY <3>1, <4>1, <4>3 DEF MemorySound, DirectiveOf, GateOf
      <3>2. CASE req'[s] = Idle
        BY <3>2 DEF MemorySound, Idle, NoGate, NoDirective, NoConfirmation
      <3>3. CASE UNCHANGED database /\ MemorySound(req'[s])
        BY <3>3 DEF MemorySound, database, DirectiveOf, GateOf
      <3> QED
        BY <2>2, <3>1, <3>2, <3>3, NextMemory
    <2>3. CASE UNCHANGED vars
      BY <2>1, <2>3 DEF SnapshotInv, SnapshotsSound, MemorySound, vars, database,
                        DirectiveOf, GateOf
    <2> QED
      BY <2>2, <2>3
  <1> QED
    BY <1>1, <1>2, PTL DEF Spec

\* A handler that finds a row at the version it read finds the row it read, for
\* any number of handlers and whatever versions the clients send.
THEOREM VersionsIdentifyContents == Spec => []SnapshotsSound
  <1>1. SnapshotInv => SnapshotsSound
    BY DEF SnapshotInv
  <1> QED
    BY <1>1, SnapshotInvHolds, PTL

-----------------------------------------------------------------------------
(***************************************************************************)
(* 4. The persons on record.                                               *)
(***************************************************************************)

\* What the status of a directive row says about its two persons.
Persons(row) ==
    /\ row.life = "absent" => row.status = "draft"
    /\ row.status \in {"draft", "pending"} => row.approvedBy = None
    /\ row.status \in {"approved", "executing", "completed"} =>
         /\ row.submittedBy # None
         /\ row.approvedBy # None
         /\ Fold[row.submittedBy] # Fold[row.approvedBy]

\* It is true of the table and of every copy of a row that a handler holds:
\* the table alone would not do, since a transaction writes such a copy back.
PersonsInv ==
    /\ SnapshotInv
    /\ \A d \in Directives : Persons(directives[d])
    /\ \A r \in Requests : Persons(req[r].dir)

\* A transition that Transition accepts keeps the record straight.
LEMMA TransitionedPersons ==
    ASSUME NEW dir \in DirectiveRow, NEW target \in DirectiveState,
           NEW actor \in Users, NEW version \in Nat, Persons(dir), dir.life = "live",
           target # "completed",
           CanTransition(OperationDirectiveTransitions, dir.status, target),
           target = "approved" => SecondPerson(dir, actor)
    PROVE  Persons(Transitioned(dir, target, actor, version))
  <1> DEFINE new == Transitioned(dir, target, actor, version)
  <1>1. /\ new.life = "live" /\ new.status = target
        /\ new.submittedBy = IF target = "pending" THEN actor ELSE dir.submittedBy
        /\ new.approvedBy = IF target = "approved" THEN actor ELSE dir.approvedBy
    BY DEF Transitioned, DirectiveRow
  <1>2. actor # None
    BY UsersAssumption
  <1>3. /\ target = "pending" => dir.status = "draft"
        /\ target = "executing" => dir.status = "approved"
        /\ target \in {"pending", "approved", "executing", "aborted"}
    BY DEF CanTransition, OperationDirectiveTransitions
  <1> QED
    BY <1>1, <1>2, <1>3 DEF Persons, SecondPerson

\* Every transaction keeps the directive table straight.
LEMMA TablePersons ==
    ASSUME PersonsInv, NEW r \in Requests,
           DirectiveStep(r) \/ ConfirmationStep(r) \/ GateStep(r) \/ Fail(r),
           NEW d \in Directives
    PROVE  Persons(directives'[d])
  <1> DEFINE q == req[r]
  <1>1. /\ TypeInv /\ directives \in [Directives -> DirectiveRow]
        /\ Persons(directives[d]) /\ Persons(q.dir)
    BY DEF PersonsInv, SnapshotInv, TypeInv, TypeOK
  <1>2. q \in Request /\ HandlerChecked(q) /\ q.dir \in DirectiveRow
        /\ q.expected \in Nat
    BY <1>1, RequestIsChecked DEF Request
  <1>3. CASE directives' = directives
    BY <1>1, <1>3
  <1>4. CASE InsertDirective(r)
    <2>1. \/ directives'[d] = directives[d]
          \/ /\ directives'[d].life = "live"
             /\ directives'[d].status = "draft"
             /\ directives'[d].approvedBy = None
      BY <1>1, <1>4 DEF InsertDirective, NoDirective
    <2> QED
      BY <1>1, <2>1 DEF Persons
  <1>5. CASE CommitDirectiveUpdate(r)
    <2>1. q.dir.life = "live"
      BY <1>2, <1>5 DEF CommitDirectiveUpdate, HandlerChecked
    <2>2. \/ directives'[d] = directives[d]
          \/ directives'[d] = [q.dir EXCEPT !.version = q.expected + 1,
                                            !.gate = q.g, !.goal = q.goal]
      BY <1>1, <1>5 DEF CommitDirectiveUpdate
    <2> HIDE DEF q
    <2> QED
      BY <1>1, <1>2, <2>1, <2>2 DEF Persons, DirectiveRow
  <1>6. CASE CommitDirective(r)
    <2>1. /\ q.actor \in Users /\ q.dir.life = "live" /\ q.target # "completed"
          /\ CanTransition(OperationDirectiveTransitions, q.dir.status, q.target)
          /\ q.target = "approved" => SecondPerson(q.dir, q.actor)
      BY <1>2, <1>6 DEF CommitDirective, HandlerChecked
    <2>2. q.target \in DirectiveState
      BY <2>1 DEF CanTransition, OperationDirectiveTransitions, DirectiveState
    <2>3. \/ directives'[d] = directives[d]
          \/ directives'[d] = Transitioned(q.dir, q.target, q.actor, q.expected + 1)
      BY <1>1, <1>6 DEF CommitDirective
    <2>4. q.expected + 1 \in Nat
      BY <1>2
    <2> HIDE DEF q
    <2> QED
      BY <1>1, <1>2, <2>1, <2>2, <2>3, <2>4, TransitionedPersons
  <1>7. CASE DeleteDirective(r)
    <2>1. \/ directives'[d] = directives[d]
          \/ directives'[d] = [directives[d] EXCEPT !.life = "deleted"]
      BY <1>1, <1>7 DEF DeleteDirective
    <2> QED
      BY <1>1, <2>1 DEF Persons, DirectiveRow
  <1>8. CASE CommitOutcome(r)
    <2>1. q.dir.life = "live" /\ q.dir.status = "executing"
      BY <1>2, <1>8 DEF CommitOutcome, HandlerChecked
    <2>2. PICK outcome : /\ outcome \in {"completed", "aborted"}
                         /\ \/ directives'[d] = directives[d]
                            \/ directives'[d] = [q.dir EXCEPT !.status = outcome,
                                                              !.version = @ + 1]
      BY <1>1, <1>8 DEF CommitOutcome, DirectiveOutcome
    <2> HIDE DEF q
    <2> QED
      BY <1>1, <1>2, <2>1, <2>2 DEF Persons, DirectiveRow
  <1> QED
    BY <1>3, <1>4, <1>5, <1>6, <1>7, <1>8, DirectiveWriters

\* The persons on record are straight at all times.
LEMMA PersonsInvHolds == Spec => []PersonsInv
  <1>1. Init /\ SnapshotInv => PersonsInv
    BY DEF Init, PersonsInv, Persons, NoDirective, Idle
  <1>2. PersonsInv /\ SnapshotInv' /\ [Next]_vars => PersonsInv'
    <2> SUFFICES ASSUME PersonsInv, SnapshotInv', [Next]_vars PROVE PersonsInv'
      OBVIOUS
    <2>1. CASE Next
      <3>1. ASSUME NEW d \in Directives PROVE Persons(directives'[d])
        BY <2>1, TablePersons DEF Next
      <3>2. ASSUME NEW s \in Requests PROVE Persons(req'[s].dir)
        <4>1. \/ req'[s].dir = req[s].dir
              \/ req'[s].dir = NoDirective
              \/ \E d \in Directives : req'[s].dir = directives[d]
          BY <2>1, NextMemory DEF PersonsInv
        <4>2. Persons(NoDirective)
          BY DEF Persons, NoDirective
        <4>3. CASE \E d \in Directives : req'[s].dir = directives[d]
          BY <4>3 DEF PersonsInv
        <4> QED
          BY <4>1, <4>2, <4>3 DEF PersonsInv
      <3> QED
        BY <3>1, <3>2 DEF PersonsInv, Persons
    <2>2. CASE UNCHANGED vars
      BY <2>2 DEF vars, database, PersonsInv, Persons
    <2> QED
      BY <2>1, <2>2
  <1> QED
    BY <1>1, <1>2, SnapshotInvHolds, PTL DEF Spec

\* Two accounts stand behind every directive past approval, for any number of
\* concurrent requests and whatever versions the clients send.
THEOREM TwoPersons == Spec => []TwoPersonRule
  <1>1. PersonsInv => TwoPersonRule
    BY DEF PersonsInv, Persons, TwoPersonRule
  <1> QED
    BY <1>1, PersonsInvHolds, PTL

-----------------------------------------------------------------------------
(***************************************************************************)
(* 5. Clients that send a version they have seen (Lead = 0).               *)
(*                                                                         *)
(* Then the version a transaction compares is the version of the row its   *)
(* handler holds, and section 3 says the row it overwrites is that row.    *)
(***************************************************************************)

\* The version a handler will compare is that of the row it has read.
Punctual(q) ==
    /\ q.pc \in {"readEditGate", "commitDirectiveUpdate",
                 "readLinkedGate", "commitDirective"} =>
         q.expected = q.dir.version
    /\ q.pc \in {"requireExecuting", "commitConfirmationUpdate",
                 "readOutcomeDirective", "readOutcomeGate", "commitOutcome",
                 "commitCancellation"} =>
         q.expected = q.conf.version
    /\ q.pc = "commitGate" => q.expected = q.gate.version

PunctualInv ==
    /\ PersonsInv
    /\ \A c \in Confirmations :
         confirmations[c].life = "absent" => confirmations[c].status = "pending"
    /\ \A r \in Requests : Punctual(req[r])

\* No client is ahead of the row.
LEMMA ClientsOnTime ==
    ASSUME Lead = 0, NEW version \in Nat, NEW v \in ClientVersions(version)
    PROVE  v = version
  BY DEF ClientVersions

\* A handler starts out punctual.
LEMMA BeginPunctual ==
    ASSUME Lead = 0, TypeInv, NEW r \in Requests,
           \/ BeginDirectiveCreate(r) \/ BeginDirectiveUpdate(r)
           \/ BeginDirectiveTransition(r) \/ BeginDirectiveDelete(r)
           \/ BeginConfirmationCreate(r) \/ BeginConfirmationUpdate(r)
           \/ BeginConfirmationTransition(r) \/ BeginConfirmationDelete(r)
           \/ BeginGateUpdate(r) \/ BeginGateTransition(r) \/ BeginGateDelete(r),
           NEW s \in Requests, Punctual(req[s])
    PROVE  Punctual(req'[s])
  <1>1. req \in [Requests -> Request]
    BY DEF TypeInv, TypeOK
  <1>2. /\ \A g \in Gates : gates[g].version \in Nat
        /\ \A d \in Directives : directives[d].version \in Nat
        /\ \A c \in Confirmations : confirmations[c].version \in Nat
    BY RowsAreRows DEF GateRow, DirectiveRow, ConfirmationRow
  <1>3. SUFFICES \E new : Punctual(new) /\ req' = [req EXCEPT ![r] = new]
    BY <1>1
  <1>4. CASE BeginDirectiveCreate(r)
    BY <1>4 DEF BeginDirectiveCreate, Begin, Idle, Punctual
  <1>5. CASE BeginDirectiveUpdate(r)
    <2>1. PICK u \in Users, d \in Directives, g \in Gates, goal \in GateGoal :
            \E v \in ClientVersions(directives[d].version) :
               Begin(r, u, "directive.update",
                     [Idle EXCEPT !.pc = "readEditGate", !.d = d,
                                  !.dir = directives[d], !.g = g,
                                  !.goal = goal, !.expected = v])
      BY <1>5 DEF BeginDirectiveUpdate
    <2>2. PICK v \in ClientVersions(directives[d].version) :
            Begin(r, u, "directive.update",
                  [Idle EXCEPT !.pc = "readEditGate", !.d = d,
                               !.dir = directives[d], !.g = g,
                               !.goal = goal, !.expected = v])
      BY <2>1
    <2>3. v = directives[d].version
      BY <1>2, <2>2, ClientsOnTime
    <2> QED
      BY <2>2, <2>3 DEF Begin, Idle, Punctual
  <1>6. CASE BeginDirectiveTransition(r)
    <2>1. PICK u \in Users, d \in Directives, target \in DirectiveState,
               pc \in {"readLinkedGate", "commitDirective"} :
            \E v \in ClientVersions(directives[d].version) :
               Begin(r, u, "directive.transition",
                     [Idle EXCEPT !.pc = pc, !.actor = u, !.d = d,
                                  !.dir = directives[d],
                                  !.target = target, !.expected = v])
      BY <1>6 DEF BeginDirectiveTransition
    <2>2. PICK v \in ClientVersions(directives[d].version) :
            Begin(r, u, "directive.transition",
                  [Idle EXCEPT !.pc = pc, !.actor = u, !.d = d,
                               !.dir = directives[d],
                               !.target = target, !.expected = v])
      BY <2>1
    <2>3. v = directives[d].version
      BY <1>2, <2>2, ClientsOnTime
    <2> QED
      BY <2>2, <2>3 DEF Begin, Idle, Punctual
  <1>7. CASE BeginDirectiveDelete(r)
    BY <1>7 DEF BeginDirectiveDelete, Begin, Idle, Punctual
  <1>8. CASE BeginConfirmationCreate(r)
    BY <1>8 DEF BeginConfirmationCreate, Begin, Idle, Punctual
  <1>9. CASE BeginConfirmationUpdate(r)
    <2>1. PICK u \in Users, c \in Confirmations :
            \E v \in ClientVersions(confirmations[c].version) :
               Begin(r, u, "confirmation.update",
                     [Idle EXCEPT !.pc = "requireExecuting", !.c = c,
                                  !.conf = confirmations[c], !.expected = v])
      BY <1>9 DEF BeginConfirmationUpdate
    <2>2. PICK v \in ClientVersions(confirmations[c].version) :
            Begin(r, u, "confirmation.update",
                  [Idle EXCEPT !.pc = "requireExecuting", !.c = c,
                               !.conf = confirmations[c], !.expected = v])
      BY <2>1
    <2>3. v = confirmations[c].version
      BY <1>2, <2>2, ClientsOnTime
    <2> QED
      BY <2>2, <2>3 DEF Begin, Idle, Punctual
  <1>10. CASE BeginConfirmationTransition(r)
    <2>1. PICK u \in Users, c \in Confirmations, target \in ConfirmationState,
               pc \in {"readOutcomeDirective", "commitCancellation"} :
            \E v \in ClientVersions(confirmations[c].version) :
               Begin(r, u, "confirmation.transition",
                     [Idle EXCEPT !.pc = pc, !.c = c, !.conf = confirmations[c],
                                  !.target = target, !.expected = v])
      BY <1>10 DEF BeginConfirmationTransition
    <2>2. PICK v \in ClientVersions(confirmations[c].version) :
            Begin(r, u, "confirmation.transition",
                  [Idle EXCEPT !.pc = pc, !.c = c, !.conf = confirmations[c],
                               !.target = target, !.expected = v])
      BY <2>1
    <2>3. v = confirmations[c].version
      BY <1>2, <2>2, ClientsOnTime
    <2> QED
      BY <2>2, <2>3 DEF Begin, Idle, Punctual
  <1>11. CASE BeginConfirmationDelete(r)
    BY <1>11 DEF BeginConfirmationDelete, Begin, Idle, Punctual
  <1>12. CASE BeginGateUpdate(r) \/ BeginGateTransition(r)
    <2>1. PICK u \in Users, g \in Gates, target \in GateState :
            \E v \in ClientVersions(gates[g].version) :
               \/ Begin(r, u, "gate.update",
                        [Idle EXCEPT !.pc = "commitGate", !.g = g, !.gate = gates[g],
                                     !.target = target, !.expected = v])
               \/ Begin(r, u, "gate.transition",
                        [Idle EXCEPT !.pc = "commitGate", !.g = g, !.gate = gates[g],
                                     !.target = target, !.expected = v])
      <3>1. \A g \in Gates : gates[g].status \in GateState
        BY RowsAreRows DEF GateRow
      <3>2. CASE BeginGateUpdate(r)
        BY <3>1, <3>2 DEF BeginGateUpdate
      <3>3. CASE BeginGateTransition(r)
        BY <3>3 DEF BeginGateTransition
      <3> QED
        BY <1>12, <3>2, <3>3
    <2>2. PICK v \in ClientVersions(gates[g].version) :
            req' = [req EXCEPT ![r] =
                      [Idle EXCEPT !.pc = "commitGate", !.g = g, !.gate = gates[g],
                                   !.target = target, !.expected = v]]
      BY <2>1 DEF Begin
    <2>3. v = gates[g].version
      BY <1>2, <2>2, ClientsOnTime
    <2> QED
      BY <2>2, <2>3 DEF Idle, Punctual
  <1>13. CASE BeginGateDelete(r)
    BY <1>13 DEF BeginGateDelete, Begin, Idle, Punctual
  <1> QED
    BY <1>4, <1>5, <1>6, <1>7, <1>8, <1>9, <1>10, <1>11, <1>12, <1>13

\* A handler that reads on stays punctual: it does not read the row again whose
\* version it will compare.
LEMMA ReadPunctual ==
    ASSUME TypeInv, NEW r \in Requests,
           \/ ReadEditGate(r) \/ ReadLinkedGate(r) \/ CountReceipts(r)
           \/ RequireExecuting(r) \/ ReadOutcomeDirective(r) \/ ReadOutcomeGate(r),
           NEW s \in Requests, Punctual(req[s])
    PROVE  Punctual(req'[s])
  <1>1. req \in [Requests -> Request] /\ req[s] \in Request
    BY DEF TypeInv, TypeOK
  <1>2. CASE s # r
    BY <1>1, <1>2 DEF ReadEditGate, ReadLinkedGate, CountReceipts, RequireExecuting,
                      ReadOutcomeDirective, ReadOutcomeGate
  <1>3. CASE s = r
    <2>1. CASE ReadEditGate(r)
      BY <1>1, <1>3, <2>1 DEF ReadEditGate, Punctual, Request
    <2>2. CASE ReadLinkedGate(r)
      BY <1>1, <1>3, <2>2 DEF ReadLinkedGate, Punctual, Request
    <2>3. CASE CountReceipts(r)
      BY <1>1, <1>3, <2>3 DEF CountReceipts, Punctual, Request
    <2>4. CASE RequireExecuting(r)
      BY <1>1, <1>3, <2>4 DEF RequireExecuting, Punctual, Request
    <2>5. CASE ReadOutcomeDirective(r)
      BY <1>1, <1>3, <2>5 DEF ReadOutcomeDirective, Punctual, Request
    <2>6. CASE ReadOutcomeGate(r)
      BY <1>1, <1>3, <2>6 DEF ReadOutcomeGate, Punctual, Request
    <2> QED
      BY <2>1, <2>2, <2>3, <2>4, <2>5, <2>6
  <1> QED
    BY <1>2, <1>3

\* Receipts that were never inserted stay blank.
LEMMA BlankReceipts ==
    ASSUME TypeInv, NEW r \in Requests,
           DirectiveStep(r) \/ ConfirmationStep(r) \/ GateStep(r) \/ Fail(r),
           NEW c \in Confirmations, confirmations'[c].life = "absent"
    PROVE  confirmations'[c] = confirmations[c]
  <1>1. RowStep(confirmations[c], confirmations'[c])
    <2>1. CASE Fail(r)
      BY <2>1 DEF Fail, database, RowStep
    <2> QED
      BY <2>1, DirectiveStepRows, ConfirmationStepRows, GateStepRows DEF RowSteps
  <1>2. confirmations[c] \in ConfirmationRow
    BY RowsAreRows
  <1> QED
    BY <1>1, <1>2 DEF RowStep, ConfirmationRow

\* With clients on time, every handler is punctual.
LEMMA PunctualInvHolds == ASSUME Lead = 0 PROVE Spec => []PunctualInv
  <1>1. Init /\ PersonsInv => PunctualInv
    BY DEF Init, PunctualInv, Punctual, Idle, NoConfirmation
  <1>2. PunctualInv /\ PersonsInv' /\ [Next]_vars => PunctualInv'
    <2> SUFFICES ASSUME PunctualInv, PersonsInv', [Next]_vars PROVE PunctualInv'
      OBVIOUS
    <2>1. TypeInv
      BY DEF PunctualInv, PersonsInv, SnapshotInv
    <2>2. CASE Next
      <3>1. PICK r \in Requests :
              DirectiveStep(r) \/ ConfirmationStep(r) \/ GateStep(r) \/ Fail(r)
        BY <2>2 DEF Next
      <3>2. ASSUME NEW c \in Confirmations, confirmations'[c].life = "absent"
            PROVE  confirmations'[c].status = "pending"
        BY <2>1, <3>1, <3>2, BlankReceipts DEF PunctualInv
      <3>3. ASSUME NEW s \in Requests PROVE Punctual(req'[s])
        <4>1. Punctual(req[s])
          BY DEF PunctualInv
        <4>2. CASE Finish(r)
          <5>1. Punctual(Idle)
            BY DEF Punctual, Idle
          <5> QED
            BY <2>1, <4>1, <4>2, <5>1, FinishMemory
        <4> QED
          BY <2>1, <3>1, <4>1, <4>2, BeginPunctual, ReadPunctual
          DEF DirectiveStep, ConfirmationStep, GateStep, Fail,
              InsertDirective, CommitDirectiveUpdate, CommitDirective,
              DeleteDirective, InsertConfirmation, CommitConfirmationUpdate,
              CommitOutcome, CommitCancellation, DeleteConfirmation,
              CommitGate, DeleteGate
      <3> QED
        BY <3>2, <3>3 DEF PunctualInv, Punctual
    <2>3. CASE UNCHANGED vars
      BY <2>3 DEF vars, database, PunctualInv, Punctual
    <2> QED
      BY <2>2, <2>3
  <1> QED
    BY <1>1, <1>2, PersonsInvHolds, PTL DEF Spec

-----------------------------------------------------------------------------
(***************************************************************************)
(* 6. What a transaction overwrites is what its handler checked.           *)
(***************************************************************************)

\* A live row still at the version of a snapshot is the snapshot.
LEMMA SameVersionSameRow ==
    ASSUME NEW snapshot, NEW row, Sound(snapshot, row), row.life = "live",
           row.version = snapshot.version,
           row \in GateRow \/ row \in DirectiveRow \/ row \in ConfirmationRow
    PROVE  row = snapshot
  <1>1. [row EXCEPT !.life = "live"] = row
    BY DEF GateRow, DirectiveRow, ConfirmationRow
  <1> QED
    BY <1>1 DEF Sound

\* Where a write of a punctual handler matches, the row is the handler's copy.
LEMMA DirectiveIsCopy ==
    ASSUME PunctualInv, NEW r \in Requests,
           req[r].pc \in {"commitDirectiveUpdate", "commitDirective"},
           Matches(directives[req[r].d], req[r].expected)
    PROVE  req[r].d \in Directives /\ directives[req[r].d] = req[r].dir
  <1> DEFINE q == req[r]
  <1>1. TypeInv /\ MemorySound(q) /\ Punctual(q)
    BY DEF PunctualInv, PersonsInv, SnapshotInv, SnapshotsSound
  <1>2. q.d \in Directives /\ q.dir.life = "live" /\ q.expected = q.dir.version
    BY <1>1, RequestIsChecked DEF HandlerChecked, Punctual
  <1>3. DirectiveOf(q) = q.d
    BY <1>2, CodesAssumption DEF DirectiveOf, Entities
  <1>4. Sound(q.dir, directives[q.d]) /\ directives[q.d] \in DirectiveRow
    BY <1>1, <1>2, <1>3, RowsAreRows DEF MemorySound
  <1>5. directives[q.d].life = "live" /\ directives[q.d].version = q.dir.version
    BY <1>2 DEF Matches
  <1> HIDE DEF q
  <1>6. directives[q.d] = q.dir
    BY <1>4, <1>5, SameVersionSameRow
  <1> QED
    BY <1>2, <1>6 DEF q

\* The same for receipts.
LEMMA ConfirmationIsCopy ==
    ASSUME PunctualInv, NEW r \in Requests,
           req[r].pc \in {"commitConfirmationUpdate", "commitOutcome",
                          "commitCancellation"},
           Matches(confirmations[req[r].c], req[r].expected)
    PROVE  req[r].c \in Confirmations /\ confirmations[req[r].c] = req[r].conf
  <1> DEFINE q == req[r]
  <1>1. TypeInv /\ MemorySound(q) /\ Punctual(q)
    BY DEF PunctualInv, PersonsInv, SnapshotInv, SnapshotsSound
  <1>2. q.c \in Confirmations /\ q.conf.life = "live" /\ q.expected = q.conf.version
    BY <1>1, RequestIsChecked DEF HandlerChecked, Punctual
  <1>3. Sound(q.conf, confirmations[q.c]) /\ confirmations[q.c] \in ConfirmationRow
    BY <1>1, <1>2, RowsAreRows DEF MemorySound
  <1>4. confirmations[q.c].life = "live" /\ confirmations[q.c].version = q.conf.version
    BY <1>2 DEF Matches
  <1> HIDE DEF q
  <1>5. confirmations[q.c] = q.conf
    BY <1>3, <1>4, SameVersionSameRow
  <1> QED
    BY <1>2, <1>5 DEF q

\* A receipt settles the very directive row it has read, whatever its client sent.
LEMMA OutcomeDirectiveIsCopy ==
    ASSUME SnapshotInv, NEW r \in Requests, CommitOutcome(r)
    PROVE  /\ req[r].conf.directive \in Directives
           /\ directives[req[r].conf.directive] = req[r].dir
           /\ req[r].dir.status = "executing"
  <1> DEFINE q == req[r]
             d == q.conf.directive
  <1>1. TypeInv /\ MemorySound(q)
    BY DEF SnapshotInv, SnapshotsSound
  <1>2. /\ q.d = None /\ q.dir.life = "live" /\ q.dir.status = "executing"
    BY <1>1, RequestIsChecked DEF HandlerChecked, CommitOutcome
  <1>3. DirectiveOf(q) = d
    BY <1>2 DEF DirectiveOf
  <1>4. d \in Directives /\ Sound(q.dir, directives[d])
    BY <1>1, <1>2, <1>3 DEF MemorySound
  <1>5. directives[d] \in DirectiveRow
    BY <1>1, <1>4, RowsAreRows
  <1>6. directives[d].life = "live" /\ directives[d].version = q.dir.version
    BY DEF CommitOutcome, Matches
  <1> HIDE DEF q, d
  <1>7. directives[d] = q.dir
    BY <1>4, <1>5, <1>6, SameVersionSameRow
  <1> QED
    BY <1>2, <1>4, <1>7 DEF q, d

\* A gate that a transaction settles moves along its graph from where the
\* handler had read it.
LEMMA GateSettledIsLawful ==
    ASSUME SnapshotInv, NEW q \in Request, MemorySound(q), q.g = None,
           q.gate.life = "live", NEW target, Reachable(q.gate, target),
           NEW log, GateSettled(q.dir.gate, q.gate, target, log), NEW g \in Gates
    PROVE  LawfulStep(gates[g], gates'[g], GateUnitTransitions)
  <1>1. CASE gates'[g] = gates[g]
    BY <1>1 DEF LawfulStep
  <1>2. CASE gates'[g] # gates[g]
    <2>1. /\ g = q.dir.gate /\ Matches(gates[g], q.gate.version)
          /\ q.gate.status # target
          /\ gates'[g] = [q.gate EXCEPT !.status = target, !.version = @ + 1]
      BY <1>2 DEF GateSettled, SnapshotInv, TypeInv, TypeOK
    <2>2. GateOf(q) = g
      BY <2>1 DEF GateOf
    <2>3. Sound(q.gate, gates[g]) /\ gates[g] \in GateRow
      BY <2>2, RowsAreRows DEF MemorySound, SnapshotInv
    <2>4. gates[g] = q.gate
      BY <2>1, <2>3, SameVersionSameRow DEF Matches
    <2>5. CanTransition(GateUnitTransitions, q.gate.status, target)
      BY <2>1 DEF Reachable
    <2>6. q.gate \in GateRow
      BY DEF Request
    <2> QED
      BY <2>1, <2>4, <2>5, <2>6 DEF LawfulStep, GateRow
  <1> QED
    BY <1>1, <1>2

\* What a step does to a directive: its row changes by an edit of a draft, or
\* along an edge of the graph by the person the handler checked.
LEMMA DirectivesAreLawful ==
    ASSUME PunctualInv, NEW r \in Requests,
           DirectiveStep(r) \/ ConfirmationStep(r) \/ GateStep(r) \/ Fail(r),
           NEW d \in Directives
    PROVE  /\ LawfulStep(directives[d], directives'[d], OperationDirectiveTransitions)
           /\ directives[d].status # "draft" =>
                /\ directives'[d].gate = directives[d].gate
                /\ directives'[d].goal = directives[d].goal
                /\ directives'[d].submittedBy = directives[d].submittedBy
                /\ directives[d].approvedBy \in {None, directives'[d].approvedBy}
  <1> DEFINE q == req[r]
             old == directives[d]
             new == directives'[d]
             Good == /\ LawfulStep(old, new, OperationDirectiveTransitions)
                     /\ old.status # "draft" =>
                          /\ new.gate = old.gate
                          /\ new.goal = old.goal
                          /\ new.submittedBy = old.submittedBy
                          /\ old.approvedBy \in {None, new.approvedBy}
  <1>1. /\ SnapshotInv /\ TypeInv /\ Persons(old)
        /\ directives \in [Directives -> DirectiveRow] /\ old \in DirectiveRow
    BY RowsAreRows DEF PunctualInv, PersonsInv, SnapshotInv, TypeInv, TypeOK
  <1>2. q \in Request /\ HandlerChecked(q) /\ q.dir \in DirectiveRow
    BY <1>1, RequestIsChecked DEF Request
  <1>3. CASE new = old
    BY <1>3 DEF LawfulStep
  <1>4. CASE InsertDirective(r) /\ new # old
    <2>1. old.status = "draft" /\ new.status = "draft"
      BY <1>1, <1>4 DEF InsertDirective, NoDirective, Persons
    <2> QED
      BY <2>1 DEF LawfulStep
  <1>5. CASE CommitDirectiveUpdate(r) /\ new # old
    <2>1. q.dir.status = "draft"
      BY <1>2, <1>5 DEF CommitDirectiveUpdate, HandlerChecked
    <2>2. directives[q.d] = q.dir
      BY <1>5, DirectiveIsCopy DEF CommitDirectiveUpdate
    <2>3. d = q.d /\ new = [q.dir EXCEPT !.version = q.expected + 1,
                                         !.gate = q.g, !.goal = q.goal]
      BY <1>1, <1>5 DEF CommitDirectiveUpdate
    <2>4. new.status = "draft" /\ old.status = "draft"
      BY <1>2, <2>1, <2>2, <2>3 DEF DirectiveRow
    <2> QED
      BY <2>4 DEF LawfulStep
  <1>6. CASE CommitDirective(r) /\ new # old
    <2>1. /\ CanTransition(OperationDirectiveTransitions, q.dir.status, q.target)
          /\ q.dir.life = "live"
      BY <1>2, <1>6 DEF CommitDirective, HandlerChecked
    <2>2. /\ d = q.d /\ Matches(old, q.expected)
          /\ new = Transitioned(q.dir, q.target, q.actor, q.expected + 1)
      BY <1>1, <1>6 DEF CommitDirective
    <2>3. old = q.dir
      BY <1>6, <2>2, DirectiveIsCopy DEF CommitDirective
    <2>4. old.version = q.expected
      BY <2>2 DEF Matches
    <2>5. /\ new.status = q.target /\ new.version = q.expected + 1
          /\ new.gate = q.dir.gate /\ new.goal = q.dir.goal
          /\ q.target # "pending" => new.submittedBy = q.dir.submittedBy
          /\ q.target # "approved" => new.approvedBy = q.dir.approvedBy
      BY <1>2, <2>2 DEF Transitioned, DirectiveRow
    <2>6. /\ q.target = "pending" => q.dir.status = "draft"
          /\ q.target = "approved" => q.dir.status = "pending"
      BY <2>1 DEF CanTransition, OperationDirectiveTransitions
    <2> HIDE DEF q, old, new
    <2>7. LawfulStep(old, new, OperationDirectiveTransitions)
      BY <2>1, <2>3, <2>4, <2>5 DEF LawfulStep
    <2>8. q.dir.status = "pending" => q.dir.approvedBy = None
      BY <1>1, <2>3 DEF Persons
    <2> QED
      BY <2>3, <2>5, <2>6, <2>7, <2>8 DEF old, new
  <1>7. CASE DeleteDirective(r) /\ new # old
    <2>1. new = [old EXCEPT !.life = "deleted"]
      BY <1>1, <1>7 DEF DeleteDirective
    <2> QED
      BY <1>1, <2>1 DEF LawfulStep, DirectiveRow
  <1>8. CASE CommitOutcome(r) /\ new # old
    <2>1. /\ d = q.conf.directive
          /\ new = [q.dir EXCEPT !.status = DirectiveOutcome(q.target),
                                 !.version = @ + 1]
          /\ old.life = "live"
      BY <1>1, <1>8 DEF CommitOutcome, Matches
    <2>2. old = q.dir /\ q.dir.status = "executing"
      BY <1>1, <1>8, <2>1, OutcomeDirectiveIsCopy
    <2>3. DirectiveOutcome(q.target) \in {"completed", "aborted"}
      BY DEF DirectiveOutcome
    <2>4. CanTransition(OperationDirectiveTransitions, "executing",
                        DirectiveOutcome(q.target))
      BY <2>3 DEF CanTransition, OperationDirectiveTransitions
    <2>5. /\ new.status = DirectiveOutcome(q.target)
          /\ new.version = q.dir.version + 1
          /\ new.gate = q.dir.gate /\ new.goal = q.dir.goal
          /\ new.submittedBy = q.dir.submittedBy
          /\ new.approvedBy = q.dir.approvedBy
      BY <1>2, <2>1 DEF DirectiveRow
    <2> HIDE DEF q, old, new
    <2>6. LawfulStep(old, new, OperationDirectiveTransitions)
      BY <2>1, <2>2, <2>4, <2>5 DEF LawfulStep
    <2> QED
      BY <2>2, <2>5, <2>6 DEF old, new
  <1>9. \/ new = old \/ InsertDirective(r) \/ CommitDirectiveUpdate(r)
        \/ CommitDirective(r) \/ DeleteDirective(r) \/ CommitOutcome(r)
    BY DirectiveWriters
  <1>10. Good
    BY <1>3, <1>4, <1>5, <1>6, <1>7, <1>8, <1>9
  <1> QED
    BY <1>10

\* A receipt moves along its graph.
LEMMA ConfirmationsAreLawful ==
    ASSUME PunctualInv, NEW r \in Requests,
           DirectiveStep(r) \/ ConfirmationStep(r) \/ GateStep(r) \/ Fail(r),
           NEW c \in Confirmations
    PROVE  LawfulStep(confirmations[c], confirmations'[c],
                      ExecutionConfirmationTransitions)
  <1> DEFINE q == req[r]
             old == confirmations[c]
             new == confirmations'[c]
  <1>1. /\ TypeInv
        /\ old.life = "absent" => old.status = "pending"
        /\ confirmations \in [Confirmations -> ConfirmationRow]
        /\ old \in ConfirmationRow
    BY RowsAreRows DEF PunctualInv, PersonsInv, SnapshotInv, TypeInv, TypeOK
  <1>2. q \in Request /\ HandlerChecked(q) /\ q.conf \in ConfirmationRow
    BY <1>1, RequestIsChecked DEF Request
  <1>3. CASE new = old
    BY <1>3 DEF LawfulStep
  <1>4. CASE InsertConfirmation(r) /\ new # old
    <2>1. old.status = "pending" /\ new.status = "pending"
      BY <1>1, <1>4 DEF InsertConfirmation, ReceiptFits
    <2> QED
      BY <2>1 DEF LawfulStep
  <1>5. CASE CommitConfirmationUpdate(r) /\ new # old
    <2>1. c = q.c /\ new = [q.conf EXCEPT !.version = q.expected + 1]
      BY <1>1, <1>5 DEF CommitConfirmationUpdate
    <2>2. old = q.conf
      BY <1>5, <2>1, ConfirmationIsCopy DEF CommitConfirmationUpdate
    <2> QED
      BY <1>2, <2>1, <2>2 DEF LawfulStep, ConfirmationRow
  <1>6. CASE (CommitOutcome(r) \/ CommitCancellation(r)) /\ new # old
    <2>1. /\ c = q.c /\ Matches(old, q.expected)
          /\ new = [q.conf EXCEPT !.status = q.target, !.version = q.expected + 1]
      BY <1>1, <1>6 DEF CommitOutcome, CommitCancellation
    <2>2. old = q.conf
      BY <1>6, <2>1, ConfirmationIsCopy DEF CommitOutcome, CommitCancellation
    <2>3. CanTransition(ExecutionConfirmationTransitions, q.conf.status, q.target)
      BY <1>2, <1>6 DEF CommitOutcome, CommitCancellation, HandlerChecked
    <2>4. new.status = q.target /\ new.version = q.expected + 1
      BY <1>2, <2>1 DEF ConfirmationRow
    <2> HIDE DEF q, old, new
    <2>5. LawfulStep(old, new, ExecutionConfirmationTransitions)
      BY <2>1, <2>2, <2>3, <2>4 DEF LawfulStep, Matches
    <2> QED
      BY <2>5 DEF old, new
  <1>7. CASE DeleteConfirmation(r) /\ new # old
    <2>1. new = [old EXCEPT !.life = "deleted"]
      BY <1>1, <1>7 DEF DeleteConfirmation
    <2> QED
      BY <1>1, <2>1 DEF LawfulStep, ConfirmationRow
  <1>8. \/ new = old \/ InsertConfirmation(r) \/ CommitConfirmationUpdate(r)
        \/ CommitOutcome(r) \/ CommitCancellation(r) \/ DeleteConfirmation(r)
    BY ConfirmationWriters
  <1> QED
    BY <1>3, <1>4, <1>5, <1>6, <1>7, <1>8

\* A gate moves along its graph, by hand or with a directive or its receipt.
LEMMA GatesAreLawful ==
    ASSUME PunctualInv, NEW r \in Requests,
           DirectiveStep(r) \/ ConfirmationStep(r) \/ GateStep(r) \/ Fail(r),
           NEW g \in Gates
    PROVE  LawfulStep(gates[g], gates'[g], GateUnitTransitions)
  <1> DEFINE q == req[r]
             old == gates[g]
             new == gates'[g]
  <1>1. /\ SnapshotInv /\ TypeInv /\ MemorySound(q) /\ Punctual(q)
        /\ gates \in [Gates -> GateRow] /\ old \in GateRow
    BY RowsAreRows DEF PunctualInv, PersonsInv, SnapshotInv, SnapshotsSound,
                       TypeInv, TypeOK
  <1>2. q \in Request /\ HandlerChecked(q) /\ q.gate \in GateRow
    BY <1>1, RequestIsChecked DEF Request
  <1>3. CASE new = old
    BY <1>3 DEF LawfulStep
  <1>4. CASE CommitDirective(r) /\ new # old
    <2>1. NeedsGate(q.dir, q.target)
      BY <1>4 DEF CommitDirective
    <2>2. /\ q.g = None /\ q.gate.life = "live"
          /\ Reachable(q.gate, ExecutionGateTarget(q.dir, q.gate, q.target))
      BY <1>2, <1>4, <2>1 DEF CommitDirective, HandlerChecked
    <2>3. PICK log : GateSettled(q.dir.gate, q.gate,
                       ExecutionGateTarget(q.dir, q.gate, q.target), log)
      BY <1>4, <2>1 DEF CommitDirective
    <2> HIDE DEF q
    <2> QED
      BY <1>1, <1>2, <2>2, <2>3, GateSettledIsLawful
  <1>5. CASE CommitOutcome(r)
    <2>1. /\ q.g = None /\ q.gate.life = "live"
          /\ Reachable(q.gate, GateOutcome(q.target, q.dir))
      BY <1>2, <1>5 DEF CommitOutcome, HandlerChecked
    <2>2. PICK log : GateSettled(q.dir.gate, q.gate, GateOutcome(q.target, q.dir), log)
      BY <1>5 DEF CommitOutcome
    <2> HIDE DEF q
    <2> QED
      BY <1>1, <1>2, <2>1, <2>2, GateSettledIsLawful
  <1>6. CASE CommitGate(r) /\ new # old
    <2>1. /\ g = q.g /\ Matches(old, q.expected)
          /\ new = [q.gate EXCEPT !.status = q.target, !.version = q.expected + 1]
      BY <1>1, <1>6 DEF CommitGate
    <2>2. /\ q.g \in Gates /\ q.gate.life = "live" /\ Reachable(q.gate, q.target)
          /\ q.expected = q.gate.version
      BY <1>1, <1>2, <1>6 DEF CommitGate, HandlerChecked, Punctual
    <2>3. GateOf(q) = g
      BY <2>1, <2>2, CodesAssumption DEF GateOf, Entities
    <2>4. Sound(q.gate, old)
      BY <1>1, <2>2, <2>3 DEF MemorySound
    <2>5. new.status = q.target /\ new.version = q.expected + 1
      BY <1>2, <2>1 DEF GateRow
    <2> HIDE DEF q, old, new
    <2>6. old = q.gate
      BY <1>1, <2>1, <2>2, <2>4, SameVersionSameRow DEF Matches
    <2>7. LawfulStep(old, new, GateUnitTransitions)
      BY <2>2, <2>5, <2>6 DEF LawfulStep, Reachable
    <2> QED
      BY <2>7 DEF old, new
  <1>7. CASE DeleteGate(r) /\ new # old
    <2>1. new = [old EXCEPT !.life = "deleted"]
      BY <1>1, <1>7 DEF DeleteGate
    <2> QED
      BY <1>1, <2>1 DEF LawfulStep, GateRow
  <1>8. \/ new = old \/ CommitDirective(r) \/ CommitOutcome(r)
        \/ CommitGate(r) \/ DeleteGate(r)
    BY GateWriters
  <1> QED
    BY <1>3, <1>4, <1>5, <1>6, <1>7, <1>8

\* Every commit follows the graphs, for any number of concurrent requests whose
\* clients send a version they have seen.
THEOREM Lawful == ASSUME Lead = 0 PROVE Spec => LawfulTransitions
  <1>1. PunctualInv /\ [Next]_vars => [LawfulSteps]_vars
    <2> SUFFICES ASSUME PunctualInv, Next PROVE LawfulSteps
      OBVIOUS
    <2>1. PICK r \in Requests :
            DirectiveStep(r) \/ ConfirmationStep(r) \/ GateStep(r) \/ Fail(r)
      BY DEF Next
    <2> QED
      BY <2>1, DirectivesAreLawful, ConfirmationsAreLawful, GatesAreLawful
      DEF LawfulSteps
  <1> QED
    BY <1>1, PunctualInvHolds, PTL DEF Spec, LawfulTransitions

\* What is executed is what was submitted, under the same assumption.
THEOREM Frozen == ASSUME Lead = 0 PROVE Spec => FrozenAfterSubmission
  <1>1. PunctualInv /\ [Next]_vars => [FrozenSteps]_vars
    <2> SUFFICES ASSUME PunctualInv, Next PROVE FrozenSteps
      OBVIOUS
    <2>1. PICK r \in Requests :
            DirectiveStep(r) \/ ConfirmationStep(r) \/ GateStep(r) \/ Fail(r)
      BY DEF Next
    <2> QED
      BY <2>1, DirectivesAreLawful DEF FrozenSteps
  <1> QED
    BY <1>1, PunctualInvHolds, PTL DEF Spec, FrozenAfterSubmission

-----------------------------------------------------------------------------
(***************************************************************************)
(* 7. The audit trail follows the tables.                                  *)
(***************************************************************************)

\* The part of AuditedSteps about entity e, whose row is old before and new after.
AuditedRow(e, old, new) ==
    IF new = old THEN trail'[e] = trail[e]
    ELSE /\ trail'[e].rows = trail[e].rows + 1
         /\ trail'[e].after = AuditedState(new)
         /\ new.life # "deleted" => trail'[e].before = AuditedState(old)

AuditedTables ==
    /\ \A g \in Gates : AuditedRow(g, gates[g], gates'[g])
    /\ \A d \in Directives : AuditedRow(d, directives[d], directives'[d])
    /\ \A c \in Confirmations : AuditedRow(c, confirmations[c], confirmations'[c])

\* No code names rows of two tables.
LEMMA TablesAreEntities == AuditedTables => AuditedSteps
  BY CodesAssumption DEF AuditedTables, AuditedSteps, AuditedRow, Row, Entities

\* Logging adds one row to one entity.
LEMMA LoggedEntries ==
    ASSUME NEW log \in Trails, NEW e \in Entities, NEW before, NEW after
    PROVE  /\ Logged(log, e, before, after)[e].rows = log[e].rows + 1
           /\ Logged(log, e, before, after)[e].before = before
           /\ Logged(log, e, before, after)[e].after = after
           /\ \A f \in Entities \ {e} : Logged(log, e, before, after)[f] = log[f]
  BY DEF Logged, Trails

\* A transaction that writes one gate.
LEMMA GateWritten ==
    ASSUME TypeInv, NEW g \in Gates, NEW row, row # gates[g],
           gates' = [gates EXCEPT ![g] = row], UNCHANGED <<directives, confirmations>>,
           NEW before, NEW after, trail' = Logged(trail, g, before, after),
           after = AuditedState(row),
           row.life # "deleted" => before = AuditedState(gates[g])
    PROVE  AuditedTables
  <1>1. /\ g \in Entities /\ trail \in Trails
        /\ \A h \in Gates : h # g => gates'[h] = gates[h]
        /\ gates'[g] = row
    BY RowsAreRows DEF Entities, TypeInv, TypeOK
  <1> QED
    BY <1>1, LoggedEntries, CodesAssumption DEF AuditedTables, AuditedRow, Entities

\* A transaction that writes one directive and leaves the gates alone.
LEMMA DirectiveWritten ==
    ASSUME TypeInv, NEW d \in Directives, NEW row, row # directives[d],
           directives' = [directives EXCEPT ![d] = row],
           UNCHANGED <<gates, confirmations>>,
           NEW before, NEW after, trail' = Logged(trail, d, before, after),
           after = AuditedState(row),
           row.life # "deleted" => before = AuditedState(directives[d])
    PROVE  AuditedTables
  <1>1. /\ d \in Entities /\ trail \in Trails
        /\ \A e \in Directives : e # d => directives'[e] = directives[e]
        /\ directives'[d] = row
    BY RowsAreRows DEF Entities, TypeInv, TypeOK
  <1> QED
    BY <1>1, LoggedEntries, CodesAssumption DEF AuditedTables, AuditedRow, Entities

\* A transaction that writes one receipt alone.
LEMMA ConfirmationWritten ==
    ASSUME TypeInv, NEW c \in Confirmations, NEW row, row # confirmations[c],
           confirmations' = [confirmations EXCEPT ![c] = row],
           UNCHANGED <<gates, directives>>,
           NEW before, NEW after, trail' = Logged(trail, c, before, after),
           after = AuditedState(row),
           row.life # "deleted" => before = AuditedState(confirmations[c])
    PROVE  AuditedTables
  <1>1. /\ c \in Entities /\ trail \in Trails
        /\ \A e \in Confirmations : e # c => confirmations'[e] = confirmations[e]
        /\ confirmations'[c] = row
    BY RowsAreRows DEF Entities, TypeInv, TypeOK
  <1> QED
    BY <1>1, LoggedEntries, CodesAssumption DEF AuditedTables, AuditedRow, Entities

\* A gate that another row's transaction settles is logged last.
LEMMA SettledEntries ==
    ASSUME SnapshotInv, NEW q \in Request, MemorySound(q), q.g = None,
           q.gate.life = "live", NEW target \in GateState, NEW log \in Trails,
           GateSettled(q.dir.gate, q.gate, target, log)
    PROVE  /\ \A f \in Entities \ Gates : trail'[f] = log[f]
           /\ \A h \in Gates :
                IF gates'[h] = gates[h] THEN trail'[h] = log[h]
                ELSE /\ trail'[h].rows = log[h].rows + 1
                     /\ trail'[h].after = AuditedState(gates'[h])
                     /\ trail'[h].before = AuditedState(gates[h])
  <1> DEFINE g == q.dir.gate
             row == [q.gate EXCEPT !.status = target, !.version = q.gate.version + 1]
  <1>1. CASE q.gate.status = target
    BY <1>1 DEF GateSettled
  <1>2. CASE q.gate.status # target
    <2>1. /\ GateOf(q) = g /\ Matches(gates[g], q.gate.version)
          /\ gates' = [gates EXCEPT ![g] = row]
          /\ trail' = Logged(log, g, q.gate.status, target)
      BY <1>2 DEF GateSettled, GateOf
    <2>2. g \in Gates /\ Sound(q.gate, gates[g])
      BY <2>1 DEF MemorySound
    <2>3. /\ gates \in [Gates -> GateRow] /\ gates[g] \in GateRow /\ q.gate \in GateRow
          /\ g \in Entities
      BY <2>2 DEF SnapshotInv, TypeInv, TypeOK, Request, Entities
    <2>4. gates[g] = q.gate
      <3> HIDE DEF g
      <3> QED
        BY <2>1, <2>2, <2>3, SameVersionSameRow DEF Matches
    <2>5. row.status = target /\ row.life = "live" /\ row # q.gate
      BY <1>2, <2>3 DEF GateRow
    <2> HIDE DEF row, g
    <2>6. /\ gates'[g] = row
          /\ \A h \in Gates : h # g => gates'[h] = gates[h]
      BY <2>1, <2>2, <2>3
    <2>7. /\ trail'[g].rows = log[g].rows + 1
          /\ trail'[g].before = q.gate.status /\ trail'[g].after = target
          /\ \A f \in Entities \ {g} : trail'[f] = log[f]
      BY <2>1, <2>3, LoggedEntries
    <2>8. AuditedState(row) = target /\ AuditedState(gates[g]) = q.gate.status
      BY <2>4, <2>5 DEF AuditedState
    <2> QED
      BY <2>2, <2>4, <2>5, <2>6, <2>7, <2>8 DEF Entities
  <1> QED
    BY <1>1, <1>2

\* A transition logs its directive, and the gate if it moves one.
LEMMA CommitDirectiveAudited ==
    ASSUME PunctualInv, NEW r \in Requests, CommitDirective(r)
    PROVE  AuditedTables
  <1> DEFINE q == req[r]
             d == q.d
             row == Transitioned(q.dir, q.target, q.actor, q.expected + 1)
             log == Logged(trail, d, q.dir.status, q.target)
  <1>1. SnapshotInv /\ TypeInv /\ MemorySound(q) /\ Punctual(q)
    BY DEF PunctualInv, PersonsInv, SnapshotInv, SnapshotsSound
  <1>2. /\ q \in Request /\ d \in Directives /\ directives[d] = q.dir
        /\ q.dir \in DirectiveRow /\ q.dir.life = "live"
        /\ q.target \in DirectiveState /\ q.dir.status \in DirectiveState
    BY <1>1, RequestIsChecked, DirectiveIsCopy
    DEF CommitDirective, HandlerChecked, Request, CanTransition,
        OperationDirectiveTransitions, DirectiveState
  <1>3. /\ trail \in Trails /\ d \in Entities /\ log \in Trails
    BY <1>1, <1>2, RowsAreRows, LoggedIsTrail, StatesAreAudited DEF Entities
  <1>4. /\ row.life = "live" /\ row.status = q.target /\ row.version = q.expected + 1
        /\ q.dir.version = q.expected /\ q.expected \in Nat
    BY <1>1, <1>2 DEF Transitioned, DirectiveRow, CommitDirective, Punctual
  <1>5. row # q.dir
    BY <1>4
  <1>6. /\ AuditedState(row) = q.target /\ AuditedState(q.dir) = q.dir.status
    BY <1>2, <1>4 DEF AuditedState
  <1>7. /\ directives' = [directives EXCEPT ![d] = row]
        /\ directives \in [Directives -> DirectiveRow]
        /\ UNCHANGED confirmations
    BY <1>1 DEF CommitDirective, TypeInv, TypeOK
  <1> HIDE DEF row
  <1>8. /\ log[d].rows = trail[d].rows + 1 /\ log[d].before = q.dir.status
        /\ log[d].after = q.target
        /\ \A f \in Entities \ {d} : log[f] = trail[f]
    BY <1>3, LoggedEntries
  <1>9. /\ \A f \in Entities \ Gates : trail'[f] = log[f]
        /\ \A h \in Gates :
             IF gates'[h] = gates[h] THEN trail'[h] = log[h]
             ELSE /\ trail'[h].rows = log[h].rows + 1
                  /\ trail'[h].after = AuditedState(gates'[h])
                  /\ trail'[h].before = AuditedState(gates[h])
    <2>1. CASE NeedsGate(q.dir, q.target)
      <3>1. /\ q.g = None /\ q.gate.life = "live"
            /\ ExecutionGateTarget(q.dir, q.gate, q.target) \in GateState
        BY <1>1, <1>2, <2>1, RequestIsChecked
        DEF CommitDirective, HandlerChecked, ExecutionGateTarget, GateState,
            Request, GateRow
      <3>2. GateSettled(q.dir.gate, q.gate,
                        ExecutionGateTarget(q.dir, q.gate, q.target), log)
        BY <2>1 DEF CommitDirective
      <3> HIDE DEF q, log
      <3> QED
        BY <1>1, <1>2, <1>3, <3>1, <3>2, SettledEntries
    <2>2. CASE ~ NeedsGate(q.dir, q.target)
      BY <2>2 DEF CommitDirective
    <2> QED
      BY <2>1, <2>2
  <1> HIDE DEF log, q, d
  <1>10. /\ directives'[d] = row
         /\ \A e \in Directives : e # d => directives'[e] = directives[e]
    BY <1>2, <1>7
  <1> QED
    BY <1>2, <1>5, <1>6, <1>7, <1>8, <1>9, <1>10, CodesAssumption
    DEF AuditedTables, AuditedRow, Entities

\* An outcome logs the receipt, then its directive, then the gate if it moves.
LEMMA CommitOutcomeAudited ==
    ASSUME PunctualInv, NEW r \in Requests, CommitOutcome(r)
    PROVE  AuditedTables
  <1> DEFINE q == req[r]
             c == q.c
             d == q.conf.directive
             outcome == DirectiveOutcome(q.target)
             conf == [q.conf EXCEPT !.status = q.target, !.version = q.expected + 1]
             row == [q.dir EXCEPT !.status = outcome, !.version = q.dir.version + 1]
             log1 == Logged(trail, c, q.conf.status, q.target)
             log2 == Logged(log1, d, q.dir.status, outcome)
             settled == GateOutcome(q.target, q.dir)
  <1>1. SnapshotInv /\ TypeInv /\ MemorySound(q) /\ Punctual(q)
    BY DEF PunctualInv, PersonsInv, SnapshotInv, SnapshotsSound
  <1>2. /\ q \in Request /\ HandlerChecked(q) /\ q.pc = "commitOutcome"
        /\ q.conf \in ConfirmationRow /\ q.dir \in DirectiveRow /\ q.gate \in GateRow
    BY <1>1, RequestIsChecked DEF CommitOutcome, Request
  <1>3. /\ c \in Confirmations /\ confirmations[c] = q.conf
        /\ d \in Directives /\ directives[d] = q.dir
        /\ q.conf.life = "live" /\ q.dir.life = "live" /\ q.gate.life = "live"
        /\ q.g = None
    BY <1>1, <1>2, ConfirmationIsCopy, OutcomeDirectiveIsCopy
    DEF CommitOutcome, HandlerChecked
  <1>4. /\ q.target \in ConfirmationState /\ outcome \in DirectiveState
        /\ settled \in GateState
    BY <1>2 DEF HandlerChecked, CanTransition, ExecutionConfirmationTransitions,
                ConfirmationState, DirectiveOutcome, DirectiveState, GateOutcome,
                GateState, DirectiveRow, GateGoal
  <1>5. /\ trail \in Trails /\ c \in Entities /\ d \in Entities /\ c # d
    BY <1>1, <1>3, RowsAreRows, CodesAssumption DEF Entities
  <1>6. /\ q.conf.status \in AuditState /\ q.target \in AuditState
        /\ q.dir.status \in AuditState /\ outcome \in AuditState
    BY <1>2, <1>4, StatesAreAudited DEF ConfirmationRow, DirectiveRow
  <1>7. /\ conf.life = "live" /\ conf.status = q.target /\ conf # q.conf
    <2>1. q.conf.version = q.expected /\ q.expected \in Nat
      BY <1>1, <1>2 DEF Punctual, Request
    <2>2. /\ conf.life = "live" /\ conf.status = q.target
          /\ conf.version = q.expected + 1
      BY <1>2, <1>3 DEF ConfirmationRow
    <2> HIDE DEF conf
    <2> QED
      BY <2>1, <2>2
  <1>8. /\ row.life = "live" /\ row.status = outcome /\ row # q.dir
    <2>1. /\ row.life = "live" /\ row.status = outcome
          /\ row.version = q.dir.version + 1 /\ q.dir.version \in Nat
      BY <1>2, <1>3 DEF DirectiveRow
    <2> HIDE DEF row
    <2> QED
      BY <2>1
  <1>9. /\ directives' = [directives EXCEPT ![d] = row]
        /\ directives \in [Directives -> DirectiveRow]
        /\ confirmations' = [confirmations EXCEPT ![c] = conf]
        /\ confirmations \in [Confirmations -> ConfirmationRow]
        /\ GateSettled(q.dir.gate, q.gate, settled, log2)
    BY <1>1 DEF CommitOutcome, TypeInv, TypeOK
  <1> HIDE DEF conf, row, outcome, settled, c, d
  <1>10. /\ AuditedState(conf) = q.target /\ AuditedState(q.conf) = q.conf.status
         /\ AuditedState(row) = outcome /\ AuditedState(q.dir) = q.dir.status
    BY <1>3, <1>7, <1>8 DEF AuditedState
  <1>11. /\ log1[c].rows = trail[c].rows + 1 /\ log1[c].before = q.conf.status
         /\ log1[c].after = q.target /\ log1 \in Trails
         /\ \A f \in Entities \ {c} : log1[f] = trail[f]
    BY <1>5, <1>6, LoggedEntries, LoggedIsTrail
  <1> HIDE DEF log1
  <1>12. /\ log2[d].rows = log1[d].rows + 1 /\ log2[d].before = q.dir.status
         /\ log2[d].after = outcome /\ log2 \in Trails
         /\ \A f \in Entities \ {d} : log2[f] = log1[f]
    BY <1>5, <1>6, <1>11, LoggedEntries, LoggedIsTrail
  <1> HIDE DEF log2, q
  <1>13. /\ \A f \in Entities \ Gates : trail'[f] = log2[f]
         /\ \A h \in Gates :
              IF gates'[h] = gates[h] THEN trail'[h] = log2[h]
              ELSE /\ trail'[h].rows = log2[h].rows + 1
                   /\ trail'[h].after = AuditedState(gates'[h])
                   /\ trail'[h].before = AuditedState(gates[h])
    BY <1>1, <1>2, <1>3, <1>4, <1>9, <1>12, SettledEntries
  <1>14. /\ directives'[d] = row
         /\ \A e \in Directives : e # d => directives'[e] = directives[e]
         /\ confirmations'[c] = conf
         /\ \A e \in Confirmations : e # c => confirmations'[e] = confirmations[e]
    BY <1>3, <1>9
  <1>15. \A g \in Gates : AuditedRow(g, gates[g], gates'[g])
    BY <1>3, <1>11, <1>12, <1>13, CodesAssumption DEF AuditedRow, Entities
  <1>16. \A e \in Directives : AuditedRow(e, directives[e], directives'[e])
    BY <1>3, <1>5, <1>8, <1>10, <1>11, <1>12, <1>13, <1>14, CodesAssumption
    DEF AuditedRow, Entities
  <1>17. \A e \in Confirmations : AuditedRow(e, confirmations[e], confirmations'[e])
    BY <1>3, <1>5, <1>7, <1>10, <1>11, <1>12, <1>13, <1>14, CodesAssumption
    DEF AuditedRow, Entities
  <1> QED
    BY <1>15, <1>16, <1>17 DEF AuditedTables

\* The other transactions write one row and log it.
LEMMA SingleWritesAudited ==
    ASSUME PunctualInv, NEW r \in Requests,
           \/ InsertDirective(r) \/ CommitDirectiveUpdate(r) \/ DeleteDirective(r)
           \/ InsertConfirmation(r) \/ CommitConfirmationUpdate(r)
           \/ CommitCancellation(r) \/ DeleteConfirmation(r)
           \/ CommitGate(r) \/ DeleteGate(r)
    PROVE  AuditedTables
  <1> DEFINE q == req[r]
  <1>1. SnapshotInv /\ TypeInv /\ MemorySound(q) /\ Punctual(q)
    BY DEF PunctualInv, PersonsInv, SnapshotInv, SnapshotsSound
  <1>2. /\ q \in Request /\ HandlerChecked(q) /\ q.expected \in Nat
        /\ q.conf \in ConfirmationRow /\ q.dir \in DirectiveRow /\ q.gate \in GateRow
    BY <1>1, RequestIsChecked DEF Request
  <1>3. CASE InsertDirective(r)
    <2> DEFINE row == [NoDirective EXCEPT !.life = "live", !.version = 1,
                                          !.gate = q.g, !.goal = q.goal]
    <2>1. q.d \in Directives /\ row.life = "live" /\ row.status = "draft"
      BY <1>2, <1>3 DEF InsertDirective, HandlerChecked, NoDirective
    <2>2. /\ directives[q.d].life = "absent"
          /\ directives' = [directives EXCEPT ![q.d] = row]
          /\ trail' = Logged(trail, q.d, None, "draft")
          /\ UNCHANGED <<gates, confirmations>>
      BY <1>3 DEF InsertDirective
    <2> HIDE DEF row, q
    <2> QED
      BY <1>1, <2>1, <2>2, DirectiveWritten DEF AuditedState
  <1>4. CASE CommitDirectiveUpdate(r)
    <2> DEFINE row == [q.dir EXCEPT !.version = q.expected + 1,
                                    !.gate = q.g, !.goal = q.goal]
    <2>1. /\ q.d \in Directives /\ directives[q.d] = q.dir /\ q.dir.life = "live"
          /\ q.expected = q.dir.version
      BY <1>1, <1>2, <1>4, DirectiveIsCopy
      DEF CommitDirectiveUpdate, HandlerChecked, Punctual
    <2>2. /\ row.life = "live" /\ row.status = q.dir.status
          /\ row.version = q.expected + 1
      BY <1>2, <2>1 DEF DirectiveRow
    <2>3. /\ directives' = [directives EXCEPT ![q.d] = row]
          /\ trail' = Logged(trail, q.d, q.dir.status, q.dir.status)
          /\ UNCHANGED <<gates, confirmations>>
      BY <1>4 DEF CommitDirectiveUpdate
    <2> HIDE DEF row, q
    <2>4. row # q.dir
      BY <1>2, <2>1, <2>2
    <2> QED
      BY <1>1, <2>1, <2>2, <2>3, <2>4, DirectiveWritten DEF AuditedState
  <1>5. CASE DeleteDirective(r)
    <2> DEFINE row == [directives[q.d] EXCEPT !.life = "deleted"]
    <2>1. q.d \in Directives /\ directives[q.d].life = "live"
      BY <1>2, <1>5 DEF DeleteDirective, HandlerChecked
    <2>2. row.life = "deleted"
      BY <1>1, <2>1, RowsAreRows DEF DirectiveRow
    <2>3. /\ directives' = [directives EXCEPT ![q.d] = row]
          /\ trail' = Logged(trail, q.d, q.dir.status, "deleted")
          /\ UNCHANGED <<gates, confirmations>>
      BY <1>5 DEF DeleteDirective
    <2> HIDE DEF row, q
    <2> QED
      BY <1>1, <2>1, <2>2, <2>3, DirectiveWritten DEF AuditedState
  <1>6. CASE InsertConfirmation(r)
    <2> DEFINE row == [life |-> "live", status |-> "pending", version |-> 1,
                       directive |-> q.d]
    <2>1. q.c \in Confirmations /\ confirmations[q.c].life = "absent"
      BY <1>2, <1>6 DEF InsertConfirmation, HandlerChecked, ReceiptFits
    <2>2. /\ confirmations' = [confirmations EXCEPT ![q.c] = row]
          /\ trail' = Logged(trail, q.c, None, "pending")
          /\ UNCHANGED <<gates, directives>>
          /\ row.life = "live" /\ row.status = "pending"
      BY <1>6 DEF InsertConfirmation
    <2> HIDE DEF row, q
    <2> QED
      BY <1>1, <2>1, <2>2, ConfirmationWritten DEF AuditedState
  <1>7. CASE CommitConfirmationUpdate(r)
    <2> DEFINE row == [q.conf EXCEPT !.version = q.expected + 1]
    <2>1. /\ q.c \in Confirmations /\ confirmations[q.c] = q.conf
          /\ q.conf.life = "live" /\ q.expected = q.conf.version
      BY <1>1, <1>2, <1>7, ConfirmationIsCopy
      DEF CommitConfirmationUpdate, HandlerChecked, Punctual
    <2>2. /\ row.life = "live" /\ row.status = q.conf.status
          /\ row.version = q.expected + 1
      BY <1>2, <2>1 DEF ConfirmationRow
    <2>3. /\ confirmations' = [confirmations EXCEPT ![q.c] = row]
          /\ trail' = Logged(trail, q.c, q.conf.status, q.conf.status)
          /\ UNCHANGED <<gates, directives>>
      BY <1>7 DEF CommitConfirmationUpdate
    <2> HIDE DEF row, q
    <2>4. row # q.conf
      BY <1>2, <2>1, <2>2
    <2> QED
      BY <1>1, <2>1, <2>2, <2>3, <2>4, ConfirmationWritten DEF AuditedState
  <1>8. CASE CommitCancellation(r)
    <2> DEFINE row == [q.conf EXCEPT !.status = q.target, !.version = q.expected + 1]
    <2>1. /\ q.c \in Confirmations /\ confirmations[q.c] = q.conf
          /\ q.conf.life = "live" /\ q.expected = q.conf.version
      BY <1>1, <1>2, <1>8, ConfirmationIsCopy
      DEF CommitCancellation, HandlerChecked, Punctual
    <2>2. /\ row.life = "live" /\ row.status = q.target
          /\ row.version = q.expected + 1
      BY <1>2, <2>1 DEF ConfirmationRow
    <2>3. /\ confirmations' = [confirmations EXCEPT ![q.c] = row]
          /\ trail' = Logged(trail, q.c, q.conf.status, q.target)
          /\ UNCHANGED <<gates, directives>>
      BY <1>8 DEF CommitCancellation
    <2> HIDE DEF row, q
    <2>4. row # q.conf
      BY <1>2, <2>1, <2>2
    <2> QED
      BY <1>1, <2>1, <2>2, <2>3, <2>4, ConfirmationWritten DEF AuditedState
  <1>9. CASE DeleteConfirmation(r)
    <2> DEFINE row == [confirmations[q.c] EXCEPT !.life = "deleted"]
    <2>1. q.c \in Confirmations /\ confirmations[q.c].life = "live"
      BY <1>2, <1>9 DEF DeleteConfirmation, HandlerChecked
    <2>2. row.life = "deleted"
      BY <1>1, <2>1, RowsAreRows DEF ConfirmationRow
    <2>3. /\ confirmations' = [confirmations EXCEPT ![q.c] = row]
          /\ trail' = Logged(trail, q.c, q.conf.status, "deleted")
          /\ UNCHANGED <<gates, directives>>
      BY <1>9 DEF DeleteConfirmation
    <2> HIDE DEF row, q
    <2> QED
      BY <1>1, <2>1, <2>2, <2>3, ConfirmationWritten DEF AuditedState
  <1>10. CASE CommitGate(r)
    <2> DEFINE row == [q.gate EXCEPT !.status = q.target, !.version = q.expected + 1]
    <2>1. /\ q.g \in Gates /\ q.gate.life = "live" /\ q.expected = q.gate.version
          /\ Matches(gates[q.g], q.expected)
      BY <1>1, <1>2, <1>10 DEF CommitGate, HandlerChecked, Punctual
    <2>2. Sound(q.gate, gates[q.g]) /\ gates[q.g] \in GateRow
      <3>1. GateOf(q) = q.g
        BY <2>1, CodesAssumption DEF GateOf, Entities
      <3> QED
        BY <1>1, <2>1, <3>1, RowsAreRows DEF MemorySound
    <2>3. gates[q.g] = q.gate
      <3> HIDE DEF q
      <3> QED
        BY <2>1, <2>2, SameVersionSameRow DEF Matches
    <2>4. /\ row.life = "live" /\ row.status = q.target
          /\ row.version = q.expected + 1
      BY <1>2, <2>1 DEF GateRow
    <2>5. /\ gates' = [gates EXCEPT ![q.g] = row]
          /\ trail' = Logged(trail, q.g, q.gate.status, q.target)
          /\ UNCHANGED <<directives, confirmations>>
      BY <1>10 DEF CommitGate
    <2> HIDE DEF row, q
    <2>6. row # q.gate
      BY <1>2, <2>1, <2>4
    <2> QED
      BY <1>1, <2>1, <2>3, <2>4, <2>5, <2>6, GateWritten DEF AuditedState
  <1>11. CASE DeleteGate(r)
    <2> DEFINE row == [gates[q.g] EXCEPT !.life = "deleted"]
    <2>1. q.g \in Gates /\ gates[q.g].life = "live"
      BY <1>2, <1>11 DEF DeleteGate, HandlerChecked
    <2>2. row.life = "deleted"
      BY <1>1, <2>1, RowsAreRows DEF GateRow
    <2>3. /\ gates' = [gates EXCEPT ![q.g] = row]
          /\ trail' = Logged(trail, q.g, q.gate.status, "deleted")
          /\ UNCHANGED <<directives, confirmations>>
      BY <1>11 DEF DeleteGate
    <2> HIDE DEF row, q
    <2> QED
      BY <1>1, <2>1, <2>2, <2>3, GateWritten DEF AuditedState
  <1> QED
    BY <1>3, <1>4, <1>5, <1>6, <1>7, <1>8, <1>9, <1>10, <1>11

\* The steps that commit nothing touch neither the tables nor the trail.
LEMMA Committers ==
    ASSUME NEW r \in Requests,
           DirectiveStep(r) \/ ConfirmationStep(r) \/ GateStep(r) \/ Fail(r)
    PROVE  \/ UNCHANGED database
           \/ InsertDirective(r) \/ CommitDirectiveUpdate(r) \/ CommitDirective(r)
           \/ DeleteDirective(r)
           \/ InsertConfirmation(r) \/ CommitConfirmationUpdate(r)
           \/ CommitOutcome(r) \/ CommitCancellation(r) \/ DeleteConfirmation(r)
           \/ CommitGate(r) \/ DeleteGate(r)
  BY DEF DirectiveStep, ConfirmationStep,
     GateStep, Fail, Begin, BeginDirectiveCreate, BeginDirectiveUpdate,
     BeginDirectiveTransition, BeginDirectiveDelete, ReadEditGate, ReadLinkedGate,
     BeginConfirmationCreate, CountReceipts, BeginConfirmationUpdate,
     RequireExecuting, BeginConfirmationTransition, ReadOutcomeDirective,
     ReadOutcomeGate, BeginConfirmationDelete,
     BeginGateUpdate, BeginGateTransition, BeginGateDelete

\* Whoever races with whom, a commit that changes n rows adds exactly n audit
\* rows, and each names the states its own row was and is in.
THEOREM Audited == ASSUME Lead = 0 PROVE Spec => AuditedChanges
  <1>1. PunctualInv /\ [Next]_vars => [AuditedSteps]_vars
    <2> SUFFICES ASSUME PunctualInv, Next PROVE AuditedSteps
      OBVIOUS
    <2>1. PICK r \in Requests :
            DirectiveStep(r) \/ ConfirmationStep(r) \/ GateStep(r) \/ Fail(r)
      BY DEF Next
    <2>2. CASE UNCHANGED database
      BY <2>2, TablesAreEntities DEF database, AuditedTables, AuditedRow
    <2> QED
      BY <2>1, <2>2, Committers, CommitDirectiveAudited, CommitOutcomeAudited,
         SingleWritesAudited, TablesAreEntities
  <1> QED
    BY <1>1, PunctualInvHolds, PTL DEF Spec, AuditedChanges

=============================================================================
