-------------------------- MODULE DispatchOutcomes --------------------------
(***************************************************************************)
(* What the outcomes of directives are, machine-checked for any number of  *)
(* gates, directives, receipts and users.                                  *)
(*                                                                         *)
(* First, for any number of concurrent requests whose clients send a       *)
(* version they have seen (Lead = 0): the handlers keep the promise of     *)
(* module Permits, and what follows from it for the tables.  Every         *)
(* transaction overwrites the very rows its handler holds                  *)
(* (DispatchProofs), so that what the handler checked when it read them is *)
(* true at the commit; what it checked on rows it does not write is what   *)
(* Entitled says, and that survives the steps of the others.               *)
(*                                                                         *)
(* Then, for any interleaving of the requests too: which directives are    *)
(* deleted, where the gates stand when a directive has ended, what a lock  *)
(* outlives, and that receipts and directives are settled together.        *)
(***************************************************************************)
EXTENDS DispatchProofs

permits  == [d \in Directives |-> Permit(directives[d])]
receipts == [c \in Confirmations |-> Receipt(confirmations[c])]

Kept == INSTANCE PermitsProofs WITH evidence <- approvals

\* What request q has checked and will not check again: the role its status
\* calls for, that a receipt to cancel is failed, and that the directive of a
\* new receipt was executing, which it may have left since.
Entitled(q) ==
    /\ q.pc \in {"readLinkedGate", "commitDirective"} =>
         directiveRoleAllowed(q.target, RoleOf[q.actor])
    /\ q.pc = "commitCancellation" => q.conf.status = "failed"
    /\ q.pc \in {"countReceipts", "insertConfirmation"} =>
         directives[q.d].status \in {"executing", "completed", "aborted"}

\* Rows that were never inserted are blank.
Blank ==
    /\ \A d \in Directives :
         directives[d].life = "absent" => directives[d] = NoDirective
    /\ \A c \in Confirmations :
         confirmations[c].life = "absent" => confirmations[c] = NoConfirmation

OutcomeInv ==
    /\ PunctualInv
    /\ Blank
    /\ \A r \in Requests : Entitled(req[r])
    /\ Kept!PermitInv

-----------------------------------------------------------------------------
(***************************************************************************)
(* The mapping: one written row is one changed permit or receipt.          *)
(***************************************************************************)

\* A permit is the fields of its directive.
LEMMA PermitFields ==
    ASSUME NEW row \in DirectiveRow
    PROVE  /\ Permit(row) \in Kept!PermitRow
           /\ Permit(row).life = row.life /\ Permit(row).status = row.status
           /\ Permit(row).gate = row.gate /\ Permit(row).goal = row.goal
           /\ Permit(row).submittedBy = row.submittedBy
           /\ Permit(row).approvedBy = row.approvedBy
  BY DEF DirectiveRow, Permit, Kept!PermitRow, Life, Kept!DirectiveState,
         DirectiveState, Kept!GateGoal, GateGoal

\* A receipt is the fields of its confirmation.
LEMMA ReceiptFields ==
    ASSUME NEW row \in ConfirmationRow
    PROVE  /\ Receipt(row) \in Kept!ReceiptRow
           /\ Receipt(row).life = row.life /\ Receipt(row).status = row.status
           /\ Receipt(row).directive = row.directive
  BY DEF ConfirmationRow, Receipt, Kept!ReceiptRow, Life, Kept!ConfirmationState,
         ConfirmationState

\* Which permit a written directive is.
LEMMA PermitOf ==
    ASSUME NEW row \in DirectiveRow, NEW p \in Kept!PermitRow,
           p.life = row.life, p.status = row.status, p.gate = row.gate,
           p.goal = row.goal, p.submittedBy = row.submittedBy,
           p.approvedBy = row.approvedBy
    PROVE  Permit(row) = p
  BY PermitFields DEF Kept!PermitRow

\* Which receipt a written confirmation is.
LEMMA ReceiptOf ==
    ASSUME NEW row \in ConfirmationRow, NEW p \in Kept!ReceiptRow,
           p.life = row.life, p.status = row.status, p.directive = row.directive
    PROVE  Receipt(row) = p
  BY ReceiptFields DEF Kept!ReceiptRow

\* A directive written with new fields, and the same fields written to a permit.
Relinked(row, life, version, g, goal) ==
    [row EXCEPT !.life = life, !.version = version, !.gate = g, !.goal = goal]

RelinkedPermit(p, life, g, goal) ==
    [p EXCEPT !.life = life, !.gate = g, !.goal = goal]

LEMMA RelinkingCommutes ==
    ASSUME NEW old \in DirectiveRow, NEW life \in {"live", "deleted"},
           NEW version \in Nat, NEW g \in Gates, NEW goal \in GateGoal
    PROVE  Permit(Relinked(old, life, version, g, goal))
             = RelinkedPermit(Permit(old), life, g, goal)
  <1> DEFINE row == Relinked(old, life, version, g, goal)
             p == Permit(old)
             new == RelinkedPermit(p, life, g, goal)
  <1>1. /\ row \in DirectiveRow /\ row.life = life /\ row.status = old.status
        /\ row.gate = g /\ row.goal = goal
        /\ row.submittedBy = old.submittedBy /\ row.approvedBy = old.approvedBy
    BY CodesAssumption DEF Relinked, DirectiveRow, Life, Entities
  <1>2. p \in Kept!PermitRow
    BY PermitFields
  <1> HIDE DEF p
  <1>3. /\ new \in Kept!PermitRow /\ new.life = life /\ new.status = p.status
        /\ new.gate = g /\ new.goal = goal
        /\ new.submittedBy = p.submittedBy /\ new.approvedBy = p.approvedBy
    BY <1>2 DEF RelinkedPermit, Kept!PermitRow, Kept!GateGoal, GateGoal
  <1> HIDE DEF row, new
  <1>4. Permit(row) = new
    BY <1>1, <1>3, PermitFields, PermitOf DEF p
  <1> QED
    BY <1>4 DEF row, new, p

\* A directive whose life alone is written.
LEMMA DeletedPermit ==
    ASSUME NEW old \in DirectiveRow, old.life = "live",
           NEW p \in Kept!PermitRow, p = Permit(old)
    PROVE  Permit([old EXCEPT !.life = "deleted"]) = [p EXCEPT !.life = "deleted"]
  <1> DEFINE row == [old EXCEPT !.life = "deleted"]
             new == [p EXCEPT !.life = "deleted"]
  <1>1. /\ row \in DirectiveRow /\ row.life = "deleted" /\ row.status = old.status
        /\ row.gate = old.gate /\ row.goal = old.goal
        /\ row.submittedBy = old.submittedBy /\ row.approvedBy = old.approvedBy
    BY DEF DirectiveRow, Life
  <1>2. /\ new \in Kept!PermitRow /\ new.life = "deleted" /\ new.status = p.status
        /\ new.gate = p.gate /\ new.goal = p.goal
        /\ new.submittedBy = p.submittedBy /\ new.approvedBy = p.approvedBy
    BY DEF Kept!PermitRow
  <1> HIDE DEF row, new
  <1>3. Permit(row) = new
    BY <1>1, <1>2, PermitFields, PermitOf
  <1> QED
    BY <1>3 DEF row, new

\* A directive that moves, and the names its movement records.
Moved(row, status, version, submitter, approver) ==
    [row EXCEPT !.status = status, !.version = version,
                !.submittedBy = submitter, !.approvedBy = approver]

MovedPermit(p, status, submitter, approver) ==
    [p EXCEPT !.status = status, !.submittedBy = submitter, !.approvedBy = approver]

LEMMA MovingCommutes ==
    ASSUME NEW old \in DirectiveRow, NEW status \in DirectiveState, NEW version \in Nat,
           NEW submitter \in Users \cup {None}, NEW approver \in Users \cup {None}
    PROVE  Permit(Moved(old, status, version, submitter, approver))
             = MovedPermit(Permit(old), status, submitter, approver)
  <1> DEFINE row == Moved(old, status, version, submitter, approver)
             p == Permit(old)
             new == MovedPermit(p, status, submitter, approver)
  <1>1. /\ row.life = old.life /\ row.status = status
        /\ row.gate = old.gate /\ row.goal = old.goal
        /\ row.submittedBy = submitter /\ row.approvedBy = approver
    BY DEF Moved, DirectiveRow
  <1>2. row \in DirectiveRow
    BY DEF Moved, DirectiveRow
  <1>3. p \in Kept!PermitRow
    BY PermitFields
  <1> HIDE DEF p
  <1>4. /\ new.life = p.life /\ new.status = status
        /\ new.gate = p.gate /\ new.goal = p.goal
        /\ new.submittedBy = submitter /\ new.approvedBy = approver
    BY <1>3 DEF MovedPermit, Kept!PermitRow
  <1>5. new \in Kept!PermitRow
    BY <1>3 DEF MovedPermit, Kept!PermitRow, Kept!DirectiveState, DirectiveState
  <1> HIDE DEF row, new
  <1>6. Permit(row) = new
    BY <1>1, <1>2, <1>4, <1>5, PermitFields, PermitOf DEF p
  <1> QED
    BY <1>6 DEF row, new, p

\* The two movements that record a name.
SubmittedPermit(p, u) == [p EXCEPT !.status = "pending", !.submittedBy = u]
ApprovedPermit(p, u) == [p EXCEPT !.status = "approved", !.approvedBy = u]

\* A movement that records one name, or none.
LEMMA NamesWritten ==
    ASSUME NEW p \in Kept!PermitRow, NEW status \in DirectiveState, NEW u \in Users
    PROVE  /\ MovedPermit(p, status, p.submittedBy, p.approvedBy)
                = [p EXCEPT !.status = status]
           /\ MovedPermit(p, "pending", u, p.approvedBy) = SubmittedPermit(p, u)
           /\ MovedPermit(p, "approved", p.submittedBy, u) = ApprovedPermit(p, u)
  <1> DEFINE moved == [p EXCEPT !.status = status]
             submitted == [p EXCEPT !.status = "pending", !.submittedBy = u]
             approving == [p EXCEPT !.status = "approved"]
  <1>1. /\ moved \in Kept!PermitRow /\ submitted \in Kept!PermitRow
        /\ approving \in Kept!PermitRow
    BY DEF Kept!PermitRow, Kept!DirectiveState, DirectiveState
  <1>2. /\ moved.submittedBy = p.submittedBy /\ moved.approvedBy = p.approvedBy
        /\ submitted.approvedBy = p.approvedBy
        /\ approving.submittedBy = p.submittedBy
    BY DEF Kept!PermitRow
  <1>3. [moved EXCEPT !.submittedBy = p.submittedBy] = moved
    <2> HIDE DEF moved
    <2> QED
      BY <1>1, <1>2 DEF Kept!PermitRow
  <1>4. [moved EXCEPT !.approvedBy = p.approvedBy] = moved
    <2> HIDE DEF moved
    <2> QED
      BY <1>1, <1>2 DEF Kept!PermitRow
  <1>5. [submitted EXCEPT !.approvedBy = p.approvedBy] = submitted
    <2> HIDE DEF submitted
    <2> QED
      BY <1>1, <1>2 DEF Kept!PermitRow
  <1>6. [approving EXCEPT !.submittedBy = p.submittedBy] = approving
    <2> HIDE DEF approving
    <2> QED
      BY <1>1, <1>2 DEF Kept!PermitRow
  <1> QED
    BY <1>3, <1>4, <1>5, <1>6 DEF MovedPermit, SubmittedPermit, ApprovedPermit

\* A directive that its receipt settles.
SettledRow(row, status, version) == [row EXCEPT !.status = status, !.version = version]

LEMMA SettlingCommutes ==
    ASSUME NEW old \in DirectiveRow, NEW status \in DirectiveState, NEW version \in Nat
    PROVE  Permit(SettledRow(old, status, version)) = [Permit(old) EXCEPT !.status = status]
  <1> DEFINE row == SettledRow(old, status, version)
             p == Permit(old)
             new == [p EXCEPT !.status = status]
  <1>1. /\ row.life = old.life /\ row.status = status
        /\ row.gate = old.gate /\ row.goal = old.goal
        /\ row.submittedBy = old.submittedBy /\ row.approvedBy = old.approvedBy
        /\ row \in DirectiveRow
    BY DEF SettledRow, DirectiveRow
  <1>2. p \in Kept!PermitRow
    BY PermitFields
  <1> HIDE DEF p
  <1>3. /\ new.life = p.life /\ new.status = status
        /\ new.gate = p.gate /\ new.goal = p.goal
        /\ new.submittedBy = p.submittedBy /\ new.approvedBy = p.approvedBy
        /\ new \in Kept!PermitRow
    BY <1>2 DEF Kept!PermitRow, Kept!DirectiveState, DirectiveState
  <1> HIDE DEF row, new
  <1>4. Permit(row) = new
    BY <1>1, <1>3, PermitFields, PermitOf DEF p
  <1> QED
    BY <1>4 DEF row, new, p

\* A confirmation written with a new status, and the receipt.
Answered(row, status, version) == [row EXCEPT !.status = status, !.version = version]

LEMMA AnsweringCommutes ==
    ASSUME NEW old \in ConfirmationRow, NEW status \in ConfirmationState,
           NEW version \in Nat
    PROVE  Receipt(Answered(old, status, version)) = [Receipt(old) EXCEPT !.status = status]
  <1> DEFINE row == Answered(old, status, version)
             p == Receipt(old)
             new == [p EXCEPT !.status = status]
  <1>1. /\ row.life = old.life /\ row.status = status /\ row.directive = old.directive
        /\ row \in ConfirmationRow
    BY DEF Answered, ConfirmationRow
  <1>2. p \in Kept!ReceiptRow
    BY ReceiptFields
  <1> HIDE DEF p
  <1>3. /\ new.life = p.life /\ new.status = status /\ new.directive = p.directive
        /\ new \in Kept!ReceiptRow
    BY <1>2 DEF Kept!ReceiptRow, Kept!ConfirmationState, ConfirmationState
  <1> HIDE DEF row, new
  <1>4. Receipt(row) = new
    BY <1>1, <1>3, ReceiptFields, ReceiptOf DEF p
  <1> QED
    BY <1>4 DEF row, new, p

\* A confirmation whose life alone is written.
LEMMA DeletedReceipt ==
    ASSUME NEW old \in ConfirmationRow, old.life = "live",
           NEW p \in Kept!ReceiptRow, p = Receipt(old)
    PROVE  Receipt([old EXCEPT !.life = "deleted"]) = [p EXCEPT !.life = "deleted"]
  <1> DEFINE row == [old EXCEPT !.life = "deleted"]
             new == [p EXCEPT !.life = "deleted"]
  <1>1. /\ row \in ConfirmationRow /\ row.life = "deleted" /\ row.status = old.status
        /\ row.directive = old.directive
    BY DEF ConfirmationRow, Life
  <1>2. /\ new \in Kept!ReceiptRow /\ new.life = "deleted" /\ new.status = p.status
        /\ new.directive = p.directive
    BY DEF Kept!ReceiptRow
  <1> HIDE DEF row, new
  <1>3. Receipt(row) = new
    BY <1>1, <1>2, ReceiptFields, ReceiptOf
  <1> QED
    BY <1>3 DEF row, new

\* The tables as permits and receipts.
LEMMA MappedRows ==
    ASSUME TypeInv
    PROVE  /\ permits \in [Directives -> Kept!PermitRow]
           /\ receipts \in [Confirmations -> Kept!ReceiptRow]
           /\ \A d \in Directives :
                permits[d] = Permit(directives[d]) /\ directives[d] \in DirectiveRow
           /\ \A c \in Confirmations :
                /\ receipts[c] = Receipt(confirmations[c])
                /\ confirmations[c] \in ConfirmationRow
  BY RowsAreRows, PermitFields, ReceiptFields DEF permits, receipts

\* One permit and its directive.
LEMMA PermitIsDirective ==
    ASSUME TypeInv, NEW d \in Directives
    PROVE  /\ permits[d] \in Kept!PermitRow /\ directives[d] \in DirectiveRow
           /\ permits[d].life = directives[d].life
           /\ permits[d].status = directives[d].status
           /\ permits[d].gate = directives[d].gate
           /\ permits[d].goal = directives[d].goal
           /\ permits[d].submittedBy = directives[d].submittedBy
           /\ permits[d].approvedBy = directives[d].approvedBy
  BY MappedRows, PermitFields

\* One receipt and its confirmation.
LEMMA ReceiptIsConfirmation ==
    ASSUME TypeInv, NEW c \in Confirmations
    PROVE  /\ receipts[c] \in Kept!ReceiptRow /\ confirmations[c] \in ConfirmationRow
           /\ receipts[c].life = confirmations[c].life
           /\ receipts[c].status = confirmations[c].status
           /\ receipts[c].directive = confirmations[c].directive
  BY MappedRows, ReceiptFields

\* A written directive is a changed permit.
LEMMA PermitWritten ==
    ASSUME TypeInv, NEW d \in Directives, NEW row,
           directives' = [directives EXCEPT ![d] = row]
    PROVE  permits' = [permits EXCEPT ![d] = Permit(row)]
  BY DEF permits, TypeInv, TypeOK

\* A written confirmation is a changed receipt.
LEMMA ReceiptWritten ==
    ASSUME TypeInv, NEW c \in Confirmations, NEW row,
           confirmations' = [confirmations EXCEPT ![c] = row]
    PROVE  receipts' = [receipts EXCEPT ![c] = Receipt(row)]
  BY DEF receipts, TypeInv, TypeOK

\* What a handler that is about to write knows of the tables.
LEMMA OutcomeFacts ==
    ASSUME OutcomeInv, NEW r \in Requests
    PROVE  /\ TypeInv /\ SnapshotInv /\ PunctualInv
           /\ req[r] \in Request /\ HandlerChecked(req[r])
           /\ Punctual(req[r]) /\ Entitled(req[r])
           /\ Kept!PermitInv
  BY RequestIsChecked DEF OutcomeInv, PunctualInv, PersonsInv, SnapshotInv

-----------------------------------------------------------------------------
(***************************************************************************)
(* Each transaction is one operation on permits and receipts.              *)
(***************************************************************************)

\* Creating a directive drafts a permit.
LEMMA InsertDrafts ==
    ASSUME OutcomeInv, NEW r \in Requests, InsertDirective(r)
    PROVE  Kept!Draft(req[r].d)
  <1> DEFINE q == req[r]
             old == directives[q.d]
             row == Relinked(old, "live", 1, q.g, q.goal)
             new == RelinkedPermit(permits[q.d], "live", q.g, q.goal)
  <1>1. TypeInv
    BY OutcomeFacts
  <1>2. /\ q.d \in Directives /\ q.g \in Gates /\ q.goal \in GateGoal
        /\ old.life = "absent"
    BY OutcomeFacts DEF InsertDirective, HandlerChecked, Request
  <1>3. old = NoDirective
    BY <1>2 DEF OutcomeInv, Blank
  <1>4. directives' = [directives EXCEPT ![q.d] = row]
    BY <1>3 DEF InsertDirective, Relinked
  <1>5. /\ old \in DirectiveRow /\ permits[q.d] = Permit(old)
        /\ permits[q.d] \in Kept!PermitRow /\ permits[q.d].life = "absent"
    BY <1>1, <1>2, MappedRows, PermitIsDirective
  <1>6. Permit(row) = new
    <2> HIDE DEF q, old
    <2> QED
      BY <1>2, <1>5, RelinkingCommutes
  <1>7. permits' = [permits EXCEPT ![q.d] = new]
    <2> HIDE DEF q, old, row
    <2> QED
      BY <1>1, <1>2, <1>4, <1>6, PermitWritten
  <1>8. UNCHANGED <<approvals, receipts>>
    BY DEF InsertDirective, receipts
  <1> HIDE DEF q
  <1>9. Kept!Draft(q.d)
    BY <1>2, <1>5, <1>7, <1>8 DEF Kept!Draft, RelinkedPermit, Kept!GateGoal, GateGoal
  <1> QED
    BY <1>9 DEF q

\* Editing a directive edits a draft, although the status was read before.
LEMMA UpdateEdits ==
    ASSUME OutcomeInv, NEW r \in Requests, CommitDirectiveUpdate(r)
    PROVE  Kept!Edit(req[r].d)
  <1> DEFINE q == req[r]
             old == directives[q.d]
             p == permits[q.d]
             row == Relinked(old, "live", q.expected + 1, q.g, q.goal)
  <1>1. TypeInv
    BY OutcomeFacts
  <1>2. /\ q.d \in Directives /\ q.g \in Gates /\ q.goal \in GateGoal
        /\ q.expected + 1 \in Nat
        /\ q.dir.life = "live" /\ q.dir.status = "draft"
    BY OutcomeFacts DEF CommitDirectiveUpdate, HandlerChecked, Request
  <1>3. old = q.dir
    BY OutcomeFacts, DirectiveIsCopy DEF CommitDirectiveUpdate
  <1>4. /\ old \in DirectiveRow /\ p = Permit(old) /\ p \in Kept!PermitRow
        /\ p.life = "live" /\ p.status = "draft"
        /\ permits \in [Directives -> Kept!PermitRow]
    BY <1>1, <1>2, <1>3, MappedRows, PermitIsDirective
  <1>5. directives' = [directives EXCEPT ![q.d] = row]
    <2>1. [old EXCEPT !.life = "live"] = old
      BY <1>2, <1>3, <1>4 DEF DirectiveRow
    <2> QED
      BY <1>3, <2>1 DEF CommitDirectiveUpdate, Relinked
  <1>6. Permit(row) = RelinkedPermit(p, "live", q.g, q.goal)
    <2> HIDE DEF q, old, p
    <2> QED
      BY <1>2, <1>4, RelinkingCommutes
  <1>7. [p EXCEPT !.life = "live"] = p
    BY <1>4 DEF Kept!PermitRow
  <1>8. permits' = [permits EXCEPT ![q.d] = [p EXCEPT !.gate = q.g, !.goal = q.goal]]
    <2>1. Permit(row) = [p EXCEPT !.gate = q.g, !.goal = q.goal]
      BY <1>6, <1>7 DEF RelinkedPermit
    <2> HIDE DEF q, old, row, p
    <2> QED
      BY <1>1, <1>2, <1>5, <2>1, PermitWritten
  <1>9. UNCHANGED <<approvals, receipts>>
    BY DEF CommitDirectiveUpdate, receipts
  <1> HIDE DEF q
  <1>10. Kept!Edit(q.d)
    BY <1>2, <1>4, <1>8, <1>9 DEF Kept!Edit, Kept!Live, Kept!GateGoal, GateGoal
  <1> QED
    BY <1>10 DEF q

\* Deleting a directive removes a permit, in whatever status it is by now.
LEMMA DeleteRemoves ==
    ASSUME OutcomeInv, NEW r \in Requests, DeleteDirective(r)
    PROVE  Kept!Remove(req[r].d)
  <1> DEFINE d == req[r].d
             old == directives[d]
             row == [old EXCEPT !.life = "deleted"]
             p == permits[d]
  <1>1. TypeInv
    BY OutcomeFacts
  <1>2. d \in Directives /\ old.life = "live"
    BY OutcomeFacts DEF DeleteDirective, HandlerChecked
  <1>3. /\ old \in DirectiveRow /\ p = Permit(old) /\ p \in Kept!PermitRow
        /\ p.life = "live"
    BY <1>1, <1>2, MappedRows, PermitIsDirective
  <1>4. directives' = [directives EXCEPT ![d] = row]
    BY DEF DeleteDirective
  <1>5. Permit(row) = [p EXCEPT !.life = "deleted"]
    <2> HIDE DEF old, p
    <2> QED
      BY <1>2, <1>3, DeletedPermit
  <1>6. permits' = [permits EXCEPT ![d] = [p EXCEPT !.life = "deleted"]]
    <2> HIDE DEF d, old, row, p
    <2> QED
      BY <1>1, <1>2, <1>4, <1>5, PermitWritten
  <1>7. UNCHANGED <<approvals, receipts>>
    BY DEF DeleteDirective, receipts
  <1> QED
    BY <1>3, <1>6, <1>7 DEF Kept!Remove, Kept!Live

\* A transition submits, approves, starts or aborts, with the evidence of the
\* person who did, and nobody who was not entitled to it.
LEMMA CommitMoves ==
    ASSUME OutcomeInv, NEW r \in Requests, CommitDirective(r)
    PROVE  \E d \in Directives, u \in Users :
              \/ Kept!Submit(d, u) \/ Kept!Approve(d, u)
              \/ Kept!Start(d, u) \/ Kept!Abort(d, u)
  <1> DEFINE q == req[r]
             old == directives[q.d]
             p == permits[q.d]
             submitter == IF q.target = "pending" THEN q.actor ELSE old.submittedBy
             approver == IF q.target = "approved" THEN q.actor ELSE old.approvedBy
             row == Moved(old, q.target, q.expected + 1, submitter, approver)
             rows == approvals[q.d] \cup NewApprovals(q.target, q.actor)
  <1>1. TypeInv
    BY OutcomeFacts
  <1>2. /\ q.d \in Directives /\ q.actor \in Users /\ q.expected + 1 \in Nat
        /\ q.dir.life = "live" /\ q.target # "completed"
        /\ CanTransition(OperationDirectiveTransitions, q.dir.status, q.target)
        /\ q.target = "approved" => SecondPerson(q.dir, q.actor)
        /\ directiveRoleAllowed(q.target, RoleOf[q.actor])
    BY OutcomeFacts DEF CommitDirective, HandlerChecked, Request, Entitled
  <1>3. old = q.dir
    BY OutcomeFacts, DirectiveIsCopy DEF CommitDirective
  <1>4. /\ q.target = "pending" => old.status = "draft"
        /\ q.target = "approved" => old.status = "pending"
        /\ q.target = "executing" => old.status = "approved"
        /\ q.target = "aborted" => old.status \in {"pending", "approved", "executing"}
        /\ q.target \in {"pending", "approved", "executing", "aborted"}
        /\ q.target \in DirectiveState
    BY <1>2, <1>3 DEF CanTransition, OperationDirectiveTransitions, DirectiveState
  <1>5. /\ old \in DirectiveRow /\ p = Permit(old) /\ p \in Kept!PermitRow
        /\ p.life = "live" /\ p.status = old.status
        /\ p.submittedBy = old.submittedBy /\ p.approvedBy = old.approvedBy
        /\ permits \in [Directives -> Kept!PermitRow]
    BY <1>1, <1>2, <1>3, MappedRows, PermitIsDirective
  <1>6. directives' = [directives EXCEPT ![q.d] = row]
    BY <1>3 DEF CommitDirective, Transitioned, Moved
  <1>7. Permit(row) = MovedPermit(p, q.target, submitter, approver)
    <2>1. /\ submitter \in Users \cup {None} /\ approver \in Users \cup {None}
      BY <1>2, <1>5 DEF DirectiveRow
    <2> HIDE DEF q, old, p, submitter, approver
    <2> QED
      BY <1>2, <1>4, <1>5, <2>1, MovingCommutes
  <1>8. permits' = [permits EXCEPT ![q.d] =
                      MovedPermit(p, q.target, submitter, approver)]
    <2> HIDE DEF q, old, row, p, submitter, approver
    <2> QED
      BY <1>1, <1>2, <1>6, <1>7, PermitWritten
  <1>9. approvals' = [approvals EXCEPT ![q.d] = rows] /\ UNCHANGED receipts
    BY DEF CommitDirective, receipts
  <1>10. approvals \in [Directives -> SUBSET ApprovalRow]
    BY <1>1 DEF TypeInv, TypeOK
  <1>11. Kept!directiveRoleAllowed(q.target, RoleOf[q.actor])
    BY <1>2 DEF Kept!directiveRoleAllowed, directiveRoleAllowed
  <1> HIDE DEF q, p, old, row, rows
  <1>12. CASE q.target = "pending"
    <2>1. permits' = [permits EXCEPT ![q.d] = SubmittedPermit(p, q.actor)]
      <3>1. submitter = q.actor /\ approver = p.approvedBy
        BY <1>5, <1>12
      <3> HIDE DEF submitter, approver
      <3>2. MovedPermit(p, "pending", q.actor, p.approvedBy)
              = SubmittedPermit(p, q.actor)
        BY <1>2, <1>5, NamesWritten DEF DirectiveState
      <3> QED
        BY <1>8, <1>12, <3>1, <3>2
    <2>2. rows = {[stage |-> "submitted", actor |-> q.actor]}
      <3>1. approvals[q.d] = Kept!EvidenceOf(p) /\ p.submittedBy = None
            /\ p.approvedBy = None
        BY <1>2, <1>4, <1>5, <1>12, OutcomeFacts DEF Kept!PermitInv, Kept!Unsigned, p
      <3>2. Kept!EvidenceOf(p) = {}
        BY <3>1, UsersAssumption DEF Kept!EvidenceOf, Kept!EvidenceRow
      <3> QED
        BY <1>12, <3>1, <3>2 DEF rows, NewApprovals
    <2>3. permits' = [permits EXCEPT ![q.d].status = "pending",
                                     ![q.d].submittedBy = q.actor]
      BY <1>2, <1>5, <2>1 DEF SubmittedPermit, p
    <2>4. Kept!Submit(q.d, q.actor)
      BY <1>4, <1>5, <1>9, <1>12, <1>11, <2>2, <2>3 DEF Kept!Submit, Kept!Live, p
    <2> QED
      BY <1>2, <2>4
  <1>13. CASE q.target = "approved"
    <2>1. permits' = [permits EXCEPT ![q.d] = ApprovedPermit(p, q.actor)]
      <3>1. submitter = p.submittedBy /\ approver = q.actor
        BY <1>5, <1>13
      <3> HIDE DEF submitter, approver
      <3>2. MovedPermit(p, "approved", p.submittedBy, q.actor)
              = ApprovedPermit(p, q.actor)
        BY <1>2, <1>5, NamesWritten DEF DirectiveState
      <3> QED
        BY <1>8, <1>13, <3>1, <3>2
    <2>2. rows = approvals[q.d] \cup {[stage |-> "approved", actor |-> q.actor]}
      BY <1>13 DEF rows, NewApprovals
    <2>3. Fold[q.actor] # Fold[p.submittedBy]
      BY <1>2, <1>3, <1>5, <1>13 DEF SecondPerson
    <2>4. permits' = [permits EXCEPT ![q.d].status = "approved",
                                     ![q.d].approvedBy = q.actor]
      BY <1>2, <1>5, <2>1 DEF ApprovedPermit, p
    <2>5. Kept!Approve(q.d, q.actor)
      BY <1>4, <1>5, <1>9, <1>13, <1>11, <2>2, <2>3, <2>4
      DEF Kept!Approve, Kept!Live, p
    <2> QED
      BY <1>2, <2>5
  <1>14. CASE q.target \in {"executing", "aborted"}
    <2>1. permits' = [permits EXCEPT ![q.d] = [p EXCEPT !.status = q.target]]
      <3>1. submitter = p.submittedBy /\ approver = p.approvedBy
        BY <1>5, <1>14
      <3> HIDE DEF submitter, approver
      <3>2. MovedPermit(p, q.target, p.submittedBy, p.approvedBy)
              = [p EXCEPT !.status = q.target]
        BY <1>2, <1>4, <1>5, NamesWritten
      <3> QED
        BY <1>8, <3>1, <3>2
    <2>2. UNCHANGED approvals
      BY <1>2, <1>9, <1>10, <1>14 DEF rows, NewApprovals
    <2>3. permits' = [permits EXCEPT ![q.d].status = q.target]
      BY <1>2, <1>5, <2>1 DEF p
    <2>4. Kept!Start(q.d, q.actor) \/ Kept!Abort(q.d, q.actor)
      BY <1>4, <1>5, <1>9, <1>14, <1>11, <2>2, <2>3
      DEF Kept!Start, Kept!Abort, Kept!Live, p
    <2> QED
      BY <1>2, <2>4
  <1> QED
    BY <1>4, <1>12, <1>13, <1>14

\* A new receipt finds no other one; its directive is executing or was aborted,
\* since a completed one would have had a receipt.
LEMMA InsertReceives ==
    ASSUME OutcomeInv, NEW r \in Requests, InsertConfirmation(r)
    PROVE  Kept!Receive(req[r].c, req[r].d)
  <1> DEFINE q == req[r]
             row == [life |-> "live", status |-> "pending", version |-> 1,
                     directive |-> q.d]
  <1>1. TypeInv /\ Kept!PermitInv
    BY OutcomeFacts
  <1>2. /\ q.c \in Confirmations /\ q.d \in Directives
        /\ confirmations[q.c].life = "absent"
        /\ \A other \in Confirmations : confirmations[other].directive # q.d
        /\ directives[q.d].status \in {"executing", "completed", "aborted"}
    BY OutcomeFacts DEF InsertConfirmation, ReceiptFits, HandlerChecked, Entitled
  <1>3. /\ receipts[q.c].life = "absent"
        /\ \A other \in Confirmations : receipts[other].directive # q.d
        /\ permits[q.d].status = directives[q.d].status
    BY <1>1, <1>2, ReceiptIsConfirmation, PermitIsDirective
  <1>4. permits[q.d].status # "completed"
    BY <1>1, <1>2, <1>3 DEF Kept!PermitInv, Kept!ReceiptsAgree
  <1>5. receipts' = [receipts EXCEPT ![q.c] = Receipt(row)]
    BY <1>1, <1>2, ReceiptWritten DEF InsertConfirmation
  <1>6. Receipt(row) = [life |-> "live", status |-> "pending", directive |-> q.d]
    BY DEF Receipt
  <1>7. UNCHANGED <<permits, approvals>>
    BY DEF InsertConfirmation, permits
  <1> HIDE DEF q, row
  <1>8. Kept!Receive(q.c, q.d)
    BY <1>2, <1>3, <1>4, <1>5, <1>6, <1>7 DEF Kept!Receive
  <1> QED
    BY <1>8 DEF q

\* An edited receipt is the same receipt.
LEMMA UpdateStutters ==
    ASSUME OutcomeInv, NEW r \in Requests, CommitConfirmationUpdate(r)
    PROVE  UNCHANGED <<permits, approvals, receipts>>
  <1> DEFINE q == req[r]
             row == [q.conf EXCEPT !.version = q.expected + 1]
  <1>1. TypeInv
    BY OutcomeFacts
  <1>2. q.c \in Confirmations /\ confirmations[q.c] = q.conf /\ q.conf \in ConfirmationRow
        /\ q.expected + 1 \in Nat
    BY OutcomeFacts, ConfirmationIsCopy DEF CommitConfirmationUpdate, Request
  <1>3. row.life = q.conf.life /\ row.status = q.conf.status
        /\ row.directive = q.conf.directive
    BY <1>2 DEF ConfirmationRow
  <1>4. Receipt(row) = receipts[q.c]
    BY <1>1, <1>2, <1>3, MappedRows DEF Receipt
  <1>5. receipts' = [receipts EXCEPT ![q.c] = Receipt(row)]
    BY <1>1, <1>2, ReceiptWritten DEF CommitConfirmationUpdate
  <1>6. receipts' = receipts
    <2> HIDE DEF q, row
    <2> QED
      BY <1>1, <1>2, <1>4, <1>5, MappedRows
  <1> QED
    BY <1>6 DEF CommitConfirmationUpdate, permits

\* The outcome of a pending receipt settles its permit with it.
LEMMA OutcomeSettles ==
    ASSUME OutcomeInv, NEW r \in Requests, CommitOutcome(r)
    PROVE  \E c \in Confirmations : Kept!Settle(c, "confirmed") \/ Kept!Settle(c, "failed")
  <1> DEFINE q == req[r]
             c == q.c
             d == q.conf.directive
             outcome == DirectiveOutcome(q.target)
             row == SettledRow(directives[d], outcome, q.dir.version + 1)
             conf == Answered(confirmations[c], q.target, q.expected + 1)
  <1>1. TypeInv
    BY OutcomeFacts
  <1>2. /\ c \in Confirmations /\ confirmations[c] = q.conf
        /\ q.conf.life = "live" /\ q.conf.status = "pending"
        /\ CanTransition(ExecutionConfirmationTransitions, q.conf.status, q.target)
        /\ q.expected + 1 \in Nat
    BY OutcomeFacts, ConfirmationIsCopy DEF CommitOutcome, HandlerChecked, Request
  <1>3. /\ d \in Directives /\ directives[d] = q.dir /\ q.dir.status = "executing"
        /\ q.dir.life = "live"
    BY OutcomeFacts, OutcomeDirectiveIsCopy DEF CommitOutcome, HandlerChecked
  <1>4. q.target \in {"confirmed", "failed"}
    BY <1>2 DEF CanTransition, ExecutionConfirmationTransitions
  <1>5. /\ receipts[c] \in Kept!ReceiptRow /\ receipts[c] = Receipt(confirmations[c])
        /\ receipts[c].life = "live" /\ receipts[c].status = "pending"
        /\ receipts[c].directive = d /\ confirmations[c] \in ConfirmationRow
    BY <1>1, <1>2, ReceiptIsConfirmation, MappedRows
  <1>6. /\ permits[d] \in Kept!PermitRow /\ permits[d] = Permit(directives[d])
        /\ permits[d].life = "live" /\ permits[d].status = "executing"
        /\ directives[d] \in DirectiveRow
    BY <1>1, <1>3, PermitIsDirective, MappedRows
  <1>7. /\ outcome \in DirectiveState /\ q.dir.version + 1 \in Nat
        /\ outcome = IF q.target = "confirmed" THEN "completed" ELSE "aborted"
    BY <1>3, <1>4, <1>6 DEF DirectiveOutcome, DirectiveState, DirectiveRow
  <1>8. /\ directives' = [directives EXCEPT ![d] = row]
        /\ confirmations' = [confirmations EXCEPT ![c] = conf]
        /\ UNCHANGED approvals
    BY <1>2, <1>3 DEF CommitOutcome, SettledRow, Answered
  <1>9. permits' = [permits EXCEPT ![d] = [permits[d] EXCEPT !.status = outcome]]
    <2>1. Permit(row) = [permits[d] EXCEPT !.status = outcome]
      <3> HIDE DEF d, outcome, q
      <3> QED
        BY <1>6, <1>7, SettlingCommutes
    <2> HIDE DEF d, outcome, q, row
    <2> QED
      BY <1>1, <1>3, <1>8, <2>1, PermitWritten
  <1>10. receipts' = [receipts EXCEPT ![c] = [receipts[c] EXCEPT !.status = q.target]]
    <2>1. Receipt(conf) = [receipts[c] EXCEPT !.status = q.target]
      <3>1. q.target \in ConfirmationState
        BY <1>4 DEF ConfirmationState
      <3> HIDE DEF c, q
      <3> QED
        BY <1>2, <1>5, <3>1, AnsweringCommutes
    <2> HIDE DEF c, conf
    <2> QED
      BY <1>1, <1>2, <1>8, <2>1, ReceiptWritten
  <1>11. permits' = [permits EXCEPT ![d].status = outcome]
         /\ receipts' = [receipts EXCEPT ![c].status = q.target]
    <2> HIDE DEF c, d, outcome, q
    <2> QED
      BY <1>9, <1>10
  <1>12. Kept!Settle(c, q.target)
    <2> HIDE DEF c, d, outcome, q
    <2> QED
      BY <1>5, <1>6, <1>7, <1>8, <1>11 DEF Kept!Settle, Kept!Live
  <1> QED
    BY <1>2, <1>4, <1>12

\* Only a failed receipt is cancelled.
LEMMA CancellationCancels ==
    ASSUME OutcomeInv, NEW r \in Requests, CommitCancellation(r)
    PROVE  Kept!Cancel(req[r].c)
  <1> DEFINE q == req[r]
             c == q.c
             conf == Answered(confirmations[c], q.target, q.expected + 1)
  <1>1. TypeInv
    BY OutcomeFacts
  <1>2. /\ c \in Confirmations /\ confirmations[c] = q.conf
        /\ q.conf.life = "live" /\ q.conf.status = "failed"
        /\ CanTransition(ExecutionConfirmationTransitions, q.conf.status, q.target)
        /\ q.expected + 1 \in Nat
    BY OutcomeFacts, ConfirmationIsCopy
    DEF CommitCancellation, HandlerChecked, Request, Entitled
  <1>3. q.target = "cancelled"
    BY <1>2 DEF CanTransition, ExecutionConfirmationTransitions
  <1>4. /\ receipts[c] \in Kept!ReceiptRow /\ receipts[c] = Receipt(confirmations[c])
        /\ receipts[c].life = "live" /\ receipts[c].status = "failed"
        /\ confirmations[c] \in ConfirmationRow
    BY <1>1, <1>2, ReceiptIsConfirmation, MappedRows
  <1>5. confirmations' = [confirmations EXCEPT ![c] = conf]
    BY <1>2 DEF CommitCancellation, Answered
  <1>6. receipts' = [receipts EXCEPT ![c] = [receipts[c] EXCEPT !.status = "cancelled"]]
    <2>1. Receipt(conf) = [receipts[c] EXCEPT !.status = "cancelled"]
      <3>1. q.target \in ConfirmationState
        BY <1>3 DEF ConfirmationState
      <3> HIDE DEF c, q
      <3> QED
        BY <1>2, <1>3, <1>4, <3>1, AnsweringCommutes
    <2> HIDE DEF c, conf
    <2> QED
      BY <1>1, <1>2, <1>5, <2>1, ReceiptWritten
  <1>7. UNCHANGED <<permits, approvals>>
    BY DEF CommitCancellation, permits
  <1> QED
    BY <1>4, <1>6, <1>7 DEF Kept!Cancel, Kept!Live

\* Deleting a receipt discards it.
LEMMA DeleteDiscards ==
    ASSUME OutcomeInv, NEW r \in Requests, DeleteConfirmation(r)
    PROVE  Kept!Discard(req[r].c)
  <1> DEFINE c == req[r].c
             row == [confirmations[c] EXCEPT !.life = "deleted"]
  <1>1. TypeInv
    BY OutcomeFacts
  <1>2. c \in Confirmations /\ confirmations[c].life = "live"
    BY OutcomeFacts DEF DeleteConfirmation, HandlerChecked
  <1>3. /\ receipts[c] \in Kept!ReceiptRow /\ receipts[c] = Receipt(confirmations[c])
        /\ receipts[c].life = "live" /\ confirmations[c] \in ConfirmationRow
    BY <1>1, <1>2, ReceiptIsConfirmation, MappedRows
  <1>4. confirmations' = [confirmations EXCEPT ![c] = row]
    BY DEF DeleteConfirmation
  <1>5. receipts' = [receipts EXCEPT ![c] = [receipts[c] EXCEPT !.life = "deleted"]]
    <2>1. Receipt(row) = [receipts[c] EXCEPT !.life = "deleted"]
      <3> HIDE DEF c
      <3> QED
        BY <1>2, <1>3, DeletedReceipt
    <2> HIDE DEF c, row
    <2> QED
      BY <1>1, <1>2, <1>4, <2>1, ReceiptWritten
  <1>6. UNCHANGED <<permits, approvals>>
    BY DEF DeleteConfirmation, permits
  <1> QED
    BY <1>3, <1>5, <1>6 DEF Kept!Discard, Kept!Live

\* The steps that write directives, receipts or evidence.
LEMMA StoryWriters ==
    ASSUME NEW r \in Requests,
           DirectiveStep(r) \/ ConfirmationStep(r) \/ GateStep(r) \/ Fail(r)
    PROVE  \/ UNCHANGED <<directives, confirmations, approvals>>
           \/ InsertDirective(r) \/ CommitDirectiveUpdate(r) \/ CommitDirective(r)
           \/ DeleteDirective(r)
           \/ InsertConfirmation(r) \/ CommitConfirmationUpdate(r)
           \/ CommitOutcome(r) \/ CommitCancellation(r) \/ DeleteConfirmation(r)
  BY DEF DirectiveStep, ConfirmationStep,
     GateStep, Fail, database, Begin, BeginDirectiveCreate, BeginDirectiveUpdate,
     BeginDirectiveTransition, BeginDirectiveDelete, ReadEditGate, ReadLinkedGate,
     BeginConfirmationCreate, CountReceipts, BeginConfirmationUpdate,
     RequireExecuting, BeginConfirmationTransition, ReadOutcomeDirective,
     ReadOutcomeGate, BeginConfirmationDelete,
     BeginGateUpdate, BeginGateTransition, CommitGate, BeginGateDelete, DeleteGate

\* Every step of a handler is one step of the promise, or none.
LEMMA StepsKeepPromise ==
    ASSUME OutcomeInv, NEW r \in Requests,
           DirectiveStep(r) \/ ConfirmationStep(r) \/ GateStep(r) \/ Fail(r)
    PROVE  [Kept!Next]_<<permits, approvals, receipts>>
  <1>1. CASE UNCHANGED <<directives, confirmations, approvals>>
    BY <1>1 DEF permits, receipts
  <1>2. HandlerChecked(req[r])
    BY OutcomeFacts
  <1>3. CASE InsertDirective(r)
    <2>1. req[r].d \in Directives /\ Kept!Draft(req[r].d)
      BY <1>2, <1>3, InsertDrafts DEF InsertDirective, HandlerChecked
    <2> QED
      BY <2>1 DEF Kept!Next
  <1>4. CASE CommitDirectiveUpdate(r)
    <2>1. req[r].d \in Directives /\ Kept!Edit(req[r].d)
      BY <1>2, <1>4, UpdateEdits DEF CommitDirectiveUpdate, HandlerChecked
    <2> QED
      BY <2>1 DEF Kept!Next
  <1>5. CASE CommitDirective(r)
    BY <1>5, CommitMoves DEF Kept!Next
  <1>6. CASE DeleteDirective(r)
    <2>1. req[r].d \in Directives /\ Kept!Remove(req[r].d)
      BY <1>2, <1>6, DeleteRemoves DEF DeleteDirective, HandlerChecked
    <2> QED
      BY <2>1 DEF Kept!Next
  <1>7. CASE InsertConfirmation(r)
    <2>1. /\ req[r].c \in Confirmations /\ req[r].d \in Directives
          /\ Kept!Receive(req[r].c, req[r].d)
      BY <1>2, <1>7, InsertReceives DEF InsertConfirmation, HandlerChecked
    <2> QED
      BY <2>1 DEF Kept!Next
  <1>8. CASE CommitConfirmationUpdate(r)
    BY <1>8, UpdateStutters
  <1>9. CASE CommitOutcome(r)
    BY <1>9, OutcomeSettles DEF Kept!Next
  <1>10. CASE CommitCancellation(r)
    <2>1. req[r].c \in Confirmations /\ Kept!Cancel(req[r].c)
      BY <1>2, <1>10, CancellationCancels DEF CommitCancellation, HandlerChecked
    <2> QED
      BY <2>1 DEF Kept!Next
  <1>11. CASE DeleteConfirmation(r)
    <2>1. req[r].c \in Confirmations /\ Kept!Discard(req[r].c)
      BY <1>2, <1>11, DeleteDiscards DEF DeleteConfirmation, HandlerChecked
    <2> QED
      BY <2>1 DEF Kept!Next
  <1> QED
    BY <1>1, <1>3, <1>4, <1>5, <1>6, <1>7, <1>8, <1>9, <1>10, <1>11, StoryWriters

-----------------------------------------------------------------------------
(***************************************************************************)
(* What a handler is entitled to survives the steps of the others.         *)
(***************************************************************************)

\* A directive that was executing stays past approval.
PastApproval == {"executing", "completed", "aborted"}

LEMMA PastApprovalStays ==
    ASSUME OutcomeInv, NEW r \in Requests,
           DirectiveStep(r) \/ ConfirmationStep(r) \/ GateStep(r) \/ Fail(r),
           NEW d \in Directives, directives[d].status \in PastApproval
    PROVE  directives'[d].status \in PastApproval
  <1>1. LawfulStep(directives[d], directives'[d], OperationDirectiveTransitions)
    BY DirectivesAreLawful DEF OutcomeInv
  <1> QED
    BY <1>1 DEF LawfulStep, CanTransition, OperationDirectiveTransitions, PastApproval

\* A handler that starts has checked what it is entitled to.
LEMMA BeginEntitled ==
    ASSUME OutcomeInv, NEW r \in Requests,
           \/ BeginDirectiveCreate(r) \/ BeginDirectiveUpdate(r)
           \/ BeginDirectiveTransition(r) \/ BeginDirectiveDelete(r)
           \/ BeginConfirmationCreate(r) \/ BeginConfirmationUpdate(r)
           \/ BeginConfirmationTransition(r) \/ BeginConfirmationDelete(r)
           \/ BeginGateUpdate(r) \/ BeginGateTransition(r) \/ BeginGateDelete(r),
           NEW s \in Requests
    PROVE  Entitled(req[s])'
  <1>1. req \in [Requests -> Request] /\ Entitled(req[s]) /\ TypeInv
    BY OutcomeFacts DEF TypeInv, TypeOK
  <1>2. UNCHANGED database
    BY DEF BeginDirectiveCreate, BeginDirectiveUpdate, BeginDirectiveTransition,
           BeginDirectiveDelete, BeginConfirmationCreate, BeginConfirmationUpdate,
           BeginConfirmationTransition, BeginConfirmationDelete, BeginGateUpdate,
           BeginGateTransition, BeginGateDelete, Begin
  <1>3. SUFFICES \E new : Entitled(new) /\ req' = [req EXCEPT ![r] = new]
    BY <1>1, <1>2 DEF Entitled, database
  <1>4. CASE BeginDirectiveCreate(r)
    BY <1>4 DEF BeginDirectiveCreate, Begin, Idle, Entitled
  <1>5. CASE BeginDirectiveUpdate(r)
    <2>1. PICK u \in Users, d \in Directives, g \in Gates, goal \in GateGoal :
            \E v \in ClientVersions(directives[d].version) :
               Begin(r, u, "directive.update",
                     [Idle EXCEPT !.pc = "readEditGate", !.d = d,
                                  !.dir = directives[d], !.g = g,
                                  !.goal = goal, !.expected = v])
      BY <1>5 DEF BeginDirectiveUpdate
    <2> QED
      BY <2>1 DEF Begin, Idle, Entitled
  <1>6. CASE BeginDirectiveTransition(r)
    <2>1. PICK u \in Users, d \in Directives, target \in DirectiveState,
               pc \in {"readLinkedGate", "commitDirective"} :
            /\ directiveRoleAllowed(target, RoleOf[u])
            /\ \E v \in ClientVersions(directives[d].version) :
                 Begin(r, u, "directive.transition",
                       [Idle EXCEPT !.pc = pc, !.actor = u, !.d = d,
                                    !.dir = directives[d],
                                    !.target = target, !.expected = v])
      BY <1>6 DEF BeginDirectiveTransition
    <2> QED
      BY <2>1 DEF Begin, Idle, Entitled
  <1>7. CASE BeginDirectiveDelete(r)
    BY <1>7 DEF BeginDirectiveDelete, Begin, Idle, Entitled
  <1>8. CASE BeginConfirmationCreate(r)
    BY <1>8 DEF BeginConfirmationCreate, Begin, Idle, Entitled, IsExecuting
  <1>9. CASE BeginConfirmationUpdate(r)
    <2>1. PICK u \in Users, c \in Confirmations :
            \E v \in ClientVersions(confirmations[c].version) :
               Begin(r, u, "confirmation.update",
                     [Idle EXCEPT !.pc = "requireExecuting", !.c = c,
                                  !.conf = confirmations[c], !.expected = v])
      BY <1>9 DEF BeginConfirmationUpdate
    <2> QED
      BY <2>1 DEF Begin, Idle, Entitled
  <1>10. CASE BeginConfirmationTransition(r)
    <2>1. PICK u \in Users, c \in Confirmations, target \in ConfirmationState,
               pc \in {"readOutcomeDirective", "commitCancellation"} :
            /\ CanTransition(ExecutionConfirmationTransitions,
                             confirmations[c].status, target)
            /\ pc = "commitCancellation" => confirmations[c].status # "pending"
            /\ \E v \in ClientVersions(confirmations[c].version) :
                 Begin(r, u, "confirmation.transition",
                       [Idle EXCEPT !.pc = pc, !.c = c, !.conf = confirmations[c],
                                    !.target = target, !.expected = v])
      BY <1>10 DEF BeginConfirmationTransition
    <2>2. confirmations[c].status \in {"pending", "failed"}
      BY <2>1 DEF CanTransition, ExecutionConfirmationTransitions
    <2> QED
      BY <2>1, <2>2 DEF Begin, Idle, Entitled
  <1>11. CASE BeginConfirmationDelete(r)
    BY <1>11 DEF BeginConfirmationDelete, Begin, Idle, Entitled
  <1>12. CASE BeginGateUpdate(r) \/ BeginGateTransition(r)
    <2>1. PICK u \in Users, g \in Gates, target \in GateState :
            \E v \in ClientVersions(gates[g].version) :
               \/ Begin(r, u, "gate.update",
                        [Idle EXCEPT !.pc = "commitGate", !.g = g, !.gate = gates[g],
                                     !.target = target, !.expected = v])
               \/ Begin(r, u, "gate.transition",
                        [Idle EXCEPT !.pc = "commitGate", !.g = g, !.gate = gates[g],
                                     !.target = target, !.expected = v])
      <3>1. \A g \in Gates : gates[g].status \in GateState
        BY <1>1, RowsAreRows DEF GateRow
      <3>2. CASE BeginGateUpdate(r)
        BY <3>1, <3>2 DEF BeginGateUpdate
      <3>3. CASE BeginGateTransition(r)
        BY <3>3 DEF BeginGateTransition
      <3> QED
        BY <1>12, <3>2, <3>3
    <2>2. PICK v \in ClientVersions(gates[g].version) :
            req' = [req EXCEPT ![r] =
                      [Idle EXCEPT !.pc = "commitGate", !.g = g, !.gate = gates[g],
                                   !.target = target, !.expected = v]]
      BY <2>1 DEF Begin
    <2> QED
      BY <2>2 DEF Idle, Entitled
  <1>13. CASE BeginGateDelete(r)
    BY <1>13 DEF BeginGateDelete, Begin, Idle, Entitled
  <1> QED
    BY <1>4, <1>5, <1>6, <1>7, <1>8, <1>9, <1>10, <1>11, <1>12, <1>13

\* A handler that reads on forgets nothing of it.
LEMMA ReadEntitled ==
    ASSUME OutcomeInv, NEW r \in Requests,
           \/ ReadEditGate(r) \/ ReadLinkedGate(r) \/ CountReceipts(r)
           \/ RequireExecuting(r) \/ ReadOutcomeDirective(r) \/ ReadOutcomeGate(r),
           NEW s \in Requests
    PROVE  Entitled(req[s])'
  <1>1. /\ req \in [Requests -> Request] /\ req[s] \in Request /\ Entitled(req[s])
        /\ UNCHANGED database
    BY OutcomeFacts DEF TypeInv, TypeOK, ReadEditGate, ReadLinkedGate, CountReceipts,
                        RequireExecuting, ReadOutcomeDirective, ReadOutcomeGate
  <1>2. CASE s # r
    BY <1>1, <1>2 DEF ReadEditGate, ReadLinkedGate, CountReceipts, RequireExecuting,
                      ReadOutcomeDirective, ReadOutcomeGate, Entitled, database
  <1>3. CASE s = r
    <2>1. CASE ReadEditGate(r)
      BY <1>1, <1>3, <2>1 DEF ReadEditGate, Entitled, Request, database
    <2>2. CASE ReadLinkedGate(r)
      BY <1>1, <1>3, <2>2 DEF ReadLinkedGate, Entitled, Request, database
    <2>3. CASE CountReceipts(r)
      BY <1>1, <1>3, <2>3 DEF CountReceipts, Entitled, Request, database
    <2>4. CASE RequireExecuting(r)
      BY <1>1, <1>3, <2>4 DEF RequireExecuting, Entitled, Request, database
    <2>5. CASE ReadOutcomeDirective(r)
      BY <1>1, <1>3, <2>5 DEF ReadOutcomeDirective, Entitled, Request, database
    <2>6. CASE ReadOutcomeGate(r)
      BY <1>1, <1>3, <2>6 DEF ReadOutcomeGate, Entitled, Request, database
    <2> QED
      BY <2>1, <2>2, <2>3, <2>4, <2>5, <2>6
  <1> QED
    BY <1>2, <1>3

\* A commit or a failure ends one handler and leaves the others entitled.
LEMMA FinishEntitled ==
    ASSUME OutcomeInv, NEW r \in Requests, Finish(r),
           DirectiveStep(r) \/ ConfirmationStep(r) \/ GateStep(r) \/ Fail(r),
           NEW s \in Requests
    PROVE  Entitled(req[s])'
  <1>1. CASE s = r
    <2>1. req'[s] = Idle
      BY <1>1, FinishMemory, OutcomeFacts
    <2> QED
      BY <2>1 DEF Entitled, Idle
  <1>2. CASE s # r
    <2>1. req'[s] = req[s] /\ Entitled(req[s]) /\ HandlerChecked(req[s])
      BY <1>2, FinishMemory, OutcomeFacts
    <2>2. req[s].pc \in {"countReceipts", "insertConfirmation"} =>
            req[s].d \in Directives /\ directives[req[s].d].status \in PastApproval
      BY <2>1 DEF Entitled, HandlerChecked, PastApproval
    <2>3. req[s].pc \in {"countReceipts", "insertConfirmation"} =>
            directives'[req[s].d].status \in PastApproval
      BY <2>2, PastApprovalStays
    <2> QED
      BY <2>1, <2>3 DEF Entitled, PastApproval
  <1> QED
    BY <1>1, <1>2

LEMMA NextEntitled ==
    ASSUME OutcomeInv, NEW r \in Requests,
           DirectiveStep(r) \/ ConfirmationStep(r) \/ GateStep(r) \/ Fail(r),
           NEW s \in Requests
    PROVE  Entitled(req[s])'
  <1>1. CASE Finish(r)
    BY <1>1, FinishEntitled
  <1> QED
    BY <1>1, BeginEntitled, ReadEntitled
    DEF DirectiveStep, ConfirmationStep, GateStep, Fail,
        InsertDirective, CommitDirectiveUpdate, CommitDirective, DeleteDirective,
        InsertConfirmation, CommitConfirmationUpdate, CommitOutcome,
        CommitCancellation, DeleteConfirmation, CommitGate, DeleteGate

\* Rows appear once, and never vanish.
LEMMA NextBlank ==
    ASSUME OutcomeInv, NEW r \in Requests,
           DirectiveStep(r) \/ ConfirmationStep(r) \/ GateStep(r) \/ Fail(r)
    PROVE  Blank'
  <1>1. TypeInv /\ Next
    BY OutcomeFacts DEF Next
  <1>2. RowSteps
    BY <1>1, NextRows
  <1>3. ASSUME NEW d \in Directives, directives'[d].life = "absent"
        PROVE  directives'[d] = NoDirective
    <2>1. RowStep(directives[d], directives'[d]) /\ directives[d] \in DirectiveRow
      BY <1>1, <1>2, RowsAreRows DEF RowSteps
    <2>2. directives'[d] = directives[d]
      BY <1>3, <2>1 DEF RowStep, DirectiveRow
    <2> QED
      BY <1>3, <2>2 DEF OutcomeInv, Blank
  <1>4. ASSUME NEW c \in Confirmations, confirmations'[c].life = "absent"
        PROVE  confirmations'[c] = NoConfirmation
    BY <1>1, <1>4, BlankReceipts DEF OutcomeInv, Blank
  <1> QED
    BY <1>3, <1>4 DEF Blank

-----------------------------------------------------------------------------
(***************************************************************************)
(* The invariant, and what it says of the tables.                          *)
(***************************************************************************)

\* The empty tables are the empty promise.
LEMMA InitPromise == Init => Kept!Init
  <1> SUFFICES ASSUME Init PROVE Kept!Init
    OBVIOUS
  <1>1. Permit(NoDirective) =
          [ life |-> "absent", status |-> "draft", gate |-> None, goal |-> "closed",
            submittedBy |-> None, approvedBy |-> None ]
    BY DEF Permit, NoDirective
  <1>2. Receipt(NoConfirmation) =
          [life |-> "absent", status |-> "pending", directive |-> None]
    BY DEF Receipt, NoConfirmation
  <1> QED
    BY <1>1, <1>2 DEF Init, Kept!Init, permits, receipts

LEMMA OutcomeInvHolds == ASSUME Lead = 0 PROVE Spec => []OutcomeInv
  <1>1. Init /\ PunctualInv => OutcomeInv
    <2> SUFFICES ASSUME Init, PunctualInv PROVE OutcomeInv
      OBVIOUS
    <2>1. Kept!PermitInv
      BY InitPromise, UsersAssumption, Kept!InitPermitInv
    <2>2. Blank
      BY DEF Init, Blank
    <2>3. \A r \in Requests : Entitled(req[r])
      BY DEF Init, Entitled, Idle
    <2> QED
      BY <2>1, <2>2, <2>3 DEF OutcomeInv
  <1>2. OutcomeInv /\ PunctualInv' /\ [Next]_vars => OutcomeInv'
    <2> SUFFICES ASSUME OutcomeInv, PunctualInv', [Next]_vars PROVE OutcomeInv'
      OBVIOUS
    <2>1. CASE UNCHANGED vars
      <3>1. UNCHANGED <<permits, approvals, receipts>>
        BY <2>1 DEF vars, database, permits, receipts
      <3>2. Kept!PermitInv'
        BY <3>1 DEF OutcomeInv, Kept!PermitInv, Kept!PermitTypes,
                    Kept!OneReceiptEach, Kept!ReceiptsAgree
      <3> QED
        BY <2>1, <3>2 DEF OutcomeInv, vars, database, Blank, Entitled
    <2>2. CASE Next
      <3>1. PICK r \in Requests :
              DirectiveStep(r) \/ ConfirmationStep(r) \/ GateStep(r) \/ Fail(r)
        BY <2>2 DEF Next
      <3>2. [Kept!Next]_<<permits, approvals, receipts>>
        BY <3>1, StepsKeepPromise
      <3>3. Kept!PermitInv'
        BY <3>2, CodesAssumption, UsersAssumption, Kept!NextPermitInv
        DEF OutcomeInv, Kept!vars, Entities
      <3> QED
        BY <3>1, <3>3, NextBlank, NextEntitled DEF OutcomeInv
    <2> QED
      BY <2>1, <2>2
  <1> QED
    BY <1>1, <1>2, PunctualInvHolds, PTL DEF Spec

\* Receipt and directive agree at all times, whichever handlers race: the two
\* rows are written by one transaction at versions that identify them.
THEOREM ReceiptsTellOutcomes == ASSUME Lead = 0 PROVE Spec => []OutcomeAgreement
  <1>1. OutcomeInv => OutcomeAgreement
    <2> SUFFICES ASSUME OutcomeInv PROVE OutcomeAgreement
      OBVIOUS
    <2>1. TypeInv /\ Kept!ReceiptsAgree
      BY DEF OutcomeInv, Kept!PermitInv, PunctualInv, PersonsInv, SnapshotInv
    <2>2. ASSUME NEW c \in Confirmations, confirmations[c].life # "absent"
          PROVE  /\ confirmations[c].status \in ConfirmationState
                 /\ Kept!Agrees(confirmations[c].status,
                                directives[confirmations[c].directive].status)
      <3>1. confirmations[c].directive \in Directives
        BY <2>1, <2>2, RowsAreRows DEF ConfirmationRow
      <3> QED
        BY <2>1, <2>2, <3>1, PermitIsDirective, ReceiptIsConfirmation, RowsAreRows
        DEF Kept!ReceiptsAgree, ConfirmationRow
    <2>3. ASSUME NEW d \in Directives, directives[d].status = "completed"
          PROVE  \E c \in Confirmations : /\ confirmations[c].directive = d
                                           /\ confirmations[c].status = "confirmed"
      BY <2>1, <2>3, PermitIsDirective, ReceiptIsConfirmation DEF Kept!ReceiptsAgree
    <2> QED
      BY <2>2, <2>3 DEF OutcomeAgreement, Kept!Agrees
  <1> QED
    BY <1>1, OutcomeInvHolds, PTL

\* The approval rows name the persons that the directive names, one row each.
THEOREM EvidenceMatches == ASSUME Lead = 0 PROVE Spec => []ApprovalEvidence
  <1>1. OutcomeInv => ApprovalEvidence
    <2> SUFFICES ASSUME OutcomeInv, NEW d \in Directives
                 PROVE  approvals[d] =
                          { a \in ApprovalRow :
                              a.actor = IF a.stage = "submitted"
                                        THEN directives[d].submittedBy
                                        ELSE directives[d].approvedBy }
      BY DEF ApprovalEvidence
    <2>1. TypeInv /\ approvals[d] = Kept!EvidenceOf(permits[d])
      BY DEF OutcomeInv, Kept!PermitInv, PunctualInv, PersonsInv, SnapshotInv
    <2>2. /\ permits[d].submittedBy = directives[d].submittedBy
          /\ permits[d].approvedBy = directives[d].approvedBy
      BY <2>1, PermitIsDirective
    <2> QED
      BY <2>1, <2>2 DEF Kept!EvidenceOf, Kept!EvidenceRow, ApprovalRow
  <1> QED
    BY <1>1, OutcomeInvHolds, PTL

\* Module Permits as Dispatch instantiates it is the one above.
LEMMA SamePromise ==
    /\ Kept!Init => Promise!Init
    /\ [Kept!Next]_<<permits, approvals, receipts>> => [Promise!Next]_(Promise!vars)
  BY DEF permits, receipts, Kept!Init, Promise!Init, Kept!Next, Promise!Next,
         Promise!vars, Kept!Draft, Promise!Draft, Kept!Edit, Promise!Edit,
         Kept!Remove, Promise!Remove, Kept!Submit, Promise!Submit,
         Kept!Approve, Promise!Approve, Kept!Start, Promise!Start,
         Kept!Abort, Promise!Abort, Kept!Receive, Promise!Receive,
         Kept!Settle, Promise!Settle, Kept!Cancel, Promise!Cancel,
         Kept!Discard, Promise!Discard, Kept!Live, Promise!Live,
         Kept!GateGoal, Promise!GateGoal,
         Kept!directiveRoleAllowed, Promise!directiveRoleAllowed

\* The interleaved handlers, deciding on rows they read earlier, implement permits
\* whose operations happen at one instant each.
THEOREM HandlersImplementPermits == ASSUME Lead = 0 PROVE Spec => ImplementsPermits
  <1>1. Init => Promise!Init
    BY InitPromise, SamePromise
  <1>2. OutcomeInv /\ [Next]_vars => [Promise!Next]_(Promise!vars)
    <2> SUFFICES ASSUME OutcomeInv, [Next]_vars
                 PROVE  [Promise!Next]_(Promise!vars)
      OBVIOUS
    <2>1. CASE UNCHANGED vars
      <3>1. UNCHANGED <<permits, approvals, receipts>>
        BY <2>1 DEF vars, database, permits, receipts
      <3> QED
        BY <3>1, SamePromise
    <2>2. CASE Next
      BY <2>2, StepsKeepPromise, SamePromise DEF Next
    <2> QED
      BY <2>1, <2>2
  <1> QED
    BY <1>1, <1>2, OutcomeInvHolds, PTL DEF Spec, ImplementsPermits, Promise!Spec

-----------------------------------------------------------------------------
(***************************************************************************)
(* Gates and deletions, for any number of concurrent requests.  Here a     *)
(* handler relies on rows that its transaction does not compare: a gate    *)
(* that it leaves as it read it, a directive that it deletes by id.  What  *)
(* is left to prove with is what the handler itself remembers.             *)
(***************************************************************************)

\* What request q has found out and nobody checks again: the directive it deletes
\* was a draft, the gate it starts on was not locked.
Informed(q) ==
    /\ q.pc = "deleteDirective" => q.dir.life = "live" /\ q.dir.status = "draft"
    /\ q.pc = "commitDirective" /\ q.target = "executing" => q.gate.status # "locked"

InformedInv ==
    /\ SnapshotInv
    /\ \A r \in Requests : Informed(req[r])

\* An idle handler has found out nothing.
LEMMA IdleIsInformed == Informed(Idle)
  BY DEF Informed, Idle

\* A handler's first checks.
LEMMA BeginInformed ==
    ASSUME TypeInv, NEW r \in Requests,
           \/ BeginDirectiveCreate(r) \/ BeginDirectiveUpdate(r)
           \/ BeginDirectiveTransition(r) \/ BeginDirectiveDelete(r)
           \/ BeginConfirmationCreate(r) \/ BeginConfirmationUpdate(r)
           \/ BeginConfirmationTransition(r) \/ BeginConfirmationDelete(r)
           \/ BeginGateUpdate(r) \/ BeginGateTransition(r) \/ BeginGateDelete(r),
           NEW s \in Requests, Informed(req[s])
    PROVE  Informed(req'[s])
  <1>1. req \in [Requests -> Request]
    BY DEF TypeInv, TypeOK
  <1>2. SUFFICES \E new : Informed(new) /\ req' = [req EXCEPT ![r] = new]
    BY <1>1
  <1>3. CASE BeginDirectiveCreate(r)
    BY <1>3 DEF BeginDirectiveCreate, Begin, Idle, Informed
  <1>4. CASE BeginDirectiveUpdate(r)
    <2>1. PICK u \in Users, d \in Directives, g \in Gates, goal \in GateGoal :
            \E v \in ClientVersions(directives[d].version) :
               Begin(r, u, "directive.update",
                     [Idle EXCEPT !.pc = "readEditGate", !.d = d,
                                  !.dir = directives[d], !.g = g,
                                  !.goal = goal, !.expected = v])
      BY <1>4 DEF BeginDirectiveUpdate
    <2> QED
      BY <2>1 DEF Begin, Idle, Informed
  <1>5. CASE BeginDirectiveTransition(r)
    <2>1. PICK u \in Users, d \in Directives, target \in DirectiveState,
               pc \in {"readLinkedGate", "commitDirective"} :
            /\ target = "executing" => pc = "readLinkedGate"
            /\ \E v \in ClientVersions(directives[d].version) :
                 Begin(r, u, "directive.transition",
                       [Idle EXCEPT !.pc = pc, !.actor = u, !.d = d,
                                    !.dir = directives[d],
                                    !.target = target, !.expected = v])
      BY <1>5 DEF BeginDirectiveTransition, NeedsGate
    <2> QED
      BY <2>1 DEF Begin, Idle, Informed
  <1>6. CASE BeginDirectiveDelete(r)
    BY <1>6 DEF BeginDirectiveDelete, Begin, Idle, Informed
  <1>7. CASE BeginConfirmationCreate(r)
    BY <1>7 DEF BeginConfirmationCreate, Begin, Idle, Informed
  <1>8. CASE BeginConfirmationUpdate(r)
    <2>1. PICK u \in Users, c \in Confirmations :
            \E v \in ClientVersions(confirmations[c].version) :
               Begin(r, u, "confirmation.update",
                     [Idle EXCEPT !.pc = "requireExecuting", !.c = c,
                                  !.conf = confirmations[c], !.expected = v])
      BY <1>8 DEF BeginConfirmationUpdate
    <2> QED
      BY <2>1 DEF Begin, Idle, Informed
  <1>9. CASE BeginConfirmationTransition(r)
    <2>1. PICK u \in Users, c \in Confirmations, target \in ConfirmationState,
               pc \in {"readOutcomeDirective", "commitCancellation"} :
            \E v \in ClientVersions(confirmations[c].version) :
               Begin(r, u, "confirmation.transition",
                     [Idle EXCEPT !.pc = pc, !.c = c,
                                  !.conf = confirmations[c],
                                  !.target = target, !.expected = v])
      BY <1>9 DEF BeginConfirmationTransition
    <2> QED
      BY <2>1 DEF Begin, Idle, Informed
  <1>10. CASE BeginConfirmationDelete(r)
    BY <1>10 DEF BeginConfirmationDelete, Begin, Idle, Informed
  <1>11. CASE BeginGateUpdate(r)
    BY <1>11 DEF BeginGateUpdate, Begin, Idle, Informed
  <1>12. CASE BeginGateTransition(r)
    BY <1>12 DEF BeginGateTransition, Begin, Idle, Informed
  <1>13. CASE BeginGateDelete(r)
    BY <1>13 DEF BeginGateDelete, Begin, Idle, Informed
  <1> QED
    BY <1>3, <1>4, <1>5, <1>6, <1>7, <1>8, <1>9, <1>10, <1>11, <1>12, <1>13

\* A later read: only the one of the linked gate has something to find out.
LEMMA ReadInformed ==
    ASSUME TypeInv, NEW r \in Requests,
           \/ ReadEditGate(r) \/ ReadLinkedGate(r) \/ CountReceipts(r)
           \/ RequireExecuting(r) \/ ReadOutcomeDirective(r) \/ ReadOutcomeGate(r),
           NEW s \in Requests, Informed(req[s])
    PROVE  Informed(req'[s])
  <1> DEFINE q == req[r]
             new == req'[r]
  <1>1. req \in [Requests -> Request]
    BY DEF TypeInv, TypeOK
  <1>2. CASE ReadLinkedGate(r)
    <2>1. /\ req' = [req EXCEPT ![r].pc = "commitDirective",
                                ![r].gate = gates[q.dir.gate]]
          /\ q.target = "executing" => gates[q.dir.gate].status # "locked"
      BY <1>2 DEF ReadLinkedGate
    <2>2. /\ new.pc = "commitDirective" /\ new.gate = gates[q.dir.gate]
          /\ new.target = q.target
          /\ \A other \in Requests \ {r} : req'[other] = req[other]
      BY <1>1, <2>1 DEF Request
    <2> QED
      BY <2>1, <2>2 DEF Informed
  <1>3. CASE ~ReadLinkedGate(r)
    <2>1. /\ new.pc \notin {"deleteDirective", "commitDirective"}
          /\ \A other \in Requests \ {r} : req'[other] = req[other]
      BY <1>1, <1>3 DEF ReadEditGate, CountReceipts, RequireExecuting,
         ReadOutcomeDirective, ReadOutcomeGate, Request
    <2> QED
      BY <2>1 DEF Informed
  <1> QED
    BY <1>2, <1>3

\* What handlers have found out they keep, since it is about their own memory.
LEMMA InformedInvHolds == Spec => []InformedInv
  <1>1. Init /\ SnapshotInv => InformedInv
    BY IdleIsInformed DEF Init, InformedInv
  <1>2. InformedInv /\ SnapshotInv' /\ [Next]_vars => InformedInv'
    <2> SUFFICES ASSUME InformedInv, SnapshotInv', [Next]_vars, NEW s \in Requests
                 PROVE  Informed(req'[s])
      BY DEF InformedInv, Informed
    <2>1. TypeInv /\ Informed(req[s])
      BY DEF InformedInv, SnapshotInv
    <2>2. CASE UNCHANGED vars
      BY <2>1, <2>2 DEF vars
    <2>3. CASE Next
      <3>1. PICK r \in Requests :
              DirectiveStep(r) \/ ConfirmationStep(r) \/ GateStep(r) \/ Fail(r)
        BY <2>3 DEF Next
      <3>2. CASE Finish(r)
        BY <2>1, <3>2, FinishMemory, IdleIsInformed
      <3> QED
        BY <2>1, <3>1, <3>2, BeginInformed, ReadInformed
        DEF DirectiveStep, ConfirmationStep, GateStep, Fail,
            InsertDirective, CommitDirectiveUpdate, CommitDirective, DeleteDirective,
            InsertConfirmation, CommitConfirmationUpdate, CommitOutcome,
            CommitCancellation, DeleteConfirmation, CommitGate, DeleteGate
    <2> QED
      BY <2>2, <2>3
  <1> QED
    BY <1>1, <1>2, SnapshotInvHolds, PTL DEF Spec

\* A transaction ends its request.
LEMMA CommitEnds ==
    ASSUME TypeInv, NEW r \in Requests, Finish(r), req[r].pc # "idle"
    PROVE  req'[r] # req[r]
  BY FinishMemory DEF Idle

-----------------------------------------------------------------------------
(***************************************************************************)
(* Deletions: whatever versions clients send.                              *)
(***************************************************************************)

\* Only the soft delete takes a directive away.
LEMMA OnlyDeleteDeletes ==
    ASSUME TypeInv, NEW r \in Requests,
           DirectiveStep(r) \/ ConfirmationStep(r) \/ GateStep(r) \/ Fail(r),
           NEW d \in Directives,
           directives[d].life = "live", directives'[d].life = "deleted"
    PROVE  DeleteDirective(r) /\ d = req[r].d
  <1> DEFINE q == req[r]
  <1>1. /\ directives \in [Directives -> DirectiveRow] /\ q.dir \in DirectiveRow
        /\ HandlerChecked(q)
    BY RequestIsChecked DEF TypeInv, TypeOK, Request
  <1>2. ASSUME InsertDirective(r) PROVE FALSE
    BY <1>1, <1>2 DEF InsertDirective, NoDirective
  <1>3. ASSUME CommitDirectiveUpdate(r) PROVE FALSE
    <2>1. q.dir.life = "live"
      BY <1>1, <1>3 DEF CommitDirectiveUpdate, HandlerChecked
    <2> QED
      BY <1>1, <1>3, <2>1 DEF CommitDirectiveUpdate, DirectiveRow
  <1>4. ASSUME CommitDirective(r) PROVE FALSE
    <2>1. q.dir.life = "live"
      BY <1>1, <1>4 DEF CommitDirective, HandlerChecked
    <2>2. Transitioned(q.dir, q.target, q.actor, q.expected + 1).life = "live"
      BY <1>1, <2>1 DEF Transitioned, DirectiveRow
    <2> QED
      BY <1>1, <1>4, <2>2 DEF CommitDirective
  <1>5. ASSUME CommitOutcome(r) PROVE FALSE
    <2>1. q.dir.life = "live"
      BY <1>1, <1>5 DEF CommitOutcome, HandlerChecked
    <2> QED
      BY <1>1, <1>5, <2>1 DEF CommitOutcome, DirectiveRow
  <1>6. DeleteDirective(r)
    BY <1>2, <1>3, <1>4, <1>5, DirectiveWriters
  <1> QED
    BY <1>1, <1>6 DEF DeleteDirective

\* Whoever races, and whatever version anybody sends, a deletion takes a draft, or
\* a directive that was one when the deleting request checked it and has been
\* written since.
THEOREM DeletedWereDrafts == Spec => DeletedAsDraft
  <1> DEFINE Follows ==
        \A d \in Directives :
           directives[d].life = "live" /\ directives'[d].life = "deleted" =>
              \/ directives[d].status = "draft"
              \/ \E r \in Requests :
                    /\ req[r].pc = "deleteDirective" /\ req[r].d = d
                    /\ req'[r] # req[r]
                    /\ req[r].dir.status = "draft"
                    /\ req[r].dir.version < directives[d].version
  <1>1. ASSUME InformedInv, Next PROVE Follows
    <2>1. PICK r \in Requests :
            DirectiveStep(r) \/ ConfirmationStep(r) \/ GateStep(r) \/ Fail(r)
      BY <1>1 DEF Next
    <2> SUFFICES ASSUME NEW d \in Directives, directives[d].life = "live",
                        directives'[d].life = "deleted",
                        directives[d].status # "draft"
                 PROVE  /\ req[r].pc = "deleteDirective" /\ req[r].d = d
                        /\ req'[r] # req[r]
                        /\ req[r].dir.status = "draft"
                        /\ req[r].dir.version < directives[d].version
      OBVIOUS
    <2> DEFINE q == req[r]
    <2>2. /\ TypeInv /\ MemorySound(q) /\ Informed(q) /\ q \in Request
          /\ directives[d] \in DirectiveRow /\ q.dir \in DirectiveRow
      BY <1>1, RequestIsChecked, RowsAreRows
      DEF InformedInv, SnapshotInv, SnapshotsSound, Request
    <2>3. DeleteDirective(r) /\ d = q.d /\ q.pc = "deleteDirective"
      BY <2>1, <2>2, OnlyDeleteDeletes DEF DeleteDirective
    <2>4. q.dir.life = "live" /\ q.dir.status = "draft"
      BY <2>2, <2>3 DEF Informed
    <2>5. None \notin Directives
      BY CodesAssumption DEF Entities
    <2>6. Sound(q.dir, directives[d])
      BY <2>2, <2>3, <2>4, <2>5 DEF MemorySound, DirectiveOf
    <2>7. directives[d].version # q.dir.version
      BY <2>2, <2>4, <2>6, SameVersionSameRow
    <2>8. q.dir.version < directives[d].version
      BY <2>2, <2>6, <2>7 DEF Sound, DirectiveRow
    <2>9. req'[r] # req[r]
      BY <2>2, <2>3, CommitEnds DEF DeleteDirective
    <2> QED
      BY <2>3, <2>4, <2>8, <2>9
  <1>2. InformedInv /\ [Next]_vars => [Follows]_vars
    BY <1>1
  <1> QED
    BY <1>2, InformedInvHolds, PTL DEF Spec, DeletedAsDraft

-----------------------------------------------------------------------------
(***************************************************************************)
(* Gates: for clients that send a version they have seen.                  *)
(***************************************************************************)

\* What this section needs of the rows and of the handlers' memory.
GateInv == PunctualInv /\ InformedInv

LEMMA GateInvHolds == ASSUME Lead = 0 PROVE Spec => []GateInv
  BY PunctualInvHolds, InformedInvHolds, PTL DEF GateInv

\* The status that a transaction settles the gate of its directive at.
SettledAt(r) ==
    IF req[r].pc = "commitOutcome" THEN GateOutcome(req[r].target, req[r].dir)
    ELSE ExecutionGateTarget(req[r].dir, req[r].gate, req[r].target)

\* What a transaction that settles a gate knows of it.
LEMMA SettledGate ==
    ASSUME GateInv, NEW r \in Requests,
           \/ CommitDirective(r) /\ NeedsGate(req[r].dir, req[r].target)
           \/ CommitOutcome(r)
    PROVE  /\ req[r].dir.gate \in Gates
           /\ req[r].gate \in GateRow /\ req[r].gate.life = "live"
           /\ Sound(req[r].gate, gates[req[r].dir.gate])
           /\ Reachable(req[r].gate, SettledAt(r))
           /\ \E log : GateSettled(req[r].dir.gate, req[r].gate, SettledAt(r), log)
  <1> DEFINE q == req[r]
  <1>1. TypeInv /\ MemorySound(q)
    BY DEF GateInv, InformedInv, SnapshotInv, SnapshotsSound
  <1>2. /\ HandlerChecked(q) /\ q.dir \in DirectiveRow /\ q.gate \in GateRow
    BY <1>1, RequestIsChecked DEF Request
  <1>3. /\ q.g = None /\ q.dir.life = "live" /\ q.gate.life = "live"
        /\ Reachable(q.gate, SettledAt(r))
    BY <1>2 DEF CommitDirective, CommitOutcome, HandlerChecked, SettledAt
  <1>4. q.dir.gate \in Gates
    BY <1>2, <1>3 DEF DirectiveRow
  <1>5. Sound(q.gate, gates[q.dir.gate])
    BY <1>1, <1>3 DEF MemorySound, GateOf
  <1>6. \E log : GateSettled(q.dir.gate, q.gate, SettledAt(r), log)
    BY DEF CommitDirective, CommitOutcome, SettledAt
  <1> QED
    BY <1>2, <1>3, <1>4, <1>5, <1>6

\* Settling a gate writes it, and then it was as it had been read; or it leaves
\* it alone, since it was read at the status it is to have.
LEMMA WrittenOrTrusted ==
    ASSUME TypeInv, NEW g \in Gates, NEW gate \in GateRow, gate.life = "live",
           Sound(gate, gates[g]), NEW target, NEW log,
           GateSettled(g, gate, target, log)
    PROVE  \/ /\ gates[g] = gate
              /\ gates'[g].life = "live" /\ gates'[g].status = target
              /\ \A h \in Gates \ {g} : gates'[h] = gates[h]
           \/ UNCHANGED gates /\ gate.status = target
  <1>1. gates \in [Gates -> GateRow] /\ gates[g] \in GateRow
    BY DEF TypeInv, TypeOK
  <1>2. CASE gate.status = target
    BY <1>2 DEF GateSettled
  <1>3. CASE gate.status # target
    <2>1. /\ Matches(gates[g], gate.version)
          /\ gates' = [gates EXCEPT ![g] =
                [gate EXCEPT !.status = target, !.version = @ + 1]]
      BY <1>3 DEF GateSettled
    <2>2. gates[g] = gate
      BY <1>1, <2>1, SameVersionSameRow DEF Matches
    <2> QED
      BY <1>1, <2>1, <2>2 DEF GateRow
  <1> QED
    BY <1>2, <1>3

\* So a gate is settled where it is to be, or the request was overtaken.
LEMMA SettledOrOvertaken ==
    ASSUME GateInv, NEW r \in Requests,
           \/ CommitDirective(r) /\ NeedsGate(req[r].dir, req[r].target)
           \/ CommitOutcome(r),
           NEW statuses, SettledAt(r) \in statuses,
           NEW d \in Directives, directives[d] = req[r].dir
    PROVE  GateEnds(d, statuses)
  <1> DEFINE q == req[r]
             g == q.dir.gate
  <1>1. TypeInv
    BY DEF GateInv, InformedInv, SnapshotInv
  <1>2. /\ g \in Gates /\ q.gate \in GateRow /\ q.gate.life = "live"
        /\ Sound(q.gate, gates[g])
        /\ \E log : GateSettled(g, q.gate, SettledAt(r), log)
    BY SettledGate
  <1>3. \/ gates'[g].life = "live" /\ gates'[g].status = SettledAt(r)
        \/ UNCHANGED gates /\ q.gate.status = SettledAt(r)
    BY <1>1, <1>2, WrittenOrTrusted
  <1>4. req'[r] # q /\ q.pc \in {"commitDirective", "commitOutcome"}
    BY <1>1, CommitEnds DEF CommitDirective, CommitOutcome
  <1>5. CASE gates'[g].life = "live" /\ gates'[g].status = SettledAt(r)
    BY <1>5 DEF GateEnds
  <1>6. CASE UNCHANGED gates /\ q.gate.status = SettledAt(r)
    <2>1. CASE gates[g] = q.gate
      BY <1>2, <1>6, <2>1 DEF GateEnds
    <2>2. CASE gates[g] # q.gate
      BY <1>4, <1>6, <2>2 DEF GateEnds, Overtaken
    <2> QED
      BY <2>1, <2>2
  <1> QED
    BY <1>3, <1>5, <1>6

\* The steps that move a directive past approval.
LEMMA DirectiveMovers ==
    ASSUME GateInv, NEW r \in Requests,
           DirectiveStep(r) \/ ConfirmationStep(r) \/ GateStep(r) \/ Fail(r),
           NEW d \in Directives, directives'[d].status # directives[d].status,
           directives[d].status \in {"approved", "executing"}
    PROVE  \/ /\ CommitDirective(r) /\ directives[d] = req[r].dir
              /\ req[r].pc = "commitDirective"
              /\ directives'[d].status = req[r].target /\ req[r].target # "completed"
              /\ ~CommitOutcome(r)
           \/ /\ CommitOutcome(r) /\ directives[d] = req[r].dir
              /\ req[r].pc = "commitOutcome"
              /\ directives[d].status = "executing"
              /\ directives'[d].status = DirectiveOutcome(req[r].target)
              /\ d = req[r].conf.directive
              /\ ~CommitDirective(r)
  <1> DEFINE q == req[r]
  <1>1. /\ TypeInv /\ SnapshotInv /\ PunctualInv
        /\ directives \in [Directives -> DirectiveRow]
        /\ q.dir \in DirectiveRow /\ HandlerChecked(q)
    BY RequestIsChecked DEF GateInv, InformedInv, SnapshotInv, TypeInv, TypeOK, Request
  <1>2. ASSUME InsertDirective(r) PROVE FALSE
    <2>1. /\ \A e \in Directives \ {q.d} : directives'[e] = directives[e]
          /\ directives[q.d].life = "absent"
      BY <1>1, <1>2 DEF InsertDirective
    <2>2. d = q.d
      BY <2>1
    <2>3. Persons(directives[d])
      BY DEF GateInv, PunctualInv, PersonsInv
    <2> QED
      BY <2>1, <2>2, <2>3 DEF Persons
  <1>3. ASSUME CommitDirectiveUpdate(r) PROVE FALSE
    <2>1. /\ q.d \in Directives /\ directives[q.d] = q.dir
          /\ q.dir.status = "draft"
      BY <1>1, <1>3, DirectiveIsCopy DEF CommitDirectiveUpdate, HandlerChecked
    <2>2. \A e \in Directives \ {q.d} : directives'[e] = directives[e]
      BY <1>1, <1>3 DEF CommitDirectiveUpdate
    <2> QED
      BY <2>1, <2>2
  <1>4. ASSUME DeleteDirective(r) PROVE FALSE
    BY <1>1, <1>4 DEF DeleteDirective, DirectiveRow
  <1>5. CASE CommitDirective(r)
    <2>1. /\ q.d \in Directives /\ directives[q.d] = q.dir /\ q.target # "completed"
          /\ q.pc = "commitDirective"
      BY <1>1, <1>5, DirectiveIsCopy DEF CommitDirective, HandlerChecked
    <2>2. directives' = [directives EXCEPT ![q.d] =
              Transitioned(q.dir, q.target, q.actor, q.expected + 1)]
      BY <1>5 DEF CommitDirective
    <2>3. d = q.d
      BY <1>1, <2>1, <2>2
    <2>4. Transitioned(q.dir, q.target, q.actor, q.expected + 1).status = q.target
      BY <1>1 DEF Transitioned, DirectiveRow
    <2> QED
      BY <1>1, <1>5, <2>1, <2>2, <2>3, <2>4 DEF CommitOutcome
  <1>6. CASE CommitOutcome(r)
    <2>1. /\ q.conf.directive \in Directives /\ directives[q.conf.directive] = q.dir
          /\ q.dir.status = "executing" /\ q.pc = "commitOutcome"
      BY <1>1, <1>6, OutcomeDirectiveIsCopy DEF CommitOutcome
    <2>2. directives' = [directives EXCEPT ![q.conf.directive] =
              [q.dir EXCEPT !.status = DirectiveOutcome(q.target), !.version = @ + 1]]
      BY <1>6 DEF CommitOutcome
    <2>3. d = q.conf.directive
      BY <1>1, <2>1, <2>2
    <2> QED
      BY <1>1, <1>6, <2>1, <2>2, <2>3 DEF CommitDirective, DirectiveRow
  <1> QED
    BY <1>2, <1>3, <1>4, <1>5, <1>6, DirectiveWriters

\* However its handler races, a directive that starts, completes or is aborted
\* leaves its gate where that takes it, or its handler had read the gate there and
\* was overtaken.
THEOREM GateEndsWhereWanted ==
    ASSUME Lead = 0 PROVE Spec => GateFollowsUnlessOvertaken
  <1> DEFINE Follows ==
        \A d \in Directives :
           LET goal == directives[d].goal IN
           /\ Moves(d, "approved", "executing")
                 => GateEnds(d, {"moving", goal} \ {"locked"})
           /\ Moves(d, "executing", "completed") => GateEnds(d, {goal})
           /\ Moves(d, "executing", "aborted") => GateEnds(d, {"locked"})
  <1>1. ASSUME GateInv, Next, NEW d \in Directives
        PROVE  /\ Moves(d, "approved", "executing")
                     => GateEnds(d, {"moving", directives[d].goal} \ {"locked"})
               /\ Moves(d, "executing", "completed")
                     => GateEnds(d, {directives[d].goal})
               /\ Moves(d, "executing", "aborted") => GateEnds(d, {"locked"})
    <2>1. PICK r \in Requests :
            DirectiveStep(r) \/ ConfirmationStep(r) \/ GateStep(r) \/ Fail(r)
      BY <1>1 DEF Next
    <2> DEFINE q == req[r]
    <2>2. CASE Moves(d, "approved", "executing")
      <3>1. /\ CommitDirective(r) /\ directives[d] = q.dir /\ q.target = "executing"
            /\ q.pc = "commitDirective"
        BY <1>1, <2>1, <2>2, DirectiveMovers DEF Moves
      <3>2. NeedsGate(q.dir, q.target) /\ q.gate.status # "locked"
        BY <1>1, <3>1 DEF NeedsGate, GateInv, InformedInv, Informed
      <3>3. SettledAt(r) \in {"moving", directives[d].goal} \ {"locked"}
        BY <3>1, <3>2 DEF SettledAt, ExecutionGateTarget
      <3>4. GateEnds(d, {"moving", directives[d].goal} \ {"locked"})
        BY <1>1, <3>1, <3>2, <3>3, SettledOrOvertaken
      <3> QED
        BY <2>2, <3>4 DEF Moves
    <2>3. CASE Moves(d, "executing", "completed")
      <3>1. /\ CommitOutcome(r) /\ directives[d] = q.dir /\ q.pc = "commitOutcome"
            /\ DirectiveOutcome(q.target) = "completed"
        BY <1>1, <2>1, <2>3, DirectiveMovers DEF Moves
      <3>2. SettledAt(r) \in {directives[d].goal}
        BY <3>1 DEF SettledAt, GateOutcome, DirectiveOutcome
      <3>3. GateEnds(d, {directives[d].goal})
        BY <1>1, <3>1, <3>2, SettledOrOvertaken
      <3> QED
        BY <2>3, <3>3 DEF Moves
    <2>4. CASE Moves(d, "executing", "aborted")
      <3>1. \/ /\ CommitDirective(r) /\ directives[d] = q.dir /\ q.target = "aborted"
               /\ q.pc = "commitDirective"
            \/ /\ CommitOutcome(r) /\ directives[d] = q.dir /\ q.pc = "commitOutcome"
               /\ DirectiveOutcome(q.target) = "aborted"
        BY <1>1, <2>1, <2>4, DirectiveMovers DEF Moves
      <3>2. \/ CommitDirective(r) /\ NeedsGate(q.dir, q.target)
            \/ CommitOutcome(r)
        BY <2>4, <3>1 DEF NeedsGate, Moves
      <3>3. SettledAt(r) \in {"locked"}
        BY <3>1 DEF SettledAt, GateOutcome, DirectiveOutcome, ExecutionGateTarget
      <3>4. GateEnds(d, {"locked"})
        BY <1>1, <3>1, <3>2, <3>3, SettledOrOvertaken
      <3> QED
        BY <2>4, <3>4 DEF Moves
    <2> QED
      BY <2>2, <2>3, <2>4
  <1>2. GateInv /\ [Next]_vars => [Follows]_vars
    BY <1>1
  <1> QED
    BY <1>2, GateInvHolds, PTL DEF Spec, GateFollowsUnlessOvertaken

\* What a step does to a locked gate that it leaves unlocked: it is closed, by
\* hand or by the confirmed receipt of a directive that asked for that.
LEMMA LockIsLifted ==
    ASSUME GateInv, NEW r \in Requests,
           DirectiveStep(r) \/ ConfirmationStep(r) \/ GateStep(r) \/ Fail(r),
           NEW g \in Gates, gates[g].status = "locked", gates'[g].status # "locked"
    PROVE  /\ gates'[g].status = "closed"
           /\ \A d \in Directives :
                 directives'[d] # directives[d] =>
                    /\ Moves(d, "executing", "completed")
                    /\ directives[d].gate = g
                    /\ directives[d].goal = "closed"
  <1> DEFINE q == req[r]
  <1>1. /\ TypeInv /\ SnapshotInv /\ Punctual(q) /\ MemorySound(q) /\ Informed(q)
        /\ gates \in [Gates -> GateRow] /\ gates[g] \in GateRow
    BY DEF GateInv, PunctualInv, InformedInv, SnapshotInv, SnapshotsSound, TypeInv, TypeOK
  <1>2. q \in Request /\ HandlerChecked(q) /\ q.gate \in GateRow
    BY <1>1, RequestIsChecked DEF Request
  <1>3. ASSUME NEW target, Reachable(gates[g], target), target # "locked"
        PROVE  target = "closed"
    BY <1>3 DEF Reachable, CanTransition, GateUnitTransitions
  <1>4. ASSUME \/ CommitDirective(r) /\ NeedsGate(q.dir, q.target)
               \/ CommitOutcome(r)
        PROVE  /\ g = q.dir.gate /\ gates[g] = q.gate
               /\ gates'[g].status = SettledAt(r)
               /\ Reachable(gates[g], SettledAt(r))
    <2>1. /\ q.dir.gate \in Gates /\ q.gate.life = "live"
          /\ Sound(q.gate, gates[q.dir.gate])
          /\ Reachable(q.gate, SettledAt(r))
          /\ \E log : GateSettled(q.dir.gate, q.gate, SettledAt(r), log)
      BY <1>4, SettledGate
    <2>2. /\ gates[q.dir.gate] = q.gate
          /\ gates'[q.dir.gate].status = SettledAt(r)
          /\ \A h \in Gates \ {q.dir.gate} : gates'[h] = gates[h]
      BY <1>1, <1>2, <2>1, WrittenOrTrusted
    <2> QED
      BY <2>1, <2>2
  <1>5. CASE CommitDirective(r)
    <2>1. NeedsGate(q.dir, q.target) /\ q.pc = "commitDirective"
      BY <1>5 DEF CommitDirective
    <2>2. q.gate.status = "locked" /\ SettledAt(r) # "locked"
      BY <1>4, <1>5, <2>1
    <2>3. q.target = "aborted"
      BY <1>1, <2>1, <2>2 DEF Informed, NeedsGate
    <2> QED
      BY <2>1, <2>2, <2>3 DEF SettledAt, ExecutionGateTarget
  <1>6. CASE CommitOutcome(r)
    <2>1. /\ q.pc = "commitOutcome" /\ g = q.dir.gate
          /\ gates'[g].status = SettledAt(r) /\ SettledAt(r) = "closed"
      BY <1>3, <1>4, <1>6 DEF CommitOutcome
    <2>2. q.target = "confirmed" /\ q.dir.goal = "closed"
      BY <2>1 DEF SettledAt, GateOutcome
    <2>3. /\ q.conf.directive \in Directives /\ directives[q.conf.directive] = q.dir
          /\ q.dir.status = "executing"
      BY <1>1, <1>6, OutcomeDirectiveIsCopy
    <2>4. directives' = [directives EXCEPT ![q.conf.directive] =
              [q.dir EXCEPT !.status = DirectiveOutcome(q.target), !.version = @ + 1]]
      BY <1>6 DEF CommitOutcome
    <2>5. /\ directives \in [Directives -> DirectiveRow] /\ q.dir \in DirectiveRow
          /\ DirectiveOutcome(q.target) = "completed"
      BY <1>1, <1>2, <2>2 DEF TypeInv, TypeOK, Request, DirectiveOutcome
    <2>6. ASSUME NEW d \in Directives, directives'[d] # directives[d]
          PROVE  /\ directives[d] = q.dir
                 /\ directives'[d].status = "completed"
      BY <2>3, <2>4, <2>5, <2>6 DEF DirectiveRow
    <2> QED
      BY <2>1, <2>2, <2>3, <2>6 DEF Moves
  <1>7. CASE CommitGate(r)
    <2>1. /\ g = q.g /\ UNCHANGED directives
          /\ gates'[g] = [q.gate EXCEPT !.status = q.target, !.version = q.expected + 1]
          /\ q.pc = "commitGate" /\ Matches(gates[g], q.expected)
      BY <1>1, <1>7 DEF CommitGate
    <2>2. /\ q.g \in Gates /\ q.gate.life = "live" /\ Reachable(q.gate, q.target)
          /\ q.expected = q.gate.version
      BY <1>1, <1>2, <2>1 DEF HandlerChecked, Punctual
    <2>3. Sound(q.gate, gates[g])
      BY <1>1, <2>1, <2>2, CodesAssumption DEF MemorySound, GateOf, Entities
    <2>4. gates[g] = q.gate
      BY <1>1, <2>1, <2>2, <2>3, SameVersionSameRow DEF Matches
    <2>5. gates'[g].status = q.target
      BY <1>2, <2>1 DEF GateRow
    <2> QED
      BY <1>3, <2>1, <2>2, <2>4, <2>5
  <1>8. CASE DeleteGate(r)
    BY <1>1, <1>8 DEF DeleteGate, GateRow
  <1> QED
    BY <1>5, <1>6, <1>7, <1>8, GateWriters

\* However requests race, a lock survives start, abort and failure of the
\* directives on its gate; it is lifted by hand, or by a confirmed receipt whose
\* directive wanted the gate closed.
THEOREM LockStays == ASSUME Lead = 0 PROVE Spec => LockOutlivesFailure
  <1> DEFINE Follows ==
        \A g \in Gates :
           gates[g].status = "locked" /\ gates'[g].status # "locked" =>
              /\ gates'[g].status = "closed"
              /\ \A d \in Directives :
                    directives'[d] # directives[d] =>
                       /\ Moves(d, "executing", "completed")
                       /\ directives[d].gate = g
                       /\ directives[d].goal = "closed"
  <1>1. GateInv /\ [Next]_vars => [Follows]_vars
    BY LockIsLifted DEF Next
  <1> QED
    BY <1>1, GateInvHolds, PTL DEF Spec, LockOutlivesFailure

\* However requests race, a receipt leaves pending only in the commit that takes its
\* directive from executing to the outcome the receipt tells.
THEOREM ReceiptsSettleDirectives == ASSUME Lead = 0 PROVE Spec => SettleTogether
  <1> DEFINE Follows ==
        \A c \in Confirmations :
           LET d == confirmations[c].directive IN
           confirmations[c].status = "pending" /\ confirmations'[c].status # "pending"
              => Moves(d, "executing", DirectiveOutcome(confirmations'[c].status))
  <1>1. ASSUME OutcomeInv, Next, NEW c \in Confirmations,
               confirmations[c].status = "pending", confirmations'[c].status # "pending"
        PROVE  Moves(confirmations[c].directive, "executing",
                     DirectiveOutcome(confirmations'[c].status))
    <2>1. PICK r \in Requests :
            DirectiveStep(r) \/ ConfirmationStep(r) \/ GateStep(r) \/ Fail(r)
      BY <1>1 DEF Next
    <2> DEFINE q == req[r]
    <2>2. /\ TypeInv /\ SnapshotInv /\ PunctualInv /\ Entitled(q)
          /\ confirmations \in [Confirmations -> ConfirmationRow]
          /\ q.conf \in ConfirmationRow
      BY <1>1, RequestIsChecked
      DEF OutcomeInv, PunctualInv, PersonsInv, SnapshotInv, TypeInv, TypeOK, Request
    <2>3. ASSUME InsertConfirmation(r) PROVE FALSE
      BY <1>1, <2>2, <2>3 DEF InsertConfirmation
    <2>4. ASSUME DeleteConfirmation(r) PROVE FALSE
      BY <1>1, <2>2, <2>4 DEF DeleteConfirmation, ConfirmationRow
    <2>5. ASSUME CommitConfirmationUpdate(r) PROVE FALSE
      <3>1. q.c \in Confirmations /\ confirmations[q.c] = q.conf
        BY <2>2, <2>5, ConfirmationIsCopy DEF CommitConfirmationUpdate
      <3>2. confirmations' = [confirmations EXCEPT ![q.c] =
                [q.conf EXCEPT !.version = q.expected + 1]]
        BY <2>5 DEF CommitConfirmationUpdate
      <3> QED
        BY <1>1, <2>2, <3>1, <3>2 DEF ConfirmationRow
    <2>6. ASSUME CommitCancellation(r) PROVE FALSE
      <3>1. /\ q.c \in Confirmations /\ confirmations[q.c] = q.conf
            /\ q.conf.status = "failed"
        BY <2>2, <2>6, ConfirmationIsCopy DEF CommitCancellation, Entitled
      <3>2. \A e \in Confirmations \ {q.c} : confirmations'[e] = confirmations[e]
        BY <2>2, <2>6 DEF CommitCancellation
      <3> QED
        BY <1>1, <3>1, <3>2
    <2>7. CommitOutcome(r)
      BY <1>1, <2>1, <2>3, <2>4, <2>5, <2>6, ConfirmationWriters
    <2>8. /\ q.c \in Confirmations /\ confirmations[q.c] = q.conf
      BY <2>2, <2>7, ConfirmationIsCopy DEF CommitOutcome
    <2>9. confirmations' = [confirmations EXCEPT ![q.c] =
              [q.conf EXCEPT !.status = q.target, !.version = q.expected + 1]]
      BY <2>7 DEF CommitOutcome
    <2>10. c = q.c
      BY <1>1, <2>2, <2>8, <2>9
    <2>11. confirmations'[c].status = q.target
      BY <2>2, <2>8, <2>9, <2>10 DEF ConfirmationRow
    <2>12. /\ q.conf.directive \in Directives /\ directives[q.conf.directive] = q.dir
           /\ q.dir.status = "executing" /\ q.dir \in DirectiveRow
           /\ directives \in [Directives -> DirectiveRow]
      BY <2>2, <2>7, OutcomeDirectiveIsCopy, RequestIsChecked DEF Request, TypeInv, TypeOK
    <2>13. directives' = [directives EXCEPT ![q.conf.directive] =
              [q.dir EXCEPT !.status = DirectiveOutcome(q.target), !.version = @ + 1]]
      BY <2>7 DEF CommitOutcome
    <2>14. directives'[q.conf.directive].status = DirectiveOutcome(q.target)
      BY <2>12, <2>13 DEF DirectiveRow
    <2> QED
      BY <2>8, <2>10, <2>11, <2>12, <2>14 DEF Moves
  <1>2. OutcomeInv /\ [Next]_vars => [Follows]_vars
    BY <1>1
  <1> QED
    BY <1>2, OutcomeInvHolds, PTL DEF Spec, SettleTogether

=============================================================================
