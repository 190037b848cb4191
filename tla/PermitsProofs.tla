--------------------------- MODULE PermitsProofs ---------------------------
(***************************************************************************)
(* What follows from the promise of module Permits, for any number of      *)
(* permits, receipts and users.  Module DispatchOutcomes shows that the    *)
(* interleaved handlers keep the promise and inherits these facts for the  *)
(* tables of the database.                                                 *)
(***************************************************************************)
EXTENDS Permits, TLAPS

PermitRow ==
    [ life : {"absent", "live", "deleted"}, status : DirectiveState,
      gate : Gates \cup {None}, goal : GateGoal,
      submittedBy : Users \cup {None}, approvedBy : Users \cup {None} ]

ReceiptRow ==
    [ life : {"absent", "live", "deleted"}, status : ConfirmationState,
      directive : Directives \cup {None} ]

EvidenceRow == [stage : {"submitted", "approved"}, actor : Users]

PermitTypes ==
    /\ permits \in [Directives -> PermitRow]
    /\ evidence \in [Directives -> SUBSET EvidenceRow]
    /\ receipts \in [Confirmations -> ReceiptRow]

\* A draft names nobody, and a permit names no approver before its approval.
Unsigned(row) ==
    /\ row.life = "absent" => row.status = "draft"
    /\ row.status = "draft" => row.submittedBy = None
    /\ row.status \in {"draft", "pending"} => row.approvedBy = None

\* The evidence rows that the two columns of a permit call for.
EvidenceOf(row) ==
    { a \in EvidenceRow :
        a.actor = IF a.stage = "submitted" THEN row.submittedBy
                                           ELSE row.approvedBy }

\* A receipt belongs to a permit once it exists, and no permit has two.
OneReceiptEach ==
    /\ \A c \in Confirmations :
         receipts[c].directive = None <=> receipts[c].life = "absent"
    /\ \A c, other \in Confirmations :
         receipts[c].directive = receipts[other].directive
            => c = other \/ receipts[c].life = "absent"

\* How far a permit is when its receipt says `status`.
Agrees(status, permit) ==
    CASE status = "pending"   -> permit \in {"executing", "aborted"}
      [] status = "confirmed" -> permit = "completed"
      [] OTHER                -> permit = "aborted"

ReceiptsAgree ==
    /\ \A c \in Confirmations :
         receipts[c].life # "absent" =>
            Agrees(receipts[c].status, permits[receipts[c].directive].status)
    /\ \A d \in Directives :
         permits[d].status = "completed" =>
            \E c \in Confirmations : /\ receipts[c].directive = d
                                     /\ receipts[c].status = "confirmed"

PermitInv ==
    /\ PermitTypes
    /\ \A d \in Directives : Unsigned(permits[d])
    /\ \A d \in Directives : evidence[d] = EvidenceOf(permits[d])
    /\ OneReceiptEach
    /\ ReceiptsAgree

-----------------------------------------------------------------------------
\* At the start nothing exists.
LEMMA InitPermitInv ==
    ASSUME None \notin Users, Init
    PROVE  PermitInv
  <1> DEFINE blank ==
          [ life |-> "absent", status |-> "draft", gate |-> None, goal |-> "closed",
            submittedBy |-> None, approvedBy |-> None ]
             unsent == [life |-> "absent", status |-> "pending", directive |-> None]
  <1>1. /\ \A d \in Directives : permits[d] = blank /\ evidence[d] = {}
        /\ \A c \in Confirmations : receipts[c] = unsent
    BY DEF Init
  <1>2. blank \in PermitRow /\ unsent \in ReceiptRow
    BY DEF PermitRow, ReceiptRow, DirectiveState, ConfirmationState, GateGoal
  <1>3. PermitTypes
    BY <1>2 DEF Init, PermitTypes
  <1>4. EvidenceOf(blank) = {}
    BY DEF EvidenceOf, EvidenceRow
  <1>5. \A d \in Directives : Unsigned(permits[d])
    BY <1>1 DEF Unsigned
  <1>6. \A d \in Directives : evidence[d] = EvidenceOf(permits[d])
    BY <1>1, <1>4
  <1>7. OneReceiptEach /\ ReceiptsAgree
    BY <1>1 DEF OneReceiptEach, ReceiptsAgree
  <1> QED
    BY <1>3, <1>5, <1>6, <1>7 DEF PermitInv

\* The evidence depends on the names alone.
LEMMA SameNamesSameEvidence ==
    ASSUME NEW old, NEW new,
           new.submittedBy = old.submittedBy, new.approvedBy = old.approvedBy
    PROVE  EvidenceOf(new) = EvidenceOf(old)
  BY DEF EvidenceOf

\* A permit that changes without a receipt: the others and all receipts stay.
\* `row` is what becomes of it and `rows` its evidence afterwards.
LEMMA PermitChanges ==
    ASSUME PermitInv, NEW d \in Directives, NEW row \in PermitRow,
           permits' = [permits EXCEPT ![d] = row],
           NEW rows \in SUBSET EvidenceRow,
           evidence' = [evidence EXCEPT ![d] = rows],
           UNCHANGED receipts,
           Unsigned(row), rows = EvidenceOf(row),
           \/ row.status = permits[d].status
           \/ permits[d].status \in {"draft", "pending", "approved"}
                /\ row.status # "completed"
           \/ permits[d].status = "executing" /\ row.status = "aborted"
    PROVE  PermitInv'
  <1>1. PermitTypes'
    BY DEF PermitInv, PermitTypes
  <1>2. /\ permits'[d] = row /\ evidence'[d] = rows
        /\ \A e \in Directives \ {d} :
              permits'[e] = permits[e] /\ evidence'[e] = evidence[e]
    BY DEF PermitInv, PermitTypes
  <1>3. \A e \in Directives : Unsigned(permits'[e])
    BY <1>2 DEF PermitInv, Unsigned
  <1>4. \A e \in Directives : evidence'[e] = EvidenceOf(permits'[e])
    BY <1>2 DEF PermitInv
  <1>5. OneReceiptEach'
    BY DEF PermitInv, OneReceiptEach
  <1>6. ReceiptsAgree'
    <2>1. ASSUME NEW c \in Confirmations, receipts[c].life # "absent"
          PROVE  Agrees(receipts[c].status, permits'[receipts[c].directive].status)
      <3>1. receipts[c].directive \in Directives
        BY <2>1 DEF PermitInv, PermitTypes, ReceiptRow, OneReceiptEach
      <3>2. Agrees(receipts[c].status, permits[receipts[c].directive].status)
        BY <2>1 DEF PermitInv, ReceiptsAgree
      <3> QED
        BY <1>2, <3>1, <3>2 DEF Agrees
    <2>2. ASSUME NEW e \in Directives, permits'[e].status = "completed"
          PROVE  permits[e].status = "completed"
      BY <1>2, <2>2
    <2> QED
      BY <2>1, <2>2 DEF PermitInv, ReceiptsAgree
  <1> QED
    BY <1>1, <1>3, <1>4, <1>5, <1>6 DEF PermitInv, Unsigned, EvidenceOf

\* Steps of a single permit.
LEMMA DraftKeeps ==
    ASSUME PermitInv, NEW d \in Directives, Draft(d)
    PROVE  PermitInv'
  <1>1. PICK g \in Gates, goal \in GateGoal :
          permits' = [permits EXCEPT ![d] =
              [@ EXCEPT !.life = "live", !.gate = g, !.goal = goal]]
    BY DEF Draft
  <1> DEFINE row == [permits[d] EXCEPT !.life = "live", !.gate = g, !.goal = goal]
  <1>2. permits[d] \in PermitRow /\ permits[d].life = "absent"
    BY DEF Draft, PermitInv, PermitTypes
  <1>3. /\ row \in PermitRow /\ row.status = permits[d].status
        /\ row.submittedBy = permits[d].submittedBy
        /\ row.approvedBy = permits[d].approvedBy
    BY <1>2 DEF PermitRow
  <1>4. Unsigned(row)
    BY <1>2, <1>3 DEF PermitInv, Unsigned
  <1>5. evidence[d] = EvidenceOf(row) /\ evidence[d] \in SUBSET EvidenceRow
    BY <1>3, SameNamesSameEvidence DEF PermitInv, PermitTypes
  <1>6. evidence' = [evidence EXCEPT ![d] = evidence[d]] /\ UNCHANGED receipts
    BY DEF Draft, PermitInv, PermitTypes
  <1>7. permits' = [permits EXCEPT ![d] = row]
    BY <1>1
  <1> HIDE DEF row
  <1> QED
    BY <1>3, <1>4, <1>5, <1>6, <1>7, PermitChanges

\* Edit, Remove, Start and Abort write no name.
LEMMA UnnamedKeeps ==
    ASSUME PermitInv, NEW d \in Directives, NEW u,
           Edit(d) \/ Remove(d) \/ Start(d, u) \/ Abort(d, u)
    PROVE  PermitInv'
  <1> DEFINE old == permits[d]
             row == permits'[d]
  <1>1. old \in PermitRow /\ old.life = "live"
    BY DEF Edit, Remove, Start, Abort, Live, PermitInv, PermitTypes
  <1>2. /\ row \in PermitRow
        /\ row.submittedBy = old.submittedBy /\ row.approvedBy = old.approvedBy
        /\ row.life \in {"live", "deleted"}
        /\ \/ row.status = old.status
           \/ old.status = "approved" /\ row.status = "executing"
           \/ /\ old.status \in {"pending", "approved", "executing"}
              /\ row.status = "aborted"
        /\ permits' = [permits EXCEPT ![d] = row]
    <2>1. CASE Edit(d)
      <3>1. PICK g \in Gates, goal \in GateGoal :
              permits' = [permits EXCEPT ![d].gate = g, ![d].goal = goal]
        BY <2>1 DEF Edit
      <3>2. row = [old EXCEPT !.gate = g, !.goal = goal]
        BY <3>1 DEF PermitInv, PermitTypes
      <3>3. permits' = [permits EXCEPT ![d] = row]
        BY <3>1, <3>2
      <3> QED
        BY <1>1, <3>2, <3>3 DEF PermitRow
    <2>2. CASE Remove(d)
      BY <1>1, <2>2 DEF Remove, PermitInv, PermitTypes, PermitRow
    <2>3. CASE Start(d, u)
      BY <1>1, <2>3 DEF Start, PermitInv, PermitTypes, PermitRow, DirectiveState
    <2>4. CASE Abort(d, u)
      BY <1>1, <2>4 DEF Abort, PermitInv, PermitTypes, PermitRow, DirectiveState
    <2> QED
      BY <2>1, <2>2, <2>3, <2>4
  <1>3. Unsigned(row)
    BY <1>2 DEF PermitInv, Unsigned
  <1>4. evidence[d] = EvidenceOf(row) /\ evidence[d] \in SUBSET EvidenceRow
    BY <1>2, SameNamesSameEvidence DEF PermitInv, PermitTypes
  <1>5. evidence' = [evidence EXCEPT ![d] = evidence[d]] /\ UNCHANGED receipts
    BY DEF Edit, Remove, Start, Abort, PermitInv, PermitTypes
  <1> HIDE DEF row
  <1> QED
    BY <1>2, <1>3, <1>4, <1>5, PermitChanges

\* A draft has no evidence yet, so that the submission's row is the first.
LEMMA SubmitKeeps ==
    ASSUME PermitInv, None \notin Users,
           NEW d \in Directives, NEW u \in Users, Submit(d, u)
    PROVE  PermitInv'
  <1> DEFINE old == permits[d]
             row == [old EXCEPT !.status = "pending", !.submittedBy = u]
             rows == {[stage |-> "submitted", actor |-> u]}
  <1>1. old \in PermitRow /\ old.life = "live" /\ old.status = "draft"
    BY DEF Submit, Live, PermitInv, PermitTypes
  <1>2. old.approvedBy = None
    BY <1>1 DEF PermitInv, Unsigned
  <1>3. /\ row \in PermitRow /\ row.status = "pending" /\ row.life = "live"
        /\ row.submittedBy = u /\ row.approvedBy = None
    BY <1>1, <1>2 DEF PermitRow, DirectiveState
  <1>4. rows \in SUBSET EvidenceRow
    BY DEF EvidenceRow
  <1>5. Unsigned(row)
    BY <1>3 DEF Unsigned
  <1> HIDE DEF row
  <1>6. rows = EvidenceOf(row)
    BY <1>3 DEF EvidenceOf, EvidenceRow
  <1>7. /\ permits' = [permits EXCEPT ![d] = row]
        /\ evidence' = [evidence EXCEPT ![d] = rows] /\ UNCHANGED receipts
    BY DEF Submit, row
  <1> HIDE DEF rows
  <1> QED
    BY <1>1, <1>3, <1>4, <1>5, <1>6, <1>7, PermitChanges

\* An approval adds its row to that of the submission.
LEMMA ApproveKeeps ==
    ASSUME PermitInv, None \notin Users,
           NEW d \in Directives, NEW u \in Users, Approve(d, u)
    PROVE  PermitInv'
  <1> DEFINE old == permits[d]
             row == [old EXCEPT !.status = "approved", !.approvedBy = u]
             rows == evidence[d] \cup {[stage |-> "approved", actor |-> u]}
  <1>1. old \in PermitRow /\ old.life = "live" /\ old.status = "pending"
    BY DEF Approve, Live, PermitInv, PermitTypes
  <1>2. old.approvedBy = None /\ evidence[d] = EvidenceOf(old)
    BY <1>1 DEF PermitInv, Unsigned
  <1>3. /\ row \in PermitRow /\ row.status = "approved" /\ row.life = "live"
        /\ row.submittedBy = old.submittedBy /\ row.approvedBy = u
    BY <1>1, <1>2 DEF PermitRow, DirectiveState
  <1>4. rows \in SUBSET EvidenceRow
    BY <1>2 DEF EvidenceOf, EvidenceRow
  <1>5. Unsigned(row)
    BY <1>3 DEF Unsigned
  <1>6. /\ permits' = [permits EXCEPT ![d] = row]
        /\ evidence' = [evidence EXCEPT ![d] = rows] /\ UNCHANGED receipts
    BY DEF Approve
  <1> HIDE DEF row, old
  <1>7. rows = EvidenceOf(row)
    BY <1>2, <1>3 DEF EvidenceOf, EvidenceRow
  <1> HIDE DEF rows
  <1> QED
    BY <1>1, <1>3, <1>4, <1>5, <1>6, <1>7, PermitChanges DEF old

-----------------------------------------------------------------------------
\* A receipt that changes alone and keeps agreeing with its permit.
LEMMA ReceiptChanges ==
    ASSUME PermitInv, NEW c \in Confirmations, NEW row \in ReceiptRow,
           receipts' = [receipts EXCEPT ![c] = row], UNCHANGED <<permits, evidence>>,
           receipts[c].life # "absent", row.life # "absent",
           row.directive = receipts[c].directive,
           \/ row.status = receipts[c].status
           \/ receipts[c].status = "failed" /\ row.status = "cancelled"
    PROVE  PermitInv'
  <1>1. PermitTypes'
    BY DEF PermitInv, PermitTypes
  <1>2. /\ receipts'[c] = row
        /\ \A e \in Confirmations \ {c} : receipts'[e] = receipts[e]
    BY DEF PermitInv, PermitTypes
  <1>3. OneReceiptEach'
    BY <1>2 DEF PermitInv, OneReceiptEach
  <1>4. ReceiptsAgree'
    <2>1. ASSUME NEW e \in Confirmations, receipts'[e].life # "absent"
          PROVE  Agrees(receipts'[e].status, permits[receipts'[e].directive].status)
      <3>1. receipts[e].life # "absent" /\ receipts'[e].directive = receipts[e].directive
        BY <1>2, <2>1
      <3>2. Agrees(receipts[e].status, permits[receipts[e].directive].status)
        BY <3>1 DEF PermitInv, ReceiptsAgree
      <3>3. \/ receipts'[e].status = receipts[e].status
            \/ receipts[e].status = "failed" /\ receipts'[e].status = "cancelled"
        BY <1>2
      <3> QED
        BY <3>1, <3>2, <3>3 DEF Agrees
    <2>2. ASSUME NEW d \in Directives, permits[d].status = "completed"
          PROVE  \E e \in Confirmations : /\ receipts'[e].directive = d
                                           /\ receipts'[e].status = "confirmed"
      <3>1. PICK e \in Confirmations : /\ receipts[e].directive = d
                                       /\ receipts[e].status = "confirmed"
        BY <2>2 DEF PermitInv, ReceiptsAgree
      <3> QED
        BY <1>2, <3>1
    <2> QED
      BY <2>1, <2>2 DEF ReceiptsAgree
  <1> QED
    BY <1>1, <1>3, <1>4 DEF PermitInv, Unsigned, EvidenceOf

\* Cancelling and discarding a receipt.
LEMMA CancelOrDiscardKeeps ==
    ASSUME PermitInv, NEW c \in Confirmations, Cancel(c) \/ Discard(c)
    PROVE  PermitInv'
  <1> DEFINE row == receipts'[c]
  <1>1. receipts[c] \in ReceiptRow /\ receipts[c].life = "live"
    BY DEF Cancel, Discard, Live, PermitInv, PermitTypes
  <1>2. /\ row \in ReceiptRow /\ row.life # "absent"
        /\ row.directive = receipts[c].directive
        /\ \/ row.status = receipts[c].status
           \/ receipts[c].status = "failed" /\ row.status = "cancelled"
        /\ receipts' = [receipts EXCEPT ![c] = row]
        /\ UNCHANGED <<permits, evidence>>
    <2>1. CASE Cancel(c)
      BY <1>1, <2>1 DEF Cancel, PermitInv, PermitTypes, ReceiptRow, ConfirmationState
    <2>2. CASE Discard(c)
      BY <1>1, <2>2 DEF Discard, PermitInv, PermitTypes, ReceiptRow
    <2> QED
      BY <2>1, <2>2
  <1> HIDE DEF row
  <1> QED
    BY <1>1, <1>2, ReceiptChanges

\* A receipt finds its permit executing or aborted, never completed.
LEMMA ReceiveKeeps ==
    ASSUME PermitInv, None \notin Directives,
           NEW c \in Confirmations, NEW d \in Directives, Receive(c, d)
    PROVE  PermitInv'
  <1> DEFINE row == [life |-> "live", status |-> "pending", directive |-> d]
  <1>1. /\ receipts' = [receipts EXCEPT ![c] = row] /\ UNCHANGED <<permits, evidence>>
        /\ receipts[c].life = "absent"
        /\ permits[d].status \in {"executing", "aborted"}
        /\ \A other \in Confirmations : receipts[other].directive # d
    BY DEF Receive
  <1>2. row \in ReceiptRow
    BY DEF ReceiptRow, ConfirmationState
  <1>3. PermitTypes'
    BY <1>1, <1>2 DEF PermitInv, PermitTypes
  <1>4. /\ receipts'[c] = row
        /\ \A e \in Confirmations \ {c} : receipts'[e] = receipts[e]
    BY <1>1 DEF PermitInv, PermitTypes
  <1>5. OneReceiptEach'
    <2>1. ASSUME NEW e \in Confirmations
          PROVE  receipts'[e].directive = None <=> receipts'[e].life = "absent"
      BY <1>4 DEF PermitInv, OneReceiptEach
    <2>2. ASSUME NEW e \in Confirmations, NEW other \in Confirmations,
                 receipts'[e].directive = receipts'[other].directive
          PROVE  e = other \/ receipts'[e].life = "absent"
      BY <1>1, <1>4, <2>2 DEF PermitInv, OneReceiptEach
    <2> QED
      BY <2>1, <2>2 DEF OneReceiptEach
  <1>6. ReceiptsAgree'
    <2>1. ASSUME NEW e \in Confirmations, receipts'[e].life # "absent"
          PROVE  Agrees(receipts'[e].status, permits[receipts'[e].directive].status)
      BY <1>1, <1>4, <2>1 DEF PermitInv, ReceiptsAgree, Agrees
    <2>2. ASSUME NEW f \in Directives, permits[f].status = "completed"
          PROVE  \E e \in Confirmations : /\ receipts'[e].directive = f
                                           /\ receipts'[e].status = "confirmed"
      <3>1. PICK e \in Confirmations : /\ receipts[e].directive = f
                                       /\ receipts[e].status = "confirmed"
        BY <2>2 DEF PermitInv, ReceiptsAgree
      <3>2. e # c
        BY <1>1, <3>1 DEF PermitInv, OneReceiptEach
      <3> QED
        BY <1>4, <3>1, <3>2
    <2> QED
      BY <1>1, <2>1, <2>2 DEF ReceiptsAgree
  <1> QED
    BY <1>1, <1>3, <1>5, <1>6 DEF PermitInv, Unsigned, EvidenceOf

\* A settled permit had no other receipt that could disagree with it.
LEMMA SettleKeeps ==
    ASSUME PermitInv, NEW c \in Confirmations,
           NEW outcome \in {"confirmed", "failed"}, Settle(c, outcome)
    PROVE  PermitInv'
  <1> DEFINE d == receipts[c].directive
             status == IF outcome = "confirmed" THEN "completed" ELSE "aborted"
  <1>1. /\ receipts[c] \in ReceiptRow /\ receipts[c].life = "live"
        /\ receipts[c].status = "pending"
        /\ permits[d].life = "live" /\ permits[d].status = "executing"
        /\ receipts' = [receipts EXCEPT ![c].status = outcome]
        /\ permits' = [permits EXCEPT ![d].status = status]
        /\ UNCHANGED evidence
    BY DEF Settle, Live, PermitInv, PermitTypes
  <1>2. d \in Directives
    BY <1>1 DEF PermitInv, OneReceiptEach, ReceiptRow
  <1>3. permits[d] \in PermitRow
    BY <1>2 DEF PermitInv, PermitTypes
  <1>4. /\ receipts'[c] = [receipts[c] EXCEPT !.status = outcome]
        /\ \A e \in Confirmations \ {c} : receipts'[e] = receipts[e]
        /\ permits'[d] = [permits[d] EXCEPT !.status = status]
        /\ \A e \in Directives \ {d} : permits'[e] = permits[e]
    BY <1>1, <1>2 DEF PermitInv, PermitTypes
  <1>5. /\ receipts'[c].directive = d /\ receipts'[c].status = outcome
        /\ receipts'[c].life = "live" /\ receipts'[c] \in ReceiptRow
    BY <1>1, <1>4 DEF ReceiptRow, ConfirmationState
  <1>6. /\ permits'[d].status = status /\ permits'[d].life = "live"
        /\ permits'[d].submittedBy = permits[d].submittedBy
        /\ permits'[d].approvedBy = permits[d].approvedBy
        /\ permits'[d] \in PermitRow
    BY <1>1, <1>3, <1>4 DEF PermitRow, DirectiveState
  <1>7. PermitTypes'
    <2>1. permits' \in [Directives -> PermitRow]
      BY <1>1, <1>4, <1>6 DEF PermitInv, PermitTypes
    <2>2. receipts' \in [Confirmations -> ReceiptRow]
      BY <1>1, <1>4, <1>5 DEF PermitInv, PermitTypes
    <2> QED
      BY <1>1, <2>1, <2>2 DEF PermitInv, PermitTypes
  <1> HIDE DEF d, status
  <1>8. \A e \in Directives : Unsigned(permits'[e])
    <2>1. Unsigned(permits'[d])
      BY <1>6 DEF Unsigned, status
    <2> QED
      BY <1>4, <2>1 DEF PermitInv
  <1>9. \A e \in Directives : evidence'[e] = EvidenceOf(permits'[e])
    <2>1. EvidenceOf(permits'[d]) = EvidenceOf(permits[d])
      BY <1>6, SameNamesSameEvidence
    <2> QED
      BY <1>1, <1>2, <1>4, <2>1 DEF PermitInv
  <1>10. OneReceiptEach'
    <2>1. \A e \in Confirmations : /\ receipts'[e].directive = receipts[e].directive
                                    /\ receipts'[e].life = receipts[e].life
      BY <1>1, <1>4, <1>5 DEF d
    <2> QED
      BY <2>1 DEF PermitInv, OneReceiptEach
  <1>11. ReceiptsAgree'
    <2>1. ASSUME NEW e \in Confirmations, receipts'[e].life # "absent"
          PROVE  Agrees(receipts'[e].status, permits'[receipts'[e].directive].status)
      <3>1. CASE e = c
        BY <1>5, <1>6, <3>1 DEF Agrees, status
      <3>2. CASE e # c
        <4>1. receipts'[e] = receipts[e] /\ receipts[e].directive # d
          BY <1>1, <1>4, <2>1, <3>2 DEF PermitInv, OneReceiptEach, d
        <4>2. receipts[e].directive \in Directives
          BY <2>1, <4>1 DEF PermitInv, PermitTypes, OneReceiptEach, ReceiptRow
        <4> QED
          BY <1>4, <2>1, <4>1, <4>2 DEF PermitInv, ReceiptsAgree
      <3> QED
        BY <3>1, <3>2
    <2>2. ASSUME NEW f \in Directives, permits'[f].status = "completed"
          PROVE  \E e \in Confirmations : /\ receipts'[e].directive = f
                                           /\ receipts'[e].status = "confirmed"
      <3>1. CASE f = d
        BY <1>5, <1>6, <2>2, <3>1 DEF status
      <3>2. CASE f # d
        <4>1. PICK e \in Confirmations : /\ receipts[e].directive = f
                                         /\ receipts[e].status = "confirmed"
          BY <1>4, <2>2, <3>2 DEF PermitInv, ReceiptsAgree
        <4>2. e # c
          BY <3>2, <4>1 DEF d
        <4> QED
          BY <1>4, <4>1, <4>2
      <3> QED
        BY <3>1, <3>2
    <2> QED
      BY <2>1, <2>2 DEF ReceiptsAgree
  <1> QED
    BY <1>7, <1>8, <1>9, <1>10, <1>11 DEF PermitInv

\* Every step of the promise.
LEMMA NextPermitInv ==
    ASSUME PermitInv, None \notin Users, None \notin Directives, [Next]_vars
    PROVE  PermitInv'
  <1>1. CASE UNCHANGED vars
    BY <1>1 DEF vars, PermitInv, PermitTypes, Unsigned, EvidenceOf, OneReceiptEach,
                ReceiptsAgree
  <1>2. ASSUME NEW d \in Directives, NEW u \in Users,
               Submit(d, u) \/ Approve(d, u) \/ Start(d, u) \/ Abort(d, u)
        PROVE  PermitInv'
    BY <1>2, SubmitKeeps, ApproveKeeps, UnnamedKeeps
  <1>3. ASSUME NEW d \in Directives, Draft(d) \/ Edit(d) \/ Remove(d)
        PROVE  PermitInv'
    BY <1>3, DraftKeeps, UnnamedKeeps
  <1>4. ASSUME NEW c \in Confirmations, Settle(c, "confirmed") \/ Settle(c, "failed")
        PROVE  PermitInv'
    BY <1>4, SettleKeeps
  <1> QED
    BY <1>1, <1>2, <1>3, <1>4, ReceiveKeeps, CancelOrDiscardKeeps DEF Next

\* Whoever keeps the promise has evidence that tells the story of the two name
\* columns, one receipt at most for a permit, and receipts that agree with
\* their permits (CommitOutcome, CommitDirective and InsertConfirmation).
THEOREM PromiseInvariant ==
    ASSUME None \notin Users, None \notin Directives
    PROVE  Spec => []PermitInv
  <1>1. Init => PermitInv
    BY InitPermitInv
  <1>2. PermitInv /\ [Next]_vars => PermitInv'
    BY NextPermitInv
  <1> QED
    BY <1>1, <1>2, PTL DEF Spec

=============================================================================
