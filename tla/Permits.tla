------------------------------ MODULE Permits ------------------------------
(***************************************************************************)
(* What the dispatch core promises, as if every operation happened at one  *)
(* instant and nobody else was there: the life of a permit (a directive),  *)
(* its two persons with their evidence, and its receipt.  There are no     *)
(* handlers, versions or audit rows here; module Dispatch is shown to      *)
(* implement this one although its handlers decide on rows they read       *)
(* earlier.                                                                *)
(*                                                                         *)
(* Two things are promised less than one would like, because deletions     *)
(* compare nothing: Remove takes a permit in any status, and a receipt may *)
(* arrive for a permit that has just been aborted.  Gates are left out.    *)
(***************************************************************************)
EXTENDS Lifecycle

CONSTANTS Gates, Directives, Confirmations, Users, RoleOf, Fold, None

VARIABLES
    permits,    \* directive -> [life, status, gate, goal, submittedBy, approvedBy]
    evidence,   \* directive -> the approval rows
    receipts    \* confirmation -> [life, status, directive]

vars == <<permits, evidence, receipts>>

Live(row) == row.life = "live"

Draft(d) ==
    /\ permits[d].life = "absent"
    /\ \E g \in Gates, goal \in GateGoal :
          permits' = [permits EXCEPT ![d] =
              [@ EXCEPT !.life = "live", !.gate = g, !.goal = goal]]
    /\ UNCHANGED <<evidence, receipts>>

Edit(d) ==
    /\ Live(permits[d]) /\ permits[d].status = "draft"
    /\ \E g \in Gates, goal \in GateGoal :
          permits' = [permits EXCEPT ![d].gate = g, ![d].goal = goal]
    /\ UNCHANGED <<evidence, receipts>>

Submit(d, u) ==
    /\ Live(permits[d]) /\ permits[d].status = "draft"
    /\ directiveRoleAllowed("pending", RoleOf[u])
    /\ permits' = [permits EXCEPT ![d].status = "pending", ![d].submittedBy = u]
    /\ evidence' = [evidence EXCEPT ![d] = {[stage |-> "submitted", actor |-> u]}]
    /\ UNCHANGED receipts

Approve(d, u) ==
    /\ Live(permits[d]) /\ permits[d].status = "pending"
    /\ directiveRoleAllowed("approved", RoleOf[u])
    /\ Fold[u] # Fold[permits[d].submittedBy]
    /\ permits' = [permits EXCEPT ![d].status = "approved", ![d].approvedBy = u]
    /\ evidence' = [evidence EXCEPT ![d] = @ \cup {[stage |-> "approved", actor |-> u]}]
    /\ UNCHANGED receipts

Start(d, u) ==
    /\ Live(permits[d]) /\ permits[d].status = "approved"
    /\ directiveRoleAllowed("executing", RoleOf[u])
    /\ permits' = [permits EXCEPT ![d].status = "executing"]
    /\ UNCHANGED <<evidence, receipts>>

Abort(d, u) ==
    /\ Live(permits[d])
    /\ permits[d].status \in {"pending", "approved", "executing"}
    /\ directiveRoleAllowed("aborted", RoleOf[u])
    /\ permits' = [permits EXCEPT ![d].status = "aborted"]
    /\ UNCHANGED <<evidence, receipts>>

Remove(d) ==
    /\ Live(permits[d])
    /\ permits' = [permits EXCEPT ![d].life = "deleted"]
    /\ UNCHANGED <<evidence, receipts>>

\* The first and only receipt of a permit.
Receive(c, d) ==
    /\ receipts[c].life = "absent"
    /\ permits[d].status \in {"executing", "aborted"}
    /\ \A other \in Confirmations : receipts[other].directive # d
    /\ receipts' = [receipts EXCEPT ![c] =
          [life |-> "live", status |-> "pending", directive |-> d]]
    /\ UNCHANGED <<permits, evidence>>

\* A receipt and its permit come to their ends together.
Settle(c, outcome) ==
    LET d == receipts[c].directive IN
    /\ Live(receipts[c]) /\ receipts[c].status = "pending"
    /\ Live(permits[d]) /\ permits[d].status = "executing"
    /\ receipts' = [receipts EXCEPT ![c].status = outcome]
    /\ permits' = [permits EXCEPT ![d].status =
          IF outcome = "confirmed" THEN "completed" ELSE "aborted"]
    /\ UNCHANGED evidence

Cancel(c) ==
    /\ Live(receipts[c]) /\ receipts[c].status = "failed"
    /\ receipts' = [receipts EXCEPT ![c].status = "cancelled"]
    /\ UNCHANGED <<permits, evidence>>

Discard(c) ==
    /\ Live(receipts[c])
    /\ receipts' = [receipts EXCEPT ![c].life = "deleted"]
    /\ UNCHANGED <<permits, evidence>>

Init ==
    /\ permits = [d \in Directives |->
          [ life |-> "absent", status |-> "draft", gate |-> None, goal |-> "closed",
            submittedBy |-> None, approvedBy |-> None ]]
    /\ evidence = [d \in Directives |-> {}]
    /\ receipts = [c \in Confirmations |->
          [life |-> "absent", status |-> "pending", directive |-> None]]

Next ==
    \/ \E d \in Directives :
          \/ Draft(d) \/ Edit(d) \/ Remove(d)
          \/ \E u \in Users :
                Submit(d, u) \/ Approve(d, u) \/ Start(d, u) \/ Abort(d, u)
          \/ \E c \in Confirmations : Receive(c, d)
    \/ \E c \in Confirmations :
          Settle(c, "confirmed") \/ Settle(c, "failed") \/ Cancel(c) \/ Discard(c)

Spec == Init /\ [][Next]_vars

=============================================================================
