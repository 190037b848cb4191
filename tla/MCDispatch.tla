----------------------------- MODULE MCDispatch -----------------------------
(***************************************************************************)
(* Values for the constants of Dispatch that a .cfg cannot write.          *)
(***************************************************************************)
EXTENDS Dispatch, TLC

CONSTANTS operator, operatorToo, reviewer,
          r1, r2, g1, g2, d1, d2, c1, c2

\* operatorToo is an administrator whose name differs from the operator's in
\* letter case only: a distinct account that strings.EqualFold does not tell
\* apart from it.
MCFold == [u \in Users |-> IF u = operatorToo THEN operator ELSE u]

MCRoleOf ==
    [u \in Users |-> CASE u = operator -> "operator"
                       [] u = reviewer -> "reviewer"
                       [] OTHER -> "admin"]

\* Requests, and codes of rows not created yet, are interchangeable; no
\* liveness property is checked with these.
RequestSymmetry == Permutations(Requests)
CodeSymmetry == Permutations(Directives) \cup Permutations(Confirmations)
Symmetry == RequestSymmetry \cup CodeSymmetry

\* The routes that matter to who may hand in a receipt and when.
ReceiptRoutes ==
    { "directive.create", "directive.transition", "confirmation.create",
      "confirmation.transition", "confirmation.delete" }

\* The routes that move directives, receipts and gates.
MovingRoutes ==
    { "directive.create", "directive.transition", "confirmation.create",
      "confirmation.transition", "gate.transition" }

\* The routes of a directive's own life.
DirectiveRoutes == {"directive.create", "directive.transition"}

=============================================================================
