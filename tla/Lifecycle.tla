----------------------------- MODULE Lifecycle -----------------------------
(***************************************************************************)
(* The status vocabularies, the transition graphs and the role rules that  *)
(* every aggregate of the dispatch system shares                           *)
(* (backend/internal/constants/status.go).  Pure data: no variables.       *)
(*                                                                         *)
(* A Go graph map[from]map[to]bool is the set of its true <<from, to>>     *)
(* pairs, so a terminal status is one that starts no pair.                 *)
(***************************************************************************)

GateState == {"open", "closed", "moving", "locked"}

DirectiveState ==
    {"draft", "pending", "approved", "executing", "completed", "aborted"}

ConfirmationState == {"pending", "confirmed", "failed", "cancelled"}

\* The gate positions a directive may ask for (binding oneof of gateState).
GateGoal == {"open", "closed", "locked"}

ReservoirState == {"normal", "warning", "critical", "restricted"}

ReservoirTransitions ==
    { <<"normal", "warning">>, <<"normal", "critical">>,
      <<"warning", "critical">>, <<"warning", "restricted">>, <<"warning", "normal">>,
      <<"critical", "restricted">>, <<"critical", "warning">>,
      <<"restricted", "critical">> }

GateUnitTransitions ==
    { <<"open", "moving">>, <<"open", "locked">>,
      <<"closed", "moving">>, <<"closed", "locked">>,
      <<"moving", "open">>, <<"moving", "closed">>, <<"moving", "locked">>,
      <<"locked", "closed">> }

OperationDirectiveTransitions ==
    { <<"draft", "pending">>,
      <<"pending", "approved">>, <<"pending", "aborted">>,
      <<"approved", "executing">>, <<"approved", "aborted">>,
      <<"executing", "completed">>, <<"executing", "aborted">> }

ExecutionConfirmationTransitions ==
    { <<"pending", "confirmed">>, <<"pending", "failed">>,
      <<"failed", "cancelled">> }

CanTransition(graph, from, to) == <<from, to>> \in graph

-----------------------------------------------------------------------------
\* Roles (model/security.go) and the rule of directiveRoleAllowed.

Roles == {"viewer", "operator", "reviewer", "admin"}

\* The roles for which a directive may be moved to status `target`.
directiveRoleAllowed(target, role) ==
    \/ target = "pending"   /\ role \in {"operator", "admin"}
    \/ target = "approved"  /\ role \in {"reviewer", "admin"}
    \/ target = "executing" /\ role \in {"operator", "admin"}
    \/ target = "aborted"   /\ role \in {"operator", "reviewer", "admin"}

=============================================================================
