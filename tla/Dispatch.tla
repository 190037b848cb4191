------------------------------ MODULE Dispatch ------------------------------
(***************************************************************************)
(* The dispatch core: gates, operation directives and execution            *)
(* confirmations (receipts) in one database, and the HTTP handlers that    *)
(* work on them concurrently (backend/internal/service and repository).    *)
(*                                                                         *)
(* A handler reads rows one query at a time OUTSIDE any transaction,       *)
(* decides on what it read, and only then opens a transaction whose        *)
(* updates are conditional on the versions it was given or had read.       *)
(* Every query is a step of its own, so other handlers run in between.     *)
(* The transaction is one step: each of its writes takes the row lock,     *)
(* re-evaluates its WHERE clause on the committed row and holds the lock   *)
(* until the commit, so all its conditions hold together at that instant,  *)
(* and a write that matches no row rolls the whole transaction back.       *)
(*                                                                         *)
(* Facility, owner and the other business fields are left out: a client    *)
(* can always send the ones the checks accept, and a refusal is Fail.      *)
(***************************************************************************)
EXTENDS Integers, Lifecycle

CONSTANTS
    Gates, Directives, Confirmations,  \* codes, also of rows not created yet
    Users,          \* usernames
    RoleOf,         \* the role of each user
    Fold,           \* a username as strings.EqualFold compares it
    Requests,       \* the requests the server handles at the same time
    None,           \* an empty string field, or no row
    Endpoints,      \* the write routes this instance exercises
    Lead,           \* how far a client's expectedVersion may be ahead
    MaxVersion      \* bound: edits start only on rows below this version

Routes ==
    { "directive.create", "directive.update", "directive.transition",
      "directive.delete", "confirmation.create", "confirmation.update",
      "confirmation.transition", "confirmation.delete", "gate.update",
      "gate.transition", "gate.delete" }

Entities == Gates \cup Directives \cup Confirmations

ASSUME CodesAssumption ==
    /\ Gates \cap Directives = {}
    /\ Gates \cap Confirmations = {}
    /\ Directives \cap Confirmations = {}
    /\ None \notin Entities

ASSUME UsersAssumption ==
    /\ None \notin Users
    /\ RoleOf \in [Users -> Roles]

ASSUME LimitsAssumption ==
    /\ Lead \in Nat
    /\ MaxVersion \in Nat
    /\ Endpoints \subseteq Routes

VARIABLES
    gates, directives, confirmations,  \* the tables, one row per code
    approvals,      \* directive -> its rows of directive_approvals
    trail,          \* code -> number and last row of its audit_logs
    req             \* request -> what its handler holds in memory

database == <<gates, directives, confirmations, approvals, trail>>
vars == <<database, req>>

-----------------------------------------------------------------------------
(***************************************************************************)
(* Rows.  life says whether the row exists; a soft-deleted row keeps its   *)
(* contents and its unique code.                                           *)
(***************************************************************************)
Life == {"absent", "live", "deleted"}

GateRow == [life : Life, status : GateState, version : Nat]

DirectiveRow ==
    { row \in [ life : Life, status : DirectiveState, version : Nat,
                gate : Gates \cup {None}, goal : GateGoal,
                submittedBy : Users \cup {None}, approvedBy : Users \cup {None} ] :
        row.gate = None => row.life = "absent" }

ConfirmationRow ==
    { row \in [ life : Life, status : ConfirmationState, version : Nat,
                directive : Directives \cup {None} ] :
        row.directive = None => row.life = "absent" }

ApprovalRow == [stage : {"submitted", "approved"}, actor : Users]

AuditState ==
    GateState \cup DirectiveState \cup ConfirmationState
              \cup {None, "deleted"}

NoGate == [life |-> "absent", status |-> "open", version |-> 0]

NoDirective ==
    [ life |-> "absent", status |-> "draft", version |-> 0, gate |-> None,
      goal |-> "closed", submittedBy |-> None, approvedBy |-> None ]

NoConfirmation ==
    [ life |-> "absent", status |-> "pending", version |-> 0,
      directive |-> None ]

\* repository/base.go update: "id = ? AND version = ?", live rows only.
\* Slip: the version is not compared.
MatchesAnyVersion(row, expected) == row.life = "live"
Matches(row, expected) == row.life = "live" /\ row.version = expected

\* One more audit row for entity e.
\* Slip: the audit call is skipped when the status stays the same.
LoggedIfMoved(log, e, before, after) ==
    IF before = after THEN log
    ELSE [log EXCEPT ![e] = [rows |-> @.rows + 1, before |-> before, after |-> after]]

Logged(log, e, before, after) ==
    [log EXCEPT ![e] = [rows |-> @.rows + 1, before |-> before, after |-> after]]

-----------------------------------------------------------------------------
(***************************************************************************)
(* Requests.  pc names the next database access of the handler; the other  *)
(* fields are its parameters and the rows it has read.                     *)
(***************************************************************************)
Step ==
    { "idle", "insertDirective", "readEditGate", "commitDirectiveUpdate",
      "readLinkedGate", "commitDirective", "deleteDirective",
      "countReceipts", "insertConfirmation", "requireExecuting",
      "commitConfirmationUpdate", "readOutcomeDirective", "readOutcomeGate",
      "commitOutcome", "commitCancellation", "deleteConfirmation",
      "commitGate", "deleteGate" }

Request ==
    [ pc : Step, actor : Users \cup {None},
      g : Gates \cup {None}, d : Directives \cup {None},
      c : Confirmations \cup {None},
      target : GateState \cup DirectiveState \cup ConfirmationState \cup {None},
      goal : GateGoal, expected : Nat,
      dir : DirectiveRow, gate : GateRow, conf : ConfirmationRow ]

Idle ==
    [ pc |-> "idle", actor |-> None, g |-> None, d |-> None, c |-> None,
      target |-> None, goal |-> "closed", expected |-> 0,
      dir |-> NoDirective, gate |-> NoGate, conf |-> NoConfirmation ]

\* middleware.RequireRoles of each route.
RouteRoles(route) ==
    CASE route = "directive.transition" -> {"operator", "reviewer", "admin"}
      [] route \in {"directive.delete", "confirmation.delete", "gate.delete"} -> {"admin"}
      [] OTHER -> {"operator", "admin"}

\* Request r of a user enters its handler, which gets as far as `request`.
Begin(r, u, route, request) ==
    /\ route \in Endpoints
    /\ RoleOf[u] \in RouteRoles(route)
    /\ req[r] = Idle
    /\ req' = [req EXCEPT ![r] = request]
    /\ UNCHANGED database

Finish(r) == req' = [req EXCEPT ![r] = Idle]

\* The expectedVersion a client may send when the row is at `version`: any
\* older one is refused by Matches, since versions only grow.
ClientVersions(version) == version .. (version + Lead)

-----------------------------------------------------------------------------
(***************************************************************************)
(* Operation directives: create, edit, delete.                             *)
(***************************************************************************)

\* Create reads the linked gate, which must exist and not be locked.
BeginDirectiveCreate(r) ==
    \E u \in Users, d \in Directives, g \in Gates, goal \in GateGoal :
        /\ gates[g].life = "live"
        /\ gates[g].status # "locked"
        /\ Begin(r, u, "directive.create",
                 [Idle EXCEPT !.pc = "insertDirective",
                              !.d = d, !.g = g, !.goal = goal])

\* The code column is unique over soft-deleted rows too.
InsertDirective(r) ==
    LET q == req[r] IN
    /\ q.pc = "insertDirective"
    /\ directives[q.d].life = "absent"
    /\ directives' = [directives EXCEPT ![q.d] =
            [NoDirective EXCEPT !.life = "live", !.version = 1,
                                !.gate = q.g, !.goal = q.goal]]
    /\ trail' = Logged(trail, q.d, None, "draft")
    /\ Finish(r)
    /\ UNCHANGED <<gates, confirmations, approvals>>

\* Only a draft can be edited; an edit may relink it to another gate.
BeginDirectiveUpdate(r) ==
    \E u \in Users, d \in Directives, g \in Gates, goal \in GateGoal :
        LET row == directives[d] IN
        /\ row.life = "live"
        /\ row.status = "draft"
        /\ row.version < MaxVersion
        /\ \E v \in ClientVersions(row.version) :
              Begin(r, u, "directive.update",
                    [Idle EXCEPT !.pc = "readEditGate", !.d = d, !.dir = row,
                                 !.g = g, !.goal = goal, !.expected = v])

ReadEditGate(r) ==
    /\ req[r].pc = "readEditGate"
    /\ gates[req[r].g].life = "live"
    /\ gates[req[r].g].status # "locked"
    /\ req' = [req EXCEPT ![r].pc = "commitDirectiveUpdate"]
    /\ UNCHANGED database

\* The whole row is written back as it was read, with the edited fields.
CommitDirectiveUpdate(r) ==
    LET q == req[r] IN
    /\ q.pc = "commitDirectiveUpdate"
    /\ Matches(directives[q.d], q.expected)
    /\ directives' = [directives EXCEPT ![q.d] =
            [q.dir EXCEPT !.version = q.expected + 1,
                          !.gate = q.g, !.goal = q.goal]]
    /\ trail' = Logged(trail, q.d, q.dir.status, q.dir.status)
    /\ Finish(r)
    /\ UNCHANGED <<gates, confirmations, approvals>>

\* Slip: the draft check is missing.
BeginDirectiveDeleteOfAny(r) ==
    \E u \in Users, d \in Directives :
        /\ directives[d].life = "live"
        /\ Begin(r, u, "directive.delete",
                 [Idle EXCEPT !.pc = "deleteDirective",
                              !.d = d, !.dir = directives[d]])

BeginDirectiveDelete(r) ==
    \E u \in Users, d \in Directives :
        /\ directives[d].life = "live"
        /\ directives[d].status = "draft"
        /\ Begin(r, u, "directive.delete",
                 [Idle EXCEPT !.pc = "deleteDirective",
                              !.d = d, !.dir = directives[d]])

\* The soft delete matches the row by id alone: neither the version nor the
\* status that was checked is part of its condition.
DeleteDirective(r) ==
    LET q == req[r] IN
    /\ q.pc = "deleteDirective"
    /\ directives[q.d].life = "live"
    /\ directives' = [directives EXCEPT ![q.d].life = "deleted"]
    /\ trail' = Logged(trail, q.d, q.dir.status, "deleted")
    /\ Finish(r)
    /\ UNCHANGED <<gates, confirmations, approvals>>

-----------------------------------------------------------------------------
(***************************************************************************)
(* Operation directives: Transition.                                       *)
(***************************************************************************)

\* The gate is read to start an execution and to abort a running one.
NeedsGate(row, target) ==
    \/ target = "executing"
    \/ row.status = "executing" /\ target = "aborted"

\* Slip: usernames are compared case-sensitively.
SecondPersonByName(row, actor) ==
    row.submittedBy # None /\ row.submittedBy # actor

\* Approval needs a submitter other than the approver.
SecondPerson(row, actor) ==
    row.submittedBy # None /\ Fold[row.submittedBy] # Fold[actor]

BeginDirectiveTransition(r) ==
    \E u \in Users, d \in Directives, target \in DirectiveState :
        LET row == directives[d] IN
        /\ row.life = "live"
        /\ CanTransition(OperationDirectiveTransitions, row.status, target)
        /\ target # "completed"
        /\ directiveRoleAllowed(target, RoleOf[u])
        /\ target = "approved" => SecondPerson(row, u)
        /\ \E v \in ClientVersions(row.version) :
              Begin(r, u, "directive.transition",
                    [Idle EXCEPT !.pc = IF NeedsGate(row, target)
                                        THEN "readLinkedGate"
                                        ELSE "commitDirective",
                                 !.actor = u, !.d = d, !.dir = row,
                                 !.target = target, !.expected = v])

\* The status the linked gate is to take, its own when it is left alone.
ExecutionGateTarget(dir, gate, target) ==
    IF target = "aborted" THEN "locked"
    ELSE IF gate.status # dir.goal THEN "moving" ELSE gate.status

\* A gate already at its target status is accepted, and not written.
Reachable(gate, target) ==
    gate.status = target \/ CanTransition(GateUnitTransitions, gate.status, target)

\* Slip: the locked gate is not refused.
ReadLinkedGateUnchecked(r) ==
    LET q == req[r]
        gate == gates[q.dir.gate]
    IN
    /\ q.pc = "readLinkedGate"
    /\ gate.life = "live"
    /\ Reachable(gate, ExecutionGateTarget(q.dir, gate, q.target))
    /\ req' = [req EXCEPT ![r].pc = "commitDirective", ![r].gate = gate]
    /\ UNCHANGED database

ReadLinkedGate(r) ==
    LET q == req[r]
        gate == gates[q.dir.gate]
    IN
    /\ q.pc = "readLinkedGate"
    /\ gate.life = "live"
    /\ q.target = "executing" => gate.status # "locked"
    /\ Reachable(gate, ExecutionGateTarget(q.dir, gate, q.target))
    /\ req' = [req EXCEPT ![r].pc = "commitDirective", ![r].gate = gate]
    /\ UNCHANGED database

\* The directive as the handler will write it.
Transitioned(dir, target, actor, version) ==
    [dir EXCEPT !.status = target, !.version = version,
                !.submittedBy = IF target = "pending" THEN actor ELSE @,
                !.approvedBy = IF target = "approved" THEN actor ELSE @]

\* Slip: the evidence does not name the account.
NewApprovalsUnattributed(target, actor) ==
    CASE target = "pending"  -> {[stage |-> "submitted", actor |-> None]}
      [] target = "approved" -> {[stage |-> "approved", actor |-> None]}
      [] OTHER -> {}
\* Slip: no evidence row for the approval stage.
NewApprovalsOnSubmit(target, actor) ==
    IF target = "pending" THEN {[stage |-> "submitted", actor |-> actor]} ELSE {}

\* The evidence a transition adds.
NewApprovals(target, actor) ==
    CASE target = "pending"  -> {[stage |-> "submitted", actor |-> actor]}
      [] target = "approved" -> {[stage |-> "approved", actor |-> actor]}
      [] OTHER -> {}

\* Write status `target` to gate g, read as `gate` by this handler, and log it
\* after what the transaction has already logged.
GateSettled(g, gate, target, log) ==
    IF gate.status = target
    THEN UNCHANGED gates /\ trail' = log
    ELSE /\ Matches(gates[g], gate.version)
         /\ gates' = [gates EXCEPT ![g] =
                [gate EXCEPT !.status = target, !.version = @ + 1]]
         /\ trail' = Logged(log, g, gate.status, target)

\* One transaction: directive, approval row (unique per stage), gate, audits.
CommitDirective(r) ==
    LET q == req[r]
        new == NewApprovals(q.target, q.actor)
        log == Logged(trail, q.d, q.dir.status, q.target)
    IN
    /\ q.pc = "commitDirective"
    /\ Matches(directives[q.d], q.expected)
    /\ \A a \in approvals[q.d], b \in new : a.stage # b.stage
    /\ directives' = [directives EXCEPT ![q.d] =
            Transitioned(q.dir, q.target, q.actor, q.expected + 1)]
    /\ approvals' = [approvals EXCEPT ![q.d] = @ \cup new]
    /\ IF NeedsGate(q.dir, q.target)
       THEN GateSettled(q.dir.gate, q.gate,
                        ExecutionGateTarget(q.dir, q.gate, q.target), log)
       ELSE UNCHANGED gates /\ trail' = log
    /\ Finish(r)
    /\ UNCHANGED confirmations

-----------------------------------------------------------------------------
(***************************************************************************)
(* Execution confirmations: the receipt of an executing directive.         *)
(***************************************************************************)

\* requireExecutingDirective: the directive a receipt belongs to.
IsExecuting(d) ==
    directives[d].life = "live" /\ directives[d].status = "executing"

BeginConfirmationCreate(r) ==
    \E u \in Users, c \in Confirmations, d \in Directives :
        /\ IsExecuting(d)
        /\ Begin(r, u, "confirmation.create",
                 [Idle EXCEPT !.pc = "countReceipts", !.c = c, !.d = d])

\* CountByDirectiveCode does not see soft-deleted receipts.
CountReceipts(r) ==
    /\ req[r].pc = "countReceipts"
    /\ \A c \in Confirmations :
          confirmations[c].life = "live" => confirmations[c].directive # req[r].d
    /\ req' = [req EXCEPT ![r].pc = "insertConfirmation"]
    /\ UNCHANGED database

\* Slip: related_code has no unique index, only the count above.
ReceiptFitsByCode(c, d) == confirmations[c].life = "absent"

\* The unique indexes on code and related_code, over soft-deleted rows too.
ReceiptFits(c, d) ==
    /\ confirmations[c].life = "absent"
    /\ \A other \in Confirmations : confirmations[other].directive # d

InsertConfirmation(r) ==
    LET q == req[r] IN
    /\ q.pc = "insertConfirmation"
    /\ ReceiptFits(q.c, q.d)
    /\ confirmations' = [confirmations EXCEPT ![q.c] =
            [life |-> "live", status |-> "pending", version |-> 1, directive |-> q.d]]
    /\ trail' = Logged(trail, q.c, None, "pending")
    /\ Finish(r)
    /\ UNCHANGED <<gates, directives, approvals>>

BeginConfirmationUpdate(r) ==
    \E u \in Users, c \in Confirmations :
        LET row == confirmations[c] IN
        /\ row.life = "live"
        /\ row.status = "pending"
        /\ row.version < MaxVersion
        /\ \E v \in ClientVersions(row.version) :
              Begin(r, u, "confirmation.update",
                    [Idle EXCEPT !.pc = "requireExecuting",
                                 !.c = c, !.conf = row, !.expected = v])

RequireExecuting(r) ==
    /\ req[r].pc = "requireExecuting"
    /\ IsExecuting(req[r].conf.directive)
    /\ req' = [req EXCEPT ![r].pc = "commitConfirmationUpdate"]
    /\ UNCHANGED database

CommitConfirmationUpdate(r) ==
    LET q == req[r] IN
    /\ q.pc = "commitConfirmationUpdate"
    /\ Matches(confirmations[q.c], q.expected)
    /\ confirmations' = [confirmations EXCEPT ![q.c] =
            [q.conf EXCEPT !.version = q.expected + 1]]
    /\ trail' = Logged(trail, q.c, q.conf.status, q.conf.status)
    /\ Finish(r)
    /\ UNCHANGED <<gates, directives, approvals>>

\* A pending receipt settles its directive; a failed one is only cancelled.
BeginConfirmationTransition(r) ==
    \E u \in Users, c \in Confirmations, target \in ConfirmationState :
        LET row == confirmations[c] IN
        /\ row.life = "live"
        /\ CanTransition(ExecutionConfirmationTransitions, row.status, target)
        /\ \E v \in ClientVersions(row.version) :
              Begin(r, u, "confirmation.transition",
                    [Idle EXCEPT !.pc = IF row.status = "pending"
                                        THEN "readOutcomeDirective"
                                        ELSE "commitCancellation",
                                 !.c = c, !.conf = row,
                                 !.target = target, !.expected = v])

ReadOutcomeDirective(r) ==
    LET d == req[r].conf.directive IN
    /\ req[r].pc = "readOutcomeDirective"
    /\ IsExecuting(d)
    /\ req' = [req EXCEPT ![r].pc = "readOutcomeGate", ![r].dir = directives[d]]
    /\ UNCHANGED database

\* What a receipt makes of its directive and of the linked gate.
DirectiveOutcome(receipt) == IF receipt = "confirmed" THEN "completed" ELSE "aborted"

\* Slip: a failed receipt leaves the gate at the goal, as a confirmed one does.
GateOutcomeAlwaysGoal(receipt, dir) == dir.goal

GateOutcome(receipt, dir) == IF receipt = "confirmed" THEN dir.goal ELSE "locked"

ReadOutcomeGate(r) ==
    LET q == req[r]
        gate == gates[q.dir.gate]
    IN
    /\ q.pc = "readOutcomeGate"
    /\ gate.life = "live"
    /\ Reachable(gate, GateOutcome(q.target, q.dir))
    /\ req' = [req EXCEPT ![r].pc = "commitOutcome", ![r].gate = gate]
    /\ UNCHANGED database

\* One transaction: the receipt at the client's version, then the directive
\* and the gate at the versions this handler read, each with its audit row.
CommitOutcome(r) ==
    LET q == req[r]
        d == q.conf.directive
        outcome == DirectiveOutcome(q.target)
        log == Logged(Logged(trail, q.c, q.conf.status, q.target),
                      d, q.dir.status, outcome)
    IN
    /\ q.pc = "commitOutcome"
    /\ Matches(confirmations[q.c], q.expected)
    /\ Matches(directives[d], q.dir.version)
    /\ confirmations' = [confirmations EXCEPT ![q.c] =
            [q.conf EXCEPT !.status = q.target, !.version = q.expected + 1]]
    /\ directives' = [directives EXCEPT ![d] =
            [q.dir EXCEPT !.status = outcome, !.version = @ + 1]]
    /\ GateSettled(q.dir.gate, q.gate, GateOutcome(q.target, q.dir), log)
    /\ Finish(r)
    /\ UNCHANGED approvals

CommitCancellation(r) ==
    LET q == req[r] IN
    /\ q.pc = "commitCancellation"
    /\ Matches(confirmations[q.c], q.expected)
    /\ confirmations' = [confirmations EXCEPT ![q.c] =
            [q.conf EXCEPT !.status = q.target, !.version = q.expected + 1]]
    /\ trail' = Logged(trail, q.c, q.conf.status, q.target)
    /\ Finish(r)
    /\ UNCHANGED <<gates, directives, approvals>>

BeginConfirmationDelete(r) ==
    \E u \in Users, c \in Confirmations :
        /\ confirmations[c].life = "live"
        /\ confirmations[c].status = "pending"
        /\ Begin(r, u, "confirmation.delete",
                 [Idle EXCEPT !.pc = "deleteConfirmation",
                              !.c = c, !.conf = confirmations[c]])

DeleteConfirmation(r) ==
    LET q == req[r] IN
    /\ q.pc = "deleteConfirmation"
    /\ confirmations[q.c].life = "live"
    /\ confirmations' = [confirmations EXCEPT ![q.c].life = "deleted"]
    /\ trail' = Logged(trail, q.c, q.conf.status, "deleted")
    /\ Finish(r)
    /\ UNCHANGED <<gates, directives, approvals>>

-----------------------------------------------------------------------------
(***************************************************************************)
(* Gates, as far as dispatching meets them: field edits, manual moves and  *)
(* deletion, none of which looks at the directives of the gate.            *)
(***************************************************************************)

BeginGateUpdate(r) ==
    \E u \in Users, g \in Gates :
        LET row == gates[g] IN
        /\ row.life = "live"
        /\ row.version < MaxVersion
        /\ \E v \in ClientVersions(row.version) :
              Begin(r, u, "gate.update",
                    [Idle EXCEPT !.pc = "commitGate", !.g = g, !.gate = row,
                                 !.target = row.status, !.expected = v])

BeginGateTransition(r) ==
    \E u \in Users, g \in Gates, target \in GateState :
        LET row == gates[g] IN
        /\ row.life = "live"
        /\ CanTransition(GateUnitTransitions, row.status, target)
        /\ row.version < MaxVersion
        /\ \E v \in ClientVersions(row.version) :
              Begin(r, u, "gate.transition",
                    [Idle EXCEPT !.pc = "commitGate", !.g = g, !.gate = row,
                                 !.target = target, !.expected = v])

CommitGate(r) ==
    LET q == req[r] IN
    /\ q.pc = "commitGate"
    /\ Matches(gates[q.g], q.expected)
    /\ gates' = [gates EXCEPT ![q.g] =
            [q.gate EXCEPT !.status = q.target, !.version = q.expected + 1]]
    /\ trail' = Logged(trail, q.g, q.gate.status, q.target)
    /\ Finish(r)
    /\ UNCHANGED <<directives, confirmations, approvals>>

BeginGateDelete(r) ==
    \E u \in Users, g \in Gates :
        /\ gates[g].life = "live"
        /\ Begin(r, u, "gate.delete",
                 [Idle EXCEPT !.pc = "deleteGate", !.g = g, !.gate = gates[g]])

DeleteGate(r) ==
    LET q == req[r] IN
    /\ q.pc = "deleteGate"
    /\ gates[q.g].life = "live"
    /\ gates' = [gates EXCEPT ![q.g].life = "deleted"]
    /\ trail' = Logged(trail, q.g, q.gate.status, "deleted")
    /\ Finish(r)
    /\ UNCHANGED <<directives, confirmations, approvals>>

-----------------------------------------------------------------------------
(***************************************************************************)
(* A request in flight may end at any point with the database as it was:   *)
(* a check that refuses, a write that matches no row, a unique index, a    *)
(* database error (the audit insert included) that rolls the transaction   *)
(* back, a cancelled context or a crash of the server.                     *)
(***************************************************************************)
Fail(r) ==
    /\ req[r] # Idle
    /\ Finish(r)
    /\ UNCHANGED database

\* The gates are the seeded ones; directives and receipts come later.
Init ==
    /\ gates \in [Gates -> [life : {"live"}, version : {1},
                            status : {"open", "closed", "moving"}]]
    /\ directives = [d \in Directives |-> NoDirective]
    /\ confirmations = [c \in Confirmations |-> NoConfirmation]
    /\ approvals = [d \in Directives |-> {}]
    /\ trail = [e \in Entities |-> [rows |-> 0, before |-> None, after |-> None]]
    /\ req = [r \in Requests |-> Idle]

DirectiveStep(r) ==
    \/ BeginDirectiveCreate(r) \/ InsertDirective(r)
    \/ BeginDirectiveUpdate(r) \/ ReadEditGate(r) \/ CommitDirectiveUpdate(r)
    \/ BeginDirectiveTransition(r) \/ ReadLinkedGate(r) \/ CommitDirective(r)
    \/ BeginDirectiveDelete(r) \/ DeleteDirective(r)

ConfirmationStep(r) ==
    \/ BeginConfirmationCreate(r) \/ CountReceipts(r) \/ InsertConfirmation(r)
    \/ BeginConfirmationUpdate(r) \/ RequireExecuting(r)
    \/ CommitConfirmationUpdate(r)
    \/ BeginConfirmationTransition(r) \/ ReadOutcomeDirective(r)
    \/ ReadOutcomeGate(r) \/ CommitOutcome(r) \/ CommitCancellation(r)
    \/ BeginConfirmationDelete(r) \/ DeleteConfirmation(r)

GateStep(r) ==
    \/ BeginGateUpdate(r) \/ BeginGateTransition(r) \/ CommitGate(r)
    \/ BeginGateDelete(r) \/ DeleteGate(r)

Next ==
    \E r \in Requests :
        DirectiveStep(r) \/ ConfirmationStep(r) \/ GateStep(r) \/ Fail(r)

Spec == Init /\ [][Next]_vars

-----------------------------------------------------------------------------
(***************************************************************************)
(* Properties.                                                             *)
(***************************************************************************)

\* Every table, the audit trail and the memory of every handler hold what the
\* Go types and the columns allow; a live directive always links to a gate and
\* a live receipt to a directive.
TypeOK ==
    /\ gates \in [Gates -> GateRow]
    /\ directives \in [Directives -> DirectiveRow]
    /\ confirmations \in [Confirmations -> ConfirmationRow]
    /\ approvals \in [Directives -> SUBSET ApprovalRow]
    /\ trail \in [Entities -> [rows : Nat, before : AuditState, after : AuditState]]
    /\ req \in [Requests -> Request]

\* What the handler of a request has already checked when it is at step pc.
HandlerChecked(q) ==
    /\ q.pc = "idle" => q = Idle
    /\ q.pc \in {"insertDirective", "readEditGate", "commitDirectiveUpdate"} =>
         q.d \in Directives /\ q.g \in Gates
    /\ q.pc \in {"readEditGate", "commitDirectiveUpdate"} =>
         q.dir.life = "live" /\ q.dir.status = "draft"
    /\ q.pc = "readLinkedGate" => NeedsGate(q.dir, q.target)
    /\ q.pc \in {"readLinkedGate", "commitDirective"} =>
         /\ q.d \in Directives /\ q.g = None /\ q.actor \in Users
         /\ q.dir.life = "live" /\ q.target # "completed"
         /\ CanTransition(OperationDirectiveTransitions, q.dir.status, q.target)
         /\ q.target = "approved" => SecondPerson(q.dir, q.actor)
    /\ q.pc = "commitDirective" /\ NeedsGate(q.dir, q.target) =>
         /\ q.gate.life = "live"
         /\ Reachable(q.gate, ExecutionGateTarget(q.dir, q.gate, q.target))
    /\ q.pc = "deleteDirective" => q.d \in Directives
    /\ q.pc \in {"countReceipts", "insertConfirmation"} =>
         q.c \in Confirmations /\ q.d \in Directives
    /\ q.pc \in {"requireExecuting", "commitConfirmationUpdate",
                 "readOutcomeDirective", "readOutcomeGate", "commitOutcome",
                 "commitCancellation"} =>
         q.c \in Confirmations /\ q.conf.life = "live"
    /\ q.pc \in {"readOutcomeDirective", "readOutcomeGate", "commitOutcome",
                 "commitCancellation"} =>
         CanTransition(ExecutionConfirmationTransitions, q.conf.status, q.target)
    /\ q.pc \in {"readOutcomeDirective", "readOutcomeGate", "commitOutcome"} =>
         q.conf.status = "pending" /\ q.d = None /\ q.g = None
    /\ q.pc = "readOutcomeDirective" => q.gate = NoGate
    /\ q.pc \in {"readOutcomeGate", "commitOutcome"} =>
         q.dir.life = "live" /\ q.dir.status = "executing"
    /\ q.pc = "commitOutcome" =>
         q.gate.life = "live" /\ Reachable(q.gate, GateOutcome(q.target, q.dir))
    /\ q.pc = "deleteConfirmation" => q.c \in Confirmations
    /\ q.pc = "commitGate" =>
         q.g \in Gates /\ q.gate.life = "live" /\ Reachable(q.gate, q.target)
    /\ q.pc = "deleteGate" => q.g \in Gates

HandlersChecked == \A r \in Requests : HandlerChecked(req[r])

\* Read as `snapshot`, the row is now still the same (deletion aside), or its
\* version tells that it is not.
Sound(snapshot, row) ==
    /\ row.life # "absent"
    /\ snapshot.version <= row.version
    /\ row.version = snapshot.version => [row EXCEPT !.life = "live"] = snapshot

\* The directive and the gate whose rows request q holds.
DirectiveOf(q) == IF q.d # None THEN q.d ELSE q.conf.directive
GateOf(q) == IF q.g # None THEN q.g ELSE q.dir.gate

MemorySound(q) ==
    /\ q.conf.life = "live" =>
         q.c \in Confirmations /\ Sound(q.conf, confirmations[q.c])
    /\ q.dir.life = "live" =>
         DirectiveOf(q) \in Directives /\ Sound(q.dir, directives[DirectiveOf(q)])
    /\ q.gate.life = "live" =>
         GateOf(q) \in Gates /\ Sound(q.gate, gates[GateOf(q)])

\* A version number identifies the contents of a row: a handler that finds the
\* row at the version it had read finds what it had read, so that everything it
\* checked before its transaction still holds inside.
SnapshotsSound == \A r \in Requests : MemorySound(req[r])

\* Whoever races with whom, a directive past approval was submitted by one
\* account and approved by another (two-person check of Transition against
\* the full-row write of a request that read the row earlier).
TwoPersonRule ==
    \A d \in Directives :
        directives[d].status \in {"approved", "executing", "completed"} =>
            /\ directives[d].submittedBy # None
            /\ directives[d].approvedBy # None
            /\ Fold[directives[d].submittedBy] # Fold[directives[d].approvedBy]

\* The append-only approval rows and the submitted_by and approved_by columns
\* of a directive tell the same story: one row per recorded person, and no row
\* for a person the directive does not name.
ApprovalEvidence ==
    \A d \in Directives :
        approvals[d] =
            { a \in ApprovalRow :
                a.actor = IF a.stage = "submitted" THEN directives[d].submittedBy
                                                  ELSE directives[d].approvedBy }

\* Receipt and directive agree at all times: a directive is completed exactly
\* by its confirmed receipt, a failed one aborts it, and a receipt still
\* pending belongs to a directive that is executing or was aborted by hand.
OutcomeAgreement ==
    /\ \A c \in Confirmations :
         LET status == confirmations[c].status
             directive == directives[confirmations[c].directive].status
         IN  confirmations[c].life # "absent" =>
             /\ status = "pending" => directive \in {"executing", "aborted"}
             /\ status = "confirmed" => directive = "completed"
             /\ status \in {"failed", "cancelled"} => directive = "aborted"
    /\ \A d \in Directives :
         directives[d].status = "completed" =>
             \E c \in Confirmations : /\ confirmations[c].directive = d
                                      /\ confirmations[c].status = "confirmed"

Row(e) == IF e \in Gates THEN gates[e]
          ELSE IF e \in Directives THEN directives[e] ELSE confirmations[e]

AuditedState(row) ==
    CASE row.life = "absent"  -> None
      [] row.life = "deleted" -> "deleted"
      [] OTHER -> row.status

AuditedSteps ==
    \A e \in Entities :
       IF Row(e)' = Row(e) THEN trail'[e] = trail[e]
       ELSE /\ trail'[e].rows = trail[e].rows + 1
            /\ trail'[e].after = AuditedState(Row(e)')
            /\ Row(e)'.life # "deleted" =>
                  trail'[e].before = AuditedState(Row(e))

\* No row changes without exactly one audit row of the same commit that names
\* the state before and after, and no audit row is written for an unchanged
\* row.  (The state before a deletion is the one the handler had read.)
AuditedChanges == [][AuditedSteps]_vars

LawfulStep(old, new, graph) ==
    new.status # old.status =>
        /\ old.life = "live"
        /\ new.version = old.version + 1
        /\ CanTransition(graph, old.status, new.status)

LawfulSteps ==
    /\ \A g \in Gates :
          LawfulStep(gates[g], gates'[g], GateUnitTransitions)
    /\ \A d \in Directives :
          LawfulStep(directives[d], directives'[d], OperationDirectiveTransitions)
    /\ \A c \in Confirmations :
          LawfulStep(confirmations[c], confirmations'[c],
                     ExecutionConfirmationTransitions)

\* Although the graphs are consulted before the transaction, no commit moves a
\* live row along anything but an edge of its graph: no approval is skipped, no
\* terminal status is left, a gate passes moving.
LawfulTransitions == [][LawfulSteps]_vars

FrozenSteps ==
    \A d \in Directives :
       directives[d].status # "draft" =>
          /\ directives'[d].gate = directives[d].gate
          /\ directives'[d].goal = directives[d].goal
          /\ directives'[d].submittedBy = directives[d].submittedBy
          /\ directives[d].approvedBy \in {None, directives'[d].approvedBy}

\* What was submitted is what is executed: once a directive left draft, no
\* edit that was under way changes its gate or goal, and the persons on record
\* are never replaced.
FrozenAfterSubmission == [][FrozenSteps]_vars

Moves(d, from, to) ==
    directives[d].status = from /\ directives'[d].status = to

\* A receipt never settles alone: when it leaves pending, its directive leaves
\* executing in the same commit, with the outcome the receipt tells.  So a receipt
\* whose directive was aborted in the meantime, by hand or under a settlement that
\* had already read it as executing, is not settled any more.
SettleTogether ==
    [][\A c \in Confirmations :
         LET d == confirmations[c].directive IN
         confirmations[c].status = "pending" /\ confirmations'[c].status # "pending"
            => Moves(d, "executing", DirectiveOutcome(confirmations'[c].status))]_vars

\* Request r, which makes this step, had read gate g at one of the statuses, and
\* the gate has been written or deleted since.
Overtaken(r, g, statuses) ==
    /\ req[r].pc \in {"commitDirective", "commitOutcome"}
    /\ req'[r] # req[r]
    /\ req[r].gate.status \in statuses
    /\ gates[g] # req[r].gate

\* The step leaves the gate of directive d usable and at one of the statuses, or
\* its request had read the gate there and was overtaken.
GateEnds(d, statuses) ==
    LET g == directives[d].gate IN
    \/ gates'[g].life = "live" /\ gates'[g].status \in statuses
    \/ \E r \in Requests : Overtaken(r, g, statuses)

\* A directive that starts, completes or is aborted leaves its gate where that
\* takes it (moving or at the goal, never locked; at the goal; locked), however its
\* handler races.  There is one way around it: a gate that stood there when the
\* handler read it is not written, so nothing notices that it has changed since.
GateFollowsUnlessOvertaken ==
    [][\A d \in Directives :
         LET goal == directives[d].goal IN
         /\ Moves(d, "approved", "executing")
               => GateEnds(d, {"moving", goal} \ {"locked"})
         /\ Moves(d, "executing", "completed") => GateEnds(d, {goal})
         /\ Moves(d, "executing", "aborted") => GateEnds(d, {"locked"})]_vars

\* A deletion takes a draft, or a directive that was one when the deleting
\* request checked it and has been written since.
DeletedAsDraft ==
    [][\A d \in Directives :
         directives[d].life = "live" /\ directives'[d].life = "deleted" =>
            \/ directives[d].status = "draft"
            \/ \E r \in Requests :
                  /\ req[r].pc = "deleteDirective" /\ req[r].d = d
                  /\ req'[r] # req[r]
                  /\ req[r].dir.status = "draft"
                  /\ req[r].dir.version < directives[d].version]_vars

\* A lock put on a gate while a directive executes on it survives that
\* directive's start, abort and failure, and whatever other directives and requests
\* do on the gate: it is lifted by hand, or by a confirmed receipt whose directive
\* wanted the gate closed.
LockOutlivesFailure ==
    [][\A g \in Gates :
         gates[g].status = "locked" /\ gates'[g].status # "locked" =>
            /\ gates'[g].status = "closed"
            /\ \A d \in Directives :
                  directives'[d] # directives[d] =>
                     /\ Moves(d, "executing", "completed")
                     /\ directives[d].gate = g
                     /\ directives[d].goal = "closed"]_vars

\* The claim that a completed directive leaves its gate at the goal, and that one
\* aborted while executing leaves it locked, in the same commit.
GateFollowsOutcome ==
    [][\A d \in Directives :
         LET gate == gates'[directives[d].gate].status IN
         /\ Moves(d, "executing", "completed") => gate = directives[d].goal
         /\ Moves(d, "executing", "aborted") => gate = "locked"]_vars

\* The claim that only a draft is ever deleted.
OnlyDraftsDeleted ==
    [][\A d \in Directives :
         directives[d].life = "live" /\ directives'[d].life = "deleted"
            => directives[d].status = "draft"]_vars

\* The claim that any active stage can be aborted by those with the right to: the
\* handler of an authorised abort of an executing directive gets past its gate.
AbortIsPossible ==
    \A r \in Requests :
        req[r].pc = "readLinkedGate" /\ req[r].target = "aborted"
           => ENABLED ReadLinkedGate(r)

\* What is left of the tables when versions and gates are abstracted away.
Permit(row) ==
    [ life |-> row.life, status |-> row.status, gate |-> row.gate,
      goal |-> row.goal, submittedBy |-> row.submittedBy,
      approvedBy |-> row.approvedBy ]

Receipt(row) ==
    [life |-> row.life, status |-> row.status, directive |-> row.directive]

Promise == INSTANCE Permits WITH
    permits  <- [d \in Directives |-> Permit(directives[d])],
    evidence <- approvals,
    receipts <- [c \in Confirmations |-> Receipt(confirmations[c])]

\* The interleaved handlers, deciding on rows they read earlier, implement
\* permits whose operations happen at one instant each: every commit is one
\* step of one operation that was lawful at that very moment.
ImplementsPermits == Promise!Spec

=============================================================================
