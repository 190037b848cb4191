---------------------------- MODULE Transactions ----------------------------
(***************************************************************************)
(* The transactions of the services, statement by statement                *)
(* (backend/internal/repository/base.go).  A transaction locks each row it *)
(* writes, waits when another one holds it, re-evaluates its WHERE clause  *)
(* on the committed row once it has the lock, and keeps its locks to the   *)
(* end.  The database and its lock manager are external; what the code     *)
(* chooses are the statements, their order and their conditions.           *)
(*                                                                         *)
(* A nested transaction (databaseForContext finds the outer one in the     *)
(* context) is a savepoint of the outer transaction, whose error the       *)
(* services always pass on: it adds no commit of its own.                  *)
(***************************************************************************)
EXTENDS Naturals, Sequences

CONSTANTS
    Confirmations, Directives, Gates,   \* the rows of three tables; reservoirs
                                        \* are written alone, as gates can be
    Txns,                               \* database connections
    MaxVersion                          \* bound on expected versions

\* The rows of directive_approvals, as its unique index names them.
Approvals == Directives \X {"submitted", "approved"}

\* The rows whose changes are audited, and all rows.
Audited == Confirmations \cup Directives \cup Gates
Rows == Audited \cup Approvals

ASSUME TablesAssumption ==
    /\ Confirmations \cap Directives = {}
    /\ Confirmations \cap Gates = {}
    /\ Directives \cap Gates = {}
    /\ Audited \cap Approvals = {}
ASSUME BoundAssumption == MaxVersion \in Nat \ {0}

VARIABLES
    rows,     \* row -> its committed [life, version]
    trail,    \* row -> number of its committed audit rows
    txn       \* connection -> its transaction

vars == <<rows, trail, txn>>

-----------------------------------------------------------------------------
\* Statements: an insert, a versioned full-row update, a soft delete by id, and
\* an insert into audit_logs about a row.
Insert(x) == [op |-> "insert", row |-> x]
Update(x) == [op |-> "update", row |-> x]
Delete(x) == [op |-> "delete", row |-> x]
Audit(x)  == [op |-> "audit", row |-> x]

\* The service methods that run a transaction, by the rows they write in
\* order.  The gate is left out when it already is where it should be.
CreateWithAudit(x) == <<Insert(x), Audit(x)>>
UpdateWithAudit(x) == <<Update(x), Audit(x)>>
DeleteWithAudit(x) == <<Delete(x), Audit(x)>>

\* A submission or an approval of directive a[1].
TransitionWithApproval(a) == <<Update(a[1]), Insert(a), Audit(a[1])>>

\* Slip: the gate is written before the directive.
StartOrAbortGateFirst(d, g) == UpdateWithAudit(g) \o UpdateWithAudit(d)

StartOrAbort(d, g) == UpdateWithAudit(d) \o UpdateWithAudit(g)

Settle(c, d, g) ==
    UpdateWithAudit(c) \o UpdateWithAudit(d) \o UpdateWithAudit(g)

SettleAtGoal(c, d) == UpdateWithAudit(c) \o UpdateWithAudit(d)

Plans ==
    { CreateWithAudit(x) : x \in Audited }
    \cup { UpdateWithAudit(x) : x \in Audited }
    \cup { DeleteWithAudit(x) : x \in Audited }
    \cup { TransitionWithApproval(a) : a \in Approvals }
    \cup { StartOrAbort(d, g) : d \in Directives, g \in Gates }
    \cup { SettleAtGoal(c, d) : c \in Confirmations, d \in Directives }
    \cup { Settle(c, d, g) : c \in Confirmations, d \in Directives, g \in Gates }

\* The rows a plan inserts, updates, deletes or audits.
Named(plan, op) ==
    { plan[i].row : i \in { k \in DOMAIN plan : plan[k].op = op } }

Absent == [life |-> "absent", version |-> 0]
New == [life |-> "live", version |-> 1]

NoTxn == [plan |-> <<>>, done |-> 0, seen |-> <<>>]

Running(t) == txn[t] # NoTxn
Current(t) == txn[t].plan[txn[t].done + 1]
HasStatement(t) == Running(t) /\ txn[t].done < Len(txn[t].plan)

\* The rows a transaction has locked: those its past statements wrote.  An
\* inserted row is locked by its entry in the unique index.
Locked(t) ==
    { txn[t].plan[i].row : i \in { k \in 1..txn[t].done : txn[t].plan[k].op # "audit" } }

\* Transaction t has to wait for u's lock.
\* Slip: a soft delete does not take part in row locking.
UpdatesWaitFor(t, u) ==
    /\ u # t
    /\ HasStatement(t)
    /\ Current(t).op = "update"
    /\ Current(t).row \in Locked(u)

WaitsFor(t, u) ==
    /\ u # t
    /\ HasStatement(t)
    /\ Current(t).op # "audit"
    /\ Current(t).row \in Locked(u)

Waiting(t) == \E u \in Txns : WaitsFor(t, u)

Advance(t) == txn' = [txn EXCEPT ![t].done = @ + 1]

-----------------------------------------------------------------------------
\* A service method has found its rows and opens its transaction.  The versions
\* it expects are the ones it read or the client sent: nothing relates them to
\* the rows as they will be when the statements run.
Begin(t) ==
    /\ ~Running(t)
    /\ \E plan \in Plans : \E seen \in [Named(plan, "update") -> 1..MaxVersion] :
          /\ \A x \in Named(plan, "update") \cup Named(plan, "delete") :
                rows[x].life = "live"
          /\ \A x \in DOMAIN seen : seen[x] <= rows[x].version
          /\ txn' = [txn EXCEPT ![t] = [plan |-> plan, done |-> 0, seen |-> seen]]
    /\ UNCHANGED <<rows, trail>>

\* The WHERE clause of a write, or the unique index met by an insert, on the row
\* as last committed.  A soft-deleted row still has its entry in the index.
Meets(statement, seen) ==
    LET row == rows[statement.row] IN
    /\ row.life = IF statement.op = "insert" THEN "absent" ELSE "live"
    /\ statement.op = "update" => row.version = seen[statement.row]

\* Slip: a write does not compare the version.
MatchesById(t) ==
    rows[Current(t).row].life = IF Current(t).op = "insert" THEN "absent" ELSE "live"

Matches(t) == Meets(Current(t), txn[t].seen)

\* The write has the row lock and affects its row.
Write(t) ==
    /\ HasStatement(t)
    /\ Current(t).op # "audit"
    /\ ~Waiting(t)
    /\ Matches(t)
    /\ Advance(t)
    /\ UNCHANGED <<rows, trail>>

\* RowsAffected is 0 (ErrVersionConflict or ErrRecordNotFound) or the index
\* refuses, which makes the transaction function fail and gorm roll back.
Refuse(t) ==
    /\ HasStatement(t)
    /\ Current(t).op # "audit"
    /\ ~Waiting(t)
    /\ ~Matches(t)
    /\ txn' = [txn EXCEPT ![t] = NoTxn]
    /\ UNCHANGED <<rows, trail>>

InsertAudit(t) ==
    /\ HasStatement(t)
    /\ Current(t).op = "audit"
    /\ Advance(t)
    /\ UNCHANGED <<rows, trail>>

\* The statements take effect together, and the locks are free.
Commit(t) ==
    /\ Running(t)
    /\ txn[t].done = Len(txn[t].plan)
    /\ rows' = [x \in Rows |->
          CASE x \in Named(txn[t].plan, "insert") -> New
            [] x \in Named(txn[t].plan, "update") ->
                  [rows[x] EXCEPT !.version = txn[t].seen[x] + 1]
            [] x \in Named(txn[t].plan, "delete") -> [rows[x] EXCEPT !.life = "deleted"]
            [] OTHER -> rows[x]]
    /\ trail' = [x \in Rows |->
          trail[x] + IF x \in Named(txn[t].plan, "audit") THEN 1 ELSE 0]
    /\ txn' = [txn EXCEPT ![t] = NoTxn]

\* A failed statement (a receipt's unique index on its directive can refuse it
\* too), a cancelled request context or a lost connection rolls one transaction
\* back; a crash of the server all of them.
Rollback(t) ==
    /\ Running(t)
    /\ txn' = [txn EXCEPT ![t] = NoTxn]
    /\ UNCHANGED <<rows, trail>>

Crash ==
    /\ \E t \in Txns : Running(t)
    /\ txn' = [t \in Txns |-> NoTxn]
    /\ UNCHANGED <<rows, trail>>

\* A new database.
Init ==
    /\ rows = [x \in Rows |-> Absent]
    /\ trail = [x \in Rows |-> 0]
    /\ txn = [t \in Txns |-> NoTxn]

Next ==
    \/ \E t \in Txns :
          \/ Begin(t) \/ Write(t) \/ Refuse(t) \/ InsertAudit(t)
          \/ Commit(t) \/ Rollback(t)
    \/ Crash

\* A handler runs to its end, and the lock queue of a row is first come first
\* served: who keeps finding the lock free or freed gets it.
Fairness ==
    \A t \in Txns :
        /\ SF_vars(Write(t) \/ Refuse(t))
        /\ WF_vars(InsertAudit(t) \/ Commit(t))

Spec == Init /\ [][Next]_vars /\ Fairness

-----------------------------------------------------------------------------
\* The types, and that locks exclude each other.
TypeOK ==
    /\ rows \in [Rows -> [life : {"absent", "live", "deleted"}, version : Nat]]
    /\ trail \in [Rows -> Nat]
    /\ \A t \in Txns : Running(t) =>
         /\ txn[t].plan \in Plans
         /\ txn[t].done \in 0..Len(txn[t].plan)
         /\ txn[t].seen \in [Named(txn[t].plan, "update") -> 1..MaxVersion]
    /\ \A t, u \in Txns : t # u => Locked(t) \cap Locked(u) = {}

\* No transactions wait for each other in a circle: whatever set of them is
\* stuck, one of its members waits for nobody inside it.
NoCircularWait ==
    \A stuck \in (SUBSET Txns) \ {{}} :
        \E t \in stuck : \A u \in stuck : ~WaitsFor(t, u)

\* Every transaction comes to its end, however the others contend with it.
EveryTransactionEnds == \A t \in Txns : Running(t) ~> ~Running(t)

\* The statements of interleaved transactions amount to one atomic change
\* each, on rows that are as the transaction expects and with its evidence.
JobOf(t) ==
    IF ~Running(t) THEN NoTxn
    ELSE [inserts |-> Named(txn[t].plan, "insert"),
          deletes |-> Named(txn[t].plan, "delete"),
          writes |-> { [row |-> x, version |-> txn[t].seen[x]] :
                       x \in Named(txn[t].plan, "update") }]

Store == INSTANCE AtomicStore WITH
    Silent <- Approvals, Jobs <- Txns, NoJob <- NoTxn, job <- [t \in Txns |-> JobOf(t)]

ActsAtomically == Store!Spec

=============================================================================
