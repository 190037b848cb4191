------------------------- MODULE TransactionsProofs -------------------------
(***************************************************************************)
(* Machine-checked proofs about Transactions, for any number of rows and   *)
(* connections: locks exclude each other, nobody waits in a circle, and    *)
(* the statements of interleaved transactions amount to one atomic change  *)
(* each.                                                                   *)
(*                                                                         *)
(* The order of the statements in the service methods is all there is to   *)
(* the second: every plan writes receipts before directives before gates   *)
(* or approvals.                                                           *)
(* The third rests on the locks: what a statement has checked on a row     *)
(* stays true until the commit, because nobody else can commit that row.   *)
(***************************************************************************)
EXTENDS Transactions, SequenceTheorems, TLAPS

-----------------------------------------------------------------------------
(***************************************************************************)
(* 1. The plans.                                                           *)
(***************************************************************************)
Statement == [op : {"insert", "update", "delete", "audit"}, row : Rows]

Row == [life : {"absent", "live", "deleted"}, version : Nat]

\* The order in which the service methods write the tables.
Rank(x) == IF x \in Confirmations THEN 1 ELSE IF x \in Directives THEN 2 ELSE 3

LEMMA Ranks ==
    /\ \A c \in Confirmations : c \in Audited /\ Rank(c) = 1
    /\ \A d \in Directives : d \in Audited /\ Rank(d) = 2
    /\ \A g \in Gates : g \in Audited /\ Rank(g) = 3
    /\ \A a \in Approvals :
         a \in Rows /\ a \notin Audited /\ a[1] \in Directives /\ Rank(a) = 3
    /\ \A x \in Audited : x \in Rows /\ x \notin Approvals
  <1>1. ASSUME NEW a \in Approvals
        PROVE  a \in Rows /\ a \notin Audited /\ a[1] \in Directives
    BY TablesAssumption DEF Approvals, Rows
  <1>2. \A a \in Approvals : Rank(a) = 3
    BY <1>1 DEF Rank, Audited
  <1>3. /\ \A c \in Confirmations : c \in Audited /\ Rank(c) = 1
        /\ \A d \in Directives : d \in Audited /\ Rank(d) = 2
        /\ \A g \in Gates : g \in Audited /\ Rank(g) = 3
    BY TablesAssumption DEF Audited, Rank
  <1> QED
    BY <1>1, <1>2, <1>3 DEF Rows

WritesInOrder(plan) ==
    \A i, j \in 1..Len(plan) :
        i < j /\ plan[i].op # "audit" /\ plan[j].op # "audit"
            => Rank(plan[i].row) < Rank(plan[j].row)

WrittenBy(plan) ==
    Named(plan, "insert") \cup Named(plan, "update") \cup Named(plan, "delete")

\* Every row that is written is written once and audited, approvals excepted,
\* and no other row is audited.
Evidenced(plan) ==
    /\ Named(plan, "audit") = WrittenBy(plan) \ Approvals
    /\ Named(plan, "insert") \cap Named(plan, "update") = {}
    /\ Named(plan, "insert") \cap Named(plan, "delete") = {}
    /\ Named(plan, "update") \cap Named(plan, "delete") = {}

WellFormed(plan) ==
    /\ plan \in Seq(Statement)
    /\ Len(plan) > 0
    /\ WritesInOrder(plan)
    /\ Evidenced(plan)

\* A plan of one row.
LEMMA SingleIsWellFormed ==
    ASSUME NEW x \in Audited, NEW op \in {"insert", "update", "delete"}
    PROVE  WellFormed(<<[op |-> op, row |-> x], [op |-> "audit", row |-> x]>>)
  <1> DEFINE plan == <<[op |-> op, row |-> x], [op |-> "audit", row |-> x]>>
  <1>1. plan \in Seq(Statement) /\ Len(plan) = 2 /\ DOMAIN plan = 1..2
    BY Ranks DEF Statement
  <1>2. /\ plan[1].op = op /\ plan[1].row = x
        /\ plan[2].op = "audit" /\ plan[2].row = x
    OBVIOUS
  <1> HIDE DEF plan
  <1>3. WritesInOrder(plan)
    BY <1>1, <1>2 DEF WritesInOrder
  <1>4. Evidenced(plan)
    BY <1>1, <1>2, Ranks DEF Evidenced, WrittenBy, Named
  <1> QED
    BY <1>1, <1>3, <1>4 DEF WellFormed, plan

\* A submission or an approval.
LEMMA ApprovalIsWellFormed ==
    ASSUME NEW a \in Approvals
    PROVE  WellFormed(TransitionWithApproval(a))
  <1> DEFINE d == a[1]
             plan == <<Update(d), Insert(a), Audit(d)>>
  <1>1. /\ a \in Rows /\ d \in Rows /\ d \notin Approvals /\ d # a
        /\ Rank(d) = 2 /\ Rank(a) = 3
    BY Ranks
  <1> HIDE DEF d
  <1>2. /\ Update(d) \in Statement /\ Insert(a) \in Statement /\ Audit(d) \in Statement
        /\ Update(d).op = "update" /\ Update(d).row = d
        /\ Insert(a).op = "insert" /\ Insert(a).row = a
        /\ Audit(d).op = "audit" /\ Audit(d).row = d
    BY <1>1 DEF Statement, Update, Insert, Audit
  <1>3. /\ plan \in Seq(Statement) /\ Len(plan) = 3 /\ DOMAIN plan = 1..3
        /\ plan[1] = Update(d) /\ plan[2] = Insert(a) /\ plan[3] = Audit(d)
    BY <1>2
  <1> HIDE DEF plan
  <1>4. WritesInOrder(plan)
    BY <1>1, <1>2, <1>3 DEF WritesInOrder
  <1>5. /\ Named(plan, "insert") = {a} /\ Named(plan, "update") = {d}
        /\ Named(plan, "delete") = {} /\ Named(plan, "audit") = {d}
    BY <1>2, <1>3 DEF Named
  <1>6. Evidenced(plan)
    BY <1>1, <1>5 DEF Evidenced, WrittenBy
  <1> QED
    BY <1>3, <1>4, <1>6 DEF WellFormed, plan, d, TransitionWithApproval

\* Appending the two statements of one more row.
LEMMA RowAppended ==
    ASSUME NEW s \in Seq(Statement), NEW x \in Audited
    PROVE  LET plan == s \o UpdateWithAudit(x)
               n == Len(s)
           IN  /\ plan \in Seq(Statement) /\ Len(plan) = n + 2
               /\ \A i \in 1..n : plan[i] = s[i]
               /\ plan[n + 1] = Update(x) /\ plan[n + 2] = Audit(x)
  <1> DEFINE t == UpdateWithAudit(x)
             plan == s \o t
             n == Len(s)
  <1>1. /\ t \in Seq(Statement) /\ Len(t) = 2 /\ t[1] = Update(x) /\ t[2] = Audit(x)
    BY Ranks DEF UpdateWithAudit, Update, Audit, Statement
  <1> HIDE DEF t
  <1>2. /\ plan \in Seq(Statement) /\ Len(plan) = n + Len(t)
        /\ \A i \in 1..n + Len(t) : plan[i] = IF i <= n THEN s[i] ELSE t[i - n]
    BY <1>1, ConcatProperties, Zenon
  <1>3. n \in Nat
    OBVIOUS
  <1> HIDE DEF plan, n
  <1>4. /\ plan[n + 1] = t[1] /\ plan[n + 2] = t[2]
        /\ \A i \in 1..n : plan[i] = s[i]
    BY <1>1, <1>2, <1>3
  <1> QED
    BY <1>1, <1>2, <1>4 DEF plan, n, t

\* A plan of two rows.
LEMMA PairOfRows ==
    ASSUME NEW x \in Audited, NEW y \in Audited
    PROVE  LET plan == UpdateWithAudit(x) \o UpdateWithAudit(y)
           IN  /\ plan \in Seq(Statement) /\ Len(plan) = 4
               /\ plan[1] = Update(x) /\ plan[2] = Audit(x)
               /\ plan[3] = Update(y) /\ plan[4] = Audit(y)
  <1> DEFINE s == UpdateWithAudit(x)
             plan == s \o UpdateWithAudit(y)
  <1>1. /\ s \in Seq(Statement) /\ Len(s) = 2 /\ s[1] = Update(x) /\ s[2] = Audit(x)
    BY Ranks DEF UpdateWithAudit, Update, Audit, Statement
  <1> HIDE DEF s
  <1>2. /\ plan \in Seq(Statement) /\ Len(plan) = Len(s) + 2
        /\ \A i \in 1..Len(s) : plan[i] = s[i]
        /\ plan[Len(s) + 1] = Update(y) /\ plan[Len(s) + 2] = Audit(y)
    BY <1>1, RowAppended
  <1> HIDE DEF plan
  <1>3. /\ plan \in Seq(Statement) /\ Len(plan) = 4
        /\ plan[1] = Update(x) /\ plan[2] = Audit(x)
        /\ plan[3] = Update(y) /\ plan[4] = Audit(y)
    BY <1>1, <1>2
  <1> QED
    BY <1>3 DEF plan, s

\* A plan of two rows in order.
LEMMA PairIsWellFormed ==
    ASSUME NEW x \in Audited, NEW y \in Audited, Rank(x) < Rank(y)
    PROVE  WellFormed(UpdateWithAudit(x) \o UpdateWithAudit(y))
  <1> DEFINE plan == UpdateWithAudit(x) \o UpdateWithAudit(y)
  <1>1. /\ plan \in Seq(Statement) /\ Len(plan) = 4
        /\ plan[1] = Update(x) /\ plan[2] = Audit(x)
        /\ plan[3] = Update(y) /\ plan[4] = Audit(y)
    BY PairOfRows
  <1> HIDE DEF plan
  <1>2. DOMAIN plan = 1..4
    BY <1>1
  <1>3. WritesInOrder(plan)
    BY <1>1 DEF WritesInOrder, Update, Audit
  <1>4. Evidenced(plan)
    BY <1>1, <1>2, Ranks DEF Evidenced, WrittenBy, Named, Update, Audit
  <1> QED
    BY <1>1, <1>3, <1>4 DEF WellFormed, plan

\* A plan of three rows in order.
LEMMA TripleIsWellFormed ==
    ASSUME NEW x \in Audited, NEW y \in Audited, NEW z \in Audited,
           Rank(x) < Rank(y), Rank(y) < Rank(z)
    PROVE  WellFormed(UpdateWithAudit(x) \o UpdateWithAudit(y) \o UpdateWithAudit(z))
  <1> DEFINE s == UpdateWithAudit(x) \o UpdateWithAudit(y)
             plan == s \o UpdateWithAudit(z)
  <1>1. /\ s \in Seq(Statement) /\ Len(s) = 4
        /\ s[1] = Update(x) /\ s[2] = Audit(x)
        /\ s[3] = Update(y) /\ s[4] = Audit(y)
    BY PairOfRows
  <1> HIDE DEF s
  <1>2. /\ plan \in Seq(Statement) /\ Len(plan) = Len(s) + 2
        /\ \A i \in 1..Len(s) : plan[i] = s[i]
        /\ plan[Len(s) + 1] = Update(z) /\ plan[Len(s) + 2] = Audit(z)
    BY <1>1, RowAppended
  <1> HIDE DEF plan
  <1>3. /\ plan \in Seq(Statement) /\ Len(plan) = 6
        /\ plan[1] = Update(x) /\ plan[2] = Audit(x)
        /\ plan[3] = Update(y) /\ plan[4] = Audit(y)
        /\ plan[5] = Update(z) /\ plan[6] = Audit(z)
    BY <1>1, <1>2
  <1>4. DOMAIN plan = 1..6
    BY <1>3
  <1>5. Rank(x) \in Nat /\ Rank(y) \in Nat /\ Rank(z) \in Nat
    BY DEF Rank
  <1>6. WritesInOrder(plan)
    BY <1>3, <1>5 DEF WritesInOrder, Update, Audit
  <1>7. Evidenced(plan)
    BY <1>3, <1>4, Ranks DEF Evidenced, WrittenBy, Named, Update, Audit
  <1> QED
    BY <1>2, <1>3, <1>6, <1>7 DEF WellFormed, plan, s

\* All service methods write in the same order and audit what they write.
LEMMA PlansAreWellFormed == \A plan \in Plans : WellFormed(plan)
  <1>1. ASSUME NEW x \in Audited
        PROVE  /\ WellFormed(CreateWithAudit(x))
               /\ WellFormed(UpdateWithAudit(x))
               /\ WellFormed(DeleteWithAudit(x))
    BY SingleIsWellFormed
    DEF CreateWithAudit, UpdateWithAudit, DeleteWithAudit, Insert, Update, Delete, Audit
  <1>3. ASSUME NEW d \in Directives, NEW g \in Gates
        PROVE  WellFormed(StartOrAbort(d, g))
    BY Ranks, PairIsWellFormed DEF StartOrAbort
  <1>4. ASSUME NEW c \in Confirmations, NEW d \in Directives
        PROVE  WellFormed(SettleAtGoal(c, d))
    BY Ranks, PairIsWellFormed DEF SettleAtGoal
  <1>5. ASSUME NEW c \in Confirmations, NEW d \in Directives, NEW g \in Gates
        PROVE  WellFormed(Settle(c, d, g))
    BY Ranks, TripleIsWellFormed DEF Settle
  <1> QED
    BY <1>1, <1>3, <1>4, <1>5, ApprovalIsWellFormed DEF Plans

-----------------------------------------------------------------------------
(***************************************************************************)
(* 2. The locks.                                                           *)
(***************************************************************************)
Transaction ==
    UNION { [ plan : {plan}, done : 0..Len(plan),
              seen : [Named(plan, "update") -> 1..MaxVersion] ] : plan \in Plans }

\* What the statements of t have checked still holds, for t has the locks.
Holds(t) ==
    \A k \in 1..txn[t].done :
        LET s == txn[t].plan[k] IN s.op # "audit" => Meets(s, txn[t].seen)

LocksExclude == \A t, u \in Txns : t # u => Locked(t) \cap Locked(u) = {}

AbsentAreNew == \A x \in Rows : rows[x].life = "absent" => rows[x].version = 0

LockInv ==
    /\ rows \in [Rows -> Row]
    /\ trail \in [Rows -> Nat]
    /\ txn \in [Txns -> Transaction \cup {NoTxn}]
    /\ AbsentAreNew
    /\ LocksExclude
    /\ \A t \in Txns : Holds(t)

\* What is known of a running transaction.
LEMMA TransactionFields ==
    ASSUME NEW x \in Transaction
    PROVE  /\ x.plan \in Plans /\ WellFormed(x.plan) /\ x.done \in 0..Len(x.plan)
           /\ x.seen \in [Named(x.plan, "update") -> 1..MaxVersion]
           /\ Len(x.plan) \in Nat /\ DOMAIN x.plan = 1..Len(x.plan)
           /\ x # NoTxn
  <1>1. PICK plan \in Plans :
          x \in [ plan : {plan}, done : 0..Len(plan),
                  seen : [Named(plan, "update") -> 1..MaxVersion] ]
    BY DEF Transaction
  <1>2. /\ x.plan = plan /\ x.done \in 0..Len(plan)
        /\ x.seen \in [Named(plan, "update") -> 1..MaxVersion]
    BY <1>1
  <1>3. WellFormed(plan)
    BY PlansAreWellFormed
  <1>4. /\ plan \in Seq(Statement) /\ Len(plan) > 0
    BY <1>3 DEF WellFormed
  <1>5. Len(NoTxn.plan) = 0
    BY DEF NoTxn
  <1> QED
    BY <1>2, <1>3, <1>4, <1>5

\* What is known of the transaction of a connection.
LEMMA RunningFields ==
    ASSUME LockInv, NEW t \in Txns, Running(t)
    PROVE  /\ txn[t] \in Transaction
           /\ txn[t].plan \in Plans /\ WellFormed(txn[t].plan)
           /\ txn[t].done \in 0..Len(txn[t].plan) /\ txn[t].done \in Nat
           /\ txn[t].seen \in [Named(txn[t].plan, "update") -> 1..MaxVersion]
           /\ Len(txn[t].plan) \in Nat
           /\ DOMAIN txn[t].plan = 1..Len(txn[t].plan)
           /\ \A k \in 1..Len(txn[t].plan) : txn[t].plan[k] \in Statement
  <1>1. txn[t] \in Transaction
    BY DEF LockInv, Running
  <1>2. /\ txn[t].plan \in Plans /\ WellFormed(txn[t].plan)
        /\ txn[t].done \in 0..Len(txn[t].plan)
        /\ txn[t].seen \in [Named(txn[t].plan, "update") -> 1..MaxVersion]
        /\ Len(txn[t].plan) \in Nat
        /\ DOMAIN txn[t].plan = 1..Len(txn[t].plan)
    BY <1>1, TransactionFields
  <1>3. txn[t].plan \in Seq(Statement)
    BY <1>2 DEF WellFormed
  <1> QED
    BY <1>1, <1>2, <1>3

\* A connection without a transaction holds nothing.
LEMMA IdleHoldsNothing ==
    ASSUME LockInv, NEW t \in Txns, ~Running(t)
    PROVE  txn[t] = NoTxn /\ Locked(t) = {}
  BY DEF LockInv, Running, Locked, NoTxn

\* Who does not move keeps its locks, and what it knows of the rows it locked
\* as long as those stay.
LEMMA WhoRests ==
    ASSUME LockInv, NEW u \in Txns, txn'[u] = txn[u],
           \A x \in Locked(u) : rows'[x] = rows[x]
    PROVE  Locked(u)' = Locked(u) /\ Holds(u)'
  <1>1. Locked(u)' = Locked(u)
    BY DEF Locked
  <1>2. ASSUME NEW k \in 1..txn[u].done, txn[u].plan[k].op # "audit"
        PROVE  Meets(txn[u].plan[k], txn[u].seen)'
    <2>1. txn[u].plan[k].row \in Locked(u)
      BY <1>2 DEF Locked
    <2>2. Holds(u)
      BY DEF LockInv
    <2> QED
      BY <1>2, <2>1, <2>2 DEF Holds, Meets
  <1>3. Holds(u)'
    BY <1>2 DEF Holds, Meets
  <1> QED
    BY <1>1, <1>3

\* The transaction of t ends or has not written yet, and the rows stay.
LEMMA NothingWritten ==
    ASSUME LockInv, NEW t \in Txns, NEW x \in Transaction \cup {NoTxn}, x.done = 0,
           txn' = [txn EXCEPT ![t] = x], UNCHANGED <<rows, trail>>
    PROVE  LockInv'
  <1>1. /\ txn' \in [Txns -> Transaction \cup {NoTxn}] /\ txn'[t] = x
        /\ \A u \in Txns \ {t} : txn'[u] = txn[u]
    BY DEF LockInv
  <1>2. Locked(t)' = {} /\ Holds(t)'
    BY <1>1 DEF Locked, Holds
  <1>3. \A u \in Txns \ {t} : Locked(u)' = Locked(u) /\ Holds(u)'
    BY <1>1, WhoRests
  <1> QED
    BY <1>1, <1>2, <1>3 DEF LockInv, LocksExclude, AbsentAreNew

\* A transaction gets on by one statement.
LEMMA Advances ==
    ASSUME LockInv, NEW t \in Txns, HasStatement(t), Advance(t), UNCHANGED <<rows, trail>>
    PROVE  LET x == [txn[t] EXCEPT !.done = txn[t].done + 1]
           IN  /\ txn' \in [Txns -> Transaction \cup {NoTxn}]
               /\ txn'[t] = x /\ x \in Transaction
               /\ x.plan = txn[t].plan /\ x.seen = txn[t].seen
               /\ x.done = txn[t].done + 1
               /\ \A u \in Txns \ {t} : txn'[u] = txn[u]
  <1> DEFINE old == txn[t]
             x == [old EXCEPT !.done = old.done + 1]
  <1>1. /\ old \in Transaction /\ old.plan \in Plans
        /\ old.done \in 0..Len(old.plan) /\ old.done < Len(old.plan)
        /\ old.seen \in [Named(old.plan, "update") -> 1..MaxVersion]
        /\ Len(old.plan) \in Nat
    BY RunningFields DEF HasStatement
  <1>2. old.done + 1 \in 0..Len(old.plan)
    BY <1>1
  <1>3. /\ txn' = [txn EXCEPT ![t] = x]
        /\ txn \in [Txns -> Transaction \cup {NoTxn}]
    BY DEF Advance, LockInv
  <1>4. x \in Transaction /\ x.plan = old.plan /\ x.seen = old.seen /\ x.done = old.done + 1
    <2>1. old \in [ plan : {old.plan}, done : 0..Len(old.plan),
                    seen : [Named(old.plan, "update") -> 1..MaxVersion] ]
      BY <1>1 DEF Transaction
    <2> HIDE DEF old
    <2>2. /\ x \in [ plan : {old.plan}, done : 0..Len(old.plan),
                     seen : [Named(old.plan, "update") -> 1..MaxVersion] ]
          /\ x.plan = old.plan /\ x.seen = old.seen /\ x.done = old.done + 1
      BY <1>2, <2>1
    <2> QED
      BY <1>1, <2>2 DEF Transaction
  <1> HIDE DEF x
  <1>5. /\ txn' \in [Txns -> Transaction \cup {NoTxn}] /\ txn'[t] = x
        /\ \A u \in Txns \ {t} : txn'[u] = txn[u]
    BY <1>3, <1>4
  <1> QED
    BY <1>4, <1>5 DEF x

\* A write takes a lock nobody has, on a row that is as its statement expects.
LEMMA WriteKeepsLocks ==
    ASSUME LockInv, NEW t \in Txns, Write(t)
    PROVE  LockInv'
  <1> DEFINE old == txn[t]
             n == old.done + 1
             row == old.plan[n].row
  <1>1. /\ HasStatement(t) /\ Current(t) = old.plan[n] /\ Current(t).op # "audit"
        /\ ~Waiting(t) /\ Matches(t) /\ Advance(t) /\ UNCHANGED <<rows, trail>>
    BY DEF Write, Current
  <1>2. /\ txn' \in [Txns -> Transaction \cup {NoTxn}] /\ txn'[t].plan = old.plan
        /\ txn'[t].seen = old.seen /\ txn'[t].done = n
        /\ \A u \in Txns \ {t} : txn'[u] = txn[u]
    BY <1>1, Advances
  <1>3. old.done \in Nat
    BY <1>1, RunningFields DEF HasStatement
  <1>4. Locked(t)' = Locked(t) \cup {row}
    BY <1>1, <1>2, <1>3 DEF Locked
  <1>5. \A u \in Txns \ {t} : /\ Locked(u)' = Locked(u) /\ Holds(u)'
                              /\ row \notin Locked(u)
    <2>1. \A u \in Txns \ {t} : Locked(u)' = Locked(u) /\ Holds(u)'
      BY <1>1, <1>2, WhoRests
    <2>2. \A u \in Txns \ {t} : row \notin Locked(u)
      BY <1>1 DEF Waiting, WaitsFor
    <2> QED
      BY <2>1, <2>2
  <1>6. LocksExclude'
    <2>1. ASSUME NEW u \in Txns, NEW v \in Txns, u # v
          PROVE  Locked(u)' \cap Locked(v)' = {}
      BY <1>4, <1>5, <2>1 DEF LockInv, LocksExclude
    <2> QED
      BY <2>1 DEF LocksExclude
  <1>7. Holds(t)'
    <2>1. Meets(old.plan[n], old.seen)
      BY <1>1 DEF Matches
    <2>2. Holds(t)
      BY DEF LockInv
    <2>3. \A k \in 1..n : k \in 1..old.done \/ k = n
      BY <1>3
    <2>4. ASSUME NEW k \in 1..n, old.plan[k].op # "audit"
          PROVE  Meets(old.plan[k], old.seen)
      BY <2>1, <2>2, <2>3, <2>4 DEF Holds
    <2> QED
      BY <1>1, <1>2, <2>4 DEF Holds, Meets
  <1> QED
    BY <1>1, <1>2, <1>5, <1>6, <1>7 DEF LockInv, AbsentAreNew

\* An audit row takes no lock.
LEMMA AuditKeepsLocks ==
    ASSUME LockInv, NEW t \in Txns, InsertAudit(t)
    PROVE  LockInv'
  <1> DEFINE old == txn[t]
             n == old.done + 1
  <1>1. /\ HasStatement(t) /\ old.plan[n].op = "audit"
        /\ Advance(t) /\ UNCHANGED <<rows, trail>>
    BY DEF InsertAudit, Current
  <1>2. /\ txn' \in [Txns -> Transaction \cup {NoTxn}] /\ txn'[t].plan = old.plan
        /\ txn'[t].seen = old.seen /\ txn'[t].done = n
        /\ \A u \in Txns \ {t} : txn'[u] = txn[u]
    BY <1>1, Advances
  <1>3. old.done \in Nat
    BY <1>1, RunningFields DEF HasStatement
  <1>4. Locked(t)' = Locked(t)
    BY <1>1, <1>2, <1>3 DEF Locked
  <1>5. \A u \in Txns \ {t} : Locked(u)' = Locked(u) /\ Holds(u)'
    BY <1>1, <1>2, WhoRests
  <1>6. Holds(t)'
    <2>1. Holds(t)
      BY DEF LockInv
    <2>2. \A k \in 1..n : k \in 1..old.done \/ k = n
      BY <1>3
    <2>3. ASSUME NEW k \in 1..n, old.plan[k].op # "audit"
          PROVE  Meets(old.plan[k], old.seen)
      BY <1>1, <2>1, <2>2, <2>3 DEF Holds
    <2> QED
      BY <1>1, <1>2, <2>3 DEF Holds, Meets
  <1> QED
    BY <1>1, <1>2, <1>4, <1>5, <1>6 DEF LockInv, LocksExclude, AbsentAreNew

\* A transaction at its end has locked every row it writes, and the rows are as
\* it expects.
LEMMA ReadyToCommit ==
    ASSUME LockInv, NEW t \in Txns, Running(t), txn[t].done = Len(txn[t].plan)
    PROVE  LET plan == txn[t].plan
           IN  /\ WrittenBy(plan) \subseteq Locked(t)
               /\ \A x \in Named(plan, "insert") : rows[x].life = "absent"
               /\ \A x \in Named(plan, "update") : rows[x].version = txn[t].seen[x]
               /\ \A x \in Named(plan, "update") \cup Named(plan, "delete") :
                     rows[x].life = "live"
  <1> DEFINE plan == txn[t].plan
  <1>1. DOMAIN plan = 1..txn[t].done /\ Holds(t)
    BY RunningFields DEF LockInv
  <1> QED
    BY <1>1 DEF WrittenBy, Named, Locked, Holds, Meets

\* What the commit of t makes of row x.
WrittenRow(t, x) ==
    IF x \in Named(txn[t].plan, "insert") THEN New
    ELSE IF x \in Named(txn[t].plan, "update")
         THEN [rows[x] EXCEPT !.version = txn[t].seen[x] + 1]
    ELSE IF x \in Named(txn[t].plan, "delete")
         THEN [rows[x] EXCEPT !.life = "deleted"]
    ELSE rows[x]

LEMMA CommitWrites ==
    ASSUME LockInv, NEW t \in Txns, Commit(t)
    PROVE  \A x \in Rows : rows'[x] = WrittenRow(t, x)
  <1>1. Evidenced(txn[t].plan)
    BY RunningFields DEF Commit, WellFormed
  <1> DEFINE inserts == Named(txn[t].plan, "insert")
             updates == Named(txn[t].plan, "update")
             deletes == Named(txn[t].plan, "delete")
             seen == txn[t].seen
  <1>2. /\ inserts \cap updates = {} /\ inserts \cap deletes = {}
        /\ updates \cap deletes = {}
    BY <1>1 DEF Evidenced
  <1>3. ASSUME NEW x \in Rows
        PROVE  rows'[x] = CASE x \in inserts -> New
                            [] x \in updates -> [rows[x] EXCEPT !.version = seen[x] + 1]
                            [] x \in deletes -> [rows[x] EXCEPT !.life = "deleted"]
                            [] OTHER -> rows[x]
    BY DEF Commit
  <1>4. ASSUME NEW x \in Rows
        PROVE  WrittenRow(t, x) =
                 IF x \in inserts THEN New
                 ELSE IF x \in updates THEN [rows[x] EXCEPT !.version = seen[x] + 1]
                 ELSE IF x \in deletes THEN [rows[x] EXCEPT !.life = "deleted"]
                 ELSE rows[x]
    BY DEF WrittenRow
  <1> HIDE DEF inserts, updates, deletes, seen
  <1> QED
    BY <1>2, <1>3, <1>4

\* A commit changes no row that somebody else has locked.
LEMMA CommitKeepsLocks ==
    ASSUME LockInv, NEW t \in Txns, Commit(t)
    PROVE  LockInv'
  <1> DEFINE plan == txn[t].plan
             seen == txn[t].seen
  <1>1. /\ Running(t) /\ txn[t].done = Len(plan)
        /\ seen \in [Named(plan, "update") -> 1..MaxVersion]
        /\ txn' = [txn EXCEPT ![t] = NoTxn]
    BY RunningFields DEF Commit
  <1>2. WrittenBy(plan) \subseteq Locked(t)
    BY <1>1, ReadyToCommit
  <1>a. \A x \in Rows : rows'[x] = WrittenRow(t, x)
    BY CommitWrites
  <1>3. \A x \in Rows : x \notin Locked(t) => rows'[x] = rows[x]
    BY <1>2, <1>a DEF WrittenRow, WrittenBy
  <1>4. rows' \in [Rows -> Row]
    <2>1. \A x \in Named(plan, "update") : seen[x] + 1 \in Nat
      BY <1>1, BoundAssumption
    <2>2. New \in Row
      BY DEF New, Row
    <2>3. ASSUME NEW x \in Rows PROVE WrittenRow(t, x) \in Row
      <3>1. rows[x] \in Row
        BY DEF LockInv
      <3> QED
        BY <2>1, <2>2, <3>1 DEF WrittenRow, Row
    <2> QED
      BY <1>a, <2>3 DEF Commit
  <1>5. trail' \in [Rows -> Nat]
    BY DEF Commit, LockInv
  <1>b. AbsentAreNew'
    <2>1. /\ \A x \in Named(plan, "update") : rows[x].life = "live"
          /\ New.life = "live"
      BY <1>1, ReadyToCommit DEF New
    <2>2. ASSUME NEW x \in Rows, WrittenRow(t, x).life = "absent"
          PROVE  WrittenRow(t, x).version = 0
      <3>1. rows[x] \in Row /\ (rows[x].life = "absent" => rows[x].version = 0)
        BY DEF LockInv, AbsentAreNew
      <3> QED
        BY <2>1, <2>2, <3>1 DEF WrittenRow, Row
    <2> QED
      BY <1>a, <2>2 DEF AbsentAreNew
  <1>6. /\ txn' \in [Txns -> Transaction \cup {NoTxn}] /\ txn'[t] = NoTxn
        /\ \A u \in Txns \ {t} : txn'[u] = txn[u]
    BY <1>1 DEF LockInv
  <1>7. Locked(t)' = {} /\ Holds(t)'
    BY <1>6 DEF Locked, Holds, NoTxn
  <1>8. ASSUME NEW u \in Txns \ {t}
        PROVE  Locked(u)' = Locked(u) /\ Holds(u)'
    <2>1. ASSUME NEW x \in Locked(u) PROVE x \in Rows
      <3>1. Running(u)
        BY <2>1, IdleHoldsNothing
      <3> QED
        BY <2>1, <3>1, RunningFields DEF Locked, Statement
    <2>2. \A x \in Locked(u) : x \notin Locked(t)
      BY DEF LockInv, LocksExclude
    <2> QED
      BY <1>3, <1>6, <2>1, <2>2, WhoRests
  <1> QED
    BY <1>4, <1>5, <1>b, <1>6, <1>7, <1>8 DEF LockInv, LocksExclude

\* A new transaction has locked nothing yet.
LEMMA BeginKeepsLocks ==
    ASSUME LockInv, NEW t \in Txns, Begin(t)
    PROVE  LockInv'
  <1>0. PICK plan \in Plans : \E seen \in [Named(plan, "update") -> 1..MaxVersion] :
          /\ txn' = [txn EXCEPT ![t] = [plan |-> plan, done |-> 0, seen |-> seen]]
          /\ UNCHANGED <<rows, trail>>
    BY DEF Begin
  <1>1. PICK seen \in [Named(plan, "update") -> 1..MaxVersion] :
          /\ txn' = [txn EXCEPT ![t] = [plan |-> plan, done |-> 0, seen |-> seen]]
          /\ UNCHANGED <<rows, trail>>
    BY <1>0
  <1> DEFINE x == [plan |-> plan, done |-> 0, seen |-> seen]
  <1>2. Len(plan) \in Nat
    BY PlansAreWellFormed DEF WellFormed
  <1>3. x \in Transaction
    BY <1>2 DEF Transaction
  <1>4. x.done = 0
    OBVIOUS
  <1> HIDE DEF x
  <1> QED
    BY <1>1, <1>3, <1>4, NothingWritten DEF x

LEMMA NextKeepsLocks == LockInv /\ [Next]_vars => LockInv'
  <1> SUFFICES ASSUME LockInv, [Next]_vars PROVE LockInv'
    OBVIOUS
  <1>1. NoTxn.done = 0
    BY DEF NoTxn
  <1>2. ASSUME NEW t \in Txns, Refuse(t) \/ Rollback(t)
        PROVE  LockInv'
    BY <1>1, <1>2, NothingWritten DEF Refuse, Rollback
  <1>3. CASE Crash
    <2>1. /\ txn' \in [Txns -> Transaction \cup {NoTxn}]
          /\ \A t \in Txns : txn'[t] = NoTxn
      BY <1>3 DEF Crash
    <2>2. \A t \in Txns : Locked(t)' = {} /\ Holds(t)'
      BY <1>1, <2>1 DEF Locked, Holds
    <2> QED
      BY <1>3, <2>1, <2>2 DEF LockInv, LocksExclude, AbsentAreNew, Crash
  <1>4. CASE UNCHANGED vars
    <2>1. /\ UNCHANGED <<rows, trail, txn>>
          /\ \A u \in Txns : Locked(u)' = Locked(u) /\ Holds(u)'
      BY <1>4, WhoRests DEF vars
    <2> QED
      BY <2>1 DEF LockInv, LocksExclude, AbsentAreNew
  <1> QED
    BY <1>2, <1>3, <1>4, BeginKeepsLocks, WriteKeepsLocks, AuditKeepsLocks,
       CommitKeepsLocks
    DEF Next

LEMMA LocksHold == Spec => []LockInv
  <1>1. Init => LockInv
    BY DEF Init, LockInv, LocksExclude, AbsentAreNew, Locked, Holds, NoTxn, Absent, Row
  <1> QED
    BY <1>1, NextKeepsLocks, PTL DEF Spec

\* The transactions stay well formed and no row is locked twice.
THEOREM LocksExcludeEachOther == Spec => []TypeOK
  <1>1. LockInv => TypeOK
    BY RunningFields DEF LockInv, LocksExclude, TypeOK, Row
  <1> QED
    BY <1>1, LocksHold, PTL

-----------------------------------------------------------------------------
(***************************************************************************)
(* 3. Nobody waits in a circle.                                            *)
(***************************************************************************)

\* The row a transaction waits for comes after all rows it has locked.
LEMMA WaitsForLaterRow ==
    ASSUME LockInv, NEW t \in Txns, HasStatement(t), Current(t).op # "audit"
    PROVE  /\ Rank(Current(t).row) \in 1..3
           /\ \A x \in Locked(t) : Rank(x) < Rank(Current(t).row)
  <1> DEFINE plan == txn[t].plan
             n == txn[t].done + 1
  <1>1. /\ n \in 1..Len(plan) /\ txn[t].done \in Nat /\ Len(plan) \in Nat
        /\ WritesInOrder(plan) /\ Current(t) = plan[n]
    BY RunningFields DEF HasStatement, WellFormed, Current
  <1>2. ASSUME NEW k \in 1..txn[t].done, plan[k].op # "audit"
        PROVE  Rank(plan[k].row) < Rank(plan[n].row)
    <2>1. k \in 1..Len(plan) /\ k < n
      BY <1>1
    <2> QED
      BY <1>1, <1>2, <2>1 DEF WritesInOrder
  <1>3. \A x \in Locked(t) : Rank(x) < Rank(Current(t).row)
    BY <1>1, <1>2 DEF Locked
  <1> QED
    BY <1>3 DEF Rank

\* Along a chain of waiting transactions the rows get later.
LEMMA ChainClimbs ==
    ASSUME LockInv, NEW t \in Txns, NEW u \in Txns, NEW v \in Txns,
           WaitsFor(t, u), WaitsFor(u, v)
    PROVE  /\ Rank(Current(t).row) \in 1..3 /\ Rank(Current(u).row) \in 1..3
           /\ Rank(Current(t).row) < Rank(Current(u).row)
  BY WaitsForLaterRow DEF WaitsFor

\* No transactions wait for each other in a circle: there are only three
\* tables, so a chain of waiting transactions soon reaches one that can go on.
THEOREM NobodyWaitsInACircle == Spec => []NoCircularWait
  <1>1. ASSUME LockInv PROVE NoCircularWait
    <2> SUFFICES ASSUME NEW stuck \in (SUBSET Txns) \ {{}},
                        \A t \in stuck : \E u \in stuck : WaitsFor(t, u)
                 PROVE  FALSE
      BY DEF NoCircularWait
    <2>0. PICK t \in stuck : TRUE
      OBVIOUS
    <2>1. PICK u \in stuck : WaitsFor(t, u)
      OBVIOUS
    <2>2. PICK v \in stuck : WaitsFor(u, v)
      OBVIOUS
    <2>3. PICK w \in stuck : WaitsFor(v, w)
      OBVIOUS
    <2>4. PICK x \in stuck : WaitsFor(w, x)
      OBVIOUS
    <2>5. PICK y \in stuck : WaitsFor(x, y)
      OBVIOUS
    <2>6. {t, u, v, w, x, y} \subseteq Txns
      OBVIOUS
    <2>7. /\ Rank(Current(t).row) \in 1..3 /\ Rank(Current(u).row) \in 1..3
          /\ Rank(Current(t).row) < Rank(Current(u).row)
      BY <1>1, <2>1, <2>2, <2>6, ChainClimbs
    <2>8. /\ Rank(Current(v).row) \in 1..3
          /\ Rank(Current(u).row) < Rank(Current(v).row)
      BY <1>1, <2>2, <2>3, <2>6, ChainClimbs
    <2>9. /\ Rank(Current(w).row) \in 1..3
          /\ Rank(Current(v).row) < Rank(Current(w).row)
      BY <1>1, <2>3, <2>4, <2>6, ChainClimbs
    <2> QED
      BY <2>7, <2>8, <2>9
  <1> QED
    BY <1>1, LocksHold, PTL

-----------------------------------------------------------------------------
(***************************************************************************)
(* 4. One atomic change each.                                              *)
(***************************************************************************)

\* The changes the transactions stand for.
Jobs == [t \in Txns |-> JobOf(t)]

\* The change a transaction stands for.
ChangeOf(x) ==
    [inserts |-> Named(x.plan, "insert"),
     deletes |-> Named(x.plan, "delete"),
     writes |-> { [row |-> y, version |-> x.seen[y]] : y \in Named(x.plan, "update") }]

LEMMA TransactionsAreChanges ==
    ASSUME NEW x \in Transaction
    PROVE  /\ ChangeOf(x) \in Store!Change
           /\ ChangeOf(x) # NoTxn
           /\ Store!Written(ChangeOf(x)) = Named(x.plan, "update")
  <1> DEFINE seen == x.seen
             inserts == Named(x.plan, "insert")
             deletes == Named(x.plan, "delete")
             updates == Named(x.plan, "update")
             writes == { [row |-> y, version |-> seen[y]] : y \in updates }
             change == [inserts |-> inserts, deletes |-> deletes, writes |-> writes]
  <1>1. inserts \in SUBSET Rows /\ deletes \in SUBSET Rows /\ updates \in SUBSET Rows
    <2>1. x.plan \in Seq(Statement)
      BY TransactionFields DEF WellFormed
    <2>2. \A k \in DOMAIN x.plan : x.plan[k] \in Statement
      BY <2>1
    <2> QED
      BY <2>2 DEF Named, Statement
  <1>2. \A y \in updates : seen[y] \in Nat
    BY TransactionFields, BoundAssumption
  <1> HIDE DEF inserts, deletes, updates, seen
  <1>3. writes \in SUBSET [row : Rows, version : Nat]
    BY <1>1, <1>2
  <1>4. { w.row : w \in writes } = updates
    <2>1. \A y \in updates : [row |-> y, version |-> seen[y]] \in writes
      OBVIOUS
    <2>2. \A y \in updates : \E w \in writes : w.row = y
      BY <2>1
    <2>3. \A w \in writes : w.row \in updates
      OBVIOUS
    <2> HIDE DEF writes
    <2> QED
      BY <2>2, <2>3
  <1> HIDE DEF writes
  <1>5. change \in Store!Change
    BY <1>1, <1>3 DEF Store!Change
  <1>6. change # NoTxn
    <2>1. DOMAIN change = {"inserts", "deletes", "writes"}
      OBVIOUS
    <2>2. DOMAIN NoTxn = {"plan", "done", "seen"}
      BY DEF NoTxn
    <2> HIDE DEF change
    <2> QED
      BY <2>1, <2>2
  <1>7. ChangeOf(x) = change
    BY DEF ChangeOf, writes, updates, deletes, inserts, seen
  <1> QED
    BY <1>4, <1>5, <1>6, <1>7 DEF updates, Store!Written

\* Only who moves changes its job.
LEMMA OthersJobs ==
    ASSUME NEW t \in Txns, \A u \in Txns \ {t} : txn'[u] = txn[u]
    PROVE  /\ Jobs' = [Jobs EXCEPT ![t] = Jobs'[t]]
           /\ Jobs[t] = JobOf(t) /\ Jobs'[t] = JobOf(t)'
  <1>1. \A u \in Txns \ {t} : JobOf(u)' = JobOf(u)
    BY DEF JobOf, Running
  <1> QED
    BY <1>1 DEF Jobs

\* A method that opens its transaction takes a job.
LEMMA BeginTakes ==
    ASSUME LockInv, NEW t \in Txns, Begin(t)
    PROVE  Store!Take(t)
  <1>1. LockInv'
    BY BeginKeepsLocks
  <1>2. PICK plan \in Plans : \E seen \in [Named(plan, "update") -> 1..MaxVersion] :
          txn' = [txn EXCEPT ![t] = [plan |-> plan, done |-> 0, seen |-> seen]]
    BY DEF Begin
  <1>3. PICK seen \in [Named(plan, "update") -> 1..MaxVersion] :
          txn' = [txn EXCEPT ![t] = [plan |-> plan, done |-> 0, seen |-> seen]]
    BY <1>2
  <1>4. txn'[t].plan = plan /\ \A u \in Txns \ {t} : txn'[u] = txn[u]
    BY <1>3 DEF LockInv
  <1>5. txn'[t] \in Transaction /\ txn'[t] # NoTxn
    <2>1. Len(NoTxn.plan) = 0
      BY DEF NoTxn
    <2>2. Len(plan) > 0
      BY PlansAreWellFormed DEF WellFormed
    <2> QED
      BY <1>1, <1>4, <2>1, <2>2 DEF LockInv
  <1>6. JobOf(t)' \in Store!Change
    <2>1. JobOf(t)' = ChangeOf(txn'[t])
      BY <1>5 DEF JobOf, Running, ChangeOf
    <2> QED
      BY <1>5, <2>1, TransactionsAreChanges
  <1>7. JobOf(t) = NoTxn
    BY DEF Begin, JobOf
  <1>8. UNCHANGED <<rows, trail>>
    BY DEF Begin
  <1> QED
    BY <1>4, <1>6, <1>7, <1>8, OthersJobs DEF Store!Take, Jobs

\* A commit is one change of all rows it names, each as expected.
LEMMA CommitApplies ==
    ASSUME LockInv, NEW t \in Txns, Commit(t)
    PROVE  Store!Apply(t)
  <1> DEFINE plan == txn[t].plan
             seen == txn[t].seen
             inserts == Named(plan, "insert")
             deletes == Named(plan, "delete")
             updates == Named(plan, "update")
  <1>1. /\ Running(t) /\ txn[t].done = Len(plan)
        /\ txn' = [txn EXCEPT ![t] = NoTxn]
    BY DEF Commit
  <1>2. /\ JobOf(t) \in Store!Change /\ JobOf(t) # NoTxn
        /\ JobOf(t).inserts = inserts /\ JobOf(t).deletes = deletes
        /\ JobOf(t).writes = { [row |-> x, version |-> seen[x]] : x \in updates }
        /\ Store!Written(JobOf(t)) = updates
    <2>1. txn[t] \in Transaction /\ JobOf(t) = ChangeOf(txn[t])
      BY <1>1, RunningFields DEF JobOf, ChangeOf
    <2> QED
      BY <2>1, TransactionsAreChanges DEF ChangeOf
  <1>3. /\ \A x \in inserts : rows[x].life = "absent"
        /\ \A x \in updates : rows[x].version = seen[x]
        /\ \A x \in updates \cup deletes : rows[x].life = "live"
    BY <1>1, ReadyToCommit
  <1>4. /\ Named(plan, "audit") = (inserts \cup updates \cup deletes) \ Approvals
        /\ inserts \cap updates = {} /\ inserts \cap deletes = {}
        /\ updates \cap deletes = {}
    BY <1>1, RunningFields DEF WellFormed, Evidenced, WrittenBy
  <1>5. JobOf(t)' = NoTxn
    BY <1>1 DEF JobOf, Running, LockInv
  <1>6. /\ Jobs' = [Jobs EXCEPT ![t] = NoTxn] /\ Jobs[t] = JobOf(t)
    BY <1>1, <1>5, OthersJobs DEF LockInv
  <1>7. Store!Applies(JobOf(t))
    BY <1>2, <1>3 DEF Store!Applies
  <1>8. ASSUME NEW x \in Rows
        PROVE  rows'[x] =
                 [ life |-> IF x \in inserts THEN "live"
                            ELSE IF x \in deletes THEN "deleted" ELSE rows[x].life,
                   version |-> rows[x].version +
                       IF x \in inserts \cup updates THEN 1 ELSE 0 ]
    <2>1. rows[x] \in Row /\ rows'[x] = WrittenRow(t, x)
      BY CommitWrites DEF LockInv
    <2>2. CASE x \in inserts
      <3>1. rows'[x] = New
        BY <2>1, <2>2 DEF WrittenRow
      <3>2. rows[x].version = 0
        BY <1>3, <2>2 DEF LockInv, AbsentAreNew
      <3> QED
        BY <2>2, <3>1, <3>2 DEF New
    <2>3. CASE x \in updates
      <3>1. rows'[x] = [rows[x] EXCEPT !.version = seen[x] + 1]
        BY <1>4, <2>1, <2>3 DEF WrittenRow
      <3>2. rows[x].version = seen[x] /\ x \notin inserts /\ x \notin deletes
        BY <1>3, <1>4, <2>3
      <3> HIDE DEF inserts, deletes, updates, seen
      <3> QED
        BY <2>1, <2>3, <3>1, <3>2 DEF Row
    <2>4. CASE x \in deletes
      <3>1. rows'[x] = [rows[x] EXCEPT !.life = "deleted"]
        BY <1>4, <2>1, <2>4 DEF WrittenRow
      <3>2. x \notin inserts /\ x \notin updates
        BY <1>4, <2>4
      <3> HIDE DEF inserts, deletes, updates
      <3> QED
        BY <2>1, <2>4, <3>1, <3>2 DEF Row
    <2>5. CASE x \notin inserts \cup updates \cup deletes
      <3>1. rows'[x] = rows[x]
        BY <2>1, <2>5 DEF WrittenRow
      <3> HIDE DEF inserts, deletes, updates
      <3> QED
        BY <2>1, <2>5, <3>1 DEF Row
    <2> QED
      BY <2>2, <2>3, <2>4, <2>5
  <1>9. rows' = [x \in Rows |->
          [ life |-> IF x \in JobOf(t).inserts THEN "live"
                     ELSE IF x \in JobOf(t).deletes THEN "deleted" ELSE rows[x].life,
            version |-> rows[x].version +
                IF x \in JobOf(t).inserts \cup Store!Written(JobOf(t)) THEN 1 ELSE 0 ]]
    <2>1. rows' = [x \in Rows |-> rows'[x]]
      BY CommitKeepsLocks DEF LockInv
    <2> HIDE DEF inserts, deletes, updates
    <2> QED
      BY <1>2, <1>8, <2>1
  <1>10. trail' = [x \in Rows |->
          trail[x] + IF x \in Store!Touched(JobOf(t)) \ Approvals THEN 1 ELSE 0]
    <2>1. Store!Touched(JobOf(t)) \ Approvals = Named(plan, "audit")
      BY <1>2, <1>4 DEF Store!Touched
    <2> QED
      BY <2>1 DEF Commit
  <1> QED
    BY <1>2, <1>6, <1>7, <1>9, <1>10 DEF Store!Apply, Jobs

\* Transactions that end without a commit leave nothing behind.
LEMMA EndingDrops ==
    ASSUME LockInv, NEW ended \in SUBSET Txns, ended # {},
           \A t \in ended : txn'[t] = NoTxn,
           \A t \in Txns \ ended : txn'[t] = txn[t],
           UNCHANGED <<rows, trail>>
    PROVE  Store!Drop(ended)
  <1>1. /\ \A t \in ended : JobOf(t)' = NoTxn
        /\ \A t \in Txns \ ended : JobOf(t)' = JobOf(t)
    BY DEF JobOf, Running
  <1> QED
    BY <1>1 DEF Store!Drop

\* The abstract store sees nothing of a statement of a transaction.
LEMMA StatementsStutter ==
    ASSUME LockInv, NEW t \in Txns, HasStatement(t), Advance(t), UNCHANGED <<rows, trail>>
    PROVE  UNCHANGED Store!vars
  <1>1. /\ txn'[t] \in Transaction
        /\ txn'[t].plan = txn[t].plan /\ txn'[t].seen = txn[t].seen
        /\ \A u \in Txns \ {t} : txn'[u] = txn[u]
    BY Advances
  <1>2. Running(t) /\ Running(t)'
    BY <1>1, TransactionFields DEF HasStatement, Running
  <1>3. JobOf(t)' = JobOf(t)
    BY <1>1, <1>2 DEF JobOf
  <1>4. \A u \in Txns : JobOf(u)' = JobOf(u)
    BY <1>1, <1>3 DEF JobOf, Running
  <1> QED
    BY <1>4 DEF Store!vars

\* The statements of interleaved transactions, with their locks, conflicts,
\* rollbacks and crashes, amount to changes that happen in one step, on rows
\* that are as the transaction expects, with one audit row for each row.
THEOREM StatementsAreAtomic == Spec => ActsAtomically
  <1>1. Init => Store!Init
    BY DEF Init, Store!Init, JobOf, Running, Absent
  <1>2. ASSUME LockInv, [Next]_vars PROVE [Store!Next]_(Store!vars)
    <2>1. ASSUME NEW t \in Txns, Refuse(t) \/ Rollback(t)
          PROVE  \E dropped \in SUBSET Txns : Store!Drop(dropped)
      <3>1. /\ txn'[t] = NoTxn /\ \A u \in Txns \ {t} : txn'[u] = txn[u]
            /\ UNCHANGED <<rows, trail>>
        BY <1>2, <2>1 DEF Refuse, Rollback, LockInv
      <3>2. Store!Drop({t})
        BY <1>2, <3>1, EndingDrops
      <3> QED
        BY <3>2
    <2>2. ASSUME Crash
          PROVE  \E dropped \in SUBSET Txns : Store!Drop(dropped)
      <3>1. /\ Txns # {} /\ \A t \in Txns : txn'[t] = NoTxn
            /\ UNCHANGED <<rows, trail>>
        BY <2>2 DEF Crash
      <3>2. Store!Drop(Txns)
        BY <1>2, <3>1, EndingDrops
      <3> QED
        BY <3>2
    <2>3. ASSUME NEW t \in Txns, Write(t) \/ InsertAudit(t)
          PROVE  UNCHANGED Store!vars
      BY <1>2, <2>3, StatementsStutter DEF Write, InsertAudit
    <2>4. CASE UNCHANGED vars
      BY <2>4 DEF vars, Store!vars, JobOf, Running
    <2> QED
      BY <1>2, <2>1, <2>2, <2>3, <2>4, BeginTakes, CommitApplies DEF Next, Store!Next
  <1> QED
    BY <1>1, <1>2, LocksHold, PTL DEF Spec, ActsAtomically, Store!Spec

=============================================================================
