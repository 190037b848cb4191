---------------------------- MODULE AtomicStore ----------------------------
(***************************************************************************)
(* What the repositories promise the services: a set of rows, and jobs     *)
(* that name the rows to insert, write or delete and the versions they     *)
(* expect.  A job takes effect in ONE step, on rows that all are as it     *)
(* expects, with one audit row for each row it changes -- or it has no     *)
(* effect at all.  Approvals are evidence themselves and not audited.      *)
(* Module Dispatch is written against this promise; module Transactions    *)
(* is shown to keep it.                                                    *)
(***************************************************************************)
EXTENDS Naturals

CONSTANTS Rows,     \* all rows
          Silent,   \* those whose changes are not audited
          Jobs, NoJob

VARIABLES rows,   \* row -> [life, version]
          trail,  \* row -> number of its audit rows
          job     \* job -> the change it is to make, or NoJob

vars == <<rows, trail, job>>

\* A change: the rows to insert, to delete, and to write with the version each
\* is expected to have.
Change == [ inserts : SUBSET Rows, deletes : SUBSET Rows,
            writes : SUBSET [row : Rows, version : Nat] ]

Written(change) == { w.row : w \in change.writes }
Touched(change) == change.inserts \cup change.deletes \cup Written(change)

Applies(change) ==
    /\ \A x \in change.inserts : rows[x].life = "absent"
    /\ \A x \in change.deletes : rows[x].life = "live"
    /\ \A w \in change.writes :
          rows[w.row].life = "live" /\ rows[w.row].version = w.version

Take(j) ==
    /\ job[j] = NoJob
    /\ job'[j] \in Change
    /\ job' = [job EXCEPT ![j] = job'[j]]
    /\ UNCHANGED <<rows, trail>>

Apply(j) ==
    /\ job[j] # NoJob
    /\ Applies(job[j])
    /\ rows' = [x \in Rows |->
          [ life |-> IF x \in job[j].inserts THEN "live"
                     ELSE IF x \in job[j].deletes THEN "deleted" ELSE rows[x].life,
            version |-> rows[x].version +
                IF x \in job[j].inserts \cup Written(job[j]) THEN 1 ELSE 0 ]]
    /\ trail' = [x \in Rows |->
          trail[x] + IF x \in Touched(job[j]) \ Silent THEN 1 ELSE 0]
    /\ job' = [job EXCEPT ![j] = NoJob]

\* A set of jobs is given up: the rows are as if it had never run.
Drop(dropped) ==
    /\ dropped # {}
    /\ job' = [j \in Jobs |-> IF j \in dropped THEN NoJob ELSE job[j]]
    /\ UNCHANGED <<rows, trail>>

Init ==
    /\ rows = [x \in Rows |-> [life |-> "absent", version |-> 0]]
    /\ trail = [x \in Rows |-> 0]
    /\ job = [j \in Jobs |-> NoJob]

Next ==
    \/ \E j \in Jobs : Take(j) \/ Apply(j)
    \/ \E dropped \in SUBSET Jobs : Drop(dropped)

Spec == Init /\ [][Next]_vars

=============================================================================
