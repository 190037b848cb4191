---------------------------- MODULE StartupProofs ----------------------------
(***************************************************************************)
(* Machine-checked proofs about Startup, for any number of instances, any  *)
(* set of environments and any number of faults.                           *)
(*                                                                         *)
(* Seeding counts and inserts in two steps and any number of instances may *)
(* stand between them, so nothing is known from the count.  What decides   *)
(* is that the first insert into a table takes the codes: the accounts     *)
(* come from the one instance that found "users" empty, and only the one   *)
(* that found "directives" empty ever stores the approvals.                *)
(***************************************************************************)
EXTENDS Startup, FiniteSetTheorems, TLAPS

-----------------------------------------------------------------------------
(***************************************************************************)
(* 1. The inductive invariant.                                             *)
(***************************************************************************)
Process ==
    [ pc : { "down", "connect", "migrate", "create", "count", "insert",
             "approvals", "redis", "serving", "stopping", "stopped" },
      step : 0..Len(MigrateOrder), attempts : 0..(MaxAttempts - 1) ]

\* A process that runs has had its environment accepted; one that migrates or
\* seeds is at one of the tables, and stores approvals after the directives.
ProcessOK(e, p) ==
    /\ p \in Process
    /\ p.pc \in {"migrate", "create"} => p.step \in 1..7
    /\ p.pc \in {"count", "insert", "approvals"} => p.step \in 1..5
    /\ p.pc = "approvals" => p.step = 4
    /\ p.pc \notin {"down", "stopped"} => Validate(e)

\* The accounts are those of an environment that was accepted, and there are
\* none before the table is filled.
AccountsOK ==
    /\ tables["users"] # "filled" => accounts = {}
    /\ accounts # {} =>
         \E e \in Environments : Validate(e) /\ accounts = Accounts(e)

\* Who is about to store the approvals is alone, and the first.
EvidenceOK ==
    /\ evidence <= 1
    /\ tables["directives"] # "filled" =>
         evidence = 0 /\ \A i \in Instances : ~At(i, "approvals")
    /\ \A i \in Instances : At(i, "approvals") =>
         evidence = 0 /\ \A j \in Instances \ {i} : ~At(j, "approvals")
    /\ tables["directives"] = "filled" /\ evidence = 0 =>
         orphaned \/ \E i \in Instances : At(i, "approvals")

TablesOK == tables \in [Tables -> {"missing", "empty", "filled", "wiped"}]

StartupInv ==
    /\ environment \in [Instances -> Environments]
    /\ proc \in [Instances -> Process]
    /\ \A i \in Instances : ProcessOK(environment[i], proc[i])
    /\ TablesOK
    /\ evidence \in Nat
    /\ orphaned \in BOOLEAN
    /\ faults \in 0..MaxFaults
    /\ AccountsOK
    /\ EvidenceOK

-----------------------------------------------------------------------------
(***************************************************************************)
(* 2. The tables and the processes.                                        *)
(***************************************************************************)

\* The tables, and those a start seeds.
LEMMA Orders ==
    /\ Tables = { "users", "audit_logs", "reservoirs", "gates", "directives",
                  "approvals", "confirmations" }
    /\ Len(MigrateOrder) = 7 /\ DOMAIN SeedOrder = 1..5
    /\ \A n \in 1..7 : MigrateOrder[n] \in Tables
    /\ Len(SeedOrder) = 5
    /\ \A n \in 1..5 : SeedOrder[n] \in Tables /\ (SeedOrder[n] = "directives" => n = 4)
  <1>1. /\ DOMAIN MigrateOrder = 1..7 /\ Len(SeedOrder) = 5
        /\ Len(MigrateOrder) = 7 /\ DOMAIN SeedOrder = 1..5
        /\ MigrateOrder[1] = "users" /\ MigrateOrder[2] = "audit_logs"
        /\ MigrateOrder[3] = "reservoirs" /\ MigrateOrder[4] = "gates"
        /\ MigrateOrder[5] = "directives" /\ MigrateOrder[6] = "approvals"
        /\ MigrateOrder[7] = "confirmations"
        /\ SeedOrder[1] = "users" /\ SeedOrder[2] = "reservoirs"
        /\ SeedOrder[3] = "gates" /\ SeedOrder[4] = "directives"
        /\ SeedOrder[5] = "confirmations"
    BY DEF MigrateOrder, SeedOrder
  <1>2. Tables = { "users", "audit_logs", "reservoirs", "gates", "directives",
                   "approvals", "confirmations" }
    <2>1. \A n \in 1..7 : n = 1 \/ n = 2 \/ n = 3 \/ n = 4 \/ n = 5 \/ n = 6 \/ n = 7
      OBVIOUS
    <2> QED
      BY <1>1, <2>1 DEF Tables
  <1>3. \A n \in 1..7 : MigrateOrder[n] \in Tables
    BY <1>1 DEF Tables
  <1>4. \A n \in 1..5 : n = 1 \/ n = 2 \/ n = 3 \/ n = 4 \/ n = 5
    OBVIOUS
  <1> QED
    BY <1>1, <1>2, <1>3, <1>4

\* A process that is down, and the ones right after it.
LEMMA Beginnings ==
    /\ Down \in Process /\ Down.pc = "down"
    /\ \A pc \in {"connect", "redis", "serving", "stopping", "stopped"} :
         LET p == [Down EXCEPT !.pc = pc] IN p \in Process /\ p.pc = pc
    /\ \A pc \in {"migrate", "count"} :
         LET p == [Down EXCEPT !.pc = pc, !.step = 1]
         IN  p \in Process /\ p.pc = pc /\ p.step = 1
  <1>1. Down.pc = "down" /\ Down.step = 0 /\ Down.attempts = 0
    BY DEF Down
  <1>2. 0 \in 0..(MaxAttempts - 1) /\ 0 \in 0..Len(MigrateOrder) /\ 1 \in 0..Len(MigrateOrder)
    BY BoundsAssumption, Orders
  <1>3. Down \in Process
    BY <1>2 DEF Down, Process
  <1>4. ASSUME NEW pc \in {"connect", "redis", "serving", "stopping", "stopped"}
        PROVE  [Down EXCEPT !.pc = pc] \in Process /\ [Down EXCEPT !.pc = pc].pc = pc
    BY <1>3 DEF Process
  <1>5. ASSUME NEW pc \in {"migrate", "count"}
        PROVE  LET p == [Down EXCEPT !.pc = pc, !.step = 1]
               IN  p \in Process /\ p.pc = pc /\ p.step = 1
    BY <1>2, <1>3 DEF Process
  <1> QED
    BY <1>1, <1>3, <1>4, <1>5

\* The process after a table has been seen to.
LEMMA AfterTableOK ==
    ASSUME NEW e, NEW p, ProcessOK(e, p), p.pc \in {"count", "insert", "approvals"}
    PROVE  ProcessOK(e, AfterTable(p)) /\ AfterTable(p).pc # "approvals"
  <1>1. p \in Process /\ p.step \in 1..5 /\ Validate(e)
    BY DEF ProcessOK
  <1>2. CASE p.step = 5
    BY <1>1, <1>2, Orders, Beginnings DEF AfterTable, ProcessOK
  <1>3. CASE p.step # 5
    <2> DEFINE q == [p EXCEPT !.pc = "count", !.step = p.step + 1]
    <2>1. AfterTable(p) = q
      BY <1>3, Orders DEF AfterTable
    <2>2. q \in Process /\ q.pc = "count" /\ q.step \in 1..5
      <3>1. p.step + 1 \in 1..5 /\ p.step + 1 \in 0..Len(MigrateOrder)
        BY <1>1, <1>3, Orders
      <3> QED
        BY <1>1, <3>1 DEF Process
    <2> HIDE DEF q
    <2> QED
      BY <1>1, <2>1, <2>2 DEF ProcessOK
  <1> QED
    BY <1>2, <1>3

\* The process after a table has been found or created.
LEMMA AfterMigratingOK ==
    ASSUME NEW e, NEW p, ProcessOK(e, p), p.pc \in {"migrate", "create"}
    PROVE  ProcessOK(e, AfterMigrating(p)) /\ AfterMigrating(p).pc # "approvals"
  <1>1. p \in Process /\ p.step \in 1..7 /\ Validate(e)
    BY DEF ProcessOK
  <1>2. CASE p.step = 7
    BY <1>1, <1>2, Orders, Beginnings DEF AfterMigrating, ProcessOK
  <1>3. CASE p.step # 7
    <2> DEFINE q == [p EXCEPT !.pc = "migrate", !.step = p.step + 1]
    <2>1. AfterMigrating(p) = q
      BY <1>3, Orders DEF AfterMigrating
    <2>2. q \in Process /\ q.pc = "migrate" /\ q.step \in 1..7
      <3>1. p.step + 1 \in 1..7 /\ p.step + 1 \in 0..Len(MigrateOrder)
        BY <1>1, <1>3, Orders
      <3> QED
        BY <1>1, <3>1 DEF Process
    <2> HIDE DEF q
    <2> QED
      BY <1>1, <2>1, <2>2 DEF ProcessOK
  <1> QED
    BY <1>2, <1>3

\* Steps of a process that leave the database alone and have nothing to do with
\* the approvals.
LEMMA ProcessMoves ==
    ASSUME StartupInv, NEW i \in Instances, NEW p,
           ProcessOK(environment[i], p), p.pc # "approvals", ~At(i, "approvals"),
           Goes(i, p), UNCHANGED <<environment, tables, accounts, evidence>>,
           orphaned' = orphaned, faults' \in 0..MaxFaults
    PROVE  StartupInv'
  <1>1. /\ proc' \in [Instances -> Process] /\ proc'[i] = p
        /\ \A j \in Instances \ {i} : proc'[j] = proc[j]
    BY DEF StartupInv, Goes, ProcessOK
  <1>2. \A j \in Instances : ProcessOK(environment[j], proc[j])'
    BY <1>1 DEF StartupInv, ProcessOK
  <1>3. \A j \in Instances : At(j, "approvals")' <=> At(j, "approvals")
    BY <1>1 DEF At
  <1>4. EvidenceOK'
    BY <1>3 DEF StartupInv, EvidenceOK
  <1> QED
    BY <1>1, <1>2, <1>4 DEF StartupInv, TablesOK, AccountsOK

\* A table other than the accounts and the directives changes.
LEMMA TableChanges ==
    ASSUME StartupInv, NEW t \in Tables, NEW s \in {"filled", "wiped"},
           t \notin {"users", "directives"},
           tables' = [tables EXCEPT ![t] = s],
           UNCHANGED <<environment, proc, accounts, evidence, orphaned>>,
           faults' \in 0..MaxFaults
    PROVE  StartupInv'
  <1>1. "users" \in Tables /\ "directives" \in Tables
    BY Orders
  <1>2. /\ TablesOK'
        /\ \A u \in {"users", "directives"} :
             tables'[u] = "filled" <=> tables[u] = "filled"
    BY <1>1 DEF StartupInv, TablesOK
  <1>3. AccountsOK'
    BY <1>2 DEF StartupInv, AccountsOK
  <1>4. EvidenceOK'
    BY <1>2 DEF StartupInv, EvidenceOK, At
  <1> QED
    BY <1>2, <1>3, <1>4 DEF StartupInv, ProcessOK

-----------------------------------------------------------------------------
(***************************************************************************)
(* 3. The steps.                                                           *)
(***************************************************************************)

\* Steps before and after seeding, and the counts.
LEMMA PlainSteps ==
    ASSUME StartupInv, NEW i \in Instances,
           \/ Start(i) \/ Connect(i) \/ Reconnect(i) \/ Count(i) \/ Serve(i)
           \/ Exit(i) \/ Resume(i)
    PROVE  StartupInv'
  <1> DEFINE e == environment[i]
  <1>1. /\ ProcessOK(e, proc[i]) /\ proc[i] \in Process
        /\ faults \in 0..MaxFaults /\ MaxFaults \in Nat
    BY BoundsAssumption DEF StartupInv
  <1>2. faults < MaxFaults => faults + 1 \in 0..MaxFaults
    BY <1>1
  <1>3. CASE Start(i)
    <2>1. Validate(e) /\ ~At(i, "approvals")
      BY <1>3 DEF Start, At
    <2>2. ProcessOK(e, [Down EXCEPT !.pc = "connect"])
          /\ [Down EXCEPT !.pc = "connect"].pc # "approvals"
      BY <2>1, Beginnings DEF ProcessOK
    <2> QED
      BY <1>1, <1>3, <2>1, <2>2, ProcessMoves DEF Start, database
  <1>4. CASE Connect(i)
    <2>1. Validate(e) /\ ~At(i, "approvals")
      BY <1>1, <1>4 DEF Connect, At, ProcessOK
    <2>2. ProcessOK(e, [Down EXCEPT !.pc = "migrate", !.step = 1])
          /\ [Down EXCEPT !.pc = "migrate", !.step = 1].pc # "approvals"
      BY <2>1, Beginnings DEF ProcessOK
    <2> QED
      BY <1>1, <1>4, <2>1, <2>2, ProcessMoves DEF Connect, database
  <1>5. CASE Reconnect(i)
    <2> DEFINE p == IF proc[i].attempts + 1 = MaxAttempts THEN Down
                    ELSE [proc[i] EXCEPT !.attempts = proc[i].attempts + 1]
    <2>1. Validate(e) /\ ~At(i, "approvals") /\ proc[i].pc = "connect"
      BY <1>1, <1>5 DEF Reconnect, At, ProcessOK
    <2>2. CASE proc[i].attempts + 1 = MaxAttempts
      BY <1>1, <1>2, <1>5, <2>1, <2>2, Beginnings, ProcessMoves
      DEF Reconnect, database, ProcessOK
    <2>3. CASE proc[i].attempts + 1 # MaxAttempts
      <3> DEFINE q == [proc[i] EXCEPT !.attempts = proc[i].attempts + 1]
      <3>1. q \in Process /\ q.pc = "connect"
        BY <1>1, <2>1, <2>3, BoundsAssumption DEF Process
      <3>2. Goes(i, q)
        BY <1>5, <2>3 DEF Reconnect
      <3> HIDE DEF q
      <3>3. ProcessOK(e, q) /\ q.pc # "approvals"
        BY <2>1, <3>1 DEF ProcessOK
      <3> QED
        BY <1>1, <1>2, <1>5, <2>1, <3>2, <3>3, ProcessMoves DEF Reconnect, database
    <2> QED
      BY <2>2, <2>3
  <1>6. CASE Count(i)
    <2>1. ~At(i, "approvals") /\ proc[i].pc = "count"
      BY <1>6 DEF Count, At
    <2>2. CASE Seeded(Table(i))
      <3>1. ProcessOK(e, AfterTable(proc[i])) /\ AfterTable(proc[i]).pc # "approvals"
        BY <1>1, <2>1, AfterTableOK
      <3>2. Goes(i, AfterTable(proc[i]))
        BY <1>6, <2>2 DEF Count
      <3> QED
        BY <1>1, <1>6, <2>1, <3>1, <3>2, ProcessMoves DEF Count, database
    <2>3. CASE ~Seeded(Table(i))
      <3> DEFINE q == [proc[i] EXCEPT !.pc = "insert"]
      <3>1. q \in Process /\ q.pc = "insert" /\ q.step = proc[i].step
        BY <1>1 DEF Process
      <3>2. Goes(i, q)
        BY <1>6, <2>3 DEF Count
      <3> HIDE DEF q
      <3>3. ProcessOK(e, q) /\ q.pc # "approvals"
        BY <1>1, <2>1, <3>1 DEF ProcessOK
      <3> QED
        BY <1>1, <1>6, <2>1, <3>2, <3>3, ProcessMoves DEF Count, database
    <2> QED
      BY <2>2, <2>3
  <1>7. CASE Serve(i)
    <2>1. Validate(e) /\ ~At(i, "approvals")
      BY <1>1, <1>7 DEF Serve, At, ProcessOK
    <2>2. ProcessOK(e, [Down EXCEPT !.pc = "serving"])
          /\ [Down EXCEPT !.pc = "serving"].pc # "approvals"
      BY <2>1, Beginnings DEF ProcessOK
    <2> QED
      BY <1>1, <1>7, <2>1, <2>2, ProcessMoves DEF Serve, database
  <1>8. CASE Exit(i)
    <2>1. ~At(i, "approvals")
      BY <1>8 DEF Exit, At
    <2>2. ProcessOK(e, [Down EXCEPT !.pc = "stopped"])
          /\ [Down EXCEPT !.pc = "stopped"].pc # "approvals"
      BY Beginnings DEF ProcessOK
    <2> QED
      BY <1>1, <1>8, <2>1, <2>2, ProcessMoves DEF Exit, database
  <1>9. CASE Resume(i)
    <2>1. ~At(i, "approvals")
      BY <1>9 DEF Resume, At
    <2>2. ProcessOK(e, Down) /\ Down.pc # "approvals"
      BY Beginnings DEF ProcessOK
    <2> QED
      BY <1>1, <1>9, <2>1, <2>2, ProcessMoves DEF Resume, database
  <1> QED
    BY <1>3, <1>4, <1>5, <1>6, <1>7, <1>8, <1>9

LEMMA MigrateStep ==
    ASSUME StartupInv, NEW i \in Instances, Migrate(i)
    PROVE  StartupInv'
  <1>1. /\ ProcessOK(environment[i], proc[i]) /\ faults \in 0..MaxFaults
        /\ proc[i] \in Process /\ proc[i].pc = "migrate" /\ ~At(i, "approvals")
        /\ UNCHANGED <<environment, tables, accounts, evidence, orphaned, faults>>
    BY DEF StartupInv, Migrate, At, database
  <1>2. CASE tables[MigrateOrder[proc[i].step]] = "missing"
    <2> DEFINE q == [proc[i] EXCEPT !.pc = "create"]
    <2>1. q \in Process /\ q.pc = "create" /\ q.step = proc[i].step
      BY <1>1 DEF Process
    <2>2. Goes(i, q)
      BY <1>2 DEF Migrate
    <2> HIDE DEF q
    <2>3. ProcessOK(environment[i], q) /\ q.pc # "approvals"
      BY <1>1, <2>1 DEF ProcessOK
    <2> QED
      BY <1>1, <2>2, <2>3, ProcessMoves
  <1>3. CASE tables[MigrateOrder[proc[i].step]] # "missing"
    <2>1. Goes(i, AfterMigrating(proc[i]))
      BY <1>3 DEF Migrate
    <2>2. /\ ProcessOK(environment[i], AfterMigrating(proc[i]))
          /\ AfterMigrating(proc[i]).pc # "approvals"
      BY <1>1, AfterMigratingOK
    <2> QED
      BY <1>1, <2>1, <2>2, ProcessMoves
  <1> QED
    BY <1>2, <1>3

\* A table that is created is empty, and nothing has been stored before.
LEMMA CreateTableStep ==
    ASSUME StartupInv, NEW i \in Instances, CreateTable(i)
    PROVE  StartupInv'
  <1> DEFINE t == MigrateOrder[proc[i].step]
             p == AfterMigrating(proc[i])
  <1>1. /\ ProcessOK(environment[i], proc[i]) /\ faults \in 0..MaxFaults
        /\ proc[i].pc = "create" /\ ~At(i, "approvals")
        /\ UNCHANGED <<environment, accounts, evidence, orphaned, faults>>
    BY DEF StartupInv, CreateTable, At
  <1>2. t \in Tables
    BY <1>1, Orders DEF ProcessOK
  <1>3. CASE tables[t] # "missing"
    <2>1. ProcessOK(environment[i], Down) /\ Down.pc # "approvals"
      BY Beginnings DEF ProcessOK
    <2>2. Goes(i, Down) /\ UNCHANGED tables
      BY <1>3 DEF CreateTable
    <2> QED
      BY <1>1, <2>1, <2>2, ProcessMoves
  <1>4. CASE tables[t] = "missing"
    <2>1. tables' = [tables EXCEPT ![t] = "empty"] /\ Goes(i, p)
      BY <1>4 DEF CreateTable
    <2>2. ProcessOK(environment[i], p) /\ p.pc # "approvals"
      BY <1>1, AfterMigratingOK
    <2> HIDE DEF t, p
    <2>3. /\ proc' \in [Instances -> Process] /\ proc'[i] = p
          /\ \A j \in Instances \ {i} : proc'[j] = proc[j]
      BY <2>1, <2>2 DEF StartupInv, Goes, ProcessOK
    <2>4. \A j \in Instances : ProcessOK(environment[j], proc[j])'
      BY <1>1, <2>2, <2>3 DEF StartupInv, ProcessOK
    <2>5. \A j \in Instances : At(j, "approvals")' <=> At(j, "approvals")
      BY <1>1, <2>2, <2>3 DEF At
    <2>6. /\ TablesOK'
          /\ \A u \in {"users", "directives"} :
               tables'[u] = "filled" <=> tables[u] = "filled"
      BY <1>2, <1>4, <2>1, Orders DEF StartupInv, TablesOK
    <2>7. AccountsOK'
      BY <1>1, <2>6 DEF StartupInv, AccountsOK
    <2>8. EvidenceOK'
      BY <1>1, <2>5, <2>6 DEF StartupInv, EvidenceOK
    <2> QED
      BY <1>1, <2>3, <2>4, <2>6, <2>7, <2>8 DEF StartupInv
  <1> QED
    BY <1>3, <1>4

\* The insert that finds the table empty is the only one that takes effect.
LEMMA InsertStep ==
    ASSUME StartupInv, NEW i \in Instances, Insert(i)
    PROVE  StartupInv'
  <1> DEFINE e == environment[i]
             t == Table(i)
             p == IF t = "directives" THEN [proc[i] EXCEPT !.pc = "approvals"]
                  ELSE AfterTable(proc[i])
  <1>1. /\ ProcessOK(e, proc[i]) /\ proc[i] \in Process /\ e \in Environments
        /\ faults \in 0..MaxFaults /\ proc[i].pc = "insert" /\ ~At(i, "approvals")
    BY DEF StartupInv, Insert, At
  <1>2. /\ proc[i].step \in 1..5 /\ Validate(e) /\ t \in Tables
        /\ t = "directives" => proc[i].step = 4
    BY <1>1, Orders DEF ProcessOK, Table
  <1> DEFINE taken == Fits(t) /\ (t = "users" => Hashable(e))
  <1>3. CASE ~taken
    <2>1. ProcessOK(e, Down) /\ Down.pc # "approvals"
      BY Beginnings DEF ProcessOK
    <2>2. Goes(i, Down) /\ UNCHANGED <<tables, accounts>>
      BY <1>3 DEF Insert
    <2> QED
      BY <1>1, <2>1, <2>2, ProcessMoves DEF Insert
  <1>4. CASE taken
    <2>1. /\ tables[t] = "empty"
          /\ tables' = [tables EXCEPT ![t] = "filled"]
          /\ accounts' = IF t = "users" THEN accounts \cup Accounts(e) ELSE accounts
          /\ Goes(i, p)
          /\ UNCHANGED <<environment, evidence, orphaned, faults>>
      BY <1>4 DEF Insert, Fits
    <2>2. ProcessOK(e, p) /\ (p.pc = "approvals" <=> t = "directives")
      <3>1. CASE t = "directives"
        <4> DEFINE q == [proc[i] EXCEPT !.pc = "approvals"]
        <4>1. q \in Process /\ q.pc = "approvals" /\ q.step = proc[i].step
          BY <1>1 DEF Process
        <4>2. p = q
          BY <3>1
        <4> HIDE DEF q, p
        <4> QED
          BY <1>2, <3>1, <4>1, <4>2 DEF ProcessOK
      <3>2. CASE t # "directives"
        BY <1>1, <3>2, AfterTableOK
      <3> QED
        BY <3>1, <3>2
    <2> HIDE DEF p, t
    <2>3. /\ proc' \in [Instances -> Process] /\ proc'[i] = p
          /\ \A j \in Instances \ {i} : proc'[j] = proc[j]
      BY <2>1, <2>2 DEF StartupInv, Goes, ProcessOK
    <2>4. /\ TablesOK' /\ tables'[t] = "filled"
          /\ \A u \in Tables \ {t} : tables'[u] = tables[u]
      BY <1>2, <2>1 DEF StartupInv, TablesOK
    <2>5. \A j \in Instances : ProcessOK(environment[j], proc[j])'
      BY <2>1, <2>2, <2>3 DEF StartupInv, ProcessOK
    <2>6. "users" \in Tables /\ "directives" \in Tables
      BY Orders
    <2>7. AccountsOK'
      <3>1. CASE t = "users"
        <4>1. accounts = {}
          BY <2>1, <3>1 DEF StartupInv, AccountsOK
        <4> QED
          BY <1>1, <1>2, <2>1, <2>4, <3>1, <4>1 DEF AccountsOK
      <3>2. CASE t # "users"
        BY <2>1, <2>4, <2>6, <3>2 DEF StartupInv, AccountsOK
      <3> QED
        BY <3>1, <3>2
    <2>8. EvidenceOK'
      <3>1. CASE t = "directives"
        <4>1. evidence = 0 /\ \A j \in Instances : ~At(j, "approvals")
          BY <2>1, <3>1 DEF StartupInv, EvidenceOK
        <4>2. At(i, "approvals")' /\ \A j \in Instances \ {i} : ~At(j, "approvals")'
          BY <2>2, <2>3, <3>1, <4>1 DEF At
        <4> QED
          BY <2>1, <2>4, <3>1, <4>1, <4>2 DEF EvidenceOK
      <3>2. CASE t # "directives"
        <4>1. \A j \in Instances : At(j, "approvals")' <=> At(j, "approvals")
          BY <1>1, <2>2, <2>3, <3>2 DEF At
        <4>2. tables'["directives"] = tables["directives"]
          BY <2>4, <2>6, <3>2
        <4> QED
          BY <2>1, <4>1, <4>2 DEF StartupInv, EvidenceOK
      <3> QED
        BY <3>1, <3>2
    <2> QED
      BY <2>1, <2>3, <2>4, <2>5, <2>7, <2>8 DEF StartupInv
  <1> QED
    BY <1>3, <1>4

LEMMA ApprovalsStep ==
    ASSUME StartupInv, NEW i \in Instances, InsertApprovals(i)
    PROVE  StartupInv'
  <1> DEFINE p == AfterTable(proc[i])
  <1>1. /\ At(i, "approvals") /\ Goes(i, p) /\ evidence' = evidence + 1
        /\ tables' = [tables EXCEPT !["approvals"] = "filled"]
        /\ UNCHANGED <<environment, accounts, orphaned, faults>>
    BY DEF InsertApprovals
  <1>2. ProcessOK(environment[i], p) /\ p.pc # "approvals"
    BY <1>1, AfterTableOK DEF StartupInv, At
  <1> HIDE DEF p
  <1>3. /\ proc' \in [Instances -> Process] /\ proc'[i] = p
        /\ \A j \in Instances \ {i} : proc'[j] = proc[j]
    BY <1>1, <1>2 DEF StartupInv, Goes, ProcessOK
  <1>4. \A j \in Instances : ProcessOK(environment[j], proc[j])'
    BY <1>1, <1>2, <1>3 DEF StartupInv, ProcessOK
  <1>5. evidence = 0 /\ tables["directives"] = "filled"
        /\ \A j \in Instances \ {i} : ~At(j, "approvals")
    BY <1>1 DEF StartupInv, EvidenceOK
  <1>6. \A j \in Instances : ~At(j, "approvals")'
    BY <1>2, <1>3, <1>5 DEF At
  <1>7. /\ TablesOK' /\ tables'["users"] = tables["users"]
        /\ tables'["directives"] = tables["directives"]
    BY <1>1, Orders DEF StartupInv, TablesOK
  <1>8. EvidenceOK'
    BY <1>1, <1>5, <1>6, <1>7 DEF EvidenceOK
  <1>9. AccountsOK'
    BY <1>1, <1>7 DEF StartupInv, AccountsOK
  <1> QED
    BY <1>1, <1>3, <1>4, <1>5, <1>7, <1>8, <1>9 DEF StartupInv

\* A cut before the approvals is remembered, by a fault or by the operator.
LEMMA CutStep ==
    ASSUME StartupInv, NEW i \in Instances, Fault(i) \/ Stop(i)
    PROVE  StartupInv'
  <1>1. /\ faults < MaxFaults /\ faults' = faults + 1
        /\ orphaned' = (orphaned \/ At(i, "approvals"))
        /\ UNCHANGED <<environment, tables, accounts, evidence>>
    BY DEF Fault, Stop, database
  <1>2. PICK p : Goes(i, p) /\ ProcessOK(environment[i], p) /\ p.pc # "approvals"
    <2>1. CASE Fault(i)
      BY <2>1, Beginnings DEF Fault, ProcessOK
    <2>2. CASE Stop(i)
      <3> DEFINE pc == IF At(i, "serving") THEN "stopping" ELSE "stopped"
                 q == [Down EXCEPT !.pc = pc]
      <3>1. q \in Process /\ q.pc = pc
        BY Beginnings
      <3>2. Goes(i, q)
        BY <2>2 DEF Stop
      <3>3. pc = "stopping" => Validate(environment[i])
        BY DEF StartupInv, ProcessOK, At
      <3> HIDE DEF q
      <3>4. ProcessOK(environment[i], q) /\ q.pc # "approvals"
        BY <3>1, <3>3 DEF ProcessOK
      <3> QED
        BY <3>2, <3>4
    <2> QED
      BY <2>1, <2>2
  <1>3. /\ proc' \in [Instances -> Process] /\ proc'[i] = p
        /\ \A j \in Instances \ {i} : proc'[j] = proc[j]
    BY <1>2 DEF StartupInv, Goes, ProcessOK
  <1>4. \A j \in Instances : ProcessOK(environment[j], proc[j])'
    BY <1>1, <1>2, <1>3 DEF StartupInv, ProcessOK
  <1>5. /\ ~At(i, "approvals")'
        /\ \A j \in Instances \ {i} : At(j, "approvals")' <=> At(j, "approvals")
    BY <1>2, <1>3 DEF At
  <1>6. orphaned' \in BOOLEAN /\ (orphaned => orphaned') /\ (At(i, "approvals") => orphaned')
    BY <1>1 DEF At
  <1>7. EvidenceOK'
    BY <1>1, <1>5, <1>6 DEF StartupInv, EvidenceOK
  <1>8. faults' \in 0..MaxFaults
    BY <1>1, BoundsAssumption DEF StartupInv
  <1> QED
    BY <1>1, <1>3, <1>4, <1>6, <1>7, <1>8 DEF StartupInv, TablesOK, AccountsOK

\* The new container of an instance has not started yet.
LEMMA RedeployStep ==
    ASSUME StartupInv, NEW i \in Instances, Redeploy(i)
    PROVE  StartupInv'
  <1>1. PICK e \in Environments : environment' = [environment EXCEPT ![i] = e]
    BY DEF Redeploy
  <1>2. /\ ~At(i, "approvals") /\ faults < MaxFaults /\ faults' = faults + 1
        /\ Goes(i, Down)
        /\ UNCHANGED <<tables, accounts, evidence, orphaned>>
    BY DEF Redeploy, database, At
  <1>3. /\ environment' \in [Instances -> Environments]
        /\ \A j \in Instances \ {i} : environment'[j] = environment[j]
    BY <1>1 DEF StartupInv
  <1>4. /\ proc' \in [Instances -> Process] /\ proc'[i] = Down
        /\ \A j \in Instances \ {i} : proc'[j] = proc[j]
    BY <1>2, Beginnings DEF StartupInv, Goes
  <1>5. \A j \in Instances : ProcessOK(environment[j], proc[j])'
    BY <1>3, <1>4, Beginnings DEF StartupInv, ProcessOK
  <1>6. faults' \in 0..MaxFaults
    BY <1>2, BoundsAssumption DEF StartupInv
  <1>7. \A j \in Instances : At(j, "approvals")' <=> At(j, "approvals")
    BY <1>2, <1>4, Beginnings DEF At
  <1>8. EvidenceOK'
    BY <1>2, <1>7 DEF StartupInv, EvidenceOK
  <1> QED
    BY <1>2, <1>3, <1>4, <1>5, <1>6, <1>8 DEF StartupInv, TablesOK, AccountsOK

\* The tables that requests wipe are others.
LEMMA WipeOrRefillStep ==
    ASSUME StartupInv, NEW t \in Wipeable, Wipe(t) \/ Refill(t)
    PROVE  StartupInv'
  <1>1. t \in Tables /\ t \notin {"users", "directives"}
    BY Orders DEF Wipeable
  <1>2. CASE Wipe(t)
    <2>1. faults' \in 0..MaxFaults
      BY <1>2, BoundsAssumption DEF Wipe, StartupInv
    <2> QED
      BY <1>1, <1>2, <2>1, TableChanges DEF Wipe
  <1>3. CASE Refill(t)
    <2>1. faults' \in 0..MaxFaults
      BY <1>3 DEF Refill, StartupInv
    <2> QED
      BY <1>1, <1>3, <2>1, TableChanges DEF Refill
  <1> QED
    BY <1>2, <1>3

LEMMA StartupInvHolds == Spec => []StartupInv
  <1>1. Init => StartupInv
    <2> SUFFICES ASSUME Init PROVE StartupInv
      OBVIOUS
    <2>1. \A i \in Instances : proc[i] = Down /\ ~At(i, "approvals")
      BY Beginnings DEF Init, At
    <2>2. \A t \in Tables : tables[t] = "missing"
      BY DEF Init
    <2>3. AccountsOK /\ EvidenceOK
      BY <2>1, <2>2, Orders DEF Init, AccountsOK, EvidenceOK
    <2>4. /\ proc \in [Instances -> Process]
          /\ \A i \in Instances : ProcessOK(environment[i], proc[i])
      BY <2>1, Beginnings DEF Init, ProcessOK
    <2>5. TablesOK
      BY DEF Init, TablesOK
    <2>6. orphaned \in BOOLEAN
      BY DEF Init
    <2>7. faults \in 0..MaxFaults /\ evidence \in Nat
      BY BoundsAssumption DEF Init
    <2> QED
      BY <2>3, <2>4, <2>5, <2>6, <2>7 DEF Init, StartupInv
  <1>2. ASSUME StartupInv, [Next]_vars PROVE StartupInv'
    <2>1. CASE UNCHANGED vars
      BY <1>2, <2>1
      DEF vars, database, StartupInv, ProcessOK, TablesOK, AccountsOK, EvidenceOK, At
    <2> QED
      BY <1>2, <2>1, PlainSteps, MigrateStep, CreateTableStep, InsertStep, ApprovalsStep,
         CutStep, RedeployStep, WipeOrRefillStep
      DEF Next, Step
  <1> QED
    BY <1>1, <1>2, PTL DEF Spec

-----------------------------------------------------------------------------
(***************************************************************************)
(* 4. What follows.                                                        *)
(***************************************************************************)

\* The variables hold what their types allow.
THEOREM StartupTypes == Spec => []TypeOK
  <1>1. StartupInv => TypeOK
    BY Orders DEF StartupInv, TypeOK, TablesOK, Process, ProcessOK
  <1> QED
    BY <1>1, StartupInvHolds, PTL

\* A production environment that is accepted gives three accounts, each with a
\* password of its own that is not the default.
LEMMA ProductionAccounts ==
    ASSUME NEW e, Validate(e), e.production
    PROVE  /\ { a.name : a \in Accounts(e) } = Roles
           /\ Cardinality({ a.password : a \in Accounts(e) }) = 3
           /\ \A a \in Accounts(e) : a.password # Default
  <1> DEFINE text(r) == e.passwords[r].text
             passwords == {text("admin"), text("operator"), text("reviewer")}
  <1>1. Accounts(e) = { [name |-> r, password |-> text(r)] : r \in Roles }
    BY DEF Accounts
  <1>2. /\ \A r \in Roles : text(r) # Default
        /\ \A r, s \in Roles : r # s => text(r) # text(s)
    BY DEF Validate
  <1> HIDE DEF text
  <1>3. \A a \in Accounts(e) : \E r \in Roles : a.name = r /\ a.password = text(r)
    BY <1>1
  <1>4. \A r \in Roles : \E a \in Accounts(e) : a.name = r /\ a.password = text(r)
    <2>1. ASSUME NEW r \in Roles
          PROVE  \E a \in Accounts(e) : a.name = r /\ a.password = text(r)
      <3> DEFINE a == [name |-> r, password |-> text(r)]
      <3>1. a \in Accounts(e)
        BY <1>1
      <3>2. a.name = r /\ a.password = text(r)
        OBVIOUS
      <3> HIDE DEF a
      <3> QED
        BY <3>1, <3>2
    <2> QED
      BY <2>1
  <1>5. { a.name : a \in Accounts(e) } = Roles
    BY <1>3, <1>4
  <1>6. { a.password : a \in Accounts(e) } = { text(r) : r \in Roles }
    BY <1>3, <1>4
  <1>7. { text(r) : r \in Roles } = passwords
    BY DEF Roles
  <1>8. Cardinality(passwords) = 3
    <2>1. /\ text("admin") # text("operator") /\ text("admin") # text("reviewer")
          /\ text("operator") # text("reviewer")
      BY <1>2 DEF Roles
    <2>2. IsFiniteSet({text("admin")}) /\ Cardinality({text("admin")}) = 1
      BY FS_Singleton
    <2> DEFINE two == {text("admin")} \cup {text("operator")}
    <2>3. IsFiniteSet(two) /\ Cardinality(two) = 2
      BY <2>1, <2>2, FS_AddElement
    <2>4. text("reviewer") \notin two /\ passwords = two \cup {text("reviewer")}
      BY <2>1
    <2> HIDE DEF two, passwords
    <2> QED
      BY <2>3, <2>4, FS_AddElement
  <1> QED
    BY <1>2, <1>3, <1>5, <1>6, <1>7, <1>8

\* The accounts are those of one start, and those of a production start are
\* exactly three, each with a password of its own.
THEOREM AccountsComeFromOneStart == Spec => []AccountsOfOneStart
  <1>1. StartupInv => AccountsOfOneStart
    BY ProductionAccounts DEF StartupInv, AccountsOK, AccountsOfOneStart
  <1> QED
    BY <1>1, StartupInvHolds, PTL

\* The approvals of the seeded directives are stored once, and are missing only
\* while somebody is about to store them or since somebody was cut there.
THEOREM EvidenceIsSeededOnce == Spec => []SeededEvidence
  <1>1. StartupInv => SeededEvidence
    BY DEF StartupInv, EvidenceOK, SeededEvidence
  <1> QED
    BY <1>1, StartupInvHolds, PTL

=============================================================================
