------------------------------ MODULE Startup ------------------------------
(***************************************************************************)
(* From a process to a serving instance: the configuration is loaded and   *)
(* checked, the database connected, migrated and seeded, Redis pinged      *)
(* (backend/cmd/server/main.go, config.go, database.go).  Any step may be  *)
(* cut by a crash, an error or the startup timeout, after which the        *)
(* container is restarted, unless its operator stopped it; several         *)
(* instances may start on one database.                                    *)
(***************************************************************************)
EXTENDS Integers, Sequences, FiniteSets

CONSTANTS
    Instances,      \* the server processes
    Environments,   \* the environments they are deployed with
    MaxAttempts,    \* attempts to reach the database (20 in the code)
    MaxFaults       \* bound on crashes, errors, stops, redeployments, deletions

Roles == {"admin", "operator", "reviewer"}

\* What an environment tells the checks apart: a number that is not set or
\* cannot be parsed is 0, a password is a text with its length in bytes.
Environment ==
    [ production : BOOLEAN, supportedDriver : BOOLEAN,
      secretLength : Nat, placeholderSecret : BOOLEAN,
      passwords : [Roles -> [text : STRING, length : Nat]],
      requestLimit : Int, loginRequestLimit : Int ]

ASSUME EnvironmentsAssumption ==
    \A e \in Environments : DOMAIN e = DOMAIN [production |-> 0, supportedDriver |-> 0,
        secretLength |-> 0, placeholderSecret |-> 0, passwords |-> 0,
        requestLimit |-> 0, loginRequestLimit |-> 0] /\ DOMAIN e.passwords = Roles
ASSUME BoundsAssumption == MaxAttempts \in Nat \ {0} /\ MaxFaults \in Nat

VARIABLES
    environment,  \* instance -> the environment it is deployed with
    proc,         \* instance -> how far its process has come
    tables,       \* table -> "missing", "empty", "filled" or "wiped"
    accounts,     \* the rows of users: a name, and the password its hash accepts
    evidence,     \* how often the approvals of the seeded directives are stored
    orphaned,     \* history: a process was cut between directives and approvals
    faults        \* counter, for the bound

database == <<tables, accounts, evidence>>
vars == <<environment, proc, database, orphaned, faults>>

-----------------------------------------------------------------------------
\* A malformed or non-positive number silently is the default.
IntEnv(raw, fallback) == IF raw <= 0 THEN fallback ELSE raw

Default == "Admin123!"

\* Slip: the three passwords may be the same.
ValidateEachPassword(e) ==
    /\ e.supportedDriver
    /\ e.secretLength >= 16
    /\ e.production =>
          /\ e.secretLength >= 32 /\ ~e.placeholderSecret
          /\ \A r \in Roles : e.passwords[r].text # Default /\ e.passwords[r].length >= 12
    /\ IntEnv(e.requestLimit, 180) >= 10 /\ IntEnv(e.requestLimit, 180) <= 100000
    /\ IntEnv(e.loginRequestLimit, 8) \in 1..1000

\* Load and Validate.  The durations always pass: durationEnv never returns one
\* that is not positive.
Validate(e) ==
    /\ e.supportedDriver
    /\ e.secretLength >= 16
    /\ e.production =>
          /\ e.secretLength >= 32 /\ ~e.placeholderSecret
          /\ \A r \in Roles : e.passwords[r].text # Default /\ e.passwords[r].length >= 12
          /\ \A r, s \in Roles : r # s => e.passwords[r].text # e.passwords[s].text
    /\ IntEnv(e.requestLimit, 180) >= 10 /\ IntEnv(e.requestLimit, 180) <= 100000
    /\ IntEnv(e.loginRequestLimit, 8) \in 1..1000

\* bcrypt.GenerateFromPassword fails for more than 72 bytes.
Hashable(e) == \A r \in Roles : e.passwords[r].length <= 72

\* The accounts of an empty database, once their passwords are hashed.
Accounts(e) ==
    { [name |-> r, password |-> e.passwords[r].text] : r \in Roles }
    \cup IF e.production THEN {}
         ELSE { [name |-> "viewer", password |-> e.passwords["admin"].text] }

-----------------------------------------------------------------------------
MigrateOrder == << "users", "audit_logs", "reservoirs", "gates", "directives",
                   "approvals", "confirmations" >>
Tables == { MigrateOrder[n] : n \in DOMAIN MigrateOrder }

SeedOrder == << "users", "reservoirs", "gates", "directives", "confirmations" >>

\* The tables whose seeded rows can all be deleted while the system runs: a
\* seeded directive that is pending or executing never becomes a draft again.
Wipeable == {"reservoirs", "gates", "confirmations"}

Down == [pc |-> "down", step |-> 0, attempts |-> 0]

Goes(i, p) == proc' = [proc EXCEPT ![i] = p]
At(i, pc) == proc[i].pc = pc
Table(i) == SeedOrder[proc[i].step]

Start(i) ==
    /\ At(i, "down")
    /\ Validate(environment[i])
    /\ Goes(i, [Down EXCEPT !.pc = "connect"])
    /\ UNCHANGED <<environment, database, orphaned, faults>>

\* The database answers a ping.
Connect(i) ==
    /\ At(i, "connect")
    /\ Goes(i, [Down EXCEPT !.pc = "migrate", !.step = 1])
    /\ UNCHANGED <<environment, database, orphaned, faults>>

\* It does not: another attempt a second later, unless it was the last one.
Reconnect(i) ==
    /\ At(i, "connect")
    /\ faults < MaxFaults
    /\ faults' = faults + 1
    /\ Goes(i, IF proc[i].attempts + 1 = MaxAttempts THEN Down
               ELSE [proc[i] EXCEPT !.attempts = @ + 1])
    /\ UNCHANGED <<environment, database, orphaned>>

AfterMigrating(p) ==
    IF p.step = Len(MigrateOrder) THEN [Down EXCEPT !.pc = "count", !.step = 1]
    ELSE [p EXCEPT !.pc = "migrate", !.step = @ + 1]

\* AutoMigrate asks for one table after the other whether it is there ...
Migrate(i) ==
    /\ At(i, "migrate")
    /\ Goes(i, IF tables[MigrateOrder[proc[i].step]] = "missing"
               THEN [proc[i] EXCEPT !.pc = "create"]
               ELSE AfterMigrating(proc[i]))
    /\ UNCHANGED <<environment, database, orphaned, faults>>

\* ... and creates it with its indexes if not.  An instance that created it in
\* between makes CREATE TABLE fail, and the process exits.
CreateTable(i) ==
    LET table == MigrateOrder[proc[i].step] IN
    /\ At(i, "create")
    /\ IF tables[table] = "missing"
       THEN /\ tables' = [tables EXCEPT ![table] = "empty"]
            /\ Goes(i, AfterMigrating(proc[i]))
       ELSE Goes(i, Down) /\ UNCHANGED tables
    /\ UNCHANGED <<environment, accounts, evidence, orphaned, faults>>

\* Slip: seeding does not stop after the last table.
AfterEveryTable(p) == [p EXCEPT !.pc = "count", !.step = @ + 1]

AfterTable(p) ==
    IF p.step = Len(SeedOrder) THEN [Down EXCEPT !.pc = "redis"]
    ELSE [p EXCEPT !.pc = "count", !.step = @ + 1]

\* Slip: every start inserts.
SeededNever(table) == FALSE

\* Count does not see rows that are soft-deleted.
Seeded(table) == tables[table] = "filled"

Count(i) ==
    /\ At(i, "count")
    /\ Goes(i, IF Seeded(Table(i)) THEN AfterTable(proc[i])
               ELSE [proc[i] EXCEPT !.pc = "insert"])
    /\ UNCHANGED <<environment, database, orphaned, faults>>

\* Slip: an insert into a table that is filled already goes unnoticed.
FitsAlways(table) == tables[table] # "missing"

\* The unique indexes do.
Fits(table) == tables[table] = "empty"

\* Rows that are refused, and before that passwords that cannot be hashed, end
\* the process.
Insert(i) ==
    /\ At(i, "insert")
    /\ IF Fits(Table(i)) /\ (Table(i) = "users" => Hashable(environment[i]))
       THEN /\ tables' = [tables EXCEPT ![Table(i)] = "filled"]
            /\ accounts' = IF Table(i) = "users" THEN accounts \cup Accounts(environment[i])
                           ELSE accounts
            /\ Goes(i, IF Table(i) = "directives" THEN [proc[i] EXCEPT !.pc = "approvals"]
                       ELSE AfterTable(proc[i]))
       ELSE Goes(i, Down) /\ UNCHANGED <<tables, accounts>>
    /\ UNCHANGED <<environment, evidence, orphaned, faults>>

\* The approvals of the seeded directives are a second insert.
InsertApprovals(i) ==
    /\ At(i, "approvals")
    /\ tables' = [tables EXCEPT !["approvals"] = "filled"]
    /\ evidence' = evidence + 1
    /\ Goes(i, AfterTable(proc[i]))
    /\ UNCHANGED <<environment, accounts, orphaned, faults>>

\* Redis answers, or is disabled.
Serve(i) ==
    /\ At(i, "redis")
    /\ Goes(i, [Down EXCEPT !.pc = "serving"])
    /\ UNCHANGED <<environment, database, orphaned, faults>>

\* The operator stops the container.  SIGTERM is handled once the process
\* serves, and kills it before.
Stop(i) ==
    /\ proc[i].pc \notin {"stopping", "stopped"}
    /\ faults < MaxFaults
    /\ faults' = faults + 1
    /\ Goes(i, [Down EXCEPT !.pc = IF At(i, "serving") THEN "stopping" ELSE "stopped"])
    /\ orphaned' = (orphaned \/ At(i, "approvals"))
    /\ UNCHANGED <<environment, database>>

\* The graceful shutdown ends, or is cut short.
Exit(i) ==
    /\ At(i, "stopping")
    /\ Goes(i, [Down EXCEPT !.pc = "stopped"])
    /\ UNCHANGED <<environment, database, orphaned, faults>>

\* A stopped container stays so until its operator starts it again.
Resume(i) ==
    /\ At(i, "stopped")
    /\ Goes(i, Down)
    /\ UNCHANGED <<environment, database, orphaned, faults>>

\* A crash, an error of a dependency, or the startup timeout: exit 1.
Fault(i) ==
    /\ proc[i].pc \notin {"down", "stopping", "stopped"}
    /\ faults < MaxFaults
    /\ faults' = faults + 1
    /\ Goes(i, Down)
    /\ orphaned' = (orphaned \/ At(i, "approvals"))
    /\ UNCHANGED <<environment, database>>

\* The container is replaced by one with another environment.
Redeploy(i) ==
    /\ proc[i].pc \in {"down", "stopped"}
    /\ faults < MaxFaults
    /\ faults' = faults + 1
    /\ \E e \in Environments : environment' = [environment EXCEPT ![i] = e]
    /\ Goes(i, Down)
    /\ UNCHANGED <<database, orphaned>>

\* Requests to a serving instance delete the last rows of a table, and fill it.
Wipe(table) ==
    /\ \E i \in Instances : At(i, "serving")
    /\ tables[table] = "filled"
    /\ faults < MaxFaults
    /\ faults' = faults + 1
    /\ tables' = [tables EXCEPT ![table] = "wiped"]
    /\ UNCHANGED <<environment, proc, accounts, evidence, orphaned>>

Refill(table) ==
    /\ \E i \in Instances : At(i, "serving")
    /\ tables[table] = "wiped"
    /\ tables' = [tables EXCEPT ![table] = "filled"]
    /\ UNCHANGED <<environment, proc, accounts, evidence, orphaned, faults>>

\* A new database.
Init ==
    /\ environment \in [Instances -> Environments]
    /\ proc = [i \in Instances |-> Down]
    /\ tables = [t \in Tables |-> "missing"]
    /\ accounts = {}
    /\ evidence = 0
    /\ orphaned = FALSE
    /\ faults = 0

Step(i) ==
    \/ Start(i) \/ Connect(i) \/ Migrate(i) \/ CreateTable(i) \/ Count(i) \/ Insert(i)
    \/ InsertApprovals(i) \/ Serve(i) \/ Exit(i)

Next ==
    \/ \E i \in Instances :
          \/ Step(i) \/ Reconnect(i)
          \/ Stop(i) \/ Resume(i) \/ Fault(i) \/ Redeploy(i)
    \/ \E t \in Wipeable : Wipe(t) \/ Refill(t)

\* A container whose process exited is restarted unless it was stopped
\* (docker-compose.yml: unless-stopped), and a process that runs goes on.
\* Nothing obliges anybody to start a stopped one, or to fill a table again.
Spec == Init /\ [][Next]_vars /\ \A i \in Instances : WF_vars(Step(i))

-----------------------------------------------------------------------------
\* The variables hold what their types allow.
TypeOK ==
    /\ environment \in [Instances -> Environments]
    /\ proc \in [Instances ->
          [ pc : { "down", "connect", "migrate", "create", "count", "insert",
                   "approvals", "redis", "serving", "stopping", "stopped" },
            step : 0..Len(MigrateOrder), attempts : 0..(MaxAttempts - 1) ]]
    /\ \A i \in Instances :
          proc[i].pc \in {"count", "insert", "approvals"} =>
              proc[i].step \in DOMAIN SeedOrder
    /\ tables \in [Tables -> {"missing", "empty", "filled", "wiped"}]
    /\ evidence \in Nat
    /\ orphaned \in BOOLEAN
    /\ faults \in 0..MaxFaults

\* The accounts are those of one start, never a mixture of two instances', and
\* a production start on an empty database gives exactly three accounts, each
\* with a password of its own (README.md:26).
AccountsOfOneStart ==
    accounts # {} =>
        \E e \in Environments :
            /\ accounts = Accounts(e)
            /\ e.production =>
                  /\ { a.name : a \in accounts } = Roles
                  /\ Cardinality({ a.password : a \in accounts }) = 3
                  /\ \A a \in accounts : a.password # Default

\* The approvals of the seeded directives are never stored twice, and they are
\* missing only while a process is about to store them or because one was cut
\* at that very point: no later start makes up for it.
SeededEvidence ==
    /\ evidence <= 1
    /\ tables["directives"] = "filled" /\ evidence = 0 =>
          orphaned \/ \E i \in Instances : At(i, "approvals")

\* With a valid environment every instance that is not stopped ends up serving,
\* however starts were cut, raced or refused.  Two things can keep it in a loop
\* of restarts: a table that stays wiped, whose seeded codes are taken but not
\* counted, and a password that Validate accepts and bcrypt refuses, for as long
\* as there are no accounts.
EventuallyServes ==
    \A i \in Instances :
        \/ <>[]At(i, "serving")
        \/ <>[]At(i, "stopped")
        \/ <>[](~Validate(environment[i]))
        \/ <>[](\E t \in Wipeable : tables[t] = "wiped")
        \/ <>[](tables["users"] # "filled" /\ ~Hashable(environment[i]))

=============================================================================
