------------------------------- MODULE Assets -------------------------------
(***************************************************************************)
(* The reservoir and gate services, and the facility chain                 *)
(*     receipt -> directive -> gate -> reservoir                           *)
(* in which every row names the next one by code and must belong to the    *)
(* same facility.  As in module Dispatch a handler reads outside any       *)
(* transaction, one query per step, and commits in one step.               *)
(*                                                                         *)
(* Directives and receipts are here only as links of the chain: creation,  *)
(* editing and deletion.  The transitions of a directive up to executing   *)
(* (module Dispatch) are the single move from draft to executing, and the  *)
(* settlement of a receipt is left out.                                    *)
(***************************************************************************)
EXTENDS Integers, Lifecycle

CONSTANTS
    Reservoirs, Gates, Directives, Receipts,  \* codes
    Facilities,     \* facility names, as strings.EqualFold tells them apart
    Requests,       \* the requests the server handles at the same time
    None,           \* no link, no row
    Lead,           \* how far a client's expectedVersion may be ahead of the row
    MaxVersion      \* bound: edits start only on rows below this version

Rows == Reservoirs \cup Gates \cup Directives \cup Receipts

ASSUME TablesAssumption ==
    /\ Reservoirs \cap (Gates \cup Directives \cup Receipts) = {}
    /\ Gates \cap (Directives \cup Receipts) = {}
    /\ Directives \cap Receipts = {}
    /\ None \notin Rows
ASSUME BoundAssumption == Lead \in Nat /\ MaxVersion \in Nat

VARIABLES
    rows,       \* code -> its row
    trail,      \* code -> number of its audit rows
    held,       \* history: code -> the facilities the row has belonged to
    req         \* request -> what its handler holds in memory

database == <<rows, trail, held>>
vars == <<database, req>>

Status == ReservoirState \cup GateState \cup {"draft", "executing", "pending"}

Row == [ life : {"absent", "live", "deleted"}, version : Nat, status : Status,
         facility : Facilities \cup {None}, link : Rows \cup {None} ]

Absent == [ life |-> "absent", version |-> 0, status |-> "normal",
            facility |-> None, link |-> None ]

\* Slip: the default of one table is copied to the others.
InitialStatusCopied(x) == "draft"

\* The status of a new row, and the graph of its table.
InitialStatus(x) ==
    CASE x \in Reservoirs -> "normal"
      [] x \in Gates      -> "open"
      [] x \in Directives -> "draft"
      [] OTHER            -> "pending"

Graph(x) ==
    CASE x \in Reservoirs -> ReservoirTransitions
      [] x \in Gates      -> GateUnitTransitions
      [] x \in Directives -> {<<"draft", "executing">>}
      [] OTHER            -> {}

Live(x) == x \in Rows /\ rows[x].life = "live"

\* The rows that may stand above x in the chain.
Authorities(x) ==
    CASE x \in Reservoirs -> {None}
      [] x \in Gates      -> Reservoirs
      [] x \in Directives -> Gates
      [] OTHER            -> Directives

\* What a service asks of the row above before it links x to it.
\* Slip: the facility is not compared.
AcceptsAnyFacility(x, link, facility) == Live(link)

Accepts(x, link, facility) ==
    /\ Live(link)
    /\ rows[link].facility = facility
    /\ link \in Gates => rows[link].status # "locked"
    /\ link \in Directives => rows[link].status = "executing"

Idle == [pc |-> "idle", x |-> None, row |-> Absent, expected |-> 0, to |-> Absent]

Begin(r, request) ==
    /\ req[r] = Idle
    /\ req' = [req EXCEPT ![r] = request]
    /\ UNCHANGED database

Finish(r) == req' = [req EXCEPT ![r] = Idle]

-----------------------------------------------------------------------------
(***************************************************************************)
(* Creation: the authority is read and compared, then the row is inserted. *)
(* A receipt takes the facility of its directive instead of comparing one. *)
(***************************************************************************)
BeginCreate(r) ==
    \E x \in Rows, facility \in Facilities : \E link \in Authorities(x) :
        /\ x \notin Reservoirs => Accepts(x, link, facility)
        /\ Begin(r, [Idle EXCEPT !.pc = "insert", !.x = x,
                !.to = [ life |-> "live", version |-> 1,
                         status |-> InitialStatus(x),
                         facility |-> facility, link |-> link ]])

\* The unique indexes, over soft-deleted rows too: the code, and the directive
\* of a receipt.
Fits(x, row) ==
    /\ rows[x].life = "absent"
    /\ x \in Receipts => \A c \in Receipts : rows[c].link # row.link

Insert(r) ==
    LET q == req[r] IN
    /\ q.pc = "insert"
    /\ Fits(q.x, q.to)
    /\ rows' = [rows EXCEPT ![q.x] = q.to]
    /\ held' = [held EXCEPT ![q.x] = @ \cup {q.to.facility}]
    /\ trail' = [trail EXCEPT ![q.x] = @ + 1]
    /\ Finish(r)

-----------------------------------------------------------------------------
(***************************************************************************)
(* Editing.  A reservoir moves to any facility; a gate keeps its           *)
(* reservoir, a receipt its directive; a draft may be linked anew.         *)
(***************************************************************************)
Editable(x) ==
    /\ x \in Directives => rows[x].status = "draft"
    /\ x \in Receipts => rows[x].status = "pending"

\* The expectedVersion a client sends.  It is compared with the row at the
\* commit only, never with the row the handler reads: a smaller one matches
\* nothing then, a larger one may.
ClientVersions(version) == version .. (version + Lead)

BeginUpdate(r) ==
    \E x \in Rows, facility \in Facilities : \E link \in Authorities(x) :
        LET row == rows[x] IN \E expected \in ClientVersions(row.version) :
        /\ row.life = "live"
        /\ row.version < MaxVersion
        /\ Editable(x)
        /\ x \notin Directives => link = row.link
        /\ Begin(r, [ pc |-> IF x \in Reservoirs THEN "commit" ELSE "readAuthority",
                      x |-> x, row |-> row, expected |-> expected,
                      to |-> [row EXCEPT !.facility = facility, !.link = link] ])

ReadAuthority(r) ==
    LET q == req[r] IN
    /\ q.pc = "readAuthority"
    /\ Accepts(q.x, q.to.link, q.to.facility)
    /\ req' = [req EXCEPT ![r].pc = "commit"]
    /\ UNCHANGED database

BeginTransition(r) ==
    \E x \in Rows, target \in Status :
        LET row == rows[x] IN \E expected \in ClientVersions(row.version) :
        /\ row.life = "live"
        /\ row.version < MaxVersion
        /\ CanTransition(Graph(x), row.status, target)
        /\ Begin(r, [ pc |-> "commit", x |-> x, row |-> row,
                      expected |-> expected, to |-> [row EXCEPT !.status = target] ])

\* Slips: the version is not compared; a soft-deleted row can be written.
MatchesAnyVersion(x, expected) == Live(x)
MatchesDeleted(x, expected) == rows[x].version = expected

Matches(x, expected) == Live(x) /\ rows[x].version = expected

\* Slip: an edit that keeps the status writes no audit row.
AuditIfMoved(q) == IF q.to.status = q.row.status THEN 0 ELSE 1

\* The audit rows of an update or a transition.
Audit(q) == 1

\* The full-row write of Store.update, and its audit row.
Commit(r) ==
    LET q == req[r] IN
    /\ q.pc = "commit"
    /\ Matches(q.x, q.expected)
    /\ rows' = [rows EXCEPT ![q.x] = [q.to EXCEPT !.version = q.expected + 1]]
    /\ held' = [held EXCEPT ![q.x] = @ \cup {q.to.facility}]
    /\ trail' = [trail EXCEPT ![q.x] = @ + Audit(q)]
    /\ Finish(r)

-----------------------------------------------------------------------------
\* Deletion looks at nothing below the row, and deletes by id alone.
BeginDelete(r) ==
    \E x \in Rows :
        /\ Live(x)
        /\ Editable(x)
        /\ Begin(r, [Idle EXCEPT !.pc = "delete", !.x = x, !.row = rows[x]])

Delete(r) ==
    LET q == req[r] IN
    /\ q.pc = "delete"
    /\ Live(q.x)
    /\ rows' = [rows EXCEPT ![q.x].life = "deleted"]
    /\ trail' = [trail EXCEPT ![q.x] = @ + 1]
    /\ Finish(r)
    /\ UNCHANGED held

\* A refused check, a lost race, an error or a crash: nothing is committed.
Fail(r) ==
    /\ req[r] # Idle
    /\ Finish(r)
    /\ UNCHANGED database

\* A seeded reservoir and a seeded gate; the rest comes later.
Init ==
    \E f \in Facilities, v \in Reservoirs, g \in Gates :
        /\ rows = [x \in Rows |->
              IF x \in {v, g}
              THEN [ life |-> "live", version |-> 1, status |-> InitialStatus(x),
                     facility |-> f, link |-> IF x = g THEN v ELSE None ]
              ELSE Absent]
        /\ trail = [x \in Rows |-> rows[x].version]
        /\ held = [x \in Rows |-> IF x \in {v, g} THEN {f} ELSE {}]
        /\ req = [r \in Requests |-> Idle]

Next ==
    \E r \in Requests :
        \/ BeginCreate(r) \/ Insert(r)
        \/ BeginUpdate(r) \/ ReadAuthority(r) \/ BeginTransition(r) \/ Commit(r)
        \/ BeginDelete(r) \/ Delete(r)
        \/ Fail(r)

Spec == Init /\ [][Next]_vars

-----------------------------------------------------------------------------
\* Rows, history and the memory of the handlers hold what their types allow,
\* each row with a status of its own table.
TypeOK ==
    /\ rows \in [Rows -> Row]
    /\ \A x \in Rows : rows[x].life # "absent" => rows[x].status \in
          CASE x \in Reservoirs -> ReservoirState
            [] x \in Gates      -> GateState
            [] x \in Directives -> {"draft", "executing"}
            [] OTHER            -> {"pending"}
    /\ trail \in [Rows -> Nat]
    /\ held \in [Rows -> SUBSET Facilities]
    /\ req \in [Requests ->
          [ pc : {"idle", "insert", "readAuthority", "commit", "delete"},
            x : Rows \cup {None}, row : Row, expected : Nat, to : Row ]]

\* Nobody belongs to a facility by its own word: the facility of a gate, a
\* directive or a receipt is one that the row above it has really had.
AuthorityHeldIt ==
    \A x \in Rows :
        rows[x].link # None => rows[x].facility \in held[rows[x].link]

\* A receipt and its directive never part as long as clients send the version
\* of the row their request meets (Lead = 0): the directive cannot change once
\* it executes, so the facility copied from it stays the right one.  An edit of
\* the draft sent with a version ahead can still commit after the start.
ReceiptKeepsFacility ==
    \A c \in Receipts :
        rows[c].life # "absent" => rows[c].facility = rows[rows[c].link].facility

\* Every version of a row, and its deletion, has exactly one audit row.
EvidencePerVersion ==
    \A x \in Rows :
        trail[x] = rows[x].version + IF rows[x].life = "deleted" THEN 1 ELSE 0

\* A deleted row never comes back or changes: a link made by code can never
\* come to mean another row, and no update in flight resurrects one.
DeletedForGood ==
    [][\A x \in Rows : rows[x].life = "deleted" => rows'[x] = rows[x]]_vars

=============================================================================
