---------------------------- MODULE AssetsProofs ----------------------------
(***************************************************************************)
(* Machine-checked proofs about Assets, for any number of rows, facilities *)
(* and simultaneous requests.                                              *)
(*                                                                         *)
(* Nothing holds the rows still between the check of a handler and its     *)
(* commit, so the proofs rest on what can be said of the rows for good     *)
(* (Succeeds): the versions grow, the same version of a live row is the    *)
(* same row, and a facility a row once had stays in its history.  What a   *)
(* handler remembers (HandlerOK) is stated in just these terms, and        *)
(* survives every step of the others.                                      *)
(*                                                                         *)
(* The version a client sends may be ahead of the row its handler reads    *)
(* (Lead), and then the row a commit overwrites need not be the one read.  *)
(* What this takes away is stated under the condition Lead = 0, and only   *)
(* the last theorem needs it.                                              *)
(***************************************************************************)
EXTENDS Assets, TLAPS

-----------------------------------------------------------------------------
(***************************************************************************)
(* 1. The inductive invariant.                                             *)
(***************************************************************************)
StatusesOf(x) ==
    CASE x \in Reservoirs -> ReservoirState
      [] x \in Gates      -> GateState
      [] x \in Directives -> {"draft", "executing"}
      [] OTHER            -> {"pending"}

Handler == [ pc : {"idle", "insert", "readAuthority", "commit", "delete"},
             x : Rows \cup {None}, row : Row, expected : Nat, to : Row ]

\* Code x may hold `row`, as the database is: the row above it has had its
\* facility, and the directive of a receipt executes and has it still.
Linked(x, row) ==
    /\ row.link # None => row.facility \in held[row.link]
    /\ Lead = 0 /\ x \in Receipts =>
         /\ rows[row.link].life # "absent"
         /\ rows[row.link].status = "executing"
         /\ rows[row.link].facility = row.facility

\* What any row of code x is like.
Shaped(x, row) ==
    /\ row \in Row
    /\ row.life # "absent"
    /\ row.status \in StatusesOf(x)
    /\ row.link \in Authorities(x)
    /\ row.facility \in Facilities

\* What is known of the row of code x.
RowOK(x) ==
    \/ rows[x] = Absent /\ trail[x] = 0
    \/ /\ Shaped(x, rows[x])
       /\ Linked(x, rows[x])
       /\ rows[x].facility \in held[x]
       /\ trail[x] = rows[x].version + IF rows[x].life = "deleted" THEN 1 ELSE 0

Punctual(q) ==
    /\ q.row.version = q.expected
    /\ rows[q.x].version >= q.expected
    /\ rows[q.x].version = q.expected /\ rows[q.x].life = "live" => rows[q.x] = q.row

\* The handler read q.row.  If the client sent the version of that row, the row
\* is still the same unless its version has moved on or it was deleted.
Remembered(q) ==
    /\ q.x \in Rows
    /\ Shaped(q.x, q.row)
    /\ q.row.life = "live"
    /\ q.x \in Directives => q.row.status = "draft"
    /\ rows[q.x].life # "absent"
    /\ Lead = 0 => Punctual(q)

HandlerOK(q) ==
    /\ q.pc = "insert" => /\ q.x \in Rows
                          /\ Shaped(q.x, q.to) /\ Linked(q.x, q.to)
                          /\ q.to.life = "live" /\ q.to.version = 1
    /\ q.pc \in {"readAuthority", "commit"} =>
                          /\ Remembered(q)
                          /\ Shaped(q.x, q.to)
                          /\ q.to.life = "live"
    /\ q.pc = "commit" => Linked(q.x, q.to)

AssetsInv ==
    /\ rows \in [Rows -> Row]
    /\ trail \in [Rows -> Nat]
    /\ held \in [Rows -> SUBSET Facilities]
    /\ req \in [Requests -> Handler]
    /\ \A x \in Rows : RowOK(x)
    /\ \A r \in Requests : HandlerOK(req[r])

-----------------------------------------------------------------------------
(***************************************************************************)
(* 2. What the rows keep for good.                                         *)
(***************************************************************************)

\* `row` may follow the row of code x.
Succeeds(x, row) ==
    rows[x].life # "absent" =>
        /\ row.life # "absent"
        /\ row.version >= rows[x].version
        /\ row.version = rows[x].version /\ row.life = "live" => row = rows[x]
        /\ Lead = 0 /\ x \in Directives /\ rows[x].status = "executing" =>
              row.status = "executing" /\ row.facility = rows[x].facility

Evolves ==
    \A x \in Rows : Succeeds(x, rows'[x]) /\ held[x] \subseteq held'[x]

\* The tables a link leads to.
LEMMA AuthoritiesAreRows ==
    ASSUME NEW x \in Rows, NEW link \in Authorities(x)
    PROVE  /\ link \in Rows \cup {None}
           /\ link \in Rows => link # None
           /\ x \in Reservoirs => link = None
           /\ x \notin Reservoirs => link \in Rows
           /\ x \in Receipts => link \in Directives
           /\ x \in Gates => link \in Reservoirs
           /\ x \in Directives => link \in Gates
  BY TablesAssumption DEF Authorities, Rows

\* A link that was right stays right.
LEMMA LinkedStays ==
    ASSUME Evolves, NEW x \in Rows, NEW row, Shaped(x, row), Linked(x, row)
    PROVE  Linked(x, row)'
  <1>1. /\ row.link \in Rows \cup {None} /\ row.link \in Authorities(x)
        /\ x \in Receipts => row.link \in Directives /\ row.link \in Rows
    BY AuthoritiesAreRows DEF Shaped, Rows
  <1>2. row.link # None => row.facility \in held'[row.link]
    BY <1>1 DEF Evolves, Linked
  <1>3. ASSUME Lead = 0, x \in Receipts
        PROVE  /\ rows'[row.link].life # "absent"
               /\ rows'[row.link].status = "executing"
               /\ rows'[row.link].facility = row.facility
    BY <1>1, <1>3 DEF Evolves, Succeeds, Linked
  <1> QED
    BY <1>2, <1>3 DEF Linked

\* What a handler remembers stays true while others act.
LEMMA HandlerStays ==
    ASSUME rows \in [Rows -> Row], rows' \in [Rows -> Row],
           Evolves, NEW q \in Handler, HandlerOK(q)
    PROVE  HandlerOK(q)'
  <1>1. ASSUME Remembered(q) PROVE Remembered(q)'
    <2>1. /\ rows[q.x].version \in Nat /\ rows'[q.x].version \in Nat /\ q.expected \in Nat
          /\ q.x \in Rows
      BY <1>1 DEF Remembered, Row, Handler
    <2>2. Succeeds(q.x, rows'[q.x])
      BY <2>1 DEF Evolves
    <2>3. ASSUME Lead = 0 PROVE Punctual(q)'
      BY <1>1, <2>1, <2>2, <2>3 DEF Remembered, Punctual, Succeeds
    <2> QED
      BY <1>1, <2>1, <2>2, <2>3 DEF Remembered, Succeeds, Shaped
  <1>2. ASSUME q.pc = "insert" PROVE Linked(q.x, q.to)'
    BY <1>2, LinkedStays DEF HandlerOK
  <1>3. ASSUME q.pc = "commit" PROVE Linked(q.x, q.to)'
    BY <1>3, LinkedStays DEF HandlerOK, Remembered
  <1> QED
    BY <1>1, <1>2, <1>3 DEF HandlerOK, Shaped

\* Steps that leave the database alone.
LEMMA DatabaseRests ==
    ASSUME AssetsInv, UNCHANGED database, NEW r \in Requests, NEW q \in Handler,
           HandlerOK(q), req' = [req EXCEPT ![r] = q]
    PROVE  AssetsInv'
  <1>1. UNCHANGED <<rows, trail, held>>
    BY DEF database
  <1>2. Evolves
    BY <1>1 DEF Evolves, Succeeds, AssetsInv, Row
  <1>3. /\ req' \in [Requests -> Handler] /\ req'[r] = q
        /\ \A s \in Requests \ {r} : req'[s] = req[s]
    BY DEF AssetsInv
  <1>4. ASSUME NEW s \in Requests PROVE HandlerOK(req[s])'
    <2>1. ASSUME NEW p \in Handler, HandlerOK(p) PROVE HandlerOK(p)'
      BY <1>1, <1>2, <2>1, HandlerStays DEF AssetsInv
    <2>2. req'[s] \in Handler /\ HandlerOK(req'[s])
      BY <1>3 DEF AssetsInv
    <2> QED
      BY <2>1, <2>2
  <1>5. \A x \in Rows : RowOK(x)'
    BY <1>1 DEF AssetsInv, RowOK, Linked, Shaped
  <1> QED
    BY <1>1, <1>3, <1>4, <1>5 DEF AssetsInv

\* Steps that write one row and end their handler.
LEMMA RowWritten ==
    ASSUME AssetsInv, NEW r \in Requests, NEW x \in Rows, NEW row,
           Shaped(x, row), Linked(x, row), Succeeds(x, row),
           row.version + (IF row.life = "deleted" THEN 1 ELSE 0) = trail[x] + 1,
           rows' = [rows EXCEPT ![x] = row],
           trail' = [trail EXCEPT ![x] = trail[x] + 1],
           \/ held' = [held EXCEPT ![x] = held[x] \cup {row.facility}]
           \/ held' = held /\ row.facility \in held[x],
           Finish(r)
    PROVE  AssetsInv'
  <1>1. row \in Row /\ row.facility \in Facilities
    BY DEF Shaped
  <1>2. /\ rows' \in [Rows -> Row] /\ rows'[x] = row
        /\ \A y \in Rows \ {x} : rows'[y] = rows[y]
    BY <1>1 DEF AssetsInv
  <1>3. /\ trail' \in [Rows -> Nat] /\ trail'[x] = trail[x] + 1
        /\ \A y \in Rows \ {x} : trail'[y] = trail[y]
    BY DEF AssetsInv
  <1>4. /\ held' \in [Rows -> SUBSET Facilities] /\ row.facility \in held'[x]
        /\ \A y \in Rows : held[y] \subseteq held'[y]
    BY <1>1 DEF AssetsInv
  <1>5. Evolves
    <2>1. ASSUME NEW y \in Rows PROVE Succeeds(y, rows'[y])
      <3>1. CASE y = x
        BY <1>2, <3>1
      <3>2. CASE y # x
        BY <1>2, <3>2 DEF Succeeds, AssetsInv, Row
      <3> QED
        BY <3>1, <3>2
    <2> QED
      BY <1>4, <2>1 DEF Evolves
  <1>6. ASSUME NEW y \in Rows PROVE RowOK(y)'
    <2>1. CASE y = x
      <3>1. Linked(x, row)'
        BY <1>5, LinkedStays
      <3>2. trail'[x] = row.version + IF row.life = "deleted" THEN 1 ELSE 0
        BY <1>3
      <3>3. Shaped(x, rows'[x]) /\ Linked(x, rows[x])'
        BY <1>2, <3>1 DEF Linked
      <3> QED
        BY <1>2, <1>4, <2>1, <3>2, <3>3 DEF RowOK, Shaped
    <2>2. CASE y # x
      <3>1. rows'[y] = rows[y] /\ trail'[y] = trail[y] /\ RowOK(y)
        BY <1>2, <1>3, <2>2 DEF AssetsInv
      <3>2. CASE rows[y] = Absent /\ trail[y] = 0
        BY <3>1, <3>2 DEF RowOK
      <3>3. CASE ~(rows[y] = Absent /\ trail[y] = 0)
        <4>1. /\ Shaped(y, rows[y]) /\ Linked(y, rows[y])
              /\ rows[y].facility \in held[y]
              /\ trail[y] = rows[y].version + IF rows[y].life = "deleted" THEN 1 ELSE 0
          BY <3>1, <3>3 DEF RowOK
        <4>2. ASSUME NEW old, old = rows[y] PROVE Linked(y, old)'
          BY <1>5, <4>1, <4>2, LinkedStays
        <4>3. Linked(y, rows[y])'
          BY <3>1, <4>2 DEF Linked
        <4>4. rows'[y].facility \in held'[y]
          BY <1>4, <3>1, <4>1
        <4> QED
          BY <3>1, <4>1, <4>3, <4>4 DEF RowOK, Shaped
      <3> QED
        BY <3>2, <3>3
    <2> QED
      BY <2>1, <2>2
  <1>7. /\ req' \in [Requests -> Handler] /\ req'[r] = Idle
        /\ \A s \in Requests \ {r} : req'[s] = req[s]
    <2>1. Idle \in Handler
      BY DEF Idle, Handler, Row, Absent, Status, ReservoirState
    <2> QED
      BY <2>1 DEF AssetsInv, Finish
  <1>8. ASSUME NEW s \in Requests PROVE HandlerOK(req[s])'
    <2>1. CASE s = r
      BY <1>7, <2>1 DEF HandlerOK, Idle
    <2>2. CASE s # r
      <3>1. ASSUME NEW p \in Handler, HandlerOK(p) PROVE HandlerOK(p)'
        BY <1>2, <1>5, <3>1, HandlerStays DEF AssetsInv
      <3>2. req'[s] \in Handler /\ HandlerOK(req'[s])
        BY <1>7, <2>2 DEF AssetsInv
      <3> QED
        BY <3>1, <3>2
    <2> QED
      BY <2>1, <2>2
  <1> QED
    BY <1>2, <1>3, <1>4, <1>6, <1>7, <1>8 DEF AssetsInv

-----------------------------------------------------------------------------
(***************************************************************************)
(* 3. The steps of the handlers.                                           *)
(***************************************************************************)

\* A row that is there is shaped, linked and remembered in the history.
LEMMA LiveRows ==
    ASSUME AssetsInv, NEW x \in Rows, rows[x].life # "absent"
    PROVE  /\ Shaped(x, rows[x]) /\ Linked(x, rows[x])
           /\ rows[x].facility \in held[x]
           /\ trail[x] = rows[x].version + IF rows[x].life = "deleted" THEN 1 ELSE 0
           /\ rows[x].version \in Nat
  <1>1. rows[x] # Absent
    BY DEF Absent
  <1> QED
    BY <1>1 DEF AssetsInv, RowOK, Row

\* A link that was accepted is right.
LEMMA AcceptedIsLinked ==
    ASSUME AssetsInv, NEW x \in Rows, NEW row, row.link \in Authorities(x),
           Accepts(x, row.link, row.facility)
    PROVE  Linked(x, row)
  <1>1. /\ row.link \in Rows /\ rows[row.link].life = "live"
        /\ rows[row.link].facility = row.facility
    BY DEF Accepts, Live
  <1>2. row.facility \in held[row.link]
    BY <1>1, LiveRows
  <1>3. ASSUME x \in Receipts PROVE rows[row.link].status = "executing"
    BY <1>3, AuthoritiesAreRows DEF Accepts
  <1> QED
    BY <1>1, <1>2, <1>3 DEF Linked

\* A new row starts with a status of its table.
LEMMA InitialStatusFits ==
    ASSUME NEW x \in Rows
    PROVE  InitialStatus(x) \in StatusesOf(x) /\ InitialStatus(x) \in Status
  BY DEF InitialStatus, StatusesOf, Status, ReservoirState, GateState

LEMMA CreateBegins ==
    ASSUME AssetsInv, NEW r \in Requests, BeginCreate(r)
    PROVE  AssetsInv'
  <1>1. PICK x \in Rows, facility \in Facilities : \E link \in Authorities(x) :
          /\ x \notin Reservoirs => Accepts(x, link, facility)
          /\ Begin(r, [Idle EXCEPT !.pc = "insert", !.x = x,
                !.to = [ life |-> "live", version |-> 1,
                         status |-> InitialStatus(x),
                         facility |-> facility, link |-> link ]])
    BY DEF BeginCreate
  <1>2. PICK link \in Authorities(x) :
          /\ x \notin Reservoirs => Accepts(x, link, facility)
          /\ Begin(r, [Idle EXCEPT !.pc = "insert", !.x = x,
                !.to = [ life |-> "live", version |-> 1,
                         status |-> InitialStatus(x),
                         facility |-> facility, link |-> link ]])
    BY <1>1
  <1> DEFINE to == [ life |-> "live", version |-> 1, status |-> InitialStatus(x),
                     facility |-> facility, link |-> link ]
             q == [Idle EXCEPT !.pc = "insert", !.x = x, !.to = to]
  <1>3. /\ Shaped(x, to) /\ to.life = "live" /\ to.version = 1
        /\ to.link = link /\ to.facility = facility
    BY InitialStatusFits, AuthoritiesAreRows DEF Shaped, Row
  <1>4. Linked(x, to)
    <2>1. CASE x \in Reservoirs
      <3>1. link = None /\ x \notin Receipts
        BY <2>1, AuthoritiesAreRows, TablesAssumption
      <3> QED
        BY <1>3, <3>1 DEF Linked
    <2>2. CASE x \notin Reservoirs
      BY <1>2, <1>3, <2>2, AcceptedIsLinked
    <2> QED
      BY <2>1, <2>2
  <1>5. q \in Handler /\ q.pc = "insert" /\ q.x = x /\ q.to = to
    <2>1. to \in Row
      BY <1>3 DEF Shaped
    <2> HIDE DEF to
    <2> QED
      BY <2>1 DEF Handler, Idle, Absent, Row, Status, ReservoirState
  <1>6. UNCHANGED database /\ req' = [req EXCEPT ![r] = q]
    BY <1>2 DEF Begin
  <1> HIDE DEF q, to
  <1>7. HandlerOK(q)
    BY <1>3, <1>4, <1>5 DEF HandlerOK
  <1> QED
    BY <1>5, <1>6, <1>7, DatabaseRests

LEMMA InsertCommits ==
    ASSUME AssetsInv, NEW r \in Requests, Insert(r)
    PROVE  AssetsInv'
  <1> DEFINE q == req[r]
  <1>1. /\ q \in Handler /\ q.pc = "insert" /\ HandlerOK(q)
        /\ rows[q.x].life = "absent"
        /\ rows' = [rows EXCEPT ![q.x] = q.to]
        /\ held' = [held EXCEPT ![q.x] = held[q.x] \cup {q.to.facility}]
        /\ trail' = [trail EXCEPT ![q.x] = trail[q.x] + 1]
        /\ Finish(r)
    BY DEF Insert, Fits, AssetsInv
  <1>2. /\ q.x \in Rows /\ Shaped(q.x, q.to) /\ Linked(q.x, q.to)
        /\ q.to.life = "live" /\ q.to.version = 1
    BY <1>1 DEF HandlerOK
  <1>3. trail[q.x] = 0
    BY <1>1, <1>2 DEF AssetsInv, RowOK, Shaped
  <1>4. Succeeds(q.x, q.to)
    BY <1>1 DEF Succeeds
  <1>5. q.to.version + (IF q.to.life = "deleted" THEN 1 ELSE 0) = trail[q.x] + 1
    BY <1>2, <1>3
  <1> HIDE DEF q
  <1> QED
    BY <1>1, <1>2, <1>4, <1>5, RowWritten

\* A handler that is to update row x: what Update and the transition share.
LEMMA EditBegins ==
    ASSUME AssetsInv, NEW r \in Requests, NEW x \in Rows, rows[x].life = "live",
           NEW pc \in {"readAuthority", "commit"}, NEW to,
           x \in Directives => rows[x].status = "draft",
           Shaped(x, to), to.life = "live", pc = "commit" => Linked(x, to),
           NEW expected \in ClientVersions(rows[x].version),
           Begin(r, [ pc |-> pc, x |-> x, row |-> rows[x],
                      expected |-> expected, to |-> to ])
    PROVE  AssetsInv'
  <1> DEFINE q == [ pc |-> pc, x |-> x, row |-> rows[x],
                    expected |-> expected, to |-> to ]
  <1>1. /\ q.pc = pc /\ q.x = x /\ q.row = rows[x] /\ q.expected = expected
        /\ q.to = to
    OBVIOUS
  <1>a. expected \in Nat /\ (Lead = 0 => expected = rows[x].version)
    BY LiveRows, BoundAssumption DEF ClientVersions
  <1>2. q \in Handler
    BY <1>a DEF Handler, AssetsInv, Shaped
  <1>3. UNCHANGED database /\ req' = [req EXCEPT ![r] = q]
    BY DEF Begin
  <1> HIDE DEF q
  <1>b. Lead = 0 => Punctual(q)
    BY <1>1, <1>a, LiveRows DEF Punctual
  <1>4. Remembered(q)
    BY <1>1, <1>b, LiveRows DEF Remembered
  <1>5. HandlerOK(q)
    BY <1>1, <1>4 DEF HandlerOK
  <1> QED
    BY <1>2, <1>3, <1>5, DatabaseRests

LEMMA UpdateBegins ==
    ASSUME AssetsInv, NEW r \in Requests, BeginUpdate(r)
    PROVE  AssetsInv'
  <1>1. PICK x \in Rows, facility \in Facilities : \E link \in Authorities(x) :
          \E expected \in ClientVersions(rows[x].version) :
            /\ rows[x].life = "live"
            /\ Editable(x)
            /\ Begin(r, [ pc |-> IF x \in Reservoirs THEN "commit" ELSE "readAuthority",
                  x |-> x, row |-> rows[x], expected |-> expected,
                  to |-> [rows[x] EXCEPT !.facility = facility, !.link = link] ])
    BY DEF BeginUpdate
  <1>2. PICK link \in Authorities(x), expected \in ClientVersions(rows[x].version) :
          /\ rows[x].life = "live"
          /\ Editable(x)
          /\ Begin(r, [ pc |-> IF x \in Reservoirs THEN "commit" ELSE "readAuthority",
                x |-> x, row |-> rows[x], expected |-> expected,
                to |-> [rows[x] EXCEPT !.facility = facility, !.link = link] ])
    BY <1>1
  <1> DEFINE pc == IF x \in Reservoirs THEN "commit" ELSE "readAuthority"
             to == [rows[x] EXCEPT !.facility = facility, !.link = link]
  <1>3. Shaped(x, rows[x])
    BY <1>2, LiveRows
  <1>4. rows[x] \in Row
    BY <1>3 DEF Shaped
  <1>5. /\ to \in Row /\ to.life = rows[x].life /\ to.status = rows[x].status
        /\ to.facility = facility /\ to.link = link
    BY <1>4, AuthoritiesAreRows DEF Row
  <1>6. Begin(r, [ pc |-> pc, x |-> x, row |-> rows[x],
                   expected |-> expected, to |-> to ])
    BY <1>2
  <1>7. pc \in {"readAuthority", "commit"} /\ (pc = "commit" => x \in Reservoirs)
    OBVIOUS
  <1> HIDE DEF to, pc
  <1>8. Shaped(x, to) /\ to.life = "live"
    BY <1>2, <1>3, <1>5 DEF Shaped
  <1>9. pc = "commit" => Linked(x, to)
    <2>1. x \in Reservoirs => link = None /\ x \notin Receipts
      BY AuthoritiesAreRows, TablesAssumption
    <2> QED
      BY <1>5, <1>7, <2>1 DEF Linked
  <1>10. x \in Directives => rows[x].status = "draft"
    BY <1>2 DEF Editable
  <1> QED
    BY <1>2, <1>6, <1>7, <1>8, <1>9, <1>10, EditBegins

LEMMA AuthorityRead ==
    ASSUME AssetsInv, NEW r \in Requests, ReadAuthority(r)
    PROVE  AssetsInv'
  <1> DEFINE p == req[r]
             q == [p EXCEPT !.pc = "commit"]
  <1>1. /\ p \in Handler /\ p.pc = "readAuthority" /\ HandlerOK(p)
        /\ Accepts(p.x, p.to.link, p.to.facility)
        /\ UNCHANGED database
        /\ req' = [req EXCEPT ![r] = q]
    BY DEF ReadAuthority, AssetsInv
  <1>2. Remembered(p) /\ Shaped(p.x, p.to) /\ p.to.life = "live"
    BY <1>1 DEF HandlerOK
  <1>3. Linked(p.x, p.to)
    BY <1>1, <1>2, AcceptedIsLinked DEF Remembered, Shaped
  <1> HIDE DEF p
  <1>4. /\ q \in Handler /\ q.pc = "commit" /\ q.x = p.x /\ q.row = p.row
        /\ q.expected = p.expected /\ q.to = p.to
    BY <1>1 DEF Handler
  <1> HIDE DEF q
  <1>5. HandlerOK(q)
    BY <1>2, <1>3, <1>4 DEF HandlerOK, Remembered, Punctual
  <1> QED
    BY <1>1, <1>4, <1>5, DatabaseRests

\* A move in the graph of a table leads to a status of that table, and only a
\* draft directive moves.
LEMMA GraphMoves ==
    ASSUME NEW x \in Rows, NEW from, NEW to, CanTransition(Graph(x), from, to)
    PROVE  /\ to \in StatusesOf(x)
           /\ x \in Directives => from = "draft"
           /\ x \notin Receipts
  <1>1. CASE x \in Reservoirs
    BY <1>1, TablesAssumption
    DEF CanTransition, Graph, StatusesOf, ReservoirTransitions, ReservoirState
  <1>2. CASE x \in Gates
    BY <1>2, TablesAssumption
    DEF CanTransition, Graph, StatusesOf, GateUnitTransitions, GateState
  <1>3. CASE x \in Directives
    BY <1>3, TablesAssumption DEF CanTransition, Graph, StatusesOf
  <1>4. CASE x \in Receipts
    BY <1>4, TablesAssumption DEF CanTransition, Graph
  <1> QED
    BY <1>1, <1>2, <1>3, <1>4 DEF Rows

LEMMA TransitionBegins ==
    ASSUME AssetsInv, NEW r \in Requests, BeginTransition(r)
    PROVE  AssetsInv'
  <1>0. PICK x \in Rows, target \in Status :
          \E expected \in ClientVersions(rows[x].version) :
            /\ rows[x].life = "live"
            /\ CanTransition(Graph(x), rows[x].status, target)
            /\ Begin(r, [ pc |-> "commit", x |-> x, row |-> rows[x],
                          expected |-> expected,
                          to |-> [rows[x] EXCEPT !.status = target] ])
    BY DEF BeginTransition
  <1>1. PICK expected \in ClientVersions(rows[x].version) :
          /\ rows[x].life = "live"
          /\ CanTransition(Graph(x), rows[x].status, target)
          /\ Begin(r, [ pc |-> "commit", x |-> x, row |-> rows[x],
                        expected |-> expected,
                        to |-> [rows[x] EXCEPT !.status = target] ])
    BY <1>0
  <1> DEFINE to == [rows[x] EXCEPT !.status = target]
  <1>2. Shaped(x, rows[x]) /\ Linked(x, rows[x])
    BY <1>1, LiveRows
  <1>3. rows[x] \in Row
    BY <1>2 DEF Shaped
  <1>4. /\ to \in Row /\ to.life = rows[x].life /\ to.status = target
        /\ to.facility = rows[x].facility /\ to.link = rows[x].link
    BY <1>3 DEF Row
  <1>5. Begin(r, [ pc |-> "commit", x |-> x, row |-> rows[x],
                   expected |-> expected, to |-> to ])
    BY <1>1
  <1> HIDE DEF to
  <1>6. Shaped(x, to) /\ Linked(x, to) /\ to.life = "live"
    BY <1>1, <1>2, <1>4, GraphMoves DEF Shaped, Linked
  <1>7. x \in Directives => rows[x].status = "draft"
    BY <1>1, GraphMoves
  <1> QED
    BY <1>1, <1>5, <1>6, <1>7, EditBegins

\* The row a commit finds has the version the client sent; if that is the one
\* the handler read, the row is the one it read.
LEMMA EditCommits ==
    ASSUME AssetsInv, NEW r \in Requests, Commit(r)
    PROVE  AssetsInv'
  <1> DEFINE q == req[r]
             row == [q.to EXCEPT !.version = q.expected + 1]
  <1>1. /\ q \in Handler /\ q.pc = "commit" /\ HandlerOK(q)
        /\ q.x \in Rows /\ rows[q.x].life = "live" /\ rows[q.x].version = q.expected
        /\ rows' = [rows EXCEPT ![q.x] = row]
        /\ held' = [held EXCEPT ![q.x] = held[q.x] \cup {q.to.facility}]
        /\ trail' = [trail EXCEPT ![q.x] = trail[q.x] + 1]
        /\ Finish(r)
    BY DEF Commit, Matches, Live, Audit, AssetsInv
  <1>2. /\ Remembered(q) /\ Shaped(q.x, q.to) /\ Linked(q.x, q.to)
        /\ q.to.life = "live"
    BY <1>1 DEF HandlerOK
  <1>3. q.to \in Row /\ q.expected \in Nat
    BY <1>1 DEF Handler
  <1>4. /\ row \in Row /\ row.life = q.to.life /\ row.version = q.expected + 1
        /\ row.status = q.to.status /\ row.facility = q.to.facility
        /\ row.link = q.to.link
    BY <1>3 DEF Row
  <1>5. Lead = 0 /\ q.x \in Directives => rows[q.x].status = "draft"
    BY <1>1, <1>2 DEF Remembered, Punctual
  <1>6. trail[q.x] = q.expected
    BY <1>1, LiveRows
  <1> HIDE DEF row
  <1>7. Shaped(q.x, row) /\ Linked(q.x, row)
    BY <1>2, <1>4 DEF Shaped, Linked
  <1>8. Succeeds(q.x, row)
    BY <1>1, <1>2, <1>3, <1>4, <1>5 DEF Succeeds
  <1>9. row.version + (IF row.life = "deleted" THEN 1 ELSE 0) = trail[q.x] + 1
    BY <1>2, <1>3, <1>4, <1>6
  <1> HIDE DEF q
  <1>10. held' = [held EXCEPT ![q.x] = held[q.x] \cup {row.facility}]
    BY <1>1, <1>4
  <1> QED
    BY <1>1, <1>7, <1>8, <1>9, <1>10, RowWritten

LEMMA DeleteBegins ==
    ASSUME AssetsInv, NEW r \in Requests, BeginDelete(r)
    PROVE  AssetsInv'
  <1>1. PICK x \in Rows :
          /\ Live(x)
          /\ Begin(r, [Idle EXCEPT !.pc = "delete", !.x = x, !.row = rows[x]])
    BY DEF BeginDelete
  <1> DEFINE q == [Idle EXCEPT !.pc = "delete", !.x = x, !.row = rows[x]]
  <1>2. q \in Handler /\ q.pc = "delete"
    <2>1. rows[x] \in Row
      BY DEF AssetsInv
    <2> QED
      BY <2>1 DEF Handler, Idle, Absent, Row, Status, ReservoirState
  <1>3. UNCHANGED database /\ req' = [req EXCEPT ![r] = q]
    BY <1>1 DEF Begin
  <1> HIDE DEF q
  <1>4. HandlerOK(q)
    BY <1>2 DEF HandlerOK
  <1> QED
    BY <1>2, <1>3, <1>4, DatabaseRests

\* A deletion keeps everything else of the row, whatever happened since the
\* handler read it.
LEMMA DeleteCommits ==
    ASSUME AssetsInv, NEW r \in Requests, Delete(r)
    PROVE  AssetsInv'
  <1> DEFINE x == req[r].x
             row == [rows[x] EXCEPT !.life = "deleted"]
  <1>1. /\ x \in Rows /\ rows[x].life = "live"
        /\ rows' = [rows EXCEPT ![x] = row]
        /\ trail' = [trail EXCEPT ![x] = trail[x] + 1]
        /\ held' = held /\ Finish(r)
    BY DEF Delete, Live, AssetsInv
  <1> HIDE DEF x
  <1>2. /\ Shaped(x, rows[x]) /\ Linked(x, rows[x]) /\ rows[x].facility \in held[x]
        /\ trail[x] = rows[x].version /\ rows[x].version \in Nat
    BY <1>1, LiveRows
  <1>3. rows[x] \in Row
    BY <1>2 DEF Shaped
  <1>4. /\ row \in Row /\ row.life = "deleted" /\ row.version = rows[x].version
        /\ row.status = rows[x].status /\ row.facility = rows[x].facility
        /\ row.link = rows[x].link
    BY <1>3 DEF Row
  <1> HIDE DEF row
  <1>5. Shaped(x, row) /\ Linked(x, row) /\ Succeeds(x, row)
    BY <1>2, <1>4 DEF Shaped, Linked, Succeeds
  <1>6. row.version + (IF row.life = "deleted" THEN 1 ELSE 0) = trail[x] + 1
    BY <1>2, <1>4
  <1>7. held' = held /\ row.facility \in held[x]
    BY <1>1, <1>2, <1>4
  <1> QED
    BY <1>1, <1>5, <1>6, <1>7, RowWritten

LEMMA HandlerFails ==
    ASSUME AssetsInv, NEW r \in Requests, Fail(r)
    PROVE  AssetsInv'
  <1>1. Idle \in Handler /\ HandlerOK(Idle)
    BY DEF Idle, Handler, Row, Absent, Status, ReservoirState, HandlerOK
  <1> QED
    BY <1>1, DatabaseRests DEF Fail, Finish

LEMMA NextKeepsAssets == AssetsInv /\ [Next]_vars => AssetsInv'
  <1> SUFFICES ASSUME AssetsInv, [Next]_vars PROVE AssetsInv'
    OBVIOUS
  <1>1. CASE UNCHANGED vars
    <2>1. UNCHANGED <<rows, trail, held, req>>
      BY <1>1 DEF vars, database
    <2>2. \A x \in Rows : RowOK(x)'
      BY <2>1 DEF AssetsInv, RowOK, Linked, Shaped
    <2>3. \A r \in Requests : HandlerOK(req[r])'
      BY <2>1 DEF AssetsInv, HandlerOK, Remembered, Punctual, Linked, Shaped
    <2> QED
      BY <2>1, <2>2, <2>3 DEF AssetsInv
  <1> QED
    BY <1>1, CreateBegins, InsertCommits, UpdateBegins, AuthorityRead,
       TransitionBegins, EditCommits, DeleteBegins, DeleteCommits, HandlerFails
    DEF Next

LEMMA InitAssets == Init => AssetsInv
  <1> SUFFICES ASSUME Init PROVE AssetsInv
    OBVIOUS
  <1>1. PICK f \in Facilities, v \in Reservoirs, g \in Gates :
        /\ rows = [x \in Rows |->
              IF x \in {v, g}
              THEN [ life |-> "live", version |-> 1, status |-> InitialStatus(x),
                     facility |-> f, link |-> IF x = g THEN v ELSE None ]
              ELSE Absent]
        /\ trail = [x \in Rows |-> rows[x].version]
        /\ held = [x \in Rows |-> IF x \in {v, g} THEN {f} ELSE {}]
        /\ req = [r \in Requests |-> Idle]
    BY DEF Init
  <1>2. v \in Rows /\ g \in Rows /\ v # g /\ v # None /\ v \notin Receipts /\ g \notin Receipts
    BY TablesAssumption DEF Rows
  <1>3. Absent \in Row
    BY DEF Absent, Row, Status, ReservoirState
  <1>4. ASSUME NEW x \in {v, g}
        PROVE  /\ rows[x] \in Row /\ rows[x].life = "live" /\ rows[x].version = 1
               /\ rows[x].status = InitialStatus(x) /\ rows[x].facility = f
               /\ rows[x].link = IF x = g THEN v ELSE None
    BY <1>1, <1>2, InitialStatusFits DEF Row
  <1>5. ASSUME NEW x \in {v, g} PROVE RowOK(x)
    <2>1. rows[x].link \in Authorities(x)
      BY <1>2, <1>4, TablesAssumption DEF Authorities
    <2>2. Shaped(x, rows[x])
      BY <1>2, <1>4, <2>1, InitialStatusFits DEF Shaped
    <2>3. held[v] = {f} /\ held[x] = {f} /\ trail[x] = 1
      BY <1>1, <1>2, <1>4
    <2>4. Linked(x, rows[x])
      BY <1>2, <1>4, <2>3 DEF Linked
    <2> QED
      BY <1>4, <2>2, <2>3, <2>4 DEF RowOK
  <1>6. ASSUME NEW x \in Rows, x \notin {v, g} PROVE RowOK(x)
    BY <1>1, <1>6 DEF RowOK, Absent
  <1>7. /\ rows \in [Rows -> Row] /\ trail \in [Rows -> Nat]
        /\ held \in [Rows -> SUBSET Facilities]
    <2>1. \A x \in Rows : rows[x] \in Row
      BY <1>1, <1>3, <1>4
    <2>2. \A x \in Rows : rows[x].version \in Nat
      BY <2>1 DEF Row
    <2> QED
      BY <1>1, <2>1, <2>2
  <1>8. Idle \in Handler /\ HandlerOK(Idle)
    BY DEF Idle, Handler, Row, Absent, Status, ReservoirState, HandlerOK
  <1> QED
    BY <1>1, <1>5, <1>6, <1>7, <1>8 DEF AssetsInv

LEMMA AssetsInvHolds == Spec => []AssetsInv
  BY InitAssets, NextKeepsAssets, PTL DEF Spec

-----------------------------------------------------------------------------
(***************************************************************************)
(* 4. What follows.                                                        *)
(***************************************************************************)

\* Rows, history and the memory of the handlers hold what their types allow,
\* each row with a status of its own table.
THEOREM AssetTypes == Spec => []TypeOK
  <1>1. ASSUME AssetsInv PROVE TypeOK
    <2>1. ASSUME NEW x \in Rows, rows[x].life # "absent"
          PROVE  rows[x].status \in StatusesOf(x)
      BY <1>1, <2>1, LiveRows DEF Shaped
    <2> QED
      BY <1>1, <2>1 DEF AssetsInv, TypeOK, StatusesOf, Handler
  <1> QED
    BY <1>1, AssetsInvHolds, PTL

\* The facility of a gate, a directive or a receipt is one that the row above
\* it in the chain has really had, whatever was edited in between.
THEOREM AuthorityReallyHeldIt == Spec => []AuthorityHeldIt
  <1>1. AssetsInv => AuthorityHeldIt
    BY LiveRows DEF AuthorityHeldIt, Linked, AssetsInv, RowOK, Absent
  <1> QED
    BY <1>1, AssetsInvHolds, PTL

\* A receipt always has the facility of its directive, for clients that send
\* the version of the row their request meets.  With a version ahead of it the
\* edit of a draft can overwrite the directive that executes by then.
THEOREM ReceiptAndDirectiveAgree ==
    ASSUME Lead = 0
    PROVE  Spec => []ReceiptKeepsFacility
  <1>1. AssetsInv => ReceiptKeepsFacility
    BY LiveRows DEF ReceiptKeepsFacility, Linked, Rows
  <1> QED
    BY <1>1, AssetsInvHolds, PTL

\* Every version of a row, and its deletion, has exactly one audit row.
THEOREM OneAuditRowPerVersion == Spec => []EvidencePerVersion
  <1>1. ASSUME AssetsInv, NEW x \in Rows
        PROVE  trail[x] = rows[x].version + IF rows[x].life = "deleted" THEN 1 ELSE 0
    <2>1. CASE rows[x].life # "absent"
      BY <1>1, <2>1, LiveRows
    <2>2. CASE rows[x].life = "absent"
      BY <1>1, <2>2 DEF AssetsInv, RowOK, Shaped, Absent
    <2> QED
      BY <2>1, <2>2
  <1>2. AssetsInv => EvidencePerVersion
    BY <1>1 DEF EvidencePerVersion
  <1> QED
    BY <1>2, AssetsInvHolds, PTL

\* A deleted row never comes back or changes, however old the update or the
\* insert that is still in flight.
THEOREM DeletedRowsStay == Spec => DeletedForGood
  <1>1. ASSUME AssetsInv, [Next]_vars, NEW x \in Rows, rows[x].life = "deleted"
        PROVE  rows'[x] = rows[x]
    <2>1. rows \in [Rows -> Row]
      BY <1>1 DEF AssetsInv
    <2>2. ASSUME NEW r \in Requests, Insert(r) PROVE rows'[x] = rows[x]
      BY <1>1, <2>1, <2>2 DEF Insert, Fits
    <2>3. ASSUME NEW r \in Requests, Commit(r) PROVE rows'[x] = rows[x]
      BY <1>1, <2>1, <2>3 DEF Commit, Matches, Live
    <2>4. ASSUME NEW r \in Requests, Delete(r) PROVE rows'[x] = rows[x]
      BY <1>1, <2>1, <2>4 DEF Delete, Live
    <2>5. ASSUME NEW r \in Requests,
                 \/ BeginCreate(r) \/ BeginUpdate(r) \/ ReadAuthority(r)
                 \/ BeginTransition(r) \/ BeginDelete(r) \/ Fail(r)
          PROVE  rows'[x] = rows[x]
      <3>1. UNCHANGED database
        BY <2>5 DEF BeginCreate, BeginUpdate, ReadAuthority, BeginTransition,
                    BeginDelete, Fail, Begin
      <3> QED
        BY <3>1 DEF database
    <2>6. CASE UNCHANGED vars
      BY <2>6 DEF vars, database
    <2> QED
      BY <1>1, <2>2, <2>3, <2>4, <2>5, <2>6 DEF Next
  <1>2. AssetsInv /\ [Next]_vars =>
            [\A x \in Rows : rows[x].life = "deleted" => rows'[x] = rows[x]]_vars
    BY <1>1
  <1> QED
    BY <1>2, AssetsInvHolds, PTL DEF Spec, DeletedForGood

=============================================================================
