--------------------------- MODULE GatewayProofs ---------------------------
(***************************************************************************)
(* Machine-checked proofs about Gateway, for any number of handlers,       *)
(* accounts, faults and minutes, any finite number of instances and any    *)
(* limit.                                                                  *)
(*                                                                         *)
(* Two invariants.  RequestInv is about what a handler holds while the     *)
(* accounts, tokens and the record change around it.  LimitInv is about    *)
(* the counters: every request let through in this minute has taken a      *)
(* place of its own, numbered by the counter that let it through, and a    *)
(* counter that is lost leaves its places behind.                          *)
(***************************************************************************)
EXTENDS Gateway, FiniteSetTheorems, FunctionTheorems, SequenceTheorems, TLAPS

-----------------------------------------------------------------------------
(***************************************************************************)
(* 1. The invariant of the handlers.                                       *)
(***************************************************************************)
Steps == { "limit", "local", "login", "authenticate", "read", "commit",
           "readAgain", "count" }

Token == [user : Users, role : Roles]

Request ==
    [ pc : Statuses \cup {"idle"} \cup Steps, kind : Kinds,
      at : Instances \cup {None}, user : Users \cup {None},
      claim : Token \cup {None}, expected : Nat,
      committed : BOOLEAN, entitled : BOOLEAN, counts : Seq(Nat) ]

All == audits["transition"] + audits["delete"]

\* The answers so far, each at least what an earlier one has counted.
CountsOK(c) ==
    /\ Len(c) >= 1 => c[1] <= All
    /\ Len(c) >= 2 => c[2] <= audits["transition"]
    /\ Len(c) >= 3 => c[3] <= All

CountsAgree(c) ==
    /\ Len(c) >= 3 => c[1] <= c[3] /\ c[2] <= c[3]
    /\ Len(c) >= 4 => c[3] <= c[4]

\* What the step a handler is at tells of what it holds.
HandlerOK(q) ==
    /\ Len(q.counts) <= 4
    /\ CountsAgree(q.counts)
    /\ q.pc \in Steps => q.at \in Instances /\ q.user \in Users
    /\ q.pc \in {"read", "commit", "readAgain", "count"} => q.entitled
    /\ q.committed => q.entitled
    /\ q.pc = "login" => q.kind = "login"
    /\ q.pc = "authenticate" => q.kind # "login"
    /\ q.pc = "read" => q.kind \notin {"login", "summary"}
    /\ q.pc = "commit" => q.kind \in Writes
    /\ q.pc = "readAgain" => q.kind = "transition" /\ q.committed
    /\ q.pc = "count" => q.kind = "summary" /\ Len(q.counts) <= 3
    /\ q.pc \in Steps \ {"count"} => Len(q.counts) = 0
    /\ q.pc \in (Steps \ {"readAgain"}) \cup {"refusal"} => ~q.committed
    /\ q.pc = "success" =>
         /\ q.kind \in Writes => q.committed
         /\ q.kind = "summary" => Len(q.counts) = 4

\* What the accounts and the audit rows have to do with it: an account that has
\* the right now had it at some time since the request came in, and a query
\* that has been answered would not find less today.
WorldOK(q) ==
    /\ q.pc \in Steps /\ Entitled(q.user, q.kind) => q.entitled
    /\ q.pc = "count" => CountsOK(q.counts)

DataOK ==
    /\ users \in [Users -> [active : BOOLEAN, role : Roles]]
    /\ tokens \subseteq Token
    /\ row \in [live : BOOLEAN, version : Nat]
    /\ audits \in [Writes -> Nat]

RequestInv ==
    /\ DataOK
    /\ req \in [Requests -> Request]
    /\ \A r \in Requests : HandlerOK(req[r]) /\ WorldOK(req[r])

LEMMA KindsAre == Kinds = {"login", "get", "transition", "delete", "summary"}
  BY DEF Kinds

LEMMA IdleOK ==
  Idle \in Request /\ HandlerOK(Idle) /\ Idle.pc = "idle"
<1>1. Idle \in Request
  BY DEF Idle, Request, Kinds
<1>2. Idle.pc = "idle" /\ Idle.counts = <<>> /\ Idle.committed = FALSE
  BY DEF Idle
<1>3. Len(<<>>) = 0
  OBVIOUS
<1> QED
  BY <1>1, <1>2, <1>3 DEF HandlerOK, CountsAgree, Steps

\* What After leaves alone.
LEMMA AfterIs ==
  ASSUME NEW q \in Request, NEW pc \in Statuses \cup Steps
  PROVE  /\ After(q, pc) \in Request
         /\ After(q, pc).pc = pc
         /\ After(q, pc).kind = q.kind
         /\ After(q, pc).committed = q.committed
         /\ After(q, pc).entitled = q.entitled
         /\ After(q, pc).counts = q.counts
         /\ pc \in Steps => After(q, pc).at = q.at /\ After(q, pc).user = q.user
<1>1. CASE pc \in Steps
  <2>1. pc \notin Statuses
    BY <1>1 DEF Steps, Statuses
  <2>2. After(q, pc) = [q EXCEPT !.pc = pc]
    BY <2>1 DEF After
  <2> QED
    BY <1>1, <2>2 DEF Request
<1>2. CASE pc \in Statuses
  <2>1. pc \notin Steps
    BY <1>2 DEF Steps, Statuses
  <2>2. After(q, pc)
          = [q EXCEPT !.pc = pc, !.at = None, !.user = None, !.claim = None, !.expected = 0]
    BY <1>2 DEF After
  <2> DEFINE a == [q EXCEPT !.pc = pc, !.at = None, !.user = None]
  <2>3. a \in Request /\ a.pc = pc /\ a.kind = q.kind /\ a.committed = q.committed
        /\ a.entitled = q.entitled /\ a.counts = q.counts
    BY <1>2 DEF Request
  <2>4. After(q, pc) = [a EXCEPT !.claim = None, !.expected = 0]
    BY <2>2 DEF Request
  <2> HIDE DEF a
  <2> DEFINE b == [a EXCEPT !.claim = None]
  <2>5. b \in Request /\ b.pc = pc /\ b.kind = q.kind /\ b.committed = q.committed
        /\ b.entitled = q.entitled /\ b.counts = q.counts
    BY <2>3 DEF Request
  <2>6. After(q, pc) = [b EXCEPT !.expected = 0]
    BY <2>3, <2>4 DEF Request
  <2> HIDE DEF b
  <2> QED
    BY <2>1, <2>5, <2>6 DEF Request
<1> QED
  BY <1>1, <1>2

\* The queries answered so far stay answered: audit rows are only added.
LEMMA CountsStay ==
  ASSUME DataOK, NEW c \in Seq(Nat), CountsOK(c), audits' \in [Writes -> Nat],
         \A w \in Writes : audits[w] <= audits'[w]
  PROVE  CountsOK(c)'
<1>1. /\ audits["transition"] \in Nat /\ audits["delete"] \in Nat
      /\ audits'["transition"] \in Nat /\ audits'["delete"] \in Nat
      /\ audits["transition"] <= audits'["transition"]
      /\ audits["delete"] <= audits'["delete"]
  BY DEF DataOK, Writes
<1>2. /\ Len(c) >= 1 => c[1] \in Nat
      /\ Len(c) >= 2 => c[2] \in Nat
      /\ Len(c) >= 3 => c[3] \in Nat
  OBVIOUS
<1> QED
  BY <1>1, <1>2 DEF CountsOK, All

\* One handler goes on, the accounts are as before.
LEMMA OneHandler ==
  ASSUME RequestInv, NEW r \in Requests, NEW q \in Request,
         req' = [req EXCEPT ![r] = q], DataOK', users' = users,
         \A w \in Writes : audits[w] <= audits'[w],
         HandlerOK(q), WorldOK(q)
  PROVE  RequestInv'
<1>1. audits' \in [Writes -> Nat]
  BY DEF DataOK
<1>2. ASSUME NEW p \in Request, WorldOK(p)
      PROVE  WorldOK(p)'
  <2>1. p.counts \in Seq(Nat)
    BY DEF Request
  <2>2. CountsOK(p.counts) => CountsOK(p.counts)'
    BY <1>1, <2>1, CountsStay DEF RequestInv
  <2> QED
    BY <1>2, <2>2 DEF WorldOK, Entitled
<1>3. req' \in [Requests -> Request]
  BY DEF RequestInv
<1>4. ASSUME NEW s \in Requests
      PROVE  HandlerOK(req'[s]) /\ WorldOK(req[s])'
  <2> PICK p \in Request : p = req'[s]
    BY <1>3
  <2>1. HandlerOK(p) /\ WorldOK(p)
    BY DEF RequestInv
  <2>2. WorldOK(p)'
    BY <1>2, <2>1
  <2> QED
    BY <2>1, <2>2 DEF WorldOK
<1> QED
  BY <1>3, <1>4 DEF RequestInv

\* A handler that takes its next step.
LEMMA NextStep ==
  ASSUME RequestInv, NEW r \in Requests, NEW pc \in Statuses \cup Steps, Becomes(r, pc),
         req[r].pc \in Steps, DataOK', users' = users,
         \A w \in Writes : audits[w] <= audits'[w],
         HandlerOK(After(req[r], pc)),
         pc = "count" => CountsOK(req[r].counts)
  PROVE  RequestInv'
<1> DEFINE q == After(req[r], pc)
<1>1. req[r] \in Request /\ WorldOK(req[r])
  BY DEF RequestInv
<1>2. q \in Request /\ q.pc = pc /\ q.counts = req[r].counts
  BY <1>1, AfterIs
<1>3. pc \in Steps => /\ q.user = req[r].user /\ q.kind = req[r].kind
                      /\ q.entitled = req[r].entitled
  BY <1>1, AfterIs
<1>4. WorldOK(q)
  BY <1>1, <1>2, <1>3 DEF WorldOK
<1>5. req' = [req EXCEPT ![r] = q]
  BY DEF Becomes
<1> HIDE DEF q
<1> QED
  BY <1>2, <1>4, <1>5, OneHandler DEF q


LEMMA ReceiveKeepsRequests ==
  ASSUME RequestInv, NEW r \in Requests, Receive(r)
  PROVE  RequestInv'
<1>1. PICK kind \in Kinds, i \in Instances, u \in Users, v \in 1..row.version :
        \E claim \in tokens \cup {None} :
          /\ kind = "login" => claim = None
          /\ req' = [req EXCEPT ![r] =
                [ Idle EXCEPT !.pc = "limit", !.kind = kind, !.at = i, !.user = u,
                  !.claim = claim, !.expected = v, !.entitled = Entitled(u, kind) ]]
  BY DEF Receive
<1>2. PICK claim \in tokens \cup {None} :
        req' = [req EXCEPT ![r] =
                [ Idle EXCEPT !.pc = "limit", !.kind = kind, !.at = i, !.user = u,
                  !.claim = claim, !.expected = v, !.entitled = Entitled(u, kind) ]]
  BY <1>1
<1>3. v \in Nat /\ claim \in Token \cup {None}
  BY DEF RequestInv, DataOK
<1>4. Entitled(u, kind) \in BOOLEAN
  BY DEF Entitled, RequestInv, DataOK
<1> DEFINE a == [Idle EXCEPT !.pc = "limit", !.kind = kind, !.at = i]
           b == [a EXCEPT !.user = u, !.claim = claim]
           q == [b EXCEPT !.expected = v, !.entitled = Entitled(u, kind)]
           held == [ Idle EXCEPT !.pc = "limit", !.kind = kind, !.at = i, !.user = u,
                            !.claim = claim, !.expected = v, !.entitled = Entitled(u, kind) ]
<1>5. Idle \in Request /\ Idle.committed = FALSE /\ Idle.counts = <<>>
  BY IdleOK DEF Idle
<1>a0. "limit" \in Steps /\ "limit" # "count"
  BY DEF Steps
<1>6. /\ a \in Request /\ a.pc = "limit" /\ a.kind = kind /\ a.at = i
      /\ a.committed = FALSE /\ a.counts = <<>>
  BY <1>5, <1>a0 DEF Request
<1>7. /\ held = [a EXCEPT !.user = u, !.claim = claim, !.expected = v,
                               !.entitled = Entitled(u, kind)]
  BY <1>5 DEF Request
<1> HIDE DEF a
<1>8. /\ b \in Request /\ b.pc = "limit" /\ b.kind = kind /\ b.at = i /\ b.user = u
      /\ b.committed = FALSE /\ b.counts = <<>>
  BY <1>3, <1>6 DEF Request
<1>9. [a EXCEPT !.user = u, !.claim = claim, !.expected = v, !.entitled = Entitled(u, kind)] = q
  BY <1>6 DEF Request
<1> HIDE DEF b
<1>10. /\ q \in Request /\ q.pc = "limit" /\ q.kind = kind /\ q.at = i /\ q.user = u
       /\ q.committed = FALSE /\ q.counts = <<>> /\ q.entitled = Entitled(u, kind)
  BY <1>3, <1>4, <1>8 DEF Request
<1>11. req' = [req EXCEPT ![r] = q]
  BY <1>2, <1>7, <1>9
<1> HIDE DEF q, held
<1>12. HandlerOK(q)
  <2>1. Len(<<>>) = 0
    OBVIOUS
  <2> QED
    BY <1>10, <2>1 DEF HandlerOK, CountsAgree, Steps
<1>13. WorldOK(q)
  BY <1>10, <1>a0 DEF WorldOK
<1>14. UNCHANGED data
  BY DEF Receive
<1>15. DataOK' /\ users' = users /\ audits' = audits
  BY <1>14 DEF RequestInv, DataOK, data
<1>16. \A w \in Writes : audits[w] <= audits'[w]
  BY <1>15 DEF RequestInv, DataOK
<1> QED
  BY <1>10, <1>11, <1>12, <1>13, <1>15, <1>16, OneHandler

\* The common case: nothing is written.
LEMMA ReadingStep ==
  ASSUME RequestInv, NEW r \in Requests, NEW pc \in Statuses \cup Steps, Becomes(r, pc),
         req[r].pc \in Steps, users' = users, row' = row, audits' = audits,
         tokens' \subseteq Token,
         HandlerOK(After(req[r], pc)),
         pc = "count" => CountsOK(req[r].counts)
  PROVE  RequestInv'
<1>1. DataOK'
  BY DEF RequestInv, DataOK
<1>2. \A w \in Writes : audits[w] <= audits'[w]
  BY DEF RequestInv, DataOK
<1> QED
  BY <1>1, <1>2, NextStep

\* A handler that has not committed may be refused, or fail, at any time.
LEMMA GivenUp ==
  ASSUME RequestInv, NEW r \in Requests, NEW pc \in {"refusal", "internalError", "notFound"},
         req[r].pc \in Steps \ {"readAgain"} \/ pc # "refusal"
  PROVE  HandlerOK(After(req[r], pc))
<1> DEFINE q == After(req[r], pc)
<1>1. req[r] \in Request /\ HandlerOK(req[r])
  BY DEF RequestInv
<1>2. pc \in Statuses \cup Steps /\ pc \notin Steps
  BY DEF Statuses, Steps
<1>3. /\ q.pc = pc /\ q.kind = req[r].kind /\ q.committed = req[r].committed
      /\ q.entitled = req[r].entitled /\ q.counts = req[r].counts
  BY <1>1, <1>2, AfterIs
<1> HIDE DEF q
<1> QED
  BY <1>1, <1>2, <1>3 DEF HandlerOK, q

LEMMA LimiterKeepsRequests ==
  ASSUME RequestInv, NEW r \in Requests,
         Increment(r) \/ IncrementFails(r) \/ IncrementLocal(r)
  PROVE  RequestInv'
<1>1. PICK pc \in {"refusal", "login", "authenticate", "local"} :
        /\ Becomes(r, pc)
        /\ pc = "login" => req[r].kind = "login"
        /\ pc = "authenticate" => req[r].kind # "login"
        /\ req[r].pc \in {"limit", "local"}
        /\ UNCHANGED data
  <2>1. CASE Increment(r)
    BY <2>1 DEF Increment, Pass
  <2>2. CASE IncrementFails(r)
    BY <2>2 DEF IncrementFails
  <2>3. CASE IncrementLocal(r)
    BY <2>3 DEF IncrementLocal, Pass
  <2> QED
    BY <2>1, <2>2, <2>3
<1>2. req[r].pc \in Steps \ {"readAgain"}
  BY <1>1 DEF Steps
<1>3. users' = users /\ row' = row /\ audits' = audits /\ tokens' \subseteq Token
  BY <1>1 DEF data, RequestInv, DataOK
<1>4. HandlerOK(After(req[r], pc))
  <2>1. CASE pc = "refusal"
    BY <1>2, <2>1, GivenUp
  <2>2. CASE pc # "refusal"
    <3> DEFINE q == After(req[r], pc)
    <3>1. req[r] \in Request /\ HandlerOK(req[r])
      BY DEF RequestInv
    <3>2. pc \in Steps
      BY <1>1, <2>2 DEF Steps
    <3>3. /\ q.pc = pc /\ q.kind = req[r].kind /\ q.committed = req[r].committed
          /\ q.entitled = req[r].entitled /\ q.counts = req[r].counts
          /\ q.at = req[r].at /\ q.user = req[r].user
      BY <3>1, <3>2, AfterIs
    <3> HIDE DEF q
    <3>4. HandlerOK(q)
      BY <1>1, <1>2, <2>2, <3>1, <3>2, <3>3 DEF HandlerOK, Steps
    <3> QED
      BY <3>4 DEF q
  <2> QED
    BY <2>1, <2>2
<1>5. pc \in Statuses \cup Steps /\ pc # "count"
  BY <1>1 DEF Statuses, Steps
<1> QED
  BY <1>1, <1>2, <1>3, <1>4, <1>5, ReadingStep

LEMMA AuthenticationKeepsRequests ==
  ASSUME RequestInv, NEW r \in Requests, Login(r) \/ Authenticate(r)
  PROVE  RequestInv'
<1> DEFINE q == req[r]
<1>1. q \in Request /\ HandlerOK(q) /\ WorldOK(q)
  BY DEF RequestInv
<1>2. CASE Login(r)
  <2>1. PICK pc \in {"success", "refusal"} :
          /\ Becomes(r, pc)
          /\ tokens' = tokens \/ /\ q.user \in Users /\ users[q.user].role \in Roles
                                 /\ tokens' = tokens \cup
                                      {[user |-> q.user, role |-> users[q.user].role]}
    <3>1. q.user \in Users
      BY <1>1, <1>2 DEF HandlerOK, Login, Steps
    <3>2. users[q.user].role \in Roles
      BY <3>1 DEF RequestInv, DataOK
    <3> QED
      BY <1>2, <3>1, <3>2 DEF Login
  <2>2. q.pc = "login" /\ users' = users /\ row' = row /\ audits' = audits
    BY <1>2 DEF Login
  <2>3. tokens' \subseteq Token
    BY <2>1 DEF RequestInv, DataOK, Token
  <2>4. q.pc \in Steps \ {"readAgain"} /\ pc \in Statuses \cup Steps /\ pc # "count"
    BY <2>2 DEF Steps, Statuses
  <2>5. HandlerOK(After(q, pc))
    <3> DEFINE p == After(q, pc)
    <3>1. p.pc = pc /\ p.kind = q.kind /\ p.committed = q.committed
          /\ p.entitled = q.entitled /\ p.counts = q.counts
      BY <1>1, <2>4, AfterIs
    <3> HIDE DEF p
    <3>2. HandlerOK(p)
      BY <1>1, <2>1, <2>2, <2>4, <3>1 DEF HandlerOK, Steps, Writes
    <3> QED
      BY <3>2 DEF p
  <2> QED
    BY <2>1, <2>2, <2>3, <2>4, <2>5, ReadingStep
<1>3. CASE Authenticate(r)
  <2>1. PICK pc \in {"refusal", "count", "read"} :
          /\ Becomes(r, pc)
          /\ pc # "refusal" => users[q.user].active /\ users[q.user].role \in Allowed(q.kind)
          /\ pc = "count" => q.kind = "summary"
          /\ pc = "read" => q.kind # "summary"
    BY <1>3 DEF Authenticate, RoleOf
  <2>2. /\ q.pc = "authenticate" /\ users' = users /\ row' = row /\ audits' = audits
        /\ tokens' = tokens
    BY <1>3 DEF Authenticate, data
  <2>3. tokens' \subseteq Token
    BY <2>2 DEF RequestInv, DataOK
  <2>4. /\ q.pc \in Steps \ {"readAgain"} /\ pc \in Statuses \cup Steps
        /\ pc # "refusal" => pc \in Steps
    BY <2>2 DEF Steps, Statuses
  <2>5. pc # "refusal" => q.entitled
    BY <1>1, <2>1, <2>4 DEF WorldOK, Entitled
  <2> HIDE DEF q
  <2>6. HandlerOK(After(q, pc))
    <3> DEFINE p == After(q, pc)
    <3>1. /\ p.pc = pc /\ p.kind = q.kind /\ p.committed = q.committed
          /\ p.entitled = q.entitled /\ p.counts = q.counts
          /\ pc \in Steps => p.at = q.at /\ p.user = q.user
      BY <1>1, <2>4, AfterIs
    <3> HIDE DEF p
    <3>2. HandlerOK(p)
      BY <1>1, <2>1, <2>2, <2>4, <2>5, <3>1 DEF HandlerOK, Steps, Writes
    <3> QED
      BY <3>2 DEF p
  <2>7. Len(q.counts) = 0
    BY <1>1, <2>2, <2>4 DEF HandlerOK
  <2>8. CountsOK(q.counts)
    BY <2>7 DEF CountsOK
  <2> QED
    BY <2>1, <2>2, <2>3, <2>4, <2>6, <2>8, ReadingStep DEF q
<1> QED
  BY <1>2, <1>3

LEMMA ReadsKeepRequests ==
  ASSUME RequestInv, NEW r \in Requests, Read(r) \/ RefuseByRule(r) \/ ReadAgain(r)
  PROVE  RequestInv'
<1> DEFINE q == req[r]
<1>1. q \in Request /\ HandlerOK(q)
  BY DEF RequestInv
<1>2. PICK pc \in {"notFound", "commit", "success", "refusal"} :
        /\ Becomes(r, pc)
        /\ pc = "commit" => q.pc = "read" /\ q.kind \in Writes
        /\ pc = "refusal" => q.pc = "commit"
        /\ pc = "success" => \/ q.pc = "read" /\ q.kind \notin Writes
                             \/ q.pc = "readAgain"
        /\ q.pc \in {"read", "commit", "readAgain"}
        /\ UNCHANGED data
  BY DEF Read, RefuseByRule, ReadAgain
<1>3. /\ q.pc \in Steps /\ pc \in Statuses \cup Steps /\ pc # "count"
      /\ pc \in Steps <=> pc = "commit"
  BY <1>2 DEF Steps, Statuses
<1>4. users' = users /\ row' = row /\ audits' = audits /\ tokens' \subseteq Token
  BY <1>2 DEF data, RequestInv, DataOK
<1>5. HandlerOK(After(q, pc))
  <2> DEFINE p == After(q, pc)
  <2>1. /\ p.pc = pc /\ p.kind = q.kind /\ p.committed = q.committed
        /\ p.entitled = q.entitled /\ p.counts = q.counts
        /\ pc \in Steps => p.at = q.at /\ p.user = q.user
    BY <1>1, <1>3, AfterIs
  <2> HIDE DEF p
  <2>2. HandlerOK(p)
    BY <1>1, <1>2, <1>3, <2>1 DEF HandlerOK, Steps, Writes
  <2> QED
    BY <2>2 DEF p
<1> QED
  BY <1>2, <1>3, <1>4, <1>5, ReadingStep DEF q

\* What a commit that applies leaves in the database.
LEMMA AppliedIs ==
  ASSUME RequestInv, NEW q \in Request, q.kind \in Writes, Applied(q),
         UNCHANGED <<users, tokens>>
  PROVE  DataOK' /\ \A w \in Writes : audits[w] <= audits'[w]
<1>1. audits \in [Writes -> Nat] /\ row \in [live : BOOLEAN, version : Nat]
  BY DEF RequestInv, DataOK
<1>2. audits' = [audits EXCEPT ![q.kind] = @ + 1]
  BY DEF Applied
<1>3. audits' \in [Writes -> Nat] /\ \A w \in Writes : audits[w] <= audits'[w]
  BY <1>1, <1>2
<1>4. row' \in [live : BOOLEAN, version : Nat]
  <2>1. [row EXCEPT !.live = FALSE] \in [live : BOOLEAN, version : Nat]
    BY <1>1
  <2>2. [row EXCEPT !.version = @ + 1] \in [live : BOOLEAN, version : Nat]
    BY <1>1
  <2> QED
    BY <2>1, <2>2 DEF Applied
<1> QED
  BY <1>3, <1>4 DEF RequestInv, DataOK

\* The handler that has committed.
LEMMA CommittedStep ==
  ASSUME RequestInv, NEW r \in Requests, req[r].pc = "commit", Applied(req[r]),
         UNCHANGED <<users, tokens>>,
         NEW pc \in {"success", "readAgain", "internalError"},
         pc = "readAgain" => req[r].kind # "delete",
         req' = [req EXCEPT ![r] = After([req[r] EXCEPT !.committed = TRUE], pc)]
  PROVE  RequestInv'
<1> DEFINE c == [req[r] EXCEPT !.committed = TRUE]
           q == After(c, pc)
<1>1. req[r] \in Request /\ HandlerOK(req[r]) /\ WorldOK(req[r])
  BY DEF RequestInv
<1>2. req[r].kind \in Writes /\ req[r].pc \in Steps /\ req[r].entitled
  BY <1>1 DEF HandlerOK, Steps
<1>3. /\ c \in Request /\ c.pc = "commit" /\ c.kind = req[r].kind /\ c.committed
      /\ c.entitled = req[r].entitled /\ c.counts = req[r].counts
      /\ c.at = req[r].at /\ c.user = req[r].user
  BY <1>1 DEF Request
<1>4. /\ pc \in Statuses \cup Steps /\ (pc \in Steps <=> pc = "readAgain")
  BY DEF Statuses, Steps
<1> HIDE DEF c
<1>5. /\ q \in Request /\ q.pc = pc /\ q.kind = c.kind /\ q.committed = c.committed
      /\ q.entitled = c.entitled /\ q.counts = c.counts
      /\ pc \in Steps => q.at = c.at /\ q.user = c.user
  BY <1>3, <1>4, AfterIs
<1>6. req' = [req EXCEPT ![r] = q]
  BY DEF c
<1> HIDE DEF q
<1>7. HandlerOK(q)
  BY <1>1, <1>2, <1>3, <1>4, <1>5 DEF HandlerOK, Steps, Writes
<1>8. WorldOK(q)
  BY <1>2, <1>3, <1>5 DEF WorldOK
<1>9. DataOK' /\ \A w \in Writes : audits[w] <= audits'[w]
  BY <1>1, <1>2, AppliedIs
<1> QED
  BY <1>5, <1>6, <1>7, <1>8, <1>9, OneHandler

LEMMA WritesKeepRequests ==
  ASSUME RequestInv, NEW r \in Requests, Commit(r) \/ DatabaseFails(r)
  PROVE  RequestInv'
<1> DEFINE q == req[r]
<1>1. q \in Request /\ HandlerOK(q)
  BY DEF RequestInv
<1>2. UNCHANGED <<users, tokens>>
  BY DEF Commit, DatabaseFails
<1>3. CASE /\ q.pc = "commit" /\ Applied(q)
           /\ \E pc \in {"success", "readAgain", "internalError"} :
                /\ pc = "readAgain" => q.kind # "delete"
                /\ req' = [req EXCEPT ![r] = After([q EXCEPT !.committed = TRUE], pc)]
  BY <1>2, <1>3, CommittedStep
<1>4. CASE \E pc \in {"refusal", "internalError", "notFound"} :
             /\ Becomes(r, pc)
             /\ q.pc \in Steps
             /\ pc = "refusal" => q.pc \in {"login", "authenticate", "commit"}
             /\ UNCHANGED <<row, audits>>
  <2> PICK pc \in {"refusal", "internalError", "notFound"} :
             /\ Becomes(r, pc)
             /\ q.pc \in Steps
             /\ pc = "refusal" => q.pc \in {"login", "authenticate", "commit"}
             /\ UNCHANGED <<row, audits>>
    BY <1>4
  <2>1. HandlerOK(After(q, pc))
    BY GivenUp
  <2>2. tokens' \subseteq Token
    BY <1>2 DEF RequestInv, DataOK
  <2>3. pc \in Statuses \cup Steps /\ pc # "count"
    BY DEF Statuses
  <2> QED
    BY <1>2, <2>1, <2>2, <2>3, ReadingStep
<1>5. CASE Commit(r)
  <2>1. q.pc = "commit" /\ q.pc \in Steps
    BY <1>5 DEF Commit, Steps
  <2>2. CASE Applies(q)
    BY <1>3, <1>5, <2>1, <2>2 DEF Commit
  <2>3. CASE ~Applies(q)
    BY <1>4, <1>5, <2>1, <2>3 DEF Commit, Missed
  <2> QED
    BY <2>2, <2>3
<1>6. CASE DatabaseFails(r)
  <2>1. q.pc \in Steps
    BY <1>6 DEF DatabaseFails, Steps
  <2>2. CASE /\ q.pc = "commit" /\ Applied(q)
             /\ req' = [req EXCEPT ![r] = After([q EXCEPT !.committed = TRUE], "internalError")]
    BY <1>3, <2>2
  <2>3. CASE /\ Becomes(r, IF q.pc \in {"login", "authenticate"} THEN "refusal"
                           ELSE "internalError")
             /\ UNCHANGED <<row, audits>>
    <3>1. PICK pc \in {"refusal", "internalError"} :
             /\ Becomes(r, pc)
             /\ pc = "refusal" => q.pc \in {"login", "authenticate"}
      BY <2>3
    <3> QED
      BY <1>4, <2>1, <2>3, <3>1
  <2> QED
    BY <1>6, <2>2, <2>3 DEF DatabaseFails
<1> QED
  BY <1>5, <1>6

\* The summary's next answer goes with the ones it has.
LEMMA NextAnswer ==
  ASSUME DataOK, NEW c \in Seq(Nat), Len(c) <= 3, CountsOK(c), CountsAgree(c)
  PROVE  LET d == Append(c, Counted(Queries[Len(c) + 1])) IN
         /\ d \in Seq(Nat) /\ Len(d) = Len(c) + 1
         /\ CountsAgree(d)
         /\ Len(d) <= 3 => CountsOK(d)
<1> DEFINE x == Counted(Queries[Len(c) + 1])
           d == Append(c, x)
<1>1. audits["transition"] \in Nat /\ audits["delete"] \in Nat /\ All \in Nat
  BY DEF DataOK, Writes, All
<1>2. Len(c) \in Nat
  OBVIOUS
<1>3. /\ Queries[1] = "total" /\ Queries[2] = "transitions" /\ Queries[3] = "actions"
      /\ Queries[4] = "entityTypes"
  BY DEF Queries
<1>4. /\ Len(c) \in {0, 2, 3} => x = All
      /\ Len(c) = 1 => x = audits["transition"]
  <2>1. Len(c) = 0 => Queries[Len(c) + 1] = "total"
    BY <1>3
  <2>2. Len(c) = 1 => Queries[Len(c) + 1] = "transitions"
    BY <1>3
  <2>3. Len(c) = 2 => Queries[Len(c) + 1] = "actions"
    BY <1>3
  <2>4. Len(c) = 3 => Queries[Len(c) + 1] = "entityTypes"
    BY <1>3
  <2> QED
    BY <2>1, <2>2, <2>3, <2>4 DEF Counted, All
<1>5. Len(c) = 0 \/ Len(c) = 1 \/ Len(c) = 2 \/ Len(c) = 3
  <2>1. \A n \in Nat : n <= 3 => n = 0 \/ n = 1 \/ n = 2 \/ n = 3
    OBVIOUS
  <2> QED
    BY <1>2, <2>1
<1>6. x \in Nat
  BY <1>1, <1>4, <1>5
<1> HIDE DEF x
<1>7. /\ d \in Seq(Nat) /\ Len(d) = Len(c) + 1
      /\ \A n \in 1..Len(c) : d[n] = c[n]
      /\ d[Len(c) + 1] = x
  BY <1>6, AppendProperties
<1>8. /\ Len(c) >= 1 => c[1] \in Nat /\ d[1] = c[1]
      /\ Len(c) >= 2 => c[2] \in Nat /\ d[2] = c[2]
      /\ Len(c) >= 3 => c[3] \in Nat /\ d[3] = c[3]
  BY <1>7
<1> HIDE DEF d
<1>9. audits["transition"] <= All
  BY <1>1 DEF All
<1>10. CountsAgree(d)
  BY <1>1, <1>4, <1>5, <1>7, <1>8, <1>9 DEF CountsOK, CountsAgree
<1>11. Len(d) <= 3 => CountsOK(d)
  BY <1>1, <1>4, <1>5, <1>7, <1>8, <1>9 DEF CountsOK
<1> QED
  BY <1>7, <1>10, <1>11 DEF d, x

LEMMA CountingKeepsRequests ==
  ASSUME RequestInv, NEW r \in Requests, CountAudits(r)
  PROVE  RequestInv'
<1> DEFINE c == req[r].counts
           d == Append(c, Counted(Queries[Len(c) + 1]))
           e == [req[r] EXCEPT !.counts = d]
           pc == IF Len(d) = 4 THEN "success" ELSE "count"
           q == After(e, pc)
<1>1. req[r] \in Request /\ HandlerOK(req[r]) /\ WorldOK(req[r]) /\ DataOK
  BY DEF RequestInv
<1>2. req[r].pc = "count" /\ "count" \in Steps /\ UNCHANGED data
  BY DEF CountAudits, Steps
<1>3. c \in Seq(Nat) /\ Len(c) <= 3 /\ CountsOK(c) /\ CountsAgree(c)
  BY <1>1, <1>2 DEF HandlerOK, WorldOK, Request
<1>4. /\ d \in Seq(Nat) /\ Len(d) = Len(c) + 1
      /\ CountsAgree(d)
      /\ Len(d) <= 3 => CountsOK(d)
  BY <1>1, <1>3, NextAnswer
<1>5. Len(Queries) = 4
  BY DEF Queries
<1>6. req' = [req EXCEPT ![r] = q]
  BY <1>5 DEF CountAudits
<1> HIDE DEF d
<1>7. /\ e \in Request /\ e.pc = "count" /\ e.kind = req[r].kind /\ e.counts = d
      /\ e.committed = req[r].committed /\ e.entitled = req[r].entitled
      /\ e.at = req[r].at /\ e.user = req[r].user
  BY <1>1, <1>2, <1>4 DEF Request
<1>8. Len(d) \in Nat /\ Len(c) \in Nat
  BY <1>3, <1>4
<1>9. /\ pc \in Statuses \cup Steps /\ (pc \in Steps <=> pc = "count")
      /\ pc = "success" => Len(d) = 4
      /\ pc = "count" => Len(d) <= 3
      /\ pc \in {"success", "count"}
  BY <1>3, <1>4, <1>8 DEF Statuses, Steps
<1> HIDE DEF e, pc, c
<1>10. /\ q \in Request /\ q.pc = pc /\ q.kind = e.kind /\ q.committed = e.committed
       /\ q.entitled = e.entitled /\ q.counts = e.counts
       /\ pc \in Steps => q.at = e.at /\ q.user = e.user
  BY <1>7, <1>9, AfterIs
<1> HIDE DEF q
<1>11. HandlerOK(q)
  BY <1>1, <1>2, <1>3, <1>4, <1>7, <1>8, <1>9, <1>10 DEF HandlerOK, Steps, Writes
<1>12. WorldOK(q)
  BY <1>1, <1>2, <1>4, <1>7, <1>9, <1>10 DEF WorldOK
<1>13. users' = users /\ audits' = audits /\ DataOK'
  BY <1>1, <1>2 DEF data, DataOK
<1>14. \A w \in Writes : audits[w] <= audits'[w]
  BY <1>1, <1>13 DEF DataOK
<1> QED
  BY <1>6, <1>10, <1>11, <1>12, <1>13, <1>14, OneHandler

\* A promotion gives the right to the requests of that account that are under
\* way; nothing that happens to an account takes the past away.
LEMMA AccountsKeepRequests ==
  ASSUME RequestInv, NEW u \in Users, ChangeAccount(u)
  PROVE  RequestInv'
<1>1. users' \in [Users -> [active : BOOLEAN, role : Roles]]
  <2>1. users \in [Users -> [active : BOOLEAN, role : Roles]]
    BY DEF RequestInv, DataOK
  <2>2. CASE users' = [users EXCEPT ![u].active = ~@]
    <3>1. [users[u] EXCEPT !.active = ~users[u].active] \in [active : BOOLEAN, role : Roles]
      BY <2>1
    <3> QED
      BY <2>1, <2>2, <3>1
  <2>3. CASE \E role \in Roles : users' = [users EXCEPT ![u].role = role]
    <3> PICK role \in Roles : users' = [users EXCEPT ![u].role = role]
      BY <2>3
    <3>1. [users[u] EXCEPT !.role = role] \in [active : BOOLEAN, role : Roles]
      BY <2>1
    <3> QED
      BY <2>1, <3>1
  <2> QED
    BY <2>2, <2>3 DEF ChangeAccount
<1>2. DataOK'
  BY <1>1 DEF ChangeAccount, RequestInv, DataOK
<1>3. ASSUME NEW r \in Requests
      PROVE  /\ req'[r] \in Request
             /\ HandlerOK(req'[r])
             /\ WorldOK(req[r])'
  <2> DEFINE has == req[r].user = u /\ users'[u].active
                      /\ users'[u].role \in Allowed(req[r].kind)
  <2> PICK q \in Request : q = req[r]
    BY DEF RequestInv
  <2>1. HandlerOK(q) /\ WorldOK(q)
    BY DEF RequestInv
  <2>2. req'[r] = [q EXCEPT !.entitled = @ \/ has]
    BY DEF ChangeAccount
  <2>3. has \in BOOLEAN
    BY <1>1
  <2> HIDE DEF has
  <2> PICK p \in Request : /\ p = req'[r]
                           /\ p.pc = q.pc /\ p.kind = q.kind /\ p.at = q.at
                           /\ p.user = q.user /\ p.committed = q.committed
                           /\ p.counts = q.counts /\ p.entitled = (q.entitled \/ has)
    BY <2>2, <2>3 DEF Request
  <2>4. q.entitled => p.entitled
    OBVIOUS
  <2>5. HandlerOK(p)
    BY <2>1, <2>4 DEF HandlerOK
  <2>6. q.user \in Users /\ q.user # u => users'[q.user] = users[q.user]
    BY DEF ChangeAccount, RequestInv, DataOK
  <2>7. q.pc \in Steps /\ Entitled(q.user, q.kind)' => p.entitled
    <3>1. q.pc \in Steps => q.user \in Users
      BY <2>1 DEF HandlerOK
    <3>2. CASE q.user = u
      BY <3>2 DEF Entitled, has
    <3>3. CASE q.user # u
      BY <2>1, <2>4, <2>6, <3>1, <3>3 DEF Entitled, WorldOK
    <3> QED
      BY <3>2, <3>3
  <2>8. q.pc = "count" => CountsOK(p.counts)'
    <3>1. audits' = audits
      BY DEF ChangeAccount
    <3> QED
      BY <2>1, <3>1 DEF WorldOK, CountsOK, All
  <2>9. WorldOK(p)'
    BY <2>7, <2>8 DEF WorldOK, Entitled
  <2> QED
    BY <2>5, <2>9 DEF WorldOK
<1>4. req' \in [Requests -> Request]
  <2>1. req' = [r \in Requests |-> req'[r]]
    BY DEF ChangeAccount
  <2> QED
    BY <1>3, <2>1
<1> QED
  BY <1>2, <1>3, <1>4 DEF RequestInv

LEMMA SurroundingsKeepRequests ==
  ASSUME RequestInv, ExpireTokens \/ Tick \/ LoseCounters
  PROVE  RequestInv'
<1>1. /\ users' = users /\ row' = row /\ audits' = audits /\ tokens' \subseteq Token
  BY DEF ExpireTokens, Tick, LoseCounters, data, RequestInv, DataOK
<1>2. DataOK'
  BY <1>1 DEF RequestInv, DataOK
<1>3. req' \in [Requests -> Request] /\ \A r \in Requests : req'[r] = req[r] \/ req'[r] = Idle
  <2>1. CASE req' = req
    BY <2>1 DEF RequestInv
  <2>2. CASE \E i \in Instances :
               req' = [r \in Requests |-> IF req[r].at = i THEN Idle ELSE req[r]]
    BY <2>2, IdleOK DEF RequestInv
  <2> QED
    BY <2>1, <2>2 DEF ExpireTokens, Tick, LoseCounters
<1>4. ASSUME NEW r \in Requests
      PROVE  HandlerOK(req'[r]) /\ WorldOK(req[r])'
  <2> PICK q \in Request : q = req'[r]
    BY <1>3
  <2>1. HandlerOK(q) /\ WorldOK(q)
    <3>1. Idle.pc \notin Steps /\ "count" \in Steps
      BY IdleOK DEF Steps
    <3>2. WorldOK(Idle)
      BY <3>1 DEF WorldOK
    <3> QED
      BY <1>3, <3>2, IdleOK DEF RequestInv
  <2>2. WorldOK(q)'
    BY <1>1, <2>1 DEF WorldOK, Entitled, CountsOK, All
  <2> QED
    BY <2>1, <2>2 DEF WorldOK
<1> QED
  BY <1>2, <1>3, <1>4 DEF RequestInv

LEMMA RequestInit == Init => RequestInv
<1> SUFFICES ASSUME Init PROVE RequestInv
  OBVIOUS
<1>1. DataOK
  <2>1. "admin" \in Roles
    BY DEF Roles
  <2>2. users \in [Users -> [active : BOOLEAN, role : Roles]]
    BY <2>1 DEF Init
  <2>3. tokens \subseteq Token
    BY <2>2 DEF Init, Token
  <2>4. row \in [live : BOOLEAN, version : Nat]
    BY DEF Init
  <2>5. audits \in [Writes -> Nat]
    BY DEF Init
  <2> QED
    BY <2>2, <2>3, <2>4, <2>5 DEF DataOK
<1>2. req \in [Requests -> Request] /\ \A r \in Requests : req[r] = Idle
  <2>1. req = [r \in Requests |-> Idle]
    BY DEF Init
  <2> QED
    BY <2>1, IdleOK
<1>3. Idle.pc \notin Steps /\ "count" \in Steps
  BY IdleOK DEF Steps
<1>4. WorldOK(Idle)
  BY <1>3 DEF WorldOK
<1> QED
  BY <1>1, <1>2, <1>4, IdleOK DEF RequestInv

LEMMA RequestStep == RequestInv /\ [Next]_vars => RequestInv'
<1> SUFFICES ASSUME RequestInv, [Next]_vars
             PROVE  RequestInv'
  OBVIOUS
<1>1. ASSUME NEW r \in Requests, Receive(r)
      PROVE  RequestInv'
  BY <1>1, ReceiveKeepsRequests
<1>2. ASSUME NEW r \in Requests, Increment(r) \/ IncrementFails(r) \/ IncrementLocal(r)
      PROVE  RequestInv'
  BY <1>2, LimiterKeepsRequests
<1>3. ASSUME NEW r \in Requests, Login(r) \/ Authenticate(r)
      PROVE  RequestInv'
  BY <1>3, AuthenticationKeepsRequests
<1>4. ASSUME NEW r \in Requests, Read(r) \/ RefuseByRule(r) \/ ReadAgain(r)
      PROVE  RequestInv'
  BY <1>4, ReadsKeepRequests
<1>5. ASSUME NEW r \in Requests, Commit(r) \/ DatabaseFails(r)
      PROVE  RequestInv'
  BY <1>5, WritesKeepRequests
<1>6. ASSUME NEW r \in Requests, CountAudits(r)
      PROVE  RequestInv'
  BY <1>6, CountingKeepsRequests
<1>7. ASSUME NEW u \in Users, ChangeAccount(u)
      PROVE  RequestInv'
  BY <1>7, AccountsKeepRequests
<1>8. CASE ExpireTokens \/ Tick \/ LoseCounters
  BY <1>8, SurroundingsKeepRequests
<1>9. CASE UNCHANGED vars
  <2>1. users' = users /\ tokens' = tokens /\ row' = row /\ audits' = audits /\ req' = req
    BY <1>9 DEF vars, data
  <2> QED
    BY <2>1 DEF RequestInv, DataOK, HandlerOK, WorldOK, Entitled, CountsOK, CountsAgree, All
<1> QED
  BY <1>1, <1>2, <1>3, <1>4, <1>5, <1>6, <1>7, <1>8, <1>9 DEF Next

LEMMA RequestsInvariant == Spec => []RequestInv
  BY RequestInit, RequestStep, PTL DEF Spec

\* Middleware and services act on a right that was there after the request came
\* in, never on one that only the token still claims: the account is looked up
\* again for every request (middleware/auth.go).
THEOREM RightsAreCurrent == Spec => []OnlyEntitledAct
<1>1. RequestInv => OnlyEntitledAct
  <2> SUFFICES ASSUME RequestInv, NEW r \in Requests,
                      req[r].pc \in {"read", "commit", "readAgain", "count"} \/ req[r].committed
               PROVE  req[r].entitled
    BY DEF OnlyEntitledAct
  <2> QED
    BY DEF RequestInv, HandlerOK
<1> QED
  BY <1>1, RequestsInvariant, PTL

\* Of a write, success tells that this request has committed and refusal that it
\* has not, whatever happened between its steps (handler/errors.go).
THEOREM StatusesAreTrue == Spec => []StatusTellsTruth
<1>1. RequestInv => StatusTellsTruth
  <2> SUFFICES ASSUME RequestInv, NEW r \in Requests
               PROVE  /\ req[r].kind \in Writes /\ req[r].pc = "success" => req[r].committed
                      /\ req[r].pc = "refusal" => ~req[r].committed
    BY DEF StatusTellsTruth
  <2> QED
    BY DEF RequestInv, HandlerOK
<1> QED
  BY <1>1, RequestsInvariant, PTL

\* The queries of the audit summary, by position.
LEMMA QueryNumbers ==
  /\ (CHOOSE n \in DOMAIN Queries : Queries[n] = "total") = 1
  /\ (CHOOSE n \in DOMAIN Queries : Queries[n] = "transitions") = 2
  /\ (CHOOSE n \in DOMAIN Queries : Queries[n] = "actions") = 3
  /\ (CHOOSE n \in DOMAIN Queries : Queries[n] = "entityTypes") = 4
<1>1. DOMAIN Queries = {1, 2, 3, 4}
  BY DEF Queries
<1>2. /\ Queries[1] = "total" /\ Queries[2] = "transitions" /\ Queries[3] = "actions"
      /\ Queries[4] = "entityTypes"
  BY DEF Queries
<1> QED
  BY <1>1, <1>2

\* The parts of a summary never add up to less than its whole, although each is
\* counted by a query of its own, outside any transaction
\* (repository/security.go, SummarizeAudits).
THEOREM SummariesAddUp == Spec => []SummaryAddsUp
<1>1. RequestInv => SummaryAddsUp
  <2> SUFFICES ASSUME RequestInv, NEW r \in Requests,
                      req[r].pc = "success", req[r].kind = "summary"
               PROVE  /\ req[r].counts[2] <= req[r].counts[3]
                      /\ req[r].counts[1] <= req[r].counts[3]
                      /\ req[r].counts[3] <= req[r].counts[4]
    BY QueryNumbers DEF SummaryAddsUp
  <2>1. Len(req[r].counts) = 4 /\ CountsAgree(req[r].counts)
    BY DEF RequestInv, HandlerOK
  <2> QED
    BY <2>1 DEF CountsAgree
<1> QED
  BY <1>1, RequestsInvariant, PTL

-----------------------------------------------------------------------------
(***************************************************************************)
(* 2. The invariant of the counters.                                       *)
(***************************************************************************)
Bucket == [window : Nat, count : Nat]

RedisCounter == <<"redis", 0>>
LocalCounter(i) == <<"local", i>>
LostCounter(n) == <<"lost", n>>

LocalCounters == { LocalCounter(i) : i \in Instances }
LostCounters(n) == { LostCounter(m) : m \in 1..n }
Counters == {RedisCounter} \cup LocalCounters

\* The places when n counters were lost and each counter c has given away
\* given[c]: those, and all those of the lost ones.
PlacesOf(n, given) ==
    { p \in (Counters \cup LostCounters(n)) \X (1..RequestLimit) :
        p[1] \in Counters => p[2] <= given[p[1]] }

\* What the counters of key k have given away in minute w.
GivenLocally(bucket, w) == IF bucket.window = w THEN bucket.count ELSE 0

GivenIn(w, rs, ls, k) ==
    [c \in Counters |->
        IF c = RedisCounter THEN rs[k] ELSE GivenLocally(ls[c[2]][k], w)]

Given(k) == GivenIn(window, redis, local, k)

CountersOK ==
    /\ window \in Nat \ {0}
    /\ redis \in [Keys -> Nat] /\ admitted \in [Keys -> Nat]
    /\ local \in [Instances -> [Keys -> Bucket]]
    /\ \A i \in Instances, k \in Keys : local[i][k].window <= window
    /\ losses \in Nat /\ unsure \in BOOLEAN

\* A bucket of this minute says that an instance had to count by itself.
UnsureOK == \A i \in Instances, k \in Keys : local[i][k].window = window => unsure

LimitInv ==
    /\ CountersOK
    /\ UnsureOK
    /\ \A k \in Keys : admitted[k] <= Cardinality(PlacesOf(losses, Given(k)))

-----------------------------------------------------------------------------
(***************************************************************************)
(* Places, counted.                                                        *)
(***************************************************************************)
LEMMA CountersDiffer ==
  /\ \A i, j \in Instances : LocalCounter(i) = LocalCounter(j) => i = j
  /\ \A m, n \in Nat : LostCounter(m) = LostCounter(n) => m = n
  /\ \A n \in Nat : LostCounter(n) \notin Counters
  /\ RedisCounter \notin LocalCounters
  /\ \A i \in Instances : LocalCounter(i) # RedisCounter /\ LocalCounter(i)[2] = i
<1>1. \A i, j : LocalCounter(i) = LocalCounter(j) => i = j
  BY DEF LocalCounter
<1>2. \A m, n : LostCounter(m) = LostCounter(n) => m = n
  BY DEF LostCounter
<1>3. \A n, i : /\ LostCounter(n) # RedisCounter
                /\ LostCounter(n) # LocalCounter(i)
                /\ RedisCounter # LocalCounter(i)
  BY DEF LostCounter, RedisCounter, LocalCounter
<1>4. \A i : LocalCounter(i)[2] = i
  BY DEF LocalCounter
<1> QED
  BY <1>1, <1>2, <1>3, <1>4 DEF Counters, LocalCounters

LEMMA HowManyLost ==
  ASSUME NEW n \in Nat
  PROVE  IsFiniteSet(LostCounters(n)) /\ Cardinality(LostCounters(n)) = n
<1> DEFINE f == [m \in 1..n |-> LostCounter(m)]
<1>1. f \in [1..n -> LostCounters(n)]
  BY DEF LostCounters
<1>2. \A a, b \in 1..n : f[a] = f[b] => a = b
  BY CountersDiffer
<1>3. \A x \in LostCounters(n) : \E a \in 1..n : f[a] = x
  BY DEF LostCounters
<1> HIDE DEF f
<1>4. f \in Bijection(1..n, LostCounters(n))
  BY <1>1, <1>2, <1>3, Fun_IsBij
<1>5. IsFiniteSet(1..n) /\ Cardinality(1..n) = n
  BY FS_Interval
<1>6. ExistsBijection(1..n, LostCounters(n))
  BY <1>4 DEF ExistsBijection
<1> QED
  BY <1>5, <1>6, FS_Bijection

LEMMA HowManyLocal ==
  IsFiniteSet(LocalCounters) /\ Cardinality(LocalCounters) = Cardinality(Instances)
<1> DEFINE f == [i \in Instances |-> LocalCounter(i)]
<1>1. f \in [Instances -> LocalCounters]
  BY DEF LocalCounters
<1>2. \A a, b \in Instances : f[a] = f[b] => a = b
  BY CountersDiffer
<1>3. \A x \in LocalCounters : \E a \in Instances : f[a] = x
  BY DEF LocalCounters
<1> HIDE DEF f
<1>4. f \in Bijection(Instances, LocalCounters)
  BY <1>1, <1>2, <1>3, Fun_IsBij
<1>5. ExistsBijection(Instances, LocalCounters)
  BY <1>4 DEF ExistsBijection
<1> QED
  BY <1>5, FS_Bijection, InstancesAssumption

LEMMA HowManyCounters ==
  ASSUME NEW n \in Nat
  PROVE  /\ IsFiniteSet({RedisCounter} \cup LostCounters(n))
         /\ Cardinality({RedisCounter} \cup LostCounters(n)) = 1 + n
         /\ IsFiniteSet(Counters \cup LostCounters(n))
         /\ Cardinality(Counters \cup LostCounters(n)) = 1 + n + Cardinality(Instances)
<1> DEFINE L == LostCounters(n)
<1>1. IsFiniteSet(L) /\ Cardinality(L) = n
  BY HowManyLost
<1>2. RedisCounter \notin L /\ RedisCounter \notin LocalCounters /\ L \cap LocalCounters = {}
  BY CountersDiffer DEF LostCounters, Counters
<1> HIDE DEF L
<1>3. IsFiniteSet(L \cup {RedisCounter}) /\ Cardinality(L \cup {RedisCounter}) = 1 + n
  <2>1. /\ IsFiniteSet(L \cup {RedisCounter})
        /\ Cardinality(L \cup {RedisCounter}) = Cardinality(L) + 1
    BY <1>1, <1>2, FS_AddElement
  <2> QED
    BY <1>1, <2>1
<1>4. /\ IsFiniteSet(L \cup LocalCounters)
      /\ Cardinality(L \cup LocalCounters) = n + Cardinality(Instances) - Cardinality(L \cap LocalCounters)
  BY <1>1, HowManyLocal, FS_Union
<1>5. Cardinality(L \cap LocalCounters) = 0
  BY <1>2, FS_EmptySet
<1>6. Cardinality(Instances) \in Nat
  BY InstancesAssumption, FS_CardinalityType
<1>7. RedisCounter \notin L \cup LocalCounters
  BY <1>2
<1>8. /\ IsFiniteSet((L \cup LocalCounters) \cup {RedisCounter})
      /\ Cardinality((L \cup LocalCounters) \cup {RedisCounter})
           = Cardinality(L \cup LocalCounters) + 1
  BY <1>4, <1>7, FS_AddElement
<1>9. /\ {RedisCounter} \cup L = L \cup {RedisCounter}
      /\ Counters \cup L = (L \cup LocalCounters) \cup {RedisCounter}
  BY DEF Counters
<1>10. Cardinality({RedisCounter} \cup L) = 1 + n
  BY <1>3, <1>9, Zenon
<1>11. Cardinality(Counters \cup L) = 1 + n + Cardinality(Instances)
  <2>1. Cardinality(Counters \cup L) = Cardinality((L \cup LocalCounters) \cup {RedisCounter})
    BY <1>9, Zenon
  <2> QED
    BY <1>4, <1>5, <1>6, <1>8, <2>1
<1> QED
  BY <1>3, <1>8, <1>9, <1>10, <1>11 DEF L

LEMMA PlacesAreFinite ==
  ASSUME NEW n \in Nat, NEW g
  PROVE  IsFiniteSet(PlacesOf(n, g)) /\ Cardinality(PlacesOf(n, g)) \in Nat
<1> DEFINE S == Counters \cup LostCounters(n)
<1>1. IsFiniteSet(S)
  BY HowManyCounters
<1>2. IsFiniteSet(1..RequestLimit)
  BY FS_Interval, LimitAssumption
<1> HIDE DEF S
<1>3. IsFiniteSet(S \X (1..RequestLimit))
  BY <1>1, <1>2, FS_Product
<1>4. PlacesOf(n, g) \in SUBSET (S \X (1..RequestLimit))
  BY DEF PlacesOf, S
<1>5. IsFiniteSet(PlacesOf(n, g))
  BY <1>3, <1>4, FS_Subset
<1> QED
  BY <1>5, FS_CardinalityType

\* Counters that go on leave no place behind.
LEMMA MorePlaces ==
  ASSUME NEW n \in Nat, NEW g \in [Counters -> Nat], NEW h \in [Counters -> Nat],
         \A c \in Counters : g[c] <= h[c]
  PROVE  Cardinality(PlacesOf(n, g)) <= Cardinality(PlacesOf(n, h))
<1>1. PlacesOf(n, g) \in SUBSET PlacesOf(n, h)
  BY LimitAssumption DEF PlacesOf
<1> QED
  BY <1>1, PlacesAreFinite, FS_Subset

\* A counter that goes on within the limit gives a place nobody has.
LEMMA OneMorePlace ==
  ASSUME NEW n \in Nat, NEW g \in [Counters -> Nat], NEW h \in [Counters -> Nat],
         \A c \in Counters : g[c] <= h[c],
         NEW c \in Counters, g[c] < h[c], h[c] <= RequestLimit
  PROVE  Cardinality(PlacesOf(n, g)) + 1 <= Cardinality(PlacesOf(n, h))
<1> DEFINE p == <<c, h[c]>>
<1>1. h[c] \in 1..RequestLimit
  BY LimitAssumption
<1>2. p \in PlacesOf(n, h) /\ p \notin PlacesOf(n, g)
  BY <1>1 DEF PlacesOf
<1>3. PlacesOf(n, g) \subseteq PlacesOf(n, h)
  BY LimitAssumption DEF PlacesOf
<1> HIDE DEF p
<1>4. (PlacesOf(n, g) \cup {p}) \in SUBSET PlacesOf(n, h)
  BY <1>2, <1>3
<1>5. Cardinality(PlacesOf(n, g) \cup {p}) = Cardinality(PlacesOf(n, g)) + 1
  BY <1>2, PlacesAreFinite, FS_AddElement
<1>6. Cardinality(PlacesOf(n, g) \cup {p}) <= Cardinality(PlacesOf(n, h))
  BY <1>4, PlacesAreFinite, FS_Subset
<1> QED
  BY <1>5, <1>6

\* The places of a lost counter are accounted for by one more lost counter.
LEMMA LostPlaces ==
  ASSUME NEW n \in Nat, NEW g \in [Counters -> Nat], NEW h \in [Counters -> Nat],
         NEW lost \in Counters, \A c \in Counters \ {lost} : g[c] = h[c]
  PROVE  Cardinality(PlacesOf(n, g)) <= Cardinality(PlacesOf(n + 1, h))
<1> DEFINE new == LostCounter(n + 1)
           P == PlacesOf(n, g)
           Q == PlacesOf(n + 1, h)
           f == [p \in P |-> <<IF p[1] = lost THEN new ELSE p[1], p[2]>>]
<1>1. /\ new \in LostCounters(n + 1) /\ new \notin Counters /\ new \notin LostCounters(n)
      /\ LostCounters(n) \subseteq LostCounters(n + 1)
      /\ LostCounters(n) \cap Counters = {}
  BY CountersDiffer DEF LostCounters
<1> HIDE DEF new
<1>2. ASSUME NEW p \in P
      PROVE  f[p] \in Q
  <2>1. PICK s \in Counters \cup LostCounters(n), m \in 1..RequestLimit :
          p = <<s, m>> /\ (s \in Counters => m <= g[s])
    BY DEF PlacesOf
  <2>2. f[p] = <<IF s = lost THEN new ELSE s, m>>
    BY <2>1
  <2> QED
    BY <1>1, <2>1, <2>2 DEF PlacesOf
<1>3. ASSUME NEW p \in P, NEW q \in P, f[p] = f[q]
      PROVE  p = q
  <2>1. PICK s \in Counters \cup LostCounters(n), m \in 1..RequestLimit : p = <<s, m>>
    BY DEF PlacesOf
  <2>2. PICK t \in Counters \cup LostCounters(n), l \in 1..RequestLimit : q = <<t, l>>
    BY DEF PlacesOf
  <2>3. s # new /\ t # new
    BY <1>1
  <2>4. m = l /\ (IF s = lost THEN new ELSE s) = (IF t = lost THEN new ELSE t)
    BY <1>3, <2>1, <2>2
  <2> QED
    BY <2>1, <2>2, <2>3, <2>4
<1>4. f \in [P -> Q] /\ \A p, q \in P : f[p] = f[q] => p = q
  BY <1>2, <1>3
<1> HIDE DEF f, P, Q
<1>5. f \in Injection(P, Q)
  BY <1>4, Fun_IsInj
<1>6. IsFiniteSet(Q)
  BY PlacesAreFinite DEF Q
<1> QED
  BY <1>5, <1>6, FS_Injection DEF P, Q

\* Never more places than the limit, for every counter that has given any.
LEMMA PlacesBound ==
  ASSUME NEW n \in Nat, NEW g \in [Counters -> Nat]
  PROVE  /\ Cardinality(PlacesOf(n, g)) <= RequestLimit * (1 + n + Cardinality(Instances))
         /\ (\A c \in LocalCounters : g[c] = 0) =>
              Cardinality(PlacesOf(n, g)) <= RequestLimit * (1 + n)
<1>1. /\ IsFiniteSet(1..RequestLimit)
      /\ Cardinality(1..RequestLimit) = RequestLimit
  BY FS_Interval, LimitAssumption
<1>2. Cardinality(Instances) \in Nat
  BY InstancesAssumption, FS_CardinalityType
<1>3. ASSUME NEW S, NEW m \in Nat, IsFiniteSet(S), Cardinality(S) = m,
             PlacesOf(n, g) \in SUBSET (S \X (1..RequestLimit))
      PROVE  Cardinality(PlacesOf(n, g)) <= RequestLimit * m
  <2>1. /\ IsFiniteSet(S \X (1..RequestLimit))
        /\ Cardinality(S \X (1..RequestLimit)) = m * RequestLimit
    BY <1>1, <1>3, FS_Product
  <2>2. Cardinality(PlacesOf(n, g)) <= Cardinality(S \X (1..RequestLimit))
    BY <1>3, <2>1, FS_Subset
  <2>3. m * RequestLimit = RequestLimit * m
    BY LimitAssumption
  <2> QED
    BY <2>1, <2>2, <2>3
<1>4. Cardinality(PlacesOf(n, g)) <= RequestLimit * (1 + n + Cardinality(Instances))
  <2>1. PlacesOf(n, g) \in SUBSET ((Counters \cup LostCounters(n)) \X (1..RequestLimit))
    BY DEF PlacesOf
  <2>2. 1 + n + Cardinality(Instances) \in Nat
    BY <1>2
  <2> QED
    BY <1>3, <2>1, <2>2, HowManyCounters
<1>5. ASSUME \A c \in LocalCounters : g[c] = 0
      PROVE  Cardinality(PlacesOf(n, g)) <= RequestLimit * (1 + n)
  <2>1. ASSUME NEW p \in PlacesOf(n, g)
        PROVE  p \in ({RedisCounter} \cup LostCounters(n)) \X (1..RequestLimit)
    <3>1. PICK s \in Counters \cup LostCounters(n), m \in 1..RequestLimit :
            p = <<s, m>> /\ (s \in Counters => m <= g[s])
      BY DEF PlacesOf
    <3>2. s \notin LocalCounters
      BY <1>5, <3>1 DEF Counters
    <3> QED
      BY <3>1, <3>2 DEF Counters
  <2>2. PlacesOf(n, g) \in SUBSET (({RedisCounter} \cup LostCounters(n)) \X (1..RequestLimit))
    BY <2>1
  <2>3. 1 + n \in Nat
    OBVIOUS
  <2> QED
    BY <1>3, <2>2, <2>3, HowManyCounters
<1> QED
  BY <1>4, <1>5

-----------------------------------------------------------------------------
(***************************************************************************)
(* The steps of the limiter.                                               *)
(***************************************************************************)
LEMMA GivenIs ==
  ASSUME NEW w, NEW rs \in [Keys -> Nat], NEW ls \in [Instances -> [Keys -> Bucket]],
         NEW k \in Keys
  PROVE  /\ GivenIn(w, rs, ls, k) \in [Counters -> Nat]
         /\ GivenIn(w, rs, ls, k)[RedisCounter] = rs[k]
         /\ \A i \in Instances :
              GivenIn(w, rs, ls, k)[LocalCounter(i)] = GivenLocally(ls[i][k], w)
<1> DEFINE g == GivenIn(w, rs, ls, k)
<1>1. g[RedisCounter] = rs[k]
  BY DEF GivenIn, Counters
<1>2. ASSUME NEW i \in Instances
      PROVE  g[LocalCounter(i)] = GivenLocally(ls[i][k], w)
  <2>1. LocalCounter(i) \in Counters /\ LocalCounter(i) # RedisCounter /\ LocalCounter(i)[2] = i
    BY CountersDiffer DEF Counters, LocalCounters
  <2> QED
    BY <2>1 DEF GivenIn
<1>3. g = [c \in Counters |-> g[c]]
  BY DEF GivenIn
<1>4. ASSUME NEW c \in Counters
      PROVE  g[c] \in Nat
  <2>1. CASE c = RedisCounter
    BY <1>1, <2>1
  <2>2. CASE c \in LocalCounters
    <3> PICK i \in Instances : c = LocalCounter(i)
      BY <2>2 DEF LocalCounters
    <3>1. GivenLocally(ls[i][k], w) \in Nat
      BY DEF Bucket, GivenLocally
    <3> QED
      BY <1>2, <3>1
  <2> QED
    BY <2>1, <2>2 DEF Counters
<1> HIDE DEF g
<1> QED
  BY <1>1, <1>2, <1>3, <1>4 DEF g

\* A step within the minute, with no counter lost: whoever is let through has
\* moved a counter, and stayed within the limit.
LEMMA LimitGrows ==
  ASSUME LimitInv, CountersOK', UnsureOK', losses' = losses,
         \A k \in Keys, c \in Counters : Given(k)[c] <= Given(k)'[c],
         \A k \in Keys :
           \/ admitted'[k] = admitted[k]
           \/ /\ admitted'[k] = admitted[k] + 1
              /\ \E c \in Counters : Given(k)[c] < Given(k)'[c] /\ Given(k)'[c] <= RequestLimit
  PROVE  LimitInv'
<1> SUFFICES ASSUME NEW k \in Keys
             PROVE  admitted'[k] <= Cardinality(PlacesOf(losses, Given(k))')
  BY DEF LimitInv
<1>1. Given(k) \in [Counters -> Nat] /\ Given(k)' \in [Counters -> Nat]
  BY GivenIs DEF LimitInv, CountersOK, Given
<1> PICK g \in [Counters -> Nat] : g = Given(k)
  BY <1>1
<1> PICK h \in [Counters -> Nat] : h = Given(k)'
  BY <1>1
<1>2. losses \in Nat /\ admitted[k] \in Nat /\ admitted[k] <= Cardinality(PlacesOf(losses, g))
  BY DEF LimitInv, CountersOK
<1>3. \A c \in Counters : g[c] <= h[c]
  OBVIOUS
<1>4. Cardinality(PlacesOf(losses, g)) \in Nat /\ Cardinality(PlacesOf(losses, h)) \in Nat
  BY <1>2, PlacesAreFinite
<1>5. Cardinality(PlacesOf(losses, g)) <= Cardinality(PlacesOf(losses, h))
  BY <1>2, <1>3, MorePlaces
<1>6. admitted'[k] <= Cardinality(PlacesOf(losses, h))
  <2>1. CASE admitted'[k] = admitted[k]
    BY <1>2, <1>4, <1>5, <2>1
  <2>2. CASE /\ admitted'[k] = admitted[k] + 1
             /\ \E c \in Counters : g[c] < h[c] /\ h[c] <= RequestLimit
    <3> PICK c \in Counters : g[c] < h[c] /\ h[c] <= RequestLimit
      BY <2>2
    <3>1. Cardinality(PlacesOf(losses, g)) + 1 <= Cardinality(PlacesOf(losses, h))
      BY <1>2, <1>3, OneMorePlace
    <3> QED
      BY <1>2, <1>4, <2>2, <3>1
  <2> QED
    BY <2>1, <2>2
<1>7. PlacesOf(losses, Given(k))' = PlacesOf(losses, h)
  BY DEF PlacesOf, LostCounters
<1> QED
  BY <1>6, <1>7

\* Pass, at either counter: let through within the limit, or refused.
LEMMA PassIs ==
  ASSUME CountersOK, NEW r \in Requests, req[r].kind \in Kinds, NEW count \in Nat,
         Pass(r, count)
  PROVE  /\ admitted' \in [Keys -> Nat]
         /\ \A k \in Keys : k # Key(req[r].kind) => admitted'[k] = admitted[k]
         /\ \/ admitted' = admitted
            \/ count <= RequestLimit
               /\ admitted'[Key(req[r].kind)] = admitted[Key(req[r].kind)] + 1
<1>1. Key(req[r].kind) \in Keys
  BY DEF Keys
<1>2. CASE admitted' = admitted
  BY <1>2 DEF CountersOK
<1>3. CASE /\ ~Exceeds(count)
           /\ admitted' = [admitted EXCEPT ![Key(req[r].kind)] = @ + 1]
  <2>1. count <= RequestLimit
    BY <1>3, LimitAssumption DEF Exceeds
  <2> QED
    BY <1>1, <1>3, <2>1 DEF CountersOK
<1> QED
  BY <1>2, <1>3 DEF Pass

LEMMA RedisKeepsLimit ==
  ASSUME LimitInv, RequestInv, NEW r \in Requests, Increment(r) \/ IncrementFails(r)
  PROVE  LimitInv'
<1> DEFINE key == Key(req[r].kind)
<1>1. req[r].kind \in Kinds /\ key \in Keys
  BY DEF RequestInv, Request, Keys
<1>2. /\ redis \in [Keys -> Nat] /\ admitted \in [Keys -> Nat] /\ window \in Nat
      /\ local \in [Instances -> [Keys -> Bucket]]
  BY DEF LimitInv, CountersOK
<1>3. /\ window' = window /\ local' = local /\ losses' = losses /\ unsure' = unsure
      /\ redis' \in {redis, [redis EXCEPT ![key] = @ + 1]}
  BY DEF Increment, IncrementFails
<1>4. redis' \in [Keys -> Nat] /\ \A k \in Keys : redis[k] <= redis'[k]
  BY <1>1, <1>2, <1>3
<1>5. \/ admitted' = admitted
      \/ /\ redis' = [redis EXCEPT ![key] = @ + 1]
         /\ redis'[key] <= RequestLimit
         /\ admitted' \in [Keys -> Nat]
         /\ admitted'[key] = admitted[key] + 1
         /\ \A k \in Keys : k # key => admitted'[k] = admitted[k]
  <2>1. CASE Increment(r)
    <3>1. redis' = [redis EXCEPT ![key] = @ + 1] /\ Pass(r, redis'[key])
      BY <2>1 DEF Increment
    <3>2. PICK count \in Nat : count = redis'[key]
      BY <1>1, <1>4
    <3> HIDE DEF key
    <3>3. Pass(r, count)
      BY <3>1, <3>2
    <3> QED
      BY <1>1, <3>1, <3>2, <3>3, PassIs DEF LimitInv, key
  <2>2. CASE IncrementFails(r)
    BY <2>2 DEF IncrementFails
  <2> QED
    BY <2>1, <2>2
<1> HIDE DEF key
<1>6. CountersOK' /\ UnsureOK'
  BY <1>2, <1>3, <1>4, <1>5 DEF LimitInv, CountersOK, UnsureOK
<1>7. ASSUME NEW k \in Keys
      PROVE  /\ \A c \in Counters : Given(k)[c] <= Given(k)'[c]
             /\ Given(k)[RedisCounter] = redis[k] /\ Given(k)'[RedisCounter] = redis'[k]
  <2>1. /\ Given(k) \in [Counters -> Nat] /\ Given(k)[RedisCounter] = redis[k]
        /\ \A i \in Instances :
              Given(k)[LocalCounter(i)] = GivenLocally(local[i][k], window)
    BY <1>2, GivenIs DEF Given
  <2>2. /\ Given(k)' \in [Counters -> Nat] /\ Given(k)'[RedisCounter] = redis'[k]
        /\ \A i \in Instances :
              Given(k)'[LocalCounter(i)] = GivenLocally(local[i][k], window)
    <3>1. Given(k)' = GivenIn(window, redis', local, k)
      BY <1>3 DEF Given
    <3> PICK rs \in [Keys -> Nat] : rs = redis'
      BY <1>4
    <3>2. /\ GivenIn(window, rs, local, k) \in [Counters -> Nat]
          /\ GivenIn(window, rs, local, k)[RedisCounter] = rs[k]
          /\ \A i \in Instances : GivenIn(window, rs, local, k)[LocalCounter(i)]
                                   = GivenLocally(local[i][k], window)
      BY <1>2, GivenIs
    <3>3. Given(k)' = GivenIn(window, rs, local, k)
      BY <3>1
    <3> QED
      BY <3>2, <3>3
  <2>3. Given(k)[RedisCounter] <= Given(k)'[RedisCounter]
    BY <1>4, <2>1, <2>2
  <2>4. \A c \in LocalCounters : Given(k)[c] = Given(k)'[c]
    BY <2>1, <2>2 DEF LocalCounters
  <2>5. \A c \in LocalCounters : Given(k)[c] \in Nat
    BY <2>1 DEF Counters
  <2> QED
    BY <2>1, <2>2, <2>3, <2>4, <2>5 DEF Counters
<1>8. ASSUME NEW k \in Keys, admitted'[k] # admitted[k]
      PROVE  /\ admitted'[k] = admitted[k] + 1
             /\ \E c \in Counters : Given(k)[c] < Given(k)'[c] /\ Given(k)'[c] <= RequestLimit
  <2>1. k = key
    BY <1>5, <1>8
  <2>2. redis'[k] = redis[k] + 1 /\ redis'[k] <= RequestLimit /\ admitted'[k] = admitted[k] + 1
    BY <1>1, <1>2, <1>5, <1>8, <2>1
  <2>3. RedisCounter \in Counters
    BY DEF Counters
  <2>4. redis[k] < redis'[k]
    BY <1>2, <2>2
  <2> QED
    BY <1>7, <2>2, <2>3, <2>4
<1> QED
  BY <1>3, <1>6, <1>7, <1>8, LimitGrows

\* cleanupLocal takes nothing away that this minute still counts.
LEMMA CleanedIs ==
  ASSUME window \in Nat \ {0}, NEW bs \in [Keys -> Bucket],
         \A k \in Keys : bs[k].window <= window
  PROVE  /\ Cleaned(bs) \in [Keys -> Bucket]
         /\ \A k \in Keys :
              /\ Cleaned(bs)[k].window <= window
              /\ GivenLocally(Cleaned(bs)[k], window) = GivenLocally(bs[k], window)
<1>1. NoBucket \in Bucket /\ NoBucket.window = 0
  BY DEF NoBucket, Bucket
<1>2. CASE Cleaned(bs) = bs
  BY <1>2
<1>3. CASE Cleaned(bs) = [k \in Keys |-> IF Stale(bs[k]) THEN NoBucket ELSE bs[k]]
  <2>1. Cleaned(bs) \in [Keys -> Bucket]
    BY <1>1, <1>3
  <2>2. ASSUME NEW k \in Keys
        PROVE  /\ Cleaned(bs)[k].window <= window
               /\ GivenLocally(Cleaned(bs)[k], window) = GivenLocally(bs[k], window)
    <3>1. bs[k].window \in Nat
      BY DEF Bucket
    <3>2. CASE Stale(bs[k])
      <4>1. Cleaned(bs)[k] = NoBucket
        BY <1>3, <3>2
      <4>2. bs[k].window # window /\ NoBucket.window # window
        BY <1>1, <3>1, <3>2 DEF Stale
      <4> QED
        BY <1>1, <4>1, <4>2 DEF GivenLocally
    <3>3. CASE ~Stale(bs[k])
      <4>1. Cleaned(bs)[k] = bs[k]
        BY <1>3, <3>3
      <4> QED
        BY <4>1
    <3> QED
      BY <3>2, <3>3
  <2> QED
    BY <2>1, <2>2
<1> QED
  BY <1>2, <1>3 DEF Cleaned

LEMMA LocalKeepsLimit ==
  ASSUME LimitInv, RequestInv, NEW r \in Requests, IncrementLocal(r)
  PROVE  LimitInv'
<1> DEFINE key == Key(req[r].kind)
           i == req[r].at
           bs == Cleaned(local[i])
           count == IF bs[key].window = window THEN bs[key].count + 1 ELSE 1
           new == [window |-> window, count |-> count]
           bs2 == [bs EXCEPT ![key] = new]
<1>1. req[r].kind \in Kinds /\ key \in Keys
  BY DEF RequestInv, Request, Keys
<1>2. i \in Instances
  BY DEF RequestInv, HandlerOK, IncrementLocal, Steps
<1>3. /\ redis \in [Keys -> Nat] /\ admitted \in [Keys -> Nat] /\ window \in Nat \ {0}
      /\ local \in [Instances -> [Keys -> Bucket]]
      /\ \A j \in Instances, k \in Keys : local[j][k].window <= window
  BY DEF LimitInv, CountersOK
<1>4. /\ local' = [local EXCEPT ![i] = bs2]
      /\ Pass(r, count)
      /\ unsure' = TRUE
      /\ window' = window /\ redis' = redis /\ losses' = losses
  BY DEF IncrementLocal, BucketWindow
<1>5. /\ bs \in [Keys -> Bucket]
      /\ \A k \in Keys :
           /\ bs[k].window <= window
           /\ GivenLocally(bs[k], window) = GivenLocally(local[i][k], window)
  BY <1>2, <1>3, CleanedIs
<1> HIDE DEF key, i, bs
<1>6. /\ count \in Nat
      /\ count = GivenLocally(local[i][key], window) + 1
  <2>1. bs[key].count \in Nat
    BY <1>1, <1>5 DEF Bucket
  <2>2. count = GivenLocally(bs[key], window) + 1
    BY <2>1 DEF GivenLocally
  <2> QED
    BY <1>1, <1>5, <2>1, <2>2
<1> HIDE DEF count
<1>7. new \in Bucket /\ new.window = window /\ GivenLocally(new, window) = count
  BY <1>3, <1>6 DEF Bucket, GivenLocally
<1> HIDE DEF new
<1>8. bs2 \in [Keys -> Bucket] /\ bs2[key] = new /\ \A k \in Keys : k # key => bs2[k] = bs[k]
  BY <1>1, <1>5, <1>7
<1> HIDE DEF bs2
<1>9. /\ local' \in [Instances -> [Keys -> Bucket]]
      /\ local'[i] = bs2 /\ \A j \in Instances : j # i => local'[j] = local[j]
  BY <1>2, <1>3, <1>4, <1>8
<1>10. /\ admitted' \in [Keys -> Nat]
       /\ \A k \in Keys : k # key => admitted'[k] = admitted[k]
       /\ \/ admitted' = admitted
          \/ count <= RequestLimit /\ admitted'[key] = admitted[key] + 1
  BY <1>1, <1>4, <1>6, PassIs DEF LimitInv, key
<1>11. CountersOK' /\ UnsureOK'
  <2>1. ASSUME NEW j \in Instances, NEW k \in Keys
        PROVE  local'[j][k].window <= window
    <3>1. CASE j # i
      BY <1>3, <1>9, <3>1
    <3>2. CASE j = i /\ k # key
      BY <1>5, <1>8, <1>9, <3>2
    <3>3. CASE j = i /\ k = key
      BY <1>3, <1>7, <1>8, <1>9, <3>3
    <3> QED
      BY <3>1, <3>2, <3>3
  <2> QED
    BY <1>3, <1>4, <1>9, <1>10, <2>1 DEF LimitInv, CountersOK, UnsureOK
<1>12. ASSUME NEW k \in Keys
       PROVE  /\ \A c \in Counters : Given(k)[c] <= Given(k)'[c]
              /\ k = key => /\ Given(k)[LocalCounter(i)] + 1 = count
                            /\ Given(k)[LocalCounter(i)] \in Nat
                            /\ Given(k)'[LocalCounter(i)] = count
  <2>a. redis \in [Keys -> Nat] /\ local \in [Instances -> [Keys -> Bucket]]
    BY <1>3
  <2>1. /\ Given(k) \in [Counters -> Nat] /\ Given(k)[RedisCounter] = redis[k]
        /\ \A j \in Instances :
              Given(k)[LocalCounter(j)] = GivenLocally(local[j][k], window)
    BY <2>a, GivenIs DEF Given
  <2>2. /\ Given(k)' \in [Counters -> Nat] /\ Given(k)'[RedisCounter] = redis[k]
        /\ \A j \in Instances :
              Given(k)'[LocalCounter(j)] = GivenLocally(local'[j][k], window)
    <3>1. Given(k)' = GivenIn(window, redis, local', k)
      BY <1>4 DEF Given
    <3> PICK ls \in [Instances -> [Keys -> Bucket]] : ls = local'
      BY <1>9
    <3>2. /\ GivenIn(window, redis, ls, k) \in [Counters -> Nat]
          /\ GivenIn(window, redis, ls, k)[RedisCounter] = redis[k]
          /\ \A j \in Instances : GivenIn(window, redis, ls, k)[LocalCounter(j)]
                                   = GivenLocally(ls[j][k], window)
      BY <2>a, GivenIs
    <3>3. Given(k)' = GivenIn(window, redis, ls, k)
      BY <3>1
    <3> QED
      BY <3>2, <3>3
  <2>3. k = key => /\ Given(k)[LocalCounter(i)] = GivenLocally(local[i][key], window)
                   /\ Given(k)'[LocalCounter(i)] = count
    BY <1>2, <1>7, <1>8, <1>9, <2>1, <2>2
  <2>4. LocalCounter(i) \in Counters
    BY <1>2 DEF Counters, LocalCounters
  <2>5. k = key => /\ Given(k)[LocalCounter(i)] + 1 = count
                   /\ Given(k)[LocalCounter(i)] \in Nat
    BY <1>6, <2>1, <2>3, <2>4
  <2>6. ASSUME NEW c \in Counters
        PROVE  Given(k)[c] <= Given(k)'[c]
    <3>1. Given(k)[c] \in Nat
      BY <2>1
    <3>2. CASE c = RedisCounter
      BY <2>1, <2>2, <3>1, <3>2
    <3>3. CASE c \in LocalCounters
      <4> PICK j \in Instances : c = LocalCounter(j)
        BY <3>3 DEF LocalCounters
      <4>1. CASE j # i
        BY <1>9, <2>1, <2>2, <3>1, <4>1
      <4>2. CASE j = i /\ k # key
        <5>1. local'[j][k] = bs[k]
          BY <1>8, <1>9, <4>2
        <5>2. GivenLocally(bs[k], window) = GivenLocally(local[j][k], window)
          BY <1>5, <4>2
        <5> QED
          BY <2>1, <2>2, <3>1, <5>1, <5>2
      <4>3. CASE j = i /\ k = key
        BY <2>3, <2>5, <3>1, <4>3
      <4> QED
        BY <4>1, <4>2, <4>3
    <3> QED
      BY <3>2, <3>3 DEF Counters
  <2> QED
    BY <2>3, <2>5, <2>6
<1>13. ASSUME NEW k \in Keys, admitted'[k] # admitted[k]
       PROVE  /\ admitted'[k] = admitted[k] + 1
              /\ \E c \in Counters : Given(k)[c] < Given(k)'[c] /\ Given(k)'[c] <= RequestLimit
  <2>1. k = key
    BY <1>10, <1>13
  <2>2. count <= RequestLimit /\ admitted'[k] = admitted[k] + 1
    BY <1>10, <1>13, <2>1
  <2>3. LocalCounter(i) \in Counters
    BY <1>2 DEF Counters, LocalCounters
  <2>4. Given(k)[LocalCounter(i)] < Given(k)'[LocalCounter(i)]
    BY <1>12, <2>1
  <2> QED
    BY <1>12, <2>1, <2>2, <2>3, <2>4
<1> QED
  BY <1>4, <1>11, <1>12, <1>13, LimitGrows

\* Redis without its counters, or an instance without its buckets.
LEMMA LossKeepsLimit ==
  ASSUME LimitInv, LoseCounters
  PROVE  LimitInv'
<1>1. /\ redis \in [Keys -> Nat] /\ admitted \in [Keys -> Nat] /\ window \in Nat \ {0}
      /\ local \in [Instances -> [Keys -> Bucket]] /\ losses \in Nat
  BY DEF LimitInv, CountersOK
<1>2. /\ window' = window /\ losses' = losses + 1 /\ admitted' = admitted /\ unsure' = unsure
      /\ losses + 1 \in Nat
  BY <1>1 DEF LoseCounters
<1>3. NoBucket \in Bucket /\ NoBucket.window = 0 /\ GivenLocally(NoBucket, window) = 0
  BY <1>1 DEF NoBucket, Bucket, GivenLocally
<1>4. /\ redis' \in [Keys -> Nat] /\ local' \in [Instances -> [Keys -> Bucket]]
      /\ \A j \in Instances : local'[j] = local[j] \/ local'[j] = [k \in Keys |-> NoBucket]
      /\ \E lost \in Counters :
           /\ lost # RedisCounter => redis' = redis
           /\ \A j \in Instances : lost # LocalCounter(j) => local'[j] = local[j]
  <2>1. CASE redis' = [k \in Keys |-> 0] /\ local' = local
    <3>1. RedisCounter \in Counters
      BY DEF Counters
    <3> QED
      BY <1>1, <2>1, <3>1
  <2>2. CASE \E i \in Instances :
               redis' = redis /\ local' = [local EXCEPT ![i] = [k \in Keys |-> NoBucket]]
    <3> PICK i \in Instances :
               redis' = redis /\ local' = [local EXCEPT ![i] = [k \in Keys |-> NoBucket]]
      BY <2>2
    <3>1. LocalCounter(i) \in Counters /\ \A j \in Instances : LocalCounter(i) # LocalCounter(j) => i # j
      BY DEF Counters, LocalCounters
    <3>2. [k \in Keys |-> NoBucket] \in [Keys -> Bucket]
      BY <1>3
    <3>3. /\ local' \in [Instances -> [Keys -> Bucket]]
          /\ local'[i] = [k \in Keys |-> NoBucket]
          /\ \A j \in Instances : j # i => local'[j] = local[j]
      BY <1>1, <3>2
    <3> QED
      BY <1>1, <3>1, <3>3
  <2> QED
    BY <2>1, <2>2 DEF LoseCounters
<1>5. PICK lost \in Counters :
        /\ lost # RedisCounter => redis' = redis
        /\ \A j \in Instances : lost # LocalCounter(j) => local'[j] = local[j]
  BY <1>4
<1>6. CountersOK' /\ UnsureOK'
  <2>1. ASSUME NEW j \in Instances, NEW k \in Keys
        PROVE  /\ local'[j][k].window <= window
               /\ local'[j][k].window = window => unsure
    <3>1. CASE local'[j] = local[j]
      BY <3>1 DEF LimitInv, CountersOK, UnsureOK
    <3>2. CASE local'[j] = [l \in Keys |-> NoBucket]
      <4>1. local'[j][k] = NoBucket
        BY <3>2
      <4> QED
        BY <1>1, <1>3, <4>1
    <3> QED
      BY <1>4, <3>1, <3>2
  <2> QED
    BY <1>1, <1>2, <1>4, <2>1 DEF LimitInv, CountersOK, UnsureOK
<1>7. ASSUME NEW k \in Keys
      PROVE  admitted'[k] <= Cardinality(PlacesOf(losses, Given(k))')
  <2>a. redis \in [Keys -> Nat] /\ local \in [Instances -> [Keys -> Bucket]]
    BY <1>1
  <2>1. /\ Given(k) \in [Counters -> Nat] /\ Given(k)[RedisCounter] = redis[k]
        /\ \A j \in Instances :
              Given(k)[LocalCounter(j)] = GivenLocally(local[j][k], window)
    BY <2>a, GivenIs DEF Given
  <2> PICK g \in [Counters -> Nat] : g = Given(k)
    BY <2>1
  <2> PICK rs \in [Keys -> Nat] : rs = redis'
    BY <1>4
  <2> PICK ls \in [Instances -> [Keys -> Bucket]] : ls = local'
    BY <1>4
  <2>2. /\ GivenIn(window, rs, ls, k) \in [Counters -> Nat]
        /\ GivenIn(window, rs, ls, k)[RedisCounter] = rs[k]
        /\ \A j \in Instances : GivenIn(window, rs, ls, k)[LocalCounter(j)]
                                 = GivenLocally(ls[j][k], window)
    BY GivenIs
  <2>3. Given(k)' = GivenIn(window, rs, ls, k)
    BY <1>2 DEF Given
  <2> PICK h \in [Counters -> Nat] : h = GivenIn(window, rs, ls, k)
    BY <2>2
  <2>4. ASSUME NEW c \in Counters \ {lost}
        PROVE  g[c] = h[c]
    <3>1. CASE c = RedisCounter
      BY <1>5, <2>1, <2>2, <3>1
    <3>2. CASE c \in LocalCounters
      <4> PICK j \in Instances : c = LocalCounter(j)
        BY <3>2 DEF LocalCounters
      <4> QED
        BY <1>5, <2>1, <2>2
    <3> QED
      BY <3>1, <3>2 DEF Counters
  <2>5. Cardinality(PlacesOf(losses, g)) <= Cardinality(PlacesOf(losses + 1, h))
    BY <1>1, <2>4, LostPlaces
  <2>6. admitted[k] \in Nat /\ admitted[k] <= Cardinality(PlacesOf(losses, g))
    BY <1>1 DEF LimitInv
  <2>7. /\ Cardinality(PlacesOf(losses, g)) \in Nat
        /\ Cardinality(PlacesOf(losses + 1, h)) \in Nat
    BY <1>1, <1>2, PlacesAreFinite
  <2>8. PlacesOf(losses, Given(k))' = PlacesOf(losses + 1, h)
    BY <1>2, <2>3 DEF PlacesOf, LostCounters
  <2>9. admitted'[k] <= Cardinality(PlacesOf(losses + 1, h))
    BY <1>2, <2>5, <2>6, <2>7
  <2> QED
    BY <2>8, <2>9
<1> QED
  BY <1>6, <1>7 DEF LimitInv

\* A new minute, nobody let through yet.
LEMMA NobodyYet ==
  ASSUME CountersOK, UnsureOK, admitted = [k \in Keys |-> 0]
  PROVE  LimitInv
<1>1. ASSUME NEW k \in Keys
      PROVE  admitted[k] <= Cardinality(PlacesOf(losses, Given(k)))
  <2>1. Cardinality(PlacesOf(losses, Given(k))) \in Nat
    BY PlacesAreFinite DEF CountersOK
  <2> QED
    BY <2>1
<1> QED
  BY <1>1 DEF LimitInv

LEMMA TickKeepsLimit ==
  ASSUME LimitInv, Tick
  PROVE  LimitInv'
<1>1. /\ window \in Nat \ {0} /\ local \in [Instances -> [Keys -> Bucket]]
      /\ \A i \in Instances, k \in Keys : local[i][k].window <= window
      /\ \A i \in Instances, k \in Keys : local[i][k].window \in Nat
  BY DEF LimitInv, CountersOK, Bucket
<1>2. /\ window' = window + 1 /\ redis' = [k \in Keys |-> 0] /\ admitted' = [k \in Keys |-> 0]
      /\ unsure' = FALSE /\ losses' = 0 /\ local' = local
  BY DEF Tick
<1>3. CountersOK'
  <2>1. \A i \in Instances, k \in Keys : local'[i][k].window <= window'
    BY <1>1, <1>2
  <2>2. redis' \in [Keys -> Nat] /\ admitted' \in [Keys -> Nat]
    <3>1. [k \in Keys |-> 0] \in [Keys -> Nat]
      OBVIOUS
    <3> QED
      BY <1>2, <3>1, Zenon
  <2>3. window' \in Nat \ {0} /\ losses' \in Nat /\ unsure' \in BOOLEAN
    <3>1. window' \in Nat \ {0} /\ losses' \in Nat
      BY <1>1, <1>2, SMT
    <3>2. unsure' \in BOOLEAN
      BY <1>2, Zenon
    <3> QED
      BY <3>1, <3>2
  <2>4. local' \in [Instances -> [Keys -> Bucket]]
    BY <1>1, <1>2
  <2> QED
    BY <2>1, <2>2, <2>3, <2>4 DEF CountersOK
<1>4. UnsureOK'
  BY <1>1, <1>2 DEF UnsureOK
<1>5. ASSUME NEW k \in Keys
      PROVE  admitted'[k] <= Cardinality(PlacesOf(losses, Given(k))')
  <2>1. PICK h : h = Given(k)'
    OBVIOUS
  <2>2. Cardinality(PlacesOf(0, h)) \in Nat
    BY PlacesAreFinite
  <2>3. PlacesOf(losses, Given(k))' = PlacesOf(0, h)
    BY <1>2, <2>1 DEF PlacesOf, LostCounters
  <2> QED
    BY <1>2, <2>2, <2>3
<1> QED
  BY <1>3, <1>4, <1>5 DEF LimitInv

LEMMA LimitInit == Init => LimitInv
<1> SUFFICES ASSUME Init PROVE LimitInv
  OBVIOUS
<1>1. NoBucket \in Bucket /\ NoBucket.window = 0
  BY DEF NoBucket, Bucket
<1>2. /\ window = 1 /\ redis = [k \in Keys |-> 0] /\ admitted = [k \in Keys |-> 0]
      /\ local = [i \in Instances |-> [k \in Keys |-> NoBucket]]
      /\ unsure = FALSE /\ losses = 0
  BY DEF Init
<1>3. local \in [Instances -> [Keys -> Bucket]]
  BY <1>1, <1>2
<1>4. \A i \in Instances, k \in Keys : local[i][k].window = 0
  BY <1>1, <1>2
<1>5. CountersOK
  <2>1. redis \in [Keys -> Nat] /\ admitted \in [Keys -> Nat]
    <3>1. [k \in Keys |-> 0] \in [Keys -> Nat]
      OBVIOUS
    <3> QED
      BY <1>2, <3>1, Zenon
  <2>2. window \in Nat \ {0} /\ losses \in Nat /\ unsure \in BOOLEAN
    <3>1. window \in Nat \ {0} /\ losses \in Nat
      BY <1>2, SMT
    <3>2. unsure \in BOOLEAN
      BY <1>2, Zenon
    <3> QED
      BY <3>1, <3>2
  <2>3. \A i \in Instances, k \in Keys : local[i][k].window <= window
    BY <1>2, <1>4
  <2> QED
    BY <1>3, <2>1, <2>2, <2>3 DEF CountersOK
<1>6. UnsureOK
  BY <1>2, <1>4 DEF UnsureOK
<1> QED
  BY <1>2, <1>5, <1>6, NobodyYet

LEMMA LimitStep == LimitInv /\ RequestInv /\ [Next]_vars => LimitInv'
<1> SUFFICES ASSUME LimitInv, RequestInv, [Next]_vars
             PROVE  LimitInv'
  OBVIOUS
<1>1. CASE UNCHANGED limits
  <2>1. /\ window' = window /\ redis' = redis /\ local' = local /\ admitted' = admitted
        /\ unsure' = unsure /\ losses' = losses
    BY <1>1 DEF limits
  <2>2. CountersOK' /\ UnsureOK'
    BY <2>1 DEF LimitInv, CountersOK, UnsureOK
  <2>3. \A k \in Keys : PlacesOf(losses, Given(k))' = PlacesOf(losses, Given(k))
    BY <2>1 DEF Given, PlacesOf, LostCounters
  <2> QED
    BY <2>1, <2>2, <2>3 DEF LimitInv
<1>2. ASSUME NEW r \in Requests,
             \/ Receive(r) \/ Login(r) \/ Authenticate(r) \/ Read(r) \/ RefuseByRule(r)
             \/ Commit(r) \/ ReadAgain(r) \/ DatabaseFails(r) \/ CountAudits(r)
      PROVE  UNCHANGED limits
  BY <1>2 DEF Receive, Login, Authenticate, Read, RefuseByRule, Commit, ReadAgain,
              DatabaseFails, CountAudits
<1>3. ASSUME NEW r \in Requests, Increment(r) \/ IncrementFails(r)
      PROVE  LimitInv'
  BY <1>3, RedisKeepsLimit
<1>4. ASSUME NEW r \in Requests, IncrementLocal(r)
      PROVE  LimitInv'
  BY <1>4, LocalKeepsLimit
<1>5. ASSUME NEW u \in Users, ChangeAccount(u)
      PROVE  UNCHANGED limits
  BY <1>5 DEF ChangeAccount
<1>6. CASE ExpireTokens
  BY <1>1, <1>6 DEF ExpireTokens
<1>7. CASE Tick
  BY <1>7, TickKeepsLimit
<1>8. CASE LoseCounters
  BY <1>8, LossKeepsLimit
<1>9. CASE UNCHANGED vars
  BY <1>1, <1>9 DEF vars
<1> QED
  BY <1>1, <1>2, <1>3, <1>4, <1>5, <1>6, <1>7, <1>8, <1>9 DEF Next

LEMMA LimitInvariant == Spec => [](LimitInv /\ RequestInv)
  BY LimitInit, LimitStep, RequestInit, RequestStep, PTL DEF Spec

\* In one minute nobody gets through a route more often than the limit says,
\* once for Redis, once for every instance that had to count by itself and once
\* for every counter that was lost (middleware/ratelimit.go).
THEOREM LimitHolds == Spec => []RateBound
<1>1. LimitInv => RateBound
  <2> SUFFICES ASSUME LimitInv, NEW k \in Keys
               PROVE  admitted[k] <= RequestLimit *
                        (1 + losses + IF unsure THEN Cardinality(Instances) ELSE 0)
    BY DEF RateBound
  <2>1. /\ redis \in [Keys -> Nat] /\ local \in [Instances -> [Keys -> Bucket]]
        /\ losses \in Nat /\ admitted[k] \in Nat
    BY DEF LimitInv, CountersOK
  <2>2. /\ Given(k) \in [Counters -> Nat]
        /\ \A j \in Instances :
              Given(k)[LocalCounter(j)] = GivenLocally(local[j][k], window)
    BY <2>1, GivenIs DEF Given
  <2> PICK g \in [Counters -> Nat] : g = Given(k)
    BY <2>2
  <2>3. admitted[k] <= Cardinality(PlacesOf(losses, g))
    BY DEF LimitInv
  <2>4. Cardinality(PlacesOf(losses, g)) \in Nat
    BY <2>1, PlacesAreFinite
  <2>5. Cardinality(Instances) \in Nat
    BY InstancesAssumption, FS_CardinalityType
  <2>6. CASE unsure
    <3>1. Cardinality(PlacesOf(losses, g)) <= RequestLimit * (1 + losses + Cardinality(Instances))
      BY <2>1, PlacesBound
    <3>2. RequestLimit * (1 + losses + Cardinality(Instances)) \in Nat
      BY <2>1, <2>5, LimitAssumption
    <3>3. admitted[k] <= RequestLimit * (1 + losses + Cardinality(Instances))
      BY <2>1, <2>3, <2>4, <3>1, <3>2
    <3> QED
      BY <2>6, <3>3
  <2>7. CASE ~unsure
    <3>1. \A c \in LocalCounters : g[c] = 0
      BY <2>2, <2>7 DEF LimitInv, UnsureOK, LocalCounters, GivenLocally
    <3>2. Cardinality(PlacesOf(losses, g)) <= RequestLimit * (1 + losses)
      BY <2>1, <3>1, PlacesBound
    <3>3. RequestLimit * (1 + losses) \in Nat
      BY <2>1, LimitAssumption
    <3>4. admitted[k] <= RequestLimit * (1 + losses)
      BY <2>1, <2>3, <2>4, <3>2, <3>3
    <3>5. 1 + losses + 0 = 1 + losses
      BY <2>1
    <3> QED
      BY <2>7, <3>4, <3>5
  <2> QED
    BY <2>6, <2>7
<1> QED
  BY <1>1, LimitInvariant, PTL

\* The types of the accounts, the counters and of what the handlers hold; no
\* bucket is from the future.
THEOREM GatewayTypes == Spec => []TypeOK
<1>1. LimitInv /\ RequestInv => TypeOK
  <2> SUFFICES ASSUME LimitInv, RequestInv
               PROVE  TypeOK
    OBVIOUS
  <2>1. DataOK /\ CountersOK
    BY DEF LimitInv, RequestInv
  <2>2. ASSUME NEW i \in Instances, NEW k \in Keys
        PROVE  local[i][k].window \in 0..window /\ local[i][k].count \in Nat
    BY <2>1 DEF CountersOK, Bucket
  <2>3. ASSUME NEW r \in Requests
        PROVE  /\ req[r].pc \in Statuses \cup { "idle", "limit", "local", "login",
                     "authenticate", "read", "commit", "readAgain", "count" }
               /\ Len(req[r].counts) <= Len(Queries)
    <3>1. req[r].pc \in Statuses \cup {"idle"} \cup Steps
      BY DEF RequestInv, Request
    <3>2. Len(req[r].counts) <= 4 /\ Len(Queries) = 4
      BY DEF RequestInv, HandlerOK, Queries
    <3> QED
      BY <3>1, <3>2 DEF Steps
  <2> QED
    BY <2>1, <2>2, <2>3 DEF TypeOK, DataOK, CountersOK, Token
<1> QED
  BY <1>1, LimitInvariant, PTL


=============================================================================
