------------------------------ MODULE Gateway ------------------------------
(***************************************************************************)
(* What an HTTP request passes before and around a service: the rate       *)
(* limiter on Redis with its local substitute (middleware/ratelimit.go),   *)
(* authentication against the accounts as they are now (middleware/        *)
(* auth.go), the roles of the route (router.go, handler/*.go), and the     *)
(* translation of the service's result into a status (handler/errors.go,   *)
(* util/http.go).  The service is the common shape of every write: read,   *)
(* check, commit, read again (module Dispatch has the checks); the audit   *)
(* summary is its sequence of queries (repository/security.go).            *)
(***************************************************************************)
EXTENDS Naturals, Sequences, FiniteSets

CONSTANTS
    Requests,       \* handlers running at the same time
    Instances,      \* server processes
    Users,          \* account names
    None,           \* no token, no user, no instance
    RequestLimit,   \* requests of one client, route and minute
    CleanupAt,      \* tracked keys that make cleanupLocal run (512 in the code)
    MaxReceived,    \* bound: requests received
    MaxFaults       \* bound: failures, restarts, minutes passed, accounts changed

ASSUME LimitAssumption == RequestLimit \in Nat \ {0} /\ CleanupAt \in Nat \ {0}
ASSUME InstancesAssumption == IsFiniteSet(Instances)
ASSUME BoundsAssumption == MaxReceived \in Nat /\ MaxFaults \in Nat

VARIABLES
    users,      \* user -> [active, role], the rows of table users
    tokens,     \* the tokens that are still valid, as [user, role]
    row,        \* the record the requests are about: [live, version]
    audits,     \* action -> number of its audit rows
    window,     \* the current minute, counted from 0
    redis,      \* key -> its counter of the current minute
    local,      \* instance -> key -> its bucket
    admitted,   \* history: key -> requests let through in the current minute
    unsure,     \* history: a local counter served in the current minute
    losses,     \* history: counters lost in the current minute
    req,        \* request -> what its handler holds in memory
    received, faults   \* counters, for the bounds

data == <<users, tokens, row, audits>>
limits == <<window, redis, local, admitted, unsure, losses>>
vars == <<data, limits, req, received, faults>>

Roles == {"viewer", "operator", "reviewer", "admin"}
Kinds == {"login", "get", "transition", "delete", "summary"}

\* The limiter counts by client and route, not by method: reading and deleting
\* a record share a counter.
Key(kind) == IF kind = "delete" THEN "get" ELSE kind
Keys == { Key(k) : k \in Kinds }

\* The roles of the routes, as of the directives.
Allowed(kind) ==
    CASE kind \in {"login", "get"} -> Roles
      [] kind = "transition"       -> {"operator", "reviewer", "admin"}
      [] kind = "delete"           -> {"admin"}
      [] kind = "summary"          -> {"reviewer", "admin"}

Entitled(u, kind) == users[u].active /\ users[u].role \in Allowed(kind)

Writes == {"transition", "delete"}

NoBucket == [window |-> 0, count |-> 0]

Idle == [ pc |-> "idle", kind |-> "get", at |-> None, user |-> None,
          claim |-> None, expected |-> 0,
          committed |-> FALSE, entitled |-> FALSE, counts |-> <<>> ]

\* What a status tells: success (200, 204), refusal (401, 403, 409, 422, 429),
\* 404, and 500.
Statuses == {"success", "refusal", "notFound", "internalError"}

\* The handler goes on; with a status it answers, and is done.
After(q, pc) ==
    IF pc \notin Statuses THEN [q EXCEPT !.pc = pc]
    ELSE [q EXCEPT !.pc = pc, !.at = None, !.user = None, !.claim = None, !.expected = 0]

Becomes(r, pc) == req' = [req EXCEPT ![r] = After(req[r], pc)]

Waiting(r) == req[r].pc \notin Statuses \cup {"idle"}

Fault == faults < MaxFaults /\ faults' = faults + 1

-----------------------------------------------------------------------------
Receive(r) ==
    /\ ~Waiting(r)
    /\ received < MaxReceived
    /\ received' = received + 1
    /\ \E kind \in Kinds, i \in Instances, u \in Users, v \in 1..row.version,
          claim \in tokens \cup {None} :
          /\ claim # None => claim.user = u
          /\ kind = "login" => claim = None
          /\ kind # "transition" => v = row.version
          /\ req' = [req EXCEPT ![r] =
                [ Idle EXCEPT !.pc = "limit", !.kind = kind, !.at = i, !.user = u,
                  !.claim = claim, !.expected = v, !.entitled = Entitled(u, kind) ]]
    /\ UNCHANGED <<data, limits, faults>>

\* Slip: one request too many.
ExceedsByMore(count) == count > RequestLimit + 1

Exceeds(count) == count > RequestLimit

\* The end of the limiter's middleware, with the count it has got.
Pass(r, count) ==
    LET q == req[r] IN
    IF Exceeds(count) THEN Becomes(r, "refusal") /\ UNCHANGED admitted
    ELSE /\ Becomes(r, IF q.kind = "login" THEN "login" ELSE "authenticate")
         /\ admitted' = [admitted EXCEPT ![Key(q.kind)] = @ + 1]

\* INCR and EXPIRE in one Redis transaction.
Increment(r) ==
    LET k == Key(req[r].kind) IN
    /\ req[r].pc = "limit"
    /\ redis' = [redis EXCEPT ![k] = @ + 1]
    /\ Pass(r, redis'[k])
    /\ UNCHANGED <<data, window, local, unsure, losses, received, faults>>

\* Redis is disabled or fails, perhaps after it has counted.
IncrementFails(r) ==
    LET k == Key(req[r].kind) IN
    /\ req[r].pc = "limit"
    /\ Fault
    /\ redis' \in {redis, [redis EXCEPT ![k] = @ + 1]}
    /\ Becomes(r, "local")
    /\ UNCHANGED <<data, window, local, admitted, unsure, losses, received>>

Stale(bucket) == bucket.window < window

\* The buckets as cleanupLocal leaves them.
Cleaned(buckets) ==
    IF Cardinality({ k \in Keys : buckets[k] # NoBucket }) < CleanupAt THEN buckets
    ELSE [k \in Keys |-> IF Stale(buckets[k]) THEN NoBucket ELSE buckets[k]]

\* Slip: the bucket carries the end of its minute.
BucketWindowEnd == window + 1

BucketWindow == window

IncrementLocal(r) ==
    LET q == req[r]
        k == Key(q.kind)
        buckets == Cleaned(local[q.at])
        count == IF buckets[k].window = BucketWindow THEN buckets[k].count + 1 ELSE 1
    IN
    /\ q.pc = "local"
    /\ local' = [local EXCEPT ![q.at] =
          [buckets EXCEPT ![k] = [window |-> BucketWindow, count |-> count]]]
    /\ Pass(r, count)
    /\ unsure' = TRUE
    /\ UNCHANGED <<data, window, redis, losses, received, faults>>

-----------------------------------------------------------------------------
\* Login: the account must be active and the password right.
Login(r) ==
    LET u == req[r].user IN
    /\ req[r].pc = "login"
    /\ \/ /\ users[u].active
          /\ tokens' = tokens \cup {[user |-> u, role |-> users[u].role]}
          /\ Becomes(r, "success")
       \/ Becomes(r, "refusal") /\ UNCHANGED tokens
    /\ UNCHANGED <<users, row, audits, limits, received, faults>>

\* Slip: the role is the one in the token.
RoleClaimed(q) == q.claim.role

\* The role of the account as it is in the database now.
RoleOf(q) == users[q.user].role

\* Authenticate and RequireRoles.
Authenticate(r) ==
    LET q == req[r] IN
    /\ q.pc = "authenticate"
    /\ Becomes(r,
          IF \/ q.claim \notin tokens
             \/ ~users[q.user].active
             \/ RoleOf(q) \notin Allowed(q.kind) THEN "refusal"
          ELSE IF q.kind = "summary" THEN "count" ELSE "read")
    /\ UNCHANGED <<data, limits, received, faults>>

-----------------------------------------------------------------------------
\* The service reads the record.
Read(r) ==
    /\ req[r].pc = "read"
    /\ Becomes(r, IF ~row.live THEN "notFound"
                  ELSE IF req[r].kind \in Writes THEN "commit" ELSE "success")
    /\ UNCHANGED <<data, limits, received, faults>>

\* Its rules refuse what is asked (module Dispatch): 403, 409 or 422.
RefuseByRule(r) ==
    /\ req[r].pc = "commit"
    /\ Becomes(r, "refusal")
    /\ UNCHANGED <<data, limits, received, faults>>

Applies(q) == row.live /\ (q.kind = "transition" => row.version = q.expected)

Applied(q) ==
    /\ row' = IF q.kind = "delete" THEN [row EXCEPT !.live = FALSE]
              ELSE [row EXCEPT !.version = @ + 1]
    /\ audits' = [audits EXCEPT ![q.kind] = @ + 1]

\* Slip: a deletion that finds no row is as good as one that does.
MissedDeletes(q) == IF q.kind = "delete" THEN "success" ELSE "refusal"

\* RowsAffected is 0: ErrRecordNotFound or ErrVersionConflict.
Missed(q) == IF q.kind = "delete" THEN "notFound" ELSE "refusal"

Commit(r) ==
    LET q == req[r] IN
    /\ q.pc = "commit"
    /\ IF Applies(q)
       THEN /\ Applied(q)
            /\ req' = [req EXCEPT ![r] = After([q EXCEPT !.committed = TRUE],
                  IF q.kind = "delete" THEN "success" ELSE "readAgain")]
       ELSE Becomes(r, Missed(q)) /\ UNCHANGED <<row, audits>>
    /\ UNCHANGED <<users, tokens, limits, received, faults>>

\* The record as it is after the commit, for the answer -- if it still is.
ReadAgain(r) ==
    /\ req[r].pc = "readAgain"
    /\ Becomes(r, IF row.live THEN "success" ELSE "notFound")
    /\ UNCHANGED <<data, limits, received, faults>>

\* A query fails.  The middleware takes it for an unknown account; a commit
\* whose answer is lost may have happened.
DatabaseFails(r) ==
    LET q == req[r] IN
    /\ q.pc \in {"login", "authenticate", "read", "commit", "readAgain", "count"}
    /\ Fault
    /\ \/ /\ q.pc = "commit" /\ Applies(q) /\ Applied(q)
          /\ req' = [req EXCEPT ![r] = After([q EXCEPT !.committed = TRUE], "internalError")]
       \/ /\ Becomes(r, IF q.pc \in {"login", "authenticate"} THEN "refusal" ELSE "internalError")
          /\ UNCHANGED <<row, audits>>
    /\ UNCHANGED <<users, tokens, limits, received>>

-----------------------------------------------------------------------------
\* Slip: the total is counted last.
QueriesTotalLast == <<"transitions", "actions", "entityTypes", "total">>

\* SummarizeAudits: five queries in this order, outside any transaction (the
\* one that counts actors is left out).
Queries == <<"total", "transitions", "actions", "entityTypes">>

Counted(query) ==
    IF query = "transitions" THEN audits["transition"]
    ELSE audits["transition"] + audits["delete"]

CountAudits(r) ==
    LET counts == Append(req[r].counts, Counted(Queries[Len(req[r].counts) + 1])) IN
    /\ req[r].pc = "count"
    /\ req' = [req EXCEPT ![r] = After([@ EXCEPT !.counts = counts],
                  IF Len(counts) = Len(Queries) THEN "success" ELSE "count")]
    /\ UNCHANGED <<data, limits, received, faults>>

-----------------------------------------------------------------------------
(***************************************************************************)
(* What happens around the handlers.                                       *)
(***************************************************************************)
\* An account is deactivated, activated, promoted or demoted.
ChangeAccount(u) ==
    /\ Fault
    /\ \/ users' = [users EXCEPT ![u].active = ~@]
       \/ \E role \in Roles \ {users[u].role} : users' = [users EXCEPT ![u].role = role]
    /\ req' = [r \in Requests |-> [req[r] EXCEPT !.entitled = @ \/
          (req[r].user = u /\ users'[u].active /\ users'[u].role \in Allowed(req[r].kind))]]
    /\ UNCHANGED <<tokens, row, audits, limits, received>>

\* Tokens come to the end of their time.
ExpireTokens ==
    /\ tokens # {}
    /\ Fault
    /\ tokens' = {}
    /\ UNCHANGED <<users, row, audits, limits, req, received>>

\* The next minute has keys and buckets of its own.
Tick ==
    /\ Fault
    /\ window' = window + 1
    /\ redis' = [k \in Keys |-> 0]
    /\ admitted' = [k \in Keys |-> 0]
    /\ unsure' = FALSE
    /\ losses' = 0
    /\ UNCHANGED <<data, local, req, received>>

\* Redis comes back without its counters, or an instance without its buckets
\* (and without the requests it was handling).
LoseCounters ==
    /\ Fault
    /\ losses' = losses + 1
    /\ \/ redis' = [k \in Keys |-> 0] /\ UNCHANGED <<local, req>>
       \/ \E i \in Instances :
             /\ local' = [local EXCEPT ![i] = [k \in Keys |-> NoBucket]]
             /\ req' = [r \in Requests |-> IF req[r].at = i THEN Idle ELSE req[r]]
             /\ UNCHANGED redis
    /\ UNCHANGED <<data, window, admitted, unsure, received>>

\* Administrators have logged in.
Init ==
    /\ users = [u \in Users |-> [active |-> TRUE, role |-> "admin"]]
    /\ tokens = { [user |-> u, role |-> users[u].role] : u \in Users }
    /\ row = [live |-> TRUE, version |-> 1]
    /\ audits = [action \in Writes |-> 0]
    /\ window = 1
    /\ redis = [k \in Keys |-> 0]
    /\ local = [i \in Instances |-> [k \in Keys |-> NoBucket]]
    /\ admitted = [k \in Keys |-> 0]
    /\ unsure = FALSE /\ losses = 0
    /\ req = [r \in Requests |-> Idle]
    /\ received = 0 /\ faults = 0

Next ==
    \/ \E r \in Requests :
          \/ Receive(r) \/ Increment(r) \/ IncrementFails(r) \/ IncrementLocal(r)
          \/ Login(r) \/ Authenticate(r) \/ Read(r) \/ RefuseByRule(r) \/ Commit(r)
          \/ ReadAgain(r) \/ DatabaseFails(r) \/ CountAudits(r)
    \/ \E u \in Users : ChangeAccount(u)
    \/ ExpireTokens \/ Tick \/ LoseCounters

Spec == Init /\ [][Next]_vars

-----------------------------------------------------------------------------
\* The variables hold what their types allow; no bucket is from the future.
TypeOK ==
    /\ users \in [Users -> [active : BOOLEAN, role : Roles]]
    /\ tokens \subseteq [user : Users, role : Roles]
    /\ row \in [live : BOOLEAN, version : Nat]
    /\ audits \in [Writes -> Nat]
    /\ redis \in [Keys -> Nat] /\ admitted \in [Keys -> Nat]
    /\ \A i \in Instances, k \in Keys :
          local[i][k].window \in 0..window /\ local[i][k].count \in Nat
    /\ \A r \in Requests :
          /\ req[r].pc \in Statuses \cup { "idle", "limit", "local", "login",
                "authenticate", "read", "commit", "readAgain", "count" }
          /\ Len(req[r].counts) <= Len(Queries)

\* In one minute a client gets through a route at most as often as the limit
\* says -- once more for every instance that had to count by itself while Redis
\* failed, and for every counter that was lost.
RateBound ==
    \A k \in Keys : admitted[k] <=
        RequestLimit * (1 + losses + IF unsure THEN Cardinality(Instances) ELSE 0)

\* Nobody reads or writes with a right taken away before the request came in,
\* whatever the token says (README.md:26).
OnlyEntitledAct ==
    \A r \in Requests :
        req[r].pc \in {"read", "commit", "readAgain", "count"} \/ req[r].committed
            => req[r].entitled

\* A status can be relied on: success means that this very request has
\* committed, refusal that it has not.  404 and 500 leave it open: the record
\* can be deleted, or the database fail, between the commit and the answer.
StatusTellsTruth ==
    \A r \in Requests :
        /\ req[r].kind \in Writes /\ req[r].pc = "success" => req[r].committed
        /\ req[r].pc = "refusal" => ~req[r].committed

\* The parts of an audit summary never add up to less than the whole it names,
\* although each is counted by a query of its own while others write.
SummaryAddsUp ==
    \A r \in Requests : req[r].pc = "success" /\ req[r].kind = "summary" =>
        LET count(query) ==
                req[r].counts[CHOOSE n \in DOMAIN Queries : Queries[n] = query]
        IN  /\ count("transitions") <= count("actions")
            /\ count("total") <= count("actions")
            /\ count("actions") <= count("entityTypes")

=============================================================================
