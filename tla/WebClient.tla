----------------------------- MODULE WebClient -----------------------------
(***************************************************************************)
(* One browser tab: an entity store with its overlapping requests          *)
(* (frontend/src/stores/factory.ts), the confirmation dialog of the        *)
(* workspace page (components/EntityPage.vue), polling (hooks/usePolling)  *)
(* and the session (hooks/useAuth.ts, api/client.ts, router/index.ts).     *)
(* The server is the version check of its update and the validity of the   *)
(* tokens; other users write to the same record.                           *)
(*                                                                         *)
(* JavaScript runs to the next await: one action is the code between two   *)
(* awaits of a network answer.                                             *)
(***************************************************************************)
EXTENDS Naturals

CONSTANTS
    Calls,        \* store actions that can be in flight together
    MaxVersion,   \* bound: versions of the record
    MaxDialogs,   \* bound: dialogs opened, one after the other
    MaxLogins,    \* bound: logins
    MaxFailures   \* bound: requests that fail for no reason of the server's

ASSUME BoundsAssumption ==
    /\ MaxVersion \in Nat \ {0} /\ MaxDialogs \in Nat
    /\ MaxLogins \in Nat /\ MaxFailures \in Nat

VARIABLES
    version,    \* server: the version of the record
    commits,    \* server, history: dialog -> transitions committed for it
    expired,    \* server: the tokens that are no longer accepted
    token,      \* localStorage: the token of the last login, or 0
    session,    \* useAuth: "none", "active", or "booting" until bootstrapAuth ends
    logins,     \* number of logins so far, which numbers the tokens
    item,       \* store.items: the version of the record shown, or 0
    loading,    \* store.loading
    error,      \* store.error is not empty
    dialog,     \* the dialog that is open: its number, version, and whether
                \* no other transition was in flight when it was opened
    opened,     \* number of dialogs opened so far
    calls,      \* call -> the store action in flight
    failures    \* counter, for the bound

server == <<version, commits, expired>>
auth == <<token, session, logins>>
store == <<item, loading, error>>
page == <<dialog, opened>>
vars == <<server, auth, store, page, calls, failures>>

Closed == [number |-> 0, version |-> 0, alone |-> TRUE]

\* A call waits for the answer to its POST ("post") or to its GET ("get");
\* dialog is 0 for a plain load.  answer is what the server has put under way.
Idle == [pc |-> "idle", dialog |-> 0, version |-> 0, token |-> 0, answer |-> "none"]

InFlight(c) == calls[c].pc # "idle"

\* Slip: an answer outlives its call.
EndsAnswered(c) == calls' = [calls EXCEPT ![c].pc = "idle"]

Ends(c) == calls' = [calls EXCEPT ![c] = Idle]

-----------------------------------------------------------------------------
(***************************************************************************)
(* The session.                                                            *)
(***************************************************************************)
Login ==
    /\ session = "none"
    /\ logins < MaxLogins
    /\ logins' = logins + 1
    /\ token' = logins'
    /\ session' = "active"
    /\ UNCHANGED <<server, store, page, calls, failures>>

\* Slip: the stored session stays behind.
LogoutOfTheTab == session' = "none" /\ UNCHANGED token

Forget == session' = "none" /\ token' = 0

Logout ==
    /\ session = "active"
    /\ Forget
    /\ dialog' = Closed
    /\ UNCHANGED <<server, logins, store, opened, calls, failures>>

\* The page is loaded anew: what was in flight is no longer listened to (a POST
\* that the server has yet to receive is then like one of another user).
Reload ==
    /\ session' = IF token = 0 THEN "none" ELSE "booting"
    /\ item' = 0 /\ loading' = FALSE /\ error' = FALSE
    /\ dialog' = Closed
    /\ calls' = [c \in Calls |-> Idle]
    /\ UNCHANGED <<server, token, logins, opened, failures>>

\* bootstrapAuth asks /session whether the stored token still holds.
Bootstrap ==
    /\ session = "booting"
    /\ IF token \in expired THEN Forget ELSE session' = "active" /\ UNCHANGED token
    /\ UNCHANGED <<server, logins, store, page, calls, failures>>

\* The question itself fails: the session is given up.
BootstrapFails ==
    /\ session = "booting"
    /\ failures < MaxFailures
    /\ failures' = failures + 1
    /\ Forget
    /\ UNCHANGED <<server, logins, store, page, calls>>

\* The server stops accepting the tokens issued so far: their time is over, or
\* the account is inactive.
Expire ==
    /\ expired' = 1..logins
    /\ UNCHANGED <<version, commits, auth, store, page, calls, failures>>

-----------------------------------------------------------------------------
(***************************************************************************)
(* Store actions.                                                          *)
(***************************************************************************)
Clears == loading' = TRUE /\ error' = FALSE

\* Slip: polling stops while an error is shown.
PollsUnlessError(c) == session = "active" /\ ~InFlight(c) /\ ~error

Polls(c) == session = "active" /\ ~InFlight(c)

\* load: on mounting, by the timer, by a click.
StartLoad(c) ==
    /\ Polls(c)
    /\ Clears
    /\ calls' = [calls EXCEPT ![c] = [Idle EXCEPT !.pc = "get", !.token = token]]
    /\ UNCHANGED <<server, auth, item, page, failures>>

OpenDialog ==
    /\ session = "active"
    /\ dialog = Closed
    /\ item \in 1..(MaxVersion - 1)
    /\ opened < MaxDialogs
    /\ opened' = opened + 1
    /\ dialog' = [ number |-> opened', version |-> item,
                   alone |-> \A c \in Calls : calls[c].dialog = 0 ]
    /\ UNCHANGED <<server, auth, store, calls, failures>>

Cancel ==
    /\ dialog # Closed
    /\ dialog' = Closed
    /\ UNCHANGED <<server, auth, store, opened, calls, failures>>

\* Slip: the version sent is that of the list as it is now.
VersionListed == item

\* The record was captured when the dialog was opened.
VersionConfirmed == dialog.version

\* confirmTransition, which a second click can start again.
Confirm(c) ==
    /\ dialog # Closed
    /\ ~InFlight(c)
    /\ Clears
    /\ calls' = [calls EXCEPT ![c] =
          [ pc |-> "post", dialog |-> dialog.number, version |-> VersionConfirmed,
            token |-> token, answer |-> "none" ]]
    /\ UNCHANGED <<server, auth, item, page, failures>>

Answers(c, answer) == calls' = [calls EXCEPT ![c].answer = answer]

Accepted(c) == calls[c].token \notin expired \cup {0}

\* The server receives the transition and compares the version.
ServePost(c) ==
    /\ calls[c].pc = "post"
    /\ calls[c].answer = "none"
    /\ CASE ~Accepted(c) ->
              Answers(c, "unauthorized") /\ UNCHANGED <<version, commits>>
         [] Accepted(c) /\ version # calls[c].version ->
              Answers(c, "refused") /\ UNCHANGED <<version, commits>>
         [] OTHER ->
              /\ version' = version + 1
              /\ commits' = [commits EXCEPT ![calls[c].dialog] = @ + 1]
              /\ Answers(c, "ok")
    /\ UNCHANGED <<expired, auth, store, page, failures>>

\* The server receives the query: the answer carries the version of now.
ServeGet(c) ==
    /\ calls[c].pc = "get"
    /\ calls[c].answer = "none"
    /\ IF Accepted(c)
       THEN calls' = [calls EXCEPT ![c].answer = "ok", ![c].version = version]
       ELSE Answers(c, "unauthorized")
    /\ UNCHANGED <<server, auth, store, page, failures>>

\* The transition is confirmed: the list is loaded again, for a second request.
PostSucceeds(c) ==
    /\ calls[c].pc = "post"
    /\ calls[c].answer = "ok"
    /\ Clears
    /\ calls' = [calls EXCEPT ![c] =
          [@ EXCEPT !.pc = "get", !.token = token, !.answer = "none"]]
    /\ UNCHANGED <<server, auth, item, page, failures>>

\* Slips: the dialog is closed without a look at the error; loading is reset on
\* the way of success only.
ClosesDialog(c, failed) == calls[c].dialog # 0
KeepsLoading(failed) == loading' = ~failed

\* confirmTransition goes on when its store action is over: it closes the
\* dialog that is open NOW, if the store shows no error.
CloseIfNoError(c, failed) == calls[c].dialog # 0 /\ ~failed

Finally(failed) == loading' = FALSE

Return(c, failed) ==
    /\ Finally(failed)
    /\ error' = failed
    /\ dialog' = IF CloseIfNoError(c, failed) THEN Closed ELSE dialog
    /\ Ends(c)
    /\ UNCHANGED opened

\* The answer to the list.  A later poll may have failed meanwhile, whose error
\* stays.
GetSucceeds(c) ==
    /\ calls[c].pc = "get"
    /\ calls[c].answer = "ok"
    /\ item' = calls[c].version
    /\ Return(c, error)
    /\ UNCHANGED <<server, auth, failures>>

\* The server says no to the POST or the GET; a 401 clears the stored session,
\* whichever token the request had been sent with.
Refused(c) ==
    /\ calls[c].answer \in {"unauthorized", "refused"}
    /\ token' = IF calls[c].answer = "unauthorized" THEN 0 ELSE token
    /\ Return(c, TRUE)
    /\ UNCHANGED <<server, session, logins, item, failures>>

\* The request or its answer is lost, or the server fails: only an error is
\* seen, whether or not the server has committed.
Lost(c) ==
    /\ InFlight(c)
    /\ failures < MaxFailures
    /\ failures' = failures + 1
    /\ Return(c, TRUE)
    /\ UNCHANGED <<server, auth, item>>

DismissError ==
    /\ error
    /\ error' = FALSE
    /\ UNCHANGED <<server, auth, item, loading, page, calls, failures>>

OtherUser ==
    /\ version < MaxVersion
    /\ version' = version + 1
    /\ UNCHANGED <<commits, expired, auth, store, page, calls, failures>>

Init ==
    /\ version = 1 /\ commits = [d \in 1..MaxDialogs |-> 0] /\ expired = {}
    /\ token = 0 /\ session = "none" /\ logins = 0
    /\ item = 0 /\ loading = FALSE /\ error = FALSE
    /\ dialog = Closed /\ opened = 0
    /\ calls = [c \in Calls |-> Idle]
    /\ failures = 0

Answer(c) ==
    ServePost(c) \/ ServeGet(c) \/ PostSucceeds(c) \/ GetSucceeds(c) \/ Refused(c)

Next ==
    \/ Login \/ Logout \/ Reload \/ Bootstrap \/ BootstrapFails \/ Expire
    \/ OpenDialog \/ Cancel \/ DismissError \/ OtherUser
    \/ \E c \in Calls : StartLoad(c) \/ Confirm(c) \/ Answer(c) \/ Lost(c)

\* A request is answered or fails; /session too; and the timer keeps firing
\* while the page is visible.
Fairness ==
    /\ WF_vars(Bootstrap)
    /\ \A c \in Calls : WF_vars(Answer(c))
    /\ SF_vars(\E c \in Calls : StartLoad(c))

Spec == Init /\ [][Next]_vars /\ Fairness

-----------------------------------------------------------------------------
\* The variables hold what their types allow, and an ended call leaves nothing.
TypeOK ==
    /\ version \in Nat
    /\ commits \in [1..MaxDialogs -> Nat]
    /\ expired \subseteq 1..logins
    /\ token \in {0, logins}
    /\ session \in {"none", "active", "booting"}
    /\ item \in Nat
    /\ loading \in BOOLEAN /\ error \in BOOLEAN
    /\ dialog \in [number : 0..MaxDialogs, version : Nat, alone : BOOLEAN]
    /\ \A c \in Calls : InFlight(c) \/ calls[c] = Idle
    /\ calls \in [Calls ->
          [ pc : {"idle", "post", "get"}, dialog : 0..MaxDialogs,
            version : Nat, token : 0..MaxLogins,
            answer : {"none", "ok", "refused", "unauthorized"} ]]
    /\ opened \in 0..MaxDialogs /\ failures \in 0..MaxFailures

\* What a user confirms in one dialog happens at most once, however often it is
\* clicked, whatever answers are lost and whoever else writes: the dialog keeps
\* the version it was opened with, and the server accepts a version once.
AtMostOnce == \A d \in 1..MaxDialogs : commits[d] <= 1

\* The page closes a dialog by itself only when its transition has been
\* committed -- provided no other transition was in flight when it was opened:
\* the end of that one closes whatever dialog is open.
ClosesOnCommit ==
    [][ dialog # Closed /\ dialog' = Closed /\ calls' # calls /\ session' = session
        /\ dialog.alone => commits[dialog.number] = 1 ]_vars

\* The spinner never outlives the requests: overlapping actions share one flag,
\* and the last one to end leaves it off.
QuietWhenDone == (\A c \in Calls : ~InFlight(c)) => ~loading

\* A tab that shows no session has left no token behind, whichever requests of
\* an earlier session come back late.
SignedOut == session = "none" => token = 0

\* The list ends up showing the record as it is, although answers overtake each
\* other and fail, as long as somebody stays signed in with an accepted token.
EventuallyFresh ==
    \/ <>[](item = version)
    \/ []<>(session # "active" \/ token \in expired \cup {0})

=============================================================================
