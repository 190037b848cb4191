--------------------------- MODULE WebClientProofs ---------------------------
(***************************************************************************)
(* Machine-checked proofs about WebClient, for any number of calls in      *)
(* flight, dialogs, logins, failures and versions.                         *)
(*                                                                         *)
(* That a confirmation happens once rests on the version: all requests of  *)
(* one dialog carry the version it was opened with, and once one of them   *)
(* is committed the record is past it (CallOK).  The dialog itself may be  *)
(* closed and forgotten long before its requests reach the server, so the  *)
(* invariant compares the requests with each other (SameVersion).          *)
(***************************************************************************)
EXTENDS WebClient, TLAPS

-----------------------------------------------------------------------------
(***************************************************************************)
(* 1. The inductive invariant.                                             *)
(***************************************************************************)
Call ==
    [ pc : {"idle", "post", "get"}, dialog : 0..MaxDialogs,
      version : Nat, token : 0..MaxLogins,
      answer : {"none", "ok", "refused", "unauthorized"} ]

\* What is known of a call: a POST that can still be committed belongs to a
\* dialog with nothing committed; one that was answered "ok", and the GET that
\* follows it, belong to one with its transition committed.
CallOK(q) ==
    /\ q.pc = "idle" => q = Idle
    /\ q.dialog <= opened
    /\ q.pc = "post" =>
         /\ q.dialog > 0
         /\ commits[q.dialog] > 0 => version > q.version
         /\ q.answer = "ok" => commits[q.dialog] > 0
         /\ q.dialog = dialog.number => q.version = dialog.version
    /\ q.pc = "get" /\ q.dialog > 0 => commits[q.dialog] > 0
    /\ dialog # Closed /\ dialog.alone /\ q.dialog > 0 => q.dialog = dialog.number

\* The POSTs of one dialog carry one version.
SameVersion ==
    \A b, c \in Calls :
        calls[b].pc = "post" /\ calls[c].pc = "post"
        /\ calls[b].dialog = calls[c].dialog => calls[b].version = calls[c].version

CallsOK ==
    /\ calls \in [Calls -> Call]
    /\ \A c \in Calls : CallOK(calls[c])
    /\ SameVersion

\* The open dialog is the last one, of a tab that is signed in.
DialogOK ==
    /\ dialog \in [number : 0..MaxDialogs, version : Nat, alone : BOOLEAN]
    /\ opened \in 0..MaxDialogs
    /\ commits \in [1..MaxDialogs -> 0..1]
    /\ \A d \in 1..MaxDialogs : d > opened => commits[d] = 0
    /\ dialog # Closed =>
         /\ session = "active"
         /\ opened > 0 /\ dialog.number = opened
         /\ commits[opened] > 0 => version > dialog.version

SessionOK ==
    /\ logins \in 0..MaxLogins
    /\ expired \subseteq 1..logins
    /\ token \in {0, logins}
    /\ session \in {"none", "active", "booting"}
    /\ session = "none" => token = 0

StoreOK ==
    /\ version \in Nat /\ item \in Nat
    /\ loading \in BOOLEAN /\ error \in BOOLEAN
    /\ failures \in 0..MaxFailures
    /\ (\A c \in Calls : ~InFlight(c)) => ~loading

ClientInv == CallsOK /\ DialogOK /\ SessionOK /\ StoreOK

-----------------------------------------------------------------------------
(***************************************************************************)
(* 2. What a step does to the calls.                                       *)
(***************************************************************************)

\* No dialog is open, and no call is in flight.
LEMMA Blanks ==
    /\ Closed.number = 0
    /\ Closed \in [number : 0..MaxDialogs, version : Nat, alone : BOOLEAN]
    /\ Idle \in Call /\ Idle.pc = "idle" /\ Idle.dialog = 0
  BY BoundsAssumption DEF Closed, Idle, Call

\* What is known of a call stays known while others write to the record, and
\* when the dialog is closed.
LEMMA CallStays ==
    ASSUME version \in Nat, version' \in Nat, version' >= version,
           opened \in 0..MaxDialogs, opened' = opened, commits' = commits,
           dialog' = dialog \/ dialog' = Closed,
           NEW q \in Call, CallOK(q)
    PROVE  CallOK(q)'
  <1>1. q.version \in Nat /\ q.dialog \in 0..MaxDialogs
    BY DEF Call
  <1>2. q.pc = "post" =>
          /\ q.dialog > 0
          /\ commits'[q.dialog] > 0 => version' > q.version
          /\ q.answer = "ok" => commits'[q.dialog] > 0
    BY <1>1 DEF CallOK
  <1>3. q.pc = "post" /\ q.dialog = dialog'.number => q.version = dialog'.version
    BY <1>1, Blanks DEF CallOK
  <1> QED
    BY <1>2, <1>3 DEF CallOK

\* The calls go on as they were.
LEMMA CallsRest ==
    ASSUME ClientInv, version' \in Nat, version' >= version,
           UNCHANGED <<calls, opened, commits>>,
           dialog' = dialog \/ dialog' = Closed
    PROVE  CallsOK'
  <1>1. ASSUME NEW c \in Calls PROVE CallOK(calls[c])'
    <2>1. ASSUME NEW q \in Call, CallOK(q) PROVE CallOK(q)'
      BY <2>1, CallStays DEF ClientInv, DialogOK, StoreOK
    <2>2. calls'[c] \in Call /\ CallOK(calls'[c])
      BY DEF ClientInv, CallsOK
    <2> QED
      BY <2>1, <2>2
  <1> QED
    BY <1>1 DEF ClientInv, CallsOK, SameVersion

\* One call changes to q.
LEMMA CallsMove ==
    ASSUME ClientInv, NEW c \in Calls, NEW q \in Call, CallOK(q),
           q.pc = "post" =>
             \A b \in Calls \ {c} :
               calls[b].pc = "post" /\ calls[b].dialog = q.dialog
                 => calls[b].version = q.version,
           calls' = [calls EXCEPT ![c] = q],
           UNCHANGED <<version, opened, commits>>,
           dialog' = dialog \/ dialog' = Closed
    PROVE  CallsOK'
  <1>1. /\ calls' \in [Calls -> Call] /\ calls'[c] = q
        /\ \A b \in Calls \ {c} : calls'[b] = calls[b]
    BY DEF ClientInv, CallsOK
  <1>2. ASSUME NEW b \in Calls PROVE CallOK(calls[b])'
    <2>1. ASSUME NEW p \in Call, CallOK(p) PROVE CallOK(p)'
      BY <2>1, CallStays DEF ClientInv, DialogOK, StoreOK
    <2>2. calls'[b] \in Call /\ CallOK(calls'[b])
      BY <1>1 DEF ClientInv, CallsOK
    <2> QED
      BY <2>1, <2>2
  <1>3. SameVersion'
    <2> SUFFICES ASSUME NEW a \in Calls, NEW b \in Calls,
                        calls'[a].pc = "post", calls'[b].pc = "post",
                        calls'[a].dialog = calls'[b].dialog
                 PROVE  calls'[a].version = calls'[b].version
      BY DEF SameVersion
    <2>1. CASE a = c /\ b # c
      BY <1>1, <2>1
    <2>2. CASE a # c /\ b = c
      BY <1>1, <2>2
    <2>3. CASE a # c /\ b # c
      BY <1>1, <2>3 DEF ClientInv, CallsOK, SameVersion
    <2> QED
      BY <2>1, <2>2, <2>3
  <1> QED
    BY <1>1, <1>2, <1>3 DEF CallsOK

\* The dialogs go on as they were, or are closed.
LEMMA DialogRests ==
    ASSUME ClientInv, version' \in Nat, version' >= version,
           UNCHANGED <<opened, commits>>,
           \/ dialog' = dialog /\ (session' = session \/ session # "active")
           \/ dialog' = Closed
    PROVE  DialogOK'
  <1>1. dialog' \in [number : 0..MaxDialogs, version : Nat, alone : BOOLEAN]
    BY Blanks DEF ClientInv, DialogOK
  <1>2. ASSUME dialog' # Closed
        PROVE  session' = "active" /\ opened > 0 /\ dialog'.number = opened
               /\ (commits[opened] > 0 => version' > dialog'.version)
    <2>1. /\ dialog' = dialog /\ session = "active" /\ session' = "active"
          /\ opened > 0 /\ dialog.number = opened
          /\ commits[opened] > 0 => version > dialog.version
      BY <1>2 DEF ClientInv, DialogOK
    <2>2. version \in Nat /\ dialog.version \in Nat
      BY DEF ClientInv, DialogOK, StoreOK
    <2> QED
      BY <2>1, <2>2
  <1> QED
    BY <1>1, <1>2 DEF ClientInv, DialogOK

\* A call that is in flight keeps the spinner's invariant.
LEMMA Spins ==
    ASSUME ClientInv, NEW c \in Calls, calls' \in [Calls -> Call], calls'[c].pc # "idle",
           version' \in Nat, item' \in Nat, loading' \in BOOLEAN, error' \in BOOLEAN,
           failures' \in 0..MaxFailures
    PROVE  StoreOK'
  BY DEF StoreOK, InFlight

-----------------------------------------------------------------------------
(***************************************************************************)
(* 3. The steps.                                                           *)
(***************************************************************************)

\* The session, other users, and the buttons of the page.
LEMMA PageSteps ==
    ASSUME ClientInv,
           \/ Login \/ Logout \/ Bootstrap \/ BootstrapFails \/ Expire
           \/ Cancel \/ DismissError \/ OtherUser
    PROVE  ClientInv'
  <1>1. /\ version \in Nat /\ failures \in 0..MaxFailures /\ logins \in 0..MaxLogins
        /\ MaxFailures \in Nat /\ MaxLogins \in Nat
    BY BoundsAssumption DEF ClientInv, StoreOK, SessionOK
  <1>2. /\ version' \in Nat /\ version' >= version
        /\ UNCHANGED <<calls, opened, commits>>
        /\ \/ dialog' = dialog /\ (session' = session \/ session # "active")
           \/ dialog' = Closed
    BY <1>1 DEF Login, Logout, Bootstrap, BootstrapFails, Expire, Cancel, DismissError,
       OtherUser, server, auth, store, page, Forget
  <1>3. CallsOK'
    BY <1>2, CallsRest
  <1>4. DialogOK'
    BY <1>2, DialogRests
  <1>5. StoreOK'
    <2>1. failures' \in 0..MaxFailures
      BY <1>1 DEF Login, Logout, Bootstrap, BootstrapFails, Expire, Cancel,
         DismissError, OtherUser
    <2>2. UNCHANGED <<item, loading>> /\ (error' = error \/ error' = FALSE)
      BY DEF Login, Logout, Bootstrap, BootstrapFails, Expire, Cancel, DismissError,
         OtherUser, store
    <2> QED
      BY <1>2, <2>1, <2>2 DEF ClientInv, StoreOK, InFlight
  <1>6. SessionOK'
    <2>1. CASE Login
      <3>1. logins' = logins + 1 /\ token' = logins' /\ session' = "active"
            /\ logins < MaxLogins /\ expired' = expired
        BY <2>1 DEF Login, server
      <3>2. logins' \in 0..MaxLogins /\ 1..logins \subseteq 1..logins'
        BY <1>1, <3>1
      <3> QED
        BY <3>1, <3>2 DEF ClientInv, SessionOK
    <2>2. CASE Logout \/ Bootstrap \/ BootstrapFails
      BY <2>2 DEF Logout, Bootstrap, BootstrapFails, Forget, ClientInv, SessionOK, server
    <2>3. CASE Expire
      BY <2>3 DEF Expire, ClientInv, SessionOK, auth
    <2>4. CASE Cancel \/ DismissError \/ OtherUser
      BY <2>4 DEF Cancel, DismissError, OtherUser, ClientInv, SessionOK, server, auth
    <2> QED
      BY <2>1, <2>2, <2>3, <2>4
  <1> QED
    BY <1>3, <1>4, <1>5, <1>6 DEF ClientInv

\* The page is loaded anew.
LEMMA ReloadStep ==
    ASSUME ClientInv, Reload
    PROVE  ClientInv'
  <1>1. /\ calls' = [c \in Calls |-> Idle] /\ dialog' = Closed
        /\ UNCHANGED <<version, commits, expired, token, logins, opened, failures>>
        /\ item' = 0 /\ loading' = FALSE /\ error' = FALSE
        /\ session' = IF token = 0 THEN "none" ELSE "booting"
    BY DEF Reload, server
  <1>2. CallsOK'
    <2>1. \A c \in Calls : calls'[c] = Idle
      BY <1>1
    <2>2. CallOK(Idle)'
      BY <1>1, Blanks DEF CallOK, ClientInv, DialogOK
    <2>3. \A c \in Calls : CallOK(calls[c])'
      BY <2>1, <2>2 DEF CallOK
    <2> QED
      BY <1>1, <2>1, <2>3, Blanks DEF CallsOK, SameVersion
  <1>3. DialogOK'
    BY <1>1, DialogRests DEF ClientInv, StoreOK
  <1>4. SessionOK'
    BY <1>1 DEF ClientInv, SessionOK
  <1>5. StoreOK'
    BY <1>1 DEF ClientInv, StoreOK
  <1> QED
    BY <1>2, <1>3, <1>4, <1>5 DEF ClientInv

\* A new dialog has a new number, which no call and no commit has yet.
LEMMA OpenDialogStep ==
    ASSUME ClientInv, OpenDialog
    PROVE  ClientInv'
  <1> DEFINE alone == \A c \in Calls : calls[c].dialog = 0
  <1>1. /\ session = "active" /\ item \in Nat /\ opened < MaxDialogs /\ opened' = opened + 1
        /\ dialog' = [number |-> opened', version |-> item, alone |-> alone]
        /\ UNCHANGED <<version, commits, expired, token, session, logins, item,
                       loading, error, calls, failures>>
    BY DEF OpenDialog, server, auth, store, ClientInv, StoreOK
  <1>2. /\ opened \in Nat /\ opened' \in 1..MaxDialogs
    BY <1>1, BoundsAssumption DEF ClientInv, DialogOK
  <1>3. /\ dialog'.number = opened' /\ dialog'.version = item /\ dialog'.alone = alone
        /\ dialog' \in [number : 0..MaxDialogs, version : Nat, alone : BOOLEAN]
    BY <1>1, <1>2
  <1>4. ASSUME NEW c \in Calls PROVE CallOK(calls[c])'
    <2>1. calls[c] \in Call /\ CallOK(calls[c])
      BY DEF ClientInv, CallsOK
    <2>2. calls[c].dialog \in Nat /\ calls[c].dialog <= opened
      BY <2>1 DEF Call, CallOK
    <2>3. calls[c].dialog # dialog'.number /\ calls[c].dialog <= opened'
      BY <1>1, <1>2, <1>3, <2>2
    <2>4. dialog'.alone => ~(calls[c].dialog > 0)
      <3>1. dialog'.alone => calls[c].dialog = 0
        BY <1>3, Zenon
      <3> QED
        BY <2>2, <3>1
    <2> QED
      BY <1>1, <2>1, <2>3, <2>4 DEF CallOK
  <1>5. CallsOK'
    BY <1>1, <1>4 DEF ClientInv, CallsOK, SameVersion
  <1>6. commits[opened'] = 0
    BY <1>1, <1>2 DEF ClientInv, DialogOK
  <1>7. \A d \in 1..MaxDialogs : d > opened' => d > opened
    BY <1>1, <1>2
  <1>8. DialogOK'
    BY <1>1, <1>2, <1>3, <1>6, <1>7 DEF ClientInv, DialogOK
  <1>9. SessionOK' /\ StoreOK'
    BY <1>1 DEF ClientInv, SessionOK, StoreOK, InFlight
  <1> QED
    BY <1>5, <1>8, <1>9 DEF ClientInv

\* A plain load.
LEMMA StartLoadStep ==
    ASSUME ClientInv, NEW c \in Calls, StartLoad(c)
    PROVE  ClientInv'
  <1> DEFINE q == [Idle EXCEPT !.pc = "get", !.token = token]
  <1>1. /\ calls' = [calls EXCEPT ![c] = q] /\ loading' = TRUE /\ error' = FALSE
        /\ UNCHANGED <<version, commits, expired, token, session, logins, item,
                       dialog, opened, failures>>
    BY DEF StartLoad, Clears, server, auth, page
  <1>2. token \in 0..MaxLogins
    BY BoundsAssumption DEF ClientInv, SessionOK
  <1>3. q \in Call /\ q.pc = "get" /\ q.dialog = 0
    BY <1>2, Blanks DEF Call, Idle
  <1> HIDE DEF q
  <1>4. CallOK(q)
    BY <1>3 DEF CallOK, ClientInv, DialogOK
  <1>5. CallsOK'
    BY <1>1, <1>3, <1>4, CallsMove
  <1>6. DialogOK'
    BY <1>1, DialogRests DEF ClientInv, StoreOK
  <1>7. StoreOK'
    BY <1>1, <1>3, <1>5, Spins DEF ClientInv, StoreOK, CallsOK
  <1>8. SessionOK'
    BY <1>1 DEF ClientInv, SessionOK
  <1> QED
    BY <1>5, <1>6, <1>7, <1>8 DEF ClientInv

\* A request of a dialog carries the version of the dialog.
LEMMA ConfirmStep ==
    ASSUME ClientInv, NEW c \in Calls, Confirm(c)
    PROVE  ClientInv'
  <1> DEFINE q == [ pc |-> "post", dialog |-> dialog.number, version |-> dialog.version,
                    token |-> token, answer |-> "none" ]
  <1>1. /\ calls' = [calls EXCEPT ![c] = q] /\ loading' = TRUE /\ error' = FALSE
        /\ UNCHANGED <<version, commits, expired, token, session, logins, item,
                       dialog, opened, failures>>
        /\ dialog # Closed
    BY DEF Confirm, VersionConfirmed, Clears, server, auth, page
  <1>2. token \in 0..MaxLogins
    BY BoundsAssumption DEF ClientInv, SessionOK
  <1>3. /\ q \in Call /\ q.pc = "post" /\ q.dialog = dialog.number
        /\ q.version = dialog.version /\ q.answer = "none"
    BY <1>2 DEF Call, ClientInv, DialogOK
  <1> HIDE DEF q
  <1>4. /\ dialog.number = opened /\ opened > 0 /\ opened \in Nat
        /\ commits[opened] > 0 => version > dialog.version
    BY <1>1 DEF ClientInv, DialogOK
  <1>5. CallOK(q)
    BY <1>3, <1>4 DEF CallOK
  <1>6. \A b \in Calls \ {c} :
          calls[b].pc = "post" /\ calls[b].dialog = q.dialog
            => calls[b].version = q.version
    BY <1>3 DEF ClientInv, CallsOK, CallOK
  <1>7. CallsOK'
    BY <1>1, <1>3, <1>5, <1>6, CallsMove
  <1>8. DialogOK'
    BY <1>1, DialogRests DEF ClientInv, StoreOK
  <1>9. StoreOK'
    BY <1>1, <1>3, <1>7, Spins DEF ClientInv, StoreOK, CallsOK
  <1>10. SessionOK'
    BY <1>1 DEF ClientInv, SessionOK
  <1> QED
    BY <1>7, <1>8, <1>9, <1>10 DEF ClientInv

\* A request gets an answer, and nothing else happens.
LEMMA Answered ==
    ASSUME ClientInv, NEW c \in Calls, NEW q \in Call,
           q.pc = calls[c].pc, q.dialog = calls[c].dialog, q.pc \in {"post", "get"},
           q.pc = "post" => q.version = calls[c].version /\ q.answer # "ok",
           calls' = [calls EXCEPT ![c] = q],
           UNCHANGED <<version, commits, expired, auth, store, page, failures>>
    PROVE  ClientInv'
  <1>1. calls[c] \in Call /\ CallOK(calls[c])
    BY DEF ClientInv, CallsOK
  <1>2. CallOK(q)
    BY <1>1 DEF CallOK
  <1>3. q.pc = "post" => \A b \in Calls \ {c} :
          calls[b].pc = "post" /\ calls[b].dialog = q.dialog
            => calls[b].version = q.version
    BY DEF ClientInv, CallsOK, SameVersion
  <1>4. CallsOK'
    BY <1>2, <1>3, CallsMove DEF page
  <1>5. DialogOK'
    BY DialogRests DEF ClientInv, StoreOK, page, auth
  <1>6. StoreOK'
    <2>1. calls'[c].pc # "idle"
      BY DEF ClientInv, CallsOK
    <2> QED
      BY <1>4, <2>1, Spins DEF ClientInv, StoreOK, CallsOK, store
  <1>7. SessionOK'
    BY DEF ClientInv, SessionOK, auth
  <1> QED
    BY <1>4, <1>5, <1>6, <1>7 DEF ClientInv

\* The server commits a transition: with the version it expected, the record
\* leaves behind all requests of the dialog.
LEMMA TransitionCommitted ==
    ASSUME ClientInv, NEW c \in Calls, calls[c].pc = "post", calls[c].answer = "none",
           version = calls[c].version,
           version' = version + 1,
           commits' = [commits EXCEPT ![calls[c].dialog] = @ + 1],
           calls' = [calls EXCEPT ![c].answer = "ok"],
           UNCHANGED <<expired, auth, store, page, failures>>
    PROVE  ClientInv'
  <1>0. PICK old \in Call : old = calls[c]
    BY DEF ClientInv, CallsOK
  <1> DEFINE d == old.dialog
             q == [old EXCEPT !.answer = "ok"]
  <1>1. CallOK(old) /\ version \in Nat /\ opened \in 0..MaxDialogs
    BY <1>0 DEF ClientInv, CallsOK, StoreOK, DialogOK
  <1>2. /\ q \in Call /\ q.pc = "post" /\ q.dialog = d /\ q.version = version
        /\ calls' = [calls EXCEPT ![c] = q]
    BY <1>0 DEF Call
  <1>3. d \in 1..MaxDialogs /\ d <= opened
    BY <1>0, <1>1 DEF Call, CallOK
  <1>4. commits[d] = 0
    <2>1. commits \in [1..MaxDialogs -> 0..1]
      BY DEF ClientInv, DialogOK
    <2> QED
      BY <1>0, <1>1, <1>3, <2>1 DEF CallOK
  <1> HIDE DEF q
  <1>5. /\ commits' \in [1..MaxDialogs -> 0..1] /\ commits'[d] = 1
        /\ \A k \in 1..MaxDialogs : k # d => commits'[k] = commits[k]
    BY <1>0, <1>3, <1>4 DEF ClientInv, DialogOK
  <1>6. /\ calls' \in [Calls -> Call] /\ calls'[c] = q
        /\ \A b \in Calls \ {c} : calls'[b] = calls[b]
    BY <1>2 DEF ClientInv, CallsOK
  <1>7. UNCHANGED <<dialog, opened>>
    BY DEF page
  <1>8. ASSUME NEW p \in Call, CallOK(p), p.pc = "post" /\ p.dialog = d => p.version = version
        PROVE  CallOK(p)'
    <2>1. p.dialog \in 0..MaxDialogs /\ p.version \in Nat
      BY DEF Call
    <2>2. ASSUME p.pc = "post"
          PROVE  /\ p.dialog > 0
                 /\ commits'[p.dialog] > 0 => version + 1 > p.version
                 /\ p.answer = "ok" => commits'[p.dialog] > 0
      BY <1>1, <1>5, <1>8, <2>1, <2>2 DEF CallOK
    <2>3. p.pc = "get" /\ p.dialog > 0 => commits'[p.dialog] > 0
      BY <1>5, <1>8, <2>1 DEF CallOK
    <2> QED
      BY <1>7, <1>8, <2>2, <2>3 DEF CallOK
  <1>9. ASSUME NEW b \in Calls PROVE CallOK(calls[b])'
    <2>1. CASE b # c
      <3>1. /\ calls[b] \in Call /\ CallOK(calls[b])
            /\ calls[b].pc = "post" /\ calls[b].dialog = d => calls[b].version = version
        BY <1>0 DEF ClientInv, CallsOK, SameVersion
      <3>2. calls'[b] \in Call /\ CallOK(calls'[b])
            /\ (calls'[b].pc = "post" /\ calls'[b].dialog = d => calls'[b].version = version)
        BY <1>6, <2>1, <3>1
      <3> QED
        BY <1>8, <3>2
    <2>2. CASE b = c
      <3>1. CallOK(q)'
        <4>1. CallOK(old)'
          BY <1>0, <1>1, <1>8
        <4> QED
          BY <1>0, <1>2, <1>5, <4>1 DEF CallOK
      <3> QED
        BY <1>6, <2>2, <3>1 DEF CallOK
    <2> QED
      BY <2>1, <2>2
  <1>10. SameVersion'
    <2>1. \A b \in Calls : /\ calls'[b].pc = calls[b].pc
                           /\ calls'[b].dialog = calls[b].dialog
                           /\ calls'[b].version = calls[b].version
      BY <1>0, <1>2, <1>6
    <2> QED
      BY <2>1 DEF ClientInv, CallsOK, SameVersion
  <1>11. CallsOK'
    BY <1>6, <1>9, <1>10 DEF CallsOK
  <1>12. DialogOK'
    <2>1. ASSUME dialog # Closed
          PROVE  /\ session' = "active" /\ opened > 0 /\ dialog.number = opened
                 /\ commits'[opened] > 0 => version' > dialog.version
      <3>1. /\ session = "active" /\ opened > 0 /\ dialog.number = opened
            /\ commits[opened] > 0 => version > dialog.version
            /\ dialog.version \in Nat
        BY <2>1 DEF ClientInv, DialogOK
      <3>2. d = opened => dialog.version = version
        BY <1>0, <1>1, <3>1 DEF CallOK
      <3>3. session' = session
        BY DEF auth
      <3> QED
        BY <1>1, <1>5, <3>1, <3>2, <3>3
    <2>2. \A k \in 1..MaxDialogs : k > opened => commits'[k] = 0
      BY <1>1, <1>3, <1>5 DEF ClientInv, DialogOK
    <2> QED
      BY <1>5, <1>7, <2>1, <2>2 DEF ClientInv, DialogOK
  <1>13. StoreOK'
    <2>1. calls'[c].pc # "idle"
      BY <1>2, <1>6
    <2> QED
      BY <1>1, <1>6, <2>1, Spins DEF ClientInv, StoreOK, store
  <1>14. SessionOK'
    BY DEF ClientInv, SessionOK, auth
  <1> QED
    BY <1>11, <1>12, <1>13, <1>14 DEF ClientInv

LEMMA ServeSteps ==
    ASSUME ClientInv, NEW c \in Calls, ServePost(c) \/ ServeGet(c)
    PROVE  ClientInv'
  <1> DEFINE old == calls[c]
  <1>1. old \in Call /\ calls \in [Calls -> Call] /\ version \in Nat
    BY DEF ClientInv, CallsOK, StoreOK
  <1>2. ASSUME NEW answer \in {"refused", "unauthorized"}, Answers(c, answer),
               old.pc \in {"post", "get"},
               UNCHANGED <<version, commits, expired, auth, store, page, failures>>
        PROVE  ClientInv'
    <2> DEFINE q == [old EXCEPT !.answer = answer]
    <2>1. /\ q \in Call /\ q.pc = old.pc /\ q.dialog = old.dialog
          /\ q.version = old.version /\ q.answer = answer
      BY <1>1 DEF Call
    <2>2. calls' = [calls EXCEPT ![c] = q]
      BY <1>2 DEF Answers
    <2> HIDE DEF q
    <2> QED
      BY <1>2, <2>1, <2>2, Answered
  <1>3. CASE ServePost(c)
    <2>1. CASE ~Accepted(c)
      BY <1>2, <1>3, <2>1 DEF ServePost
    <2>2. CASE Accepted(c) /\ version # calls[c].version
      BY <1>2, <1>3, <2>2 DEF ServePost
    <2>3. CASE Accepted(c) /\ version = calls[c].version
      BY <1>3, <2>3, TransitionCommitted DEF ServePost, Answers
    <2> QED
      BY <2>1, <2>2, <2>3
  <1>4. CASE ServeGet(c)
    <2>1. CASE ~Accepted(c)
      BY <1>2, <1>4, <2>1 DEF ServeGet, server
    <2>2. CASE Accepted(c)
      <3> DEFINE q == [old EXCEPT !.answer = "ok", !.version = version]
      <3>1. q \in Call /\ q.pc = old.pc /\ q.dialog = old.dialog
        BY <1>1 DEF Call
      <3>2. calls' = [calls EXCEPT ![c] = q] /\ old.pc = "get"
        BY <1>4, <2>2 DEF ServeGet
      <3> HIDE DEF q
      <3> QED
        BY <1>4, <3>1, <3>2, Answered DEF ServeGet, server
    <2> QED
      BY <2>1, <2>2
  <1> QED
    BY <1>3, <1>4

\* The GET that follows a POST.
LEMMA PostSucceedsStep ==
    ASSUME ClientInv, NEW c \in Calls, PostSucceeds(c)
    PROVE  ClientInv'
  <1> DEFINE old == calls[c]
             q == [old EXCEPT !.pc = "get", !.token = token, !.answer = "none"]
  <1>1. /\ old.pc = "post" /\ old.answer = "ok"
        /\ calls' = [calls EXCEPT ![c] = q] /\ loading' = TRUE /\ error' = FALSE
        /\ UNCHANGED <<version, commits, expired, token, session, logins, item,
                       dialog, opened, failures>>
    BY DEF PostSucceeds, Clears, server, auth, page
  <1>2. old \in Call /\ CallOK(old)
    BY DEF ClientInv, CallsOK
  <1>3. token \in 0..MaxLogins
    BY BoundsAssumption DEF ClientInv, SessionOK
  <1>4. q \in Call /\ q.pc = "get" /\ q.dialog = old.dialog
    BY <1>2, <1>3 DEF Call
  <1> HIDE DEF q
  <1>5. CallOK(q)
    BY <1>1, <1>2, <1>4 DEF CallOK
  <1>6. CallsOK'
    BY <1>1, <1>4, <1>5, CallsMove
  <1>7. DialogOK'
    BY <1>1, DialogRests DEF ClientInv, StoreOK
  <1>8. StoreOK'
    <2>1. calls'[c].pc # "idle"
      BY <1>1, <1>4 DEF ClientInv, CallsOK
    <2> QED
      BY <1>1, <1>6, <2>1, Spins DEF ClientInv, StoreOK, CallsOK
  <1>9. SessionOK'
    BY <1>1 DEF ClientInv, SessionOK
  <1> QED
    BY <1>6, <1>7, <1>8, <1>9 DEF ClientInv

\* A call is over, one way or the other.
LEMMA ReturnStep ==
    ASSUME ClientInv, NEW c \in Calls, GetSucceeds(c) \/ Refused(c) \/ Lost(c)
    PROVE  ClientInv'
  <1>1. /\ loading' = FALSE /\ error' \in BOOLEAN
        /\ calls' = [calls EXCEPT ![c] = Idle]
        /\ dialog' = dialog \/ dialog' = Closed
        /\ UNCHANGED <<version, commits, expired, session, logins, opened>>
    BY DEF GetSucceeds, Refused, Lost, Return, Finally, Ends, server, auth, ClientInv,
       StoreOK
  <1>2. CallOK(Idle)
    BY Blanks DEF CallOK, ClientInv, DialogOK
  <1>3. CallsOK'
    BY <1>1, <1>2, Blanks, CallsMove
  <1>4. DialogOK'
    BY <1>1, DialogRests DEF ClientInv, StoreOK
  <1>5. SessionOK'
    <2>1. token' \in {token, 0}
      BY DEF GetSucceeds, Refused, Lost, auth
    <2> QED
      BY <1>1, <2>1 DEF ClientInv, SessionOK
  <1>6. StoreOK'
    <2>1. item' \in Nat
      BY DEF GetSucceeds, Refused, Lost, ClientInv, StoreOK, CallsOK, Call
    <2>2. failures' \in 0..MaxFailures
      <3>1. failures \in 0..MaxFailures /\ MaxFailures \in Nat
        BY BoundsAssumption DEF ClientInv, StoreOK
      <3>2. \/ failures' = failures
            \/ failures < MaxFailures /\ failures' = failures + 1
        BY DEF GetSucceeds, Refused, Lost
      <3> QED
        BY <3>1, <3>2
    <2> QED
      BY <1>1, <2>1, <2>2 DEF ClientInv, StoreOK
  <1> QED
    BY <1>3, <1>4, <1>5, <1>6 DEF ClientInv

LEMMA NextKeepsClient == ClientInv /\ [Next]_vars => ClientInv'
  <1> SUFFICES ASSUME ClientInv, [Next]_vars PROVE ClientInv'
    OBVIOUS
  <1>1. CASE UNCHANGED vars
    <2>1. UNCHANGED <<version, commits, expired, token, session, logins, item, loading,
                      error, dialog, opened, calls, failures>>
      BY <1>1 DEF vars, server, auth, store, page
    <2>2. CallsOK'
      BY <2>1, CallsRest DEF ClientInv, StoreOK
    <2> QED
      BY <2>1, <2>2 DEF ClientInv, DialogOK, SessionOK, StoreOK, InFlight
  <1> QED
    BY <1>1, PageSteps, ReloadStep, OpenDialogStep, StartLoadStep, ConfirmStep,
       ServeSteps, PostSucceedsStep, ReturnStep
    DEF Next, Answer

LEMMA ClientInvHolds == Spec => []ClientInv
  <1>1. Init => ClientInv
    <2> SUFFICES ASSUME Init PROVE ClientInv
      OBVIOUS
    <2>1. \A c \in Calls : calls[c] = Idle
      BY DEF Init
    <2>2. CallsOK
      BY <2>1, Blanks DEF Init, CallsOK, CallOK, SameVersion
    <2>3. DialogOK
      BY Blanks, BoundsAssumption DEF Init, DialogOK
    <2>4. SessionOK
      BY BoundsAssumption DEF Init, SessionOK
    <2>5. StoreOK
      <3>1. 0 \in 0..MaxFailures
        BY BoundsAssumption
      <3> QED
        BY <3>1 DEF Init, StoreOK
    <2> QED
      BY <2>2, <2>3, <2>4, <2>5 DEF ClientInv
  <1> QED
    BY <1>1, NextKeepsClient, PTL DEF Spec

-----------------------------------------------------------------------------
(***************************************************************************)
(* 4. What follows.                                                        *)
(***************************************************************************)

\* The variables hold what their types allow, and an ended call leaves nothing.
THEOREM ClientTypes == Spec => []TypeOK
  <1>1. ASSUME ClientInv PROVE TypeOK
    <2>1. \A c \in Calls : InFlight(c) \/ calls[c] = Idle
      BY <1>1 DEF ClientInv, CallsOK, CallOK, InFlight
    <2>2. commits \in [1..MaxDialogs -> Nat]
      BY <1>1 DEF ClientInv, DialogOK
    <2> QED
      BY <1>1, <2>1, <2>2
      DEF TypeOK, ClientInv, CallsOK, DialogOK, SessionOK, StoreOK, Call
  <1> QED
    BY <1>1, ClientInvHolds, PTL

\* What a user confirms in one dialog happens at most once.
THEOREM ConfirmedAtMostOnce == Spec => []AtMostOnce
  <1>1. ClientInv => AtMostOnce
    BY DEF ClientInv, DialogOK, AtMostOnce
  <1> QED
    BY <1>1, ClientInvHolds, PTL

\* The spinner never outlives the requests.
THEOREM SpinnerStops == Spec => []QuietWhenDone
  <1>1. ClientInv => QuietWhenDone
    BY DEF ClientInv, StoreOK, QuietWhenDone
  <1> QED
    BY <1>1, ClientInvHolds, PTL

\* A tab without a session has no token.
THEOREM SignedOutForGood == Spec => []SignedOut
  <1>1. ClientInv => SignedOut
    BY DEF ClientInv, SessionOK, SignedOut
  <1> QED
    BY <1>1, ClientInvHolds, PTL

\* A dialog opened while no other transition was in flight is closed by the
\* page only when its transition has been committed.
THEOREM ClosedByItsCommit == Spec => ClosesOnCommit
  <1> DEFINE Closing ==
        dialog # Closed /\ dialog' = Closed /\ calls' # calls /\ session' = session
        /\ dialog.alone => commits[dialog.number] = 1
  <1>1. ASSUME ClientInv, Next, dialog # Closed, dialog' = Closed, calls' # calls,
               session' = session, dialog.alone
        PROVE  commits[dialog.number] = 1
    <2>1. /\ session = "active" /\ opened > 0 /\ dialog.number = opened
          /\ opened \in 0..MaxDialogs
      BY <1>1 DEF ClientInv, DialogOK
    <2>2. ASSUME NEW c \in Calls, GetSucceeds(c) PROVE commits[dialog.number] > 0
      <3>1. calls[c].pc = "get" /\ calls[c].dialog # 0
        BY <1>1, <2>2 DEF GetSucceeds, Return, CloseIfNoError
      <3>2. calls[c] \in Call /\ CallOK(calls[c])
        BY <1>1 DEF ClientInv, CallsOK
      <3>3. calls[c].dialog > 0
        BY <3>1, <3>2 DEF Call
      <3> QED
        BY <1>1, <3>1, <3>2, <3>3 DEF CallOK
    <2>3. ASSUME NEW c \in Calls, Refused(c) \/ Lost(c) PROVE FALSE
      BY <1>1, <2>3 DEF Refused, Lost, Return, CloseIfNoError
    <2>4. ASSUME Reload PROVE FALSE
      BY <1>1, <2>1, <2>4 DEF Reload
    <2>5. ASSUME NEW c \in Calls,
                 StartLoad(c) \/ Confirm(c) \/ ServePost(c) \/ ServeGet(c) \/ PostSucceeds(c)
          PROVE  FALSE
      BY <1>1, <2>5 DEF StartLoad, Confirm, ServePost, ServeGet, PostSucceeds, page
    <2>6. ASSUME \/ Login \/ Logout \/ Bootstrap \/ BootstrapFails \/ Expire
                 \/ OpenDialog \/ Cancel \/ DismissError \/ OtherUser
          PROVE  FALSE
      BY <1>1, <2>6 DEF Login, Logout, Bootstrap, BootstrapFails, Expire, OpenDialog,
         Cancel, DismissError, OtherUser
    <2>7. commits[dialog.number] > 0
      BY <1>1, <2>2, <2>3, <2>4, <2>5, <2>6 DEF Next, Answer
    <2>8. commits[dialog.number] \in 0..1
      BY <1>1, <2>1 DEF ClientInv, DialogOK
    <2> QED
      BY <2>7, <2>8
  <1>2. ClientInv /\ [Next]_vars => [Closing]_vars
    BY <1>1
  <1> QED
    BY <1>2, ClientInvHolds, PTL DEF Spec, ClosesOnCommit

=============================================================================
