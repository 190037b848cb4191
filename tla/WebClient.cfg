\* Two overlapping calls, two dialogs and two logins.
SPECIFICATION Spec
CONSTANTS
    Calls = {a1, a2}
    MaxVersion = 3
    MaxDialogs = 2
    MaxLogins = 2
    MaxFailures = 1
INVARIANTS
    TypeOK
    AtMostOnce
    QuietWhenDone
    SignedOut
PROPERTIES
    ClosesOnCommit
    EventuallyFresh
CHECK_DEADLOCK FALSE
