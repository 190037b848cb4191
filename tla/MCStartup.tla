----------------------------- MODULE MCStartup -----------------------------
\* Startup with environments at the edges of what Validate accepts.
EXTENDS Startup

Password(text, length) == [text |-> text, length |-> length]

Separate == [ admin |-> Password("first password", 14),
              operator |-> Password("second password", 15),
              reviewer |-> Password("third password", 14) ]

Defaults == [ r \in Roles |-> Password("Admin123!", 9) ]

Production ==
    [ production |-> TRUE, supportedDriver |-> TRUE, secretLength |-> 32,
      placeholderSecret |-> FALSE, passwords |-> Separate,
      requestLimit |-> 10, loginRequestLimit |-> 1 ]

\* Limits that cannot be parsed, and the default passwords and secret.
Development ==
    [Production EXCEPT !.production = FALSE, !.secretLength = 26,
        !.placeholderSecret = TRUE, !.passwords = Defaults,
        !.requestLimit = 0, !.loginRequestLimit = -1]

\* Two roles share a password.
Shared == [Production EXCEPT !.passwords["reviewer"] = Separate["admin"]]

\* A limit and a secret just outside what is accepted.
LimitTooLarge == [Development EXCEPT !.requestLimit = 100001]
SecretTooShort == [Production EXCEPT !.secretLength = 31]

\* A password that is long enough for Validate and too long for bcrypt.
PasswordTooLong == [Production EXCEPT !.passwords["reviewer"].length = 73]

MCEnvironments ==
    {Production, Development, Shared, LimitTooLarge, SecretTooShort, PasswordTooLong}

=============================================================================
