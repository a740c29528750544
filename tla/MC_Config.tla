------------------------------ MODULE MC_Config ------------------------------
(* Config with two concurrent admin reloads and four kinds of file:       *)
(* defaults only, every key set, an invalid port, and an unparsable file. *)
EXTENDS Config

CONSTANTS a1, a2

MC_Admins == {a1, a2}

\* Only the secret set: every other key takes setDefaults' value.
DefaultsFile == [port |-> Unset, secret |-> "s1", rlEnabled |-> Unset,
                 requests |-> Unset, expiry |-> Unset]

\* Every key set; rate limiting off, so requests 0 passes validateConfig.
TunedFile == [port |-> 8080, secret |-> "s2", rlEnabled |-> FALSE,
              requests |-> 0, expiry |-> 30]

\* server.port: 0 fails validateConfig.
BadPortFile == [port |-> 0, secret |-> "s1", rlEnabled |-> Unset,
                requests |-> Unset, expiry |-> Unset]

MC_Contents == {DefaultsFile, TunedFile, BadPortFile, Broken}

=============================================================================
