------------------------------ MODULE MC_Gateway ------------------------------
(* Gateway with two concurrent requests, one service with two targets.    *)
EXTENDS Gateway, TLC

CONSTANTS r1, r2, r3

MC_Reqs == {r1, r2, r3}

MC_Weights == <<2, 1>>

K(route, cred, method) == [route |-> route, cred |-> cred, method |-> method]

\* The requests explored: the proxy route anonymously and as a preflight,
\* the admin routes (the breaker's stats and reset included) as admin, one
\* as a mere user, token refresh with and without a valid token, and the
\* health check.  The profile route shares refresh's handler action.
MC_Kinds ==
    { K("proxy", "none", "GET"), K("proxy", "none", "OPTIONS"),
      K("update_service", "admin", "GET"), K("delete_service", "admin", "GET"),
      K("reset_limit", "admin", "GET"), K("reset_limit", "user", "GET"),
      K("breaker_stats", "admin", "GET"), K("reset_breaker", "admin", "GET"),
      K("refresh", "none", "GET"), K("refresh", "user", "GET"),
      K("health", "none", "GET") }

ReqSymmetry == Permutations(MC_Reqs)

=============================================================================
