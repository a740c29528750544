------------------------------- MODULE Pipeline -------------------------------
(***************************************************************************)
(* The middleware chains of the gateway (src/internal/middleware/chain.go) *)
(* and how Gateway.SetupRoutes (src/unnamed/part_002) installs them.       *)
(*                                                                         *)
(* A chain is the sequence of stages a request passes before its handler. *)
(* RequestID, Logger, Recovery and Metrics keep no state the model tells   *)
(* apart, so only the stages that can end a request or touch shared state  *)
(* appear: CORS (preflight), RateLimit, JWTAuth and RequireRole("admin").  *)
(*                                                                         *)
(* The default chain is installed on the engine (every route, NoRoute      *)
(* included) and built again inside the /admin and /api groups.  /auth     *)
(* /refresh and /auth/logout get only the last handler of the auth chain.  *)
(***************************************************************************)
EXTENDS SequencesExt

CONSTANTS
    CORSEnabled,      \* config.Server.CORS.Enabled
    RateLimitEnabled  \* config.RateLimit.Enabled

ASSUME CORSEnabled \in BOOLEAN /\ RateLimitEnabled \in BOOLEAN

\* The routes explored: one per kind of handler.
PublicRoutes    == {"health"}
RefreshRoutes   == {"refresh"}
ApiRoutes       == {"profile"}
AdminRoutes     == {"update_service", "delete_service", "reset_limit",
                    "breaker_stats", "reset_breaker"}
ProxyRoutes     == {"proxy"}
Routes == PublicRoutes \cup RefreshRoutes \cup ApiRoutes \cup AdminRoutes
            \cup ProxyRoutes

\* Routes whose handler needs a caller with a valid token, and the admin role.
AuthenticatedRoutes == RefreshRoutes \cup ApiRoutes \cup AdminRoutes

\* The Authorization header of a request: absent, not "Bearer <token>", a
\* token that fails ValidateToken (bad signature, expired), or a valid
\* token whose claims carry the roles {"user"} or {"admin", "user"}.
Creds == {"none", "malformed", "invalid", "user", "admin"}

Methods == {"GET", "OPTIONS"}

\* CreateDefaultChain.
DefaultChain ==
    (IF CORSEnabled THEN <<"cors">> ELSE <<>>)
      \o (IF RateLimitEnabled THEN <<"ratelimit">> ELSE <<>>)

\* CreateAuthChain and CreateAdminChain.
AuthChain  == DefaultChain \o <<"jwt">>
AdminChain == DefaultChain \o <<"jwt", "role">>

\* A variant of GroupChain that takes the first handler of the auth chain
\* for /auth/refresh instead of the last.
GroupChainFirst(route) ==
    CASE route \in AdminRoutes   -> AdminChain
      [] route \in ApiRoutes     -> AuthChain
      [] route \in RefreshRoutes -> <<Head(AuthChain)>>
      [] OTHER                   -> <<>>

\* The handlers a route group adds in front of the route's handler.
GroupChain(route) ==
    CASE route \in AdminRoutes   -> AdminChain
      [] route \in ApiRoutes     -> AuthChain
      [] route \in RefreshRoutes -> <<Last(AuthChain)>>
      [] OTHER                   -> <<>>

\* SetupRoutes: the engine's default chain, then the group's handlers.
RouteChain(route) == DefaultChain \o GroupChain(route)

\* ExtractTokenFromHeader and ValidateToken both succeed.
ValidToken(cred) == cred \in {"user", "admin"}

\* JWTAuth.HasRole(claims, "admin").
HasAdminRole(cred) == cred = "admin"

=============================================================================
