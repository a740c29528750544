------------------------------- MODULE Gateway --------------------------------
(***************************************************************************)
(* The request path of the gateway for one service: the middleware chain   *)
(* (Pipeline), the route handlers of Gateway (src/unnamed/part_002),       *)
(* proxyRequest through the service's circuit breaker (CircuitBreaker),    *)
(* ReverseProxy.ServeHTTP and handleProxyError (src/unnamed/part_001) over *)
(* the service's balancer (LoadBalancer), and the admin handlers that      *)
(* change the ProxyManager and the rate limiter while traffic flows.       *)
(*                                                                         *)
(* Each r in Reqs is one request goroutine, served once.  Its steps:       *)
(* arrive with a route, credential and method from Kinds; one step per     *)
(* chain stage; the handler; for the proxy route the breaker's             *)
(* beforeRequest, NextTarget, the upstream outcome, handleProxyError, and  *)
(* the breaker's afterRequest.                                             *)
(*                                                                         *)
(* The rate limiter is abstracted to a count per key against Limit: the    *)
(* algorithms themselves are the subject of RateLimiter.  UpdateService    *)
(* builds a new ReverseProxy and balancer; a request that looked up the    *)
(* old proxy keeps using it, and the old balancer's state is not tracked:  *)
(* its choices are free and its health marks are lost with it.            *)
(***************************************************************************)
EXTENDS Integers, Pipeline

CONSTANTS
    Reqs, FailureThreshold, HalfOpenRequests, RecoveryTimeout, MaxTime,
    MaxCalls,               \* the breaker's constants (CircuitBreaker)
    N, WeightsArg, Configured, MaxSelections,
                            \* the balancer's constants (LoadBalancer)
    Kinds,          \* the requests explored: [route, cred, method] records
    Limit,          \* the rate-limit quota per key
    StoreErrors,    \* whether CheckLimit can return an error (distributed)
    BreakerEnabled, \* serviceConfig.CircuitBreaker.Enabled
    UpstreamTimeout,\* serviceConfig.Timeout > 0 (TimeoutHandler in ServeHTTP)
    Outcomes        \* upstream behaviours explored

ASSUME Kinds \subseteq [route : Routes, cred : Creds, method : Methods]
ASSUME Outcomes \subseteq {"ok", "refused", "slow", "cut"}
ASSUME Limit \in Nat /\ {StoreErrors, BreakerEnabled, UpstreamTimeout} \subseteq BOOLEAN

VARIABLES
    cb, now, pc, reqGen, calls, hoStint, probeOf, probeOk, consecFails,
                    \* the service's breaker (CircuitBreaker)
    policy, current, cw, conns, healthy, lpc, pick, selections,
                    \* the service's current balancer (LoadBalancer)
    req,            \* per request: its progress, see Request below
    quota,          \* the limiter's count per key
    present,        \* ProxyManager.proxies holds the service
    epoch,          \* which ReverseProxy the map holds (bumped by updates)
    upFails         \* history: upstream failures in a row while Closed

cbVars == <<cb, now, pc, reqGen, calls, hoStint, probeOf, probeOk, consecFails>>
lbVars == <<policy, current, cw, conns, healthy, lpc, pick, selections>>
vars == <<cbVars, lbVars, req, quota, present, epoch, upFails>>

CB == INSTANCE CircuitBreaker
\* No gateway code calls ReleaseConnection, so no release is ever made.
LB == INSTANCE LoadBalancer WITH Callers <- Reqs, releases <- 0, MaxReleases <- 0

Nil == LB!Nil
LeastConn == "least_connections"

\* RateLimit's key: the user id when claims are in the context, else the
\* client IP.
Keys == {"ip", "user"}
RateLimitKey(claims) == IF claims THEN "user" ELSE "ip"

NoKind == [route |-> "health", cred |-> "none", method |-> "GET"]

Phases == {"new", "chain", "breaker", "select", "forward", "mark",
           "complete", "done"}

\* A request that has not arrived yet.
Fresh == [phase |-> "new", kind |-> NoKind, stages |-> <<>>, claims |-> FALSE,
          checks |-> 0, reached |-> FALSE, status |-> 0, epoch |-> 0,
          target |-> Nil, outcome |-> "none", ok |-> TRUE,
          mark |-> Nil]

Route(r) == req[r].kind.route

\* Outcomes that spec 4.5 counts as failures: a transport error, an expired
\* deadline, a body cut short.
UpstreamFailures == {"refused", "slow", "cut"}

\* Ends request r with a response code.
Answer(r, code) ==
    req' = [req EXCEPT ![r].phase = "done", ![r].status = code,
                       ![r].stages = <<>>]

\* Moves r past the stage at the head of its chain.
Pass(r) == req' = [req EXCEPT ![r].stages = Tail(@)]

AtStage(r, s) ==
    /\ req[r].phase = "chain"
    /\ req[r].stages # <<>> /\ Head(req[r].stages) = s

\* circuitManager.breakers after initializeServices: CreateBreaker ran for
\* the service when its config enables a breaker.  Nothing calls
\* RemoveBreaker, and updateService never creates one, so the registry is
\* fixed from startup on.
Breakers == IF BreakerEnabled THEN {"service"} ELSE {}

\* Manager.GetBreaker(name) # nil.
GetBreaker(name) == name \in Breakers

\* The handler of r runs: its chain is done.
AtHandler(r, routes) ==
    /\ req[r].phase = "chain" /\ req[r].stages = <<>>
    /\ Route(r) \in routes

\* r still uses the ReverseProxy the map holds now.
Live(r) == req[r].epoch = epoch

-----------------------------------------------------------------------------

Init ==
    /\ CB!Init
    /\ LB!Init
    /\ req = [r \in Reqs |-> Fresh]
    /\ quota = [k \in Keys |-> 0]
    /\ present = TRUE
    /\ epoch = 0
    /\ upFails = 0

\* A request reaches the engine: the default chain and its group's chain.
Arrive(r) ==
    /\ req[r].phase = "new"
    /\ \E k \in Kinds :
         req' = [req EXCEPT ![r].phase = "chain", ![r].kind = k,
                            ![r].stages = RouteChain(k.route)]
    /\ UNCHANGED <<cbVars, lbVars, quota, present, epoch, upFails>>

\* CORS: a preflight is answered 204 and aborts the chain.
CORSStage(r) ==
    /\ AtStage(r, "cors")
    /\ IF req[r].kind.method = "OPTIONS" THEN Answer(r, 204) ELSE Pass(r)
    /\ UNCHANGED <<cbVars, lbVars, quota, present, epoch, upFails>>

\* A variant of RateLimitStage whose limiter counts a denied request too.
RateLimitStageCountsDenied(r) ==
    /\ AtStage(r, "ratelimit")
    /\ LET k == RateLimitKey(req[r].claims)
           counted == [req EXCEPT ![r].checks = @ + 1]
       IN \/ /\ quota[k] < Limit
             /\ quota' = [quota EXCEPT ![k] = @ + 1]
             /\ req' = [counted EXCEPT ![r].stages = Tail(@)]
          \/ /\ quota[k] >= Limit
             /\ req' = [counted EXCEPT ![r].phase = "done", ![r].status = 429,
                                       ![r].stages = <<>>]
             /\ quota' = [quota EXCEPT ![k] = @ + 1]
    /\ UNCHANGED <<cbVars, lbVars, present, epoch, upFails>>

\* RateLimit: Manager.CheckLimit(key); an error answers 500, a denial 429.
RateLimitStage(r) ==
    /\ AtStage(r, "ratelimit")
    /\ LET k == RateLimitKey(req[r].claims)
           counted == [req EXCEPT ![r].checks = @ + 1]
       IN \/ /\ quota[k] < Limit
             /\ quota' = [quota EXCEPT ![k] = @ + 1]
             /\ req' = [counted EXCEPT ![r].stages = Tail(@)]
          \/ /\ quota[k] >= Limit
             /\ req' = [counted EXCEPT ![r].phase = "done", ![r].status = 429,
                                       ![r].stages = <<>>]
             /\ UNCHANGED quota
          \/ /\ StoreErrors
             /\ req' = [counted EXCEPT ![r].phase = "done", ![r].status = 500,
                                       ![r].stages = <<>>]
             /\ UNCHANGED quota
    /\ UNCHANGED <<cbVars, lbVars, present, epoch, upFails>>

\* JWTAuth: a missing or malformed header, or a token that does not
\* validate, answers 401; otherwise the claims go into the context.
JWTStage(r) ==
    /\ AtStage(r, "jwt")
    /\ IF ValidToken(req[r].kind.cred)
       THEN req' = [req EXCEPT ![r].claims = TRUE, ![r].stages = Tail(@)]
       ELSE Answer(r, 401)
    /\ UNCHANGED <<cbVars, lbVars, quota, present, epoch, upFails>>

\* RequireRole("admin"): 401 without claims, 403 without the role.
RoleStage(r) ==
    /\ AtStage(r, "role")
    /\ CASE ~req[r].claims                    -> Answer(r, 401)
         [] ~HasAdminRole(req[r].kind.cred)   -> Answer(r, 403)
         [] OTHER                             -> Pass(r)
    /\ UNCHANGED <<cbVars, lbVars, quota, present, epoch, upFails>>

\* Marks that r's route handler ran and answers it.
Handled(r, code) ==
    req' = [req EXCEPT ![r].reached = TRUE, ![r].phase = "done",
                       ![r].status = code]

\* healthCheck: getServiceHealth asks IsOpen of the breaker of every
\* service in the proxy map; State() takes the lazy transitions.
HealthHandler(r) ==
    /\ AtHandler(r, PublicRoutes)
    /\ Handled(r, 200)
    /\ IF GetBreaker("service") /\ present THEN CB!StateQuery ELSE UNCHANGED cbVars
    /\ UNCHANGED <<lbVars, quota, present, epoch, upFails>>

\* getUserProfile answers 200.  refreshToken asks RefreshToken, which
\* validates the token again and refuses (401) one that is not yet within
\* the refresh window of its expiry.  No state of the model changes.
TokenHandler(r) ==
    /\ AtHandler(r, RefreshRoutes \cup ApiRoutes)
    /\ \E code \in IF Route(r) \in RefreshRoutes THEN {200, 401} ELSE {200} :
         Handled(r, code)
    /\ UNCHANGED <<cbVars, lbVars, quota, present, epoch, upFails>>

\* updateService -> ProxyManager.UpdateService: NewReverseProxy builds a
\* fresh balancer of the kind the body names, stored in the map.  A body
\* that does not bind answers 400, a config NewReverseProxy refuses 500.
UpdateService(r) ==
    /\ AtHandler(r, {"update_service"})
    /\ \/ /\ Handled(r, 200)
          /\ LB!Fresh /\ policy' \in Configured
          /\ present' = TRUE
          /\ epoch' = epoch + 1
       \/ /\ \E code \in {400, 500} : Handled(r, code)
          /\ UNCHANGED <<lbVars, present, epoch>>
    /\ UNCHANGED <<cbVars, quota, upFails>>

\* deleteService -> ProxyManager.RemoveService; the breaker stays.
DeleteService(r) ==
    /\ AtHandler(r, {"delete_service"})
    /\ Handled(r, 200)
    /\ present' = FALSE
    /\ UNCHANGED <<cbVars, lbVars, quota, epoch, upFails>>

\* resetRateLimit -> Manager.Reset(key) for the key in the path; a store
\* error answers 500.
ResetLimit(r) ==
    /\ AtHandler(r, {"reset_limit"})
    /\ \/ Handled(r, 200) /\ \E k \in Keys : quota' = [quota EXCEPT ![k] = 0]
       \/ StoreErrors /\ Handled(r, 500) /\ UNCHANGED quota
    /\ UNCHANGED <<cbVars, lbVars, present, epoch, upFails>>

\* getCircuitBreakers -> Manager.GetAllStates: State() of every breaker in
\* the registry, which takes its lazy transitions.
GetAllStates ==
    IF Breakers # {} THEN CB!StateQuery ELSE UNCHANGED cbVars

BreakerStatsHandler(r) ==
    /\ AtHandler(r, {"breaker_stats"})
    /\ Handled(r, 200)
    /\ GetAllStates
    /\ UNCHANGED <<lbVars, quota, present, epoch, upFails>>

\* Manager.ResetBreaker(name): an error for a name the registry does not
\* hold; otherwise it logs the request and returns nil, leaving the
\* breaker as it is (gobreaker has no reset).
ResetBreakerFails(name) == ~GetBreaker(name)

\* resetCircuitBreaker: 404 when ResetBreaker fails, else 200.
ResetBreakerHandler(r) ==
    /\ AtHandler(r, {"reset_breaker"})
    /\ Handled(r, IF ResetBreakerFails("service") THEN 404 ELSE 200)
    /\ UNCHANGED <<cbVars, lbVars, quota, present, epoch, upFails>>

\* proxyRequest: GetProxy (404 when absent), then Call on the breaker when
\* the service has one, else ServeHTTP directly.
ProxyLookup(r) ==
    /\ AtHandler(r, ProxyRoutes)
    /\ IF present
       THEN req' = [req EXCEPT ![r].reached = TRUE, ![r].epoch = epoch,
                               ![r].phase = IF GetBreaker("service") THEN "breaker"
                                                              ELSE "select"]
       ELSE req' = [req EXCEPT ![r].reached = TRUE, ![r].phase = "done",
                               ![r].status = 404]
    /\ UNCHANGED <<cbVars, lbVars, quota, present, epoch, upFails>>

\* beforeRequest admits r, or rejects it and proxyRequest answers 503.
BreakerStep(r) ==
    /\ req[r].phase = "breaker"
    /\ \/ CB!Admit(r) /\ req' = [req EXCEPT ![r].phase = "select"]
       \/ (CB!RejectOpen(r) \/ CB!RejectTooMany(r)) /\ Answer(r, 503)
    /\ UNCHANGED <<lbVars, quota, present, epoch, upFails>>

\* ServeHTTP after NextTarget returned t: nil answers 503 and the function
\* given to Call returns nil.
TakeTarget(r, t) ==
    IF t = Nil
    THEN req' = [req EXCEPT ![r].target = t, ![r].status = 503,
                            ![r].phase = "complete"]
    ELSE req' = [req EXCEPT ![r].target = t, ![r].phase = "forward"]

\* NextTarget on the balancer the map holds.  Least connections scans and
\* increments in two steps; the request waits between them.
SelectLive(r) ==
    /\ req[r].phase = "select" /\ Live(r)
    /\ \/ LB!RoundRobinNext(r) \/ LB!WeightedNext(r) \/ LB!RandomNext(r)
       \/ LB!LeastConnScan(r) \/ LB!LeastConnAdd(r)
    /\ IF lpc'[r] = "scanned" THEN UNCHANGED req
       ELSE TakeTarget(r, Last(selections'))
    /\ UNCHANGED <<cbVars, quota, present, epoch, upFails>>

\* NextTarget on a balancer an update has replaced.
SelectStale(r) ==
    /\ req[r].phase = "select" /\ ~Live(r)
    /\ \E t \in LB!Idx \cup {Nil} : TakeTarget(r, t)
    /\ UNCHANGED <<cbVars, lbVars, quota, present, epoch, upFails>>

\* httputil.ReverseProxy forwards to the target.  A refused connection
\* calls handleProxyError (502).  A slow upstream under TimeoutHandler gets
\* 503 from the timeout handler, and the canceled proxy calls
\* handleProxyError later; without TimeoutHandler the dial timeout of the
\* transport reaches handleProxyError as a net.Error timeout (504).  An
\* upstream that drops the connection while its body is copied makes the
\* ReverseProxy panic with http.ErrAbortHandler: gobreaker's Execute
\* records a failure and re-panics (TimeoutHandler passes the panic on), and
\* Recovery answers 500.
Forward(r) ==
    /\ req[r].phase = "forward"
    /\ \E o \in Outcomes :
         LET t == req[r].target
             late == o = "slow" /\ UpstreamTimeout
         IN req' = [req EXCEPT ![r].outcome = o, ![r].ok = (o # "cut"),
                     ![r].status = CASE o = "ok"      -> 200
                                     [] o = "refused" -> 502
                                     [] late          -> 503
                                     [] o = "cut"     -> 500
                                     [] OTHER         -> 504,
                     ![r].mark = IF late THEN t ELSE Nil,
                     ![r].phase = IF o \in {"ok", "cut"} \/ late THEN "complete" ELSE "mark"]
    /\ UNCHANGED <<cbVars, lbVars, quota, present, epoch, upFails>>

\* A variant of MarkTarget that marks the balancer the map holds now.
MarkTargetAnyBalancer(r, t) ==
    IF policy = LeastConn /\ healthy[t]
    THEN LB!MarkUnhealthy(t)
    ELSE UNCHANGED lbVars

\* handleProxyError's MarkUnhealthy, for a balancer that is a HealthChecker
\* (least connections) and is still the one in the map; it takes the write
\* lock, so it waits for scans in progress.
MarkTarget(r, t) ==
    IF Live(r) /\ policy = LeastConn /\ healthy[t]
    THEN LB!MarkUnhealthy(t)
    ELSE UNCHANGED lbVars

HandleProxyError(r) ==
    /\ req[r].phase = "mark"
    /\ MarkTarget(r, req[r].target)
    /\ req' = [req EXCEPT ![r].phase = "complete"]
    /\ UNCHANGED <<cbVars, quota, present, epoch, upFails>>

\* The error handler of a request that TimeoutHandler has already answered.
LateProxyError(r) ==
    /\ req[r].mark # Nil
    /\ MarkTarget(r, req[r].mark)
    /\ req' = [req EXCEPT ![r].mark = Nil]
    /\ UNCHANGED <<cbVars, quota, present, epoch, upFails>>

\* The function given to Call returns nil whatever ServeHTTP wrote, so
\* afterRequest records a success unless ServeHTTP panicked.  upFails counts the upstream failures
\* that completed in a row since the breaker was last seen Closed.
Finish(r) ==
    /\ req[r].phase = "complete"
    /\ IF GetBreaker("service") THEN CB!CompleteWith(r, req[r].ok) ELSE UNCHANGED cbVars
    /\ req' = [req EXCEPT ![r].phase = "done"]
    /\ upFails' = IF GetBreaker("service") /\ cb'.state # CB!Closed THEN 0
                  ELSE IF req[r].outcome \in UpstreamFailures
                       THEN upFails + 1 ELSE 0
    /\ UNCHANGED <<lbVars, quota, present, epoch>>

\* The clock of the breaker.
Tick ==
    /\ CB!Tick
    /\ UNCHANGED <<lbVars, req, quota, present, epoch, upFails>>

RequestStep(r) ==
    \/ Arrive(r) \/ CORSStage(r) \/ RateLimitStage(r) \/ JWTStage(r)
    \/ RoleStage(r) \/ HealthHandler(r) \/ TokenHandler(r)
    \/ UpdateService(r) \/ DeleteService(r) \/ ResetLimit(r)
    \/ BreakerStatsHandler(r) \/ ResetBreakerHandler(r)
    \/ ProxyLookup(r) \/ BreakerStep(r) \/ SelectLive(r) \/ SelectStale(r)
    \/ Forward(r) \/ HandleProxyError(r) \/ LateProxyError(r) \/ Finish(r)

Next == Tick \/ \E r \in Reqs : RequestStep(r)

Spec == Init /\ [][Next]_vars

-----------------------------------------------------------------------------

TypeOK ==
    /\ CB!TypeOK
    /\ LB!TypeOK
    /\ req \in [Reqs -> [phase : Phases, kind : Kinds \cup {NoKind},
                         stages : Seq({"cors", "ratelimit", "jwt", "role"}),
                         claims : BOOLEAN, checks : Nat, reached : BOOLEAN,
                         status : {0, 200, 204, 400, 401, 403, 404, 429, 500,
                                   502, 503, 504},
                         epoch : Nat, target : LB!Idx \cup {Nil},
                         outcome : Outcomes \cup {"none"},
                         ok : BOOLEAN, mark : LB!Idx \cup {Nil}]]
    /\ quota \in [Keys -> 0..Limit]
    /\ present \in BOOLEAN /\ epoch \in Nat /\ upFails \in Nat

\* The handler of a route in the /auth, /api or /admin groups runs only for
\* a caller whose token validated, and an /admin handler only for a caller
\* with the admin role (SetupRoutes with CreateAuthChain/CreateAdminChain;
\* spec 4.1: identity on protected routes, role check on admin routes).
AuthGate ==
    \A r \in Reqs :
        req[r].reached /\ Route(r) \in AuthenticatedRoutes =>
            /\ ValidToken(req[r].kind.cred)
            /\ (Route(r) \in AdminRoutes => HasAdminRole(req[r].kind.cred))

\* A target of the balancer the map holds is unhealthy only because a
\* request this balancer sent to it failed: handleProxyError marks the
\* target captured by its own ServeHTTP call, on its own balancer, so a
\* failure seen through a replaced proxy never marks a target of the new one.
UnhealthyOnlyAfterFailure ==
    \A t \in LB!Idx :
        ~healthy[t] =>
            \E r \in Reqs : /\ req[r].epoch = epoch /\ req[r].target = t
                            /\ req[r].outcome \in {"refused", "slow"}

\* ServeHTTP answers 503 "No available targets" from the balancer the map
\* holds only when every target is marked unhealthy (spec: all upstreams
\* unhealthy gives 503), whatever the concurrent marks and scans do.
NoSpurious503 ==
    [][\A r \in Reqs :
         req[r].phase = "select" /\ Live(r) /\ req'[r].phase = "complete"
           /\ req'[r].target = Nil
           => \A t \in LB!Idx : ~healthy[t]]_vars

\* Each request passes the RateLimit stage at most once (spec 4.1: the
\* stage order is fixed and each stage runs once per request); SetupRoutes
\* installs the default chain on the engine and again in the /api and
\* /admin groups.
RateLimitOncePerRequest == \A r \in Reqs : req[r].checks <= 1

\* A reset the admin API answers 200 leaves the service's breaker Closed
\* (spec 9, open question on ResetBreaker: the spec mandates a true reset,
\* state Closed and counters zeroed); resetCircuitBreaker answers 200
\* whenever the registry holds the breaker.
ResetClosesBreaker ==
    [][\A r \in Reqs :
         req[r].phase = "chain" /\ req'[r].status = 200
           /\ Route(r) = "reset_breaker"
           => cb'.state = CB!Closed]_vars

\* After FailureThreshold upstream failures in a row while the breaker is
\* Closed, the breaker is no longer Closed (spec 4.5: a failure is a status
\* >= 500, a transport error or an expired deadline).  proxyRequest's
\* function given to Call returns nil whatever ServeHTTP wrote.
BreakerSeesFailures ==
    BreakerEnabled => (upFails >= FailureThreshold => cb.state # CB!Closed)

=============================================================================
