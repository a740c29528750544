----------------------------- MODULE LoadBalancer -----------------------------
(***************************************************************************)
(* The load balancers of package loadbalancer (src/Makefile, 536-931) for  *)
(* one service: RoundRobin, WeightedRoundRobin, Random and                 *)
(* LeastConnections, chosen by the service's LoadBalancer setting as in    *)
(* NewReverseProxy (fixed at Init).  Targets are the indices 1..N of the   *)
(* service's URL list, in configuration order.                             *)
(*                                                                         *)
(* RoundRobin, WeightedRoundRobin and Random select in one step (an atomic *)
(* add, or the whole NextTarget under the write lock).  LeastConnections   *)
(* holds only the read lock in NextTarget, so callers scan concurrently:   *)
(* the scan and the atomic increment are two steps, and MarkUnhealthy /    *)
(* MarkHealthy (write lock) cannot run while any caller is between them.   *)
(* ReleaseConnection also holds only the read lock: its test              *)
(* t.Connections > 0 and its atomic decrement are two steps, so two        *)
(* releases of the same target can both pass the test.                     *)
(*                                                                         *)
(* The history `selections` lists NextTarget's results in order (0 = nil). *)
(***************************************************************************)
EXTENDS Integers, FiniteSets, SequencesExt

CONSTANTS
    N,              \* len(targets)
    WeightsArg,     \* the weights slice given to NewWeightedRoundRobin
    Configured,     \* the ServiceConfig.LoadBalancer values explored
    Callers,        \* goroutines calling NextTarget
    MaxSelections,  \* bound: NextTarget calls explored
    MaxReleases     \* bound: ReleaseConnection calls explored

Policies == {"round_robin", "weighted_round_robin", "least_connections", "random"}

ASSUME N \in Nat /\ WeightsArg \in Seq(Int) /\ Configured \subseteq Policies
ASSUME MaxSelections \in Nat /\ MaxReleases \in Nat

Idx == 1..N
Nil == 0

\* NewWeightedRoundRobin: weights[i] if given and positive, else 1.
Weights == [i \in Idx |-> IF i <= Len(WeightsArg) /\ WeightsArg[i] > 0
                          THEN WeightsArg[i] ELSE 1]

VARIABLES
    policy,     \* the balancer NewReverseProxy built
    current,    \* RoundRobin.current (atomic uint64)
    cw,         \* WeightedTarget.CurrentWeight per target
    conns,      \* ConnectionTarget.Connections per target
    healthy,    \* ConnectionTarget.Healthy per target
    lpc,        \* per caller: "idle", "scanned" (inside LC NextTarget) or
                \* "released" (inside ReleaseConnection, past its test)
    pick,       \* per caller: the target its LC scan selected or it releases
    selections, \* history: NextTarget results, in order
    releases    \* ReleaseConnection calls made (for the bound only)

vars == <<policy, current, cw, conns, healthy, lpc, pick, selections, releases>>

-----------------------------------------------------------------------------

\* RoundRobin.NextTarget: atomic.AddUint64(&rr.current, 1) % len(targets),
\* as a 1-based index.  The counter never wraps within the explored bound.
RoundRobinIndex(c) == ((c + 1) % N) + 1

TotalWeight == SumFunctionOnSet(Weights, Idx)

\* The smooth weighted choice: add each weight to its current weight, take
\* the first target with the highest one (strict >), subtract the total.
WeightedAdded(w) == [i \in Idx |-> w[i] + Weights[i]]

FirstMax(w) == CHOOSE i \in Idx : /\ \A j \in Idx : w[j] <= w[i]
                                  /\ \A j \in 1..(i - 1) : w[j] < w[i]

\* A variant of WeightedNextState that forgets to subtract the total weight.
WeightedNextStateNoSubtract(w) == WeightedAdded(w)

WeightedNextState(w) ==
    LET a == WeightedAdded(w)
    IN [a EXCEPT ![FirstMax(a)] = @ - TotalWeight]

\* A variant of LeastConnChoice that does not skip unhealthy targets.
LeastConnChoiceIgnoringHealth(c, h) ==
    IF N = 0 THEN Nil
    ELSE CHOOSE i \in Idx : /\ \A j \in Idx : c[i] <= c[j]
                            /\ \A j \in 1..(i - 1) : c[j] > c[i]

\* A variant of LeastConnChoice whose scan breaks at the first unhealthy
\* target instead of skipping it.
LeastConnChoiceStopsAtUnhealthy(c, h) ==
    LET ok == {i \in Idx : \A j \in 1..i : h[j]}
    IN IF ok = {} THEN Nil
       ELSE CHOOSE i \in ok : /\ \A j \in ok : c[i] <= c[j]
                              /\ \A j \in ok \cap 1..(i - 1) : c[j] > c[i]

\* LeastConnections.NextTarget's scan: the first healthy target with the
\* fewest connections (strict <), or nil when none is healthy.
LeastConnChoice(c, h) ==
    LET ok == {i \in Idx : h[i]}
    IN IF ok = {} THEN Nil
       ELSE CHOOSE i \in ok : /\ \A j \in ok : c[i] <= c[j]
                              /\ \A j \in ok \cap 1..(i - 1) : c[j] > c[i]

Selected(t) == selections' = Append(selections, t)

\* The bound on NextTarget calls counts the scans not yet returned.
CanSelect ==
    Len(selections) + Cardinality({c \in Callers : lpc[c] = "scanned"})
        < MaxSelections

NoScanInProgress == \A c \in Callers : lpc[c] = "idle"

-----------------------------------------------------------------------------

\* A freshly built balancer (NewRoundRobin, NewWeightedRoundRobin,
\* NewLeastConnections, NewRandom): counters zero, every target healthy.
Fresh ==
    /\ current' = 0
    /\ cw' = [i \in Idx |-> 0]
    /\ conns' = [i \in Idx |-> 0]
    /\ healthy' = [i \in Idx |-> TRUE]
    /\ lpc' = [c \in Callers |-> "idle"]
    /\ pick' = [c \in Callers |-> Nil]
    /\ selections' = <<>>
    /\ UNCHANGED releases

Init ==
    /\ policy \in Configured
    /\ current = 0
    /\ cw = [i \in Idx |-> 0]
    /\ conns = [i \in Idx |-> 0]
    /\ healthy = [i \in Idx |-> TRUE]
    /\ lpc = [c \in Callers |-> "idle"]
    /\ pick = [c \in Callers |-> Nil]
    /\ selections = <<>>
    /\ releases = 0

RoundRobinNext(c) ==
    /\ policy = "round_robin"
    /\ lpc[c] = "idle" /\ CanSelect
    /\ IF N = 0 THEN Selected(Nil) /\ UNCHANGED current
       ELSE /\ current' = current + 1
            /\ Selected(RoundRobinIndex(current))
    /\ UNCHANGED <<policy, cw, conns, healthy, lpc, pick, releases>>

WeightedNext(c) ==
    /\ policy = "weighted_round_robin"
    /\ lpc[c] = "idle" /\ CanSelect
    /\ IF N = 0 THEN Selected(Nil) /\ UNCHANGED cw
       ELSE LET w == WeightedNextState(cw)
            IN /\ cw' = w
               /\ Selected(FirstMax(WeightedAdded(cw)))
    /\ UNCHANGED <<policy, current, conns, healthy, lpc, pick, releases>>

\* Random.NextTarget: r.rand.Intn(len(targets)).
RandomNext(c) ==
    /\ policy = "random"
    /\ lpc[c] = "idle" /\ CanSelect
    /\ IF N = 0 THEN Selected(Nil) ELSE \E i \in Idx : Selected(i)
    /\ UNCHANGED <<policy, current, cw, conns, healthy, lpc, pick, releases>>

\* LeastConnections.NextTarget, up to the atomic increment.  With no
\* healthy target it returns nil at once.
LeastConnScan(c) ==
    /\ policy = "least_connections"
    /\ lpc[c] = "idle" /\ CanSelect
    /\ LET t == LeastConnChoice(conns, healthy) IN
         IF t = Nil
         THEN Selected(Nil) /\ UNCHANGED <<lpc, pick>>
         ELSE /\ lpc' = [lpc EXCEPT ![c] = "scanned"]
              /\ pick' = [pick EXCEPT ![c] = t]
              /\ UNCHANGED selections
    /\ UNCHANGED <<policy, current, cw, conns, healthy, releases>>

\* atomic.AddInt64(&selected.Connections, 1); return selected.URL.
LeastConnAdd(c) ==
    /\ lpc[c] = "scanned"
    /\ conns' = [conns EXCEPT ![pick[c]] = @ + 1]
    /\ Selected(pick[c])
    /\ lpc' = [lpc EXCEPT ![c] = "idle"]
    /\ UNCHANGED <<policy, current, cw, healthy, pick, releases>>

\* A variant of ReleaseConnection without the t.Connections > 0 test.
ReleaseConnectionUnguarded(c, t) ==
    /\ policy = "least_connections"
    /\ lpc[c] = "idle" /\ releases < MaxReleases
    /\ lpc' = [lpc EXCEPT ![c] = "released"]
    /\ pick' = [pick EXCEPT ![c] = t]
    /\ releases' = releases + 1
    /\ UNCHANGED <<policy, current, cw, conns, healthy, selections>>

\* ReleaseConnection (read lock), by caller c: the loop finds t and tests
\* t.Connections > 0; when the test fails the call returns unchanged.
ReleaseConnection(c, t) ==
    /\ policy = "least_connections"
    /\ lpc[c] = "idle" /\ releases < MaxReleases
    /\ conns[t] > 0
    /\ lpc' = [lpc EXCEPT ![c] = "released"]
    /\ pick' = [pick EXCEPT ![c] = t]
    /\ releases' = releases + 1
    /\ UNCHANGED <<policy, current, cw, conns, healthy, selections>>

\* atomic.AddInt64(&t.Connections, -1), on the count as it is now.
ReleaseDecrement(c) ==
    /\ lpc[c] = "released"
    /\ conns' = [conns EXCEPT ![pick[c]] = @ - 1]
    /\ lpc' = [lpc EXCEPT ![c] = "idle"]
    /\ UNCHANGED <<policy, current, cw, healthy, pick, selections, releases>>

\* MarkHealthy / MarkUnhealthy take the write lock.
SetHealth(t, h) ==
    /\ policy = "least_connections"
    /\ NoScanInProgress
    /\ healthy[t] # h
    /\ healthy' = [healthy EXCEPT ![t] = h]
    /\ UNCHANGED <<policy, current, cw, conns, lpc, pick, selections, releases>>

MarkUnhealthy(t) == SetHealth(t, FALSE)

MarkHealthy(t) == SetHealth(t, TRUE)

\* ProxyManager.UpdateService builds a new ReverseProxy, and with it a new
\* balancer of the kind the new ServiceConfig names.  A call in flight on
\* the old balancer only touches the old one, so the model lets it finish
\* before the swap.
Rebuild ==
    /\ NoScanInProgress
    /\ Fresh
    /\ policy' \in Configured

Next ==
    \/ Rebuild
    \/ \E c \in Callers :
         \/ RoundRobinNext(c) \/ WeightedNext(c) \/ RandomNext(c)
         \/ LeastConnScan(c) \/ LeastConnAdd(c)
         \/ (\E t \in Idx : ReleaseConnection(c, t)) \/ ReleaseDecrement(c)
    \/ \E t \in Idx : MarkUnhealthy(t) \/ MarkHealthy(t)

Spec == Init /\ [][Next]_vars

-----------------------------------------------------------------------------
(* Properties                                                              *)

\* The balancer state stays in range, and every result is a target or nil.
\* A connection count never exceeds the selections made; it can go below
\* zero, since concurrent ReleaseConnection calls may all pass the > 0 test
\* at 1 before any decrements, but only by one per caller besides the one
\* whose decrement reaches 0, as a failed test stops a further release.
TypeOK ==
    /\ policy \in Policies
    /\ current \in Nat
    /\ cw \in [Idx -> Int]
    /\ conns \in [Idx -> (1 - Cardinality(Callers))..MaxSelections]
    /\ healthy \in [Idx -> BOOLEAN]
    /\ lpc \in [Callers -> {"idle", "scanned", "released"}]
    /\ pick \in [Callers -> Idx \cup {Nil}]
    /\ selections \in Seq(Idx \cup {Nil})
    /\ releases \in 0..MaxReleases

\* The number of times target t occurs in selections[i..j].
Occurrences(t, i, j) == Cardinality({k \in i..j : selections[k] = t})

\* spec.md 8.3: smooth weighted round robin returns target t exactly
\* Weights[t] times in every TotalWeight consecutive selections.
WeightedFair ==
    policy = "weighted_round_robin" =>
        \A i \in 1..(Len(selections) - TotalWeight + 1) :
            \A t \in Idx : Occurrences(t, i, i + TotalWeight - 1) = Weights[t]

\* spec.md 8.4: while a target is marked unhealthy, least-connections
\* NextTarget never returns it, even to a caller whose scan raced with
\* other callers.
HealthExclusion ==
    [][Len(selections') > Len(selections) =>
         \A t \in Idx : ~healthy[t] => Last(selections') # t]_vars

\* spec.md 4.4: the active count of a target is never negative, as a count
\* of connections.  ReleaseConnection tests t.Connections > 0 under the read
\* lock only, so two releases at 1 both pass the test and leave -1.
ActiveCountNonNegative == \A t \in Idx : conns[t] >= 0

\* spec.md 4.4: least connections returns a healthy target with the fewest
\* active connections at the moment it is counted.
LeastConnPicksMin ==
    [][\A c \in Callers :
         LeastConnAdd(c) =>
            \A j \in Idx : healthy[j] => conns[pick[c]] <= conns[j]]_vars

=============================================================================
