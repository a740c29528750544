----------------------------- MODULE AtLeastOnce -----------------------------
(***************************************************************************)
(* What an event consumer with acknowledgements promises: an event the     *)
(* broker accepted stays pending until the handler has accepted it, and    *)
(* only then may it be acknowledged away.  The handler may see an event    *)
(* any number of times, and may fail on it, while it is pending.  Events   *)
(* the broker never accepted (a dropped publish) are outside the promise.  *)
(***************************************************************************)
CONSTANT Events

VARIABLES
    pending,   \* events the broker holds for the consumer
    handled    \* events the handler has accepted at least once

vars == <<pending, handled>>

Init == pending = {} /\ handled = {}

\* The broker accepts a published event.
Accept(e) ==
    /\ e \notin pending
    /\ pending' = pending \cup {e}
    /\ UNCHANGED handled

\* The handler runs on a pending event and accepts it or fails.
Handle(e) ==
    /\ e \in pending
    /\ handled' \in {handled, handled \cup {e}}
    /\ UNCHANGED pending

\* Acknowledgements remove events the handler accepted, several at once
\* when the consumer acknowledges cumulatively.
Acknowledge(S) ==
    /\ S # {}
    /\ S \subseteq pending \cap handled
    /\ pending' = pending \ S
    /\ UNCHANGED handled

Next ==
    \/ \E e \in Events : Accept(e) \/ Handle(e)
    \/ \E S \in SUBSET Events : Acknowledge(S)

Spec == Init /\ [][Next]_vars

=============================================================================
