----------------------------- MODULE EventTriage -----------------------------
(***************************************************************************)
(* What the realtime diagnosis daemon promises of each anomaly event,      *)
(* whatever its threads, offsets and futures do (DiagnosisAgent implements *)
(* it): an event that is received is taken once; from then on it is open   *)
(* until it has a result; only a result "pass" stands for a published      *)
(* diagnosis, and none is published of an event that is not open.  A crash *)
(* interrupts what is open, and makes the daemon forget that it took some  *)
(* events: those are taken again, the other interrupted ones never.        *)
(***************************************************************************)
EXTENDS Naturals

CONSTANTS Events, Results

VARIABLES
    received,     \* events in the anomaly topic
    taken,        \* events the daemon will not take again
    open,         \* events it is triaging
    result,       \* event -> its last result, or "none"
    published,    \* events with a diagnosis in the diagnosis topic
    interrupted,  \* events that were open at a crash
    crashes

vars == <<received, taken, open, result, published, interrupted, crashes>>

Init ==
    /\ received = {} /\ taken = {} /\ open = {}
    /\ result = [e \in Events |-> "none"]
    /\ published = {} /\ interrupted = {} /\ crashes = 0

Receive(e) ==
    /\ received' = received \union {e}
    /\ UNCHANGED <<taken, open, result, published, interrupted, crashes>>

Take(e) ==
    /\ e \in received \ taken
    /\ taken' = taken \union {e}
    /\ open' = open \union {e}
    /\ UNCHANGED <<received, result, published, interrupted, crashes>>

Publish(e) ==
    /\ e \in open
    /\ published' = published \union {e}
    /\ UNCHANGED <<received, taken, open, result, interrupted, crashes>>

\* A diagnosis may still arrive when the daemon has given it up.
Settle(e, r) ==
    /\ e \in open
    /\ published' \in {published, published \union {e}}
    /\ r = "pass" => e \in published
    /\ result' = [result EXCEPT ![e] = r]
    /\ open' = open \ {e}
    /\ UNCHANGED <<received, taken, interrupted, crashes>>

Crash ==
    /\ interrupted' = interrupted \union open
    /\ open' = {}
    /\ taken' \in SUBSET taken
    /\ crashes' = crashes + 1
    /\ UNCHANGED <<received, result, published>>

Next ==
    \/ \E e \in Events : Receive(e) \/ Take(e) \/ Publish(e)
    \/ \E e \in Events, r \in Results : Settle(e, r)
    \/ Crash

Spec == Init /\ [][Next]_vars

=============================================================================
