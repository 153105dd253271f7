--------------------------- MODULE PostLifecycle ---------------------------
(***************************************************************************)
(* What ISMP promises the module that sends a POST request: the request is *)
(* accepted once or handed back once, never both, and an answer comes at   *)
(* most once and only after the request was accepted.                      *)
(***************************************************************************)
CONSTANT Posts

VARIABLE happened   \* request -> the events of its life so far

Init == happened = [r \in Posts |-> {}]

\* The events that may come next, given those that have happened.
Possible(events) ==
    CASE events = {} -> {"sent"}
      [] events = {"sent"} -> {"accepted", "reverted"}
      [] events = {"sent", "accepted"} -> {"answered"}
      [] OTHER -> {}

\* A batch advances any number of requests, each by one event.
Advance(r) ==
    \/ happened'[r] = happened[r]
    \/ \E e \in Possible(happened[r]) : happened'[r] = happened[r] \cup {e}

Next ==
    /\ happened' \in [Posts -> SUBSET {"sent", "accepted", "answered", "reverted"}]
    /\ \A r \in Posts : Advance(r)

Spec == Init /\ [][Next]_happened
============================================================================
