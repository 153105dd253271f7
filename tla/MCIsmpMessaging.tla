-------------------------- MODULE MCIsmpMessaging --------------------------
(***************************************************************************)
(* Instances of IsmpMessaging: two chains a and b behind Hyperbridge h.    *)
(***************************************************************************)
EXTENDS IsmpMessaging, TLC

CONSTANTS a, b, h, r1, r2, p1, p2

\* a and b know each other only through h.
Hub == (a :> {h}) @@ (b :> {h}) @@ (h :> {a, b})

\* r1 goes from a to b; r2 from b to the router itself.
SourceOf == [r \in Posts |-> IF r = r1 THEN a ELSE b]
DestOf == [r \in Posts |-> IF r = r1 THEN b ELSE h]

DeadlineOf == [r \in Posts |-> IF r = r1 THEN 2 ELSE 1]
RequestOf == [p \in Responses |-> r1]
ResDeadlineOf == [p \in Responses |-> IF p = p1 THEN 2 ELSE Never]

\* The second request and the second response do not come together: nothing
\* relates them.
Apart == r2 \notin dispatched \/ \A c \in Hosts : p2 \notin resCommit[c]

MCSpec == Init /\ [][Next /\ Apart']_vars /\ Fairness
============================================================================
