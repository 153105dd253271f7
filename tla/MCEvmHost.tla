---------------------------- MODULE MCEvmHost ----------------------------
\* EvmHost with one request and the response to it, either of which may expire.
EXTENDS EvmHost

CONSTANTS r1, q1

Replied == [q \in Replies |-> r1]
Answered == [a \in Answers |-> a]
Deadlines == [m \in Outgoing \cup Incoming \cup Replies |-> 2]
============================================================================
