------------------------ MODULE MCTesseractMessaging ------------------------
(* Two messages, emitted in either order: a request that never times out   *)
(* and a response that does, while the relayer is working on it.           *)
EXTENDS TesseractMessaging

CONSTANTS m1, r1

MCDeadline == [m \in Messages |-> IF m = r1 THEN 2 ELSE Never]

ASSUME MessagingConstants
=============================================================================
