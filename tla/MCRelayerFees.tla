--------------------------- MODULE MCRelayerFees ---------------------------
\* RelayerFees with one request.
EXTENDS RelayerFees

Unanswered == [p \in ChainResponses |-> p]
============================================================================
