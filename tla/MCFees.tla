------------------------------- MODULE MCFees -------------------------------
(***************************************************************************)
(* The two places that escrow relayer fees: an EVM host, and the fee       *)
(* account of a substrate chain.  They share nothing, so a behaviour is    *)
(* one of a single instance: the one `active` names.                       *)
(***************************************************************************)
EXTENDS EvmHost, RelayerFees, TLC

CONSTANTS r1, g1, q1, i1, w1, w2, a1, a2, usdc, dai, q, alice, bob, MaxSent

VARIABLE active

Replied == [p \in Replies |-> r1]
Answered == [a \in Answers |-> i1]
\* A POST can expire after Hyperbridge has sealed a block and before its last
\* one, a GET earlier; withdrawals and the second answer never expire.
Deadlines == [m \in Outgoing \cup Incoming \cup Replies |->
                 IF m \in Withdrawals \cup {a2} THEN Never ELSE IF m = g1 THEN 1 ELSE 2]

\* The responses of the substrate chain are to one request.
ToOneRequest == [p \in ChainResponses |-> q]

ASSUME FeesConstants

MCInit == active \in {"sender", "receiver", "chain"} /\ Init /\ FeesInit

\* The host with its own requests, and with withdrawals.  Freezing it only
\* disables steps, which the receiver has.
SenderStep ==
    /\ active = "sender" /\ Next /\ UNCHANGED <<active, feesVars>>
    /\ dispatched' \subseteq Requests /\ i1 \notin leaves' /\ frozen' = frozen
\* The host with a request it receives, and answers twice.
ReceiverStep ==
    /\ active = "receiver" /\ Next /\ UNCHANGED <<active, feesVars>>
    /\ dispatched' \subseteq Answers /\ leaves' \subseteq {i1} /\ feeToken' = feeToken
\* The chain with two of its messages.
ChainStep ==
    /\ active = "chain" /\ FeesNext /\ UNCHANGED <<active, vars>>
    /\ Cardinality(sent') <= MaxSent

MCNext == SenderStep \/ ReceiverStep \/ ChainStep
MCSpec == MCInit /\ [][MCNext]_<<active, vars, feesVars>>

\* Withdrawals, tokens and relayers differ only in their names.
Symmetry == Permutations({w1, w2}) \cup Permutations({usdc, dai})
            \cup Permutations({alice, bob})
============================================================================
