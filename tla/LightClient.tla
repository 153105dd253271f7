---------------------------- MODULE LightClient ----------------------------
(***************************************************************************)
(* What the consensus handler relies on every ConsensusClient for: the     *)
(* height a client trusts only moves forward, and only to heights its      *)
(* counterparty has finalized.                                             *)
(*                                                                         *)
(* Source: the contract of `verify_consensus` in                           *)
(* `modules/ismp/core/src/consensus.rs`.                                   *)
(***************************************************************************)
EXTENDS Naturals

VARIABLES
    finalized,  \* the last height the counterparty finalized
    trusted     \* the height the client's consensus state is at

Init ==
    /\ finalized \in Nat
    /\ trusted \in 0..finalized

\* The counterparty finalizes a later block.
Finalize ==
    /\ finalized' \in Nat
    /\ finalized' > finalized
    /\ UNCHANGED trusted

\* verify_consensus returns a consensus state at a later, finalized height.
VerifyConsensus ==
    /\ trusted' \in Nat
    /\ trusted < trusted' /\ trusted' <= finalized
    /\ UNCHANGED finalized

Next == Finalize \/ VerifyConsensus

Spec == Init /\ [][Next]_<<finalized, trusted>>
============================================================================
