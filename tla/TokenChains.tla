---------------------------- MODULE TokenChains ----------------------------
(***************************************************************************)
(* The chains that assets move between, for TokenGateway and Governance.   *)
(***************************************************************************)
EXTENDS Integers, FiniteSets

CONSTANTS
    EvmChains,
    Substrate,      \* standalone substrate chains, with pallet-token-gateway
    None

Chains == EvmChains \cup Substrate
============================================================================
