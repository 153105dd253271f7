----------------------------- MODULE FeeBounds -----------------------------
(***************************************************************************)
(* What the two escrows of relayer fees, EvmHost and RelayerFees, have in  *)
(* common.                                                                 *)
(***************************************************************************)
CONSTANTS
    MaxFee,     \* bound on the relayer fee of a message
    None        \* an absent storage entry
============================================================================
