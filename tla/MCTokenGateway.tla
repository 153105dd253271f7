--------------------------- MODULE MCTokenGateway ---------------------------
(***************************************************************************)
(* Transfers of one asset, and the governance of assets, gateways and      *)
(* hosts.  The two share nothing here, so a behaviour is one of a single   *)
(* part: the one `active` names.                                           *)
(***************************************************************************)
EXTENDS TokenGateway, Governance, TLC

VARIABLE active

ASSUME GovernanceConstants /\ GatewayConstants

\* Two ERC units make one local unit.
ScaleOf == [s \in Substrate |-> 2]

\* EVM chains are alike in a transfer: an ERC20 is of the connected one.  An
\* asset that is governed has some home of its own: one is enough.
MCInit ==
    /\ Init /\ GovernanceInit
    /\ active \in {"transfers", "governance"}
    /\ erc20 \subseteq Connected
    /\ active = "governance" => erc20 = {}

TransferStep == active = "transfers" /\ Next /\ UNCHANGED <<active, governanceVars>>
GovernanceStep == active = "governance" /\ GovernanceNext /\ UNCHANGED <<active, vars>>

MCSpec ==
    /\ MCInit /\ [][TransferStep \/ GovernanceStep]_<<active, vars, governanceVars>>
    /\ Fairness
============================================================================
