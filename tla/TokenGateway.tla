---------------------------- MODULE TokenGateway ----------------------------
(***************************************************************************)
(* One asset moving between the TokenGateway contracts of EVM chains and   *)
(* the pallet-token-gateway of standalone substrate chains, through        *)
(* Hyperbridge, whose inspector accounts for what each standalone chain    *)
(* has received.                                                           *)
(*                                                                         *)
(* Sources: `evm/src/modules/TokenGateway.sol`, pallet-token-gateway,      *)
(* pallet-token-gateway-inspector, the runtimes' ProxyModule.              *)
(*                                                                         *)
(* Balances are those of all users of a chain together, in the asset's     *)
(* own units there.  An execution that fails changes nothing and can be    *)
(* retried until the transfer expires; that a request is executed at most  *)
(* once, and not after its timeout, is what IsmpMessaging shows.           *)
(***************************************************************************)
EXTENDS TokenChains, Functions

CONSTANTS
    Scale,          \* Substrate -> 10 ^ (ERC decimals - local decimals)
    Transfers,      \* bound: the transfers that are made
    MaxAmount,      \* bound: the most a transfer moves, in units of its source
    MaxChanges,     \* bound: requests of the token governor
    Supply,         \* what the users of the home chain hold at first
    Float           \* what the pallet account holds at first of a foreign asset

\* What the constants have to be.
GatewayConstants ==
    /\ EvmChains \cap Substrate = {} /\ IsFiniteSet(Chains)
    /\ Scale \in [Substrate -> Nat \ {0}]
    /\ {MaxAmount, MaxChanges, Supply, Float} \subseteq Nat

VARIABLES
    registered,     \* chains where the asset is registered (_erc6160s, LocalAssets)
    erc20,          \* EVM chains where it has an ERC20 (_erc20s)
    native,         \* StandaloneChainAssets
    minter,         \* EVM chains whose gateway is admin of the ERC6160
    known,          \* chains that know the gateways of the other kind of chain
    custody,        \* ERC20 or local asset held by the gateway
    wallet,         \* ERC20 or local asset held by users
    bridged,        \* ERC6160 held by users of an EVM chain
    transfer,       \* the body of a transfer's request, or None
    status,         \* how far it has come
    expired,        \* transfers past their timeout
    inflow          \* InflowBalances, in ERC units

balances == <<custody, wallet, bridged>>
registry == <<registered, erc20, native, minter, known>>
vars == <<registry, balances, transfer, status, expired, inflow>>

\* The asset is an ERC20 of one EVM chain or native to one standalone chain.
Init ==
    /\ \E home \in Chains :
        /\ erc20 = {home} \cap EvmChains
        /\ native = {home} \cap Substrate
        /\ wallet = [c \in Chains |-> IF c = home THEN Supply ELSE 0]
        /\ custody = [c \in Chains |-> IF c \in Substrate \ {home} THEN Float ELSE 0]
    /\ bridged = [c \in EvmChains |-> 0]
    /\ registered = Chains /\ minter = EvmChains /\ known = {}
    /\ transfer = [t \in Transfers |-> None]
    /\ status = [t \in Transfers |-> "none"]
    /\ expired = {}
    /\ inflow = [s \in Substrate |-> 0]

----------------------------------------------------------------------------
\* What the gateways do with tokens.

\* The gateway of c holds x of the users' tokens, or gives them back.
Lock(c, x) ==
    /\ x <= wallet[c]
    /\ wallet' = [wallet EXCEPT ![c] = @ - x]
    /\ custody' = [custody EXCEPT ![c] = @ + x]
    /\ UNCHANGED bridged
Release(c, x) ==
    /\ x <= custody[c]
    /\ custody' = [custody EXCEPT ![c] = @ - x]
    /\ wallet' = [wallet EXCEPT ![c] = @ + x]
    /\ UNCHANGED bridged
Burn(c, x) ==
    /\ c \in minter
    /\ x <= bridged[c]
    /\ bridged' = [bridged EXCEPT ![c] = @ - x]
    /\ UNCHANGED <<custody, wallet>>
Mint(c, x) ==
    /\ c \in minter
    /\ bridged' = [bridged EXCEPT ![c] = @ + x]
    /\ UNCHANGED <<custody, wallet>>

\* convert_to_erc20 and convert_to_balance.
ToErc(s, x) == x * Scale[s]
\* Mutant: an amount is not converted back.
ToLocalUnscaled(s, v) == v
ToLocal(s, v) == v \div Scale[s]

Send(t, body) ==
    /\ status[t] = "none"
    /\ body.source \in registered
    /\ transfer' = [transfer EXCEPT ![t] = body]
    /\ status' = [status EXCEPT ![t] = "sent"]
    /\ UNCHANGED <<registry, expired, inflow>>

\* teleport of the contract.
Teleport(t, c, d, x, redeem) ==
    /\ x > 0
    /\ IF c \in erc20 /\ ~redeem THEN Lock(c, x) ELSE Burn(c, x)
    /\ Send(t, [source |-> c, dest |-> d, amount |-> x, redeem |-> redeem])

\* teleport of the pallet.
PalletTeleport(t, s, d, x) ==
    /\ Lock(s, x)
    /\ Send(t, [source |-> s, dest |-> d, amount |-> ToErc(s, x), redeem |-> FALSE])

\* authenticate: gateways of one kind share an address, others must be known.
Authentic(b) == {b.source, b.dest} \subseteq EvmChains
                \/ {b.source, b.dest} \subseteq Substrate
                \/ b.dest \in known

\* handleIncomingAsset, and on_accept of the pallet, which ignores redeem.
HandleIncomingAsset(b) ==
    IF b.dest \in erc20 /\ b.redeem THEN Release(b.dest, b.amount) ELSE Mint(b.dest, b.amount)
OnAccept(b) == Release(b.dest, ToLocal(b.dest, b.amount))

\* The destination executes a request.
Receive(t) ==
    LET b == transfer[t] IN
    /\ status[t] = "routed" /\ t \notin expired
    /\ b.dest \in registered
    /\ Authentic(b)
    /\ IF b.dest \in EvmChains THEN HandleIncomingAsset(b) ELSE OnAccept(b)
    /\ status' = [status EXCEPT ![t] = "received"]
    /\ UNCHANGED <<registry, transfer, expired, inflow>>

\* onPostRequestTimeout, and on_timeout of the pallet.
OnPostRequestTimeout(b) ==
    IF b.source \in erc20 /\ ~b.redeem THEN Release(b.source, b.amount) ELSE Mint(b.source, b.amount)
OnTimeout(b) == Release(b.source, ToLocal(b.source, b.amount))

\* Mutant: only what Hyperbridge had forwarded is paid back.
RefundLapsed(t) ==
    LET b == transfer[t] IN
    /\ status[t] = "lapsed" /\ t \in expired
    /\ b.source \in registered
    /\ IF b.source \in EvmChains THEN OnPostRequestTimeout(b) ELSE OnTimeout(b)
    /\ status' = [status EXCEPT ![t] = "refunded"]
    /\ UNCHANGED <<registry, transfer, expired, inflow>>

\* The source handles a timeout: Hyperbridge has no receipt of the request.
Refund(t) ==
    LET b == transfer[t] IN
    /\ status[t] \in {"sent", "lapsed"} /\ t \in expired
    /\ b.source \in registered
    /\ IF b.source \in EvmChains THEN OnPostRequestTimeout(b) ELSE OnTimeout(b)
    /\ status' = [status EXCEPT ![t] = "refunded"]
    /\ UNCHANGED <<registry, transfer, expired, inflow>>

----------------------------------------------------------------------------
\* Hyperbridge: the inspector runs before a request is forwarded and when a
\* forwarded one times out.  It does not look at transfers between EVM chains.

\* A chain may send what it has received, and its own assets freely.
Checked(b) == {b.source} \cap (Substrate \ native)

Plus(S, x) == [s \in Substrate |-> IF s \in S THEN inflow[s] + x ELSE inflow[s]]

\* inspect_request, then dispatch_request.
InspectRequest(t) ==
    LET b == transfer[t]
        credited == Plus({b.dest}, b.amount) IN
    /\ status[t] = "sent" /\ t \notin expired
    /\ \A s \in Checked(b) : b.amount <= credited[s]
    /\ inflow' = [s \in Substrate |->
           IF s \in Checked(b) THEN credited[s] - b.amount ELSE credited[s]]
    /\ status' = [status EXCEPT ![t] = "routed"]
    /\ UNCHANGED <<registry, balances, transfer, expired>>

\* Mutant: the sender's balance is not given back.
HandleTimeoutKept(t) ==
    LET b == transfer[t] IN
    /\ status[t] = "routed" /\ t \in expired
    /\ b.dest \in Substrate => b.amount <= inflow[b.dest]
    /\ inflow' = [s \in Substrate |-> inflow[s] - (IF s = b.dest THEN b.amount ELSE 0)]
    /\ status' = [status EXCEPT ![t] = "lapsed"]
    /\ UNCHANGED <<registry, balances, transfer, expired>>

\* handle_timeout: an inflow below zero is a panic, and nothing happens.
HandleTimeout(t) ==
    LET b == transfer[t]
        restored == Plus(Checked(b), b.amount) IN
    /\ status[t] = "routed" /\ t \in expired
    /\ b.dest \in Substrate => b.amount <= restored[b.dest]
    /\ inflow' = [s \in Substrate |->
           IF s = b.dest THEN restored[s] - b.amount ELSE restored[s]]
    /\ status' = [status EXCEPT ![t] = "lapsed"]
    /\ UNCHANGED <<registry, balances, transfer, expired>>

Expire(t) ==
    /\ status[t] # "none" /\ t \notin expired
    /\ expired' = expired \cup {t}
    /\ UNCHANGED <<registry, balances, transfer, status, inflow>>

----------------------------------------------------------------------------
\* Requests of the token governor.
Changes == Cardinality(known) + Cardinality(EvmChains \ registered)
           + Cardinality(EvmChains \ minter)

\* handleDeregisterAssets.  (On a standalone chain on_accept goes on to reject
\* the request, which undoes the removal.)
HandleDeregisterAssets(c) ==
    /\ c \in EvmChains \cap registered
    /\ registered' = registered \ {c}
    /\ erc20' = erc20 \ {c}
    /\ UNCHANGED <<native, minter, known, balances, transfer, status, expired, inflow>>

\* handleChangeAssetAdmin.
HandleChangeAssetAdmin(c) ==
    /\ c \in registered \cap minter
    /\ minter' = minter \ {c}
    /\ UNCHANGED <<registered, erc20, native, known, balances, transfer, status, expired, inflow>>

\* handleNewContractInstance; set_token_gateway_addresses on a standalone chain.
NewInstance(c) ==
    /\ c \notin known
    /\ known' = known \cup {c}
    /\ UNCHANGED <<registered, erc20, native, minter, balances, transfer, status, expired, inflow>>

Next ==
    \/ \E t \in Transfers, d \in Chains, x \in 1..MaxAmount :
         \/ \E c \in EvmChains, redeem \in BOOLEAN : Teleport(t, c, d, x, redeem)
         \/ \E s \in Substrate : PalletTeleport(t, s, d, x)
    \/ \E t \in Transfers : \/ InspectRequest(t) \/ Receive(t) \/ Expire(t)
                            \/ HandleTimeout(t) \/ Refund(t)
    \/ /\ Changes < MaxChanges
       /\ \E c \in Chains : \/ HandleDeregisterAssets(c) \/ HandleChangeAssetAdmin(c)
                            \/ NewInstance(c)

\* Time passes, and timeouts, which anyone may submit, are submitted.
Fairness == \A t \in Transfers : WF_vars(Expire(t) \/ HandleTimeout(t) \/ Refund(t))
Spec == Init /\ [][Next]_vars /\ Fairness

----------------------------------------------------------------------------
InFlight == {t \in Transfers : status[t] \in {"sent", "routed", "lapsed"}}
AmountOf(S) == SumFunction([t \in S |-> transfer[t].amount])

\* What a standalone chain's gateway holds beyond what it was given at first.
Deposits(s) == (custody[s] - (IF s \in native THEN 0 ELSE Float)) * Scale[s]

\* Every ERC6160 and every transfer under way is backed by tokens in custody:
\* transfers, failed executions, refunds and conversions create no value
\* (teleport, onAccept and onPostRequestTimeout of both gateways).
Backed ==
    SumFunction(bridged) + AmountOf(InFlight)
      <= SumFunctionOnSet(custody, EvmChains)
         + SumFunction([s \in Substrate |-> Deposits(s)])

\* The inspector's balance of a chain the asset is foreign to covers what its
\* users hold and have sent, and what is still on its way there: none of
\* their transfers is taken for illegal, and any transfer to it can time out
\* (inspect_request, handle_timeout).
InflowCovers ==
    \A s \in Substrate \ native :
        ToErc(s, wallet[s])
          + AmountOf({t \in InFlight : transfer[t].source = s /\ status[t] # "routed"})
          + AmountOf({t \in InFlight : transfer[t].dest = s /\ status[t] = "routed"})
            <= inflow[s]

\* The source's gateway can still pay t back.
Serving(t) ==
    /\ transfer[t] # None
    /\ transfer[t].source \in registered \cap (Substrate \cup minter)

\* A transfer ends with its receiver or back with its sender, as long as the
\* asset is not taken off the gateway it was sent from (on_accept, on_timeout).
EventuallySettled ==
    \A t \in Transfers :
        status[t] = "sent" ~> (status[t] \in {"received", "refunded"} \/ ~Serving(t))
============================================================================
