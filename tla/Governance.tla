----------------------------- MODULE Governance -----------------------------
(***************************************************************************)
(* Governance of other chains from Hyperbridge: the token governor, which  *)
(* creates assets, removes them and announces token gateways; the          *)
(* registrars, where an asset is paid for on another chain; and the host   *)
(* executive, which updates the parameters of the hosts.                   *)
(*                                                                         *)
(* Sources: pallet-token-governor `lib.rs` and `impls.rs`, pallet-ismp-    *)
(* host-executive, pallet-hyperbridge; `Registrar.sol`, `TokenGateway.sol`,*)
(* `HostManager.sol` and `EvmHost.sol`.                                    *)
(*                                                                         *)
(* Requests have no timeout, arrive in any order and are executed at most  *)
(* once; one whose execution reverts, or whose receiver has no code, stays *)
(* and is tried again.  A call that returns an error changes nothing.  A   *)
(* call lists a chain at most once.                                        *)
(***************************************************************************)
EXTENDS TokenChains

CONSTANTS
    Connected,      \* EVM chains whose gateway the governor knows at first
    Assets,
    Accounts,       \* who registers assets, here or at a registrar
    Versions,       \* deployments of a contract on one chain
    MaxCalls,       \* bound on the calls that dispatch requests
    MaxList         \* bound on the chains listed in a call

Root == "root"
\* The contracts of a chain: a chain's n-th gateway, registrar or host manager.
Address == [chain : Chains, version : Versions]
At(c, v) == [chain |-> c, version |-> v]
First == CHOOSE v \in Versions : \A w \in Versions : v <= w

\* What the constants have to be.
GovernanceConstants ==
    /\ First \in Versions
    /\ None \notin {Root} \cup Accounts \cup Substrate

VARIABLES
    pending,        \* PendingAsset: who paid for an asset, or None
    owners,         \* AssetOwners (and AssetMetadatas)
    supported,      \* SupportedChains
    standalone,     \* StandaloneChainAssets
    gateways,       \* TokenGatewayParams: address, or None
    registrars,     \* TokenRegistrarParams: address, or None
    hostParams,     \* HostParams: [manager, value]
    requests,       \* requests of Hyperbridge that are not executed
    calls,          \* calls that have dispatched requests
    \* the other chains
    tickets,        \* requests of the registrars that are not executed
    deployed,       \* gateways -> asset -> its ERC6160 or local asset
    peers,          \* _instances of a gateway
    hosts,          \* the hosts' parameters
    announced,      \* history: new gateways, with those to be told of them
    overtaken       \* history: hosts whose updates or records overtook one another

assetVars == <<pending, owners, supported, standalone>>
paramVars == <<gateways, registrars, announced>>
hostVars == <<hostParams, hosts, overtaken>>
remoteVars == <<tickets, deployed, peers>>
governanceVars == <<assetVars, paramVars, hostVars, remoteVars, requests, calls>>

\* Substrate chains have one gateway, the pallet; EVM chains have several
\* deployments, which the governor knows of or not.
GovernanceInit ==
    /\ pending = [a \in Assets |-> None]
    /\ owners = [a \in Assets |-> None]
    /\ supported = {} /\ standalone = {}
    /\ gateways = [c \in EvmChains |-> IF c \in Connected THEN At(c, First) ELSE None]
    /\ registrars = [c \in EvmChains |-> IF c \in Connected THEN At(c, First) ELSE None]
    /\ hostParams = [c \in EvmChains |-> [manager |-> At(c, First), value |-> 0]]
    /\ hosts = hostParams
    /\ requests = {} /\ calls = 0
    /\ tickets = {}
    /\ deployed = [g \in Address |-> [a \in Assets |-> "none"]]
    /\ peers = [g \in Address |-> {}]
    /\ announced = {} /\ overtaken = {}

----------------------------------------------------------------------------
(* Requests of one call.                                                   *)

\* The gateway a chain's assets are created by: token_gateway_id() or the
\* address in TokenGatewayParams, without which the call fails.
GatewayOf(c) == IF c \in Substrate THEN At(c, First) ELSE gateways[c]
GatewaysKnown(S) == \A c \in S \cap EvmChains : gateways[c] # None

\* Requests of kind k about x to the gateways of the chains S.
ToGateways(k, x, S) ==
    {[call |-> calls, dest |-> c, to |-> GatewayOf(c), kind |-> k, about |-> x] : c \in S}

Dispatch(R) ==
    /\ calls < MaxCalls
    /\ calls' = calls + 1
    /\ requests' = requests \cup R

----------------------------------------------------------------------------
(* Assets.                                                                 *)

\* Mutant: the asset may exist already.
register_assetAgain(a, who, S) ==
    /\ GatewaysKnown(S)
    /\ Dispatch(ToGateways("create", a, S))
    /\ supported' = supported \cup ({a} \X S)
    /\ owners' = [owners EXCEPT ![a] = who]
    /\ UNCHANGED <<paramVars, hostVars>>

\* register_asset; create_erc20_asset_impl is the same with other addresses.
register_asset(a, who, S) ==
    /\ owners[a] = None
    /\ GatewaysKnown(S)
    /\ Dispatch(ToGateways("create", a, S))
    /\ supported' = supported \cup ({a} \X S)
    /\ owners' = [owners EXCEPT ![a] = who]
    /\ UNCHANGED <<paramVars, hostVars>>

\* By an account that pays here, or by the admin (create_erc20_asset).
create_erc6160_asset(a, who, S) ==
    /\ register_asset(a, who, S)
    /\ UNCHANGED <<pending, standalone, remoteVars>>
create_erc20_asset(a, S) ==
    /\ S \subseteq EvmChains
    /\ register_asset(a, Root, S)
    /\ UNCHANGED <<pending, standalone, remoteVars>>

\* With the signature of whoever paid at a registrar; the asset is given to
\* any account the signer names.
create_erc6160_asset_unsigned(a, signer, owner, S) ==
    /\ pending[a] = signer
    /\ register_asset(a, owner, S)
    /\ pending' = [pending EXCEPT ![a] = None]
    /\ UNCHANGED <<standalone, remoteVars>>

\* on_accept of a request from a substrate chain's gateway.
CreateAsset(a, source, S) ==
    /\ register_asset(a, source, S)
    /\ standalone' = standalone \cup {<<source, a>>}
    /\ UNCHANGED <<pending, remoteVars>>

deregister_standalone_chain_native_assets(D) ==
    /\ standalone' = standalone \ D
    /\ UNCHANGED <<pending, owners, supported, paramVars, hostVars, remoteVars, requests, calls>>

\* registerAsset of a registrar: the fee is paid, and not given back.
RegisterAsset(g, a, who) ==
    /\ calls < MaxCalls
    /\ calls' = calls + 1
    /\ tickets' = tickets \cup {[call |-> calls, from |-> g, asset |-> a, owner |-> who]}
    /\ UNCHANGED <<assetVars, paramVars, hostVars, deployed, peers, requests>>

\* on_accept of a registrar's request.
NewPendingAsset(t) ==
    /\ registrars[t.from.chain] = t.from
    /\ owners[t.asset] = None /\ pending[t.asset] = None
    /\ pending' = [pending EXCEPT ![t.asset] = t.owner]
    /\ tickets' = tickets \ {t}
    /\ UNCHANGED <<owners, supported, standalone, paramVars, hostVars, deployed, peers, requests, calls>>

\* Mutant: a chain that is removed can be added again.
update_erc6160_assetReadded(a, who, add, remove, admins) ==
    LET new == {c \in add : <<a, c>> \notin supported}
        on(S) == {c \in S : <<a, c>> \in supported \/ c \in new}
    IN  /\ owners[a] # None /\ who \in {Root, owners[a]} \cup Substrate
        /\ Dispatch(ToGateways("create", a, new) \cup ToGateways("deregister", a, on(remove))
                    \cup ToGateways("admin", a, on(admins)))
        /\ GatewaysKnown(new \cup on(remove))
        /\ \A c \in on(admins) : c \in EvmChains /\ gateways[c] # None
        /\ supported' = (supported \cup ({a} \X new)) \ ({a} \X remove)
        /\ UNCHANGED <<pending, owners, standalone, paramVars, hostVars, remoteVars>>

\* update_erc6160_asset by the owner or root, or on_accept of an UpdateAsset
\* request of a substrate chain's gateway: the asset is created on chains it
\* was never created on, and removed from, or given an admin on, those it was.
update_erc6160_asset(a, who, add, remove, admins) ==
    LET new == {c \in add : <<a, c>> \notin supported}
        on(S) == {c \in S : <<a, c>> \in supported \/ c \in new}
    IN  /\ owners[a] # None /\ who \in {Root, owners[a]} \cup Substrate
        /\ Dispatch(ToGateways("create", a, new) \cup ToGateways("deregister", a, on(remove))
                    \cup ToGateways("admin", a, on(admins)))
        /\ GatewaysKnown(new \cup on(remove))
        /\ \A c \in on(admins) : c \in EvmChains /\ gateways[c] # None
        /\ supported' = supported \cup ({a} \X new)
        /\ UNCHANGED <<pending, owners, standalone, paramVars, hostVars, remoteVars>>

----------------------------------------------------------------------------
(* Contracts.                                                              *)

\* New parameters for a contract go to the address known so far.
ToKnown(c, known) ==
    {[call |-> calls, dest |-> c, to |-> g, kind |-> "params", about |-> None]
       : g \in {known} \ {None}}

\* update_gateway_params_impl and update_registrar_params_impl.
update_gateway_params(c, v) ==
    /\ Dispatch(ToKnown(c, gateways[c]))
    /\ gateways' = [gateways EXCEPT ![c] = At(c, v)]
    /\ UNCHANGED <<assetVars, registrars, announced, hostVars, remoteVars>>
update_registrar_params(c, v) ==
    /\ Dispatch(ToKnown(c, registrars[c]))
    /\ registrars' = [registrars EXCEPT ![c] = At(c, v)]
    /\ UNCHANGED <<assetVars, gateways, announced, hostVars, remoteVars>>

\* add_new_gateway_instance: each request names the gateway of another chain
\* as its receiver, and the new gateway's own chain as its destination.
new_contract_instance(c, v) ==
    LET others == {gateways[d] : d \in EvmChains \ {c}} \ {None}
    IN  /\ Dispatch({[call |-> calls, dest |-> c, to |-> g, kind |-> "instance", about |-> At(c, v)]
                        : g \in others})
        /\ gateways' = [gateways EXCEPT ![c] = At(c, v)]
        /\ announced' = announced \cup ({At(c, v)} \X others)
        /\ UNCHANGED <<assetVars, registrars, hostVars, remoteVars>>

Updates(c) == {m \in requests : m.kind = "host" /\ m.dest = c}

\* set_host_params: the admin records what the host has.
set_host_params(c) ==
    /\ hostParams[c] # hosts[c]
    /\ hostParams' = [hostParams EXCEPT ![c] = hosts[c]]
    /\ overtaken' = IF Updates(c) = {} THEN overtaken ELSE overtaken \cup {c}
    /\ UNCHANGED <<assetVars, paramVars, hosts, remoteVars, requests, calls>>

\* Mutant: the update is not recorded.
update_host_paramsUnrecorded(c, v) ==
    LET new == [manager |-> At(c, v), value |-> hostParams[c].value + 1]
    IN  /\ Dispatch({[call |-> calls, dest |-> c, to |-> new.manager, kind |-> "host", about |-> new]})
        /\ UNCHANGED <<assetVars, paramVars, hostVars, remoteVars>>

\* update_host_params: the request goes to the manager it names.
update_host_params(c, v) ==
    LET new == [manager |-> At(c, v), value |-> hostParams[c].value + 1]
    IN  /\ Dispatch({[call |-> calls, dest |-> c, to |-> new.manager, kind |-> "host", about |-> new]})
        /\ hostParams' = [hostParams EXCEPT ![c] = new]
        /\ UNCHANGED <<assetVars, paramVars, hosts, overtaken, remoteVars>>

----------------------------------------------------------------------------
(* The other chains execute a request.                                     *)

\* onAccept of a gateway, on_accept of the pallet (which rejects a removal), of
\* a registrar, or of the host manager, which the host must know.  An ERC6160
\* is created at an address made from the asset's id, once.
Executable(m) ==
    /\ m.to.chain = m.dest
    /\ CASE m.kind = "create" -> m.dest \in Substrate \/ deployed[m.to][m.about] = "none"
         [] m.kind = "deregister" -> m.dest \in EvmChains
         [] m.kind = "admin" -> deployed[m.to][m.about] = "listed"
         [] m.kind = "host" -> hosts[m.dest].manager = m.to
         [] OTHER -> TRUE

Effect(m) ==
    /\ deployed' =
         CASE m.kind = "create" -> [deployed EXCEPT ![m.to][m.about] = "listed"]
           [] m.kind = "deregister" /\ deployed[m.to][m.about] = "listed" ->
                [deployed EXCEPT ![m.to][m.about] = "removed"]
           [] OTHER -> deployed
    /\ peers' = IF m.kind = "instance" THEN [peers EXCEPT ![m.to] = @ \cup {m.about}] ELSE peers
    /\ hosts' = IF m.kind = "host" THEN [hosts EXCEPT ![m.dest] = m.about] ELSE hosts

ExecuteRequest(m) ==
    /\ Executable(m)
    /\ Effect(m)
    /\ overtaken' = IF m.kind = "host" /\ hosts[m.dest].value > m.about.value
                    THEN overtaken \cup {m.dest} ELSE overtaken
    /\ requests' = requests \ {m}
    /\ UNCHANGED <<assetVars, paramVars, hostParams, tickets, calls>>

----------------------------------------------------------------------------
\* Chains listed in a call.
Lists == {S \in SUBSET Chains : Cardinality(S) <= MaxList}

GovernanceNext ==
    \/ \E a \in Assets, S \in Lists :
         \/ \E who \in Accounts : create_erc6160_asset(a, who, S)
         \/ create_erc20_asset(a, S)
         \/ \E signer, owner \in Accounts : create_erc6160_asset_unsigned(a, signer, owner, S)
         \/ \E source \in Substrate : CreateAsset(a, source, S)
    \/ \E a \in Assets, who \in {Root} \cup Accounts \cup Substrate :
         \E add, remove, admins \in Lists : update_erc6160_asset(a, who, add, remove, admins)
    \/ \E D \in SUBSET standalone : deregister_standalone_chain_native_assets(D)
    \/ \E c \in EvmChains, v \in Versions :
         \/ update_gateway_params(c, v) \/ update_registrar_params(c, v)
         \/ new_contract_instance(c, v) \/ update_host_params(c, v)
         \/ \E a \in Assets, who \in Accounts : RegisterAsset(At(c, v), a, who)
    \/ \E c \in EvmChains : set_host_params(c)
    \/ \E t \in tickets : NewPendingAsset(t)
    \/ \E m \in requests : ExecuteRequest(m)

GovernanceSpec == GovernanceInit /\ [][GovernanceNext]_governanceVars

----------------------------------------------------------------------------
\* The requests to create an asset on a chain, and the deployments of the
\* chain's gateway that have created it.
Creations(a, c) == {m \in requests : m.kind = "create" /\ m.about = a /\ m.dest = c}
Created(a, c) == {v \in Versions : deployed[At(c, v)][a] # "none"}

\* SupportedChains holds exactly the chains an asset was created on or is being
\* created on, and it is created there once: no request is dispatched that
\* cannot be executed because the asset exists, whatever is removed and added
\* again, and whichever gateways come and go (register_asset,
\* update_erc6160_asset_impl, createAssets).
CreatedOnce ==
    \A a \in Assets, c \in Chains :
        Cardinality(Creations(a, c)) + Cardinality(Created(a, c))
          = IF <<a, c>> \in supported THEN 1 ELSE 0

\* A registered asset keeps its owner, whichever way it was registered and
\* whoever has paid for it elsewhere (register_asset, register_asset_unsigned).
KeepOwners == \A a \in Assets : owners[a] # None => owners'[a] = owners[a]
OwnersKept == [][KeepOwners]_governanceVars

\* When no update is under way, a host has the parameters that Hyperbridge has
\* on record, unless updates overtook one another (update_host_params, and
\* updateHostParams of the host).
HostsFollow ==
    \A c \in EvmChains \ overtaken : Updates(c) = {} => hosts[c] = hostParams[c]

\* "Adds a new token gateway contract instance to all existing instances": once
\* no request to do so is left that can be executed, every gateway that was
\* known has the new one among its instances (new_contract_instance).
InstancesAnnounced ==
    \A p \in announced :
        \/ p[1] \in peers[p[2]]
        \/ \E m \in requests : m.kind = "instance" /\ m.about = p[1] /\ Executable(m)
============================================================================
