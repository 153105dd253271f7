--------------------------- MODULE Pallets_proofs ---------------------------
(***************************************************************************)
(* Proofs about the pallets that keep state of their own on Hyperbridge:   *)
(* the governance of assets, gateways and hosts, for any chains, assets,   *)
(* accounts, deployments and any number of calls, and the consensus client *)
(* of pallet-ismp, for any number of state machines, heights, periods and  *)
(* fishermen.                                                              *)
(***************************************************************************)
EXTENDS Governance, ConsensusClient, FiniteSetTheorems, TLAPS

-----------------------------------------------------------------------------
(* Governance. *)

Owners == {Root} \cup Accounts \cup Substrate
Params == [manager : Address, value : Nat]

\* What the requests to gateways and to host managers are about.
RequestOK(m) ==
    /\ m.kind \in {"create", "deregister", "admin"} =>
         m.to \in Address /\ m.about \in Assets /\ m.dest \in Chains
    /\ m.kind = "host" => m.dest \in EvmChains /\ m.about \in Params

TypeInv ==
    /\ owners \in [Assets -> Owners \cup {None}]
    /\ supported \in SUBSET (Assets \X Chains)
    /\ gateways \in [EvmChains -> Address \cup {None}]
    /\ deployed \in [Address -> [Assets -> {"none", "listed", "removed"}]]
    /\ hostParams \in [EvmChains -> Params]
    /\ hosts \in [EvmChains -> Params]
    /\ \A m \in requests : RequestOK(m)

\* Every way to register an asset is register_asset by some owner.
Registers ==
    \E a \in Assets, who \in Owners, S \in SUBSET Chains :
        register_asset(a, who, S) /\ UNCHANGED remoteVars

\* An update creates the asset only on chains it is not supported on.
AssetUpdate(a, new, removed, admins) ==
    /\ owners[a] # None
    /\ \A c \in new : <<a, c>> \notin supported
    /\ GatewaysKnown(new) /\ GatewaysKnown(removed) /\ GatewaysKnown(admins)
    /\ requests' = requests \cup (ToGateways("create", a, new)
                     \cup ToGateways("deregister", a, removed)
                     \cup ToGateways("admin", a, admins))
    /\ supported' = supported \cup ({a} \X new)
    /\ UNCHANGED <<owners, gateways, deployed, hostParams, hosts, overtaken>>

LEMMA UpdateIsAssetUpdate ==
    ASSUME NEW a \in Assets, NEW who \in Owners,
           NEW add \in SUBSET Chains, NEW remove \in SUBSET Chains, NEW admins \in SUBSET Chains,
           update_erc6160_asset(a, who, add, remove, admins)
    PROVE  \E n, r, d \in SUBSET Chains : AssetUpdate(a, n, r, d)
<1> DEFINE new == {c \in add : <<a, c>> \notin supported}
           on(S) == {c \in S : <<a, c>> \in supported \/ c \in new}
<1>1. AssetUpdate(a, new, on(remove), on(admins))
  BY DEF update_erc6160_asset, AssetUpdate, Dispatch, GatewaysKnown, paramVars, hostVars, remoteVars
<1>2. new \in SUBSET Chains /\ on(remove) \in SUBSET Chains /\ on(admins) \in SUBSET Chains
  OBVIOUS
<1> HIDE DEF new, on
<1> QED BY <1>1, <1>2

\* The steps that neither register nor update an asset, nor touch a host.
OtherSteps ==
    \/ \E D \in SUBSET standalone : deregister_standalone_chain_native_assets(D)
    \/ \E c \in EvmChains, v \in Versions :
         \/ update_gateway_params(c, v) \/ update_registrar_params(c, v)
         \/ new_contract_instance(c, v)
         \/ \E a \in Assets, who \in Accounts : RegisterAsset(At(c, v), a, who)
    \/ \E t \in tickets : NewPendingAsset(t)

LEMMA Steps ==
    ASSUME GovernanceNext
    PROVE  \/ Registers
           \/ \E a \in Assets : \E new, removed, admins \in SUBSET Chains :
                AssetUpdate(a, new, removed, admins)
           \/ \E c \in EvmChains, v \in Versions : update_host_params(c, v)
           \/ \E c \in EvmChains : set_host_params(c)
           \/ \E m \in requests : ExecuteRequest(m)
           \/ OtherSteps
<1>1. Lists \subseteq SUBSET Chains
  BY DEF Lists
<1>2. ASSUME NEW a \in Assets, NEW S \in Lists,
             \/ \E who \in Accounts : create_erc6160_asset(a, who, S)
             \/ create_erc20_asset(a, S)
             \/ \E signer, owner \in Accounts : create_erc6160_asset_unsigned(a, signer, owner, S)
             \/ \E source \in Substrate : CreateAsset(a, source, S)
      PROVE  Registers
  <2>1. PICK who \in Owners : register_asset(a, who, S) /\ UNCHANGED remoteVars
    BY <1>2 DEF create_erc6160_asset, create_erc20_asset, create_erc6160_asset_unsigned,
                CreateAsset, Owners
  <2> QED BY <2>1, <1>1 DEF Registers
<1>3. ASSUME NEW a \in Assets, NEW who \in Owners, NEW add \in Lists, NEW remove \in Lists,
             NEW admins \in Lists, update_erc6160_asset(a, who, add, remove, admins)
      PROVE  \E n, r, d \in SUBSET Chains : AssetUpdate(a, n, r, d)
  BY <1>1, <1>3, UpdateIsAssetUpdate
<1> QED BY Zenon, <1>2, <1>3 DEF GovernanceNext, OtherSteps, Owners

\* What the other steps leave alone, and the requests they add.
LEMMA OtherStepsFrame ==
    ASSUME OtherSteps
    PROVE  /\ UNCHANGED <<owners, supported, deployed, hostParams, hosts, overtaken>>
           /\ requests \subseteq requests'
           /\ \A m \in requests' \ requests : m.kind \in {"params", "instance"}
  BY DEF OtherSteps, deregister_standalone_chain_native_assets, update_gateway_params,
         update_registrar_params, new_contract_instance, RegisterAsset, NewPendingAsset,
         Dispatch, ToKnown, assetVars, hostVars, remoteVars, paramVars

----------------------------------------------------------------------------
(* Types.                                                                  *)

LEMMA GatewayRequests ==
    ASSUME GovernanceConstants, TypeInv,
           NEW k, NEW x \in Assets, NEW S \in SUBSET Chains, GatewaysKnown(S)
    PROVE  \A m \in ToGateways(k, x, S) :
              m.kind = k /\ m.about = x /\ m.dest \in S /\ m.to \in Address
<1>1. \A c \in S : GatewayOf(c) \in Address
  BY DEF GovernanceConstants, TypeInv, GatewaysKnown, GatewayOf, Chains, Address, At
<1> QED BY <1>1 DEF ToGateways

LEMMA GovernanceStart == GovernanceConstants /\ GovernanceInit => TypeInv
  BY DEF GovernanceConstants, GovernanceInit, TypeInv, Owners, Params, Address, At, Chains

LEMMA GovernanceTypes ==
    ASSUME GovernanceConstants, TypeInv, [GovernanceNext]_governanceVars
    PROVE  TypeInv'
<1>1. CASE Registers
  <2>1. PICK a \in Assets, who \in Owners, S \in SUBSET Chains :
             register_asset(a, who, S) /\ UNCHANGED remoteVars
    BY <1>1 DEF Registers
  <2>2. \A m \in requests' : RequestOK(m)
    BY <2>1, GatewayRequests DEF register_asset, Dispatch, TypeInv, RequestOK
  <2> QED BY <2>1, <2>2 DEF register_asset, TypeInv, RequestOK, paramVars, hostVars, remoteVars
<1>2. ASSUME NEW a \in Assets, NEW new \in SUBSET Chains, NEW removed \in SUBSET Chains,
             NEW admins \in SUBSET Chains, AssetUpdate(a, new, removed, admins)
      PROVE  TypeInv'
  <2>1. \A m \in requests' : RequestOK(m)
    BY <1>2, GatewayRequests DEF AssetUpdate, TypeInv, RequestOK
  <2>2. supported' \in SUBSET (Assets \X Chains)
    BY <1>2 DEF AssetUpdate, TypeInv
  <2> QED BY <1>2, <2>1, <2>2 DEF AssetUpdate, TypeInv
<1>3. ASSUME NEW c \in EvmChains, NEW v \in Versions, update_host_params(c, v)
      PROVE  TypeInv'
  <2>1. [manager |-> At(c, v), value |-> hostParams[c].value + 1] \in Params
    BY DEF TypeInv, Params, Address, At, Chains
  <2> QED BY <1>3, <2>1 DEF update_host_params, Dispatch, TypeInv, RequestOK,
                            assetVars, paramVars, remoteVars
<1>4. ASSUME NEW c \in EvmChains, set_host_params(c)
      PROVE  TypeInv'
  BY <1>4 DEF set_host_params, TypeInv, RequestOK, assetVars, paramVars, remoteVars
<1>5. ASSUME NEW m \in requests, ExecuteRequest(m)
      PROVE  TypeInv'
  <2>1. RequestOK(m)
    BY DEF TypeInv
  <2>2. deployed' \in [Address -> [Assets -> {"none", "listed", "removed"}]]
    BY <1>5, <2>1 DEF ExecuteRequest, Effect, TypeInv, RequestOK
  <2>3. hosts' \in [EvmChains -> Params]
    BY <1>5, <2>1 DEF ExecuteRequest, Effect, TypeInv, RequestOK
  <2> QED BY <1>5, <2>2, <2>3 DEF ExecuteRequest, TypeInv, RequestOK, assetVars, paramVars
<1>6. CASE OtherSteps
  <2>1. gateways' \in [EvmChains -> Address \cup {None}]
    BY Zenon, <1>6 DEF OtherSteps, deregister_standalone_chain_native_assets, update_gateway_params,
                update_registrar_params, new_contract_instance, RegisterAsset, NewPendingAsset,
                TypeInv, paramVars, Address, At, Chains
  <2>2. \A m \in requests' : RequestOK(m)
    BY <1>6, OtherStepsFrame DEF TypeInv, RequestOK
  <2> QED BY <1>6, <2>1, <2>2, OtherStepsFrame DEF TypeInv, RequestOK
<1>7. CASE UNCHANGED governanceVars
  BY <1>7 DEF governanceVars, TypeInv, RequestOK, assetVars, paramVars, hostVars, remoteVars
<1> QED BY <1>1, <1>2, <1>3, <1>4, <1>5, <1>6, <1>7, Steps

\* The types hold in every reachable state: the requests under way name a
\* gateway, an asset and a chain, or the parameters of a host.
THEOREM TypesHold == ASSUME GovernanceConstants PROVE GovernanceSpec => []TypeInv
<1>1. GovernanceInit => TypeInv
  BY GovernanceStart
<1>2. TypeInv /\ [GovernanceNext]_governanceVars => TypeInv'
  BY GovernanceTypes
<1> QED BY <1>1, <1>2, PTL DEF GovernanceSpec

----------------------------------------------------------------------------
(* Owners.                                                                 *)

\* A registered asset keeps its owner: every way to register one checks that
\* it has none (register_asset, create_erc20_asset_impl).
THEOREM OwnersAreKept == ASSUME GovernanceConstants PROVE GovernanceSpec => OwnersKept
<1>1. TypeInv /\ [GovernanceNext]_governanceVars => [KeepOwners]_governanceVars
  <2> SUFFICES ASSUME TypeInv, GovernanceNext PROVE KeepOwners
    OBVIOUS
  <2>1. CASE Registers
    BY <2>1 DEF Registers, register_asset, KeepOwners, TypeInv
  <2>2. CASE owners' = owners
    BY <2>2 DEF KeepOwners
  <2> QED BY Zenon, <2>1, <2>2, Steps, OtherStepsFrame
          DEF AssetUpdate, update_host_params, set_host_params, ExecuteRequest, assetVars
<1> QED BY <1>1, TypesHold, PTL DEF GovernanceSpec, OwnersKept

----------------------------------------------------------------------------
(* Hosts.                                                                  *)

\* As long as nothing overtook anything on a chain, what is on record has
\* reached the host or is under way, and everything else under way is older.
HostInv ==
    \A c \in EvmChains \ overtaken :
        /\ hosts[c] = hostParams[c] \/ \E m \in Updates(c) : m.about = hostParams[c]
        /\ \A m \in Updates(c) : \/ m.about = hostParams[c]
                                 \/ m.about.value < hostParams[c].value

LEMMA HostStep ==
    ASSUME TypeInv, HostInv, [GovernanceNext]_governanceVars
    PROVE  HostInv'
<1>1. ASSUME UNCHANGED <<hostParams, hosts, overtaken>>,
             \A c \in EvmChains : Updates(c)' = Updates(c)
      PROVE  HostInv'
  BY <1>1 DEF HostInv
<1>2. ASSUME UNCHANGED <<hostParams, hosts, overtaken>>,
             requests \subseteq requests', \A m \in requests' \ requests : m.kind # "host"
      PROVE  HostInv'
  BY <1>1, <1>2 DEF Updates
<1>3. CASE Registers
  BY <1>3, <1>2 DEF Registers, register_asset, Dispatch, ToGateways, hostVars
<1>4. ASSUME NEW a \in Assets, NEW new \in SUBSET Chains, NEW removed \in SUBSET Chains,
             NEW admins \in SUBSET Chains, AssetUpdate(a, new, removed, admins)
      PROVE  HostInv'
  BY <1>4, <1>2 DEF AssetUpdate, ToGateways
<1>5. ASSUME NEW c \in EvmChains, NEW v \in Versions, update_host_params(c, v)
      PROVE  HostInv'
  <2> DEFINE new == [manager |-> At(c, v), value |-> hostParams[c].value + 1]
             msg == [call |-> calls, dest |-> c, to |-> new.manager, kind |-> "host", about |-> new]
  <2>1. /\ requests' = requests \cup {msg}
        /\ hostParams' = [hostParams EXCEPT ![c] = new]
        /\ UNCHANGED <<hosts, overtaken>>
    BY <1>5 DEF update_host_params, Dispatch
  <2>2. \A d \in EvmChains : Updates(d)' = Updates(d) \cup IF d = c THEN {msg} ELSE {}
    BY <2>1 DEF Updates
  <2>0. hostParams \in [EvmChains -> Params]
    BY Zenon DEF TypeInv
  <2>3. new.value > hostParams[c].value /\ msg.about = new /\ hostParams'[c] = new
    <3>1. hostParams[c].value \in Nat
      BY <2>0 DEF Params
    <3>2. msg.about = new /\ hostParams'[c] = new
      BY Zenon, <2>0, <2>1
    <3> QED BY <3>1, <3>2
  <2>4. \A d \in EvmChains : \A m \in Updates(d) : m.about \in Params
    BY DEF Updates, TypeInv, RequestOK
  <2>5. ASSUME NEW d \in EvmChains, d # c PROVE hostParams'[d] = hostParams[d]
    BY <2>1, <2>5 DEF TypeInv
  <2>6. ASSUME NEW m \in Updates(c), c \notin overtaken PROVE m.about.value < new.value
    <3>1. m.about = hostParams[c] \/ m.about.value < hostParams[c].value
      BY <2>6 DEF HostInv
    <3>2. m.about.value \in Nat /\ hostParams[c].value \in Nat
      BY <2>4 DEF TypeInv, Params
    <3>3. new.value = hostParams[c].value + 1
      OBVIOUS
    <3> HIDE DEF new
    <3> QED BY <3>1, <3>2, <3>3
  <2> HIDE DEF new, msg
  <2> QED BY <2>1, <2>2, <2>3, <2>5, <2>6 DEF HostInv
<1>6. ASSUME NEW c \in EvmChains, set_host_params(c)
      PROVE  HostInv'
  <2>1. /\ UNCHANGED <<hosts, requests>>
        /\ hostParams' = [hostParams EXCEPT ![c] = hosts[c]]
        /\ overtaken' = IF Updates(c) = {} THEN overtaken ELSE overtaken \cup {c}
    BY <1>6 DEF set_host_params
  <2>2. \A d \in EvmChains : Updates(d)' = Updates(d)
    BY <2>1 DEF Updates
  <2> QED BY <2>1, <2>2 DEF HostInv, TypeInv
<1>7. ASSUME NEW m \in requests, ExecuteRequest(m)
      PROVE  HostInv'
  <2>1. CASE m.kind # "host"
    BY <2>1, <1>7, <1>1 DEF ExecuteRequest, Effect, Updates
  <2>2. CASE m.kind = "host"
    <3>1. /\ m.dest \in EvmChains /\ m.about \in Params
          /\ m \in Updates(m.dest)
          /\ hostParams' = hostParams
          /\ hosts' = [hosts EXCEPT ![m.dest] = m.about]
          /\ overtaken' = IF hosts[m.dest].value > m.about.value
                          THEN overtaken \cup {m.dest} ELSE overtaken
      BY <2>2, <1>7 DEF ExecuteRequest, Effect, Updates, TypeInv, RequestOK
    <3>2. \A d \in EvmChains : Updates(d)' = Updates(d) \ {m}
      BY <1>7 DEF ExecuteRequest, Updates
    <3>3. ASSUME NEW d \in EvmChains, d # m.dest PROVE Updates(d)' = Updates(d)
      BY <3>2, <3>3 DEF Updates
    <3>4. \A d \in EvmChains : hosts'[d] = IF d = m.dest THEN m.about ELSE hosts[d]
      BY <3>1 DEF TypeInv
    <3>5. hosts[m.dest].value \in Nat /\ hostParams[m.dest].value \in Nat /\ m.about.value \in Nat
      BY <3>1 DEF TypeInv, Params
    <3>6. ASSUME m.dest \notin overtaken' 
          PROVE  \/ hosts'[m.dest] = hostParams'[m.dest]
                 \/ \E u \in Updates(m.dest)' : u.about = hostParams'[m.dest]
      <4>1. CASE m.about = hostParams[m.dest]
        BY <4>1, <3>1, <3>4
      <4>2. CASE m.about # hostParams[m.dest]
        <5>1. m.about.value < hostParams[m.dest].value
          BY <4>2, <3>1, <3>6 DEF HostInv
        <5>2. hosts[m.dest] # hostParams[m.dest]
          BY <5>1, <3>1, <3>5, <3>6
        <5> QED BY <5>2, <4>2, <3>1, <3>2, <3>6 DEF HostInv
      <4> QED BY <4>1, <4>2
    <3> QED BY <3>1, <3>2, <3>3, <3>4, <3>6 DEF HostInv
  <2> QED BY <2>1, <2>2
<1>8. CASE OtherSteps
  BY <1>8, <1>2, OtherStepsFrame
<1>9. CASE UNCHANGED governanceVars
  BY <1>9, <1>1 DEF governanceVars, hostVars, Updates
<1> QED BY <1>3, <1>4, <1>5, <1>6, <1>7, <1>8, <1>9, Steps

\* A host has the parameters on record when no update is under way, unless
\* updates overtook one another (update_host_params, updateHostParams).
THEOREM HostsFollowRecord == ASSUME GovernanceConstants PROVE GovernanceSpec => []HostsFollow
<1>1. GovernanceInit => HostInv
  BY DEF GovernanceInit, HostInv, Updates
<1>2. TypeInv /\ HostInv /\ [GovernanceNext]_governanceVars => HostInv'
  BY HostStep
<1>3. HostInv => HostsFollow
  BY DEF HostInv, HostsFollow
<1> QED BY <1>1, <1>2, <1>3, TypesHold, PTL DEF GovernanceSpec

----------------------------------------------------------------------------
(* Assets.                                                                 *)

\* An asset is being created on a supported chain or has been, one of the two
\* and once; on any other chain neither.
OnceAt(a, c) ==
    IF <<a, c>> \in supported
    THEN \/ /\ \E m : Creations(a, c) = {m}
            /\ Created(a, c) = {}
         \/ /\ Creations(a, c) = {}
            /\ \E v : Created(a, c) = {v}
    ELSE Creations(a, c) = {} /\ Created(a, c) = {}

OnceInv ==
    /\ \A a \in Assets, c \in Chains : OnceAt(a, c)
    /\ \A a \in Assets, c \in Chains : <<a, c>> \in supported => owners[a] # None

\* What a call that creates asset a on the chains S, where it is not supported,
\* does to the requests under way.
Creates(a, S) ==
    /\ \A c \in S : <<a, c>> \notin supported
    /\ supported' = supported \cup ({a} \X S)
    /\ deployed' = deployed
    /\ requests \subseteq requests'
    /\ ToGateways("create", a, S) \subseteq requests'
    /\ \A m \in requests' : \/ m \in requests
                            \/ m \in ToGateways("create", a, S)
                            \/ m.kind # "create"

LEMMA CreatesOnce ==
    ASSUME TypeInv, OnceInv, NEW a \in Assets, NEW S \in SUBSET Chains, Creates(a, S),
           NEW b \in Assets, NEW c \in Chains
    PROVE  OnceAt(b, c)'
<1>1. Created(b, c)' = Created(b, c)
  BY DEF Creates, Created
<1>2. CASE b = a /\ c \in S
  <2> DEFINE msg == [call |-> calls, dest |-> c, to |-> GatewayOf(c), kind |-> "create", about |-> a]
  <2>1. Creations(a, c) = {} /\ Created(a, c) = {}
    BY Zenon, <1>2 DEF Creates, OnceInv, OnceAt
  <2>2. Creations(a, c)' = {msg}
    BY <1>2, <2>1 DEF Creates, Creations, ToGateways
  <2>3. <<a, c>> \in supported'
    BY <1>2 DEF Creates
  <2> HIDE DEF msg
  <2> QED BY <1>1, <1>2, <2>1, <2>2, <2>3 DEF OnceAt
<1>3. CASE ~(b = a /\ c \in S)
  <2>1. Creations(b, c)' = Creations(b, c)
    BY <1>3 DEF Creates, Creations, ToGateways
  <2>2. <<b, c>> \in supported' <=> <<b, c>> \in supported
    BY <1>3 DEF Creates
  <2> QED BY Zenon, <1>1, <2>1, <2>2 DEF OnceInv, OnceAt
<1> QED BY <1>2, <1>3

\* A step that leaves these alone keeps it.
LEMMA OnceFrame ==
    ASSUME OnceInv, UNCHANGED <<owners, supported, deployed>>,
           requests \subseteq requests', \A m \in requests' \ requests : m.kind # "create"
    PROVE  OnceInv'
<1>1. \A a \in Assets, c \in Chains :
         Creations(a, c)' = Creations(a, c) /\ Created(a, c)' = Created(a, c)
  BY DEF Creations, Created
<1> QED BY Zenon, <1>1 DEF OnceInv, OnceAt

LEMMA OnceAccept ==
    ASSUME TypeInv, OnceInv, NEW m \in requests, ExecuteRequest(m)
    PROVE  OnceInv'
<1>1. /\ UNCHANGED <<owners, supported>>
      /\ requests' = requests \ {m}
      /\ RequestOK(m) /\ Executable(m)
  BY DEF ExecuteRequest, assetVars, TypeInv
<1>2. CASE m.kind = "create"
  <2>1. /\ m.to \in Address /\ m.about \in Assets /\ m.dest \in Chains
        /\ m.to.chain = m.dest
        /\ deployed' = [deployed EXCEPT ![m.to][m.about] = "listed"]
    BY <1>1, <1>2 DEF RequestOK, Executable, ExecuteRequest, Effect
  <2>2. m.to.version \in Versions /\ m.to = At(m.dest, m.to.version)
    BY <2>1 DEF Address, At
  <2>3. ASSUME NEW a \in Assets, NEW c \in Chains, ~(a = m.about /\ c = m.dest)
        PROVE  OnceAt(a, c)'
    <3>1. Creations(a, c)' = Creations(a, c)
      BY <1>1, <2>3 DEF Creations
    <3>2. \A v \in Versions : At(c, v) \in Address /\ deployed'[At(c, v)][a] = deployed[At(c, v)][a]
      BY <2>1, <2>2, <2>3 DEF TypeInv, Address, At
    <3>3. Created(a, c)' = Created(a, c)
      BY <3>2 DEF Created
    <3> QED BY Zenon, <1>1, <3>1, <3>3 DEF OnceInv, OnceAt
  <2>4. OnceAt(m.about, m.dest)'
    <3>1. m \in Creations(m.about, m.dest)
      BY <1>2 DEF Creations
    <3>2. /\ <<m.about, m.dest>> \in supported
          /\ Creations(m.about, m.dest) = {m}
          /\ Created(m.about, m.dest) = {}
      BY <2>1, <3>1 DEF OnceInv, OnceAt
    <3>3. Creations(m.about, m.dest)' = {}
      BY <1>1, <3>2 DEF Creations
    <3>4. \A v \in Versions : /\ At(m.dest, v) \in Address
                             /\ deployed[At(m.dest, v)][m.about] = "none"
      BY <2>1, <3>2 DEF Created, Address, At
    <3>5. \A v \in Versions : deployed'[At(m.dest, v)][m.about] =
                                 IF v = m.to.version THEN "listed" ELSE "none"
      BY <2>1, <2>2, <3>4 DEF TypeInv, At
    <3>6. Created(m.about, m.dest)' = {m.to.version}
      BY <2>2, <3>5 DEF Created
    <3> QED BY <1>1, <3>2, <3>3, <3>6 DEF OnceAt
  <2>5. \A a \in Assets, c \in Chains : OnceAt(a, c)'
    BY <2>3, <2>4, Zenon
  <2>6. \A a \in Assets, c \in Chains : <<a, c>> \in supported' => owners'[a] # None
    BY <1>1 DEF OnceInv
  <2> QED BY <2>5, <2>6, Zenon DEF OnceInv
<1>3. CASE m.kind # "create"
  <2>1. \A a \in Assets, c \in Chains : Creations(a, c)' = Creations(a, c)
    BY <1>1, <1>3 DEF Creations
  <2>2. \A g \in Address, a \in Assets : deployed'[g][a] = "none" <=> deployed[g][a] = "none"
    BY <1>1, <1>3 DEF ExecuteRequest, Effect, TypeInv, RequestOK
  <2>3. \A c \in Chains, v \in Versions : At(c, v) \in Address
    BY DEF At, Address
  <2>4. \A a \in Assets, c \in Chains : Created(a, c)' = Created(a, c)
    BY <2>2, <2>3 DEF Created
  <2>5. ASSUME NEW a \in Assets, NEW c \in Chains
        PROVE  OnceAt(a, c)'
    <3>1. OnceAt(a, c)
      BY DEF OnceInv
    <3>2. Creations(a, c)' = Creations(a, c) /\ Created(a, c)' = Created(a, c)
      BY <2>1, <2>4
    <3> QED BY Zenon, <1>1, <3>1, <3>2 DEF OnceAt
  <2>6. \A a \in Assets, c \in Chains : <<a, c>> \in supported' => owners'[a] # None
    BY <1>1 DEF OnceInv
  <2> QED BY <2>5, <2>6, Zenon DEF OnceInv
<1> QED BY <1>2, <1>3

LEMMA OnceStep ==
    ASSUME GovernanceConstants, TypeInv, OnceInv, [GovernanceNext]_governanceVars
    PROVE  OnceInv'
<1>1. CASE Registers
  <2>1. PICK a \in Assets, who \in Owners, S \in SUBSET Chains :
             register_asset(a, who, S) /\ UNCHANGED remoteVars
    BY <1>1 DEF Registers
  <2>2. Creates(a, S)
    BY <2>1 DEF Creates, register_asset, Dispatch, OnceInv, remoteVars
  <2>3. \A b \in Assets, c \in Chains : <<b, c>> \in supported' => owners'[b] # None
    BY <2>1 DEF register_asset, OnceInv, TypeInv, GovernanceConstants, Owners
  <2> QED BY <2>2, <2>3, CreatesOnce DEF OnceInv
<1>2. ASSUME NEW a \in Assets, NEW new \in SUBSET Chains, NEW removed \in SUBSET Chains,
             NEW admins \in SUBSET Chains, AssetUpdate(a, new, removed, admins)
      PROVE  OnceInv'
  <2>1. \A k, S : \A m \in ToGateways(k, a, S) : m.kind = k
    BY DEF ToGateways
  <2>2. Creates(a, new)
    BY <1>2, <2>1 DEF Creates, AssetUpdate
  <2>3. \A b \in Assets, c \in Chains : <<b, c>> \in supported' => owners'[b] # None
    BY <1>2 DEF AssetUpdate, OnceInv
  <2> QED BY <2>2, <2>3, CreatesOnce DEF OnceInv
<1>3. ASSUME NEW c \in EvmChains, NEW v \in Versions, update_host_params(c, v)
      PROVE  OnceInv'
  BY <1>3, OnceFrame DEF update_host_params, Dispatch, assetVars, remoteVars
<1>4. ASSUME NEW c \in EvmChains, set_host_params(c)
      PROVE  OnceInv'
  BY <1>4, OnceFrame DEF set_host_params, assetVars, remoteVars
<1>5. CASE OtherSteps
  BY <1>5, OtherStepsFrame, OnceFrame
<1>6. CASE UNCHANGED governanceVars
  BY <1>6, OnceFrame DEF governanceVars, assetVars, remoteVars
<1> QED BY <1>1, <1>2, <1>3, <1>4, <1>5, <1>6, OnceAccept, Steps

\* SupportedChains is exact: an asset is created at most once on a chain, and
\* a request to create it is never one that must fail (register_asset,
\* update_erc6160_asset_impl, createAssets).
THEOREM AssetsCreatedOnce == ASSUME GovernanceConstants PROVE GovernanceSpec => []CreatedOnce
<1>1. GovernanceInit => OnceInv
  BY DEF GovernanceInit, OnceInv, OnceAt, Creations, Created, Address, At
<1>2. TypeInv /\ OnceInv /\ [GovernanceNext]_governanceVars => OnceInv'
  BY OnceStep
<1>3. OnceInv => CreatedOnce
  <2> SUFFICES ASSUME OnceInv, NEW a \in Assets, NEW c \in Chains
               PROVE  Cardinality(Creations(a, c)) + Cardinality(Created(a, c))
                        = IF <<a, c>> \in supported THEN 1 ELSE 0
    BY Zenon DEF CreatedOnce
  <2>1. Cardinality({}) = 0 /\ \A x : Cardinality({x}) = 1
    BY Zenon, FS_EmptySet, FS_Singleton
  <2>2. OnceAt(a, c)
    BY DEF OnceInv
  <2>3. CASE <<a, c>> \notin supported
    BY <2>1, <2>2, <2>3 DEF OnceAt
  <2>4. CASE <<a, c>> \in supported /\ Created(a, c) = {} /\ \E m : Creations(a, c) = {m}
    <3>1. PICK m : Creations(a, c) = {m}
      BY <2>4
    <3>2. Cardinality(Creations(a, c)) = 1 /\ Cardinality(Created(a, c)) = 0
      BY <2>1, <2>4, <3>1, Zenon
    <3> QED BY <2>4, <3>2
  <2>5. CASE <<a, c>> \in supported /\ Creations(a, c) = {} /\ \E v : Created(a, c) = {v}
    <3>1. PICK v : Created(a, c) = {v}
      BY <2>5
    <3>2. Cardinality(Creations(a, c)) = 0 /\ Cardinality(Created(a, c)) = 1
      BY <2>1, <2>5, <3>1, Zenon
    <3> QED BY <2>5, <3>2
  <2> QED BY Zenon, <2>2, <2>3, <2>4, <2>5 DEF OnceAt
<1> QED BY <1>1, <1>2, <1>3, TypesHold, PTL DEF GovernanceSpec

-----------------------------------------------------------------------------
(* The consensus client. *)

\* What a message stores, whoever sends it: only heights it carries.
Storable(new, keep) ==
    /\ new \in Verified
    /\ keep \in [StateMachines -> SUBSET Heights]
    /\ \A m \in StateMachines : \A h \in keep[m] : new[m][h] \in Roots

\* The invariant: types, commitments dated by the client, proofs accepted
\* after the challenge window.
Inv ==
    /\ TypeOK
    /\ CommitmentsNotNewerThanClient
    /\ ChallengeWindowElapsed
    /\ LatestIsStored

----------------------------------------------------------------------------
\* The heights a creation message carries are storable.
LEMMA CarriedStorable ==
    ASSUME NEW v \in Verified
    PROVE  Storable(v, Carried(v))
BY AbsentAssumption DEF Storable, Carried, Verified, Optional

\* The heights a consensus update adds are storable and hold no commitment.
LEMMA FreshStorable ==
    ASSUME NEW v \in Verified
    PROVE  /\ Storable(v, FreshHeights(v))
           /\ \A m \in StateMachines : \A h \in FreshHeights(v)[m] : commitments[m][h] = Absent
BY AbsentAssumption DEF Storable, FreshHeights, Carried, Verified, Optional

\* Storing commitments keeps the types of the maps it writes
\* (store_state_machine_commitment and its companions).
LEMMA StoreTypes ==
    ASSUME TypeOK, NEW v, NEW k, Storable(v, k), StoreCommitments(v, k)
    PROVE  /\ commitments' \in Verified
           /\ updateTime' \in [StateMachines -> [Heights -> Optional(Time)]]
           /\ storedAt' \in [StateMachines -> [Heights -> Optional(Time)]]
           /\ latest' \in [StateMachines -> Heights \cup {0, 1}]
<1>1. commitments' \in Verified
  BY DEF TypeOK, Storable, StoreCommitments, Verified, Optional
<1>2. updateTime' \in [StateMachines -> [Heights -> Optional(Time)]]
  BY DEF TypeOK, Storable, StoreCommitments, Optional
<1>3. storedAt' \in [StateMachines -> [Heights -> Optional(Time)]]
  BY DEF TypeOK, Storable, StoreCommitments, Optional
<1> QED
  BY <1>1, <1>2, <1>3 DEF StoreCommitments

\* Storing commitments when the client is updated keeps every commitment
\* dated no later than the client.
LEMMA StoreDates ==
    ASSUME TypeOK, CommitmentsNotNewerThanClient, NEW v, NEW k, Storable(v, k),
           StoreCommitments(v, k), consensusUpdateTime' = now, now' = now
    PROVE  CommitmentsNotNewerThanClient'
<1> SUFFICES ASSUME NEW m \in StateMachines, NEW h \in Heights, commitments'[m][h] # Absent
             PROVE  /\ updateTime'[m][h] # Absent /\ consensusUpdateTime' # Absent
                    /\ updateTime'[m][h] = storedAt'[m][h]
                    /\ updateTime'[m][h] <= consensusUpdateTime'
                    /\ consensusUpdateTime' <= now'
  BY DEF CommitmentsNotNewerThanClient
<1>0. now \in Time
  BY Zenon DEF TypeOK
<1>1. now \in Nat /\ now # Absent
  BY <1>0, BoundsAssumption, AbsentAssumption DEF Time
<1>2. CASE h \in k[m]
  BY <1>1, <1>2 DEF StoreCommitments
<1>3. CASE h \notin k[m]
  <2>1. commitments[m][h] # Absent
    BY <1>3 DEF StoreCommitments
  <2>2. /\ updateTime[m][h] # Absent /\ consensusUpdateTime # Absent
        /\ updateTime[m][h] = storedAt[m][h]
        /\ updateTime[m][h] <= consensusUpdateTime
        /\ consensusUpdateTime <= now
    BY <2>1 DEF CommitmentsNotNewerThanClient
  <2>3. updateTime[m][h] \in Nat /\ consensusUpdateTime \in Nat
    BY <2>2, BoundsAssumption DEF TypeOK, Optional, Time
  <2>4. updateTime'[m][h] = updateTime[m][h] /\ storedAt'[m][h] = storedAt[m][h]
    BY <1>3 DEF StoreCommitments
  <2>5. updateTime[m][h] <= now /\ now <= now
    BY <1>1, <2>2, <2>3
  <2> QED
    BY Zenon, <1>1, <2>2, <2>4, <2>5
<1> QED
  BY Zenon, <1>2, <1>3

\* Storing commitments leaves the latest height on a stored one.
LEMMA StoreLatest ==
    ASSUME TypeOK, LatestIsStored, NEW v, NEW k, Storable(v, k), StoreCommitments(v, k)
    PROVE  LatestIsStored'
<1> SUFFICES ASSUME NEW m \in StateMachines, latest'[m] \notin {0, 1}
             PROVE  commitments'[m][latest'[m]] # Absent
  BY DEF LatestIsStored
<1>1. latest'[m] \in Heights
  BY DEF StoreCommitments
<1>2. CASE k[m] = {}
  BY <1>1, <1>2 DEF StoreCommitments, LatestIsStored
<1>3. CASE k[m] # {}
  <2>1. latest'[m] \in k[m]
    BY <1>3 DEF StoreCommitments, IsHighest
  <2> QED
    BY <1>1, <2>1, AbsentAssumption DEF StoreCommitments, Storable
<1> QED
  BY <1>2, <1>3

----------------------------------------------------------------------------
\* One step per action: each keeps the types.
LEMMA TypeStep ==
    ASSUME TypeOK, CommitmentsNotNewerThanClient, [Next]_vars
    PROVE  TypeOK'
<1>1. ASSUME NEW p \in Periods, NEW ps \in [StateMachines -> Optional(Periods)],
             NEW v \in Verified, CreateClient(p, ps, v)
      PROVE  TypeOK'
  <2>1. /\ commitments' \in Verified
        /\ updateTime' \in [StateMachines -> [Heights -> Optional(Time)]]
        /\ storedAt' \in [StateMachines -> [Heights -> Optional(Time)]]
        /\ latest' \in [StateMachines -> Heights \cup {0, 1}]
    BY <1>1, StoreTypes, CarriedStorable DEF CreateClient
  <2>2. challengePeriod' \in [StateMachines -> Optional(Periods)]
    BY <1>1 DEF CreateClient, MergePeriods, TypeOK
  <2>3. creations \in 0..MaxCreations /\ creations < MaxCreations /\ creations' = creations + 1
    BY Zenon, <1>1 DEF CreateClient, TypeOK
  <2>4. creations' \in 0..MaxCreations
    BY <2>3, BoundsAssumption
  <2> QED
    BY Zenon, <1>1, <2>1, <2>2, <2>4 DEF CreateClient, TypeOK, Optional
<1>2. ASSUME NEW p \in Optional(Periods), NEW ps \in [StateMachines -> Optional(Periods)],
             UpdateConsensusState(p, ps)
      PROVE  TypeOK'
  <2>1. challengePeriod' \in [StateMachines -> Optional(Periods)]
    BY <1>2 DEF UpdateConsensusState, MergePeriods, TypeOK
  <2> QED
    BY <1>2, <2>1 DEF UpdateConsensusState, TypeOK, clientVars, stateVars
<1>3. ASSUME NEW v \in Verified, UpdateClient(v)
      PROVE  TypeOK'
  <2>1. /\ commitments' \in Verified
        /\ updateTime' \in [StateMachines -> [Heights -> Optional(Time)]]
        /\ storedAt' \in [StateMachines -> [Heights -> Optional(Time)]]
        /\ latest' \in [StateMachines -> Heights \cup {0, 1}]
    BY <1>3, StoreTypes, FreshStorable DEF UpdateClient
  <2> QED
    BY <1>3, <2>1 DEF UpdateClient, TypeOK, Optional, configVars
<1>4. CASE FreezeClient
  BY <1>4 DEF FreezeClient, TypeOK, Optional, configVars, stateVars
<1>5. ASSUME NEW a \in Candidates, AddFisherman(a) \/ RemoveFisherman(a)
      PROVE  TypeOK'
  BY <1>5 DEF AddFisherman, RemoveFisherman, TypeOK, clientVars, stateVars
<1>6. ASSUME NEW a \in Candidates, NEW m \in StateMachines, NEW h \in Heights,
             VetoStateCommitment(a, m, h)
      PROVE  TypeOK'
  <2>0. /\ commitments \in Verified /\ latest \in [StateMachines -> Heights \cup {0, 1}]
        /\ storedAt \in [StateMachines -> [Heights -> Optional(Time)]]
    BY Zenon DEF TypeOK
  <2>1. commitments' \in Verified
    BY <1>6, <2>0 DEF VetoStateCommitment, Verified, Optional
  <2>2. storedAt' \in [StateMachines -> [Heights -> Optional(Time)]]
    BY <1>6, <2>0 DEF VetoStateCommitment, Optional
  <2>3. latest' \in [StateMachines -> Heights \cup {0, 1}]
    BY <1>6, <2>0 DEF VetoStateCommitment
  <2> QED
    BY Zenon, <1>6, <2>1, <2>2, <2>3 DEF VetoStateCommitment, TypeOK, configVars, clientVars
<1>7. ASSUME NEW m \in StateMachines, NEW h \in Heights, AcceptProof(m, h)
      PROVE  TypeOK'
  <2>0. /\ storedAt[m][h] # Absent /\ storedAt \in [StateMachines -> [Heights -> Optional(Time)]]
    BY Zenon, <1>7 DEF AcceptProof, TypeOK, CommitmentsNotNewerThanClient
  <2>1. storedAt[m][h] \in Time
    BY <2>0 DEF Optional
  <2>2. challengePeriod[m] \in Periods /\ commitments[m][h] \in Roots /\ now \in Time
    <3>1. /\ challengePeriod[m] # Absent /\ commitments[m][h] # Absent /\ now \in Time
          /\ challengePeriod \in [StateMachines -> Optional(Periods)] /\ commitments \in Verified
      BY Zenon, <1>7 DEF AcceptProof, StateMachineValid, DelayPassed, TypeOK
    <3> QED BY <3>1 DEF Verified, Optional
  <2>3. accepted' \in Acceptance
    BY <1>7, <2>1, <2>2 DEF AcceptProof, Acceptance
  <2> QED
    BY <1>7, <2>3 DEF AcceptProof, TypeOK, Optional, configVars, clientVars, stateVars
<1>8. CASE Tick
  BY <1>8, BoundsAssumption DEF Tick, TypeOK, Time, configVars, clientVars, stateVars
<1>9. CASE UNCHANGED vars
  BY <1>9 DEF vars, TypeOK, configVars, clientVars, stateVars
<1> QED
  BY <1>1, <1>2, <1>3, <1>4, <1>5, <1>6, <1>7, <1>8, <1>9 DEF Next

\* Only storing, vetoing and updating the client touch the dates.
LEMMA DatesStep ==
    ASSUME TypeOK, CommitmentsNotNewerThanClient, [Next]_vars
    PROVE  CommitmentsNotNewerThanClient'
<1>0. now \in Nat /\ now # Absent
  BY BoundsAssumption, AbsentAssumption DEF TypeOK, Time
<1>1. ASSUME NEW p \in Periods, NEW ps \in [StateMachines -> Optional(Periods)],
             NEW v \in Verified, CreateClient(p, ps, v)
      PROVE  CommitmentsNotNewerThanClient'
  BY <1>1, StoreDates, CarriedStorable DEF CreateClient
<1>2. ASSUME NEW v \in Verified, UpdateClient(v)
      PROVE  CommitmentsNotNewerThanClient'
  BY <1>2, StoreDates, FreshStorable DEF UpdateClient
<1>3. CASE FreezeClient
  <2> SUFFICES ASSUME NEW m \in StateMachines, NEW h \in Heights, commitments[m][h] # Absent
               PROVE  /\ updateTime[m][h] # Absent /\ now # Absent
                      /\ updateTime[m][h] = storedAt[m][h]
                      /\ updateTime[m][h] <= now
                      /\ now <= now
    BY <1>3 DEF FreezeClient, CommitmentsNotNewerThanClient, stateVars
  <2>1. /\ updateTime[m][h] # Absent /\ consensusUpdateTime # Absent
        /\ updateTime[m][h] = storedAt[m][h]
        /\ updateTime[m][h] <= consensusUpdateTime
        /\ consensusUpdateTime <= now
    BY DEF CommitmentsNotNewerThanClient
  <2>2. updateTime[m][h] \in Nat /\ consensusUpdateTime \in Nat
    BY <2>1, BoundsAssumption DEF TypeOK, Optional, Time
  <2> QED
    BY <1>0, <2>1, <2>2
<1>4. ASSUME NEW a \in Candidates, NEW m \in StateMachines, NEW h \in Heights,
             VetoStateCommitment(a, m, h)
      PROVE  CommitmentsNotNewerThanClient'
  <2> SUFFICES ASSUME NEW n \in StateMachines, NEW g \in Heights, commitments'[n][g] # Absent
               PROVE  /\ commitments[n][g] # Absent
                      /\ storedAt'[n][g] = storedAt[n][g]
    BY <1>4 DEF VetoStateCommitment, CommitmentsNotNewerThanClient, clientVars
  <2>1. n # m \/ g # h
    BY <1>4 DEF VetoStateCommitment, TypeOK, Verified
  <2> QED
    BY <1>4, <2>1 DEF VetoStateCommitment, TypeOK, Verified
<1>5. CASE Tick
  <2>1. now' \in Nat /\ now <= now'
    BY <1>0, <1>5 DEF Tick
  <2>2. consensusUpdateTime # Absent => consensusUpdateTime \in Nat
    BY BoundsAssumption DEF TypeOK, Optional, Time
  <2> QED
    BY <1>0, <1>5, <2>1, <2>2 DEF Tick, CommitmentsNotNewerThanClient, clientVars, stateVars
<1>6. ASSUME UNCHANGED <<now, consensusUpdateTime, commitments, updateTime, storedAt>>
      PROVE  CommitmentsNotNewerThanClient'
  BY <1>6 DEF CommitmentsNotNewerThanClient
<1> QED
  BY ZenonT(20), <1>1, <1>2, <1>3, <1>4, <1>5, <1>6
  DEF Next, UpdateConsensusState, AddFisherman, RemoveFisherman, AcceptProof, vars,
      clientVars, stateVars, configVars

\* A proof accepted now is of a commitment whose own window has passed.
LEMMA WindowStep ==
    ASSUME TypeOK, CommitmentsNotNewerThanClient, ChallengeWindowElapsed, [Next]_vars
    PROVE  ChallengeWindowElapsed'
<1>1. ASSUME NEW m \in StateMachines, NEW h \in Heights, AcceptProof(m, h)
      PROVE  ChallengeWindowElapsed'
  <2>1. updateTime[m][h] = storedAt[m][h]
    BY <1>1 DEF AcceptProof, CommitmentsNotNewerThanClient
  <2>2. challengePeriod[m] = 0 \/ now - storedAt[m][h] > challengePeriod[m]
    BY <1>1, <2>1 DEF AcceptProof, StateMachineValid, DelayPassed
  <2> QED
    BY <1>1, <2>2 DEF AcceptProof, ChallengeWindowElapsed
<1>2. ASSUME accepted' = accepted
      PROVE  ChallengeWindowElapsed'
  BY <1>2 DEF ChallengeWindowElapsed
<1> QED
  BY <1>1, <1>2
  DEF Next, CreateClient, UpdateConsensusState, UpdateClient, FreezeClient, AddFisherman,
      RemoveFisherman, VetoStateCommitment, Tick, vars

\* The latest height follows the commitments stored and vetoed.
LEMMA LatestStep ==
    ASSUME TypeOK, LatestIsStored, [Next]_vars
    PROVE  LatestIsStored'
<1>1. ASSUME NEW p \in Periods, NEW ps \in [StateMachines -> Optional(Periods)],
             NEW v \in Verified, CreateClient(p, ps, v)
      PROVE  LatestIsStored'
  BY ZenonT(20), <1>1, StoreLatest, CarriedStorable DEF CreateClient
<1>2. ASSUME NEW v \in Verified, UpdateClient(v)
      PROVE  LatestIsStored'
  BY <1>2, StoreLatest, FreshStorable DEF UpdateClient
<1>3. ASSUME NEW a \in Candidates, NEW m \in StateMachines, NEW h \in Heights,
             VetoStateCommitment(a, m, h)
      PROVE  LatestIsStored'
  <2> SUFFICES ASSUME NEW n \in StateMachines, latest'[n] \notin {0, 1}
               PROVE  commitments'[n][latest'[n]] # Absent
    BY DEF LatestIsStored
  <2>1. latest'[n] = latest[n] /\ (n # m \/ latest[n] # h) /\ latest[n] \in Heights
    BY <1>3 DEF VetoStateCommitment, TypeOK
  <2>2. commitments[n][latest[n]] # Absent
    BY <2>1 DEF LatestIsStored
  <2> QED
    BY <1>3, <2>1, <2>2 DEF VetoStateCommitment, TypeOK, Verified
<1>4. ASSUME UNCHANGED <<commitments, latest>>
      PROVE  LatestIsStored'
  BY <1>4 DEF LatestIsStored
<1> QED
  BY ZenonT(20), <1>1, <1>2, <1>3, <1>4
  DEF Next, UpdateConsensusState, FreezeClient, AddFisherman, RemoveFisherman, AcceptProof,
      Tick, vars, stateVars

----------------------------------------------------------------------------
\* In every reachable state the storage is well typed, commitments are dated
\* no later than the client, the latest height is stored, and the last proof
\* accepted was of a commitment past its challenge window.
THEOREM InvHolds == Spec => []Inv
<1>1. Init => Inv
  <2> SUFFICES ASSUME Init PROVE Inv
    OBVIOUS
  <2>1. TypeOK
    <3>1. now \in Time /\ creations \in 0..MaxCreations
      BY BoundsAssumption DEF Init, Time
    <3>2. commitments \in Verified
      BY DEF Init, Verified, Optional
    <3>3. /\ updateTime \in [StateMachines -> [Heights -> Optional(Time)]]
          /\ storedAt \in [StateMachines -> [Heights -> Optional(Time)]]
      BY DEF Init, Optional
    <3>4. /\ latest \in [StateMachines -> Heights \cup {0, 1}]
          /\ challengePeriod \in [StateMachines -> Optional(Periods)]
      BY DEF Init, Optional
    <3>5. /\ frozen \in BOOLEAN /\ fishermen \in SUBSET Candidates
          /\ consensusUpdateTime \in Optional(Time)
          /\ unbondingPeriod \in Optional(Periods)
          /\ accepted \in Optional(Acceptance)
      BY Zenon DEF Init, Optional
    <3> QED
      BY <3>1, <3>2, <3>3, <3>4, <3>5 DEF TypeOK
  <2> QED
    BY <2>1 DEF Init, Inv, CommitmentsNotNewerThanClient, ChallengeWindowElapsed, LatestIsStored
<1>2. Inv /\ [Next]_vars => Inv'
  BY TypeStep, DatesStep, WindowStep, LatestStep DEF Inv
<1> QED
  BY <1>1, <1>2, PTL DEF Spec

\* Type correctness of the pallet's storage maps.
THEOREM TypeCorrect == Spec => []TypeOK
BY InvHolds, PTL DEF Inv

\* No proof is ever accepted inside the challenge window of the commitment it
\* is checked against (verify_delay_passed), however commitments are vetoed
\* and stored again.
THEOREM ChallengeWindowSafe == Spec => []ChallengeWindowElapsed
BY InvHolds, PTL DEF Inv

\* A client's commitments are never newer than its last update, so is_expired
\* judges them all.
THEOREM CommitmentsDated == Spec => []CommitmentsNotNewerThanClient
BY InvHolds, PTL DEF Inv

\* The latest height is that of a stored commitment or a reset value.
THEOREM LatestStored == Spec => []LatestIsStored
BY InvHolds, PTL DEF Inv

----------------------------------------------------------------------------
\* No step but the admin's create_client replaces a stored commitment: a
\* consensus update skips known heights and a veto only removes.
THEOREM CommitmentsNeverReplaced == Spec => CommitmentsImmutable
<1> DEFINE Kept == creations' = creations =>
                     \A m \in StateMachines, h \in Heights :
                         commitments[m][h] # Absent =>
                             commitments'[m][h] \in {commitments[m][h], Absent}
<1>1. ASSUME TypeOK, [Next]_vars
      PROVE  Kept
  <2>1. ASSUME NEW p \in Periods, NEW ps \in [StateMachines -> Optional(Periods)],
               NEW v \in Verified, CreateClient(p, ps, v)
        PROVE  creations' # creations
    <3>1. creations \in 0..MaxCreations /\ creations' = creations + 1
      BY Zenon, <1>1, <2>1 DEF CreateClient, TypeOK
    <3> QED BY <3>1
  <2>2. ASSUME NEW v \in Verified, UpdateClient(v)
        PROVE  Kept
    BY Zenon, <2>2, FreshStorable DEF UpdateClient, StoreCommitments
  <2>3. ASSUME NEW a \in Candidates, NEW m \in StateMachines, NEW h \in Heights,
               VetoStateCommitment(a, m, h)
        PROVE  Kept
    BY <1>1, <2>3 DEF VetoStateCommitment, TypeOK, Verified
  <2>4. ASSUME UNCHANGED commitments
        PROVE  Kept
    BY <2>4
  <2> QED
    BY Zenon, <1>1, <2>1, <2>2, <2>3, <2>4
    DEF Next, UpdateConsensusState, FreezeClient, AddFisherman, RemoveFisherman, AcceptProof,
        Tick, vars, stateVars
<1>2. TypeOK /\ [Next]_vars => [Kept]_vars
  BY <1>1
<1> QED
  BY <1>2, TypeCorrect, PTL DEF Spec, CommitmentsImmutable

\* Once a fraud proof has frozen the client, it stays frozen and no handler
\* accepts a proof from it again.
THEOREM FreezeIsFinal == Spec => FrozenIsFinal
<1>1. ASSUME [Next]_vars, frozen
      PROVE  frozen' /\ accepted' = accepted
  BY Zenon, <1>1
  DEF Next, CreateClient, UpdateConsensusState, UpdateClient, FreezeClient, AddFisherman,
      RemoveFisherman, VetoStateCommitment, AcceptProof, StateMachineValid, Tick, vars,
      clientVars, configVars, stateVars
<1>2. [Next]_vars => [frozen => frozen' /\ accepted' = accepted]_vars
  BY <1>1
<1> QED
  BY <1>2, PTL DEF Spec, FrozenIsFinal

\* A frozen or expired client is not updated (is_consensus_client_frozen and
\* is_expired in update_client).
THEOREM DeadClientStaysDead == Spec => DeadClientLearnsNothing
<1> DEFINE Nothing == (frozen \/ IsExpired) /\ creations' = creations =>
               /\ \A m \in StateMachines, h \in Heights :
                      commitments'[m][h] \in {commitments[m][h], Absent}
               /\ consensusUpdateTime' # consensusUpdateTime => frozen' /\ ~frozen
<1>1. ASSUME TypeOK, [Next]_vars
      PROVE  Nothing
  <2>1. ASSUME NEW p \in Periods, NEW ps \in [StateMachines -> Optional(Periods)],
               NEW v \in Verified, CreateClient(p, ps, v)
        PROVE  creations' # creations
    <3>1. creations \in 0..MaxCreations /\ creations' = creations + 1
      BY Zenon, <1>1, <2>1 DEF CreateClient, TypeOK
    <3> QED BY <3>1
  <2>2. ASSUME NEW a \in Candidates, NEW m \in StateMachines, NEW h \in Heights,
               VetoStateCommitment(a, m, h)
        PROVE  Nothing
    BY <1>1, <2>2 DEF VetoStateCommitment, TypeOK, Verified, clientVars
  <2>3. CASE FreezeClient
    BY <2>3 DEF FreezeClient, stateVars
  <2>4. ASSUME UNCHANGED <<commitments, consensusUpdateTime>>
        PROVE  Nothing
    BY <2>4
  <2>5. ASSUME NEW v \in Verified, UpdateClient(v)
        PROVE  Nothing
    BY <2>5 DEF UpdateClient
  <2> QED
    BY Zenon, <1>1, <2>1, <2>2, <2>3, <2>4, <2>5
    DEF Next, UpdateConsensusState, AddFisherman, RemoveFisherman, AcceptProof, Tick, vars,
        stateVars, clientVars
<1>2. TypeOK /\ [Next]_vars => [Nothing]_vars
  BY <1>1
<1> QED
  BY <1>2, TypeCorrect, PTL DEF Spec, DeadClientLearnsNothing
============================================================================
