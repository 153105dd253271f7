-------------------------- MODULE ParachainClient --------------------------
(***************************************************************************)
(* The parachain consensus client: a parachain learns the heads of its     *)
(* siblings from the state roots of the relay chain blocks it was built    *)
(* on.  The block author adds an inherent made from the parent block's     *)
(* state; anyone may also submit a proof for a relay chain height the      *)
(* parachain has on record.                                                *)
(*                                                                         *)
(* Sources: `ismp/clients/parachain/client/src/{lib,consensus}.rs`,        *)
(* `ismp/clients/parachain/inherent/src/lib.rs`, read_proof_check of       *)
(* `ismp/state-machines/substrate/src/lib.rs`, and update_client of        *)
(* `ismp/core/src/handlers/consensus.rs` for what is stored.               *)
(*                                                                         *)
(* A storage proof covers the keys it was made for: reading another one    *)
(* meets a missing trie node, which is an error.                           *)
(***************************************************************************)
EXTENDS Integers, Sequences, FiniteSets, SequencesExt

CONSTANTS
    ParaIds,    \* the sibling parachains
    MaxRelay,   \* bound on the length of the relay chain
    MaxHead     \* bound on the height of a parachain

VARIABLES
    relay,              \* the relay chain: the head of each parachain
    current,            \* current_relay_chain_state().number
    commitments,        \* RelayChainStateCommitments: the heights in it
    parachains,         \* Parachains, the whitelist
    latest,             \* latest_state_machine_height of each parachain
    consensusUpdated,   \* ConsensusUpdated
    inherent,           \* the inherent of the block being built
    phase               \* of the block being built

blockVars == <<consensusUpdated, inherent, phase>>
vars == <<relay, current, commitments, parachains, latest, blockVars>>

NoMessage == [relay_height |-> 0, para_ids |-> {}]

----------------------------------------------------------------------------
(* The relay chain (external).                                             *)

\* A relay chain block includes at most one new head of each parachain.
ProduceRelayBlock ==
    /\ Len(relay) < MaxRelay
    /\ \E included \in SUBSET ParaIds :
         /\ \A p \in included : Last(relay)[p] < MaxHead
         /\ relay' = Append(relay, [p \in ParaIds |->
                       Last(relay)[p] + IF p \in included THEN 1 ELSE 0])
    /\ UNCHANGED <<current, commitments, parachains, latest, blockVars>>

----------------------------------------------------------------------------
(* The consensus client.                                                   *)

\* The relay chain state roots verify_consensus knows: its registry's, and
\* that of the block being executed.
KnownRoots == commitments \union {current}

\* verify_consensus reads the head of every whitelisted parachain from the
\* proof.
Verifies(message) ==
    /\ message.relay_height \in KnownRoots
    /\ parachains \subseteq message.para_ids

\* update_client stores the heads that are new.
UpdateClient(message) ==
    latest' = [p \in ParaIds |->
                 IF p \in parachains /\ relay[message.relay_height][p] > latest[p]
                 THEN relay[message.relay_height][p]
                 ELSE latest[p]]

\* The inherent ConsensusInherentProvider::create makes from the parent
\* block's state: the whitelisted parachains with a head newer than the one
\* stored, at the parent's relay chain block.
Stale(p) == latest[p] >= relay[current][p]

CreateInherent ==
    LET fetch == {p \in parachains : ~Stale(p)}
    IN  IF fetch = {} THEN NoMessage
        ELSE [relay_height |-> current, para_ids |-> fetch]

----------------------------------------------------------------------------
(* A block of the parachain.                                               *)

\* The author makes the inherent and the block is initialized on a relay
\* parent no older than the last one: on_initialize.
BeginBlock ==
    /\ phase = "none"
    /\ inherent' = CreateInherent
    /\ current' \in current .. Len(relay)
    /\ consensusUpdated' = FALSE
    /\ phase' = "inherents"
    /\ UNCHANGED <<relay, commitments, parachains, latest>>

\* update_parachain_consensus.  A failure leaves the state as it was.
update_parachain_consensus ==
    /\ phase = "inherents"
    /\ IF inherent # NoMessage /\ Verifies(inherent)
       THEN UpdateClient(inherent) /\ consensusUpdated' = TRUE
       ELSE UNCHANGED <<latest, consensusUpdated>>
    /\ phase' = "extrinsics"
    /\ UNCHANGED <<relay, current, commitments, parachains, inherent>>

\* A consensus message submitted to pallet-ismp, with a proof for any relay
\* chain height: an old one if it was delayed.
SubmitConsensus ==
    /\ phase = "extrinsics"
    /\ \E height \in DOMAIN relay, ids \in SUBSET ParaIds :
         LET message == [relay_height |-> height, para_ids |-> ids]
         IN  Verifies(message) /\ UpdateClient(message)
    /\ UNCHANGED <<relay, current, commitments, parachains, blockVars>>

add_parachain ==
    /\ phase = "extrinsics"
    /\ \E p \in ParaIds \ parachains : parachains' = parachains \union {p}
    /\ UNCHANGED <<relay, current, commitments, latest, blockVars>>

remove_parachain ==
    /\ phase = "extrinsics"
    /\ \E p \in parachains : parachains' = parachains \ {p}
    /\ UNCHANGED <<relay, current, commitments, latest, blockVars>>

\* on_finalize puts the relay chain state root on record.
on_finalize ==
    /\ phase = "extrinsics"
    /\ commitments' = commitments \union {current}
    /\ phase' = "none"
    /\ inherent' = NoMessage
    /\ UNCHANGED <<relay, current, parachains, latest, consensusUpdated>>

----------------------------------------------------------------------------
Init ==
    /\ relay = <<[p \in ParaIds |-> 0]>>
    /\ current = 1
    /\ commitments = {1}
    /\ parachains = ParaIds
    /\ latest = [p \in ParaIds |-> 0]
    /\ consensusUpdated = FALSE
    /\ inherent = NoMessage
    /\ phase = "none"

Next ==
    \/ ProduceRelayBlock
    \/ BeginBlock
    \/ update_parachain_consensus
    \/ SubmitConsensus
    \/ add_parachain
    \/ remove_parachain
    \/ on_finalize

Spec == Init /\ [][Next]_vars

----------------------------------------------------------------------------
\* The inherent is refused only when it leaves out a whitelisted parachain,
\* one without a new head: the relay chain state its author read from the
\* parent block is on record when it executes.
InherentApplies ==
    phase = "inherents" /\ inherent # NoMessage =>
        Verifies(inherent) \/ inherent.para_ids # parachains

\* The client trusts only heads the relay chain has included, in order.
Abstract(p) == INSTANCE LightClient WITH
    finalized <- Last(relay)[p], trusted <- latest[p]

FollowsChain ==
    /\ \A p \in ParaIds : Abstract(p)!Init
    /\ [][\A p \in ParaIds : \/ Abstract(p)!Next
                             \/ UNCHANGED <<Last(relay)[p], latest[p]>>]_vars
============================================================================
