----------------------------- MODULE MCChains -----------------------------
\* The parts that follow a chain, side by side: the light clients, each with its
\* own counterparty, and the offchain Merkle mountain range of a node.  They
\* share nothing, so a behaviour is one of a single part: the one `active`
\* names.
EXTENDS Integers

CONSTANTS
    SLOTS_PER_EPOCH, EPOCHS_PER_SYNC_COMMITTEE_PERIOD, SYNC_COMMITTEE_SIZE,
    Votes, MaxSlot, MaxGap, MaxWeak,
    EPOCH_LENGTH, ValidatorSize, MaxAncestry, MaxNumber, MaxMissed,
    UnStakingPeriod, MaxBlock,
    ParaIds, MaxRelay,
    MaxHead, MaxInFlight, MaxBscInFlight,
    Messages, MaxBlocks, MaxBranch, MaxPushed, StateWindow

VARIABLES
    active,
    beacon, beaconClient, beaconUpdates,
    bscHeaders, bscClient, bscUpdates,
    beefyRelay, beefyContract, beefyState, beefyStored, beefyLatest,
    beefyElapsed, beefyFrozen, beefyProofs,
    relay, current, commitments, parachains, latest, consensusUpdated,
    inherent, phase,
    blocks, finalized, notifications, temp, canon, aux, gadget

\* Sessions with authority sets of different sizes.
SetLen == [s \in 0..3 |-> IF s % 2 = 0 THEN 3 ELSE 5]

Sync == INSTANCE SyncCommitteeClient WITH
    client <- beaconClient, updates <- beaconUpdates
Bsc == INSTANCE BscClient WITH
    headers <- bscHeaders, client <- bscClient, updates <- bscUpdates,
    MaxInFlight <- MaxBscInFlight
Beefy == INSTANCE BeefyClient WITH
    relay <- beefyRelay, consensusClient <- beefyContract, state <- beefyState,
    stored <- beefyStored, latest <- beefyLatest, elapsed <- beefyElapsed,
    frozen <- beefyFrozen, proofs <- beefyProofs
Para == INSTANCE ParachainClient
Mmr == INSTANCE OffchainMmr

ASSUME Sync!SyncConstants /\ Bsc!BscConstants /\ Beefy!BeefyConstants

syncVars == <<beacon, beaconClient, beaconUpdates>>
bscVars == <<bscHeaders, bscClient, bscUpdates>>
beefyVars == <<beefyRelay, beefyContract, beefyState, beefyStored, beefyLatest,
               beefyElapsed, beefyFrozen, beefyProofs>>
paraVars == <<relay, current, commitments, parachains, latest,
              consensusUpdated, inherent, phase>>
mmrVars == <<blocks, finalized, notifications, temp, canon, aux, gadget>>

MCInit ==
    /\ active \in {"sync-committee", "bsc", "beefy", "parachain", "mmr"}
    /\ Sync!Init /\ Bsc!Init /\ Beefy!Init /\ Para!Init /\ Mmr!Init
    \* One initial state for each of the others.
    /\ active = "beefy" \/ beefyContract = "BeefyV1"

\* Each part steps on its own.
SyncStep ==
    /\ active = "sync-committee" /\ Sync!Next
    /\ UNCHANGED <<active, bscVars, beefyVars, paraVars, mmrVars>>
BscStep ==
    /\ active = "bsc" /\ Bsc!Next
    /\ UNCHANGED <<active, syncVars, beefyVars, paraVars, mmrVars>>
BeefyStep ==
    /\ active = "beefy" /\ Beefy!Next
    /\ UNCHANGED <<active, syncVars, bscVars, paraVars, mmrVars>>
ParaStep ==
    /\ active = "parachain" /\ Para!Next
    /\ UNCHANGED <<active, syncVars, bscVars, beefyVars, mmrVars>>
MmrStep ==
    /\ active = "mmr" /\ Mmr!Next
    /\ UNCHANGED <<active, syncVars, bscVars, beefyVars, paraVars>>

MCNext == SyncStep \/ BscStep \/ BeefyStep \/ ParaStep \/ MmrStep

MCSpec ==
    MCInit /\ [][MCNext]_<<active, syncVars, bscVars, beefyVars, paraVars, mmrVars>>

----------------------------------------------------------------------------
\* The authority sets a client checks signatures with are those its
\* counterparty uses (verify_sync_committee_attestation, the BSC and BEEFY
\* verify_consensus).
AuthoritiesTracked ==
    CASE active = "sync-committee" -> Sync!CommitteesTracked
      [] active = "bsc" -> Bsc!ValidatorsTracked
      [] active = "beefy" -> Beefy!AuthoritiesTracked
      [] OTHER -> TRUE

\* An update a prover builds for the client as it is now is accepted, outside
\* the exceptions each client states (the provers' fetch functions against
\* the verifiers' checks).
FreshUpdateAccepted ==
    CASE active = "sync-committee" -> Sync!FreshUpdateAccepted
      [] active = "bsc" -> Bsc!FreshUpdateAccepted
      [] active = "beefy" -> Beefy!FreshUpdateAccepted
      [] active = "parachain" -> Para!InherentApplies
      [] OTHER -> TRUE

\* Every state commitment of an EVM host is of a parachain block included at
\* the relay chain height its client trusts (HandlerV1.handleConsensus).
HeadsIncluded == active = "beefy" => Beefy!HeadsIncluded

\* Every client implements LightClient: what it trusts was finalized by its
\* counterparty and only moves forward (verify_consensus).
ClientsFollow ==
    /\ Sync!FollowsChain /\ Bsc!FollowsChain
    /\ Beefy!FollowsChain /\ Para!FollowsChain

\* A canonical key holds a node of the finalized chain, never one of a fork
\* (canonicalize_branch): proofs made from it match the finalized root.
CanonIsFinalized == active = "mmr" => Mmr!CanonIsFinalized

\* No node of a block that is or can still become finalized is ever lost:
\* clearing a stale fork spares the keys it shares with a live one
\* (prune_branch), and a restart between two steps loses none.
NodesKept == active = "mmr" => Mmr!NodesKept

\* The gadget, and the state it starts again from, only pass over finalized
\* blocks whose nodes are canonical, or whose state the node no longer has
\* (canonicalize_branch, canonicalize_catch_up, write_gadget_state).
PassesOverCanonical == [][Mmr!OverCanonical]_mmrVars
============================================================================
