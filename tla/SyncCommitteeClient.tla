------------------------ MODULE SyncCommitteeClient ------------------------
(***************************************************************************)
(* The Ethereum light client: the beacon chain it follows, the prover that *)
(* builds its updates and the verifier that applies them.  Updates are     *)
(* delayed, lost and delivered again: the one that arrives may have been   *)
(* built for an older client state.                                        *)
(*                                                                         *)
(* Sources: `consensus/sync-committee/{verifier,prover}/src/lib.rs`,       *)
(* `consensus/sync-committee/primitives/src/util.rs`,                      *)
(* `ismp/clients/sync-committee/src/beacon_client.rs`.                     *)
(*                                                                         *)
(* A sync committee is named by its period.  A signature verifies exactly  *)
(* when the committee it is checked with is the one of the signature slot, *)
(* and Merkle branches verify for what the attested state really holds.    *)
(***************************************************************************)
EXTENDS Integers, Sequences, FiniteSets, FiniteSetsExt

CONSTANTS
    SLOTS_PER_EPOCH,
    EPOCHS_PER_SYNC_COMMITTEE_PERIOD,
    SYNC_COMMITTEE_SIZE,
    Votes,      \* numbers of committee members that may sign a block
    MaxSlot,    \* bound on the length of the beacon chain
    MaxGap,     \* bound on the consecutive slots without a block
    MaxWeak,    \* bound on the blocks too few of the committee sign
    MaxInFlight \* bound on the updates on their way

\* What the constants have to be.
SyncConstants ==
    /\ SLOTS_PER_EPOCH \in Nat \ {0}
    /\ EPOCHS_PER_SYNC_COMMITTEE_PERIOD \in Nat \ {0}
    /\ SYNC_COMMITTEE_SIZE \in Nat \ {0}
    /\ Votes \subseteq 0..SYNC_COMMITTEE_SIZE

VARIABLES
    beacon,     \* the blocks of the beacon chain: [slot, epoch, votes]
    client,     \* VerifierState
    updates     \* the VerifierStateUpdates on their way

vars == <<beacon, client, updates>>

None == -1

compute_epoch_at_slot(slot) == slot \div SLOTS_PER_EPOCH

compute_sync_committee_period_at_slot(slot) ==
    compute_epoch_at_slot(slot) \div EPOCHS_PER_SYNC_COMMITTEE_PERIOD

should_have_sync_committee_update(statePeriod, signaturePeriod) ==
    signaturePeriod = statePeriod + 1

\* Two thirds of the committee and one more.
MinSignatures == (2 * SYNC_COMMITTEE_SIZE) \div 3 + 1

----------------------------------------------------------------------------
(* The beacon chain (external).                                            *)

Newest(chain) == chain[Len(chain)]

\* The block a checkpoint of an epoch refers to: the last one at or before
\* the epoch's first slot.
CheckpointSlot(chain, epoch) ==
    Max({chain[i].slot : i \in {j \in DOMAIN chain :
                                  chain[j].slot <= epoch * SLOTS_PER_EPOCH}})

WeakBlocks == {i \in 2..Len(beacon) : beacon[i].votes < MinSignatures}

\* A block is added to the chain.  It holds the votes of the committee for
\* its parent.  Finality either stands still or reaches the epoch before
\* the last.
ProduceBlock ==
    LET head == Newest(beacon) IN
    /\ \E slot \in head.slot + 1 .. head.slot + 1 + MaxGap, votes \in Votes :
         /\ slot <= MaxSlot
         /\ votes >= MinSignatures \/ Cardinality(WeakBlocks) < MaxWeak
         /\ \E epoch \in {head.epoch,
                         Max({head.epoch, compute_epoch_at_slot(slot) - 2})} :
              beacon' = Append(beacon,
                          [slot |-> slot, epoch |-> epoch, votes |-> votes])
    /\ UNCHANGED <<client, updates>>

----------------------------------------------------------------------------
(* The prover.                                                             *)

\* Mutant: blocks few of the committee signed are taken too.
SignatureBlocksWeak(chain, c) ==
    {i \in 2..Len(chain) :
       /\ compute_sync_committee_period_at_slot(chain[i].slot)
            \in {c.state_period, c.state_period + 1}
       /\ chain[i - 1].epoch > c.latest_finalized_epoch}

\* The blocks fetch_light_client_update may settle on when it walks back
\* from the head: signed by enough of a committee the client knows, on top
\* of a state that finalized an epoch the client has not seen.
SignatureBlocks(chain, c) ==
    {i \in 2..Len(chain) :
       /\ chain[i].votes >= MinSignatures
       /\ compute_sync_committee_period_at_slot(chain[i].slot)
            \in {c.state_period, c.state_period + 1}
       /\ chain[i - 1].epoch > c.latest_finalized_epoch}

\* Mutant: whatever the client's next committee is.
SyncCommitteeUpdateUnmatched(c, signaturePeriod, attestedPeriod) ==
    IF should_have_sync_committee_update(c.state_period, signaturePeriod)
    THEN attestedPeriod + 1
    ELSE None

\* The next committee of the attested state is proved only when the client's
\* next committee is the attested state's current one.
SyncCommitteeUpdate(c, signaturePeriod, attestedPeriod) ==
    IF /\ should_have_sync_committee_update(c.state_period, signaturePeriod)
       /\ c.next_sync_committee = attestedPeriod
    THEN attestedPeriod + 1
    ELSE None

\* The update built from signature block i of the chain.
LightClientUpdate(chain, c, i) ==
    [signature_slot |-> chain[i].slot,
     votes |-> chain[i].votes,
     attested |-> chain[i - 1].slot,
     epoch |-> chain[i - 1].epoch,
     finalized |-> CheckpointSlot(chain, chain[i - 1].epoch),
     committee |-> SyncCommitteeUpdate(c,
                     compute_sync_committee_period_at_slot(chain[i].slot),
                     compute_sync_committee_period_at_slot(chain[i - 1].slot))]

\* The newest of them is taken; there is nothing to fetch before the head has
\* finalized an epoch the client has not seen.
fetch_light_client_update(chain, c) ==
    LET blocks == SignatureBlocks(chain, c) IN
    IF c.latest_finalized_epoch >= Newest(chain).epoch \/ blocks = {}
    THEN {}
    ELSE {LightClientUpdate(chain, c, Max(blocks))}

BuildUpdate ==
    /\ Cardinality(updates) < MaxInFlight
    /\ \E u \in fetch_light_client_update(beacon, client) :
         updates' = updates \union {u}
    /\ UNCHANGED <<beacon, client>>

\* An update is lost.
LoseUpdate ==
    /\ \E u \in updates : updates' = updates \ {u}
    /\ UNCHANGED <<beacon, client>>

----------------------------------------------------------------------------
(* The verifier.                                                           *)

\* The committee the aggregate signature is checked with.
SigningCommittee(c, signaturePeriod) ==
    IF signaturePeriod = c.state_period
    THEN c.current_sync_committee
    ELSE c.next_sync_committee

\* The checks of verify_sync_committee_attestation.
ValidAttestation(c, u) ==
    LET signaturePeriod == compute_sync_committee_period_at_slot(u.signature_slot)
    IN  /\ u.votes >= MinSignatures
        /\ u.signature_slot > u.attested /\ u.attested > u.finalized
        /\ signaturePeriod \in {c.state_period, c.state_period + 1}
        /\ u.attested > c.finalized_header
        /\ u.epoch > c.latest_finalized_epoch
        /\ SigningCommittee(c, signaturePeriod) = signaturePeriod
        /\ should_have_sync_committee_update(c.state_period, signaturePeriod)
             => u.committee # None

\* The state it returns.
VerifierState(c, u) ==
    LET finality == [c EXCEPT !.finalized_header = u.finalized,
                              !.latest_finalized_epoch = u.epoch]
    IN  IF should_have_sync_committee_update(c.state_period,
             compute_sync_committee_period_at_slot(u.signature_slot))
        THEN [finality EXCEPT !.current_sync_committee = c.next_sync_committee,
                              !.next_sync_committee = u.committee,
                              !.state_period = c.state_period + 1]
        ELSE finality

\* An update reaches the client, which may see it again later.
verify_consensus ==
    /\ \E u \in updates :
         /\ ValidAttestation(client, u)
         /\ client' = VerifierState(client, u)
    /\ UNCHANGED <<beacon, updates>>

----------------------------------------------------------------------------
Init ==
    /\ beacon = <<[slot |-> 0, epoch |-> 0, votes |-> 0]>>
    /\ client = [finalized_header |-> 0, latest_finalized_epoch |-> 0,
                 current_sync_committee |-> 0, next_sync_committee |-> 1,
                 state_period |-> 0]
    /\ updates = {}

Next == ProduceBlock \/ BuildUpdate \/ LoseUpdate \/ verify_consensus

Spec == Init /\ [][Next]_vars

----------------------------------------------------------------------------
\* The committees the client holds are those of its period and of the one
\* after: the aggregate signatures of later updates are checked with the
\* keys that made them (verifier/src/lib.rs:73, :185).
CommitteesTracked ==
    /\ client.current_sync_committee = client.state_period
    /\ client.next_sync_committee = client.state_period + 1

\* An update the prover builds for the client as it is now is accepted,
\* except while the signature block is the first of a new period: its parent
\* is attested in the old one, so no committee update can be proved yet.
FreshUpdateAccepted ==
    \A u \in fetch_light_client_update(beacon, client) :
        \/ ValidAttestation(client, u)
        \/ compute_sync_committee_period_at_slot(u.attested) = client.state_period
           /\ compute_sync_committee_period_at_slot(u.signature_slot) =
                client.state_period + 1

\* The client trusts only finalized headers, in order.
Abstract == INSTANCE LightClient WITH
    finalized <- CheckpointSlot(beacon, Newest(beacon).epoch),
    trusted <- client.finalized_header

FollowsChain == Abstract!Spec
============================================================================
