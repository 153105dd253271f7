-------------------------- MODULE ConsensusClient --------------------------
(***************************************************************************)
(* One consensus client of a pallet-ismp host: the state commitments it    *)
(* has verified for the state machines it tracks, their challenge periods, *)
(* the client's expiry and freeze, and the fishermen's veto.               *)
(*                                                                         *)
(* Sources: ismp core `handlers.rs`, `handlers/consensus.rs`, `host.rs`;   *)
(* pallet-ismp `host.rs`, `lib.rs`; pallet-fishermen `lib.rs`.             *)
(*                                                                         *)
(* Storage maps are keyed by the consensus state id, so clients do not     *)
(* interact and one of them is enough.  A storage entry that is absent is  *)
(* the value Absent.  Extrinsics are transactional: a call that returns an   *)
(* error changes nothing and is not a step.                                *)
(***************************************************************************)
EXTENDS Integers, FiniteSets

CONSTANTS
    StateMachines,      \* state machines tracked by the client
    Heights,            \* block heights a state machine can be proven at
    Roots,              \* state commitments (state root, overlay root, time)
    Periods,            \* challenge and unbonding periods, in seconds
    Candidates,         \* accounts that may be made fishermen
    MaxTime,            \* bound on the host's clock
    MaxCreations,       \* bound on the admin's create_consensus_client calls
    Absent              \* an absent storage entry

ASSUME HeightsAssumption == Heights \subseteq Nat \ {0}
ASSUME PeriodsAssumption == Periods \subseteq Nat
ASSUME BoundsAssumption == MaxTime \in Nat /\ MaxCreations \in Nat
ASSUME AbsentAssumption == Absent \notin Roots /\ Absent \notin Nat

VARIABLES
    now,                    \* T::TimestampProvider
    creations,              \* calls of create_client; > 0 once ConsensusStateClient
                            \* and ConsensusStates hold the id
    frozen,                 \* FrozenConsensusClients
    consensusUpdateTime,    \* ConsensusClientUpdateTime
    unbondingPeriod,        \* UnbondingPeriod
    challengePeriod,        \* ChallengePeriod
    commitments,            \* child_trie::StateCommitments
    updateTime,             \* StateMachineUpdateTime
    latest,                 \* LatestStateMachineHeight, absent read as 0
    fishermen,              \* pallet_fishermen::Fishermen
    storedAt,               \* history: when the commitment now stored was stored
    accepted                \* history: the last proof a handler accepted

configVars == <<creations, unbondingPeriod, challengePeriod, fishermen>>
clientVars == <<frozen, consensusUpdateTime>>
stateVars == <<commitments, updateTime, latest, storedAt>>
vars == <<now, configVars, clientVars, stateVars, accepted>>

Time == 0..MaxTime
created == creations > 0
Optional(S) == S \cup {Absent}
\* The state commitments a consensus proof (or the creation message) carries.
Verified == [StateMachines -> [Heights -> Optional(Roots)]]
Acceptance == [machine : StateMachines, height : Heights, root : Roots,
               storedAt : Time, period : Periods, at : Time]

\* Every variable holds a value of the storage map it stands for.
TypeOK ==
    /\ now \in Time
    /\ creations \in 0..MaxCreations
    /\ frozen \in BOOLEAN
    /\ consensusUpdateTime \in Optional(Time)
    /\ unbondingPeriod \in Optional(Periods)
    /\ challengePeriod \in [StateMachines -> Optional(Periods)]
    /\ commitments \in Verified
    /\ updateTime \in [StateMachines -> [Heights -> Optional(Time)]]
    /\ latest \in [StateMachines -> Heights \cup {0, 1}]
    /\ fishermen \in SUBSET Candidates
    /\ storedAt \in [StateMachines -> [Heights -> Optional(Time)]]
    /\ accepted \in Optional(Acceptance)

\* A freshly initialised pallet: nothing is stored.
Init ==
    /\ now = 0
    /\ creations = 0
    /\ frozen = FALSE
    /\ consensusUpdateTime = Absent
    /\ unbondingPeriod = Absent
    /\ challengePeriod = [m \in StateMachines |-> Absent]
    /\ commitments = [m \in StateMachines |-> [h \in Heights |-> Absent]]
    /\ updateTime = [m \in StateMachines |-> [h \in Heights |-> Absent]]
    /\ latest = [m \in StateMachines |-> 0]
    /\ fishermen = {}
    /\ storedAt = [m \in StateMachines |-> [h \in Heights |-> Absent]]
    /\ accepted = Absent

----------------------------------------------------------------------------
\* host.is_expired: an update must land strictly within the unbonding period.
IsExpired ==
    \/ unbondingPeriod = Absent
    \/ consensusUpdateTime = Absent
    \/ now - consensusUpdateTime >= unbondingPeriod

\* Mutant: the delay is compared with >=.
DelayPassedInclusive(m, h) ==
    /\ updateTime[m][h] # Absent
    /\ challengePeriod[m] # Absent
    /\ \/ challengePeriod[m] = 0
       \/ now - updateTime[m][h] >= challengePeriod[m]

\* handlers::verify_delay_passed, an error counted as a delay not passed.
DelayPassed(m, h) ==
    /\ updateTime[m][h] # Absent
    /\ challengePeriod[m] # Absent
    /\ \/ challengePeriod[m] = 0
       \/ now - updateTime[m][h] > challengePeriod[m]

\* Mutant: the freeze is not checked.
StateMachineValidFrozen(m, h) == created /\ DelayPassed(m, h)

\* handlers::validate_state_machine for a client whose implementation exists.
StateMachineValid(m, h) == created /\ ~frozen /\ DelayPassed(m, h)

\* The heights of a message that carry a commitment.
Carried(new) == [m \in StateMachines |-> {h \in Heights : new[m][h] # Absent}]

IsHighest(h, S) == h \in S /\ \A g \in S : g <= h

\* Merge the periods a message carries into the ones stored.
MergePeriods(new) ==
    [m \in StateMachines |-> IF new[m] = Absent THEN challengePeriod[m] ELSE new[m]]

\* The commitments of `new` at the heights `keep` are stored, with their time,
\* and the highest of them becomes the latest.
StoreCommitments(new, keep) ==
    /\ commitments' = [m \in StateMachines |-> [h \in Heights |->
                          IF h \in keep[m] THEN new[m][h] ELSE commitments[m][h]]]
    /\ updateTime' = [m \in StateMachines |-> [h \in Heights |->
                          IF h \in keep[m] THEN now ELSE updateTime[m][h]]]
    /\ storedAt' = [m \in StateMachines |-> [h \in Heights |->
                          IF h \in keep[m] THEN now ELSE storedAt[m][h]]]
    /\ latest' \in [StateMachines -> Heights \cup {0, 1}]
    /\ \A m \in StateMachines :
          IF keep[m] = {} THEN latest'[m] = latest[m] ELSE IsHighest(latest'[m], keep[m])

----------------------------------------------------------------------------
\* create_consensus_client by the admin, who may overwrite an existing client;
\* `new` holds at most one initial commitment per state machine.
CreateClient(period, periods, new) ==
    /\ creations < MaxCreations
    /\ \A m \in StateMachines : \A g, h \in Carried(new)[m] : g = h
    /\ creations' = creations + 1
    /\ unbondingPeriod' = period
    /\ challengePeriod' = MergePeriods(periods)
    /\ StoreCommitments(new, Carried(new))
    /\ consensusUpdateTime' = now
    /\ UNCHANGED <<now, frozen, fishermen, accepted>>

\* update_consensus_state by the admin.
UpdateConsensusState(period, periods) ==
    /\ unbondingPeriod' = IF period = Absent THEN unbondingPeriod ELSE period
    /\ challengePeriod' = MergePeriods(periods)
    /\ UNCHANGED <<now, creations, fishermen, clientVars, stateVars, accepted>>

\* Mutant: duplicate states are not skipped.
FreshHeightsAgain(verified) ==
    [m \in StateMachines |-> {h \in Carried(verified)[m] : latest[m] <= h}]

\* The verified heights that are not below the latest one and not yet known.
FreshHeights(verified) ==
    [m \in StateMachines |->
        {h \in Carried(verified)[m] : latest[m] <= h /\ commitments[m][h] = Absent}]

\* Mutant: an expired client is updated.
UpdateClientExpired(verified) ==
    /\ created /\ ~frozen
    /\ consensusUpdateTime' = now
    /\ StoreCommitments(verified, FreshHeights(verified))
    /\ UNCHANGED <<now, configVars, frozen, accepted>>

\* Message::Consensus: consensus_client.verify_consensus returned `verified`.
UpdateClient(verified) ==
    /\ created /\ ~frozen /\ ~IsExpired
    /\ consensusUpdateTime' = now
    /\ StoreCommitments(verified, FreshHeights(verified))
    /\ UNCHANGED <<now, configVars, frozen, accepted>>

\* Message::FraudProof, the proof having been verified by the client.
FreezeClient ==
    /\ created /\ ~frozen
    /\ frozen' = TRUE
    /\ consensusUpdateTime' = now
    /\ UNCHANGED <<now, configVars, stateVars, accepted>>

\* pallet_fishermen::add and ::remove by the admin.
AddFisherman(a) ==
    /\ a \notin fishermen
    /\ fishermen' = fishermen \cup {a}
    /\ UNCHANGED <<now, creations, unbondingPeriod, challengePeriod, clientVars, stateVars, accepted>>

RemoveFisherman(a) ==
    /\ a \in fishermen
    /\ fishermen' = fishermen \ {a}
    /\ UNCHANGED <<now, creations, unbondingPeriod, challengePeriod, clientVars, stateVars, accepted>>

\* Mutant: the latest height is not reset.
VetoStateCommitmentKeepLatest(a, m, h) ==
    /\ a \in fishermen
    /\ commitments[m][h] # Absent
    /\ commitments' = [commitments EXCEPT ![m][h] = Absent]
    /\ storedAt' = [storedAt EXCEPT ![m][h] = Absent]
    /\ UNCHANGED <<now, configVars, clientVars, updateTime, latest, accepted>>

\* veto_state_commitment: the commitment goes, its update time stays behind.
VetoStateCommitment(a, m, h) ==
    /\ a \in fishermen
    /\ commitments[m][h] # Absent
    /\ commitments' = [commitments EXCEPT ![m][h] = Absent]
    /\ storedAt' = [storedAt EXCEPT ![m][h] = Absent]
    /\ latest' = [latest EXCEPT ![m] = IF @ = h THEN 1 ELSE @]
    /\ UNCHANGED <<now, configVars, clientVars, updateTime, accepted>>

\* A request, response or timeout message whose proof is taken at <<m, h>>.
AcceptProof(m, h) ==
    /\ StateMachineValid(m, h)
    /\ commitments[m][h] # Absent
    /\ accepted' = [machine |-> m, height |-> h, root |-> commitments[m][h],
                    storedAt |-> storedAt[m][h], period |-> challengePeriod[m],
                    at |-> now]
    /\ UNCHANGED <<now, configVars, clientVars, stateVars>>

Tick ==
    /\ now < MaxTime
    /\ now' = now + 1
    /\ UNCHANGED <<configVars, clientVars, stateVars, accepted>>

Next ==
    \/ \E p \in Periods, ps \in [StateMachines -> Optional(Periods)], v \in Verified :
          CreateClient(p, ps, v)
    \/ \E p \in Optional(Periods), ps \in [StateMachines -> Optional(Periods)] :
          UpdateConsensusState(p, ps)
    \/ \E v \in Verified : UpdateClient(v)
    \/ FreezeClient
    \/ \E a \in Candidates : AddFisherman(a) \/ RemoveFisherman(a)
    \/ \E a \in Candidates, m \in StateMachines, h \in Heights : VetoStateCommitment(a, m, h)
    \/ \E m \in StateMachines, h \in Heights : AcceptProof(m, h)
    \/ Tick

Spec == Init /\ [][Next]_vars

----------------------------------------------------------------------------
\* Challenge window: a proof is only ever accepted against a commitment that
\* fishermen could veto for more than the challenge period, counted from when
\* that very commitment was stored (verify_delay_passed reads update_time,
\* which a veto leaves behind and a later update must refresh).
ChallengeWindowElapsed ==
    accepted # Absent =>
        \/ accepted.period = 0
        \/ accepted.at - accepted.storedAt > accepted.period

\* Every commitment on record was stored no later than the client's last
\* update, so a client that is_expired reports as stale has only commitments
\* at least as old (update_client and create_client write both times).
CommitmentsNotNewerThanClient ==
    \A m \in StateMachines, h \in Heights :
        commitments[m][h] # Absent =>
            /\ updateTime[m][h] # Absent /\ consensusUpdateTime # Absent
            /\ updateTime[m][h] = storedAt[m][h]
            /\ updateTime[m][h] <= consensusUpdateTime
            /\ consensusUpdateTime <= now

\* The latest height points at a stored commitment, or is the value 0 of an
\* untouched machine or the value 1 delete_state_commitment resets it to.
LatestIsStored ==
    \A m \in StateMachines :
        \/ latest[m] \in {0, 1}
        \/ commitments[m][latest[m]] # Absent

\* A stored commitment is never replaced by another: relayers cannot
\* overwrite it with a consensus update, a fisherman can only remove it, and
\* only the admin's create_client writes over it.
CommitmentsImmutable ==
    [][creations' = creations =>
         \A m \in StateMachines, h \in Heights :
             commitments[m][h] # Absent =>
                 commitments'[m][h] \in {commitments[m][h], Absent}]_vars

\* A frozen or expired client learns nothing: no commitment appears and its
\* update time does not move, unless it is frozen or the admin recreates it.
DeadClientLearnsNothing ==
    [][(frozen \/ IsExpired) /\ creations' = creations =>
         /\ \A m \in StateMachines, h \in Heights :
                commitments'[m][h] \in {commitments[m][h], Absent}
         /\ consensusUpdateTime' # consensusUpdateTime => frozen' /\ ~frozen]_vars

\* Freezing is final, even across create_client: no handler accepts a proof
\* from a frozen client again.
FrozenIsFinal == [][frozen => frozen' /\ accepted' = accepted]_vars
============================================================================
