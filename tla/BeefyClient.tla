---------------------------- MODULE BeefyClient ----------------------------
(***************************************************************************)
(* The BEEFY light client of an EVM host: the relay chain it follows, the  *)
(* prover that builds its proofs, the two contracts that verify them, and  *)
(* what the host keeps of the result.  Proofs are delayed, lost and        *)
(* delivered again.                                                        *)
(*                                                                         *)
(* Sources: `evm/src/consensus/{BeefyV1,SP1Beefy}.sol`, handleConsensus of *)
(* `evm/src/modules/HandlerV1.sol`, the consensus storage of               *)
(* `evm/src/hosts/EvmHost.sol`, `consensus/beefy/prover/src/`.             *)
(*                                                                         *)
(* An authority set is named by its id.  The ECDSA signatures, Merkle and  *)
(* SNARK proofs verify exactly when they are of the set they are checked   *)
(* against.                                                                *)
(***************************************************************************)
EXTENDS Integers, Sequences, FiniteSets

CONSTANTS
    SetLen,             \* session -> number of authorities
    UnStakingPeriod,    \* in ticks
    MaxBlock,           \* bound on the length of the relay chain
    MaxHead,            \* bound on the parachain's height
    MaxInFlight         \* bound on the proofs on their way

\* What the constants have to be.
BeefyConstants ==
    /\ 0 \in DOMAIN SetLen
    /\ \A s \in DOMAIN SetLen : s \in Nat /\ SetLen[s] \in Nat

VARIABLES
    relay,          \* the relay chain: [session, head, justified]
    consensusClient,\* the contract the host is configured with
    state,          \* BeefyConsensusState
    stored,         \* parachain heights with a state commitment
    latest,         \* _latestStateMachineHeight of the parachain
    elapsed,        \* time since _consensusUpdateTimestamp
    frozen,         \* whether _frozen is Incoming or All
    proofs          \* the consensus proofs on their way

hostVars == <<consensusClient, state, stored, latest, elapsed, frozen>>
vars == <<relay, hostVars, proofs>>

\* checkParticipationThreshold
checkParticipationThreshold(len, total) == len >= (2 * total) \div 3 + 1

----------------------------------------------------------------------------
(* The relay chain (external).                                             *)

Newest(chain) == chain[Len(chain)]

\* A block is finalized.  It may be the first of a session, which always has
\* a BEEFY justification, and may include a new parachain head.
FinalizeBlock ==
    LET last == Newest(relay) IN
    /\ Len(relay) < MaxBlock
    /\ \E session \in {last.session, last.session + 1} \intersect DOMAIN SetLen,
          head \in {last.head, last.head + 1} \intersect 0..MaxHead,
          justified \in BOOLEAN :
         /\ session # last.session => justified
         /\ relay' = Append(relay, [session |-> session, head |-> head,
                                    justified |-> justified])
    /\ UNCHANGED <<hostVars, proofs>>

----------------------------------------------------------------------------
(* The prover.                                                             *)

\* The blocks fetch_next_beefy_justification may settle on when it walks back
\* from the finalized head.
JustifiedBlocks ==
    {n \in DOMAIN relay :
       /\ n > state.latestHeight
       /\ relay[n].justified
       /\ relay[n].session \in {state.current, state.current + 1}}

\* Mutant: the parachain heads are read at the chain's head.
consensus_proofAtHead(n) ==
    [blockNumber |-> n,
     validatorSetId |-> relay[n].session,
     votes |-> (2 * SetLen[relay[n].session]) \div 3 + 1,
     authorities |-> relay[n - 1].session,
     nextAuthoritySet |-> relay[n].session + 1,
     head |-> Newest(relay).head]

\* A proof for block n: its signed commitment and latest leaf.  The
\* authorities and the parachain heads are read from the state of n - 1.
consensus_proof(n) ==
    [blockNumber |-> n,
     validatorSetId |-> relay[n].session,
     votes |-> (2 * SetLen[relay[n].session]) \div 3 + 1,
     authorities |-> relay[n - 1].session,
     nextAuthoritySet |-> relay[n].session + 1,
     head |-> relay[n - 1].head]

\* The newest of them is taken.
FreshProofs ==
    {consensus_proof(n) : n \in {m \in JustifiedBlocks :
                                    \A k \in JustifiedBlocks : k <= m}}

BuildProof ==
    /\ Cardinality(proofs) < MaxInFlight
    /\ \E p \in FreshProofs : proofs' = proofs \union {p}
    /\ UNCHANGED <<relay, hostVars>>

\* A proof is lost.
LoseProof ==
    /\ \E p \in proofs : proofs' = proofs \ {p}
    /\ UNCHANGED <<relay, hostVars>>

----------------------------------------------------------------------------
(* The consensus clients.                                                  *)

\* BeefyV1: enough votes for one of the two sets, a known set, and a proof of
\* its authorities.
BeefyV1Verifies(s, p) ==
    /\ \/ checkParticipationThreshold(p.votes, SetLen[s.current])
       \/ checkParticipationThreshold(p.votes, SetLen[s.next])
    /\ p.validatorSetId \in {s.current, s.next}
    /\ p.authorities = p.validatorSetId

\* SP1Beefy: a known set, and a SNARK of its supermajority.
SP1BeefyVerifies(s, p) ==
    /\ p.validatorSetId \in {s.current, s.next}
    /\ p.authorities = p.validatorSetId
    /\ checkParticipationThreshold(p.votes, SetLen[p.validatorSetId])

\* Mutant: a proof is not compared with the height the client is at.
VerifiesAnyHeight(s, p) ==
    /\ p.head # 0
    /\ \/ consensusClient = "BeefyV1" /\ BeefyV1Verifies(s, p)
       \/ consensusClient = "SP1Beefy" /\ SP1BeefyVerifies(s, p)

\* The checks of verifyConsensus, the parachain header's included.
Verifies(s, p) ==
    /\ p.blockNumber > s.latestHeight
    /\ p.head # 0
    /\ \/ consensusClient = "BeefyV1" /\ BeefyV1Verifies(s, p)
       \/ consensusClient = "SP1Beefy" /\ SP1BeefyVerifies(s, p)

\* The state it returns: it rotates when the leaf names a later next set.
NewState(s, p) ==
    LET later == p.nextAuthoritySet > s.next
    IN  [latestHeight |-> p.blockNumber,
         current |-> IF later THEN s.next ELSE s.current,
         next |-> IF later THEN p.nextAuthoritySet ELSE s.next]

----------------------------------------------------------------------------
(* The host.                                                               *)

\* HandlerV1.handleConsensus.
handleConsensus ==
    /\ ~frozen
    /\ elapsed < UnStakingPeriod
    /\ \E p \in proofs :
         /\ Verifies(state, p)
         /\ state' = NewState(state, p)
         /\ IF latest # 0 /\ p.head > latest
            THEN stored' = stored \union {p.head} /\ latest' = p.head
            ELSE UNCHANGED <<stored, latest>>
    /\ elapsed' = 0
    /\ UNCHANGED <<relay, consensusClient, frozen, proofs>>

\* The admin freezes or thaws the host: EvmHost.setFrozenState.
setFrozenState ==
    /\ frozen' = ~frozen
    /\ UNCHANGED <<relay, consensusClient, state, stored, latest, elapsed, proofs>>

\* Governance changes the contract of the host's parameters.
updateHostParams ==
    /\ consensusClient' \in {"BeefyV1", "SP1Beefy"} \ {consensusClient}
    /\ UNCHANGED <<relay, state, stored, latest, elapsed, frozen, proofs>>

Tick ==
    /\ elapsed < UnStakingPeriod
    /\ elapsed' = elapsed + 1
    /\ UNCHANGED <<relay, consensusClient, state, stored, latest, frozen, proofs>>

----------------------------------------------------------------------------
\* setConsensusState, with the parachain at height 1.
Init ==
    /\ relay = <<[session |-> 0, head |-> 1, justified |-> TRUE]>>
    /\ consensusClient \in {"BeefyV1", "SP1Beefy"}
    /\ state = [latestHeight |-> 1, current |-> 0, next |-> 1]
    /\ stored = {1}
    /\ latest = 1
    /\ elapsed = 0
    /\ frozen = FALSE
    /\ proofs = {}

Next ==
    \/ FinalizeBlock
    \/ BuildProof
    \/ LoseProof
    \/ handleConsensus
    \/ setFrozenState
    \/ updateHostParams
    \/ Tick

Spec == Init /\ [][Next]_vars

----------------------------------------------------------------------------
\* The sets of the consensus state are those of the session at the height it
\* trusts: the current one signs that session or the one before, and the
\* next one comes after it.
AuthoritiesTracked ==
    /\ state.next = state.current + 1
    /\ state.next = relay[state.latestHeight].session + 1

\* Every state commitment of the host is of a parachain block the relay chain
\* had included at the height the client trusts.
HeadsIncluded ==
    \A h \in stored : \E n \in 1..state.latestHeight : relay[n].head = h

\* A proof built for the client as it is now verifies, except that of a
\* session's first block: its authorities are read one block too early.
FreshUpdateAccepted ==
    \A p \in FreshProofs :
        \/ Verifies(state, p)
        \/ p.authorities # p.validatorSetId

\* The client trusts only finalized relay chain blocks, in order.
Abstract == INSTANCE LightClient WITH
    finalized <- Len(relay), trusted <- state.latestHeight

FollowsChain == Abstract!Spec
============================================================================
