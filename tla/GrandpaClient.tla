--------------------------- MODULE GrandpaClient ---------------------------
(***************************************************************************)
(* The GRANDPA light client: the relay chain it follows, the prover that   *)
(* builds its finality proofs and the verifier that applies them.          *)
(*                                                                         *)
(* Sources: `consensus/grandpa/verifier/src/lib.rs`,                       *)
(* `consensus/grandpa/primitives/src/justification.rs`,                    *)
(* `consensus/grandpa/prover/src/lib.rs`, and the standalone message of    *)
(* `ismp/clients/grandpa/src/consensus.rs`.                                *)
(*                                                                         *)
(* An authority set is named by its id.  The precommits of a justification *)
(* are signed with the id of the set in force.                             *)
(***************************************************************************)
EXTENDS Integers, Sequences, FiniteSets, FiniteSetsExt, SequencesExt

CONSTANTS
    Authorities,    \* the authorities of every set
    MaxBlock,       \* bound on the length of the chain
    MaxInFlight     \* bound on the proofs on their way

VARIABLES
    chain,      \* the finalized blocks: [set_id, change]
    client,     \* ConsensusState
    proofs      \* the FinalityProofs on their way

vars == <<chain, client, proofs>>

----------------------------------------------------------------------------
(* The chain (external).                                                   *)

\* A block is finalized.  One that schedules a change is the last its
\* authority set finalizes.
FinalizeBlock ==
    LET last == Last(chain) IN
    /\ Len(chain) < MaxBlock
    /\ \E change \in BOOLEAN :
         chain' = Append(chain, [set_id |-> last.set_id + IF last.change THEN 1 ELSE 0,
                                 change |-> change])
    /\ UNCHANGED <<client, proofs>>

\* grandpa_proveFinality: the last justified block of the set a block is of.
ProveFinality(n) ==
    Max({i \in n..Len(chain) : chain[i].set_id = chain[n].set_id})

\* The precommits of a block's justification: a supermajority of its set,
\* each with the set id that was signed.
Precommits(n) == {[id |-> a, set_id |-> chain[n].set_id] : a \in Authorities}

----------------------------------------------------------------------------
(* The prover.                                                             *)

\* query_finality_proof for the block after the client's.
query_finality_proof(previous) ==
    LET target == ProveFinality(previous + 1)
    IN  [block |-> target,
         unknown_headers |-> previous..target,
         precommits |-> Precommits(target)]

FreshProofs ==
    IF client.latest_height < Len(chain)
    THEN {query_finality_proof(client.latest_height)}
    ELSE {}

BuildProof ==
    /\ Cardinality(proofs) < MaxInFlight
    /\ \E p \in FreshProofs : proofs' = proofs \union {p}
    /\ UNCHANGED <<chain, client>>

----------------------------------------------------------------------------
(* The verifier.                                                           *)

\* ed25519_verify of a precommit, for the message with the client's set id.
ed25519_verify(precommit, setId) == precommit.set_id = setId

\* The condition under which check_message_signature returns Ok.
check_message_signature(precommit, setId) == ~ed25519_verify(precommit, setId)

\* GrandpaJustification::verify: a supermajority of known voters, and the
\* signature of every precommit.
JustificationVerifies(p, c) ==
    /\ Cardinality({q.id : q \in p.precommits}) >
         (2 * Cardinality(Authorities)) \div 3
    /\ \A q \in p.precommits : q.id \in Authorities
    /\ \A q \in p.precommits : check_message_signature(q, c.current_set_id)

\* The checks of verify_grandpa_finality_proof: the headers lead from the
\* client's block to the target, and the target is justified.
Verifies(p, c) ==
    /\ Max(p.unknown_headers) = p.block
    /\ c.latest_height \in p.unknown_headers
    /\ JustificationVerifies(p, c)

\* verify_consensus: the client moves to the target, and to the next set if
\* the target schedules a change.
verify_consensus ==
    /\ \E p \in proofs :
         /\ Verifies(p, client)
         /\ client' = [latest_height |-> p.block,
                       current_set_id |-> client.current_set_id +
                                            IF chain[p.block].change THEN 1 ELSE 0]
    /\ UNCHANGED <<chain, proofs>>

----------------------------------------------------------------------------
Init ==
    /\ chain = <<[set_id |-> 0, change |-> FALSE]>>
    /\ client = [latest_height |-> 1, current_set_id |-> 0]
    /\ proofs = {}

Next == FinalizeBlock \/ BuildProof \/ verify_consensus

Spec == Init /\ [][Next]_vars

----------------------------------------------------------------------------
\* The finality proof the prover builds from the chain's own justification is
\* accepted by a client that is where the prover thinks it is, as the
\* verifier's test expects of every proof of the subscription
\* (`consensus/grandpa/verifier/src/tests.rs`).
HonestProofAccepted == \A p \in FreshProofs : Verifies(p, client)
============================================================================
