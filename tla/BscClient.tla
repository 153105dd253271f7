----------------------------- MODULE BscClient -----------------------------
(***************************************************************************)
(* The BNB Smart Chain light client: the chain it follows, the prover that *)
(* builds its updates and the verifier that applies them.  Updates are     *)
(* delayed, lost and delivered again.                                      *)
(*                                                                         *)
(* Sources: `ismp/clients/bsc/src/lib.rs`,                                 *)
(* `consensus/bsc/{verifier,prover}/src/lib.rs`.                           *)
(*                                                                         *)
(* A validator set is named by the epoch whose first block announces it.   *)
(* An aggregate signature verifies exactly when it is checked with the set *)
(* that made it.                                                           *)
(***************************************************************************)
EXTENDS Integers, Sequences, FiniteSets, FiniteSetsExt

CONSTANTS
    EPOCH_LENGTH,
    ValidatorSize,  \* the size of every validator set
    MaxAncestry,    \* the bound of BscClientUpdate's epoch_header_ancestry
    MaxNumber,      \* bound on the length of the chain
    MaxMissed,      \* bound on the headers without an attestation
    MaxInFlight     \* bound on the updates on their way

VARIABLES
    headers,    \* for each header of the chain, the source it attests or None
    client,     \* ConsensusState
    updates     \* the BscClientUpdates on their way

vars == <<headers, client, updates>>

None == -1

compute_epoch(number) == number \div EPOCH_LENGTH

\* The offset in its epoch from which blocks are voted on by the new set.
RotationOffset == ValidatorSize \div 2

\* What the constants have to be: both EPOCH_LENGTH and the bound of the
\* ancestry are 200.
BscConstants ==
    /\ EPOCH_LENGTH \in Nat \ {0}
    /\ ValidatorSize \in Nat
    /\ RotationOffset < EPOCH_LENGTH
    /\ MaxAncestry \in 0..EPOCH_LENGTH

----------------------------------------------------------------------------
(* The chain (external).                                                   *)

\* The validator set that votes for the attestation of a header.
SignersOf(number) ==
    IF number % EPOCH_LENGTH >= RotationOffset \/ compute_epoch(number) = 0
    THEN compute_epoch(number)
    ELSE compute_epoch(number) - 1

\* The set announced by a header: there is one only in the first of an epoch.
AnnouncedBy(number) ==
    IF number % EPOCH_LENGTH = 0 THEN compute_epoch(number) ELSE None

\* The last justified header: the parent of the last one with an attestation.
Justified == Max({0} \union {i - 1 : i \in {j \in DOMAIN headers : headers[j] # None}})

\* A header is added.  When it has an attestation, that is of its parent as
\* target with the last justified header as source.
ProduceHeader ==
    /\ Len(headers) < MaxNumber
    /\ \/ headers' = Append(headers, Justified)
       \/ /\ Cardinality({i \in DOMAIN headers : headers[i] = None}) < MaxMissed
          /\ headers' = Append(headers, None)
    /\ UNCHANGED <<client, updates>>

\* The votes in an attestation: two thirds of the set, rounded up.
AttestationVotes == (2 * ValidatorSize + 2) \div 3

----------------------------------------------------------------------------
(* The prover.                                                             *)

get_rotation_block(epochHeader) == epochHeader + RotationOffset

\* Whether the headers back to the epoch header come with the update.
WithAncestry(attested, source, epochHeader, fetchValSetChange) ==
    /\ source > epochHeader
    /\ \/ /\ attested >= epochHeader + 2
          /\ attested <= get_rotation_block(epochHeader) - 1
       \/ fetchValSetChange

\* The update for an attested header, or none when it attests nothing or the
\* ancestry is too long.  `epoch` is the one whose validator set is wanted.
fetch_bsc_update(attested, epoch, fetchValSetChange) ==
    LET source == headers[attested]
        epochHeader == epoch * EPOCH_LENGTH
        ancestry == WithAncestry(attested, source, epochHeader, fetchValSetChange)
    IN  IF source = None \/ (ancestry /\ source - epochHeader > MaxAncestry)
        THEN {}
        ELSE {[attested |-> attested, source |-> source,
               votes |-> AttestationVotes,
               ancestry |-> IF ancestry THEN epochHeader ELSE None]}

\* The prover is asked for the epoch after the client's, and for its
\* validator set whenever the attested header has left the client's epoch.
FreshUpdates ==
    UNION {fetch_bsc_update(n, client.current_epoch + 1,
                            compute_epoch(n) > client.current_epoch)
           : n \in DOMAIN headers}

BuildUpdate ==
    /\ Cardinality(updates) < MaxInFlight
    /\ \E u \in FreshUpdates :
         /\ u.attested = Len(headers)
         /\ updates' = updates \union {u}
    /\ UNCHANGED <<headers, client>>

\* An update is lost.
LoseUpdate ==
    /\ \E u \in updates : updates' = updates \ {u}
    /\ UNCHANGED <<headers, client>>

----------------------------------------------------------------------------
(* The client and its verifier.                                            *)

\* verify_consensus rotates to the next set for an attested header past the
\* rotation offset.
Rotates(c, u) ==
    c.next_validators # None /\ u.attested % EPOCH_LENGTH >= RotationOffset

Rotated(c, u) ==
    IF Rotates(c, u)
    THEN [c EXCEPT !.current_validators = c.next_validators,
                   !.next_validators = None,
                   !.current_epoch = compute_epoch(u.attested)]
    ELSE c

\* The set the update proves to be the next: that of the ancestry's first
\* header, or of the source header when it is the epoch header.
NextValidators(u) ==
    IF u.ancestry # None THEN AnnouncedBy(u.ancestry) ELSE AnnouncedBy(u.source)

\* verify_bsc_header: enough participants, a signature of the current set,
\* and an ancestry that starts at an epoch header.
verify_bsc_header(validators, u) ==
    /\ u.votes >= (2 * ValidatorSize) \div 3
    /\ SignersOf(u.attested) = validators
    /\ u.ancestry # None => NextValidators(u) # None

\* The checks of verify_consensus.
ValidUpdate(c, u) ==
    /\ u.source > c.finalized_height
    /\ Rotates(c, u) => compute_epoch(u.source) = compute_epoch(u.attested)
    /\ verify_bsc_header(Rotated(c, u).current_validators, u)

\* The consensus state it returns.
ConsensusState(c, u) ==
    [Rotated(c, u) EXCEPT !.finalized_height = u.source,
                          !.next_validators = IF NextValidators(u) = None
                                              THEN @ ELSE NextValidators(u)]

\* An update reaches the client, which may see it again later.
verify_consensus ==
    /\ \E u \in updates :
         /\ ValidUpdate(client, u)
         /\ client' = ConsensusState(client, u)
    /\ UNCHANGED <<headers, updates>>

----------------------------------------------------------------------------
Init ==
    /\ headers = <<>>
    /\ client = [current_validators |-> 0, next_validators |-> None,
                 finalized_height |-> 0, current_epoch |-> 0]
    /\ updates = {}

Next == ProduceHeader \/ BuildUpdate \/ LoseUpdate \/ verify_consensus

Spec == Init /\ [][Next]_vars

----------------------------------------------------------------------------
\* The set the client checks signatures with is that of its epoch, and the
\* next one is the same or that of the epoch after: no update, however late,
\* rotates it to a set that never votes.
ValidatorsTracked ==
    /\ client.current_validators = client.current_epoch
    /\ client.next_validators \in
         {None, client.current_epoch, client.current_epoch + 1}

\* An update the prover builds now is accepted when it finalizes something
\* new and was voted for by the set the client holds; or by the next one, in
\* that set's own epoch with a source of the same epoch.
FreshUpdateAccepted ==
    \A u \in FreshUpdates :
        /\ u.source > client.finalized_height
        /\ \/ SignersOf(u.attested) = client.current_validators
           \/ /\ SignersOf(u.attested) = client.next_validators
              /\ compute_epoch(u.attested) = client.next_validators
              /\ compute_epoch(u.source) = client.next_validators
        => ValidUpdate(client, u)

\* The client trusts only justified headers, in order.
Abstract == INSTANCE LightClient WITH
    finalized <- Justified, trusted <- client.finalized_height

FollowsChain == Abstract!Spec
============================================================================
