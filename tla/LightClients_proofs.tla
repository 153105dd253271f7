------------------------ MODULE LightClients_proofs ------------------------
(***************************************************************************)
(* The light clients of BSC, of the relay chain (BEEFY) and of Ethereum.   *)
(*                                                                         *)
(* For every epoch length, validator set size, number of missed            *)
(* attestations and order in which updates arrive: the BSC client rotates  *)
(* only to the validator sets the chain uses, accepts the updates it can   *)
(* check, and implements LightClient.                                      *)
(*                                                                         *)
(* For every relay chain, every size of the authority sets and every       *)
(* order in which proofs arrive: the BEEFY client holds the right          *)
(* authority sets, the host's state commitments are of included parachain  *)
(* blocks, a fresh proof is accepted, and the client implements            *)
(* LightClient.                                                            *)
(*                                                                         *)
(* For every epoch and period length, every committee size, every gap in   *)
(* the beacon chain and every order in which updates arrive: the Ethereum  *)
(* client holds the right sync committees, accepts the update the prover   *)
(* builds for it, and implements LightClient.                              *)
(***************************************************************************)
EXTENDS BscClient, NumberFacts, TLAPS

----------------------------------------------------------------------------
(* Epochs and their validators.                                            *)

LEMMA EpochOf ==
    ASSUME BscConstants, NEW n \in Nat
    PROVE  compute_epoch(n) \in Nat
BY Zenon, DivMod DEF BscConstants, compute_epoch

LEMMA EpochMono ==
    ASSUME BscConstants, NEW m \in Nat, NEW n \in Nat, m <= n
    PROVE  compute_epoch(m) <= compute_epoch(n)
BY DivMono DEF BscConstants, compute_epoch

LEMMA EpochHeader ==
    ASSUME BscConstants, NEW k \in Nat
    PROVE  /\ k * EPOCH_LENGTH \in Nat
           /\ AnnouncedBy(k * EPOCH_LENGTH) = k
           /\ compute_epoch(k * EPOCH_LENGTH) = k
BY DivOfTimes DEF BscConstants, AnnouncedBy, compute_epoch

\* The epoch of a header that comes after an epoch header, by at most an epoch.
LEMMA EpochAfter ==
    ASSUME BscConstants, NEW k \in Nat, NEW n \in Nat,
           k * EPOCH_LENGTH <= n, n <= k * EPOCH_LENGTH + EPOCH_LENGTH
    PROVE  /\ k <= compute_epoch(n)
           /\ compute_epoch(n) <= k + 1
           /\ compute_epoch(n) = k + 1 =>
                \A m \in Nat : m < n => compute_epoch(m) <= k
<1> DEFINE L == EPOCH_LENGTH
<1>1. L \in Nat \ {0} /\ k * L \in Nat /\ (k + 1) * L = k * L + L
  BY DEF BscConstants
<1>2. k <= n \div L
  BY <1>1, DivLower
<1>3. n < (k + 1) * L + L
  BY <1>1
<1>4. n \div L <= k + 1
  BY <1>1, <1>3, DivUpper
<1>5. ASSUME NEW m \in Nat, m < n PROVE m \div L <= k
  <2>1. m < k * L + L
    BY <1>1, <1>5
  <2> QED BY <1>1, <2>1, DivUpper
<1> QED BY <1>2, <1>4, <1>5 DEF compute_epoch

LEMMA Signers ==
    ASSUME BscConstants, NEW n \in Nat
    PROVE  /\ SignersOf(n) \in Nat
           /\ SignersOf(n) <= compute_epoch(n)
           /\ compute_epoch(n) <= SignersOf(n) + 1
           /\ n % EPOCH_LENGTH >= RotationOffset => SignersOf(n) = compute_epoch(n)
BY EpochOf DEF SignersOf

\* Later headers are signed by the same set or a later one.
LEMMA SignersMono ==
    ASSUME BscConstants, NEW m \in Nat, NEW n \in Nat, m <= n
    PROVE  SignersOf(m) <= SignersOf(n)
<1>1. /\ compute_epoch(m) \in Nat /\ compute_epoch(n) \in Nat
      /\ compute_epoch(m) <= compute_epoch(n)
      /\ SignersOf(m) \in Nat /\ SignersOf(n) \in Nat
      /\ SignersOf(m) <= compute_epoch(m) /\ compute_epoch(n) <= SignersOf(n) + 1
  BY EpochOf, EpochMono, Signers
<1>2. CASE compute_epoch(m) < compute_epoch(n)
  BY <1>1, <1>2
<1>3. CASE compute_epoch(m) = compute_epoch(n)
  <2>1. m % EPOCH_LENGTH <= n % EPOCH_LENGTH
        /\ m % EPOCH_LENGTH \in Nat /\ n % EPOCH_LENGTH \in Nat
    <3> DEFINE q == compute_epoch(m) * EPOCH_LENGTH
    <3>1. m = q + (m % EPOCH_LENGTH) /\ n = q + (n % EPOCH_LENGTH)
          /\ q \in Nat /\ m % EPOCH_LENGTH \in Nat /\ n % EPOCH_LENGTH \in Nat
      <4>1. EPOCH_LENGTH \in Nat \ {0}
        BY DEF BscConstants
      <4>2. m \div EPOCH_LENGTH = n \div EPOCH_LENGTH
        BY <1>3 DEF compute_epoch
      <4>3. m = (m \div EPOCH_LENGTH) * EPOCH_LENGTH + (m % EPOCH_LENGTH)
            /\ (m \div EPOCH_LENGTH) * EPOCH_LENGTH \in Nat /\ m % EPOCH_LENGTH \in Nat
        BY <4>1, DivMod
      <4>4. n = (n \div EPOCH_LENGTH) * EPOCH_LENGTH + (n % EPOCH_LENGTH)
            /\ n % EPOCH_LENGTH \in Nat
        BY <4>1, DivMod
      <4> QED BY <4>2, <4>3, <4>4, Zenon DEF compute_epoch
    <3> HIDE DEF q
    <3> QED BY <3>1
  <2>2. RotationOffset \in Nat
    BY DivMod DEF RotationOffset, BscConstants
  <2>3. m % EPOCH_LENGTH >= RotationOffset => n % EPOCH_LENGTH >= RotationOffset
    BY <2>1, <2>2
  <2> QED BY <1>1, <1>3, <2>3 DEF SignersOf
<1> QED BY <1>1, <1>2, <1>3

----------------------------------------------------------------------------
(* The chain.                                                              *)

JustifiedHeaders(hs) ==
    {0} \cup {i - 1 : i \in {j \in DOMAIN hs : hs[j] # None}}

LEMMA JustifiedIsLast ==
    ASSUME NEW hs \in Seq(Nat \cup {None})
    PROVE  /\ Max(JustifiedHeaders(hs)) \in JustifiedHeaders(hs)
           /\ Max(JustifiedHeaders(hs)) \in Nat /\ Max(JustifiedHeaders(hs)) <= Len(hs)
           /\ \A h \in JustifiedHeaders(hs) : h \in Nat /\ h <= Max(JustifiedHeaders(hs))
<1> DEFINE S == JustifiedHeaders(hs)
<1>1. Len(hs) \in Nat /\ DOMAIN hs = 1..Len(hs)
  OBVIOUS
<1>2. \A h \in S : h \in Nat /\ h <= Len(hs)
  BY <1>1 DEF JustifiedHeaders
<1>3. S \in SUBSET Nat /\ S # {}
  BY <1>2 DEF JustifiedHeaders
<1> HIDE DEF S
<1>4. Max(S) \in S /\ \A h \in S : h <= Max(S)
  BY Zenon, <1>1, <1>2, <1>3, MaxNat
<1> QED BY <1>2, <1>4 DEF S

LEMMA JustifiedDef == /\ Justified = Max(JustifiedHeaders(headers))
                      /\ Justified' = Max(JustifiedHeaders(headers'))
BY DEF Justified, JustifiedHeaders

\* Sources are justified headers before the ones that attest them.
HeadersOK ==
    /\ headers \in Seq(Nat \cup {None})
    /\ \A i \in 1..Len(headers) :
         headers[i] # None => headers[i] < i /\ headers[i] <= Justified

LEMMA HeadersGrow ==
    ASSUME HeadersOK, ProduceHeader
    PROVE  HeadersOK' /\ Len(headers') = Len(headers) + 1 /\ Justified <= Justified'
<1>1. /\ Len(headers) \in Nat /\ Justified \in Nat /\ Justified <= Len(headers)
      /\ Justified \in JustifiedHeaders(headers)
  BY JustifiedIsLast, JustifiedDef DEF HeadersOK
<1>2. PICK h \in {Justified, None} : headers' = Append(headers, h)
  BY DEF ProduceHeader
<1>3. /\ headers' \in Seq(Nat \cup {None}) /\ Len(headers') = Len(headers) + 1
      /\ \A i \in 1..Len(headers) : headers'[i] = headers[i]
      /\ headers'[Len(headers) + 1] = h
      /\ DOMAIN headers = 1..Len(headers) /\ DOMAIN headers' = 1..Len(headers) + 1
  BY <1>1, <1>2 DEF HeadersOK
<1>4. JustifiedHeaders(headers) \subseteq JustifiedHeaders(headers')
  BY <1>1, <1>3 DEF JustifiedHeaders
<1>5. Justified' \in Nat /\ \A g \in JustifiedHeaders(headers') : g <= Justified'
  BY <1>3, JustifiedIsLast, JustifiedDef
<1>6. Justified <= Justified'
  BY <1>1, <1>4, <1>5
<1>7. ASSUME NEW i \in 1..Len(headers'), headers'[i] # None
      PROVE  headers'[i] < i /\ headers'[i] <= Justified'
  <2>1. CASE i = Len(headers) + 1
    BY <1>1, <1>2, <1>3, <1>6, <1>7, <2>1
  <2>2. CASE i # Len(headers) + 1
    <3>1. i \in 1..Len(headers) /\ headers'[i] = headers[i] /\ headers[i] \in Nat
      BY <1>1, <1>3, <1>7, <2>2 DEF HeadersOK
    <3>2. headers[i] < i /\ headers[i] <= Justified
      BY <1>7, <3>1 DEF HeadersOK
    <3> QED BY <1>1, <1>5, <1>6, <3>1, <3>2
  <2> QED BY <2>1, <2>2
<1> QED BY <1>3, <1>6, <1>7 DEF HeadersOK

----------------------------------------------------------------------------
(* The client and its updates.                                             *)

\* An update is of a header of the chain and a justified source before it; its
\* ancestry, if any, goes back from there to an epoch header, an epoch at most.
UpdateOK(u) ==
    /\ u.attested \in 1..Len(headers)
    /\ u.source \in Nat
    /\ u.source < u.attested
    /\ u.source <= Justified
    /\ u.votes = AttestationVotes
    /\ u.ancestry # None =>
         \E k \in Nat : /\ u.ancestry = k * EPOCH_LENGTH
                        /\ k * EPOCH_LENGTH < u.source
                        /\ u.source <= k * EPOCH_LENGTH + EPOCH_LENGTH

\* The sets the client holds are of the epoch it has reached or the next.
ClientOK ==
    /\ client = [current_validators |-> client.current_validators,
                 next_validators |-> client.next_validators,
                 finalized_height |-> client.finalized_height,
                 current_epoch |-> client.current_epoch]
    /\ client.current_epoch \in Nat
    /\ client.current_validators = client.current_epoch
    /\ client.next_validators \in {None, client.current_epoch, client.current_epoch + 1}
    /\ client.finalized_height \in Nat
    /\ client.finalized_height <= Justified
    /\ client.current_epoch <= compute_epoch(client.finalized_height)
    /\ client.next_validators # None =>
         client.next_validators <= compute_epoch(client.finalized_height)

\* An update whose ancestry announces a set older than the one that signed it:
\* it was built for a client more than an epoch behind.
Late(u) == u.ancestry # None /\ SignersOf(u.attested) > NextValidators(u)

\* No client gets past the set a late update announces while that update is
\* on its way: the updates it could have used were built earlier still and
\* announce no later set.
LateOK ==
    /\ \A u \in updates : Late(u) =>
         /\ client.current_epoch <= NextValidators(u)
         /\ client.next_validators <= NextValidators(u)
    /\ \A u, w \in updates :
         Late(u) /\ SignersOf(w.attested) <= NextValidators(u) =>
           NextValidators(w) <= NextValidators(u)

BscInv ==
    /\ HeadersOK
    /\ ClientOK
    /\ \A u \in updates : UpdateOK(u) /\ NextValidators(u) <= client.current_epoch + 1
    /\ LateOK

LEMMA BscInit == BscConstants /\ Init => BscInv
<1> SUFFICES ASSUME BscConstants, Init PROVE BscInv
  OBVIOUS
<1>1. HeadersOK
  BY DEF Init, HeadersOK
<1>2. Justified \in Nat
  BY <1>1, JustifiedIsLast, JustifiedDef DEF HeadersOK
<1>3. compute_epoch(0) \in Nat
  BY EpochOf
<1>4. ClientOK
  BY <1>2, <1>3 DEF Init, ClientOK, None
<1> QED BY <1>1, <1>4 DEF Init, BscInv, LateOK

\* What an update announces: a set of its source's epoch, or of the one before
\* when the source is itself an epoch header.
LEMMA Announced ==
    ASSUME BscConstants, NEW u, UpdateOK(u), NextValidators(u) # None
    PROVE  /\ NextValidators(u) \in Nat
           /\ NextValidators(u) <= compute_epoch(u.source)
           /\ compute_epoch(u.source) <= NextValidators(u) + 1
           /\ compute_epoch(u.source) = NextValidators(u) + 1 =>
                /\ u.ancestry # None
                /\ \A m \in Nat : m < u.source => compute_epoch(m) <= NextValidators(u)
<1>1. u.source \in Nat /\ compute_epoch(u.source) \in Nat
  BY EpochOf DEF UpdateOK
<1>2. CASE u.ancestry = None
  <2>1. NextValidators(u) = compute_epoch(u.source)
    BY <1>2 DEF NextValidators, AnnouncedBy
  <2> QED BY <1>1, <2>1
<1>3. CASE u.ancestry # None
  <2>1. PICK k \in Nat : /\ u.ancestry = k * EPOCH_LENGTH
                        /\ k * EPOCH_LENGTH < u.source
                        /\ u.source <= k * EPOCH_LENGTH + EPOCH_LENGTH
    BY <1>3 DEF UpdateOK
  <2>2. NextValidators(u) = k /\ k * EPOCH_LENGTH \in Nat
    BY <1>3, <2>1, EpochHeader DEF NextValidators
  <2>3. k * EPOCH_LENGTH <= u.source
    BY <1>1, <2>1, <2>2
  <2> QED BY <1>1, <1>3, <2>1, <2>2, <2>3, EpochAfter
<1> QED BY <1>2, <1>3

LEMMA AnnouncedType ==
    ASSUME BscConstants, NEW u, UpdateOK(u)
    PROVE  /\ NextValidators(u) \in Nat \cup {None}
           /\ NextValidators(u) \in Int
           /\ u.ancestry # None => NextValidators(u) # None /\ NextValidators(u) \in Nat
<1>1. CASE u.ancestry = None
  BY <1>1, EpochOf DEF UpdateOK, NextValidators, AnnouncedBy, None
<1>2. CASE u.ancestry # None
  <2>1. PICK k \in Nat : u.ancestry = k * EPOCH_LENGTH
    BY <1>2 DEF UpdateOK
  <2>2. NextValidators(u) = k
    BY <1>2, <2>1, EpochHeader DEF NextValidators
  <2> QED BY <2>2 DEF None
<1> QED BY <1>1, <1>2

\* The prover asks for the set of the client's next epoch.
LEMMA FreshOK ==
    ASSUME BscConstants, BscInv, NEW u \in FreshUpdates
    PROVE  /\ UpdateOK(u)
           /\ NextValidators(u) <= client.current_epoch + 1
           /\ u.ancestry # None => NextValidators(u) = client.current_epoch + 1
<1> DEFINE k == client.current_epoch + 1
           start == k * EPOCH_LENGTH
<1>1. PICK n \in DOMAIN headers :
        u \in fetch_bsc_update(n, k, compute_epoch(n) > client.current_epoch)
  BY DEF FreshUpdates
<1> DEFINE fetch == compute_epoch(n) > client.current_epoch
           ancestry == WithAncestry(n, headers[n], start, fetch)
<1>2. /\ headers[n] # None
      /\ u = [attested |-> n, source |-> headers[n], votes |-> AttestationVotes,
              ancestry |-> IF ancestry THEN start ELSE None]
      /\ ancestry => ~(headers[n] - start > MaxAncestry)
  BY <1>1 DEF fetch_bsc_update
<1> HIDE DEF ancestry
<1>3. /\ u.attested = n /\ u.source = headers[n] /\ u.votes = AttestationVotes
      /\ u.ancestry = IF ancestry THEN start ELSE None
  BY <1>2
<1>4. /\ n \in 1..Len(headers) /\ headers[n] \in Nat /\ headers[n] < n /\ headers[n] <= Justified
      /\ k \in Nat /\ client.current_epoch \in Nat /\ Len(headers) \in Nat
  BY <1>2 DEF BscInv, HeadersOK, ClientOK
<1>5. start \in Nat /\ start # None /\ AnnouncedBy(start) = k
  <2>1. start \in Nat /\ AnnouncedBy(start) = k
    <3> HIDE DEF k
    <3> QED BY Zenon, <1>4, EpochHeader
  <2> HIDE DEF start
  <2> QED BY <2>1 DEF None
<1>6. ancestry => start < headers[n] /\ headers[n] <= start + EPOCH_LENGTH
  <2>1. ancestry => headers[n] > start
    BY DEF ancestry, WithAncestry
  <2>2. MaxAncestry \in Nat /\ EPOCH_LENGTH \in Nat /\ MaxAncestry <= EPOCH_LENGTH
    BY DEF BscConstants
  <2> HIDE DEF start
  <2> QED BY <1>2, <1>4, <1>5, <2>1, <2>2
<1>7. UpdateOK(u)
  <2>1. u.ancestry # None => ancestry /\ u.ancestry = start
    BY <1>3
  <2> QED BY <1>3, <1>4, <1>6, <2>1 DEF UpdateOK
<1>8. CASE ancestry
  <2>1. NextValidators(u) = k
    BY <1>3, <1>5, <1>8 DEF NextValidators
  <2> QED BY <1>4, <1>7, <2>1
<1>9. CASE ~ancestry
  <2>1. NextValidators(u) \in {None, compute_epoch(headers[n])}
    BY <1>3, <1>9 DEF NextValidators, AnnouncedBy
  <2>2. compute_epoch(headers[n]) \in Nat /\ compute_epoch(n) \in Nat
        /\ compute_epoch(headers[n]) <= compute_epoch(n)
    BY <1>4, EpochOf, EpochMono
  <2>3. ~(headers[n] > start) \/ ~fetch
    BY <1>9 DEF ancestry, WithAncestry
  <2>4. compute_epoch(headers[n]) <= k
    <3>1. CASE headers[n] <= start
      BY Zenon, <1>4, <1>5, <3>1, EpochMono, EpochHeader
    <3>2. CASE ~fetch
      BY <1>4, <2>2, <3>2
    <3> QED BY <1>4, <1>5, <2>3, <3>1, <3>2
  <2>5. NextValidators(u) <= k
    BY <1>4, <2>1, <2>4 DEF None
  <2> QED BY <1>3, <1>7, <1>9, <2>5
<1> QED BY <1>8, <1>9

\* The sets after an accepted update.  A rotation is to the set of the source's
\* own epoch; the update that causes it is not late.
LEMMA AcceptedUpdate ==
    ASSUME BscConstants, BscInv, NEW u \in updates, ValidUpdate(client, u),
           client' = ConsensusState(client, u), headers' = headers
    PROVE  /\ ClientOK'
           /\ client'.current_epoch >= client.current_epoch
           /\ client'.current_epoch = SignersOf(u.attested)
           /\ client'.current_epoch \in {client.current_epoch, client.next_validators}
           /\ client'.next_validators \in {None, client.next_validators, NextValidators(u)}
           /\ client'.finalized_height > client.finalized_height
<1> DEFINE e == client.current_epoch
           next == client.next_validators
           v == NextValidators(u)
           rotates == Rotates(client, u)
           signers == SignersOf(u.attested)
<1>1. /\ UpdateOK(u) /\ u.attested \in Nat /\ u.source \in Nat /\ u.source < u.attested
      /\ u.source <= Justified
  BY DEF BscInv, UpdateOK, HeadersOK
<1>2. /\ e \in Nat /\ next \in {None, e, e + 1} /\ client.current_validators = e
      /\ client.finalized_height \in Nat
      /\ e <= compute_epoch(client.finalized_height)
      /\ next # None => next <= compute_epoch(client.finalized_height)
  BY DEF BscInv, ClientOK
<1>3. client' = [current_validators |-> IF rotates THEN next ELSE e,
                 next_validators |-> IF v # None THEN v
                                     ELSE IF rotates THEN None ELSE next,
                 finalized_height |-> u.source,
                 current_epoch |-> IF rotates THEN compute_epoch(u.attested) ELSE e]
  BY Zenon DEF ConsensusState, Rotated, BscInv, ClientOK
<1>4. /\ u.source > client.finalized_height
      /\ rotates => /\ next # None /\ u.attested % EPOCH_LENGTH >= RotationOffset
                    /\ compute_epoch(u.source) = compute_epoch(u.attested)
                    /\ signers = next
      /\ ~rotates => signers = e
  BY <1>2 DEF ValidUpdate, Rotates, Rotated, verify_bsc_header, BscInv, ClientOK
<1>5. /\ compute_epoch(u.source) \in Nat /\ compute_epoch(u.attested) \in Nat
      /\ compute_epoch(client.finalized_height) \in Nat
      /\ compute_epoch(client.finalized_height) <= compute_epoch(u.source)
      /\ compute_epoch(u.source) <= compute_epoch(u.attested)
  BY <1>1, <1>2, <1>4, EpochOf, EpochMono
<1>6. /\ signers \in Nat /\ signers <= compute_epoch(u.attested)
      /\ compute_epoch(u.attested) <= signers + 1
      /\ u.attested % EPOCH_LENGTH >= RotationOffset => signers = compute_epoch(u.attested)
  BY <1>1, Signers
<1>7. v # None => /\ v \in Nat /\ v <= compute_epoch(u.source)
                  /\ compute_epoch(u.source) <= v + 1
                  /\ compute_epoch(u.source) = v + 1 =>
                       /\ u.ancestry # None
                       /\ compute_epoch(client.finalized_height) <= v
  BY <1>1, <1>2, <1>4, Announced
<1>8. u.ancestry # None /\ signers > v => e <= v /\ next <= v
  BY DEF BscInv, LateOK, Late
<1> HIDE DEF e, next, v, rotates, signers
<1>9. CASE rotates
  <2>1. signers = next /\ signers = compute_epoch(u.attested) /\ signers = compute_epoch(u.source)
    BY <1>4, <1>6, <1>9
  <2>2. v # None => v = signers
    <3> SUFFICES ASSUME v # None, v # signers PROVE FALSE
      OBVIOUS
    <3>1. v \in Nat /\ signers = v + 1 /\ u.ancestry # None
      BY <1>5, <1>6, <1>7, <2>1
    <3>2. next <= v
      BY <1>8, <3>1
    <3> QED BY <2>1, <3>1, <3>2
  <2>3. /\ client'.current_validators = signers /\ client'.current_epoch = signers
        /\ client'.next_validators = (IF v # None THEN signers ELSE None)
        /\ client'.finalized_height = u.source
    BY <1>3, <1>9, <2>1, <2>2
  <2>4. signers >= e
    BY <1>2, <1>4, <1>9, <2>1
  <2>5. ClientOK'
    <3>1. client'.next_validators \in {None, signers} /\ signers <= compute_epoch(u.source)
      BY <1>6, <2>1, <2>3
    <3>2. Justified' = Justified
      BY DEF Justified
    <3> QED BY <1>1, <1>3, <1>6, <2>3, <3>1, <3>2 DEF ClientOK
  <2> QED BY <1>4, <2>1, <2>2, <2>3, <2>4, <2>5 DEF e, next, v, signers
<1>10. CASE ~rotates
  <2>1. signers = e
    BY <1>4, <1>10
  <2>2. v # None => v \in {e, e + 1} /\ v <= compute_epoch(u.source)
    <3> SUFFICES ASSUME v # None PROVE v \in {e, e + 1}
      BY <1>7
    <3>1. v \in Nat /\ v <= e + 1
      BY <1>2, <1>5, <1>6, <1>7, <2>1
    <3>2. ASSUME v < e PROVE FALSE
      <4>1. compute_epoch(u.source) = v + 1
        BY <1>2, <1>5, <1>7, <3>1, <3>2
      <4> QED BY <1>2, <1>5, <1>7, <3>1, <3>2, <4>1
    <3> QED BY <1>2, <3>1, <3>2
  <2>3. /\ client'.current_validators = e /\ client'.current_epoch = e
        /\ client'.next_validators = (IF v # None THEN v ELSE next)
        /\ client'.finalized_height = u.source
    BY <1>3, <1>10
  <2>4. ClientOK'
    <3>1. client'.next_validators \in {None, e, e + 1}
      BY <1>2, <2>2, <2>3
    <3>2. client'.next_validators # None => client'.next_validators <= compute_epoch(u.source)
      BY <1>2, <1>5, <2>2, <2>3
    <3>3. e <= compute_epoch(u.source)
      BY <1>2, <1>5
    <3>4. Justified' = Justified
      BY DEF Justified
    <3> QED BY <1>1, <1>2, <1>3, <2>3, <3>1, <3>2, <3>3, <3>4 DEF ClientOK
  <2>5. e >= e
    BY <1>2
  <2> QED BY <1>4, <2>1, <2>3, <2>4, <2>5 DEF e, next, v, signers
<1> QED BY <1>9, <1>10

\* The client and the updates on their way after an update is accepted.
LEMMA BscAccept ==
    ASSUME BscConstants, BscInv, verify_consensus
    PROVE  BscInv'
<1>1. UNCHANGED <<headers, updates>>
  BY DEF verify_consensus
<1>2. PICK w \in updates : ValidUpdate(client, w) /\ client' = ConsensusState(client, w)
  BY DEF verify_consensus
<1>3. /\ ClientOK'
      /\ client'.current_epoch >= client.current_epoch
      /\ client'.current_epoch = SignersOf(w.attested)
      /\ client'.current_epoch \in {client.current_epoch, client.next_validators}
      /\ client'.next_validators \in {None, client.next_validators, NextValidators(w)}
  BY <1>1, <1>2, AcceptedUpdate
<1>4. HeadersOK' /\ Justified' = Justified
  BY Zenon, <1>1 DEF BscInv, HeadersOK, Justified
<1>5. client.current_epoch \in Nat /\ client'.current_epoch \in Nat
  BY <1>3 DEF BscInv, ClientOK
<1>6. ASSUME NEW u \in updates
      PROVE  UpdateOK(u)' /\ NextValidators(u) <= client'.current_epoch + 1
  <2>1. UpdateOK(u) /\ NextValidators(u) <= client.current_epoch + 1 /\ NextValidators(u) \in Int
    BY AnnouncedType DEF BscInv
  <2>2. UpdateOK(u)'
    BY <1>1, <1>4, <2>1 DEF UpdateOK
  <2> QED BY <1>3, <1>5, <2>1, <2>2
<1>7. ASSUME NEW u \in updates, Late(u)
      PROVE  /\ client'.current_epoch <= NextValidators(u)
             /\ client'.next_validators <= NextValidators(u)
  <2>1. /\ client.current_epoch <= NextValidators(u)
        /\ client.next_validators <= NextValidators(u)
    BY <1>7 DEF BscInv, LateOK
  <2>2. client'.current_epoch <= NextValidators(u)
    BY <1>3, <2>1
  <2>3. NextValidators(w) <= NextValidators(u)
    BY <1>3, <1>7, <2>2 DEF BscInv, LateOK
  <2>4. None <= NextValidators(u)
    <3>1. NextValidators(u) \in Nat
      BY <1>7, AnnouncedType DEF BscInv, Late
    <3> QED BY <3>1 DEF None
  <2> QED BY <1>3, <2>1, <2>2, <2>3, <2>4
<1>8. LateOK'
  <2>1. \A u, w2 \in updates :
          Late(u) /\ SignersOf(w2.attested) <= NextValidators(u) =>
            NextValidators(w2) <= NextValidators(u)
    BY DEF BscInv, LateOK
  <2> QED BY <1>1, <1>7, <2>1 DEF LateOK
<1> QED BY <1>1, <1>3, <1>4, <1>6, <1>8 DEF BscInv

\* The newest update announces a set at most as late as the client's next; the
\* older ones, built before, none later.
LEMMA BscBuild ==
    ASSUME BscConstants, BscInv, BuildUpdate
    PROVE  BscInv'
<1>1. UNCHANGED <<headers, client>>
  BY DEF BuildUpdate
<1>2. PICK n \in FreshUpdates : n.attested = Len(headers) /\ updates' = updates \cup {n}
  BY DEF BuildUpdate
<1>3. /\ UpdateOK(n) /\ NextValidators(n) <= client.current_epoch + 1
      /\ n.ancestry # None => NextValidators(n) = client.current_epoch + 1
  BY FreshOK
<1>4. HeadersOK' /\ ClientOK' /\ Justified' = Justified
  BY <1>1 DEF BscInv, HeadersOK, ClientOK, Justified
<1>5. \A u \in updates' : UpdateOK(u)' /\ NextValidators(u) <= client'.current_epoch + 1
  BY <1>1, <1>2, <1>3, <1>4 DEF BscInv, UpdateOK
<1>6. /\ client.current_epoch \in Nat
      /\ client.next_validators \in {None, client.current_epoch, client.current_epoch + 1}
  BY DEF BscInv, ClientOK
<1>7. Late(n) => /\ client.current_epoch <= NextValidators(n)
                 /\ client.next_validators <= NextValidators(n)
  BY <1>3, <1>6 DEF Late, None
<1>8. ASSUME NEW u \in updates', NEW w \in updates', Late(u),
             SignersOf(w.attested) <= NextValidators(u)
      PROVE  NextValidators(w) <= NextValidators(u)
  <2>1. CASE u = n
    BY <1>1, <1>3, <1>5, <1>8, <2>1 DEF Late
  <2>2. CASE u \in updates /\ w = n
    <3>1. /\ UpdateOK(u) /\ UpdateOK(n) /\ u.attested \in Nat /\ n.attested \in Nat
          /\ u.attested <= n.attested
      BY <1>2, <1>3, <2>2 DEF BscInv, UpdateOK, HeadersOK
    <3>2. SignersOf(u.attested) <= SignersOf(n.attested)
          /\ SignersOf(u.attested) \in Nat /\ SignersOf(n.attested) \in Nat
      BY <3>1, SignersMono, Signers
    <3>3. NextValidators(u) \in Int /\ SignersOf(u.attested) > NextValidators(u)
      BY <1>8, <3>1, AnnouncedType DEF Late
    <3> QED BY <1>8, <2>2, <3>2, <3>3
  <2>3. CASE u \in updates /\ w \in updates
    BY <1>8, <2>3 DEF BscInv, LateOK
  <2> QED BY <1>2, <2>1, <2>2, <2>3
<1>9. ASSUME NEW u \in updates', Late(u)
      PROVE  /\ client'.current_epoch <= NextValidators(u)
             /\ client'.next_validators <= NextValidators(u)
  BY <1>1, <1>2, <1>7, <1>9 DEF BscInv, LateOK
<1>10. LateOK'
  BY <1>8, <1>9 DEF LateOK
<1> QED BY <1>4, <1>5, <1>10 DEF BscInv

LEMMA BscStep == BscConstants /\ BscInv /\ [Next]_vars => BscInv'
<1> SUFFICES ASSUME BscConstants, BscInv, [Next]_vars PROVE BscInv'
  OBVIOUS
<1>1. CASE ProduceHeader
  <2>1. HeadersOK' /\ Len(headers') = Len(headers) + 1 /\ Justified <= Justified'
    BY <1>1, HeadersGrow DEF BscInv
  <2>2. UNCHANGED <<client, updates>>
    BY <1>1 DEF ProduceHeader
  <2>3. Justified \in Nat /\ Justified' \in Nat /\ Len(headers) \in Nat
    BY <2>1, JustifiedIsLast, JustifiedDef DEF BscInv, HeadersOK
  <2>4. ClientOK'
    BY <2>1, <2>2, <2>3 DEF BscInv, ClientOK
  <2>5. \A u \in updates : UpdateOK(u)'
    BY <2>1, <2>3 DEF BscInv, UpdateOK
  <2>6. LateOK'
    BY <2>2 DEF BscInv, LateOK
  <2> QED BY <2>1, <2>2, <2>4, <2>5, <2>6 DEF BscInv
<1>2. CASE BuildUpdate
  BY <1>2, BscBuild
<1>3. CASE LoseUpdate \/ UNCHANGED vars
  <2>1. UNCHANGED <<headers, client>> /\ updates' \subseteq updates
    BY <1>3 DEF LoseUpdate, vars
  <2>2. HeadersOK' /\ ClientOK' /\ \A u \in updates : UpdateOK(u)'
    BY <2>1 DEF BscInv, HeadersOK, ClientOK, UpdateOK, Justified
  <2>3. LateOK'
    BY <2>1 DEF BscInv, LateOK
  <2> QED BY <2>1, <2>2, <2>3 DEF BscInv
<1>4. CASE verify_consensus
  BY <1>4, BscAccept
<1> QED BY <1>1, <1>2, <1>3, <1>4 DEF Next

LEMMA BscInvariant == ASSUME BscConstants PROVE Spec => []BscInv
BY BscInit, BscStep, PTL DEF Spec

\* The set the client checks signatures with is that of its epoch, and the next
\* one is the same or that of the epoch after, however late the updates that
\* reach it are (verify_consensus, verify_bsc_header).
THEOREM ValidatorsAreTracked == ASSUME BscConstants PROVE Spec => []ValidatorsTracked
<1>1. BscInv => ValidatorsTracked
  BY DEF BscInv, ClientOK, ValidatorsTracked
<1> QED BY <1>1, BscInvariant, PTL

\* The client accepts a new update that the set it holds voted for, or the next
\* set in its own epoch (fetch_bsc_update against verify_consensus).
THEOREM FreshUpdateVerifies == ASSUME BscConstants PROVE Spec => []FreshUpdateAccepted
<1>1. ASSUME BscConstants, BscInv PROVE FreshUpdateAccepted
  <2> SUFFICES ASSUME NEW u \in FreshUpdates, u.source > client.finalized_height,
                      \/ SignersOf(u.attested) = client.current_validators
                      \/ /\ SignersOf(u.attested) = client.next_validators
                         /\ compute_epoch(u.attested) = client.next_validators
                         /\ compute_epoch(u.source) = client.next_validators
               PROVE  ValidUpdate(client, u)
    BY DEF FreshUpdateAccepted
  <2> DEFINE e == client.current_epoch
             next == client.next_validators
             signers == SignersOf(u.attested)
             late == u.attested % EPOCH_LENGTH >= RotationOffset
  <2>1. UpdateOK(u)
    BY <1>1, FreshOK
  <2>2. u.attested \in Nat /\ u.source \in Nat /\ u.source < u.attested
    BY <1>1, <2>1 DEF UpdateOK, BscInv, HeadersOK
  <2>3. u.votes >= (2 * ValidatorSize) \div 3
    <3>1. u.votes = (2 * ValidatorSize + 2) \div 3 /\ ValidatorSize \in Nat
      BY <1>1, <2>1 DEF UpdateOK, AttestationVotes, BscConstants
    <3> QED BY <3>1
  <2>4. u.ancestry # None => NextValidators(u) # None
    BY <1>1, <2>1, AnnouncedType
  <2>5. /\ e \in Nat /\ client.current_validators = e /\ next \in {None, e, e + 1}
        /\ client.finalized_height \in Nat
        /\ e <= compute_epoch(client.finalized_height)
        /\ next # None => next <= compute_epoch(client.finalized_height)
    BY <1>1 DEF BscInv, ClientOK
  <2>6. /\ compute_epoch(client.finalized_height) \in Nat
        /\ compute_epoch(u.source) \in Nat /\ compute_epoch(u.attested) \in Nat
        /\ compute_epoch(client.finalized_height) <= compute_epoch(u.source)
        /\ compute_epoch(u.source) <= compute_epoch(u.attested)
    BY <1>1, <2>2, <2>5, EpochOf, EpochMono
  <2>7. /\ signers \in Nat /\ (late => signers = compute_epoch(u.attested))
        /\ ~late /\ compute_epoch(u.attested) # 0 => signers = compute_epoch(u.attested) - 1
        /\ compute_epoch(u.attested) = 0 => signers = 0
    BY <1>1, <2>2, Signers DEF SignersOf
  <2>8. Rotates(client, u) <=> next # None /\ late
    BY DEF Rotates
  <2>9. Rotated(client, u).current_validators = IF next # None /\ late THEN next ELSE e
    BY <1>1, <2>5, <2>8 DEF Rotated, BscInv, ClientOK
  <2> HIDE DEF e, next, signers, late
  <2>10. signers = e \/ (signers = next /\ compute_epoch(u.attested) = next
                         /\ compute_epoch(u.source) = next)
    BY <2>5 DEF e, next, signers
  <2>11. CASE next # None /\ late
    <3>1. signers = next /\ compute_epoch(u.source) = compute_epoch(u.attested)
      BY <2>5, <2>6, <2>7, <2>10, <2>11
    <3> QED BY <2>3, <2>4, <2>8, <2>9, <2>11, <3>1 DEF ValidUpdate, verify_bsc_header, signers
  <2>12. CASE ~(next # None /\ late)
    <3>1. signers = e
      BY <2>5, <2>6, <2>7, <2>10, <2>12 DEF None
    <3> QED BY <2>3, <2>4, <2>8, <2>9, <2>12, <3>1 DEF ValidUpdate, verify_bsc_header, signers
  <2> QED BY <2>11, <2>12
<1> QED BY <1>1, BscInvariant, PTL

\* The client implements LightClient: it trusts justified headers only, and
\* never goes back (verify_consensus).
THEOREM BscFollowsChain == ASSUME BscConstants PROVE Spec => FollowsChain
<1>1. ASSUME BscInv
      PROVE  /\ Justified \in Nat /\ client.finalized_height \in Nat
             /\ client.finalized_height <= Justified
  BY <1>1, JustifiedIsLast, JustifiedDef DEF BscInv, HeadersOK, ClientOK
<1>2. BscInv => Abstract!Init
  BY <1>1 DEF Abstract!Init
<1>3. ASSUME BscConstants, BscInv, BscInv', [Next]_vars
      PROVE  [Abstract!Next]_<<Justified, client.finalized_height>>
  <2>1. Justified' \in Nat
    BY <1>3, JustifiedIsLast, JustifiedDef DEF BscInv, HeadersOK
  <2>2. CASE ProduceHeader
    <3>1. Justified <= Justified' /\ client' = client
      BY <1>3, <2>2, HeadersGrow DEF BscInv, ProduceHeader
    <3> QED BY <1>1, <1>3, <2>1, <3>1 DEF Abstract!Next, Abstract!Finalize
  <2>3. CASE verify_consensus
    <3>1. headers' = headers
      BY <2>3 DEF verify_consensus
    <3>2. client'.finalized_height > client.finalized_height
      BY <1>3, <2>3, <3>1, AcceptedUpdate DEF verify_consensus
    <3>3. Justified' = Justified
      BY <3>1 DEF Justified
    <3>4. client'.finalized_height \in Nat /\ client'.finalized_height <= Justified
      BY <1>3, <3>3 DEF BscInv, ClientOK
    <3> QED BY <1>1, <1>3, <3>2, <3>3, <3>4 DEF Abstract!Next, Abstract!VerifyConsensus
  <2>4. CASE BuildUpdate \/ LoseUpdate \/ UNCHANGED vars
    BY Zenon, <2>4 DEF BuildUpdate, LoseUpdate, vars, Justified
  <2> QED BY <1>3, <2>2, <2>3, <2>4 DEF Next
<1> QED BY <1>2, <1>3, BscInvariant, PTL DEF FollowsChain, Abstract!Spec, Spec

----------------------------------------------------------------------------
(* The BEEFY client.                                                       *)

CONSTANTS SetLen, UnStakingPeriod, MaxBlock, MaxHead
VARIABLES relay, consensusClient, state, stored, latest, elapsed, frozen, proofs

Beefy == INSTANCE BeefyClient

RelayBlock == [session : Nat, head : Nat, justified : BOOLEAN]

\* A proof on its way is of a block of the chain, and says what the chain
\* holds there.
BeefyProofOK(p) ==
    \E n \in 2..Len(relay) : p = Beefy!consensus_proof(n)

\* The client is at a block of the chain with the sets of its session.
BeefyClientOK ==
    /\ state.latestHeight \in 1..Len(relay)
    /\ state.current \in Nat
    /\ state.next = state.current + 1
    /\ state.next = relay[state.latestHeight].session + 1

BeefyInv ==
    /\ relay \in Seq(RelayBlock) /\ relay # <<>>
    /\ \A n \in 1..Len(relay) : relay[n].session \in DOMAIN SetLen /\ relay[n].head # 0
    /\ BeefyClientOK
    /\ consensusClient \in {"BeefyV1", "SP1Beefy"}
    /\ \A p \in proofs : BeefyProofOK(p)
    /\ Beefy!HeadsIncluded

LEMMA BeefyInit == Beefy!BeefyConstants /\ Beefy!Init => BeefyInv
<1> SUFFICES ASSUME Beefy!BeefyConstants, Beefy!Init PROVE BeefyInv
  OBVIOUS
<1>1. relay \in Seq(RelayBlock) /\ Len(relay) = 1 /\ relay[1].session = 0 /\ relay[1].head = 1
  BY DEF Beefy!Init, RelayBlock
<1>2. BeefyClientOK
  BY <1>1 DEF Beefy!Init, BeefyClientOK
<1>3. Beefy!HeadsIncluded
  BY <1>1 DEF Beefy!Init, Beefy!HeadsIncluded
<1> QED BY <1>1, <1>2, <1>3 DEF Beefy!Init, BeefyInv, Beefy!BeefyConstants

\* The relay chain only grows: what was said of its blocks stays true.
LEMMA RelayGrows ==
    ASSUME Beefy!BeefyConstants, BeefyInv, Beefy!FinalizeBlock
    PROVE  /\ relay' \in Seq(RelayBlock)
           /\ Len(relay') = Len(relay) + 1
           /\ \A n \in 1..Len(relay) : relay'[n] = relay[n]
           /\ relay'[Len(relay')].session \in DOMAIN SetLen
           /\ relay'[Len(relay')].head # 0
<1> DEFINE last == Beefy!Newest(relay)
<1>1. last = relay[Len(relay)] /\ Len(relay) \in 1..Len(relay)
  BY DEF Beefy!Newest, BeefyInv
<1>2. last \in RelayBlock /\ last.session \in DOMAIN SetLen /\ last.head # 0
  BY <1>1 DEF BeefyInv
<1> HIDE DEF last
<1>3. PICK session \in {last.session, last.session + 1} \cap DOMAIN SetLen,
           head \in {last.head, last.head + 1} \cap 0..MaxHead, justified \in BOOLEAN :
        relay' = Append(relay, [session |-> session, head |-> head, justified |-> justified])
  BY DEF Beefy!FinalizeBlock, last
<1>4. session \in Nat /\ head \in Nat /\ head # 0
  BY <1>2, <1>3 DEF Beefy!BeefyConstants, RelayBlock
<1>5. [session |-> session, head |-> head, justified |-> justified] \in RelayBlock
  BY <1>3, <1>4 DEF RelayBlock
<1> QED BY <1>3, <1>4, <1>5 DEF BeefyInv

LEMMA FreshBeefyProofs ==
    ASSUME BeefyInv, NEW p \in Beefy!FreshProofs
    PROVE  /\ BeefyProofOK(p)
           /\ p.blockNumber > state.latestHeight
           /\ p.validatorSetId \in {state.current, state.next}
           /\ p.votes = (2 * SetLen[p.validatorSetId]) \div 3 + 1
           /\ p.validatorSetId \in DOMAIN SetLen
           /\ p.head # 0
<1>1. PICK n \in Beefy!JustifiedBlocks : p = Beefy!consensus_proof(n)
  BY DEF Beefy!FreshProofs
<1>2. /\ n \in 1..Len(relay) /\ n > state.latestHeight
      /\ relay[n].session \in {state.current, state.current + 1}
  BY <1>1 DEF Beefy!JustifiedBlocks, BeefyInv
<1>3. n \in 2..Len(relay) /\ n - 1 \in 1..Len(relay)
  BY <1>2 DEF BeefyInv, BeefyClientOK
<1>4. relay[n].session \in DOMAIN SetLen /\ relay[n - 1].head # 0
  BY <1>2, <1>3 DEF BeefyInv
<1>5. BeefyProofOK(p)
  BY <1>1, <1>3 DEF BeefyProofOK
<1> QED BY Zenon, <1>1, <1>2, <1>4, <1>5 DEF Beefy!consensus_proof, BeefyInv, BeefyClientOK

\* A proof the client accepts takes it to the block it is of, and to the sets
\* of that block's session: the leaf names a later next set exactly when the
\* session is the client's next one.
LEMMA AcceptedProof ==
    ASSUME Beefy!BeefyConstants, BeefyInv, NEW p \in proofs, Beefy!Verifies(state, p), state' = Beefy!NewState(state, p),
           relay' = relay
    PROVE  /\ BeefyClientOK'
           /\ state'.latestHeight > state.latestHeight
           /\ \E n \in 1..state'.latestHeight : relay[n].head = p.head
<1>1. PICK n \in 2..Len(relay) : p = Beefy!consensus_proof(n)
  BY DEF BeefyInv, BeefyProofOK
<1>2. /\ p.blockNumber = n /\ p.validatorSetId = relay[n].session
      /\ p.nextAuthoritySet = relay[n].session + 1 /\ p.head = relay[n - 1].head
  BY Zenon, <1>1 DEF Beefy!consensus_proof
<1>3. p.validatorSetId \in {state.current, state.next} /\ n > state.latestHeight
  BY <1>2 DEF Beefy!Verifies, Beefy!BeefyV1Verifies, Beefy!SP1BeefyVerifies
<1>4. relay[n].session \in Nat
  BY <1>1 DEF BeefyInv, Beefy!BeefyConstants
<1>5. /\ state'.latestHeight = n
      /\ state'.current = IF relay[n].session + 1 > state.next THEN state.next ELSE state.current
      /\ state'.next = IF relay[n].session + 1 > state.next THEN relay[n].session + 1 ELSE state.next
  BY <1>2 DEF Beefy!NewState
<1>6. BeefyClientOK'
  <2>1. state.current \in Nat /\ state.next = state.current + 1
    BY DEF BeefyInv, BeefyClientOK
  <2>2. relay[n].session = state.current \/ relay[n].session = state.current + 1
    BY <1>2, <1>3, <2>1
  <2>3. state'.current = relay[n].session /\ state'.next = relay[n].session + 1
    BY <1>4, <1>5, <2>1, <2>2
  <2>4. state'.latestHeight \in 1..Len(relay)
    BY <1>5, Len(relay) \in Nat DEF BeefyInv
  <2> QED BY <1>4, <1>5, <2>3, <2>4 DEF BeefyClientOK
<1>7. n - 1 \in 1..n
  OBVIOUS
<1> QED BY <1>2, <1>3, <1>5, <1>6, <1>7

LEMMA BeefyFrame ==
    ASSUME BeefyInv, UNCHANGED <<relay, state, stored>>, consensusClient' \in {"BeefyV1", "SP1Beefy"},
           \A p \in proofs' : BeefyProofOK(p)
    PROVE  BeefyInv'
<1>1. BeefyClientOK' /\ Beefy!HeadsIncluded'
  BY DEF BeefyInv, BeefyClientOK, Beefy!HeadsIncluded
<1>2. \A p \in proofs' : BeefyProofOK(p)'
  BY Zenon DEF BeefyProofOK, Beefy!consensus_proof
<1> QED BY <1>1, <1>2 DEF BeefyInv

LEMMA BeefyStep == Beefy!BeefyConstants /\ BeefyInv /\ [Beefy!Next]_(Beefy!vars) => BeefyInv'
<1> SUFFICES ASSUME Beefy!BeefyConstants, BeefyInv, [Beefy!Next]_(Beefy!vars) PROVE BeefyInv'
  OBVIOUS
<1>1. CASE Beefy!FinalizeBlock
  <2>1. UNCHANGED <<state, stored, consensusClient, proofs>>
    BY <1>1 DEF Beefy!FinalizeBlock, Beefy!hostVars
  <2>2. /\ relay' \in Seq(RelayBlock)
        /\ Len(relay') = Len(relay) + 1 /\ Len(relay) \in Nat
        /\ \A n \in 1..Len(relay) : relay'[n] = relay[n]
        /\ relay'[Len(relay')].session \in DOMAIN SetLen
        /\ relay'[Len(relay')].head # 0
    BY <1>1, RelayGrows DEF BeefyInv
  <2>3. \A n \in 1..Len(relay') : relay'[n].session \in DOMAIN SetLen /\ relay'[n].head # 0
    BY <2>2 DEF BeefyInv
  <2>4. BeefyClientOK'
    BY <2>1, <2>2 DEF BeefyInv, BeefyClientOK
  <2>5. \A n \in 2..Len(relay) : Beefy!consensus_proof(n)' = Beefy!consensus_proof(n)
    BY <2>2 DEF Beefy!consensus_proof
  <2>6. \A p \in proofs' : BeefyProofOK(p)'
    BY <2>1, <2>2, <2>5 DEF BeefyInv, BeefyProofOK
  <2>7. Beefy!HeadsIncluded'
    <3>1. state.latestHeight \in 1..Len(relay)
      BY DEF BeefyInv, BeefyClientOK
    <3>2. \A n \in 1..state.latestHeight : relay'[n] = relay[n]
      BY <2>2, <3>1
    <3> QED BY <2>1, <3>2 DEF BeefyInv, Beefy!HeadsIncluded
  <2>8. relay' # <<>>
    BY <2>2
  <2> QED BY <2>1, <2>2, <2>3, <2>4, <2>6, <2>7, <2>8 DEF BeefyInv
<1>2. CASE Beefy!BuildProof
  BY Zenon, <1>2, FreshBeefyProofs, BeefyFrame DEF Beefy!BuildProof, Beefy!hostVars, BeefyInv
<1>3. CASE Beefy!LoseProof
  BY <1>3, BeefyFrame DEF Beefy!LoseProof, Beefy!hostVars, BeefyInv
<1>4. CASE Beefy!handleConsensus
  <2>1. PICK p \in proofs :
          /\ Beefy!Verifies(state, p) /\ state' = Beefy!NewState(state, p)
          /\ stored' \in {stored, stored \cup {p.head}}
    BY <1>4 DEF Beefy!handleConsensus
  <2>2. UNCHANGED <<relay, consensusClient, proofs>>
    BY <1>4 DEF Beefy!handleConsensus
  <2>3. /\ BeefyClientOK' /\ state'.latestHeight > state.latestHeight
        /\ \E n \in 1..state'.latestHeight : relay[n].head = p.head
    BY <2>1, <2>2, AcceptedProof
  <2>4. state.latestHeight \in Nat /\ state'.latestHeight \in Nat
    BY <2>2, <2>3 DEF BeefyInv, BeefyClientOK
  <2>5. Beefy!HeadsIncluded'
    BY <2>1, <2>2, <2>3, <2>4 DEF BeefyInv, Beefy!HeadsIncluded
  <2>6. \A q \in proofs' : BeefyProofOK(q)'
    BY Zenon, <2>2 DEF BeefyInv, BeefyProofOK, Beefy!consensus_proof
  <2> QED BY Zenon, <2>2, <2>3, <2>5, <2>6 DEF BeefyInv
<1>5. CASE Beefy!setFrozenState \/ Beefy!updateHostParams \/ Beefy!Tick \/ UNCHANGED Beefy!vars
  BY Zenon, <1>5, BeefyFrame DEF Beefy!setFrozenState, Beefy!updateHostParams, Beefy!Tick, Beefy!vars, Beefy!hostVars, BeefyInv
<1> QED BY <1>1, <1>2, <1>3, <1>4, <1>5 DEF Beefy!Next

LEMMA BeefyInvariant == ASSUME Beefy!BeefyConstants PROVE Beefy!Spec => []BeefyInv
BY BeefyInit, BeefyStep, PTL DEF Beefy!Spec

\* The authority sets of the consensus state are those of the session at the
\* height it trusts (BeefyV1.verifyMmrUpdateProof, SP1Beefy.verifyConsensus).
THEOREM SetsTracked == ASSUME Beefy!BeefyConstants PROVE Beefy!Spec => []Beefy!AuthoritiesTracked
<1>1. BeefyInv => Beefy!AuthoritiesTracked
  BY DEF BeefyInv, BeefyClientOK, Beefy!AuthoritiesTracked
<1> QED BY <1>1, BeefyInvariant, PTL

\* Every state commitment the host stores is of a parachain block the relay
\* chain had included at the height the client trusts (handleConsensus).
THEOREM StoredHeadsIncluded == ASSUME Beefy!BeefyConstants PROVE Beefy!Spec => []Beefy!HeadsIncluded
<1>1. BeefyInv => Beefy!HeadsIncluded
  BY DEF BeefyInv
<1> QED BY <1>1, BeefyInvariant, PTL

\* Either contract accepts the proof the prover builds for the client as it is
\* now, unless its authorities were read one block too early
\* (consensus_proof against verifyConsensus).
THEOREM FreshProofVerifies == ASSUME Beefy!BeefyConstants PROVE Beefy!Spec => []Beefy!FreshUpdateAccepted
<1>1. Beefy!BeefyConstants /\ BeefyInv => Beefy!FreshUpdateAccepted
  <2> SUFFICES ASSUME Beefy!BeefyConstants, BeefyInv, NEW p \in Beefy!FreshProofs, p.authorities = p.validatorSetId
               PROVE  Beefy!Verifies(state, p)
    BY Zenon DEF Beefy!FreshUpdateAccepted
  <2>1. /\ p.blockNumber > state.latestHeight /\ p.head # 0
        /\ p.validatorSetId \in {state.current, state.next}
        /\ p.votes = (2 * SetLen[p.validatorSetId]) \div 3 + 1
        /\ SetLen[p.validatorSetId] \in Nat
    BY FreshBeefyProofs DEF Beefy!BeefyConstants
  <2>2. Beefy!checkParticipationThreshold(p.votes, SetLen[p.validatorSetId])
    BY <2>1 DEF Beefy!checkParticipationThreshold
  <2>3. Beefy!BeefyV1Verifies(state, p) /\ Beefy!SP1BeefyVerifies(state, p)
    BY <2>1, <2>2 DEF Beefy!BeefyV1Verifies, Beefy!SP1BeefyVerifies
  <2> QED BY Zenon, <2>1, <2>3 DEF Beefy!Verifies, BeefyInv
<1> QED BY <1>1, BeefyInvariant, PTL

\* The client implements LightClient: it trusts finalized relay chain blocks
\* only, and never goes back (verifyConsensus, FinalizeBlock).
THEOREM BeefyFollowsChain == ASSUME Beefy!BeefyConstants PROVE Beefy!Spec => Beefy!FollowsChain
<1>1. Beefy!Init => Beefy!Abstract!Init
  BY DEF Beefy!Init, Beefy!Abstract!Init
<1>2. Beefy!BeefyConstants /\ BeefyInv /\ [Beefy!Next]_(Beefy!vars)
        => [Beefy!Abstract!Next]_<<Len(relay), state.latestHeight>>
  <2> SUFFICES ASSUME Beefy!BeefyConstants, BeefyInv, [Beefy!Next]_(Beefy!vars)
               PROVE  [Beefy!Abstract!Next]_<<Len(relay), state.latestHeight>>
    OBVIOUS
  <2>1. Len(relay) \in Nat /\ state.latestHeight \in Nat
    BY DEF BeefyInv, BeefyClientOK
  <2>2. CASE Beefy!FinalizeBlock
    <3>1. Len(relay)' = Len(relay) + 1 /\ state' = state
      BY <2>2, RelayGrows DEF Beefy!FinalizeBlock, Beefy!hostVars
    <3> QED BY <2>1, <3>1 DEF Beefy!Abstract!Next, Beefy!Abstract!Finalize
  <2>3. CASE Beefy!handleConsensus
    <3>1. relay' = relay
      BY <2>3 DEF Beefy!handleConsensus
    <3>2. BeefyClientOK' /\ state'.latestHeight > state.latestHeight
      BY <2>3, <3>1, AcceptedProof DEF Beefy!handleConsensus
    <3> QED BY <2>1, <3>1, <3>2 DEF Beefy!Abstract!Next, Beefy!Abstract!VerifyConsensus, BeefyClientOK
  <2>4. CASE Beefy!BuildProof \/ Beefy!LoseProof \/ Beefy!setFrozenState \/ Beefy!updateHostParams \/ Beefy!Tick \/ UNCHANGED Beefy!vars
    BY <2>4 DEF Beefy!BuildProof, Beefy!LoseProof, Beefy!setFrozenState, Beefy!updateHostParams, Beefy!Tick, Beefy!vars, Beefy!hostVars
  <2> QED BY <2>2, <2>3, <2>4 DEF Beefy!Next
<1> QED BY <1>1, <1>2, BeefyInvariant, PTL DEF Beefy!Spec, Beefy!FollowsChain, Beefy!Abstract!Spec
----------------------------------------------------------------------------
(* Ethereum.                                                               *)

CONSTANTS SLOTS_PER_EPOCH, EPOCHS_PER_SYNC_COMMITTEE_PERIOD, SYNC_COMMITTEE_SIZE,
          Votes, MaxSlot, MaxGap, MaxWeak
VARIABLE beacon

Sync == INSTANCE SyncCommitteeClient

----------------------------------------------------------------------------
(* The beacon chain.                                                       *)

\* The period of a slot grows with it.
LEMMA PeriodMono ==
    ASSUME Sync!SyncConstants, NEW s \in Nat, NEW t \in Nat, s <= t
    PROVE  /\ Sync!compute_sync_committee_period_at_slot(s) \in Nat
           /\ Sync!compute_sync_committee_period_at_slot(t) \in Nat
           /\ Sync!compute_sync_committee_period_at_slot(s) <= Sync!compute_sync_committee_period_at_slot(t)
<1>1. Sync!compute_epoch_at_slot(s) \in Nat /\ Sync!compute_epoch_at_slot(t) \in Nat
      /\ Sync!compute_epoch_at_slot(s) <= Sync!compute_epoch_at_slot(t)
  BY DivMono DEF Sync!SyncConstants, Sync!compute_epoch_at_slot
<1> QED BY <1>1, DivMono DEF Sync!SyncConstants, Sync!compute_sync_committee_period_at_slot

BeaconBlock == [slot : Nat, epoch : Nat, votes : Nat]

\* Slots grow, the finalized epochs of later states are not earlier, and
\* finality is two epochs behind.
ChainOK(chain) ==
    /\ chain \in Seq(BeaconBlock) /\ chain # <<>>
    /\ chain[1].slot = 0
    /\ \A i, j \in 1..Len(chain) : i < j => chain[i].slot < chain[j].slot
    /\ \A i, j \in 1..Len(chain) : i < j => chain[i].epoch <= chain[j].epoch
    /\ \A i \in 1..Len(chain) :
         \/ chain[i].epoch = 0
         \/ (chain[i].epoch + 2) * SLOTS_PER_EPOCH <= chain[i].slot

\* The slots a checkpoint is the last of.
SlotsUpTo(chain, epoch) ==
    {chain[i].slot : i \in {j \in DOMAIN chain : chain[j].slot <= epoch * SLOTS_PER_EPOCH}}

LEMMA ChainBlocks ==
    ASSUME NEW chain, ChainOK(chain)
    PROVE  /\ Len(chain) \in Nat \ {0} /\ DOMAIN chain = 1..Len(chain)
           /\ \A i \in 1..Len(chain) : /\ chain[i].slot \in Nat
                                       /\ chain[i].epoch \in Nat
                                       /\ chain[i].votes \in Nat
<1>1. Len(chain) \in Nat \ {0} /\ DOMAIN chain = 1..Len(chain)
  BY DEF ChainOK
<1>2. \A i \in 1..Len(chain) : chain[i] \in BeaconBlock
  BY <1>1 DEF ChainOK
<1>3. \A b \in BeaconBlock : b.slot \in Nat /\ b.epoch \in Nat /\ b.votes \in Nat
  BY DEF BeaconBlock
<1> QED BY <1>1, <1>2, <1>3

LEMMA EpochsUpToLast ==
    ASSUME NEW chain, ChainOK(chain), NEW i \in 1..Len(chain)
    PROVE  /\ chain[i].epoch \in Nat /\ Sync!Newest(chain).epoch \in Nat
           /\ chain[i].epoch <= Sync!Newest(chain).epoch
<1> DEFINE n == Len(chain)
<1>1. n \in Nat \ {0} /\ chain[i].epoch \in Nat /\ chain[n].epoch \in Nat
  BY ChainBlocks
<1>2. CASE i < n
  BY <1>1, <1>2 DEF ChainOK, Sync!Newest
<1>3. CASE i = n
  BY <1>1, <1>3 DEF Sync!Newest
<1> QED BY <1>1, <1>2, <1>3

LEMMA Checkpoint ==
    ASSUME Sync!SyncConstants, NEW chain, ChainOK(chain), NEW e \in Nat
    PROVE  /\ Sync!CheckpointSlot(chain, e) \in Nat
           /\ Sync!CheckpointSlot(chain, e) <= e * SLOTS_PER_EPOCH
           /\ Sync!CheckpointSlot(chain, e) \in SlotsUpTo(chain, e)
           /\ \A s \in SlotsUpTo(chain, e) : s <= Sync!CheckpointSlot(chain, e)
<1> DEFINE S == SlotsUpTo(chain, e)
<1>1. e * SLOTS_PER_EPOCH \in Nat
  BY TimesMono DEF Sync!SyncConstants
<1>2. \A i \in DOMAIN chain : chain[i].slot \in Nat
  BY ChainBlocks
<1>3. S \in SUBSET Nat
  BY <1>2 DEF SlotsUpTo
<1>4. 1 \in DOMAIN chain /\ chain[1].slot <= e * SLOTS_PER_EPOCH
  BY <1>1 DEF ChainOK
<1>5. S # {}
  BY <1>4 DEF SlotsUpTo
<1>6. \A s \in S : s <= e * SLOTS_PER_EPOCH
  BY DEF SlotsUpTo
<1>7. Sync!CheckpointSlot(chain, e) = Max(S)
  BY DEF Sync!CheckpointSlot, SlotsUpTo, Max, Sync!Max
<1> HIDE DEF S
<1>8. Max(S) \in S /\ \A s \in S : s <= Max(S)
  BY Zenon, <1>1, <1>3, <1>5, <1>6, MaxNat
<1> QED BY <1>3, <1>6, <1>7, <1>8 DEF S

LEMMA CheckpointMono ==
    ASSUME Sync!SyncConstants, NEW chain, ChainOK(chain), NEW d \in Nat, NEW e \in Nat, d <= e
    PROVE  Sync!CheckpointSlot(chain, d) <= Sync!CheckpointSlot(chain, e)
<1>1. d * SLOTS_PER_EPOCH \in Nat /\ e * SLOTS_PER_EPOCH \in Nat
      /\ d * SLOTS_PER_EPOCH <= e * SLOTS_PER_EPOCH
  BY TimesMono DEF Sync!SyncConstants
<1>2. PICK i \in DOMAIN chain : /\ chain[i].slot <= d * SLOTS_PER_EPOCH
                               /\ Sync!CheckpointSlot(chain, d) = chain[i].slot
  BY Checkpoint DEF SlotsUpTo
<1>3. chain[i].slot \in Nat
  BY ChainBlocks
<1>4. chain[i].slot \in SlotsUpTo(chain, e)
  BY <1>1, <1>2, <1>3 DEF SlotsUpTo
<1> QED BY <1>2, <1>4, Checkpoint

\* A new block moves no checkpoint the chain already had.
LEMMA CheckpointStable ==
    ASSUME Sync!SyncConstants, NEW chain, ChainOK(chain), NEW b \in BeaconBlock,
           Sync!Newest(chain).slot < b.slot, NEW e \in Nat, e <= Sync!Newest(chain).epoch
    PROVE  Sync!CheckpointSlot(Append(chain, b), e) = Sync!CheckpointSlot(chain, e)
<1> DEFINE longer == Append(chain, b)
<1>1. /\ Len(chain) \in Nat \ {0} /\ Len(longer) = Len(chain) + 1
      /\ \A i \in 1..Len(chain) : longer[i] = chain[i]
      /\ longer[Len(chain) + 1] = b
      /\ DOMAIN chain = 1..Len(chain) /\ DOMAIN longer = 1..Len(chain) + 1
  BY DEF ChainOK
<1>2. Sync!Newest(chain) = chain[Len(chain)] /\ Sync!Newest(chain) \in BeaconBlock
  BY <1>1 DEF Sync!Newest, ChainOK
<1>3. e * SLOTS_PER_EPOCH <= Sync!Newest(chain).slot /\ e * SLOTS_PER_EPOCH \in Nat
  <2>1. e * SLOTS_PER_EPOCH \in Nat
        /\ (Sync!Newest(chain).epoch + 2) * SLOTS_PER_EPOCH \in Nat
        /\ e * SLOTS_PER_EPOCH <= (Sync!Newest(chain).epoch + 2) * SLOTS_PER_EPOCH
    <3>1. Sync!Newest(chain).epoch + 2 \in Nat /\ e <= Sync!Newest(chain).epoch + 2
      BY <1>2 DEF BeaconBlock
    <3>2. SLOTS_PER_EPOCH \in Nat \ {0}
      BY DEF Sync!SyncConstants
    <3> QED BY <3>1, <3>2, TimesMono
  <2>2. CASE Sync!Newest(chain).epoch = 0
    BY <1>2, <2>1, <2>2 DEF BeaconBlock, Sync!SyncConstants
  <2>3. CASE (Sync!Newest(chain).epoch + 2) * SLOTS_PER_EPOCH <= Sync!Newest(chain).slot
    BY <1>2, <2>1, <2>3 DEF BeaconBlock
  <2> QED BY <1>1, <1>2, <2>2, <2>3 DEF ChainOK
<1>4. ~(b.slot <= e * SLOTS_PER_EPOCH)
  BY <1>2, <1>3 DEF BeaconBlock
<1> HIDE DEF longer
<1>5. {j \in DOMAIN longer : longer[j].slot <= e * SLOTS_PER_EPOCH} =
      {j \in DOMAIN chain : chain[j].slot <= e * SLOTS_PER_EPOCH}
  BY <1>1, <1>4
<1>6. SlotsUpTo(longer, e) = SlotsUpTo(chain, e)
  BY <1>1, <1>5 DEF SlotsUpTo
<1> QED BY Zenon, <1>6 DEF longer, Sync!CheckpointSlot, SlotsUpTo

----------------------------------------------------------------------------
(* The client and its updates.                                             *)

Period(slot) == Sync!compute_sync_committee_period_at_slot(slot)

LEMMA PeriodGrows ==
    ASSUME Sync!SyncConstants, NEW s \in Nat, NEW t \in Nat, s <= t
    PROVE  Period(s) \in Nat /\ Period(t) \in Nat /\ Period(s) <= Period(t)
BY PeriodMono DEF Period

\* The client is at a checkpoint of the chain, with the committees of the
\* period of some block of it.
SyncClientOK ==
    /\ client = [finalized_header |-> client.finalized_header,
                 latest_finalized_epoch |-> client.latest_finalized_epoch,
                 current_sync_committee |-> client.current_sync_committee,
                 next_sync_committee |-> client.next_sync_committee,
                 state_period |-> client.state_period]
    /\ client.state_period \in Nat
    /\ client.current_sync_committee = client.state_period
    /\ client.next_sync_committee = client.state_period + 1
    /\ \E i \in 1..Len(beacon) : Period(beacon[i].slot) = client.state_period
    /\ client.latest_finalized_epoch \in Nat
    /\ client.latest_finalized_epoch <= Sync!Newest(beacon).epoch
    /\ client.finalized_header = Sync!CheckpointSlot(beacon, client.latest_finalized_epoch)

\* An update says what the chain holds at its blocks; the committee it proves,
\* if any, follows that of its signature.
UpdateAt(u, i) ==
    /\ u.signature_slot = beacon[i].slot
    /\ u.votes = beacon[i].votes
    /\ u.attested = beacon[i - 1].slot
    /\ u.epoch = beacon[i - 1].epoch
    /\ u.finalized = Sync!CheckpointSlot(beacon, u.epoch)
    /\ u.committee # Sync!None =>
         /\ u.committee = Period(u.signature_slot) + 1
         /\ Period(u.attested) = Period(u.signature_slot)

SyncUpdateOK(u) == \E i \in 2..Len(beacon) : UpdateAt(u, i)

SyncInv ==
    /\ ChainOK(beacon)
    /\ SyncClientOK
    /\ \A u \in updates : SyncUpdateOK(u)

LEMMA SyncInit == Sync!SyncConstants /\ Sync!Init => SyncInv
<1> SUFFICES ASSUME Sync!SyncConstants, Sync!Init PROVE SyncInv
  OBVIOUS
<1>1. /\ beacon \in Seq(BeaconBlock) /\ Len(beacon) = 1 /\ beacon # <<>>
      /\ beacon[1].slot = 0 /\ beacon[1].epoch = 0 /\ Sync!Newest(beacon).epoch = 0
  BY DEF Sync!Init, BeaconBlock, Sync!Newest
<1>2. ChainOK(beacon)
  BY <1>1 DEF ChainOK
<1>3. Sync!CheckpointSlot(beacon, 0) = 0
  <2>1. Sync!CheckpointSlot(beacon, 0) \in Nat /\ Sync!CheckpointSlot(beacon, 0) <= 0 * SLOTS_PER_EPOCH
    BY <1>2, Checkpoint
  <2> QED BY <2>1 DEF Sync!SyncConstants
<1>4. Period(0) = 0
  BY DEF Period, Sync!compute_sync_committee_period_at_slot, Sync!compute_epoch_at_slot, Sync!SyncConstants
<1>5. SyncClientOK
  BY <1>1, <1>3, <1>4 DEF SyncClientOK, Sync!Init
<1> QED BY <1>2, <1>5 DEF SyncInv, Sync!Init

\* A block keeps the chain in order and moves no checkpoint.
LEMMA ChainGrows ==
    ASSUME Sync!SyncConstants, ChainOK(beacon), Sync!ProduceBlock
    PROVE  \E b \in BeaconBlock : /\ beacon' = Append(beacon, b)
                            /\ Sync!Newest(beacon).slot < b.slot
                            /\ Sync!Newest(beacon).epoch <= b.epoch
                            /\ ChainOK(beacon')
<1> DEFINE head == Sync!Newest(beacon)
<1>1. head = beacon[Len(beacon)] /\ head.slot \in Nat /\ head.epoch \in Nat
  BY ChainBlocks DEF Sync!Newest
<1> HIDE DEF head
<1>0. PICK slot \in head.slot + 1 .. head.slot + 1 + MaxGap, votes \in Votes :
        \E epoch \in {head.epoch, Max({head.epoch, Sync!compute_epoch_at_slot(slot) - 2})} :
          beacon' = Append(beacon, [slot |-> slot, epoch |-> epoch, votes |-> votes])
  BY Zenon DEF Sync!ProduceBlock, head, Max, Sync!Max
<1>2. PICK epoch \in {head.epoch, Max({head.epoch, Sync!compute_epoch_at_slot(slot) - 2})} :
        beacon' = Append(beacon, [slot |-> slot, epoch |-> epoch, votes |-> votes])
  BY <1>0
<1>3. slot \in Nat /\ slot > head.slot
  BY <1>1, <1>2
<1>4. /\ Sync!compute_epoch_at_slot(slot) \in Nat
      /\ Sync!compute_epoch_at_slot(slot) * SLOTS_PER_EPOCH <= slot
  BY <1>3, DivTimes DEF Sync!compute_epoch_at_slot, Sync!SyncConstants
<1>5. epoch \in {head.epoch, Sync!compute_epoch_at_slot(slot) - 2} /\ epoch >= head.epoch
  <2>1. Sync!compute_epoch_at_slot(slot) - 2 \in Int
    BY <1>4
  <2>2. Max({head.epoch, Sync!compute_epoch_at_slot(slot) - 2}) =
          IF head.epoch >= Sync!compute_epoch_at_slot(slot) - 2
          THEN head.epoch ELSE Sync!compute_epoch_at_slot(slot) - 2
    BY <1>1, <2>1, MaxOfTwo
  <2> QED BY <1>1, <1>2, <2>1, <2>2
<1>6. epoch \in Nat /\ votes \in Nat
  BY <1>1, <1>2, <1>4, <1>5 DEF Sync!SyncConstants
<1> DEFINE b == [slot |-> slot, epoch |-> epoch, votes |-> votes]
<1>7. b \in BeaconBlock /\ b.slot = slot /\ b.epoch = epoch
  BY <1>3, <1>6 DEF BeaconBlock
<1>8. epoch = 0 \/ (epoch + 2) * SLOTS_PER_EPOCH <= slot
  <2>1. CASE epoch = Sync!compute_epoch_at_slot(slot) - 2
    <3>1. epoch + 2 = Sync!compute_epoch_at_slot(slot)
      BY <1>4, <2>1
    <3> QED BY <1>4, <3>1
  <2>2. CASE epoch = head.epoch
    <3>1. head.epoch = 0 \/ (head.epoch + 2) * SLOTS_PER_EPOCH <= head.slot
      BY <1>1, ChainBlocks DEF ChainOK
    <3>2. (head.epoch + 2) * SLOTS_PER_EPOCH \in Nat
      BY <1>1, TimesMono DEF Sync!SyncConstants
    <3> QED BY <1>1, <1>3, <2>2, <3>1, <3>2
  <2> QED BY <1>5, <2>1, <2>2
<1> HIDE DEF b
<1>9. /\ beacon' \in Seq(BeaconBlock) /\ beacon' # <<>> /\ Len(beacon') = Len(beacon) + 1
      /\ \A i \in 1..Len(beacon) : beacon'[i] = beacon[i]
      /\ beacon'[Len(beacon) + 1] = b /\ Len(beacon) \in Nat \ {0}
  BY <1>2, <1>7 DEF ChainOK, b
<1>10. ASSUME NEW i \in 1..Len(beacon)
       PROVE  beacon[i].slot <= head.slot /\ beacon[i].epoch <= head.epoch
  BY <1>1, ChainBlocks DEF ChainOK
<1>11. ASSUME NEW i \in 1..Len(beacon'), NEW j \in 1..Len(beacon'), i < j
       PROVE  beacon'[i].slot < beacon'[j].slot /\ beacon'[i].epoch <= beacon'[j].epoch
  <2>1. CASE j = Len(beacon) + 1
    <3>1. /\ i \in 1..Len(beacon) /\ beacon'[i] = beacon[i] /\ beacon'[j] = b
          /\ beacon[i].slot \in Nat /\ beacon[i].epoch \in Nat
      BY <1>9, <1>11, <2>1, ChainBlocks
    <3>2. beacon[i].slot <= head.slot /\ beacon[i].epoch <= head.epoch
      BY <1>10, <3>1
    <3>3. beacon[i].slot < slot
      BY <1>1, <1>3, <3>1, <3>2
    <3>4. epoch \in Nat /\ epoch >= head.epoch
      BY <1>5, <1>6
    <3>5. beacon[i].epoch <= epoch
      BY <1>1, <3>1, <3>2, <3>4
    <3> QED BY Zenon, <1>7, <3>1, <3>3, <3>5
  <2>2. CASE j # Len(beacon) + 1
    BY <1>9, <1>11, <2>2 DEF ChainOK
  <2> QED BY <2>1, <2>2
<1>12. ASSUME NEW i \in 1..Len(beacon')
       PROVE  beacon'[i].epoch = 0 \/ (beacon'[i].epoch + 2) * SLOTS_PER_EPOCH <= beacon'[i].slot
  BY <1>7, <1>8, <1>9 DEF ChainOK
<1>13. ChainOK(beacon')
  BY <1>9, <1>11, <1>12 DEF ChainOK
<1> QED BY <1>2, <1>3, <1>5, <1>7, <1>13 DEF b, head

\* What an update says stays true as the chain grows.
LEMMA UpdatesKept ==
    ASSUME Sync!SyncConstants, SyncInv, Sync!ProduceBlock
    PROVE  SyncInv'
<1>1. PICK b \in BeaconBlock : /\ beacon' = Append(beacon, b) /\ Sync!Newest(beacon).slot < b.slot
                        /\ Sync!Newest(beacon).epoch <= b.epoch /\ ChainOK(beacon')
  BY ChainGrows DEF SyncInv
<1>2. /\ Len(beacon) \in Nat \ {0} /\ Len(beacon') = Len(beacon) + 1
      /\ \A i \in 1..Len(beacon) : beacon'[i] = beacon[i]
      /\ Sync!Newest(beacon) = beacon[Len(beacon)] /\ Sync!Newest(beacon') = b
  BY <1>1, ChainBlocks DEF SyncInv, ChainOK, Sync!Newest
<1>3. \A e \in Nat : e <= Sync!Newest(beacon).epoch => Sync!CheckpointSlot(beacon', e) = Sync!CheckpointSlot(beacon, e)
  BY <1>1, CheckpointStable DEF SyncInv
<1>4. UNCHANGED <<client, updates>>
  BY DEF Sync!ProduceBlock
<1>5. \A i \in 1..Len(beacon) : /\ beacon[i].epoch \in Nat
                               /\ beacon[i].epoch <= Sync!Newest(beacon).epoch
  BY EpochsUpToLast DEF SyncInv
<1>6. SyncClientOK'
  <2>1. \E i \in 1..Len(beacon') : Period(beacon'[i].slot) = client.state_period
    BY <1>2 DEF SyncInv, SyncClientOK
  <2>2. client.latest_finalized_epoch <= Sync!Newest(beacon').epoch
    <3>1. b.epoch \in Nat /\ Sync!Newest(beacon).epoch \in Nat
      BY <1>2, <1>5 DEF BeaconBlock
    <3> QED BY <1>1, <1>2, <3>1 DEF SyncInv, SyncClientOK
  <2>3. client.finalized_header = Sync!CheckpointSlot(beacon', client.latest_finalized_epoch)
    BY <1>3 DEF SyncInv, SyncClientOK
  <2> QED BY <1>4, <2>1, <2>2, <2>3 DEF SyncInv, SyncClientOK
<1>7. ASSUME NEW u \in updates' PROVE SyncUpdateOK(u)'
  <2>1. PICK i \in 2..Len(beacon) : UpdateAt(u, i)
    BY <1>4 DEF SyncInv, SyncUpdateOK
  <2>2. i \in 1..Len(beacon) /\ i - 1 \in 1..Len(beacon)
    BY <1>2, <2>1
  <2>3. Sync!CheckpointSlot(beacon', u.epoch) = Sync!CheckpointSlot(beacon, u.epoch)
    BY Zenon, <1>3, <1>5, <2>1, <2>2 DEF UpdateAt
  <2>4. UpdateAt(u, i)'
    BY Zenon, <1>2, <2>1, <2>2, <2>3 DEF UpdateAt
  <2> QED BY <1>2, <2>4 DEF SyncUpdateOK
<1> QED BY <1>1, <1>6, <1>7 DEF SyncInv

\* The update fetched for the client is of a block signed by a committee it
\* knows, on a state that finalized an epoch it has not seen.
LEMMA SyncFreshUpdate ==
    ASSUME Sync!SyncConstants, SyncInv, NEW u \in Sync!fetch_light_client_update(beacon, client)
    PROVE  \E i \in Sync!SignatureBlocks(beacon, client) :
             i \in 2..Len(beacon) /\ u = Sync!LightClientUpdate(beacon, client, i) /\ UpdateAt(u, i)
<1> DEFINE S == Sync!SignatureBlocks(beacon, client)
           i == Max(S)
<1>1. S # {} /\ u = Sync!LightClientUpdate(beacon, client, i)
  BY DEF Sync!fetch_light_client_update, Max, Sync!Max
<1>2. Len(beacon) \in Nat
  BY ChainBlocks DEF SyncInv
<1>3. S \in SUBSET Nat /\ \A n \in S : n <= Len(beacon) /\ n \in 2..Len(beacon)
  BY <1>2 DEF Sync!SignatureBlocks
<1>4. i \in S
  <2> HIDE DEF S
  <2> QED BY Zenon, <1>1, <1>2, <1>3, MaxNat
<1>5. i \in 2..Len(beacon)
  BY <1>3, <1>4
<1> HIDE DEF S, i
<1>6. /\ u.signature_slot = beacon[i].slot /\ u.votes = beacon[i].votes
      /\ u.attested = beacon[i - 1].slot /\ u.epoch = beacon[i - 1].epoch
      /\ u.finalized = Sync!CheckpointSlot(beacon, u.epoch)
      /\ u.committee = Sync!SyncCommitteeUpdate(client, Period(u.signature_slot), Period(u.attested))
  BY Zenon, <1>1 DEF Sync!LightClientUpdate, Period
<1>7. u.committee # Sync!None =>
        /\ u.committee = Period(u.signature_slot) + 1
        /\ Period(u.attested) = Period(u.signature_slot)
  BY Zenon, <1>6 DEF Sync!SyncCommitteeUpdate, Sync!should_have_sync_committee_update, SyncInv, SyncClientOK
<1> QED BY Zenon, <1>1, <1>4, <1>5, <1>6, <1>7 DEF UpdateAt, S

\* An accepted update takes the client to the checkpoint it proves.  It enters
\* the next period only with a committee update, which then is the one after
\* the signature's: that of the update after next.
LEMMA SyncAccepted ==
    ASSUME Sync!SyncConstants, SyncInv, NEW u \in updates, Sync!ValidAttestation(client, u),
           client' = Sync!VerifierState(client, u), beacon' = beacon
    PROVE  /\ SyncClientOK'
           /\ client'.latest_finalized_epoch > client.latest_finalized_epoch
<1>1. PICK i \in 2..Len(beacon) : UpdateAt(u, i)
  BY DEF SyncInv, SyncUpdateOK
<1>2. Len(beacon) \in Nat /\ i \in 1..Len(beacon) /\ i - 1 \in 1..Len(beacon)
  BY <1>1, ChainBlocks DEF SyncInv
<1>3. u.epoch \in Nat /\ u.epoch <= Sync!Newest(beacon).epoch
  BY Zenon, <1>1, <1>2, EpochsUpToLast DEF SyncInv, UpdateAt
<1> DEFINE signed == Period(u.signature_slot)
<1>4. signed \in {client.state_period, client.state_period + 1}
      /\ (signed = client.state_period + 1 => u.committee # Sync!None)
      /\ u.epoch > client.latest_finalized_epoch
  BY DEF Sync!ValidAttestation, Period, Sync!should_have_sync_committee_update
<1>5. signed = Period(beacon[i].slot)
  BY <1>1 DEF UpdateAt
<1>6. u.finalized = Sync!CheckpointSlot(beacon, u.epoch)
      /\ (u.committee # Sync!None => u.committee = signed + 1)
  BY Zenon, <1>1 DEF UpdateAt
<1> DEFINE rotates == signed = client.state_period + 1
<1>7. client' = [finalized_header |-> u.finalized,
                 latest_finalized_epoch |-> u.epoch,
                 current_sync_committee |-> IF rotates THEN client.next_sync_committee
                                                       ELSE client.current_sync_committee,
                 next_sync_committee |-> IF rotates THEN u.committee ELSE client.next_sync_committee,
                 state_period |-> IF rotates THEN client.state_period + 1 ELSE client.state_period]
  BY Zenon DEF Sync!VerifierState, Sync!should_have_sync_committee_update, Period, SyncInv, SyncClientOK
<1> HIDE DEF signed, rotates
<1>8. CASE rotates
  <2>0. client' = [finalized_header |-> u.finalized,
                   latest_finalized_epoch |-> u.epoch,
                   current_sync_committee |-> client.next_sync_committee,
                   next_sync_committee |-> u.committee,
                   state_period |-> client.state_period + 1]
    BY Zenon, <1>7, <1>8
  <2>1. /\ client'.finalized_header = u.finalized
        /\ client'.latest_finalized_epoch = u.epoch
        /\ client'.current_sync_committee = client.next_sync_committee
        /\ client'.next_sync_committee = u.committee
        /\ client'.state_period = client.state_period + 1
    BY <2>0
  <2>2. client.state_period \in Nat /\ client.next_sync_committee = client.state_period + 1
    BY DEF SyncInv, SyncClientOK
  <2>3. u.committee = client.state_period + 1 + 1
    BY <1>4, <1>6, <1>8 DEF rotates
  <2>4. \E k \in 1..Len(beacon') : Period(beacon'[k].slot) = client'.state_period
    BY Zenon, <1>2, <1>5, <1>8, <2>1 DEF rotates
  <2>5. client' = [finalized_header |-> client'.finalized_header,
                   latest_finalized_epoch |-> client'.latest_finalized_epoch,
                   current_sync_committee |-> client'.current_sync_committee,
                   next_sync_committee |-> client'.next_sync_committee,
                   state_period |-> client'.state_period]
    BY Zenon, <1>7
  <2> QED BY <1>3, <1>4, <1>6, <2>1, <2>2, <2>3, <2>4, <2>5 DEF SyncClientOK
<1>9. CASE ~rotates
  <2>1. client' = [finalized_header |-> u.finalized,
                   latest_finalized_epoch |-> u.epoch,
                   current_sync_committee |-> client.current_sync_committee,
                   next_sync_committee |-> client.next_sync_committee,
                   state_period |-> client.state_period]
    BY Zenon, <1>7, <1>9
  <2> QED BY <1>3, <1>4, <1>6, <2>1 DEF SyncInv, SyncClientOK
<1> QED BY <1>8, <1>9

LEMMA SyncStep == Sync!SyncConstants /\ SyncInv /\ [Sync!Next]_(Sync!vars) => SyncInv'
<1> SUFFICES ASSUME Sync!SyncConstants, SyncInv, [Sync!Next]_(Sync!vars) PROVE SyncInv'
  OBVIOUS
<1>1. CASE Sync!ProduceBlock
  BY <1>1, UpdatesKept
<1>2. CASE Sync!BuildUpdate
  <2>1. PICK u \in Sync!fetch_light_client_update(beacon, client) : updates' = updates \cup {u}
    BY <1>2 DEF Sync!BuildUpdate
  <2>2. SyncUpdateOK(u)
    BY SyncFreshUpdate DEF SyncUpdateOK
  <2>3. beacon' = beacon /\ client' = client
    BY <1>2 DEF Sync!BuildUpdate
  <2> QED BY Zenon, <2>1, <2>2, <2>3 DEF SyncInv, SyncClientOK, SyncUpdateOK, UpdateAt
<1>3. CASE Sync!LoseUpdate
  BY Zenon, <1>3 DEF Sync!LoseUpdate, SyncInv, SyncClientOK, SyncUpdateOK, UpdateAt
<1>4. CASE Sync!verify_consensus
  <2>1. SyncClientOK' /\ UNCHANGED <<beacon, updates>>
    BY <1>4, SyncAccepted DEF Sync!verify_consensus
  <2> QED BY Zenon, <2>1 DEF SyncInv, SyncUpdateOK, UpdateAt
<1>5. CASE UNCHANGED Sync!vars
  BY Zenon, <1>5 DEF Sync!vars, SyncInv, SyncClientOK, SyncUpdateOK, UpdateAt
<1> QED BY <1>1, <1>2, <1>3, <1>4, <1>5 DEF Sync!Next

LEMMA SyncInvariant == ASSUME Sync!SyncConstants PROVE Sync!Spec => []SyncInv
BY SyncInit, SyncStep, PTL DEF Sync!Spec

\* The committees the client holds are those of its period and of the one
\* after (verify_sync_committee_attestation).
THEOREM CommitteesAreTracked == ASSUME Sync!SyncConstants PROVE Sync!Spec => []Sync!CommitteesTracked
<1>1. SyncInv => Sync!CommitteesTracked
  BY DEF SyncInv, SyncClientOK, Sync!CommitteesTracked
<1> QED BY <1>1, SyncInvariant, PTL

\* The verifier accepts the update the prover builds for it now, unless the
\* signature block is the first of a new period
\* (fetch_light_client_update against verify_sync_committee_attestation).
THEOREM SyncUpdateVerifies == ASSUME Sync!SyncConstants PROVE Sync!Spec => []Sync!FreshUpdateAccepted
<1>1. ASSUME Sync!SyncConstants, SyncInv PROVE Sync!FreshUpdateAccepted
  <2> SUFFICES ASSUME NEW u \in Sync!fetch_light_client_update(beacon, client),
                      ~(/\ Period(u.attested) = client.state_period
                        /\ Period(u.signature_slot) = client.state_period + 1)
               PROVE  Sync!ValidAttestation(client, u)
    BY DEF Sync!FreshUpdateAccepted, Period
  <2>1. PICK i \in Sync!SignatureBlocks(beacon, client) :
          i \in 2..Len(beacon) /\ u = Sync!LightClientUpdate(beacon, client, i) /\ UpdateAt(u, i)
    BY Zenon, <1>1, SyncFreshUpdate
  <2>2. /\ Len(beacon) \in Nat /\ i \in 1..Len(beacon) /\ i - 1 \in 1..Len(beacon)
        /\ u.attested \in Nat /\ u.signature_slot \in Nat /\ u.epoch \in Nat
        /\ u.votes >= Sync!MinSignatures
        /\ u.epoch > client.latest_finalized_epoch
        /\ Period(u.signature_slot) \in {client.state_period, client.state_period + 1}
    <3>1. ChainOK(beacon)
      BY Zenon, <1>1 DEF SyncInv
    <3>2. /\ u.signature_slot = beacon[i].slot /\ u.votes = beacon[i].votes
          /\ u.attested = beacon[i - 1].slot /\ u.epoch = beacon[i - 1].epoch
      BY Zenon, <2>1 DEF UpdateAt
    <3>3. /\ beacon[i].votes >= Sync!MinSignatures
          /\ Period(beacon[i].slot) \in {client.state_period, client.state_period + 1}
          /\ beacon[i - 1].epoch > client.latest_finalized_epoch
      BY Zenon, <2>1 DEF Sync!SignatureBlocks, Period
    <3>4. Len(beacon) \in Nat /\ i \in 1..Len(beacon) /\ i - 1 \in 1..Len(beacon)
      BY <2>1, <3>1, ChainBlocks
    <3> QED BY Zenon, <3>1, <3>2, <3>3, <3>4, ChainBlocks
  <2>3. u.signature_slot > u.attested
    <3>1. beacon[i - 1].slot < beacon[i].slot
      BY <1>1, <2>2 DEF SyncInv, ChainOK
    <3> QED BY Zenon, <2>1, <2>2, <3>1 DEF UpdateAt
  <2>4. (u.epoch + 2) * SLOTS_PER_EPOCH <= u.attested
    BY <1>1, <2>1, <2>2 DEF SyncInv, SyncClientOK, ChainOK, UpdateAt
  <2>5. u.finalized \in Nat /\ u.finalized <= u.epoch * SLOTS_PER_EPOCH
    BY Zenon, <1>1, <2>1, <2>2, Checkpoint DEF SyncInv, UpdateAt
  <2>6. u.attested > u.finalized
    BY <1>1, <2>2, <2>4, <2>5, EpochsApart DEF Sync!SyncConstants
  <2>7. u.attested > client.finalized_header
    <3>1. client.finalized_header \in Nat /\ client.finalized_header <= u.finalized
      BY <1>1, <2>1, <2>2, Checkpoint, CheckpointMono DEF SyncInv, SyncClientOK, UpdateAt
    <3> QED BY <2>2, <2>5, <2>6, <3>1
  <2>8. Sync!SigningCommittee(client, Period(u.signature_slot)) = Period(u.signature_slot)
    BY Zenon, <1>1, <2>2 DEF Sync!SigningCommittee, SyncInv, SyncClientOK
  <2>9. ASSUME Period(u.signature_slot) = client.state_period + 1
        PROVE  u.committee # Sync!None
    <3>1. PICK j \in 1..Len(beacon) : Period(beacon[j].slot) = client.state_period
      BY <1>1 DEF SyncInv, SyncClientOK
    <3>2. /\ u.attested = beacon[i - 1].slot /\ u.signature_slot = beacon[i].slot
          /\ beacon[j].slot \in Nat /\ client.state_period \in Nat
      BY Zenon, <1>1, <2>1, ChainBlocks DEF SyncInv, SyncClientOK, UpdateAt
    <3>3. ~(u.signature_slot <= beacon[j].slot)
      <4> SUFFICES ASSUME u.signature_slot <= beacon[j].slot PROVE FALSE
        OBVIOUS
      <4>1. Period(u.signature_slot) <= Period(beacon[j].slot)
        BY Zenon, <1>1, <2>2, <3>2, PeriodGrows
      <4> QED BY <2>9, <3>1, <3>2, <4>1
    <3>4. j # i /\ ~(i < j)
      <4>1. \A a, b \in 1..Len(beacon) : a < b => beacon[a].slot < beacon[b].slot
        BY Zenon, <1>1 DEF SyncInv, ChainOK
      <4> QED BY <2>2, <3>2, <3>3, <4>1
    <3>5. j = i - 1 \/ j < i - 1
      BY <2>2, <3>4
    <3>6. beacon[j].slot <= u.attested
      BY <1>1, <2>2, <3>2, <3>5 DEF SyncInv, ChainOK
    <3>7. /\ client.state_period <= Period(u.attested)
          /\ Period(u.attested) <= client.state_period + 1
          /\ Period(u.attested) \in Nat
      <4>1. Period(beacon[j].slot) <= Period(u.attested) /\ Period(u.attested) \in Nat
        BY Zenon, <1>1, <2>2, <3>2, <3>6, PeriodGrows
      <4>2. u.attested <= u.signature_slot
        BY <2>2, <2>3
      <4>3. Period(u.attested) <= Period(u.signature_slot)
        BY Zenon, <1>1, <2>2, <4>2, PeriodGrows
      <4> QED BY Zenon, <2>9, <3>1, <4>1, <4>3
    <3>8. Period(u.attested) = client.next_sync_committee
      BY <1>1, <2>9, <3>2, <3>7 DEF SyncInv, SyncClientOK
    <3>9. u.committee = Sync!SyncCommitteeUpdate(client, Period(u.signature_slot), Period(u.attested))
      BY Zenon, <2>1 DEF Sync!LightClientUpdate, Period
    <3>10. u.committee = Period(u.attested) + 1
      BY Zenon, <2>9, <3>8, <3>9 DEF Sync!SyncCommitteeUpdate, Sync!should_have_sync_committee_update
    <3> QED BY <3>7, <3>10 DEF Sync!None
  <2> QED BY Zenon, <2>2, <2>3, <2>6, <2>7, <2>8, <2>9
         DEF Sync!ValidAttestation, Period, Sync!should_have_sync_committee_update
<1> QED BY <1>1, SyncInvariant, PTL

\* The client implements LightClient: it trusts checkpoints the beacon chain
\* has finalized, and never goes back (verify_sync_committee_attestation).
THEOREM SyncFollowsChain == ASSUME Sync!SyncConstants PROVE Sync!Spec => Sync!FollowsChain
<1> DEFINE final == Sync!CheckpointSlot(beacon, Sync!Newest(beacon).epoch)
<1>1. ASSUME Sync!SyncConstants, SyncInv
      PROVE  /\ final \in Nat /\ client.finalized_header \in Nat
             /\ client.finalized_header <= final
             /\ Sync!Newest(beacon).epoch \in Nat
  <2>1. Sync!Newest(beacon).epoch \in Nat
    BY <1>1, ChainBlocks, EpochsUpToLast DEF SyncInv
  <2> QED BY Zenon, <1>1, <2>1, Checkpoint, CheckpointMono DEF SyncInv, SyncClientOK
<1>2. Sync!SyncConstants /\ SyncInv => Sync!Abstract!Init
  BY <1>1 DEF Sync!Abstract!Init
<1>3. ASSUME Sync!SyncConstants, SyncInv, SyncInv', [Sync!Next]_(Sync!vars)
      PROVE  [Sync!Abstract!Next]_<<final, client.finalized_header>>
  <2>1. CASE Sync!ProduceBlock
    <3>1. PICK b \in BeaconBlock : /\ beacon' = Append(beacon, b) /\ Sync!Newest(beacon).slot < b.slot
                            /\ Sync!Newest(beacon).epoch <= b.epoch
      BY <1>3, <2>1, ChainGrows DEF SyncInv
    <3>2. Sync!Newest(beacon') = b /\ b.epoch \in Nat
      BY <1>3, <3>1 DEF Sync!Newest, SyncInv, ChainOK, BeaconBlock
    <3>3. final = Sync!CheckpointSlot(beacon', Sync!Newest(beacon).epoch)
      BY <1>1, <1>3, <3>1, CheckpointStable DEF SyncInv
    <3>4. ChainOK(beacon')
      BY <1>3 DEF SyncInv
    <3>5. Sync!CheckpointSlot(beacon', Sync!Newest(beacon).epoch) <= Sync!CheckpointSlot(beacon', b.epoch)
      BY <1>1, <1>3, <3>1, <3>2, <3>4, CheckpointMono
    <3>6. final' \in Nat /\ final <= final'
      BY <1>3, <3>2, <3>3, <3>4, <3>5, Checkpoint
    <3>7. client' = client
      BY Zenon, <2>1 DEF Sync!ProduceBlock
    <3> HIDE DEF final
    <3> QED BY <1>1, <1>3, <3>6, <3>7 DEF Sync!Abstract!Next, Sync!Abstract!Finalize, final
  <2>2. CASE Sync!verify_consensus
    <3>1. beacon' = beacon
      BY <2>2 DEF Sync!verify_consensus
    <3>2. client'.latest_finalized_epoch > client.latest_finalized_epoch
      BY <1>3, <2>2, <3>1, SyncAccepted DEF Sync!verify_consensus
    <3>3. /\ client.latest_finalized_epoch \in Nat /\ client'.latest_finalized_epoch \in Nat
          /\ client'.latest_finalized_epoch <= Sync!Newest(beacon).epoch
          /\ client'.finalized_header = Sync!CheckpointSlot(beacon, client'.latest_finalized_epoch)
          /\ client.finalized_header = Sync!CheckpointSlot(beacon, client.latest_finalized_epoch)
      BY Zenon, <1>3, <3>1 DEF SyncInv, SyncClientOK
    <3>4. /\ client'.finalized_header \in Nat
          /\ client.finalized_header <= client'.finalized_header
          /\ client'.finalized_header <= final
      BY <1>1, <1>3, <3>2, <3>3, Checkpoint, CheckpointMono DEF SyncInv
    <3> QED BY <1>1, <1>3, <3>1, <3>4 DEF Sync!Abstract!Next, Sync!Abstract!VerifyConsensus
  <2>3. CASE Sync!BuildUpdate \/ Sync!LoseUpdate \/ UNCHANGED Sync!vars
    BY <2>3 DEF Sync!BuildUpdate, Sync!LoseUpdate, Sync!vars
  <2> QED BY Zenon, <1>3, <2>1, <2>2, <2>3 DEF Sync!Next
<1> QED BY <1>2, <1>3, SyncInvariant, PTL DEF Sync!FollowsChain, Sync!Abstract!Spec, Sync!Spec
============================================================================
