------------------------ MODULE RelayerFees_proofs ------------------------
(***************************************************************************)
(* For any messages, relayers and fees, and any number of blocks and       *)
(* withdrawals: the escrow account of a substrate chain covers what is     *)
(* still to be paid, and a fee is credited once, to whoever delivered the  *)
(* message.                                                                *)
(***************************************************************************)
EXTENDS RelayerFees, NumberFacts

Known == {ChainRequestOf[p] : p \in ChainResponses}

\* The constants, and the values of the variables.
FeesTypes ==
    /\ FeesConstants
    /\ meta \in [Messages -> Nat \cup {None}] /\ deposited \in [Messages -> Nat]
    /\ account \in Int /\ fees \in [Relayers -> Nat] /\ nonce \in [Relayers -> Nat]
    /\ credited \in [Messages -> SUBSET Relayers]
    /\ \A b \in sealed : b \in [Messages -> Nat \cup {None}]
    /\ \A w \in withdrawals : w \in [relayer : Relayers, nonce : Nat, amount : Nat]
    /\ IsFiniteSet(withdrawals) /\ paid \subseteq withdrawals
    /\ reqReceipts \in [ChainRequests -> Relayers \cup {None}]
    /\ resReceipts \in [Known -> {None} \cup (ChainResponses \X Relayers)]

\* What is recorded of a fee: the commitment has all that was deposited, and no
\* block has more.
DepositInv ==
    /\ \A m \in Messages : meta[m] # None => meta[m] = deposited[m]
    /\ \A m \in Messages \ sent : meta[m] = None /\ deposited[m] = 0
    /\ \A b \in sealed, m \in Messages : b[m] # None => m \in sent /\ b[m] <= deposited[m]

\* A fee that was credited is marked, and went to the deliverer; a nonce is used
\* for one withdrawal.
CreditInv ==
    /\ \A m \in PostMessages \ feesClaimed : credited[m] = {}
    /\ \A g \in ChainGets \ getReceipts : credited[g] = {}
    /\ \A m \in Messages : credited[m] = {} \/ \E r \in Relayers : credited[m] = {r}
    /\ \A m \in PostMessages : credited[m] # {} => Delivered(m) /\ credited[m] = {Deliverer(m)}
    /\ \A w \in withdrawals : w.nonce < nonce[w.relayer]

\* The deposit for m while nobody was credited, and the sums.
Unearned == [m \in Messages |-> IF credited[m] = {} THEN deposited[m] ELSE 0]
Amounts == [w \in withdrawals |-> w.amount]
TotalUnearned == SumFunctionOnSet(Unearned, Messages)
TotalFees == SumFunctionOnSet(fees, Relayers)
TotalDue == SumFunctionOnSet(Amounts, withdrawals \ paid)

SolventInv == TotalUnearned + TotalFees + TotalDue <= account

FeesInv == FeesTypes /\ DepositInv /\ CreditInv /\ SolventInv

LEMMA FeeTotals ==
    FeesTypes => /\ TotalUnearned \in Nat /\ TotalFees \in Nat /\ TotalDue \in Nat
                 /\ Unearned \in [Messages -> Nat] /\ Amounts \in [withdrawals -> Nat]
<1> SUFFICES ASSUME FeesTypes
             PROVE  /\ TotalUnearned \in Nat /\ TotalFees \in Nat /\ TotalDue \in Nat
                    /\ Unearned \in [Messages -> Nat] /\ Amounts \in [withdrawals -> Nat]
  OBVIOUS
<1>1. Unearned \in [Messages -> Nat]
  BY DEF FeesTypes, Unearned
<1>2. \A w \in withdrawals : w.amount \in Nat
  BY DEF FeesTypes
<1>3. Amounts \in [withdrawals -> Nat]
  BY <1>2 DEF Amounts
<1>4. IsFiniteSet(Messages) /\ IsFiniteSet(Relayers) /\ IsFiniteSet(withdrawals \ paid)
  BY FS_Subset DEF FeesTypes, FeesConstants
<1>5. TotalUnearned \in Nat
  BY <1>1, <1>4, SumNat DEF TotalUnearned
<1>6. TotalFees \in Nat
  BY <1>4, SumNat DEF TotalFees, FeesTypes
<1>7. TotalDue \in Nat
  BY <1>3, <1>4, SumNat DEF TotalDue
<1> QED BY <1>1, <1>3, <1>5, <1>6, <1>7

\* Who delivered a message is a relayer, and stays the one.
LEMMA DelivererIs ==
    ASSUME FeesTypes, NEW m \in PostMessages, Delivered(m) PROVE Deliverer(m) \in Relayers
<1>1. CASE m \in ChainRequests
  BY <1>1 DEF FeesTypes, Delivered, Deliverer
<1>2. CASE m \notin ChainRequests
  <2>1. m \in ChainResponses /\ ChainRequestOf[m] \in Known
    BY <1>2 DEF PostMessages, Known
  <2>2. resReceipts[ChainRequestOf[m]] \in ChainResponses \X Relayers
    BY <1>2, <2>1 DEF FeesTypes, Delivered
  <2> QED BY <1>2, <2>2 DEF Deliverer
<1> QED BY <1>1, <1>2

----------------------------------------------------------------------------
(* The source chain.                                                       *)

LEMMA DepositMoves ==
    ASSUME FeesTypes, FeesTypes', SolventInv, NEW m \in Messages, NEW more \in Nat,
           deposited' = [deposited EXCEPT ![m] = @ + more], account' = account + more,
           UNCHANGED <<credited, fees, withdrawals, paid>>
    PROVE  SolventInv'
<1>1. IsFiniteSet(Messages) /\ account \in Int /\ deposited \in [Messages -> Nat]
  BY DEF FeesTypes, FeesConstants
<1>2. (FeesTypes => /\ TotalUnearned \in Nat /\ TotalFees \in Nat /\ TotalDue \in Nat
                    /\ Unearned \in [Messages -> Nat] /\ Amounts \in [withdrawals -> Nat])'
  BY FeeTotals, PTL
<1>3. /\ Unearned \in [Messages -> Nat] /\ Unearned' \in [Messages -> Nat]
      /\ TotalUnearned \in Nat /\ TotalFees \in Nat /\ TotalDue \in Nat
  BY Zenon, <1>2, FeeTotals
<1>4. /\ \A o \in Messages \ {m} : Unearned'[o] = Unearned[o]
      /\ Unearned'[m] = Unearned[m] + more \/ Unearned'[m] = Unearned[m]
  BY <1>1 DEF Unearned
<1>5. TotalUnearned' = TotalUnearned + Unearned'[m] - Unearned[m]
  <2>1. /\ \A o \in Messages : Unearned[o] \in Int /\ Unearned'[o] \in Int
        /\ \A o \in Messages \ {m} : Unearned'[o] = Unearned[o]
    BY <1>3, <1>4
  <2>2. IsFiniteSet(Messages)
    BY <1>1
  <2> QED BY <2>1, <2>2, SumChange DEF TotalUnearned
<1>6. TotalFees' = TotalFees /\ TotalDue' = TotalDue
  BY DEF TotalFees, TotalDue, Amounts
<1>7. PICK part \in Nat : part <= more /\ TotalUnearned' = TotalUnearned + part
  <2>1. Unearned[m] \in Nat /\ Unearned'[m] \in Nat
    BY <1>3
  <2>2. CASE Unearned'[m] = Unearned[m]
    <3>1. 0 \in Nat /\ 0 <= more /\ TotalUnearned' = TotalUnearned + 0
      BY <1>3, <1>5, <2>1, <2>2
    <3> QED BY Zenon, <3>1
  <2>3. CASE Unearned'[m] = Unearned[m] + more
    <3>1. more \in Nat /\ more <= more /\ TotalUnearned' = TotalUnearned + more
      BY <1>3, <1>5, <2>1, <2>3
    <3> QED BY Zenon, <3>1
  <2> QED BY <1>4, <2>2, <2>3
<1> QED BY <1>1, <1>3, <1>6, <1>7 DEF SolventInv

----------------------------------------------------------------------------
(* Hyperbridge.                                                            *)

\* The fees of S, taken from a block, are credited: no more than was deposited.
LEMMA CreditMoves ==
    ASSUME FeesTypes, FeesTypes', DepositInv, SolventInv,
           NEW S \in SUBSET Messages, NEW b \in sealed, NEW who \in [S -> Relayers],
           \A m \in S : credited[m] = {} /\ b[m] # None,
           Credit(S, b, who), UNCHANGED <<deposited, account, withdrawals, paid>>
    PROVE  SolventInv'
<1>1. /\ IsFiniteSet(Messages) /\ IsFiniteSet(Relayers) /\ account \in Int
      /\ deposited \in [Messages -> Nat] /\ fees \in [Relayers -> Nat]
      /\ credited \in [Messages -> SUBSET Relayers]
  BY DEF FeesTypes, FeesConstants
<1>2. (FeesTypes => /\ TotalUnearned \in Nat /\ TotalFees \in Nat /\ TotalDue \in Nat
                    /\ Unearned \in [Messages -> Nat] /\ Amounts \in [withdrawals -> Nat])'
  BY FeeTotals, PTL
<1>3. /\ Unearned \in [Messages -> Nat] /\ Unearned' \in [Messages -> Nat]
      /\ TotalUnearned \in Nat /\ TotalFees \in Nat /\ TotalDue \in Nat
  BY Zenon, <1>2, FeeTotals
<1>4. IsFiniteSet(S) /\ IsFiniteSet(Messages \ S)
  BY <1>1, FS_Subset
<1>5. \A m \in S : b[m] \in Int /\ b[m] <= deposited[m] /\ deposited[m] \in Int
  <2>1. \A m \in S : b[m] \in Nat
    BY DEF FeesTypes
  <2> QED BY <1>1, <2>1 DEF DepositInv
<1>6. SumFunctionOnSet(b, S) <= SumFunctionOnSet(deposited, S)
  BY <1>4, <1>5, SumLe
<1>7. SumFunctionOnSet(b, S) \in Int /\ SumFunctionOnSet(deposited, S) \in Int
  BY <1>4, <1>5, SumInt
<1> DEFINE part == [r \in Relayers |-> SumFunctionOnSet(b, {m \in S : who[m] = r})]
<1>8. TotalFees' = TotalFees + SumFunctionOnSet(b, S)
  <2>1. SumFunctionOnSet(part, Relayers) = SumFunctionOnSet(b, S)
    BY <1>1, <1>4, <1>5, SumByClass
  <2>2. \A r \in Relayers : fees[r] \in Int /\ part[r] \in Int /\ fees'[r] = fees[r] + part[r]
    <3> TAKE r \in Relayers
    <3>1. IsFiniteSet({m \in S : who[m] = r})
      BY <1>4, FS_Subset
    <3>2. part[r] \in Int
      BY <1>5, <3>1, SumInt
    <3> QED BY <1>1, <3>2 DEF Credit
  <2> HIDE DEF part
  <2>3. SumFunctionOnSet(fees', Relayers) = SumFunctionOnSet(fees, Relayers) + SumFunctionOnSet(part, Relayers)
    BY <1>1, <2>2, SumPlus
  <2> QED BY <2>1, <2>3 DEF TotalFees
<1>9. /\ \A m \in S : Unearned[m] = deposited[m] /\ Unearned'[m] = 0
      /\ \A m \in Messages \ S : Unearned'[m] = Unearned[m]
  BY <1>1 DEF Unearned, Credit
<1> DEFINE before == Unearned
           after == Unearned'
<1>10. /\ \A m \in Messages : before[m] \in Int /\ after[m] \in Int
       /\ \A m \in S : before[m] = deposited[m] /\ after[m] = 0 /\ deposited[m] \in Int
       /\ \A m \in Messages \ S : after[m] = before[m] /\ before[m] \in Int
       /\ TotalUnearned = SumFunctionOnSet(before, Messages)
       /\ TotalUnearned' = SumFunctionOnSet(after, Messages)
  BY <1>3, <1>5, <1>9 DEF TotalUnearned
<1> HIDE DEF before, after
<1>11. /\ SumFunctionOnSet(before, Messages) = SumFunctionOnSet(before, S) + SumFunctionOnSet(before, Messages \ S)
       /\ SumFunctionOnSet(after, Messages) = SumFunctionOnSet(after, S) + SumFunctionOnSet(after, Messages \ S)
  BY <1>1, <1>10, SumSplit
<1>12. SumFunctionOnSet(deposited, S) = SumFunctionOnSet(before, S)
  BY <1>4, <1>10, SumSame
<1>13. SumFunctionOnSet(after, S) = 0
  BY <1>4, <1>10, SumZero
<1>14. /\ SumFunctionOnSet(before, Messages \ S) = SumFunctionOnSet(after, Messages \ S)
       /\ SumFunctionOnSet(before, Messages \ S) \in Int
  BY <1>4, <1>10, SumSame, SumInt
<1>15. TotalUnearned' = TotalUnearned - SumFunctionOnSet(deposited, S)
  BY <1>3, <1>7, <1>10, <1>11, <1>12, <1>13, <1>14
<1>16. TotalDue' = TotalDue /\ account' = account
  BY DEF TotalDue, Amounts
<1> HIDE DEF part
<1>17. PICK spare \in Nat : SumFunctionOnSet(deposited, S) = SumFunctionOnSet(b, S) + spare
  <2>1. /\ SumFunctionOnSet(deposited, S) - SumFunctionOnSet(b, S) \in Nat
        /\ SumFunctionOnSet(deposited, S)
             = SumFunctionOnSet(b, S) + (SumFunctionOnSet(deposited, S) - SumFunctionOnSet(b, S))
    BY <1>6, <1>7
  <2> QED BY Zenon, <2>1
<1> QED BY <1>1, <1>3, <1>7, <1>8, <1>15, <1>16, <1>17 DEF SolventInv

\* All of a relayer's fees leave with one withdrawal.
LEMMA WithdrawMoves ==
    ASSUME FeesTypes, FeesTypes', CreditInv, SolventInv, NEW r \in Relayers,
           LET w == [relayer |-> r, nonce |-> nonce[r], amount |-> fees[r]]
           IN  withdrawals' = withdrawals \cup {w},
           fees' = [fees EXCEPT ![r] = 0],
           UNCHANGED <<deposited, credited, account, paid>>
    PROVE  SolventInv'
<1> DEFINE w == [relayer |-> r, nonce |-> nonce[r], amount |-> fees[r]]
<1>1. /\ IsFiniteSet(Relayers) /\ account \in Int /\ fees \in [Relayers -> Nat]
      /\ fees' \in [Relayers -> Nat] /\ nonce[r] \in Nat /\ fees[r] \in Nat
      /\ paid \subseteq withdrawals
  BY DEF FeesTypes, FeesConstants
<1>2. IsFiniteSet(withdrawals \ paid)
  BY FS_Subset DEF FeesTypes
<1>3. /\ Amounts \in [withdrawals -> Nat]
      /\ TotalUnearned \in Nat /\ TotalFees \in Nat /\ TotalDue \in Nat
  BY FeeTotals
<1>4. w \notin withdrawals
  <2>1. ASSUME w \in withdrawals PROVE FALSE
    <3>1. w.nonce < nonce[w.relayer]
      BY <2>1 DEF CreditInv
    <3>2. w.nonce = nonce[r] /\ w.relayer = r
      OBVIOUS
    <3> HIDE DEF w
    <3> QED BY <1>1, <3>1, <3>2
  <2> QED BY <2>1
<1>5. /\ withdrawals' = withdrawals \cup {w} /\ w.amount = fees[r]
      /\ withdrawals' \ paid' = (withdrawals \ paid) \cup {w} /\ w \notin withdrawals \ paid
  BY <1>1, <1>4
<1> HIDE DEF w
<1>6. TotalDue' = TotalDue + fees[r]
  <2> DEFINE before == Amounts
             after == Amounts'
  <2>1. /\ \A v \in withdrawals \ paid : before[v] \in Int /\ after[v] = before[v]
        /\ after[w] = fees[r] /\ after[w] \in Int
    BY <1>1, <1>3, <1>5 DEF Amounts
  <2>2. TotalDue = SumFunctionOnSet(before, withdrawals \ paid)
        /\ TotalDue' = SumFunctionOnSet(after, (withdrawals \ paid) \cup {w})
    BY Zenon, <1>5 DEF TotalDue
  <2> HIDE DEF before, after
  <2>3. SumFunctionOnSet(after, (withdrawals \ paid) \cup {w})
          = SumFunctionOnSet(before, withdrawals \ paid) + after[w]
    <3> DEFINE due == withdrawals \ paid
    <3>1. /\ IsFiniteSet(due) /\ w \notin due
          /\ \A v \in due : before[v] \in Int /\ after[v] = before[v]
      BY <1>2, <1>5, <2>1
    <3>2. after[w] \in Int
      BY <2>1
    <3> HIDE DEF due
    <3>3. SumFunctionOnSet(after, due \cup {w}) = SumFunctionOnSet(before, due) + after[w]
      BY <3>1, <3>2, SumAdd
    <3> QED BY <3>3 DEF due
  <2> QED BY <2>1, <2>2, <2>3
<1>7. TotalFees' = TotalFees + 0 - fees[r]
  <2>1. /\ \A o \in Relayers : fees[o] \in Int /\ fees'[o] \in Int
        /\ \A o \in Relayers \ {r} : fees'[o] = fees[o]
        /\ fees'[r] = 0
    BY <1>1
  <2> DEFINE before == fees
             after == fees'
  <2>2. IsFiniteSet(Relayers)
    BY <1>1
  <2>3. /\ \A o \in Relayers : before[o] \in Int /\ after[o] \in Int
        /\ \A o \in Relayers \ {r} : after[o] = before[o]
    BY <2>1
  <2>4. SumFunctionOnSet(after, Relayers) = SumFunctionOnSet(before, Relayers) + after[r] - before[r]
    <3> HIDE DEF before, after
    <3> QED BY <2>2, <2>3, SumChange
  <2> QED BY <2>1, <2>4 DEF TotalFees
<1>8. TotalUnearned' = TotalUnearned /\ account' = account
  BY DEF TotalUnearned, Unearned
<1> QED BY <1>1, <1>3, <1>6, <1>7, <1>8 DEF SolventInv

LEMMA PayMoves ==
    ASSUME FeesTypes, SolventInv, NEW w \in withdrawals \ paid,
           account' = account - w.amount, paid' = paid \cup {w},
           UNCHANGED <<deposited, credited, fees, withdrawals>>
    PROVE  SolventInv'
<1>1. IsFiniteSet(withdrawals \ paid) /\ account \in Int
  BY FS_Subset DEF FeesTypes
<1>2. /\ Amounts \in [withdrawals -> Nat] /\ Amounts[w] = w.amount /\ w.amount \in Nat
      /\ TotalUnearned \in Nat /\ TotalFees \in Nat /\ TotalDue \in Nat
  BY FeeTotals DEF Amounts, FeesTypes
<1>3. withdrawals' \ paid' = (withdrawals \ paid) \ {w} /\ Amounts' = Amounts
  BY DEF Amounts
<1>4. TotalDue = Amounts[w] + SumFunctionOnSet(Amounts, (withdrawals \ paid) \ {w})
  BY <1>1, <1>2, SumWithout DEF TotalDue
<1>5. TotalDue' = SumFunctionOnSet(Amounts, (withdrawals \ paid) \ {w})
  BY <1>3 DEF TotalDue
<1>6. IsFiniteSet((withdrawals \ paid) \ {w})
  BY <1>1, FS_Subset
<1>7. SumFunctionOnSet(Amounts, (withdrawals \ paid) \ {w}) \in Int
  BY <1>2, <1>6, SumInt
<1>8. TotalUnearned' = TotalUnearned /\ TotalFees' = TotalFees
  BY DEF TotalUnearned, Unearned, TotalFees
<1> QED BY <1>1, <1>2, <1>4, <1>5, <1>7, <1>8 DEF SolventInv

----------------------------------------------------------------------------
(* The steps.                                                              *)

LEMMA FeesFrame ==
    /\ UNCHANGED <<meta, sealed, sent, deposited>> /\ DepositInv => DepositInv'
    /\ UNCHANGED <<hub, others>> /\ CreditInv => CreditInv'
    /\ UNCHANGED <<deposited, credited, fees, withdrawals, paid, account>> /\ SolventInv => SolventInv'
<1>1. UNCHANGED <<meta, sealed, sent, deposited>> /\ DepositInv => DepositInv'
  BY DEF DepositInv
<1>2. UNCHANGED <<hub, others>> /\ CreditInv => CreditInv'
  BY DEF CreditInv, hub, others, Delivered, Deliverer
<1>3. UNCHANGED <<deposited, credited, fees, withdrawals, paid, account>> /\ SolventInv => SolventInv'
  BY DEF SolventInv, TotalUnearned, Unearned, TotalFees, TotalDue, Amounts
<1> QED BY <1>1, <1>2, <1>3

LEMMA DispatchStep ==
    ASSUME FeesInv, NEW m \in Messages, NEW fee \in Fee, Dispatch(m, fee) PROVE FeesInv'
<1>1. /\ m \notin sent /\ sent' = sent \cup {m} /\ account' = account + fee
      /\ meta' = [meta EXCEPT ![m] = fee] /\ deposited' = [deposited EXCEPT ![m] = fee]
      /\ UNCHANGED <<sealed, paid>> /\ UNCHANGED <<hub, others>>
  BY DEF Dispatch
<1>2. fee \in Nat
  BY DEF FeesInv, FeesTypes, FeesConstants, Fee
<1>3. /\ meta' \in [Messages -> Nat \cup {None}] /\ deposited' \in [Messages -> Nat]
      /\ meta'[m] = fee /\ deposited'[m] = fee
      /\ \A o \in Messages \ {m} : meta'[o] = meta[o] /\ deposited'[o] = deposited[o]
  BY <1>1, <1>2 DEF FeesInv, FeesTypes
<1>4. FeesTypes'
  BY <1>1, <1>2, <1>3 DEF FeesInv, FeesTypes, hub, others
<1>5. DepositInv'
  BY <1>1, <1>3 DEF FeesInv, DepositInv
<1>6. CreditInv'
  BY <1>1, FeesFrame DEF FeesInv
<1>7. deposited' = [deposited EXCEPT ![m] = @ + fee]
  <2>1. deposited[m] = 0
    BY <1>1 DEF FeesInv, DepositInv
  <2>2. deposited[m] + fee = fee
    BY <1>2, <2>1
  <2> QED BY Zenon, <1>1, <2>2
<1>8. UNCHANGED <<credited, fees, withdrawals, paid>>
  BY <1>1 DEF hub
<1>9. SolventInv'
  BY Zenon, <1>1, <1>2, <1>4, <1>7, <1>8, DepositMoves DEF FeesInv
<1> QED BY <1>4, <1>5, <1>6, <1>9 DEF FeesInv

LEMMA FundStep ==
    ASSUME FeesInv, NEW m \in Messages, FundMessage(m, 1) PROVE FeesInv'
<1>1. /\ meta[m] # None /\ account' = account + 1
      /\ meta' = [meta EXCEPT ![m] = @ + 1] /\ deposited' = [deposited EXCEPT ![m] = @ + 1]
      /\ UNCHANGED <<sealed, sent, paid>> /\ UNCHANGED <<hub, others>>
  BY DEF FundMessage
<1>2. meta[m] = deposited[m] /\ meta[m] \in Nat
  BY <1>1 DEF FeesInv, DepositInv, FeesTypes
<1>3. /\ meta' \in [Messages -> Nat \cup {None}] /\ deposited' \in [Messages -> Nat]
      /\ meta'[m] = deposited[m] + 1 /\ deposited'[m] = deposited[m] + 1
      /\ \A o \in Messages \ {m} : meta'[o] = meta[o] /\ deposited'[o] = deposited[o]
  BY <1>1, <1>2 DEF FeesInv, FeesTypes
<1>4. FeesTypes'
  BY <1>1, <1>3 DEF FeesInv, FeesTypes, hub, others
<1>5. DepositInv'
  <2>1. ASSUME NEW b \in sealed, NEW o \in Messages, b[o] # None
        PROVE  o \in sent /\ b[o] <= deposited'[o]
    <3>1. o \in sent /\ b[o] <= deposited[o] /\ b[o] \in Nat /\ deposited[o] \in Nat
      BY <2>1 DEF FeesInv, DepositInv, FeesTypes
    <3>2. deposited'[o] = deposited[o] \/ deposited'[o] = deposited[o] + 1
      BY <1>3
    <3> QED BY <3>1, <3>2
  <2>2. m \in sent
    BY <1>1 DEF FeesInv, DepositInv
  <2> QED BY <1>1, <1>3, <2>1, <2>2 DEF FeesInv, DepositInv
<1>6. CreditInv'
  BY <1>1, FeesFrame DEF FeesInv
<1>7. UNCHANGED <<credited, fees, withdrawals, paid>>
  BY <1>1 DEF hub
<1>8. SolventInv'
  BY Zenon, <1>1, <1>4, <1>7, DepositMoves DEF FeesInv
<1> QED BY <1>4, <1>5, <1>6, <1>8 DEF FeesInv

\* A timeout refunds nothing: the fee it reads is gone.
LEMMA TimeoutStep ==
    ASSUME FeesInv, NEW m \in Messages, Timeout(m) PROVE FeesInv'
<1>1. /\ meta' = [meta EXCEPT ![m] = None] /\ account' = account - RefundOf(meta'[m])
      /\ UNCHANGED <<sealed, sent, deposited, paid>> /\ UNCHANGED <<hub, others>>
  BY DEF Timeout
<1>2. /\ meta' \in [Messages -> Nat \cup {None}] /\ meta'[m] = None
      /\ \A o \in Messages \ {m} : meta'[o] = meta[o]
  BY <1>1 DEF FeesInv, FeesTypes
<1>3. account' = account
  BY <1>1, <1>2 DEF RefundOf, FeesInv, FeesTypes
<1>4. FeesTypes'
  BY Zenon, <1>1, <1>2, <1>3 DEF FeesInv, FeesTypes, hub, others
<1>5. DepositInv'
  BY Zenon, <1>1, <1>2 DEF FeesInv, DepositInv
<1>6. CreditInv'
  BY <1>1, FeesFrame DEF FeesInv
<1>7. UNCHANGED <<deposited, credited, fees, withdrawals, paid, account>>
  BY <1>1, <1>3 DEF hub
<1>8. SolventInv'
  BY <1>7, FeesFrame DEF FeesInv
<1> QED BY <1>4, <1>5, <1>6, <1>8 DEF FeesInv

LEMMA PayStep ==
    ASSUME FeesInv, NEW w \in withdrawals, PayWithdrawal(w) PROVE FeesInv'
<1>1. /\ w \in withdrawals \ paid /\ account' = account - w.amount /\ paid' = paid \cup {w}
      /\ UNCHANGED <<meta, sealed, sent, deposited>> /\ UNCHANGED <<hub, others>>
  BY DEF PayWithdrawal
<1>2. w.amount \in Nat
  BY DEF FeesInv, FeesTypes
<1>3. FeesTypes'
  BY <1>1, <1>2 DEF FeesInv, FeesTypes, hub, others
<1>4. DepositInv' /\ CreditInv'
  BY <1>1, FeesFrame DEF FeesInv
<1>5. UNCHANGED <<deposited, credited, fees, withdrawals>>
  BY <1>1 DEF hub
<1>6. SolventInv'
  BY <1>1, <1>5, PayMoves DEF FeesInv
<1> QED BY <1>3, <1>4, <1>6 DEF FeesInv

LEMMA SealStep == ASSUME FeesInv, SealBlock PROVE FeesInv'
<1>1. /\ sealed' = sealed \cup {meta}
      /\ UNCHANGED <<meta, account, sent, deposited, paid>> /\ UNCHANGED <<hub, others>>
  BY DEF SealBlock
<1>2. FeesTypes'
  BY <1>1 DEF FeesInv, FeesTypes, hub, others
<1>3. DepositInv'
  <2>1. \A m \in Messages : meta[m] # None => m \in sent /\ meta[m] <= deposited[m]
    BY DEF FeesInv, DepositInv, FeesTypes
  <2> QED BY <1>1, <2>1 DEF FeesInv, DepositInv
<1>4. CreditInv'
  BY <1>1, FeesFrame DEF FeesInv
<1>5. UNCHANGED <<deposited, credited, fees, withdrawals, paid, account>>
  BY <1>1 DEF hub
<1>6. SolventInv'
  BY <1>5, FeesFrame DEF FeesInv
<1> QED BY <1>2, <1>3, <1>4, <1>6 DEF FeesInv

LEMMA RouteStep ==
    ASSUME FeesInv, NEW m \in PostMessages, Route(m) \/ HubTimeout(m) PROVE FeesInv'
<1>1. /\ UNCHANGED source /\ UNCHANGED others
      /\ UNCHANGED <<feesClaimed, getReceipts, fees, nonce, withdrawals, credited>>
  BY DEF Route, HubTimeout
<1>2. FeesTypes'
  BY <1>1 DEF FeesInv, FeesTypes, source, others
<1>3. CreditInv'
  BY Zenon, <1>1 DEF FeesInv, CreditInv, others, Delivered, Deliverer
<1>4. DepositInv' /\ SolventInv'
  BY <1>1, FeesFrame DEF FeesInv, source
<1> QED BY <1>2, <1>3, <1>4 DEF FeesInv

LEMMA OthersStep ==
    ASSUME FeesInv, \/ \E m \in Messages : Expire(m)
                    \/ \E r \in Relayers : Sign(r)
    PROVE  FeesInv'
<1>1. UNCHANGED source /\ UNCHANGED hub /\ UNCHANGED <<reqReceipts, resReceipts>>
  BY DEF Expire, Sign
<1>2. FeesTypes'
  BY <1>1 DEF FeesInv, FeesTypes, source, hub
<1>3. CreditInv'
  BY Zenon, <1>1 DEF FeesInv, CreditInv, hub, Delivered, Deliverer
<1>4. DepositInv' /\ SolventInv'
  BY <1>1, FeesFrame DEF FeesInv, source, hub
<1> QED BY <1>2, <1>3, <1>4 DEF FeesInv

\* A delivery leaves the receipts there are.
LEMMA DeliverStep ==
    ASSUME FeesInv, NEW m \in PostMessages, NEW r \in Relayers, DeliverMessage(m, r) PROVE FeesInv'
<1>1. UNCHANGED source /\ UNCHANGED hub
  BY DEF DeliverMessage
<1>2. DepositInv' /\ SolventInv'
  BY <1>1, FeesFrame DEF FeesInv, source, hub
<1>3. CASE m \in ChainRequests
  <2>1. /\ reqReceipts[m] = None /\ reqReceipts' = [reqReceipts EXCEPT ![m] = r] /\ resReceipts' = resReceipts
    BY <1>3 DEF DeliverMessage
  <2>2. reqReceipts' \in [ChainRequests -> Relayers \cup {None}]
    BY <1>3, <2>1 DEF FeesInv, FeesTypes
  <2>3. FeesTypes'
    BY Zenon, <1>1, <2>1, <2>2 DEF FeesInv, FeesTypes, source, hub
  <2>4. \A o \in PostMessages : Delivered(o) => Delivered(o)' /\ Deliverer(o)' = Deliverer(o)
    BY Zenon, <1>3, <2>1 DEF FeesInv, FeesTypes, Delivered, Deliverer
  <2>5. CreditInv'
    BY Zenon, <1>1, <2>4 DEF FeesInv, CreditInv, hub
  <2> QED BY <1>2, <2>3, <2>5 DEF FeesInv
<1>4. CASE m \notin ChainRequests
  <2>1. m \in ChainResponses /\ ChainRequestOf[m] \in Known
    BY <1>4 DEF PostMessages, Known
  <2>2. /\ resReceipts[ChainRequestOf[m]] = None
        /\ resReceipts' = [resReceipts EXCEPT ![ChainRequestOf[m]] = <<m, r>>] /\ reqReceipts' = reqReceipts
    BY <1>4 DEF DeliverMessage
  <2>3. resReceipts' \in [Known -> {None} \cup (ChainResponses \X Relayers)]
    BY <2>1, <2>2 DEF FeesInv, FeesTypes
  <2>4. FeesTypes'
    BY Zenon, <1>1, <2>2, <2>3 DEF FeesInv, FeesTypes, source, hub
  <2>5. ASSUME NEW o \in PostMessages, Delivered(o)
        PROVE  Delivered(o)' /\ Deliverer(o)' = Deliverer(o)
    <3>1. CASE o \in ChainRequests
      BY Zenon, <2>2, <2>5, <3>1 DEF Delivered, Deliverer
    <3>2. CASE o \notin ChainRequests
      <4>1. ChainRequestOf[o] \in Known
        BY <3>2 DEF PostMessages, Known
      <4>2. ChainRequestOf[o] # ChainRequestOf[m]
        BY <2>2, <2>5, <3>2 DEF Delivered
      <4>3. resReceipts'[ChainRequestOf[o]] = resReceipts[ChainRequestOf[o]]
        BY <2>2, <4>1, <4>2 DEF FeesInv, FeesTypes
      <4> QED BY <2>5, <3>2, <4>3 DEF Delivered, Deliverer
    <3> QED BY <3>1, <3>2
  <2>6. CreditInv'
    BY Zenon, <1>1, <2>5 DEF FeesInv, CreditInv, hub
  <2> QED BY <1>2, <2>4, <2>6 DEF FeesInv
<1> QED BY <1>3, <1>4

\* Crediting keeps the types and names one relayer for each message of S.
LEMMA CreditTypes ==
    ASSUME FeesTypes, NEW S \in SUBSET Messages, NEW b \in sealed, NEW who \in [S -> Relayers],
           \A m \in S : credited[m] = {} /\ b[m] # None, Credit(S, b, who),
           UNCHANGED source, UNCHANGED others, UNCHANGED <<nonce, withdrawals>>
    PROVE  /\ FeesTypes'
           /\ \A m \in S : credited'[m] = {who[m]}
           /\ \A m \in Messages \ S : credited'[m] = credited[m]
<1>1. IsFiniteSet(S) /\ b \in [Messages -> Nat \cup {None}]
  BY FS_Subset DEF FeesTypes, FeesConstants
<1>2. \A m \in S : b[m] \in Nat
  BY <1>1
<1>3. \A r \in Relayers : SumFunctionOnSet(b, {m \in S : who[m] = r}) \in Nat
  <2> TAKE r \in Relayers
  <2>1. IsFiniteSet({m \in S : who[m] = r})
    BY <1>1, FS_Subset
  <2> QED BY Zenon, <1>2, <2>1, SumNat
<1>4. fees' \in [Relayers -> Nat]
  BY <1>3 DEF Credit, FeesTypes
<1>5. credited' \in [Messages -> SUBSET Relayers]
  BY DEF Credit, FeesTypes
<1>6. FeesTypes'
  BY Zenon, <1>4, <1>5 DEF FeesTypes, source, others
<1> QED BY Zenon, <1>6 DEF Credit

LEMMA AccumulateStep ==
    ASSUME FeesInv, NEW B \in SUBSET PostMessages, NEW b \in sealed, AccumulateFees(B, b)
    PROVE  FeesInv'
<1> DEFINE S == {m \in Claimable(B) : b[m] # None}
           who == [m \in S |-> Deliverer(m)]
<1>0. FeesTypes /\ DepositInv /\ CreditInv /\ SolventInv
  BY Zenon DEF FeesInv
<1>1. /\ \A m \in S : Delivered(m)
      /\ Credit(S, b, who) /\ feesClaimed' = feesClaimed \cup S
      /\ UNCHANGED source /\ UNCHANGED others /\ UNCHANGED <<getReceipts, nonce, withdrawals>>
  BY DEF AccumulateFees
<1>2. /\ S \in SUBSET Messages /\ S \subseteq PostMessages \ feesClaimed
      /\ \A m \in S : b[m] # None
  BY DEF Claimable, Messages
<1>3. who \in [S -> Relayers] /\ \A m \in S : who[m] = Deliverer(m)
  BY <1>1, <1>2, DelivererIs DEF FeesInv
<1>4. \A m \in S : credited[m] = {} /\ b[m] # None
  BY Zenon, <1>2 DEF FeesInv, CreditInv
<1> HIDE DEF S, who
<1>5. /\ FeesTypes'
      /\ \A m \in S : credited'[m] = {who[m]}
      /\ \A m \in Messages \ S : credited'[m] = credited[m]
  BY Zenon, <1>1, <1>2, <1>3, <1>4, CreditTypes DEF FeesInv
<1>6. UNCHANGED <<deposited, account, withdrawals, paid>> /\ DepositInv'
  BY Zenon, <1>0, <1>1, FeesFrame DEF source
<1>7. SolventInv'
  BY <1>0, <1>1, <1>2, <1>3, <1>4, <1>5, <1>6, CreditMoves
<1>8. CreditInv'
  <2>1. \A m \in PostMessages : (Delivered(m)' <=> Delivered(m)) /\ Deliverer(m)' = Deliverer(m)
    BY Zenon, <1>1 DEF others, Delivered, Deliverer
  <2>2. ChainGets \cap S = {} /\ ChainGets \subseteq Messages /\ PostMessages \subseteq Messages
    BY Zenon, <1>2 DEF FeesInv, FeesTypes, FeesConstants, Messages
  <2>3. \A m \in PostMessages \ feesClaimed' : credited'[m] = {}
    BY Zenon, <1>0, <1>1, <1>5, <2>2 DEF CreditInv
  <2>4. \A m \in ChainGets \ getReceipts' : credited'[m] = {}
    BY Zenon, <1>0, <1>1, <1>5, <2>2 DEF CreditInv
  <2>5. \A m \in S : who[m] \in Relayers
    BY Zenon, <1>3
  <2>6. \A m \in Messages : credited'[m] = {} \/ \E q \in Relayers : credited'[m] = {q}
    <3>1. \A m \in Messages : credited[m] = {} \/ \E q \in Relayers : credited[m] = {q}
      BY Zenon, <1>0 DEF CreditInv
    <3> QED BY <1>5, <2>5, <3>1
  <2>7. \A m \in PostMessages : credited'[m] # {} => Delivered(m)' /\ credited'[m] = {Deliverer(m)'}
    <3>1. \A m \in PostMessages : credited[m] # {} => Delivered(m) /\ credited[m] = {Deliverer(m)}
      BY Zenon, <1>0 DEF CreditInv
    <3> QED BY <1>1, <1>3, <1>5, <2>1, <2>2, <3>1
  <2>8. \A v \in withdrawals' : v.nonce < nonce'[v.relayer]
    BY Zenon, <1>0, <1>1 DEF CreditInv
  <2> QED BY Zenon, <2>3, <2>4, <2>6, <2>7, <2>8 DEF CreditInv
<1> QED BY Zenon, <1>5, <1>6, <1>7, <1>8 DEF FeesInv

LEMMA GetStep ==
    ASSUME FeesInv, NEW g \in ChainGets, NEW b \in sealed, NEW r \in Relayers, HandleGetRequest(g, b, r)
    PROVE  FeesInv'
<1> DEFINE S == {g}
           who == [m \in S |-> r]
<1>0. FeesTypes /\ DepositInv /\ CreditInv /\ SolventInv
  BY Zenon DEF FeesInv
<1>1. /\ g \notin getReceipts /\ b[g] # None
      /\ Credit(S, b, who) /\ getReceipts' = getReceipts \cup S
      /\ UNCHANGED source /\ UNCHANGED others /\ UNCHANGED <<feesClaimed, nonce, withdrawals>>
  BY DEF HandleGetRequest
<1>2. S \in SUBSET Messages /\ S \subseteq ChainGets \ getReceipts
  BY <1>1 DEF Messages
<1>3. who \in [S -> Relayers]
  OBVIOUS
<1>4. \A m \in S : credited[m] = {} /\ b[m] # None
  BY Zenon, <1>1, <1>2 DEF FeesInv, CreditInv
<1> HIDE DEF S, who
<1>5. /\ FeesTypes'
      /\ \A m \in S : credited'[m] = {who[m]}
      /\ \A m \in Messages \ S : credited'[m] = credited[m]
  BY Zenon, <1>1, <1>2, <1>3, <1>4, CreditTypes DEF FeesInv
<1>6. UNCHANGED <<deposited, account, withdrawals, paid>> /\ DepositInv'
  BY Zenon, <1>0, <1>1, FeesFrame DEF source
<1>7. SolventInv'
  BY <1>0, <1>1, <1>2, <1>3, <1>4, <1>5, <1>6, CreditMoves
<1>8. CreditInv'
  <2>1. \A m \in PostMessages : (Delivered(m)' <=> Delivered(m)) /\ Deliverer(m)' = Deliverer(m)
    BY Zenon, <1>1 DEF others, Delivered, Deliverer
  <2>2. PostMessages \cap S = {} /\ ChainGets \subseteq Messages /\ PostMessages \subseteq Messages
    BY Zenon, <1>2 DEF FeesInv, FeesTypes, FeesConstants, Messages
  <2>3. \A m \in PostMessages : credited'[m] = credited[m]
    BY <1>5, <2>2
  <2>4. \A m \in Messages : credited'[m] = {} \/ \E q \in Relayers : credited'[m] = {q}
    <3>1. \A m \in S : who[m] \in Relayers
      BY Zenon, <1>3
    <3>2. \A m \in Messages : credited[m] = {} \/ \E q \in Relayers : credited[m] = {q}
      BY Zenon, <1>0 DEF CreditInv
    <3> QED BY <1>5, <3>1, <3>2
  <2>5. \A m \in ChainGets \ getReceipts' : credited'[m] = {}
    BY Zenon, <1>1, <1>5, <2>2 DEF FeesInv, CreditInv
  <2>6. UNCHANGED <<feesClaimed, nonce, withdrawals>>
    BY <1>1
  <2> QED BY Zenon, <2>1, <2>3, <2>4, <2>5, <2>6 DEF FeesInv, CreditInv
<1> QED BY Zenon, <1>5, <1>6, <1>7, <1>8 DEF FeesInv

LEMMA WithdrawStep ==
    ASSUME FeesInv, NEW r \in Relayers, NEW n \in 0..MaxNonce, WithdrawFees(r, n) PROVE FeesInv'
<1> DEFINE w == [relayer |-> r, nonce |-> nonce[r], amount |-> fees[r]]
<1>1. /\ nonce' = [nonce EXCEPT ![r] = @ + 1] /\ withdrawals' = withdrawals \cup {w}
      /\ fees' = [fees EXCEPT ![r] = 0]
      /\ UNCHANGED source /\ UNCHANGED <<feesClaimed, getReceipts, credited>> /\ UNCHANGED others
  BY Zenon DEF WithdrawFees
<1>2. /\ nonce' \in [Relayers -> Nat] /\ nonce \in [Relayers -> Nat] /\ nonce'[r] = nonce[r] + 1
      /\ \A o \in Relayers \ {r} : nonce'[o] = nonce[o]
      /\ fees' \in [Relayers -> Nat] /\ w \in [relayer : Relayers, nonce : Nat, amount : Nat]
  BY <1>1 DEF FeesInv, FeesTypes
<1>3. IsFiniteSet(withdrawals')
  <2>1. IsFiniteSet(withdrawals)
    BY DEF FeesInv, FeesTypes
  <2> HIDE DEF w
  <2> QED BY <1>1, <2>1, FS_AddElement
<1>4. FeesTypes'
  <2> HIDE DEF w
  <2> QED BY Zenon, <1>1, <1>2, <1>3 DEF FeesInv, FeesTypes, source, others
<1>5. DepositInv'
  BY <1>1, FeesFrame DEF FeesInv, source
<1>6. CreditInv'
  <2>1. \A m \in PostMessages : (Delivered(m)' <=> Delivered(m)) /\ Deliverer(m)' = Deliverer(m)
    BY Zenon, <1>1 DEF others, Delivered, Deliverer
  <2>2. \A v \in withdrawals' : v.nonce < nonce'[v.relayer]
    <3> TAKE v \in withdrawals'
    <3>1. CASE v \in withdrawals
      <4>1. v.nonce < nonce[v.relayer] /\ v.relayer \in Relayers /\ v.nonce \in Nat
        BY Zenon, <3>1 DEF FeesInv, CreditInv, FeesTypes
      <4>2. /\ nonce[v.relayer] \in Nat
            /\ nonce'[v.relayer] \in {nonce[v.relayer], nonce[v.relayer] + 1}
        BY Zenon, <1>2, <4>1
      <4> HIDE DEF w
      <4> QED BY <4>1, <4>2
    <3>2. CASE v = w
      BY <1>2, <3>2
    <3> QED BY <1>1, <3>1, <3>2
  <2> QED BY Zenon, <1>1, <2>1, <2>2 DEF FeesInv, CreditInv
<1>7. UNCHANGED <<deposited, credited, account, paid>>
  BY <1>1 DEF source
<1>8. SolventInv'
  BY Zenon, <1>1, <1>4, <1>7, WithdrawMoves DEF FeesInv
<1> QED BY <1>4, <1>5, <1>6, <1>8 DEF FeesInv

----------------------------------------------------------------------------
(* The invariant.                                                          *)

LEMMA FeesStart == FeesConstants /\ FeesInit => FeesInv
<1> SUFFICES ASSUME FeesConstants, FeesInit PROVE FeesInv
  OBVIOUS
<1>1. FeesTypes
  <2>1. IsFiniteSet(withdrawals)
    BY Zenon, FS_EmptySet DEF FeesInit
  <2>2. /\ meta \in [Messages -> Nat \cup {None}] /\ deposited \in [Messages -> Nat]
        /\ fees \in [Relayers -> Nat] /\ nonce \in [Relayers -> Nat]
        /\ credited \in [Messages -> SUBSET Relayers]
    BY Zenon DEF FeesInit
  <2>3. /\ reqReceipts \in [ChainRequests -> Relayers \cup {None}]
        /\ resReceipts \in [Known -> {None} \cup (ChainResponses \X Relayers)]
    BY Zenon DEF FeesInit, Known
  <2>4. account \in Int /\ sealed = {} /\ withdrawals = {} /\ paid = {}
    <3>1. account = 0 /\ sealed = {} /\ withdrawals = {} /\ paid = {}
      BY Zenon DEF FeesInit
    <3> QED BY <3>1
  <2> QED BY Zenon, <2>1, <2>2, <2>3, <2>4 DEF FeesTypes
<1>2. DepositInv
  BY Zenon DEF FeesInit, DepositInv
<1>3. CreditInv
  BY Zenon DEF FeesInit, CreditInv, Messages
<1>4. SolventInv
  <2>1. IsFiniteSet(Messages) /\ IsFiniteSet(Relayers)
    BY DEF FeesConstants
  <2>2. /\ \A m \in Messages : Unearned[m] = 0
        /\ \A r \in Relayers : fees[r] = 0
    BY Zenon DEF FeesInit, Unearned
  <2>3. TotalUnearned = 0
    BY <2>1, <2>2, SumZero DEF TotalUnearned
  <2>4. TotalFees = 0
    BY <2>1, <2>2, SumZero DEF TotalFees
  <2>5. withdrawals \ paid = {} /\ account = 0
    BY Zenon DEF FeesInit
  <2>6. TotalDue = 0
    BY <2>5, SumEmpty DEF TotalDue
  <2> QED BY <2>3, <2>4, <2>5, <2>6 DEF SolventInv
<1> QED BY <1>1, <1>2, <1>3, <1>4 DEF FeesInv

LEMMA FeesStep == FeesInv /\ [FeesNext]_feesVars => FeesInv'
<1> SUFFICES ASSUME FeesInv, [FeesNext]_feesVars PROVE FeesInv'
  OBVIOUS
<1>1. CASE \E m \in Messages, fee \in Fee : Dispatch(m, fee)
  BY <1>1, DispatchStep
<1>2. CASE \E m \in Messages : FundMessage(m, 1) \/ Timeout(m)
  BY <1>2, FundStep, TimeoutStep
<1>3. CASE \E w \in withdrawals : PayWithdrawal(w)
  BY <1>3, PayStep
<1>4. CASE SealBlock
  BY <1>4, SealStep
<1>5. CASE \E m \in PostMessages : Route(m) \/ HubTimeout(m)
  BY <1>5, RouteStep
<1>6. CASE \E m \in PostMessages, r \in Relayers : DeliverMessage(m, r)
  BY <1>6, DeliverStep
<1>7. CASE \E B \in SUBSET PostMessages, b \in sealed : AccumulateFees(B, b)
  BY <1>7, AccumulateStep
<1>8. CASE \E g \in ChainGets, b \in sealed, r \in Relayers : HandleGetRequest(g, b, r)
  BY <1>8, GetStep
<1>9. CASE \E r \in Relayers, n \in 0..MaxNonce : WithdrawFees(r, n)
  BY <1>9, WithdrawStep
<1>10. CASE (\E m \in Messages : Expire(m)) \/ (\E r \in Relayers : Sign(r))
  BY <1>10, OthersStep
<1>11. CASE UNCHANGED feesVars
  <2>1. UNCHANGED source /\ UNCHANGED hub /\ UNCHANGED others
    BY <1>11 DEF feesVars
  <2>2. FeesTypes'
    BY Zenon, <2>1 DEF FeesInv, FeesTypes, source, hub, others
  <2>3. DepositInv' /\ CreditInv' /\ SolventInv'
    BY <2>1, FeesFrame DEF FeesInv, source, hub
  <2> QED BY <2>2, <2>3 DEF FeesInv
<1> QED BY Zenon, <1>1, <1>2, <1>3, <1>4, <1>5, <1>6, <1>7, <1>8, <1>9, <1>10, <1>11 DEF FeesNext

LEMMA FeesInvariant == ASSUME FeesConstants PROVE FeesSpec => []FeesInv
<1>1. FeesInit => FeesInv
  BY FeesStart
<1> QED BY <1>1, FeesStep, PTL DEF FeesSpec

\* The escrow account of the source chain covers the fees still to be earned,
\* what Hyperbridge has credited (accumulate_fees, handle_get_requests) and the
\* withdrawals on their way (withdraw_fees).
THEOREM FeesCovered == ASSUME FeesConstants PROVE FeesSpec => []EscrowSolvent
<1>1. FeesInv => EscrowSolvent
  <2> SUFFICES ASSUME FeesInv PROVE EscrowSolvent
    OBVIOUS
  <2>1. /\ TotalUnearned \in Nat /\ TotalFees \in Nat /\ TotalDue \in Nat /\ account \in Int
        /\ \A m \in Messages : Unearned[m] \in Nat
    BY Zenon, FeeTotals DEF FeesInv, FeesTypes
  <2>2. /\ IsFiniteSet(Messages) /\ Outstanding \in SUBSET Messages /\ IsFiniteSet(Outstanding)
    BY Zenon, FS_Subset DEF FeesInv, FeesTypes, FeesConstants, Outstanding
  <2>3. \A m \in Outstanding : Unearned[m] \in Int /\ meta[m] = Unearned[m]
    BY <2>1 DEF Outstanding, FeesInv, DepositInv, Unearned
  <2>4. SumFunctionOnSet(meta, Outstanding) = SumFunctionOnSet(Unearned, Outstanding)
    BY <2>2, <2>3, SumSame
  <2>5. SumFunctionOnSet(Unearned, Outstanding) <= TotalUnearned
    BY <2>1, <2>2, SumSubset DEF TotalUnearned
  <2>6. SumFunctionOnSet(Unearned, Outstanding) \in Int
    BY <2>2, <2>3, SumInt
  <2>7. TotalFees = SumFunctionOnSet(fees, Relayers)
        /\ TotalDue = SumFunctionOnSet([w \in withdrawals |-> w.amount], withdrawals \ paid)
    BY DEF TotalFees, TotalDue, Amounts
  <2>8. TotalUnearned + TotalFees + TotalDue <= account
    BY DEF FeesInv, SolventInv
  <2>9. SumFunctionOnSet(Unearned, Outstanding) + TotalFees + TotalDue <= account
    BY <2>1, <2>5, <2>6, <2>8
  <2> QED BY Zenon, <2>4, <2>7, <2>9 DEF EscrowSolvent
<1> QED BY <1>1, FeesInvariant, PTL

\* The fee of a message is credited once, and to the relayer named by the
\* receipt at its destination.
THEOREM FeesToDeliverer == ASSUME FeesConstants PROVE FeesSpec => []CreditedToDeliverer
<1>1. FeesInv => CreditedToDeliverer
  <2> SUFFICES ASSUME FeesInv PROVE CreditedToDeliverer
    OBVIOUS
  <2>1. \A m \in Messages : Cardinality(credited[m]) <= 1
    <3> TAKE m \in Messages
    <3>1. CASE credited[m] = {}
      <4>1. Cardinality(credited[m]) = 0
        BY Zenon, <3>1, FS_EmptySet
      <4> QED BY <4>1
    <3>2. CASE \E r \in Relayers : credited[m] = {r}
      <4>1. PICK r \in Relayers : credited[m] = {r}
        BY <3>2
      <4>2. Cardinality(credited[m]) = 1
        BY Zenon, <4>1, FS_Singleton
      <4> QED BY <4>2
    <3> QED BY Zenon, <3>1, <3>2 DEF FeesInv, CreditInv
  <2> QED BY Zenon, <2>1 DEF CreditedToDeliverer, FeesInv, CreditInv
<1> QED BY <1>1, FeesInvariant, PTL
============================================================================
