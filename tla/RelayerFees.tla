---------------------------- MODULE RelayerFees ----------------------------
(***************************************************************************)
(* Relayer fees of the messages of one substrate chain: escrowed there on  *)
(* dispatch, credited on Hyperbridge to whoever delivered the message, and *)
(* withdrawn from the escrow account by a request of Hyperbridge.          *)
(*                                                                         *)
(* Sources: pallet-ismp `dispatcher.rs`, `lib.rs` and `impls.rs`; ismp     *)
(* core `handlers/timeout.rs`; pallet-ismp-relayer `lib.rs`; the state     *)
(* coprocessor `impls.rs`; pallet-hyperbridge `lib.rs`.                    *)
(*                                                                         *)
(* How a message gets to its destination or expires is IsmpMessaging's     *)
(* subject; here it is delivered or it expires, never both.  A claim is    *)
(* proven against any block of the source chain, old ones included.        *)
(***************************************************************************)
EXTENDS FeeBounds, Integers, FiniteSets, Functions

CONSTANTS
    ChainRequests,  \* POST requests sent by the source chain
    ChainResponses, \* PostResponses sent by the source chain
    ChainRequestOf, \* the (remote) request each response answers
    ChainGets,      \* GET requests sent by the source chain
    Relayers,
    MinWithdrawal,  \* MinimumWithdrawalAmount
    MaxBlocks,      \* bound on the blocks of the source chain
    MaxNonce        \* bound on the withdrawals of a relayer

PostMessages == ChainRequests \cup ChainResponses
Messages == PostMessages \cup ChainGets

\* What the constants must satisfy.
FeesConstants ==
    /\ DOMAIN ChainRequestOf = ChainResponses
    /\ ChainRequests \cap ChainResponses = {} /\ PostMessages \cap ChainGets = {}
    /\ None \notin Messages \cup Relayers \cup Nat
    /\ IsFiniteSet(Messages) /\ IsFiniteSet(Relayers)
    /\ {MaxFee, MinWithdrawal, MaxBlocks, MaxNonce} \subseteq Nat

VARIABLES
    \* the source chain
    meta,           \* RequestCommitments, ResponseCommitments: fee, or None
    account,        \* balance of RELAYER_FEE_ACCOUNT
    sealed,         \* values of meta at its blocks
    sent,           \* messages dispatched
    timedOut,       \* messages whose on_timeout succeeded
    \* Hyperbridge
    routed,         \* its RequestCommitments and ResponseCommitments
    feesClaimed,    \* those with RequestMetadata.claimed
    getReceipts,    \* its RequestReceipts for GETs
    fees,           \* Fees, by relayer
    nonce,          \* Nonce, by relayer
    withdrawals,    \* requests it has sent to pallet-hyperbridge
    \* the destinations, the relayers, the clock
    reqReceipts,    \* request -> relayer, or None
    resReceipts,    \* request of a response -> <<response, relayer>>, or None
    expired,        \* messages past their timeout_timestamp
    signatures,     \* nonces a relayer has signed
    \* history
    deposited,      \* what was paid into the escrow account for a message
    refunded,       \* what its payer got back
    credited,       \* message -> set of relayers credited for it
    paid            \* withdrawals executed on the source chain

source == <<meta, account, sealed, sent, timedOut, deposited, refunded, paid>>
hub == <<routed, feesClaimed, getReceipts, fees, nonce, withdrawals, credited>>
others == <<reqReceipts, resReceipts, expired, signatures>>
feesVars == <<source, hub, others>>

Fee == 0..MaxFee

FeesInit ==
    /\ meta = [m \in Messages |-> None]
    /\ account = 0 /\ sealed = {} /\ sent = {} /\ timedOut = {}
    /\ routed = {} /\ feesClaimed = {} /\ getReceipts = {}
    /\ fees = [r \in Relayers |-> 0]
    /\ nonce = [r \in Relayers |-> 0]
    /\ withdrawals = {} /\ paid = {}
    /\ reqReceipts = [m \in ChainRequests |-> None]
    /\ resReceipts = [q \in {ChainRequestOf[p] : p \in ChainResponses} |-> None]
    /\ expired = {}
    /\ signatures = [r \in Relayers |-> {}]
    /\ deposited = [m \in Messages |-> 0]
    /\ refunded = [m \in Messages |-> 0]
    /\ credited = [m \in Messages |-> {}]

----------------------------------------------------------------------------
\* The source chain.

\* The live response to the request that m answers, if m is a response.
LiveSibling(m) == {p \in ChainResponses : m \in ChainResponses /\ ChainRequestOf[p] = ChainRequestOf[m] /\ meta[p] # None}

\* dispatch_request, dispatch_response: the payer's fee goes to the escrow account.
Dispatch(m, fee) ==
    /\ m \notin sent \cup expired
    /\ LiveSibling(m) = {}
    /\ sent' = sent \cup {m}
    /\ meta' = [meta EXCEPT ![m] = fee]
    /\ account' = account + fee
    /\ deposited' = [deposited EXCEPT ![m] = fee]
    /\ UNCHANGED <<sealed, timedOut, refunded, paid, hub, others>>

\* fund_message.
FundMessage(m, more) ==
    /\ meta[m] # None
    /\ meta[m] + more <= MaxFee
    /\ meta' = [meta EXCEPT ![m] = @ + more]
    /\ account' = account + more
    /\ deposited' = [deposited EXCEPT ![m] = @ + more]
    /\ UNCHANGED <<sealed, sent, timedOut, refunded, paid, hub, others>>

\* RefundingModule::on_timeout, which reads the fee from the commitment in m's
\* storage entry.
RefundOf(entry) == IF entry = None THEN 0 ELSE entry

\* timeout::handle deletes the commitment and then calls the module, which is
\* a RefundingModule.  A failing module callback restores the commitment.  A
\* request needs a proof that Hyperbridge has no receipt for it, a GET none;
\* the key proven absent for a response is one no receipt is stored under
\* (ReceiptKey of IsmpMessaging).
Timeout(m) ==
    /\ meta[m] # None
    /\ m \in expired
    /\ m \in ChainRequests => m \notin routed
    /\ meta' = [meta EXCEPT ![m] = None]
    /\ LET refund == RefundOf(meta'[m])
       IN  /\ account' = account - refund
           /\ refunded' = [refunded EXCEPT ![m] = refund]
    /\ timedOut' = timedOut \cup {m}
    /\ UNCHANGED <<sealed, sent, deposited, paid, hub, others>>

\* pallet-hyperbridge's on_accept of WithdrawRelayerFees; a request is
\* executed at most once (AtMostOnce of IsmpMessaging) and never expires.
PayWithdrawal(w) ==
    /\ w \in withdrawals \ paid
    /\ w.amount <= account
    /\ account' = account - w.amount
    /\ paid' = paid \cup {w}
    /\ UNCHANGED <<meta, sealed, sent, timedOut, deposited, refunded, hub, others>>

SealBlock ==
    /\ Cardinality(sealed) < MaxBlocks
    /\ sealed' = sealed \cup {meta}
    /\ UNCHANGED <<meta, account, sent, timedOut, deposited, refunded, paid, hub, others>>
----------------------------------------------------------------------------
\* Routing and delivery.

\* Hyperbridge accepts a message and commits to it for its destination.
Route(m) ==
    /\ m \in sent \ (routed \cup expired)
    /\ m \in ChainResponses => \A p \in routed \cap ChainResponses : ChainRequestOf[p] # ChainRequestOf[m]
    /\ routed' = routed \cup {m}
    /\ UNCHANGED <<source, feesClaimed, getReceipts, fees, nonce, withdrawals, credited, others>>

Delivered(m) == IF m \in ChainRequests THEN reqReceipts[m] # None
                ELSE resReceipts[ChainRequestOf[m]] # None /\ resReceipts[ChainRequestOf[m]][1] = m

\* Mutant: a second delivery replaces the receipt.
DeliverAgain(m, r) ==
    /\ m \in routed \ expired
    /\ IF m \in ChainRequests
         THEN reqReceipts' = [reqReceipts EXCEPT ![m] = r] /\ UNCHANGED resReceipts
         ELSE resReceipts' = [resReceipts EXCEPT ![ChainRequestOf[m]] = <<m, r>>] /\ UNCHANGED reqReceipts
    /\ UNCHANGED <<source, hub, expired, signatures>>

\* A relayer delivers a request or a response: the receipt names the relayer.
DeliverMessage(m, r) ==
    /\ m \in routed \ expired
    /\ IF m \in ChainRequests
         THEN /\ reqReceipts[m] = None
              /\ reqReceipts' = [reqReceipts EXCEPT ![m] = r]
              /\ UNCHANGED resReceipts
         ELSE /\ resReceipts[ChainRequestOf[m]] = None
              /\ resReceipts' = [resReceipts EXCEPT ![ChainRequestOf[m]] = <<m, r>>]
              /\ UNCHANGED reqReceipts
    /\ UNCHANGED <<source, hub, expired, signatures>>

\* Hyperbridge times out a message it routed: commitment and receipt go.
HubTimeout(m) ==
    /\ m \in routed \cap expired
    /\ ~Delivered(m)
    /\ routed' = routed \ {m}
    /\ UNCHANGED <<source, feesClaimed, getReceipts, fees, nonce, withdrawals, credited, others>>

Expire(m) ==
    /\ m \notin expired
    /\ expired' = expired \cup {m}
    /\ UNCHANGED <<source, hub, reqReceipts, resReceipts, signatures>>

----------------------------------------------------------------------------
\* pallet-ismp-relayer and the state coprocessor.

\* Who delivered m, according to the receipt at its destination.
Deliverer(m) == IF m \in ChainRequests THEN reqReceipts[m] ELSE resReceipts[ChainRequestOf[m]][2]

\* Credit the fees of S, as they were in block b, to the relayers who names.
Credit(S, b, who) ==
    /\ fees' = [r \in Relayers |->
                   fees[r] + SumFunctionOnSet(b, {m \in S : who[m] = r})]
    /\ credited' = [m \in Messages |-> IF m \in S THEN credited[m] \cup {who[m]} ELSE credited[m]]

\* Mutant: commitments that were claimed before are not filtered out.
ClaimableAgain(B) == B \cap routed

\* The commitments of a claim that Hyperbridge knows and has not paid for.
Claimable(B) == B \cap (routed \ feesClaimed)

\* accumulate: commitments absent from the source block are skipped, one
\* without a receipt fails the call.
AccumulateFees(B, b) ==
    /\ Claimable(B) # {}
    /\ LET found == {m \in Claimable(B) : b[m] # None}
       IN  /\ \A m \in found : Delivered(m)
           /\ Credit(found, b, [m \in found |-> Deliverer(m)])
           /\ feesClaimed' = feesClaimed \cup found
    /\ UNCHANGED <<source, routed, getReceipts, nonce, withdrawals, others>>

\* handle_get_requests: r names itself as the one to credit.
HandleGetRequest(g, b, r) ==
    /\ g \notin getReceipts \cup expired
    /\ b[g] # None
    /\ getReceipts' = getReceipts \cup {g}
    /\ Credit({g}, b, [m \in {g} |-> r])
    /\ UNCHANGED <<source, routed, feesClaimed, nonce, withdrawals, others>>

\* A relayer signs a withdrawal with its next nonce.
Sign(r) ==
    /\ nonce[r] \notin signatures[r]
    /\ signatures' = [signatures EXCEPT ![r] = @ \cup {nonce[r]}]
    /\ UNCHANGED <<source, hub, reqReceipts, resReceipts, expired>>

\* withdraw_fees, which anyone may submit with a relayer's signature.
WithdrawFees(r, n) ==
    /\ n \in signatures[r] /\ n = nonce[r]
    /\ n < MaxNonce
    /\ fees[r] >= MinWithdrawal
    /\ nonce' = [nonce EXCEPT ![r] = @ + 1]
    /\ withdrawals' = withdrawals \cup {[relayer |-> r, nonce |-> n, amount |-> fees[r]]}
    /\ fees' = [fees EXCEPT ![r] = 0]
    /\ UNCHANGED <<source, routed, feesClaimed, getReceipts, credited, others>>

FeesNext ==
    \/ \E m \in Messages, fee \in Fee : Dispatch(m, fee)
    \/ \E m \in Messages : FundMessage(m, 1) \/ Timeout(m) \/ Expire(m)
    \/ \E w \in withdrawals : PayWithdrawal(w)
    \/ SealBlock
    \/ \E m \in PostMessages : Route(m) \/ HubTimeout(m) \/ \E r \in Relayers : DeliverMessage(m, r)
    \/ \E B \in SUBSET PostMessages, b \in sealed : AccumulateFees(B, b)
    \/ \E g \in ChainGets, b \in sealed, r \in Relayers : HandleGetRequest(g, b, r)
    \/ \E r \in Relayers : Sign(r) \/ \E n \in 0..MaxNonce : WithdrawFees(r, n)
FeesSpec == FeesInit /\ [][FeesNext]_feesVars

----------------------------------------------------------------------------
\* The fee of every message that can still be claimed.
Outstanding == {m \in Messages : meta[m] # None /\ credited[m] = {}}

\* The escrow account covers the fees still to be earned, the credits on
\* Hyperbridge and the withdrawals on their way, although claims are made
\* against old blocks and fees change after they are proven (accumulate_fees,
\* handle_get_requests, withdraw_fees).
EscrowSolvent ==
    SumFunctionOnSet(meta, Outstanding) + SumFunctionOnSet(fees, Relayers)
    + SumFunctionOnSet([w \in withdrawals |-> w.amount], withdrawals \ paid) <= account

\* The fee of a message is credited once, and for a delivered message to the
\* relayer its receipt names (accumulate_fees, handle_get_requests).
CreditedToDeliverer ==
    /\ \A m \in Messages : Cardinality(credited[m]) <= 1
    /\ \A m \in PostMessages : credited[m] # {} => Delivered(m) /\ credited[m] = {Deliverer(m)}

\* "If the dispatched request times-out, then pallet-ismp's inner subsystems
\* will refund the fees to the sponsor of the request."
RefundedOnTimeout == \A m \in timedOut : refunded[m] = deposited[m]
============================================================================
