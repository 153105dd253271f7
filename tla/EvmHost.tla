------------------------------ MODULE EvmHost ------------------------------
(***************************************************************************)
(* An EVM host with its handler, host manager and fee escrow, exchanging   *)
(* messages with Hyperbridge.                                              *)
(*                                                                         *)
(* Sources: `evm/src/hosts/EvmHost.sol`, `evm/src/modules/HandlerV1.sol`,  *)
(* `evm/src/modules/HostManager.sol`; for what Hyperbridge does with the   *)
(* host's messages, pallet-ismp, pallet-ismp-relayer and the state         *)
(* coprocessor.                                                            *)
(*                                                                         *)
(* Unlike pallet-ismp, a module callback that fails does not revert its    *)
(* batch: the receipt is removed, or the commitment put back, so that the  *)
(* message can be retried.  Each handler therefore takes the set of        *)
(* messages whose callback succeeds.  A timeout batch holds one message:   *)
(* the handlers write key i of a one-element array, so a longer one        *)
(* reverts.                                                                *)
(***************************************************************************)
EXTENDS FeeBounds, Integers, FiniteSets, FiniteSetsExt, Functions

CONSTANTS
    Posts,          \* POST requests sent from this host
    Gets,           \* GET requests sent from this host
    Replies,        \* PostResponses to Posts
    RequestOf,      \* Replies -> Posts
    Incoming,       \* POST requests to this host
    Withdrawals,    \* those of pallet-ismp-relayer to the host manager
    Answers,        \* PostResponses sent from this host
    AnswerTo,       \* Answers -> Incoming \ Withdrawals
    Deadline,       \* message -> timeoutTimestamp, Never for 0
    Charge,         \* perByteFee of one word
    Tokens,         \* ERC20 contracts the fee token may be
    Statuses,       \* values of FrozenStatus the admin sets
    MaxTime,        \* bound on the clocks
    MaxCalls        \* bound on the deliveries of one response

Requests == Posts \cup Gets
Outgoing == Requests \cup Answers
\* Messages Hyperbridge commits to in its MMR; a GET stands for its response.
Leaves == Incoming \cup Replies \cup Gets
\* Message.timeout(): a timeoutTimestamp of 0 never times out.
Never == MaxTime + 1

FrozenStatus == {"None", "Incoming", "Outgoing", "All"}

ASSUME HostConstants ==
    \* A message is of one kind.
    /\ Posts \cap Gets = {} /\ Answers \cap Requests = {}
    /\ Incoming \cap Replies = {} /\ Gets \cap (Incoming \cup Replies) = {}
    /\ Withdrawals \subseteq Incoming
    /\ RequestOf \in [Replies -> Posts]
    /\ AnswerTo \in [Answers -> Incoming \ Withdrawals]
    /\ Deadline \in [Outgoing \cup Incoming \cup Replies -> 1..Never]
    \* withdraw_fees dispatches with a timeout of 0.
    /\ \A i \in Withdrawals : Deadline[i] = Never
    /\ {Charge, MaxFee, MaxTime, MaxCalls} \subseteq Nat
    /\ None \notin Nat
    /\ Tokens # {}
    /\ IsFiniteSet(Outgoing) /\ IsFiniteSet(Withdrawals)
    /\ Statuses \subseteq FrozenStatus

VARIABLES
    now,                \* block.timestamp
    frozen,             \* _frozen
    feeToken,           \* _hostParams.feeToken
    balance,            \* the host's balance of feeToken
    fee,                \* _requestCommitments, _responseCommitments: relayer fee or None
    requestReceipts,    \* _requestReceipts
    responseReceipts,   \* _responseReceipts, by request
    responded,          \* _responded
    dispatched,         \* messages sent (the nonce makes each one unique)
    \* Hyperbridge
    hbNow,              \* its timestamp
    hbReceipts,         \* its RequestReceipts for this host's requests
    hbResponses,        \* responses of this host it has a ResponseReceipt for
    leaves,             \* its MMR
    blocks,             \* its blocks that this host has a commitment for
    delivered,          \* this host's messages executed by their destination
    lapsed,             \* those it can no longer execute
    claimed,            \* RequestMetadata.claimed
    credit,             \* pallet_ismp_relayer::Fees for this host
    amount,             \* what a withdrawal pays
    \* history
    feeSeen,            \* the fees its blocks have had for a message
    paidIn,             \* the tokens a message's fee was paid in
    revenue,            \* protocol fees of posts and responses not yet withdrawn
    onAccept, onResponse, onTimeout   \* successful module callbacks

escrow == <<feeToken, balance, fee, feeSeen, paidIn, revenue>>
receipts == <<requestReceipts, responseReceipts, responded>>
hyperbridge == <<hbNow, hbReceipts, hbResponses, leaves, blocks, delivered, lapsed, claimed,
                 credit, amount>>
history == <<onAccept, onResponse, onTimeout>>
vars == <<now, frozen, escrow, receipts, dispatched, hyperbridge, history>>

Init ==
    /\ now = 0 /\ hbNow = 0
    /\ frozen = "None"
    /\ feeToken \in Tokens
    /\ balance = 0 /\ revenue = 0
    /\ fee = [m \in Outgoing |-> None]
    /\ feeSeen = [m \in Outgoing |-> {}]
    /\ paidIn = [m \in Outgoing |-> {}]
    /\ requestReceipts = {} /\ responseReceipts = {} /\ responded = {}
    /\ dispatched = {}
    /\ hbReceipts = {} /\ hbResponses = {} /\ leaves = {} /\ blocks = {}
    /\ delivered = {} /\ lapsed = {} /\ claimed = {} /\ credit = 0
    /\ amount = [i \in Withdrawals |-> 0]
    /\ onAccept = [i \in Incoming |-> 0]
    /\ onResponse = [q \in Replies \cup Gets |-> 0]
    /\ onTimeout = {}

----------------------------------------------------------------------------
CanReceive == frozen \notin {"Incoming", "All"}
CanSend == frozen \notin {"Outgoing", "All"}

\* A message is committed to with the fee `stored`; the caller pays `total`.
Commit(m, stored, total) ==
    /\ CanSend
    /\ m \notin dispatched
    /\ now < Deadline[m]
    /\ dispatched' = dispatched \cup {m}
    /\ fee' = [fee EXCEPT ![m] = stored]
    /\ feeSeen' = [feeSeen EXCEPT ![m] = {stored}]
    /\ balance' = balance + total
    /\ paidIn' = [paidIn EXCEPT ![m] = IF stored > 0 THEN {feeToken} ELSE {}]
    /\ UNCHANGED <<now, frozen, feeToken, requestReceipts, responseReceipts,
                   hyperbridge, history>>

\* dispatch(DispatchPost): the protocol fee is paid on top of the relayer fee.
DispatchPost(r, f) ==
    /\ Commit(r, f, f + Charge)
    /\ revenue' = revenue + Charge
    /\ UNCHANGED responded

\* dispatch(DispatchGet): the commitment holds everything that was paid.
\* `words` is the length of the context.
DispatchGet(g, f, words) ==
    /\ LET total == Max({Charge, f + Charge * words}) IN Commit(g, total, total)
    /\ UNCHANGED <<revenue, responded>>

\* dispatch(DispatchPostResponse), called by the module the request was to.
DispatchPostResponse(a, f) ==
    /\ AnswerTo[a] \in requestReceipts
    /\ AnswerTo[a] \notin responded
    /\ Commit(a, f, f + Charge)
    /\ revenue' = revenue + Charge
    /\ responded' = responded \cup {AnswerTo[a]}

\* fundRequest, fundResponse: anyone may raise the fee of a known message.
Fund(m, more) ==
    /\ fee[m] # None
    /\ fee[m] + more <= MaxFee
    /\ fee' = [fee EXCEPT ![m] = @ + more]
    /\ feeSeen' = [feeSeen EXCEPT ![m] = @ \cup {fee[m] + more}]
    /\ balance' = balance + more
    /\ paidIn' = [paidIn EXCEPT ![m] = @ \cup {feeToken}]
    /\ UNCHANGED <<now, frozen, feeToken, revenue, receipts, dispatched,
                   hyperbridge, history>>

----------------------------------------------------------------------------
\* The batch is in the MMR root of a block of Hyperbridge.
ProvenLeaves(B) == \E b \in blocks : B \subseteq b.leaves

\* One more successful callback for each message of S.
Called(count, S) == [x \in DOMAIN count |-> IF x \in S THEN count[x] + 1 ELSE count[x]]

\* The host manager's onAccept pays withdrawals out of the host's balance.
PaidOut(S) == SumFunctionOnSet(amount, S \cap Withdrawals)

\* Mutant: the duplicate check is dropped.
HandlePostRequestsReplayed(B, ok) ==
    /\ CanReceive
    /\ B # {}
    /\ \A i \in B : now < Deadline[i] /\ onAccept[i] < MaxCalls
    /\ ProvenLeaves(B)
    /\ PaidOut(ok) <= balance
    /\ requestReceipts' = requestReceipts \cup ok
    /\ balance' = balance - PaidOut(ok)
    /\ onAccept' = Called(onAccept, ok)
    /\ UNCHANGED <<now, frozen, feeToken, fee, feeSeen, paidIn, revenue, responseReceipts,
                   responded, dispatched, hyperbridge, onResponse, onTimeout>>

\* handlePostRequests: ok are the requests whose module exists and accepts.
HandlePostRequests(B, ok) ==
    /\ CanReceive
    /\ B # {} /\ B \cap requestReceipts = {}
    /\ \A i \in B : now < Deadline[i]
    /\ ProvenLeaves(B)
    /\ PaidOut(ok) <= balance
    /\ requestReceipts' = requestReceipts \cup ok
    /\ balance' = balance - PaidOut(ok)
    /\ onAccept' = Called(onAccept, ok)
    /\ UNCHANGED <<now, frozen, feeToken, fee, feeSeen, paidIn, revenue, responseReceipts,
                   responded, dispatched, hyperbridge, onResponse, onTimeout>>

\* Mutant: the fee token changes while fees are held in the old one.
UpdateHostParamsUnswept(token) ==
    /\ CanReceive
    /\ token # feeToken
    /\ feeToken' = token
    /\ UNCHANGED <<now, frozen, balance, fee, feeSeen, paidIn, revenue, receipts,
                   dispatched, hyperbridge, history>>

\* The host manager accepts a SetHostParam request of governance.
UpdateHostParams(token) ==
    /\ CanReceive
    /\ token # feeToken
    /\ balance = 0
    /\ feeToken' = token
    /\ UNCHANGED <<now, frozen, balance, fee, feeSeen, paidIn, revenue, receipts,
                   dispatched, hyperbridge, history>>

\* Receipts of a batch of responses; a failed callback deletes the receipt.
StoreResponseReceipts(requests, okRequests) ==
    responseReceipts' = (responseReceipts \ requests) \cup okRequests

\* handlePostResponses.  Receipts are stored by request; line 206 looks one up
\* by response, where none ever is, so no response counts as a duplicate.
HandlePostResponses(B, ok) ==
    /\ CanReceive
    /\ B # {}
    /\ \A q \in B : /\ now < Deadline[q]
                    /\ fee[RequestOf[q]] # None
                    /\ onResponse[q] < MaxCalls
    /\ ProvenLeaves(B)
    /\ StoreResponseReceipts({RequestOf[q] : q \in B}, {RequestOf[q] : q \in ok})
    /\ onResponse' = Called(onResponse, ok)
    /\ UNCHANGED <<now, frozen, escrow, requestReceipts, responded, dispatched, hyperbridge,
                   onAccept, onTimeout>>

\* handleGetResponses.
HandleGetResponses(B, ok) ==
    /\ CanReceive
    /\ B # {} /\ B \cap responseReceipts = {}
    /\ \A g \in B : fee[g] # None
    /\ ProvenLeaves(B)
    /\ StoreResponseReceipts(B, ok)
    /\ onResponse' = Called(onResponse, ok)
    /\ UNCHANGED <<now, frozen, escrow, requestReceipts, responded, dispatched, hyperbridge,
                   onAccept, onTimeout>>

\* dispatchTimeOut: the callback succeeds, the commitment is gone and the fee
\* returns to the payer.  (If the callback fails nothing changes.)
Refund(m) ==
    /\ fee[m] <= balance
    /\ fee' = [fee EXCEPT ![m] = None]
    /\ balance' = balance - fee[m]
    /\ onTimeout' = onTimeout \cup {m}
    /\ UNCHANGED <<now, frozen, feeToken, feeSeen, paidIn, revenue, requestReceipts, responseReceipts,
                   dispatched, hyperbridge, onAccept, onResponse>>

\* Mutant: the deadline is compared with this host's clock.
HandleRequestTimeoutLocally(r) ==
    /\ CanReceive
    /\ fee[r] # None
    /\ \E b \in blocks : Deadline[r] <= now /\ r \notin b.receipts
    /\ Refund(r)
    /\ UNCHANGED responded

\* handlePostRequestTimeouts and handleGetRequestTimeouts.
HandleRequestTimeout(r) ==
    /\ CanReceive
    /\ fee[r] # None
    /\ \E b \in blocks : Deadline[r] <= b.time /\ r \notin b.receipts
    /\ Refund(r)
    /\ UNCHANGED responded

\* The key whose absence from Hyperbridge's ResponseReceipts is proven.
ReceiptKey(a) == a

\* Mutant: the request stays marked as responded.
HandlePostResponseTimeoutResponded(a) ==
    /\ CanReceive
    /\ fee[a] # None
    /\ \E b \in blocks : Deadline[a] <= b.time /\ ReceiptKey(a) \notin b.responses
    /\ Refund(a)
    /\ UNCHANGED responded

\* handlePostResponseTimeouts.
HandlePostResponseTimeout(a) ==
    /\ CanReceive
    /\ fee[a] # None
    /\ \E b \in blocks : Deadline[a] <= b.time /\ ReceiptKey(a) \notin b.responses
    /\ Refund(a)
    /\ responded' = responded \ {AnswerTo[a]}

\* setFrozenState, called by the admin.
SetFrozenState(status) ==
    /\ frozen' = status
    /\ UNCHANGED <<now, escrow, receipts, dispatched, hyperbridge, history>>

----------------------------------------------------------------------------
\* Hyperbridge and the chains behind it: IsmpMessaging has the details.
Host == <<now, frozen, escrow, receipts, dispatched, history>>

\* ismp request::handle, then the proxy module's dispatch.
HbHandleRequest(r) ==
    /\ r \in dispatched \ hbReceipts
    /\ hbNow < Deadline[r]
    /\ hbReceipts' = hbReceipts \cup {r}
    /\ UNCHANGED <<Host, hbNow, hbResponses, leaves, blocks, delivered, lapsed, claimed, credit, amount>>

\* handle_get_requests: the response is committed to and the fee credited, as
\* it was in the block of this host the request is proven against.
HbHandleGet(g, f) ==
    /\ g \in dispatched \ hbReceipts
    /\ f \in feeSeen[g]
    /\ hbNow < Deadline[g]
    /\ hbReceipts' = hbReceipts \cup {g}
    /\ leaves' = leaves \cup {g}
    /\ claimed' = claimed \cup {g}
    /\ credit' = credit + f
    /\ UNCHANGED <<Host, hbNow, hbResponses, blocks, delivered, lapsed, amount>>

\* ismp response::handle for a response of this host, then the proxy module.
HbHandleResponse(a) ==
    /\ a \in dispatched
    /\ hbNow < Deadline[a]
    /\ \A o \in hbResponses : AnswerTo[o] # AnswerTo[a]
    /\ hbResponses' = hbResponses \cup {a}
    /\ UNCHANGED <<Host, hbNow, hbReceipts, leaves, blocks, delivered, lapsed, claimed, credit, amount>>

\* The destination executes a message Hyperbridge has routed to it.
Deliver(m) ==
    /\ m \in (hbReceipts \cap Posts) \cup hbResponses
    /\ m \notin delivered \cup lapsed
    /\ delivered' = delivered \cup {m}
    /\ UNCHANGED <<Host, hbNow, hbReceipts, hbResponses, leaves, blocks, lapsed, claimed, credit, amount>>

\* Hyperbridge times out a message the destination let expire.
HbTimeout(m) ==
    /\ m \in (hbReceipts \cap Posts) \cup hbResponses
    /\ Deadline[m] # Never
    /\ m \notin delivered
    /\ lapsed' = lapsed \cup {m}
    /\ hbReceipts' = hbReceipts \ {m}
    /\ hbResponses' = hbResponses \ {m}
    /\ UNCHANGED <<Host, hbNow, leaves, blocks, delivered, claimed, credit, amount>>

\* Hyperbridge routes a request, or a response to a delivered one, to this host.
HbDispatch(l) ==
    /\ l \in (Incoming \cup Replies) \ (Withdrawals \cup leaves)
    /\ l \in Replies =>
        /\ RequestOf[l] \in delivered
        /\ hbNow < Deadline[l]
        /\ \A q \in (leaves \cap Replies) \ {l} :
               RequestOf[q] = RequestOf[l] => Deadline[q] <= hbNow
    /\ leaves' = leaves \cup {l}
    /\ UNCHANGED <<Host, hbNow, hbReceipts, hbResponses, blocks, delivered, lapsed, claimed, credit, amount>>

\* pallet-ismp-relayer: accumulate credits the fee of a delivered message, again
\* as it was in some block; a fee of 0 is an absent slot and is skipped.
HbAccumulate(m, f) ==
    /\ m \in delivered \ claimed
    /\ f \in feeSeen[m] \ {0}
    /\ claimed' = claimed \cup {m}
    /\ credit' = credit + f
    /\ UNCHANGED <<Host, hbNow, hbReceipts, hbResponses, leaves, blocks, delivered, lapsed, amount>>

\* withdraw_fees: everything credited is sent for at once.
HbWithdraw(i) ==
    /\ i \in Withdrawals \ leaves
    /\ credit > 0
    /\ amount' = [amount EXCEPT ![i] = credit]
    /\ credit' = 0
    /\ leaves' = leaves \cup {i}
    /\ UNCHANGED <<Host, hbNow, hbReceipts, hbResponses, blocks, delivered, lapsed, claimed>>

\* Governance sends for the protocol fees.
HbWithdrawRevenue(i) ==
    /\ i \in Withdrawals \ leaves
    /\ revenue > 0
    /\ amount' = [amount EXCEPT ![i] = revenue]
    /\ revenue' = 0
    /\ leaves' = leaves \cup {i}
    /\ UNCHANGED <<now, frozen, feeToken, balance, fee, feeSeen, paidIn, receipts, dispatched, history,
                   hbNow, hbReceipts, hbResponses, blocks, delivered, lapsed, claimed, credit>>

\* A block of Hyperbridge becomes final and known to this host.
HbSeal ==
    /\ hbNow < MaxTime
    /\ hbNow' = hbNow + 1
    /\ blocks' = blocks \cup {[time |-> hbNow, receipts |-> hbReceipts,
                               responses |-> {AnswerTo[a] : a \in hbResponses}, leaves |-> leaves]}
    /\ UNCHANGED <<Host, hbReceipts, hbResponses, leaves, delivered, lapsed, claimed, credit, amount>>

Tick ==
    /\ now < MaxTime
    /\ now' = now + 1
    /\ UNCHANGED <<frozen, escrow, receipts, dispatched, hyperbridge, history>>
----------------------------------------------------------------------------
Send == \/ \E r \in Posts, f \in 0..MaxFee : DispatchPost(r, f)
        \/ \E g \in Gets, f \in 0..MaxFee, words \in 0..1 : DispatchGet(g, f, words)
        \/ \E a \in Answers, f \in 0..MaxFee : DispatchPostResponse(a, f)
        \/ \E m \in Outgoing : Fund(m, 1)
Handle == \/ \E B \in SUBSET Incoming : \E ok \in SUBSET B : HandlePostRequests(B, ok)
          \/ \E B \in SUBSET Replies : \E ok \in SUBSET B : HandlePostResponses(B, ok)
          \/ \E B \in SUBSET Gets : \E ok \in SUBSET B : HandleGetResponses(B, ok)
          \/ \E r \in Requests : HandleRequestTimeout(r)
          \/ \E a \in Answers : HandlePostResponseTimeout(a)
Govern == \/ \E token \in Tokens : UpdateHostParams(token)
          \/ \E status \in Statuses : SetFrozenState(status)
Hyperbridge == \/ \E r \in Posts : HbHandleRequest(r)
               \/ \E g \in Gets : \E f \in feeSeen[g] : HbHandleGet(g, f)
               \/ \E a \in Answers : HbHandleResponse(a)
               \/ \E m \in Outgoing : \/ Deliver(m) \/ HbTimeout(m)
                                    \/ \E f \in feeSeen[m] : HbAccumulate(m, f)
               \/ \E l \in Leaves : HbDispatch(l)
               \/ \E i \in Withdrawals : HbWithdraw(i) \/ HbWithdrawRevenue(i)
               \/ HbSeal
Next == Send \/ Handle \/ Govern \/ Hyperbridge \/ Tick
Spec == Init /\ [][Next]_vars

----------------------------------------------------------------------------
\* What the host still owes: the fees of live messages no relayer has been
\* credited for, the credits, and the withdrawals on their way.
Liabilities ==
    SumFunctionOnSet(fee, {m \in Outgoing \ claimed : fee[m] # None})
    + credit
    + SumFunctionOnSet(amount, (leaves \cap Withdrawals) \ requestReceipts)

\* The host can always pay every refund and every relayer: a fee is never paid
\* out twice, whatever the order of funding, delivery, timeout, claim and
\* withdrawal.  The exception is a response sent from here: with ReceiptKey as it
\* is, one that Hyperbridge has processed can also be timed out and refunded.
EscrowBacked == onTimeout \cap Answers = {} => Liabilities <= balance

\* A module's onAccept succeeds at most once per request, although failed
\* calls are retried, and a GET is answered at most once.
ExecutedAtMostOnce ==
    /\ \A i \in Incoming : onAccept[i] <= 1
    /\ \A g \in Gets : onResponse[g] <= 1

\* A request whose timeout was handled was not and will not be executed at its
\* destination or answered here.
RevertedNeverExecuted ==
    \A r \in Requests \cap onTimeout :
        /\ r \notin delivered
        /\ \A q \in Replies : RequestOf[q] = r => onResponse[q] = 0
        /\ r \in Gets => onResponse[r] = 0 /\ r \notin hbReceipts

\* A request is marked responded exactly while one of its responses is live.
RespondedTracksAnswer ==
    \A i \in Incoming \ Withdrawals :
        LET live == {a \in Answers : AnswerTo[a] = i /\ fee[a] # None}
        IN  Cardinality(live) = IF i \in responded THEN 1 ELSE 0

\* A fee that may have to be refunded was paid in today's fee token: the token
\* changes only when nothing is held in it.  Where a response was also refunded,
\* as in EscrowBacked, the balance can be 0 while fees are still held.
RefundInPaidToken ==
    onTimeout \cap Answers = {} =>
        \A m \in Outgoing \ (delivered \cup claimed) :
            fee[m] # None => paidIn[m] \subseteq {feeToken}

\* "prevent responses from being replayed": onPostResponse succeeds at most
\* once for each response.
ResponseNotReplayed == \A q \in Replies : onResponse[q] <= 1

============================================================================
