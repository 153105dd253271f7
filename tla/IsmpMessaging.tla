--------------------------- MODULE IsmpMessaging ---------------------------
(***************************************************************************)
(* POST requests, their responses and their timeouts between hosts that    *)
(* run pallet-ismp, directly or through Hyperbridge, the router.           *)
(*                                                                         *)
(* Sources: ismp core `handlers/{request,response,timeout}.rs`; pallet-    *)
(* ismp `host.rs`, `impls.rs`, `dispatcher.rs`, `lib.rs`; the ProxyModule  *)
(* of the Hyperbridge runtime; substrate-state-machine `lib.rs`.           *)
(*                                                                         *)
(* Hosts run asynchronously, each with its own clock.  A proof is taken    *)
(* against any block the remote host has sealed: which of them a host has  *)
(* a usable state commitment for is the business of ConsensusClient, and   *)
(* every choice is allowed here.  A batch is a set of messages handled in  *)
(* one extrinsic, which reverts as a whole if a check or a module callback *)
(* fails, so a failing call is no step.                                    *)
(***************************************************************************)
EXTENDS Integers, FiniteSets

CONSTANTS
    Hosts,          \* state machines running pallet-ismp
    Router,         \* Hyperbridge: every host's Coprocessor
    Tracks,         \* host -> state machines it has a state machine client for
    Posts,          \* POST requests
    Source, Dest,   \* Posts -> Hosts
    Deadline,       \* Posts -> timeout_timestamp, Never for timeout_timestamp = 0
    Responses,      \* PostResponses
    Request,        \* Responses -> the POST request answered
    ResDeadline,    \* Responses -> timeout_timestamp
    MaxTime         \* bound on every host's clock

\* get_timeout(0): later than every timestamp.
Never == MaxTime + 1

ASSUME TopologyAssumption ==
    /\ Router \in Hosts
    /\ Tracks \in [Hosts -> SUBSET Hosts]
    /\ \A c \in Hosts : c \notin Tracks[c]
    /\ \A c \in Hosts \ {Router} : Router \in Tracks[c]
    \* Two hosts are connected directly on both sides or on neither.
    /\ \A c, d \in Hosts : d \in Tracks[c] => c \in Tracks[d]
ASSUME MessagesAssumption ==
    /\ Source \in [Posts -> Hosts]
    /\ Dest \in [Posts -> Hosts]
    /\ \A r \in Posts : Source[r] # Dest[r]
    /\ Deadline \in [Posts -> 1..Never]
    /\ Request \in [Responses -> Posts]
    /\ ResDeadline \in [Responses -> 1..Never]
    /\ Posts \cap Responses = {}
ASSUME MaxTimeAssumption == MaxTime \in Nat

VARIABLES
    now,            \* host timestamps
    reqCommit,      \* child_trie::RequestCommitments, by host
    reqReceipt,     \* child_trie::RequestReceipts
    resCommit,      \* child_trie::ResponseCommitments, keyed by response
    responded,      \* Responded, keyed by request
    resReceipt,     \* child_trie::ResponseReceipts, keyed by request
    blocks,         \* sealed blocks: timestamp and child trie
    dispatched,     \* requests sent (the nonce makes each one unique)
    onAccept,       \* history: calls of the destination module's on_accept
    onTimeout,      \* history: calls of the source module's on_timeout
    onResponse,     \* history: calls of the source module's on_response
    resTimedOut     \* history: responses the responding module's on_timeout was called for

reqVars == <<reqCommit, reqReceipt>>
resVars == <<resCommit, responded, resReceipt>>
history == <<onAccept, onTimeout, onResponse, resTimedOut>>
vars == <<now, reqVars, resVars, blocks, dispatched, history>>

Time == 0..MaxTime
Block == [time : Time, reqCommit : SUBSET Posts, reqReceipt : SUBSET Posts,
          resCommit : SUBSET Responses, resReceipt : SUBSET Posts]

\* Storage holds requests and responses, blocks hold snapshots of storage,
\* and callbacks are counted.
TypeOK ==
    /\ now \in [Hosts -> Time]
    /\ reqCommit \in [Hosts -> SUBSET Posts]
    /\ reqReceipt \in [Hosts -> SUBSET Posts]
    /\ resCommit \in [Hosts -> SUBSET Responses]
    /\ responded \in [Hosts -> SUBSET Posts]
    /\ resReceipt \in [Hosts -> SUBSET Posts]
    /\ blocks \in [Hosts -> SUBSET Block]
    /\ dispatched \in SUBSET Posts
    /\ onAccept \in [Posts -> Nat]
    /\ onTimeout \in [Posts -> Nat]
    /\ onResponse \in [Responses -> Nat]
    /\ resTimedOut \in SUBSET Responses

Init ==
    /\ now = [c \in Hosts |-> 0]
    /\ reqCommit = [c \in Hosts |-> {}]
    /\ reqReceipt = [c \in Hosts |-> {}]
    /\ resCommit = [c \in Hosts |-> {}]
    /\ responded = [c \in Hosts |-> {}]
    /\ resReceipt = [c \in Hosts |-> {}]
    /\ blocks = [c \in Hosts |-> {}]
    /\ dispatched = {}
    /\ onAccept = [r \in Posts |-> 0]
    /\ onTimeout = [r \in Posts |-> 0]
    /\ onResponse = [p \in Responses |-> 0]
    /\ resTimedOut = {}

----------------------------------------------------------------------------
\* Request::timed_out and PostResponse::timed_out.
TimedOut(deadline, time) == time >= deadline

\* The proof is of the chain the message is attributed to, or of the allowed
\* proxy when this host has no state machine client for that chain.
ProofAllowed(c, d, chain) ==
    \/ chain = d
    \/ d = Router /\ chain \notin Tracks[c]

\* One more callback for each message of a batch that ends at this host.
Called(count, S) == [x \in DOMAIN count |-> IF x \in S THEN count[x] + 1 ELSE count[x]]

\* A module sends a POST request.
DispatchRequest(r) ==
    LET c == Source[r] IN
    /\ r \notin dispatched
    /\ ~TimedOut(Deadline[r], now[c])
    /\ dispatched' = dispatched \cup {r}
    /\ reqCommit' = [reqCommit EXCEPT ![c] = @ \cup {r}]
    /\ UNCHANGED <<now, reqReceipt, resVars, blocks, history>>

\* Mutant: any request can be answered.
DispatchResponseUnreceived(p) ==
    LET r == Request[p]
        c == Dest[r] IN
    /\ r \notin responded[c]
    /\ resCommit' = [resCommit EXCEPT ![c] = @ \cup {p}]
    /\ responded' = [responded EXCEPT ![c] = @ \cup {r}]
    /\ UNCHANGED <<now, reqVars, resReceipt, blocks, dispatched, history>>

\* A module answers a request it has received.
DispatchResponse(p) ==
    LET r == Request[p]
        c == Dest[r] IN
    /\ r \in reqReceipt[c]
    /\ r \notin responded[c]
    /\ resCommit' = [resCommit EXCEPT ![c] = @ \cup {p}]
    /\ responded' = [responded EXCEPT ![c] = @ \cup {r}]
    /\ UNCHANGED <<now, reqVars, resReceipt, blocks, dispatched, history>>

\* Mutant: the receipt of an earlier delivery is not looked up.
RequestAcceptableReplayed(c, d, b, r) ==
    /\ ~TimedOut(Deadline[r], now[c])
    /\ Dest[r] = c \/ c = Router
    /\ ProofAllowed(c, d, Source[r])
    /\ r \in b.reqCommit
    /\ Dest[r] # c => r \notin reqCommit[c]

\* The checks of request::handle on one request, and that a routed request
\* can be dispatched onwards.
RequestAcceptable(c, d, b, r) ==
    /\ r \notin reqReceipt[c]
    /\ ~TimedOut(Deadline[r], now[c])
    /\ Dest[r] = c \/ c = Router
    /\ ProofAllowed(c, d, Source[r])
    /\ r \in b.reqCommit
    /\ Dest[r] # c => r \notin reqCommit[c]

\* Mutant: the router keeps the receipt but does not dispatch the request.
HandleRequestsUnrouted(c, d, b, R) ==
    /\ \A r \in R : RequestAcceptable(c, d, b, r)
    /\ reqReceipt' = [reqReceipt EXCEPT ![c] = @ \cup R]
    /\ onAccept' = Called(onAccept, {r \in R : Dest[r] = c})
    /\ UNCHANGED <<now, reqCommit, resVars, blocks, dispatched, onTimeout, onResponse, resTimedOut>>

\* Message::Request: receipts are stored; the router forwards what is not
\* its own by dispatching it again.
HandleRequests(c, d, b, R) ==
    /\ \A r \in R : RequestAcceptable(c, d, b, r)
    /\ reqReceipt' = [reqReceipt EXCEPT ![c] = @ \cup R]
    /\ reqCommit' = [reqCommit EXCEPT ![c] = @ \cup {r \in R : Dest[r] # c}]
    /\ onAccept' = Called(onAccept, {r \in R : Dest[r] = c})
    /\ UNCHANGED <<now, resVars, blocks, dispatched, onTimeout, onResponse, resTimedOut>>

\* The checks of response::handle on one response, receipts being keyed by
\* the request.
ResponseAcceptable(c, d, b, p) ==
    /\ Request[p] \in reqCommit[c]
    /\ Request[p] \notin resReceipt[c]
    /\ ~TimedOut(ResDeadline[p], now[c])
    /\ ProofAllowed(c, d, Dest[Request[p]])
    /\ p \in b.resCommit
    /\ Source[Request[p]] # c => Request[p] \notin responded[c]

\* Message::Response.
HandleResponses(c, d, b, P) ==
    LET requests == {Request[p] : p \in P}
        routed == {p \in P : Source[Request[p]] # c} IN
    /\ \A p, q \in P : Request[p] = Request[q] => p = q
    /\ \A p \in P : ResponseAcceptable(c, d, b, p)
    /\ resReceipt' = [resReceipt EXCEPT ![c] = @ \cup requests]
    /\ resCommit' = [resCommit EXCEPT ![c] = @ \cup routed]
    /\ responded' = [responded EXCEPT ![c] = @ \cup {Request[p] : p \in routed}]
    /\ onResponse' = Called(onResponse, P \ routed)
    /\ UNCHANGED <<now, reqVars, blocks, dispatched, onAccept, onTimeout, resTimedOut>>

\* Mutant: the timeout is judged by this host's clock, not the remote block's.
RequestExpiredLocally(c, d, b, r) ==
    /\ ProofAllowed(c, d, Dest[r])
    /\ r \in reqCommit[c]
    /\ TimedOut(Deadline[r], now[c])
    /\ r \notin b.reqReceipt

\* The checks of timeout::handle on one POST request, the proof showing that
\* the remote host holds no receipt for it.
RequestExpired(c, d, b, r) ==
    /\ ProofAllowed(c, d, Dest[r])
    /\ r \in reqCommit[c]
    /\ TimedOut(Deadline[r], b.time)
    /\ r \notin b.reqReceipt

\* Mutant: the receipts of routed requests stay.
TimeoutRequestsKeepReceipts(c, d, b, R) ==
    /\ \A r \in R : RequestExpired(c, d, b, r)
    /\ reqCommit' = [reqCommit EXCEPT ![c] = @ \ R]
    /\ onTimeout' = Called(onTimeout, {r \in R : Source[r] = c})
    /\ UNCHANGED <<now, reqReceipt, resVars, blocks, dispatched, onAccept, onResponse, resTimedOut>>

\* Message::Timeout(Post): commitments go, and the receipts of routed requests.
TimeoutRequests(c, d, b, R) ==
    /\ \A r \in R : RequestExpired(c, d, b, r)
    /\ reqCommit' = [reqCommit EXCEPT ![c] = @ \ R]
    /\ reqReceipt' = [reqReceipt EXCEPT ![c] = @ \ {r \in R : Source[r] # c}]
    /\ onTimeout' = Called(onTimeout, {r \in R : Source[r] = c})
    /\ UNCHANGED <<now, resVars, blocks, dispatched, onAccept, onResponse, resTimedOut>>

\* SubstrateStateMachine::receipts_state_trie_key looks a response's receipt
\* up under the hash of the response.
ReceiptKey(p) == p

ResponseExpired(c, d, b, p) ==
    /\ ProofAllowed(c, d, Source[Request[p]])
    /\ p \in resCommit[c]
    /\ TimedOut(ResDeadline[p], b.time)
    /\ ReceiptKey(p) \notin b.resReceipt

\* Message::Timeout(PostResponse).
TimeoutResponses(c, d, b, P) ==
    LET routed == {p \in P : Dest[Request[p]] # c} IN
    /\ \A p \in P : ResponseExpired(c, d, b, p)
    /\ resCommit' = [resCommit EXCEPT ![c] = @ \ P]
    /\ responded' = [responded EXCEPT ![c] = @ \ {Request[p] : p \in P}]
    /\ resReceipt' = [resReceipt EXCEPT ![c] = @ \ {Request[p] : p \in routed}]
    /\ resTimedOut' = resTimedOut \cup (P \ routed)
    /\ UNCHANGED <<now, reqVars, blocks, dispatched, onAccept, onTimeout, onResponse>>

\* A block is sealed with the child trie root of on_finalize; the next one
\* has a later timestamp (at the bound, the same one).
SealBlock(c) ==
    /\ blocks' = [blocks EXCEPT ![c] = @ \cup
                    {[time |-> now[c],
                      reqCommit |-> reqCommit[c], reqReceipt |-> reqReceipt[c],
                      resCommit |-> resCommit[c], resReceipt |-> resReceipt[c]]}]
    /\ now' = [now EXCEPT ![c] = IF @ < MaxTime THEN @ + 1 ELSE @]
    /\ UNCHANGED <<reqVars, resVars, dispatched, history>>

\* handle_messages: a relayer submits a batch to host c with a proof of the
\* block b of a state machine d it has a client for.
Relay(c) ==
    \E d \in Tracks[c] : \E b \in blocks[d] :
        \/ \E R \in SUBSET Posts \ {{}} : HandleRequests(c, d, b, R)
        \/ \E P \in SUBSET Responses \ {{}} : HandleResponses(c, d, b, P)
        \/ \E R \in SUBSET Posts \ {{}} : TimeoutRequests(c, d, b, R)
        \/ \E P \in SUBSET Responses \ {{}} : TimeoutResponses(c, d, b, P)

Next ==
    \/ \E r \in Posts : DispatchRequest(r)
    \/ \E p \in Responses : DispatchResponse(p)
    \/ \E c \in Hosts : Relay(c)
    \/ \E c \in Hosts : SealBlock(c)

Spec == Init /\ [][Next]_vars
----------------------------------------------------------------------------
\* A request reaches the destination module at most once, and the source
\* module is told of its timeout, or of one response to it, at most once,
\* although receipts and commitments are deleted along the way
\* (delete_request_receipt, delete_response_commitment).
AtMostOnce ==
    /\ \A r \in Posts : onAccept[r] <= 1 /\ onTimeout[r] <= 1
    /\ \A p \in Responses : onResponse[p] <= 1
    /\ \A p, q \in Responses :
         Request[p] = Request[q] /\ onResponse[p] > 0 /\ onResponse[q] > 0 => p = q

\* A request whose timeout the source has handled was not and will not be
\* accepted by its destination, whatever the clocks of the hosts and
\* whichever of their blocks are proven: the source may revert what it did.
TimeoutExcludesDelivery ==
    \A r \in Posts : onTimeout[r] > 0 => onAccept[r] = 0

\* A response reaches the source only of a request the destination accepted,
\* and never of one the source has timed out.
ResponseFollowsDelivery ==
    \A p \in Responses :
        onResponse[p] > 0 => onAccept[Request[p]] > 0 /\ onTimeout[Request[p]] = 0

\* The router holds the commitment of a request it forwards exactly as long
\* as the receipt that blocks a second forwarding: it can always be timed out.
RoutedTogether ==
    \A r \in Posts : Router \notin {Source[r], Dest[r]} =>
        (r \in reqReceipt[Router] <=> r \in reqCommit[Router])

\* "This asserts that the destination has indeed not processed the relevant
\* messages" (docs, ismp/timeouts.mdx), of responses: a response whose timeout
\* the responding module was told of, the source has not processed.
ResponseTimeoutExcludesDelivery ==
    \A p \in resTimedOut : onResponse[p] = 0

\* The life of each request as its modules see it.
Happened(r) ==
    (IF r \in dispatched THEN {"sent"} ELSE {}) \cup
    (IF onAccept[r] > 0 THEN {"accepted"} ELSE {}) \cup
    (IF \E p \in Responses : Request[p] = r /\ onResponse[p] > 0 THEN {"answered"} ELSE {}) \cup
    (IF onTimeout[r] > 0 THEN {"reverted"} ELSE {})

Lifecycle == INSTANCE PostLifecycle WITH happened <- [r \in Posts |-> Happened(r)]

\* The handlers, run by independent hosts through the router, implement the
\* lifecycle promised to the modules: accept, answer and revert happen in no
\* other order and in no other combination.
ImplementsLifecycle == Lifecycle!Spec

----------------------------------------------------------------------------
\* Blocks keep being produced, and some relayer submits every timeout that
\* stays provable: timeouts are permissionless (handle_unsigned) and cost
\* the submitter nothing.
Fairness ==
    /\ \A c \in Hosts : WF_vars(SealBlock(c))
    /\ \A c \in Hosts, r \in Posts :
         WF_vars(\E d \in Tracks[c] : \E b \in blocks[d] : TimeoutRequests(c, d, b, {r}))

FairSpec == Spec /\ Fairness

\* A request with a timeout is in the end delivered or handed back to its
\* source, even if no relayer ever delivers it or it is stuck at the router.
EventuallyResolved ==
    \A r \in Posts :
        (r \in dispatched /\ Deadline[r] # Never) ~> (onAccept[r] > 0 \/ onTimeout[r] > 0)
============================================================================
