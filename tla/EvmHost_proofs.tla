-------------------------- MODULE EvmHost_proofs --------------------------
(***************************************************************************)
(* For every set of messages and every fee, deadline and bound: a request  *)
(* is executed at most once, a request that was timed out is never         *)
(* executed or answered, the responded flag follows the responses, the     *)
(* host holds what it still has to pay, and a refund is made in the token  *)
(* that was paid.                                                          *)
(***************************************************************************)
EXTENDS EvmHost, NumberFacts, FiniteSetTheorems, TLAPS

\* What sending and handling leave alone.
LEMMA SendFrame ==
    Send => UNCHANGED <<hyperbridge, onAccept, onResponse, onTimeout, requestReceipts, responseReceipts>>
<1>1. \A m, stored, total : Commit(m, stored, total) =>
        UNCHANGED <<hyperbridge, onAccept, onResponse, onTimeout, requestReceipts, responseReceipts>>
  BY Zenon DEF Commit, history
<1>2. \A m, more : Fund(m, more) =>
        UNCHANGED <<hyperbridge, onAccept, onResponse, onTimeout, requestReceipts, responseReceipts>>
  BY Zenon DEF Fund, history, receipts
<1> QED BY Zenon, <1>1, <1>2 DEF Send, DispatchPost, DispatchGet, DispatchPostResponse

LEMMA HandleFrame == Handle => UNCHANGED hyperbridge
BY Zenon DEF Handle, HandlePostRequests, HandlePostResponses, HandleGetResponses,
             HandleRequestTimeout, HandlePostResponseTimeout, Refund

\* What a step that is not a delivery to this host leaves alone.
LEMMA DeliveriesOnly ==
    ASSUME [Next]_vars
    PROVE  \/ \E B \in SUBSET Incoming : \E ok \in SUBSET B : HandlePostRequests(B, ok)
           \/ \E B \in SUBSET Replies : \E ok \in SUBSET B : HandlePostResponses(B, ok)
           \/ \E B \in SUBSET Gets : \E ok \in SUBSET B : HandleGetResponses(B, ok)
           \/ UNCHANGED <<onAccept, onResponse, requestReceipts, responseReceipts>>
<1>1. CASE Send
  BY <1>1, SendFrame
<1>2. CASE Handle
  <2>1. \/ \E B \in SUBSET Incoming : \E ok \in SUBSET B : HandlePostRequests(B, ok)
        \/ \E B \in SUBSET Replies : \E ok \in SUBSET B : HandlePostResponses(B, ok)
        \/ \E B \in SUBSET Gets : \E ok \in SUBSET B : HandleGetResponses(B, ok)
        \/ \E r \in Requests : HandleRequestTimeout(r)
        \/ \E a \in Answers : HandlePostResponseTimeout(a)
    BY <1>2 DEF Handle
  <2>2. \A m : Refund(m) => UNCHANGED <<onAccept, onResponse, requestReceipts, responseReceipts>>
    BY DEF Refund
  <2> QED BY <2>1, <2>2 DEF HandleRequestTimeout, HandlePostResponseTimeout
<1>3. CASE Govern
  BY <1>3 DEF Govern, UpdateHostParams, SetFrozenState, receipts, history
<1>4. CASE Hyperbridge
  BY Zenon, <1>4 DEF Hyperbridge, HbHandleRequest, HbHandleGet, HbHandleResponse, Deliver, HbTimeout,
              HbAccumulate, HbDispatch, HbWithdraw, HbWithdrawRevenue, HbSeal, Host, receipts, history
<1>5. CASE Tick \/ UNCHANGED vars
  BY <1>5 DEF Tick, vars, receipts, history
<1> QED BY <1>1, <1>2, <1>3, <1>4, <1>5 DEF Next

----------------------------------------------------------------------------
(* Executions.                                                             *)

\* What was executed has its receipt.
OnceInv ==
    /\ onAccept \in [Incoming -> Nat]
    /\ onResponse \in [Replies \cup Gets -> Nat]
    /\ \A i \in Incoming : onAccept[i] = 0 \/ (onAccept[i] = 1 /\ i \in requestReceipts)
    /\ \A g \in Gets : onResponse[g] = 0 \/ (onResponse[g] = 1 /\ g \in responseReceipts)

LEMMA CalledCounts ==
    ASSUME NEW D, NEW count \in [D -> Nat], NEW S
    PROVE  /\ Called(count, S) \in [D -> Nat]
           /\ \A x \in D : Called(count, S)[x] = IF x \in S THEN count[x] + 1 ELSE count[x]
BY DEF Called

LEMMA OnceStep == OnceInv /\ [Next]_vars => OnceInv'
<1> SUFFICES ASSUME OnceInv, [Next]_vars PROVE OnceInv'
  OBVIOUS
<1>1. ASSUME NEW B \in SUBSET Incoming, NEW ok \in SUBSET B, HandlePostRequests(B, ok)
      PROVE  OnceInv'
  <2>1. /\ B \cap requestReceipts = {} /\ requestReceipts' = requestReceipts \cup ok
        /\ onAccept' = Called(onAccept, ok)
        /\ UNCHANGED <<onResponse, responseReceipts>>
    BY <1>1 DEF HandlePostRequests
  <2>2. /\ onAccept' \in [Incoming -> Nat]
        /\ \A i \in Incoming : onAccept'[i] = IF i \in ok THEN onAccept[i] + 1 ELSE onAccept[i]
    BY <2>1, CalledCounts DEF OnceInv
  <2>3. \A i \in Incoming : onAccept'[i] = 0 \/ (onAccept'[i] = 1 /\ i \in requestReceipts')
    BY <2>1, <2>2 DEF OnceInv
  <2> QED BY <2>1, <2>2, <2>3 DEF OnceInv
<1>2. ASSUME NEW B \in SUBSET Replies, NEW ok \in SUBSET B, HandlePostResponses(B, ok)
      PROVE  OnceInv'
  <2>1. /\ responseReceipts' = (responseReceipts \ {RequestOf[q] : q \in B}) \cup {RequestOf[q] : q \in ok}
        /\ onResponse' = Called(onResponse, ok)
        /\ UNCHANGED <<onAccept, requestReceipts>>
    BY <1>2 DEF HandlePostResponses, StoreResponseReceipts
  <2>2. \A q \in Replies : RequestOf[q] \notin Gets /\ q \notin Gets
    BY HostConstants
  <2>3. \A g \in Gets : g \notin ok /\ (g \in responseReceipts => g \in responseReceipts')
    BY <2>1, <2>2
  <2>4. /\ onResponse' \in [Replies \cup Gets -> Nat]
        /\ \A x \in Replies \cup Gets :
             onResponse'[x] = IF x \in ok THEN onResponse[x] + 1 ELSE onResponse[x]
    BY <2>1, CalledCounts DEF OnceInv
  <2>5. \A g \in Gets : onResponse'[g] = onResponse[g]
    BY <2>3, <2>4
  <2> QED BY <2>1, <2>3, <2>4, <2>5 DEF OnceInv
<1>3. ASSUME NEW B \in SUBSET Gets, NEW ok \in SUBSET B, HandleGetResponses(B, ok)
      PROVE  OnceInv'
  <2>1. /\ B \cap responseReceipts = {}
        /\ responseReceipts' = (responseReceipts \ B) \cup ok
        /\ onResponse' = Called(onResponse, ok)
        /\ UNCHANGED <<onAccept, requestReceipts>>
    BY <1>3 DEF HandleGetResponses, StoreResponseReceipts
  <2>2. /\ onResponse' \in [Replies \cup Gets -> Nat]
        /\ \A x \in Replies \cup Gets :
             onResponse'[x] = IF x \in ok THEN onResponse[x] + 1 ELSE onResponse[x]
    BY <2>1, CalledCounts DEF OnceInv
  <2>3. \A g \in Gets : onResponse'[g] = 0 \/ (onResponse'[g] = 1 /\ g \in responseReceipts')
    BY <2>1, <2>2 DEF OnceInv
  <2> QED BY <2>1, <2>2, <2>3 DEF OnceInv
<1>4. CASE UNCHANGED <<onAccept, onResponse, requestReceipts, responseReceipts>>
  BY <1>4 DEF OnceInv
<1> QED BY <1>1, <1>2, <1>3, <1>4, DeliveriesOnly

LEMMA OnceInvariant == Spec => []OnceInv
<1>1. Init => OnceInv
  BY DEF Init, OnceInv
<1> QED BY <1>1, OnceStep, PTL DEF Spec

\* A request is executed at most once and a GET answered at most once, although
\* failed calls are retried (handlePostRequests, handleGetResponses and the
\* receipts of dispatchIncoming).
THEOREM ExecutedOnce == Spec => []ExecutedAtMostOnce
<1>1. OnceInv => ExecutedAtMostOnce
  BY DEF OnceInv, ExecutedAtMostOnce
<1> QED BY <1>1, OnceInvariant, PTL

----------------------------------------------------------------------------
(* Timeouts.                                                               *)

\* r is absent from a block of Hyperbridge that has passed its deadline.
AbsentAt(b, r) == Deadline[r] <= b.time /\ r \notin b.receipts

\* What Hyperbridge has routed: a request that is absent once its deadline has
\* passed stays absent, and no response precedes its request.
RouteInv ==
    /\ hbNow \in Nat
    /\ \A b \in blocks : b.time \in Nat /\ b.time < hbNow /\ b.leaves \subseteq leaves
    /\ \A b \in blocks, r \in Requests : AbsentAt(b, r) => r \notin hbReceipts
    /\ hbResponses \subseteq Answers
    /\ delivered \cap Requests \subseteq hbReceipts
    /\ leaves \cap Gets \subseteq hbReceipts
    /\ \A q \in leaves \cap Replies : RequestOf[q] \in delivered

LEMMA RouteStep == RouteInv /\ [Next]_vars => RouteInv'
<1> SUFFICES ASSUME RouteInv, [Next]_vars PROVE RouteInv'
  OBVIOUS
<1> USE DEF hyperbridge
<1>a. \A r \in Requests : Deadline[r] \in Int
  BY HostConstants DEF Outgoing, Never
<1>f. UNCHANGED hyperbridge => RouteInv'
  BY DEF RouteInv, AbsentAt
<1>1. CASE Send
  BY <1>1, <1>f, SendFrame
<1>2. CASE Handle
  BY <1>2, <1>f, HandleFrame
<1>3. CASE Govern
  BY <1>3, <1>f DEF Govern, UpdateHostParams, SetFrozenState
<1>4. CASE Tick \/ UNCHANGED vars
  BY <1>4, <1>f DEF Tick, vars
<1>5. ASSUME NEW r \in Posts, HbHandleRequest(r) PROVE RouteInv'
  <2>1. /\ hbNow < Deadline[r] /\ hbReceipts' = hbReceipts \cup {r}
        /\ UNCHANGED <<hbNow, blocks, leaves, hbResponses, delivered>>
    BY <1>5 DEF HbHandleRequest
  <2>2. \A b \in blocks : ~ AbsentAt(b, r)
    BY <1>a, <2>1 DEF RouteInv, AbsentAt, Requests
  <2> QED BY <2>1, <2>2 DEF RouteInv, AbsentAt
<1>6. ASSUME NEW g \in Gets, NEW f \in feeSeen[g], HbHandleGet(g, f) PROVE RouteInv'
  <2>1. /\ hbNow < Deadline[g] /\ hbReceipts' = hbReceipts \cup {g}
        /\ leaves' = leaves \cup {g}
        /\ UNCHANGED <<hbNow, blocks, hbResponses, delivered>>
    BY <1>6 DEF HbHandleGet
  <2>2. \A b \in blocks : ~ AbsentAt(b, g)
    BY <1>a, <2>1 DEF RouteInv, AbsentAt, Requests
  <2>3. g \notin Replies
    BY HostConstants
  <2> QED BY <2>1, <2>2, <2>3 DEF RouteInv, AbsentAt
<1>7. ASSUME NEW a \in Answers, HbHandleResponse(a) PROVE RouteInv'
  BY <1>7 DEF RouteInv, AbsentAt, HbHandleResponse
<1>8. ASSUME NEW m \in Outgoing, Deliver(m) PROVE RouteInv'
  <2>1. /\ m \in hbReceipts \/ m \in Answers
        /\ delivered' = delivered \cup {m}
        /\ UNCHANGED <<hbNow, hbReceipts, hbResponses, leaves, blocks>>
    BY <1>8 DEF Deliver, RouteInv
  <2> QED BY <2>1, HostConstants DEF RouteInv, AbsentAt
<1>9. ASSUME NEW m \in Outgoing, HbTimeout(m) PROVE RouteInv'
  <2>1. /\ m \in Posts \/ m \in Answers
        /\ m \notin delivered
        /\ hbReceipts' = hbReceipts \ {m} /\ hbResponses' = hbResponses \ {m}
        /\ UNCHANGED <<hbNow, leaves, blocks, delivered>>
    BY <1>9 DEF HbTimeout, RouteInv
  <2>2. m \notin Gets
    BY <2>1, HostConstants DEF Requests
  <2> QED BY <2>1, <2>2 DEF RouteInv, AbsentAt
<1>10. ASSUME NEW m \in Outgoing, NEW f \in feeSeen[m], HbAccumulate(m, f) PROVE RouteInv'
  BY <1>10 DEF RouteInv, AbsentAt, HbAccumulate
<1>11. ASSUME NEW l \in Leaves, HbDispatch(l) PROVE RouteInv'
  <2>1. /\ l \in Incoming \cup Replies
        /\ l \in Replies => RequestOf[l] \in delivered
        /\ leaves' = leaves \cup {l}
        /\ UNCHANGED <<hbNow, hbReceipts, hbResponses, blocks, delivered>>
    BY <1>11 DEF HbDispatch
  <2>2. l \notin Gets
    BY <2>1, HostConstants
  <2> QED BY <2>1, <2>2 DEF RouteInv, AbsentAt
<1>12. ASSUME NEW i \in Withdrawals, HbWithdraw(i) \/ HbWithdrawRevenue(i) PROVE RouteInv'
  <2>1. /\ leaves' = leaves \cup {i}
        /\ UNCHANGED <<hbNow, hbReceipts, hbResponses, blocks, delivered>>
    BY <1>12 DEF HbWithdraw, HbWithdrawRevenue
  <2>2. i \notin Gets \cup Replies
    BY HostConstants
  <2> QED BY <2>1, <2>2 DEF RouteInv, AbsentAt
<1>13. CASE HbSeal
  <2> DEFINE new == [time |-> hbNow, receipts |-> hbReceipts,
                     responses |-> {AnswerTo[a] : a \in hbResponses}, leaves |-> leaves]
  <2>1. /\ hbNow' = hbNow + 1 /\ blocks' = blocks \cup {new}
        /\ UNCHANGED <<hbReceipts, hbResponses, leaves, delivered>>
    BY <1>13 DEF HbSeal
  <2>2. new.time = hbNow /\ new.receipts = hbReceipts /\ new.leaves = leaves
    OBVIOUS
  <2> HIDE DEF new
  <2> QED BY <2>1, <2>2 DEF RouteInv, AbsentAt
<1> QED BY <1>1, <1>2, <1>3, <1>4, <1>5, <1>6, <1>7, <1>8, <1>9, <1>10, <1>11, <1>12, <1>13
        DEF Next, Hyperbridge

\* Every callback had its proof.
ProofInv ==
    /\ RouteInv /\ OnceInv
    /\ \A x \in Replies \cup Gets : onResponse[x] # 0 => x \in leaves
    /\ \A r \in onTimeout \cap Requests : \E b \in blocks : AbsentAt(b, r)

LEMMA BlocksKept ==
    ASSUME [Next]_vars PROVE blocks \subseteq blocks' /\ leaves \subseteq leaves'
<1> USE DEF hyperbridge
<1>1. CASE Send
  BY <1>1, SendFrame
<1>2. CASE Handle
  BY <1>2, HandleFrame
<1>3. CASE Govern
  BY <1>3 DEF Govern, UpdateHostParams, SetFrozenState
<1>4. CASE Hyperbridge
  BY Zenon, <1>4 DEF Hyperbridge, HbHandleRequest, HbHandleGet, HbHandleResponse, Deliver, HbTimeout,
              HbAccumulate, HbDispatch, HbWithdraw, HbWithdrawRevenue, HbSeal
<1>5. CASE Tick \/ UNCHANGED vars
  BY <1>5 DEF Tick, vars
<1> QED BY <1>1, <1>2, <1>3, <1>4, <1>5 DEF Next

LEMMA TimeoutsOnly ==
    ASSUME [Next]_vars
    PROVE  \/ \E r \in Requests : HandleRequestTimeout(r)
           \/ \E a \in Answers : HandlePostResponseTimeout(a)
           \/ UNCHANGED onTimeout
<1>1. CASE Send
  BY <1>1, SendFrame
<1>2. CASE Handle
  BY Zenon, <1>2 DEF Handle, HandlePostRequests, HandlePostResponses, HandleGetResponses
<1>3. CASE Govern
  BY <1>3 DEF Govern, UpdateHostParams, SetFrozenState, history
<1>4. CASE Hyperbridge
  BY Zenon, <1>4 DEF Hyperbridge, HbHandleRequest, HbHandleGet, HbHandleResponse, Deliver, HbTimeout,
              HbAccumulate, HbDispatch, HbWithdraw, HbWithdrawRevenue, HbSeal, Host, history
<1>5. CASE Tick \/ UNCHANGED vars
  BY <1>5 DEF Tick, vars, history
<1> QED BY <1>1, <1>2, <1>3, <1>4, <1>5 DEF Next

LEMMA ProofStep == ProofInv /\ [Next]_vars => ProofInv'
<1> SUFFICES ASSUME ProofInv, [Next]_vars PROVE ProofInv'
  OBVIOUS
<1>1. RouteInv' /\ OnceInv'
  BY RouteStep, OnceStep DEF ProofInv
<1>2. \A x \in Replies \cup Gets : onResponse'[x] # 0 => x \in leaves'
  <2>1. ASSUME NEW B \in SUBSET (Replies \cup Gets), NEW ok \in SUBSET B,
               ProvenLeaves(B), onResponse' = Called(onResponse, ok)
        PROVE  \A x \in Replies \cup Gets : onResponse'[x] # 0 => x \in leaves'
    <3>1. ok \subseteq leaves
      BY Zenon, <2>1 DEF ProvenLeaves, ProofInv, RouteInv
    <3>2. \A x \in Replies \cup Gets : x \notin ok => onResponse'[x] = onResponse[x]
      BY <2>1, CalledCounts DEF ProofInv, OnceInv
    <3> QED BY <3>1, <3>2, BlocksKept DEF ProofInv
  <2>2. \A B, ok : /\ HandlePostResponses(B, ok) => ProvenLeaves(B) /\ onResponse' = Called(onResponse, ok)
                   /\ HandleGetResponses(B, ok) => ProvenLeaves(B) /\ onResponse' = Called(onResponse, ok)
                   /\ HandlePostRequests(B, ok) => UNCHANGED onResponse
    BY Zenon DEF HandlePostResponses, HandleGetResponses, HandlePostRequests
  <2>3. CASE UNCHANGED onResponse
    BY <2>3, BlocksKept DEF ProofInv
  <2>4. ASSUME NEW B \in SUBSET Replies, NEW ok \in SUBSET B, HandlePostResponses(B, ok)
        PROVE  \A x \in Replies \cup Gets : onResponse'[x] # 0 => x \in leaves'
    BY Zenon, <2>1, <2>2, <2>4
  <2>5. ASSUME NEW B \in SUBSET Gets, NEW ok \in SUBSET B, HandleGetResponses(B, ok)
        PROVE  \A x \in Replies \cup Gets : onResponse'[x] # 0 => x \in leaves'
    BY <2>1, <2>2, <2>5
  <2> QED BY <2>2, <2>3, <2>4, <2>5, DeliveriesOnly
<1>3. \A r \in onTimeout' \cap Requests : \E b \in blocks' : AbsentAt(b, r)
  <2>1. CASE UNCHANGED onTimeout
    BY <2>1, BlocksKept DEF ProofInv
  <2>2. ASSUME NEW r \in Requests, HandleRequestTimeout(r)
        PROVE  \A s \in onTimeout' \cap Requests : \E b \in blocks' : AbsentAt(b, s)
    <3>1. /\ onTimeout' = onTimeout \cup {r}
          /\ \E b \in blocks : AbsentAt(b, r)
      BY <2>2 DEF HandleRequestTimeout, Refund, AbsentAt
    <3> QED BY <3>1, BlocksKept DEF ProofInv
  <2>3. ASSUME NEW a \in Answers, HandlePostResponseTimeout(a)
        PROVE  \A s \in onTimeout' \cap Requests : \E b \in blocks' : AbsentAt(b, s)
    <3>1. onTimeout' = onTimeout \cup {a} /\ a \notin Requests
      BY <2>3, HostConstants DEF HandlePostResponseTimeout, Refund
    <3> QED BY <3>1, BlocksKept DEF ProofInv
  <2> QED BY <2>1, <2>2, <2>3, TimeoutsOnly
<1> QED BY Zenon, <1>1, <1>2, <1>3 DEF ProofInv

\* A request whose timeout was handled is not executed at its destination and
\* not answered here, then or later, although the two chains' clocks differ and
\* timeouts are proven against old blocks (handlePostRequestTimeouts,
\* handleGetRequestTimeouts).
THEOREM TimedOutNeverExecuted == Spec => []RevertedNeverExecuted
<1>1. Init => ProofInv
  BY DEF Init, ProofInv, RouteInv, OnceInv
<1>2. ProofInv => RevertedNeverExecuted
  <2> SUFFICES ASSUME ProofInv, NEW r \in Requests \cap onTimeout
               PROVE  /\ r \notin delivered
                      /\ \A q \in Replies : RequestOf[q] = r => onResponse[q] = 0
                      /\ r \in Gets => onResponse[r] = 0 /\ r \notin hbReceipts
    BY DEF RevertedNeverExecuted
  <2>1. r \notin hbReceipts
    BY Zenon DEF ProofInv, RouteInv
  <2>2. r \notin delivered
    BY <2>1 DEF ProofInv, RouteInv
  <2>3. \A q \in Replies : RequestOf[q] = r => onResponse[q] = 0
    BY <2>2 DEF ProofInv, RouteInv
  <2>4. r \in Gets => onResponse[r] = 0
    BY <2>1 DEF ProofInv, RouteInv
  <2> QED BY <2>1, <2>2, <2>3, <2>4
<1> QED BY <1>1, <1>2, ProofStep, PTL DEF Spec

----------------------------------------------------------------------------
(* Responses.                                                              *)

Live(a) == fee[a] # None

\* A request that is marked responded has one live response, another none.
RespondInv ==
    /\ fee \in [Outgoing -> Nat \cup {None}]
    /\ \A a \in Answers : Live(a) => AnswerTo[a] \in responded
    /\ \A a, b \in Answers : Live(a) /\ Live(b) /\ AnswerTo[a] = AnswerTo[b] => a = b
    /\ \A i \in responded : \E a \in Answers : Live(a) /\ AnswerTo[a] = i

LEMMA CommitFee ==
    ASSUME fee \in [Outgoing -> Nat \cup {None}],
           NEW m \in Outgoing, NEW stored \in Nat, NEW total, Commit(m, stored, total)
    PROVE  /\ fee' \in [Outgoing -> Nat \cup {None}] /\ fee'[m] # None
           /\ \A o \in Outgoing \ {m} : fee'[o] = fee[o]
BY HostConstants DEF Commit

LEMMA RespondStep == RespondInv /\ [Next]_vars => RespondInv'
<1> SUFFICES ASSUME RespondInv, [Next]_vars PROVE RespondInv'
  OBVIOUS
<1>t. /\ Answers \cap Requests = {} /\ Posts \subseteq Requests /\ Gets \subseteq Requests
      /\ Requests \subseteq Outgoing /\ Answers \subseteq Outgoing
      /\ MaxFee \in Nat /\ Charge \in Nat /\ None \notin Nat
  BY HostConstants DEF Requests, Outgoing
<1>f. UNCHANGED <<fee, responded>> => RespondInv'
  BY DEF RespondInv, Live
<1>r. ASSUME NEW m \in Requests, fee' \in [Outgoing -> Nat \cup {None}],
             \A o \in Outgoing \ {m} : fee'[o] = fee[o], responded' = responded
      PROVE  RespondInv'
  <2>1. \A a \in Answers : fee'[a] = fee[a]
    BY <1>r, <1>t
  <2> QED BY <1>r, <2>1 DEF RespondInv, Live
<1>1. ASSUME NEW r \in Posts, NEW f \in 0..MaxFee, DispatchPost(r, f) PROVE RespondInv'
  <2>1. Commit(r, f, f + Charge) /\ responded' = responded
    BY <1>1 DEF DispatchPost
  <2>2. f \in Nat /\ r \in Requests /\ r \in Outgoing
    BY <1>t
  <2> QED BY <1>r, <2>1, <2>2, CommitFee DEF RespondInv
<1>2. ASSUME NEW g \in Gets, NEW f \in 0..MaxFee, NEW words \in 0..1, DispatchGet(g, f, words)
      PROVE  RespondInv'
  <2> DEFINE total == Max({Charge, f + Charge * words})
  <2>1. Commit(g, total, total) /\ responded' = responded
    BY <1>2 DEF DispatchGet
  <2>2. f + Charge * words \in Nat
    BY <1>t
  <2>3. total \in Nat
    BY <1>t, <2>2, MaxOfTwo
  <2>4. g \in Requests /\ g \in Outgoing
    BY <1>t
  <2> HIDE DEF total
  <2> QED BY Zenon, <1>r, <2>1, <2>3, <2>4, CommitFee DEF RespondInv
<1>3. ASSUME NEW a \in Answers, NEW f \in 0..MaxFee, DispatchPostResponse(a, f) PROVE RespondInv'
  <2>1. /\ Commit(a, f, f + Charge) /\ AnswerTo[a] \notin responded
        /\ responded' = responded \cup {AnswerTo[a]}
    BY <1>3 DEF DispatchPostResponse
  <2>2. f \in Nat /\ a \in Outgoing
    BY <1>t
  <2>3. /\ fee' \in [Outgoing -> Nat \cup {None}] /\ fee'[a] # None
        /\ \A o \in Answers \ {a} : fee'[o] = fee[o]
    BY <1>t, <2>1, <2>2, CommitFee DEF RespondInv
  <2>4. \A b \in Answers : AnswerTo[b] = AnswerTo[a] => ~ Live(b)
    BY <2>1 DEF RespondInv
  <2> QED BY <2>1, <2>3, <2>4 DEF RespondInv, Live
<1>4. ASSUME NEW m \in Outgoing, Fund(m, 1) PROVE RespondInv'
  <2>1. /\ fee[m] # None /\ fee' = [fee EXCEPT ![m] = @ + 1] /\ responded' = responded
    BY <1>4 DEF Fund, receipts
  <2>2. fee[m] + 1 \in Nat
    BY <2>1 DEF RespondInv
  <2>3. /\ fee' \in [Outgoing -> Nat \cup {None}]
        /\ \A a \in Answers : Live(a)' <=> Live(a)
    BY <1>t, <2>1, <2>2 DEF RespondInv, Live
  <2> QED BY <2>1, <2>3 DEF RespondInv
<1>5. ASSUME NEW r \in Requests, HandleRequestTimeout(r) PROVE RespondInv'
  <2>1. fee' = [fee EXCEPT ![r] = None] /\ responded' = responded
    BY <1>5 DEF HandleRequestTimeout, Refund
  <2>2. fee \in [Outgoing -> Nat \cup {None}]
    BY DEF RespondInv
  <2>3. /\ fee' \in [Outgoing -> Nat \cup {None}]
        /\ \A o \in Outgoing \ {r} : fee'[o] = fee[o]
    BY Zenon, <2>1, <2>2
  <2> QED BY <1>r, <2>1, <2>3
<1>6. ASSUME NEW a \in Answers, HandlePostResponseTimeout(a) PROVE RespondInv'
  <2>1. /\ fee[a] # None
        /\ fee' = [fee EXCEPT ![a] = None] /\ responded' = responded \ {AnswerTo[a]}
    BY Zenon, <1>6 DEF HandlePostResponseTimeout, Refund
  <2>2. /\ fee' \in [Outgoing -> Nat \cup {None}] /\ fee'[a] = None
        /\ \A b \in Answers \ {a} : fee'[b] = fee[b]
    BY <1>t, <2>1 DEF RespondInv
  <2>3. \A b \in Answers \ {a} : AnswerTo[b] = AnswerTo[a] => ~ Live(b)
    BY <2>1 DEF RespondInv, Live
  <2> QED BY <2>1, <2>2, <2>3 DEF RespondInv, Live
<1>7. CASE Handle
  <2>1. \A B, ok : HandlePostRequests(B, ok) \/ HandlePostResponses(B, ok) \/ HandleGetResponses(B, ok)
                     => UNCHANGED <<fee, responded>>
    BY Zenon DEF HandlePostRequests, HandlePostResponses, HandleGetResponses, escrow
  <2> QED BY <1>5, <1>6, <1>7, <1>f, <2>1 DEF Handle
<1>8. CASE Govern
  BY <1>8, <1>f DEF Govern, UpdateHostParams, SetFrozenState, escrow, receipts
<1>9. CASE Hyperbridge
  BY Zenon, <1>9, <1>f DEF Hyperbridge, HbHandleRequest, HbHandleGet, HbHandleResponse, Deliver, HbTimeout,
              HbAccumulate, HbDispatch, HbWithdraw, HbWithdrawRevenue, HbSeal, Host, escrow, receipts
<1>10. CASE Tick \/ UNCHANGED vars
  BY <1>10, <1>f DEF Tick, vars, escrow, receipts
<1> QED BY <1>1, <1>2, <1>3, <1>4, <1>7, <1>8, <1>9, <1>10 DEF Next, Send

\* A request is marked responded exactly while one response to it is live, and
\* never has two: a module can answer again only after its answer timed out
\* (dispatch(DispatchPostResponse), dispatchTimeOut of a response).
THEOREM RespondedFollowsAnswer == Spec => []RespondedTracksAnswer
<1>1. Init => RespondInv
  <2>1. Init => responded = {} /\ fee = [m \in Outgoing |-> None]
    BY Zenon DEF Init
  <2>2. Init => \A a \in Answers : ~ Live(a)
    BY <2>1 DEF Live, Outgoing
  <2>3. Init => fee \in [Outgoing -> Nat \cup {None}]
    BY <2>1
  <2> QED BY <2>1, <2>2, <2>3 DEF RespondInv
<1>2. RespondInv => RespondedTracksAnswer
  <2> SUFFICES ASSUME RespondInv, NEW i \in Incoming \ Withdrawals
               PROVE  Cardinality({a \in Answers : AnswerTo[a] = i /\ fee[a] # None})
                        = IF i \in responded THEN 1 ELSE 0
    BY DEF RespondedTracksAnswer
  <2> DEFINE live == {a \in Answers : AnswerTo[a] = i /\ fee[a] # None}
  <2>1. CASE i \in responded
    <3>1. PICK a \in Answers : Live(a) /\ AnswerTo[a] = i
      BY <2>1 DEF RespondInv
    <3>2. live = {a}
      BY <3>1 DEF RespondInv, Live
    <3> QED BY Zenon, <2>1, <3>2, FS_Singleton
  <2>2. CASE i \notin responded
    <3>1. live = {}
      BY <2>2 DEF RespondInv, Live
    <3> QED BY <2>2, <3>1, FS_EmptySet
  <2> QED BY <2>1, <2>2
<1> QED BY <1>1, <1>2, RespondStep, PTL DEF Spec

----------------------------------------------------------------------------
(* The escrow.                                                             *)

\* The books of the host and of Hyperbridge: a fee is only ever raised, a
\* message without one was timed out, and only a message that was delivered, or
\* a GET that was answered, is claimed.
BookInv ==
    /\ balance \in Int /\ credit \in Nat /\ revenue \in Nat
    /\ fee \in [Outgoing -> Nat \cup {None}] /\ amount \in [Withdrawals -> Nat]
    /\ feeSeen \in [Outgoing -> SUBSET Nat]
    /\ \A m \in Outgoing : fee[m] # None => \A f \in feeSeen[m] : f <= fee[m]
    /\ \A m \in dispatched : m \in onTimeout \/ fee[m] # None
    /\ hbReceipts \subseteq dispatched /\ hbResponses \subseteq dispatched
    /\ delivered \subseteq dispatched
    /\ claimed \cap Posts \subseteq delivered /\ claimed \cap Gets \subseteq hbReceipts

LEMMA NatPlus == \A a, b \in Nat : a + b \in Nat
OBVIOUS

\* Sending is committing to a message or raising its fee.
LEMMA SendCases ==
    ASSUME Send, revenue \in Nat
    PROVE  \/ \E m \in Outgoing, stored \in Nat, charge \in Nat :
                 Commit(m, stored, stored + charge) /\ revenue' = revenue + charge
           \/ \E m \in Outgoing : Fund(m, 1)
<1>t. /\ Posts \subseteq Outgoing /\ Gets \subseteq Outgoing /\ Answers \subseteq Outgoing
      /\ MaxFee \in Nat /\ Charge \in Nat
  BY HostConstants DEF Requests, Outgoing
<1>1. ASSUME NEW m \in Outgoing, NEW f \in 0..MaxFee, Commit(m, f, f + Charge), revenue' = revenue + Charge
      PROVE  \E o \in Outgoing, stored \in Nat, charge \in Nat :
                 Commit(o, stored, stored + charge) /\ revenue' = revenue + charge
  <2>1. f \in Nat
    BY <1>t
  <2> QED BY Zenon, <1>1, <1>t, <2>1
<1>2. ASSUME NEW g \in Gets, NEW f \in 0..MaxFee, NEW words \in 0..1, DispatchGet(g, f, words)
      PROVE  \E m \in Outgoing, stored \in Nat, charge \in Nat :
                 Commit(m, stored, stored + charge) /\ revenue' = revenue + charge
  <2> DEFINE total == Max({Charge, f + Charge * words})
  <2>1. Commit(g, total, total) /\ revenue' = revenue
    BY <1>2 DEF DispatchGet
  <2>2. f + Charge * words \in Nat
    BY <1>t
  <2>3. total \in Nat
    BY <1>t, <2>2, MaxOfTwo
  <2> HIDE DEF total
  <2>4. total + 0 = total /\ revenue + 0 = revenue /\ 0 \in Nat /\ g \in Outgoing
    BY <1>t, <2>3
  <2>5. Commit(g, total, total + 0) /\ revenue' = revenue + 0
    BY Zenon, <2>1, <2>4
  <2> QED BY Zenon, <2>3, <2>4, <2>5
<1> QED BY Zenon, <1>1, <1>2, <1>t DEF Send, DispatchPost, DispatchPostResponse

LEMMA BookStep ==
    ASSUME BookInv, RouteInv, [Next]_vars PROVE BookInv'
<1>t. /\ Answers \cap Requests = {} /\ Posts \cap Gets = {}
      /\ Requests = Posts \cup Gets /\ Outgoing = Requests \cup Answers
      /\ None \notin Nat
  BY HostConstants DEF Requests, Outgoing
<1>1. ASSUME NEW m \in Outgoing, NEW stored \in Nat, NEW charge \in Nat,
             Commit(m, stored, stored + charge), revenue' = revenue + charge
      PROVE  BookInv'
  <2>1. /\ dispatched' = dispatched \cup {m} /\ balance' = balance + stored + charge
        /\ fee' = [fee EXCEPT ![m] = stored] /\ feeSeen' = [feeSeen EXCEPT ![m] = {stored}]
        /\ UNCHANGED <<hyperbridge, onTimeout>>
    BY <1>1 DEF Commit, history, BookInv
  <2>2. /\ fee' \in [Outgoing -> Nat \cup {None}] /\ feeSeen' \in [Outgoing -> SUBSET Nat]
        /\ fee'[m] = stored /\ feeSeen'[m] = {stored}
        /\ \A o \in Outgoing \ {m} : fee'[o] = fee[o] /\ feeSeen'[o] = feeSeen[o]
    BY <2>1 DEF BookInv
  <2> QED BY <1>1, <1>t, <2>1, <2>2 DEF BookInv, hyperbridge
<1>2. ASSUME NEW m \in Outgoing, Fund(m, 1) PROVE BookInv'
  <2>1. /\ fee[m] # None /\ balance' = balance + 1
        /\ fee' = [fee EXCEPT ![m] = @ + 1] /\ feeSeen' = [feeSeen EXCEPT ![m] = @ \cup {fee[m] + 1}]
        /\ UNCHANGED <<hyperbridge, onTimeout, dispatched, revenue>>
    BY <1>2 DEF Fund, history
  <2>2. fee[m] \in Nat
    BY <2>1 DEF BookInv
  <2>3. /\ fee' \in [Outgoing -> Nat \cup {None}] /\ feeSeen' \in [Outgoing -> SUBSET Nat]
        /\ fee'[m] = fee[m] + 1 /\ feeSeen'[m] = feeSeen[m] \cup {fee[m] + 1}
        /\ \A o \in Outgoing \ {m} : fee'[o] = fee[o] /\ feeSeen'[o] = feeSeen[o]
    BY <2>1, <2>2 DEF BookInv
  <2>4. \A f \in feeSeen'[m] : f <= fee'[m]
    BY <2>1, <2>2, <2>3 DEF BookInv
  <2> QED BY <1>t, <2>1, <2>2, <2>3, <2>4 DEF BookInv, hyperbridge
<1>3. ASSUME NEW B \in SUBSET Incoming, NEW ok \in SUBSET B, HandlePostRequests(B, ok) PROVE BookInv'
  <2>1. /\ balance' = balance - PaidOut(ok)
        /\ UNCHANGED <<hyperbridge, onTimeout, dispatched, revenue, fee, feeSeen>>
    BY <1>3 DEF HandlePostRequests
  <2>2. IsFiniteSet(ok \cap Withdrawals)
    BY HostConstants, FS_Subset
  <2>3. PaidOut(ok) \in Int
    BY <2>2, SumInt DEF PaidOut, BookInv
  <2> QED BY <2>1, <2>3 DEF BookInv, hyperbridge
<1>4. ASSUME NEW m \in Outgoing, fee[m] # None, Refund(m) PROVE BookInv'
  <2>1. /\ balance' = balance - fee[m] /\ fee' = [fee EXCEPT ![m] = None]
        /\ onTimeout' = onTimeout \cup {m}
        /\ UNCHANGED <<hyperbridge, dispatched, revenue, feeSeen>>
    BY <1>4 DEF Refund
  <2>2. /\ fee' \in [Outgoing -> Nat \cup {None}] /\ fee'[m] = None /\ fee[m] \in Nat
        /\ \A o \in Outgoing \ {m} : fee'[o] = fee[o]
    BY <1>4, <2>1 DEF BookInv
  <2> QED BY <1>t, <2>1, <2>2 DEF BookInv, hyperbridge
<1>f. UNCHANGED <<balance, revenue, fee, feeSeen, dispatched, onTimeout, hyperbridge>> => BookInv'
  BY DEF BookInv, hyperbridge
<1>5. CASE Send
  BY Zenon, <1>1, <1>2, <1>5, SendCases DEF BookInv
<1>6. CASE Handle
  <2>1. \A B, ok : HandlePostResponses(B, ok) \/ HandleGetResponses(B, ok)
          => UNCHANGED <<balance, revenue, fee, feeSeen, dispatched, onTimeout, hyperbridge>>
    BY Zenon DEF HandlePostResponses, HandleGetResponses, escrow
  <2>2. \A r \in Requests : HandleRequestTimeout(r) => fee[r] # None /\ Refund(r) /\ r \in Outgoing
    BY Zenon, <1>t DEF HandleRequestTimeout
  <2>3. \A a \in Answers : HandlePostResponseTimeout(a) => fee[a] # None /\ Refund(a) /\ a \in Outgoing
    BY <1>t DEF HandlePostResponseTimeout
  <2> QED BY <1>3, <1>4, <1>6, <1>f, <2>1, <2>2, <2>3 DEF Handle
<1>7. CASE Govern
  BY <1>7, <1>f DEF Govern, UpdateHostParams, SetFrozenState, escrow, history
<1>8. CASE Tick \/ UNCHANGED vars
  BY <1>8, <1>f DEF Tick, vars, escrow, history
<1>9. CASE Hyperbridge
  <2> USE DEF Host, escrow, history
  <2>1. ASSUME NEW r \in Posts, HbHandleRequest(r) PROVE BookInv'
    BY Zenon, <1>t, <2>1 DEF HbHandleRequest, BookInv
  <2>2. ASSUME NEW g \in Gets, NEW f \in feeSeen[g], HbHandleGet(g, f) PROVE BookInv'
    <3>1. f \in Nat
      BY <1>t DEF BookInv
    <3> QED BY <1>t, <2>2, <3>1 DEF HbHandleGet, BookInv
  <2>3. ASSUME NEW a \in Answers, HbHandleResponse(a) PROVE BookInv'
    BY Zenon, <1>t, <2>3 DEF HbHandleResponse, BookInv
  <2>4. ASSUME NEW m \in Outgoing, Deliver(m) PROVE BookInv'
    BY Zenon, <1>t, <2>4 DEF Deliver, BookInv
  <2>5. ASSUME NEW m \in Outgoing, HbTimeout(m) PROVE BookInv'
    BY Zenon, <1>t, <2>5 DEF HbTimeout, BookInv, RouteInv
  <2>6. ASSUME NEW m \in Outgoing, NEW f \in feeSeen[m], HbAccumulate(m, f) PROVE BookInv'
    <3>1. f \in Nat /\ credit \in Nat /\ credit' = credit + f
      BY Zenon, <2>6 DEF BookInv, HbAccumulate
    <3>2. credit' \in Nat
      BY Zenon, <3>1, NatPlus
    <3> QED BY Zenon, <1>t, <2>6, <3>2 DEF HbAccumulate, BookInv, RouteInv
  <2>7. ASSUME NEW l \in Leaves, HbDispatch(l) PROVE BookInv'
    BY Zenon, <2>7 DEF HbDispatch, BookInv
  <2>8. ASSUME NEW i \in Withdrawals, HbWithdraw(i) \/ HbWithdrawRevenue(i) PROVE BookInv'
    <3>1. /\ amount' = [amount EXCEPT ![i] = credit] \/ amount' = [amount EXCEPT ![i] = revenue]
          /\ credit' \in Nat /\ revenue' \in Nat
          /\ UNCHANGED <<balance, fee, feeSeen, dispatched, onTimeout, hbReceipts, hbResponses,
                         delivered, claimed>>
      BY <2>8 DEF HbWithdraw, HbWithdrawRevenue, BookInv
    <3> QED BY <3>1 DEF BookInv
  <2>9. CASE HbSeal
    BY Zenon, <2>9 DEF HbSeal, BookInv
  <2> QED BY Zenon, <1>9, <2>1, <2>2, <2>3, <2>4, <2>5, <2>6, <2>7, <2>8, <2>9 DEF Hyperbridge
<1> QED BY <1>5, <1>6, <1>7, <1>8, <1>9 DEF Next

\* What the fee of m is still held for, and what withdrawal i is still owed.
Held == [m \in Outgoing |-> IF m \in claimed \/ fee[m] = None THEN 0 ELSE fee[m]]
Unpaid == [i \in Withdrawals |-> IF i \in leaves \ requestReceipts THEN amount[i] ELSE 0]
TotalHeld == SumFunctionOnSet(Held, Outgoing)
TotalUnpaid == SumFunctionOnSet(Unpaid, Withdrawals)

\* Nothing is paid out twice, the protocol fees included.
BackedInv ==
    onTimeout \cap Answers = {} => TotalHeld + TotalUnpaid + credit + revenue <= balance

LEMMA HeldTypes ==
    BookInv => /\ Held \in [Outgoing -> Nat] /\ TotalHeld \in Nat
               /\ Unpaid \in [Withdrawals -> Nat] /\ TotalUnpaid \in Nat
<1> SUFFICES ASSUME BookInv
             PROVE  /\ Held \in [Outgoing -> Nat] /\ TotalHeld \in Nat
                    /\ Unpaid \in [Withdrawals -> Nat] /\ TotalUnpaid \in Nat
  OBVIOUS
<1>1. \A m \in Outgoing : fee[m] = None \/ fee[m] \in Nat
  BY DEF BookInv
<1>2. Held \in [Outgoing -> Nat]
  BY <1>1 DEF Held
<1>3. Unpaid \in [Withdrawals -> Nat]
  BY DEF BookInv, Unpaid
<1>4. IsFiniteSet(Outgoing) /\ IsFiniteSet(Withdrawals)
  BY Zenon, HostConstants
<1>5. TotalHeld \in Nat
  BY <1>2, <1>4, SumNat DEF TotalHeld
<1>6. TotalUnpaid \in Nat
  BY <1>3, <1>4, SumNat DEF TotalUnpaid
<1> QED BY <1>2, <1>3, <1>5, <1>6

LEMMA LiabilitiesAre == BookInv => Liabilities = TotalHeld + credit + TotalUnpaid
<1> SUFFICES ASSUME BookInv PROVE Liabilities = TotalHeld + credit + TotalUnpaid
  OBVIOUS
<1> DEFINE H == {m \in Outgoing \ claimed : fee[m] # None}
           U == (leaves \cap Withdrawals) \ requestReceipts
<1>1. IsFiniteSet(Outgoing) /\ IsFiniteSet(Withdrawals)
  BY HostConstants
<1>2. /\ H \in SUBSET Outgoing /\ U \in SUBSET Withdrawals
      /\ \A m \in H : fee[m] \in Int /\ Held[m] = fee[m]
      /\ \A m \in Outgoing \ H : Held[m] = 0
      /\ \A i \in U : amount[i] \in Int /\ Unpaid[i] = amount[i]
      /\ \A i \in Withdrawals \ U : Unpaid[i] = 0
  BY DEF BookInv, Held, Unpaid
<1>3. Liabilities = SumFunctionOnSet(fee, H) + credit + SumFunctionOnSet(amount, U)
  BY DEF Liabilities
<1> HIDE DEF H, U
<1>4. SumFunctionOnSet(fee, H) = TotalHeld
  BY <1>1, <1>2, SumPart DEF TotalHeld
<1>5. SumFunctionOnSet(amount, U) = TotalUnpaid
  BY <1>1, <1>2, SumPart DEF TotalUnpaid
<1> QED BY <1>3, <1>4, <1>5

\* The sums change with one of their elements.
LEMMA HeldChange ==
    ASSUME Held \in [Outgoing -> Nat], Held' \in [Outgoing -> Nat], NEW m \in Outgoing,
           \A o \in Outgoing \ {m} : Held'[o] = Held[o]
    PROVE  TotalHeld' = TotalHeld + Held'[m] - Held[m]
<1>1. IsFiniteSet(Outgoing)
  BY HostConstants
<1>2. \A o \in Outgoing : Held[o] \in Int /\ Held'[o] \in Int
  OBVIOUS
<1> QED BY <1>1, <1>2, SumChange DEF TotalHeld

LEMMA UnpaidChange ==
    ASSUME Unpaid \in [Withdrawals -> Nat], Unpaid' \in [Withdrawals -> Nat], NEW i \in Withdrawals,
           \A o \in Withdrawals \ {i} : Unpaid'[o] = Unpaid[o]
    PROVE  TotalUnpaid' = TotalUnpaid + Unpaid'[i] - Unpaid[i]
<1>1. IsFiniteSet(Withdrawals)
  BY HostConstants
<1>2. \A o \in Withdrawals : Unpaid[o] \in Int /\ Unpaid'[o] \in Int
  OBVIOUS
<1> QED BY <1>1, <1>2, SumChange DEF TotalUnpaid

LEMMA HeldSame == UNCHANGED <<fee, claimed>> => TotalHeld' = TotalHeld
BY DEF TotalHeld, Held

LEMMA UnpaidSame ==
    amount' = amount /\ (leaves \cap Withdrawals)' = leaves \cap Withdrawals
      /\ requestReceipts' = requestReceipts
    => TotalUnpaid' = TotalUnpaid
<1> SUFFICES ASSUME amount' = amount, (leaves \cap Withdrawals)' = leaves \cap Withdrawals,
                    requestReceipts' = requestReceipts
             PROVE  TotalUnpaid' = TotalUnpaid
  OBVIOUS
<1>1. Unpaid' = Unpaid
  BY DEF Unpaid
<1> QED BY <1>1 DEF TotalUnpaid

\* Withdrawals that are executed are owed no more.
LEMMA UnpaidPaid ==
    ASSUME BookInv, BookInv', NEW ok, UNCHANGED <<amount, leaves>>,
           ok \cap Withdrawals \subseteq leaves, ok \cap requestReceipts = {},
           requestReceipts' = requestReceipts \cup ok
    PROVE  TotalUnpaid' = TotalUnpaid - PaidOut(ok) /\ PaidOut(ok) \in Int
<1> DEFINE P == ok \cap Withdrawals
           R == Withdrawals \ P
<1>1. IsFiniteSet(Withdrawals) /\ P \in SUBSET Withdrawals
  BY HostConstants
<1>2. IsFiniteSet(P) /\ IsFiniteSet(R)
  BY <1>1, FS_Subset
<1>3. /\ \A i \in Withdrawals : Unpaid[i] \in Int /\ Unpaid'[i] \in Int /\ amount[i] \in Int
      /\ \A i \in P : Unpaid[i] = amount[i] /\ Unpaid'[i] = 0
      /\ \A i \in R : Unpaid'[i] = Unpaid[i]
  BY DEF BookInv, Unpaid
<1>4. PaidOut(ok) = SumFunctionOnSet(amount, P)
  BY DEF PaidOut
<1>5. R \subseteq Withdrawals /\ R = Withdrawals \ P
  OBVIOUS
<1> DEFINE before == Unpaid
           after == Unpaid'
<1>6. TotalUnpaid = SumFunctionOnSet(before, Withdrawals) /\ TotalUnpaid' = SumFunctionOnSet(after, Withdrawals)
  BY DEF TotalUnpaid
<1> HIDE DEF P, R
<1>7. TotalUnpaid = SumFunctionOnSet(before, P) + SumFunctionOnSet(before, R)
  <2> HIDE DEF before
  <2>1. \A i \in Withdrawals : before[i] \in Int
    BY <1>3 DEF before
  <2> QED BY Zenon, <1>1, <1>5, <1>6, <2>1, SumSplit
<1>8. TotalUnpaid' = SumFunctionOnSet(after, P) + SumFunctionOnSet(after, R)
  <2>1. \A i \in Withdrawals : after[i] \in Int
    BY <1>3
  <2> HIDE DEF after
  <2> QED BY <1>1, <1>5, <1>6, <2>1, SumSplit
<1>9. SumFunctionOnSet(before, P) = SumFunctionOnSet(amount, P) /\ SumFunctionOnSet(amount, P) \in Int
  <2>1. \A i \in P : amount[i] \in Int /\ before[i] = amount[i]
    BY <1>1, <1>3
  <2> HIDE DEF before
  <2> QED BY Zenon, <1>2, <2>1, SumSame, SumInt
<1>10. SumFunctionOnSet(before, R) = SumFunctionOnSet(after, R) /\ SumFunctionOnSet(before, R) \in Int
  <2>1. \A i \in R : before[i] \in Int /\ after[i] = before[i]
    BY <1>3, <1>5
  <2> HIDE DEF before, after
  <2> QED BY Zenon, <1>2, <2>1, SumSame, SumInt
<1>11. SumFunctionOnSet(after, P) = 0
  <2>1. \A i \in P : after[i] = 0
    BY <1>3
  <2> HIDE DEF after
  <2> QED BY <1>2, <2>1, SumZero
<1> HIDE DEF before, after
<1> QED BY <1>4, <1>7, <1>8, <1>9, <1>10, <1>11

\* A message Hyperbridge can still pay a relayer for has not been refunded,
\* unless it is a response.
LEMMA ClaimHasFee ==
    ASSUME BookInv, ProofInv, onTimeout \cap Answers = {}, NEW m \in Outgoing
    PROVE  /\ m \in delivered => fee[m] # None
           /\ m \in dispatched \cap Gets /\ hbNow < Deadline[m] => fee[m] # None
<1>1. m \in onTimeout => m \in Requests /\ \E b \in blocks : AbsentAt(b, m)
  BY DEF ProofInv, Outgoing
<1>2. m \in onTimeout => m \notin hbReceipts /\ m \notin delivered
  BY Zenon, <1>1 DEF ProofInv, RouteInv
<1>3. m \in onTimeout => ~ (hbNow < Deadline[m])
  <2>1. Deadline[m] \in Int
    BY HostConstants DEF Never
  <2> QED BY <1>1, <2>1 DEF ProofInv, RouteInv, AbsentAt
<1> QED BY <1>2, <1>3 DEF BookInv

\* A request that can be timed out has not been claimed.
LEMMA RefundUnclaimed ==
    ASSUME BookInv, RouteInv, NEW r \in Requests, HandleRequestTimeout(r)
    PROVE  r \notin claimed
<1>1. r \notin hbReceipts
  BY Zenon DEF HandleRequestTimeout, RouteInv, AbsentAt
<1> QED BY Zenon, <1>1 DEF RouteInv, BookInv, Requests

LEMMA BackedStep ==
    ASSUME BookInv, BookInv', ProofInv, BackedInv, [Next]_vars PROVE BackedInv'
<1> SUFFICES ASSUME onTimeout' \cap Answers = {}
             PROVE  TotalHeld' + TotalUnpaid' + credit' + revenue' <= balance'
  BY DEF BackedInv
<1>k. onTimeout \cap Answers = {}
  BY Zenon, TimeoutsOnly DEF HandleRequestTimeout, HandlePostResponseTimeout, Refund
<1>a. /\ TotalHeld + TotalUnpaid + credit + revenue <= balance
      /\ TotalHeld \in Nat /\ TotalUnpaid \in Nat /\ credit \in Nat /\ revenue \in Nat /\ balance \in Int
      /\ Held \in [Outgoing -> Nat] /\ Unpaid \in [Withdrawals -> Nat]
      /\ Held' \in [Outgoing -> Nat] /\ Unpaid' \in [Withdrawals -> Nat]
      /\ TotalHeld' \in Nat /\ TotalUnpaid' \in Nat
  <2>1. TotalHeld + TotalUnpaid + credit + revenue <= balance
    BY <1>k DEF BackedInv
  <2>2. (BookInv => /\ Held \in [Outgoing -> Nat] /\ TotalHeld \in Nat
                    /\ Unpaid \in [Withdrawals -> Nat] /\ TotalUnpaid \in Nat)'
    BY HeldTypes, PTL
  <2> QED BY Zenon, <2>1, <2>2, HeldTypes DEF BookInv
<1>n. None \notin Nat
  BY Zenon, HostConstants
<1>b. fee \in [Outgoing -> Nat \cup {None}] /\ amount \in [Withdrawals -> Nat]
  BY Zenon DEF BookInv
<1>h. \A o \in Outgoing :
        /\ Held[o] = IF o \in claimed \/ fee[o] = None THEN 0 ELSE fee[o]
        /\ Held'[o] = IF o \in claimed' \/ fee'[o] = None THEN 0 ELSE fee'[o]
        /\ Held[o] \in Nat /\ Held'[o] \in Nat
  BY Zenon, <1>a DEF Held
<1>u. \A o \in Withdrawals :
        /\ Unpaid[o] = IF o \in leaves \ requestReceipts THEN amount[o] ELSE 0
        /\ Unpaid'[o] = IF o \in leaves' \ requestReceipts' THEN amount'[o] ELSE 0
        /\ Unpaid[o] \in Nat /\ Unpaid'[o] \in Nat
  BY Zenon, <1>a DEF Unpaid
<1>f. UNCHANGED <<fee, claimed, amount, leaves, requestReceipts, credit, revenue, balance>>
        => TotalHeld' + TotalUnpaid' + credit' + revenue' <= balance'
  BY <1>a, HeldSame, UnpaidSame
<1>1. ASSUME NEW m \in Outgoing, NEW stored \in Nat, NEW charge \in Nat,
             Commit(m, stored, stored + charge), revenue' = revenue + charge
      PROVE  TotalHeld' + TotalUnpaid' + credit' + revenue' <= balance'
  <2>1. /\ balance' = balance + (stored + charge) /\ fee' = [fee EXCEPT ![m] = stored]
        /\ UNCHANGED <<claimed, amount, leaves, requestReceipts, credit>>
    BY Zenon, <1>1 DEF Commit, hyperbridge
  <2>2. /\ \A o \in Outgoing \ {m} : Held'[o] = Held[o]
        /\ Held'[m] <= stored /\ Held[m] \in Nat /\ Held'[m] \in Nat
    <3>1. fee'[m] = stored /\ \A o \in Outgoing \ {m} : fee'[o] = fee[o]
      BY Zenon, <1>b, <2>1
    <3>2. \A o \in Outgoing \ {m} : Held'[o] = Held[o]
      BY Zenon, <1>h, <2>1, <3>1
    <3>3. Held'[m] \in {0, stored} /\ Held[m] \in Nat /\ Held'[m] \in Nat
      BY Zenon, <1>h, <3>1
    <3> QED BY <3>2, <3>3
  <2>3. TotalHeld' = TotalHeld + Held'[m] - Held[m]
    BY <1>a, <2>2, HeldChange
  <2>4. TotalUnpaid' = TotalUnpaid
    BY <2>1, UnpaidSame
  <2> QED BY <1>1, <1>a, <2>1, <2>2, <2>3, <2>4
<1>2. ASSUME NEW m \in Outgoing, Fund(m, 1)
      PROVE  TotalHeld' + TotalUnpaid' + credit' + revenue' <= balance'
  <2>1. /\ balance' = balance + 1 /\ fee[m] # None /\ fee' = [fee EXCEPT ![m] = @ + 1]
        /\ UNCHANGED <<claimed, amount, leaves, requestReceipts, credit, revenue>>
    BY Zenon, <1>2 DEF Fund, hyperbridge, receipts
  <2>2. fee[m] \in Nat
    BY Zenon, <2>1 DEF BookInv
  <2>3. /\ \A o \in Outgoing \ {m} : Held'[o] = Held[o]
        /\ Held'[m] <= Held[m] + 1 /\ Held[m] \in Nat /\ Held'[m] \in Nat
    <3>1. fee'[m] = fee[m] + 1 /\ \A o \in Outgoing \ {m} : fee'[o] = fee[o]
      BY Zenon, <1>b, <2>1
    <3>2. \A o \in Outgoing \ {m} : Held'[o] = Held[o]
      BY Zenon, <1>h, <2>1, <3>1
    <3>3. (Held[m] = 0 /\ Held'[m] = 0) \/ (Held[m] = fee[m] /\ Held'[m] \in {0, fee[m] + 1})
      BY Zenon, <1>h, <2>1, <3>1
    <3>4. Held[m] \in Nat /\ Held'[m] \in Nat
      BY Zenon, <1>h
    <3> QED BY <2>2, <3>2, <3>3, <3>4
  <2>4. TotalHeld' = TotalHeld + Held'[m] - Held[m]
    BY <1>a, <2>3, HeldChange
  <2>5. TotalUnpaid' = TotalUnpaid
    BY <2>1, UnpaidSame
  <2> QED BY <1>a, <2>1, <2>3, <2>4, <2>5
<1>3. ASSUME NEW B \in SUBSET Incoming, NEW ok \in SUBSET B, HandlePostRequests(B, ok)
      PROVE  TotalHeld' + TotalUnpaid' + credit' + revenue' <= balance'
  <2>1. /\ balance' = balance - PaidOut(ok) /\ B \cap requestReceipts = {} /\ ProvenLeaves(B)
        /\ requestReceipts' = requestReceipts \cup ok
        /\ UNCHANGED <<fee, claimed, amount, leaves, credit, revenue>>
    BY <1>3 DEF HandlePostRequests, hyperbridge
  <2>2. ok \cap Withdrawals \subseteq leaves /\ ok \cap requestReceipts = {}
    BY Zenon, <2>1 DEF ProvenLeaves, ProofInv, RouteInv
  <2>3. TotalUnpaid' = TotalUnpaid - PaidOut(ok) /\ PaidOut(ok) \in Int
    BY <2>1, <2>2, UnpaidPaid
  <2>4. TotalHeld' = TotalHeld
    BY <2>1, HeldSame
  <2> QED BY <1>a, <2>1, <2>3, <2>4
<1>4. ASSUME NEW r \in Requests, HandleRequestTimeout(r)
      PROVE  TotalHeld' + TotalUnpaid' + credit' + revenue' <= balance'
  <2>1. /\ fee[r] # None /\ balance' = balance - fee[r] /\ fee' = [fee EXCEPT ![r] = None]
        /\ UNCHANGED <<claimed, amount, leaves, requestReceipts, credit, revenue>>
    BY Zenon, <1>4 DEF HandleRequestTimeout, Refund, hyperbridge
  <2>2. r \in Outgoing /\ r \notin claimed /\ fee[r] \in Nat
    BY Zenon, <1>4, <2>1, RefundUnclaimed DEF Outgoing, BookInv, ProofInv
  <2>3. /\ \A o \in Outgoing \ {r} : Held'[o] = Held[o]
        /\ Held'[r] = 0 /\ Held[r] = fee[r]
    BY Zenon, <2>1, <2>2 DEF Held, BookInv
  <2>4. TotalHeld' = TotalHeld + Held'[r] - Held[r]
    BY <1>a, <2>2, <2>3, HeldChange
  <2>5. TotalUnpaid' = TotalUnpaid
    BY <2>1, UnpaidSame
  <2> QED BY <1>a, <2>1, <2>2, <2>3, <2>4, <2>5
<1>5. CASE Send
  BY Zenon, <1>1, <1>2, <1>5, <1>a, SendCases
<1>6. CASE Handle
  <2>1. \A B, ok : HandlePostResponses(B, ok) \/ HandleGetResponses(B, ok)
          => UNCHANGED <<fee, claimed, amount, leaves, requestReceipts, credit, revenue, balance>>
    BY Zenon DEF HandlePostResponses, HandleGetResponses, escrow, hyperbridge
  <2>2. \A a \in Answers : ~ HandlePostResponseTimeout(a)
    BY Zenon DEF HandlePostResponseTimeout, Refund
  <2> QED BY Zenon, <1>3, <1>4, <1>6, <1>f, <2>1, <2>2 DEF Handle
<1>7. CASE Govern
  BY <1>7, <1>f DEF Govern, UpdateHostParams, SetFrozenState, escrow, receipts, hyperbridge
<1>8. CASE Tick \/ UNCHANGED vars
  BY Zenon, <1>8, <1>f DEF Tick, vars, escrow, receipts, hyperbridge
<1>9. CASE Hyperbridge
  <2> USE DEF Host, escrow, receipts
  <2>1. ASSUME NEW m \in Outgoing, NEW f \in Nat, m \notin claimed, fee[m] # None, f \in feeSeen[m],
               claimed' = claimed \cup {m}, credit' = credit + f,
               UNCHANGED <<fee, amount, requestReceipts, revenue, balance>>,
               (leaves \cap Withdrawals)' = leaves \cap Withdrawals
        PROVE  TotalHeld' + TotalUnpaid' + credit' + revenue' <= balance'
    <3>1. f <= fee[m] /\ fee[m] \in Nat
      BY Zenon, <2>1 DEF BookInv
    <3>2. /\ \A o \in Outgoing \ {m} : Held'[o] = Held[o]
          /\ Held'[m] = 0 /\ Held[m] = fee[m]
      BY Zenon, <2>1, <3>1 DEF Held
    <3>3. TotalHeld' = TotalHeld + Held'[m] - Held[m]
      BY Zenon, <1>a, <3>2, HeldChange
    <3>4. TotalUnpaid' = TotalUnpaid
      BY Zenon, <2>1, UnpaidSame
    <3>5. credit' = credit + f /\ revenue' = revenue /\ balance' = balance
      BY Zenon, <2>1
    <3> QED BY <1>a, <3>1, <3>2, <3>3, <3>4, <3>5
  <2>2. ASSUME NEW g \in Gets, NEW f \in feeSeen[g], HbHandleGet(g, f)
        PROVE  TotalHeld' + TotalUnpaid' + credit' + revenue' <= balance'
    <3>1. /\ g \in dispatched \ hbReceipts /\ hbNow < Deadline[g] /\ leaves' = leaves \cup {g}
          /\ claimed' = claimed \cup {g} /\ credit' = credit + f
          /\ UNCHANGED <<fee, amount, requestReceipts, revenue, balance>>
      BY Zenon, <2>2 DEF HbHandleGet
    <3>2. g \in Outgoing /\ g \notin Withdrawals
      BY Zenon, HostConstants DEF Outgoing, Requests
    <3>3. g \notin claimed /\ fee[g] # None /\ f \in Nat
      BY Zenon, <1>k, <3>1, <3>2, ClaimHasFee DEF BookInv
    <3>4. (leaves \cap Withdrawals)' = leaves \cap Withdrawals
      BY Zenon, <3>1, <3>2
    <3> QED BY Zenon, <2>1, <3>1, <3>2, <3>3, <3>4
  <2>3. ASSUME NEW m \in Outgoing, NEW f \in feeSeen[m], HbAccumulate(m, f)
        PROVE  TotalHeld' + TotalUnpaid' + credit' + revenue' <= balance'
    <3>1. /\ m \in delivered \ claimed /\ claimed' = claimed \cup {m} /\ credit' = credit + f
          /\ UNCHANGED <<fee, amount, requestReceipts, revenue, balance, leaves>>
      BY Zenon, <2>3 DEF HbAccumulate
    <3>2. fee[m] # None /\ f \in Nat
      BY Zenon, <1>k, <3>1, ClaimHasFee DEF BookInv
    <3> QED BY Zenon, <2>1, <3>1, <3>2
  <2>4. ASSUME NEW i \in Withdrawals, NEW sum \in Nat, amount' = [amount EXCEPT ![i] = sum],
               leaves' = leaves \cup {i}, UNCHANGED <<fee, claimed, requestReceipts, balance>>
        PROVE  /\ TotalHeld' = TotalHeld
               /\ \E more \in Int : more <= sum /\ TotalUnpaid' = TotalUnpaid + more
    <3>1. /\ \A o \in Withdrawals \ {i} : Unpaid'[o] = Unpaid[o]
          /\ Unpaid'[i] <= sum /\ Unpaid[i] \in Nat /\ Unpaid'[i] \in Nat
      <4>1. amount'[i] = sum /\ \A o \in Withdrawals \ {i} : amount'[o] = amount[o]
        BY Zenon, <1>b, <2>4
      <4>2. \A o \in Withdrawals \ {i} : Unpaid'[o] = Unpaid[o]
        BY Zenon, <1>u, <2>4, <4>1
      <4>3. Unpaid'[i] \in {0, sum} /\ Unpaid[i] \in Nat /\ Unpaid'[i] \in Nat
        BY Zenon, <1>u, <4>1
      <4> QED BY <2>4, <4>2, <4>3
    <3>2. TotalUnpaid' = TotalUnpaid + Unpaid'[i] - Unpaid[i]
      BY Zenon, <1>a, <3>1, UnpaidChange
    <3>3. TotalHeld' = TotalHeld
      BY <2>4, HeldSame
    <3>4. /\ Unpaid'[i] - Unpaid[i] \in Int /\ Unpaid'[i] - Unpaid[i] <= sum
          /\ TotalUnpaid' = TotalUnpaid + (Unpaid'[i] - Unpaid[i])
      BY <1>a, <3>1, <3>2
    <3> QED BY Zenon, <3>3, <3>4
  <2>w. ASSUME NEW i \in Withdrawals, HbWithdraw(i)
        PROVE  TotalHeld' + TotalUnpaid' + credit' + revenue' <= balance'
    <3>1. /\ amount' = [amount EXCEPT ![i] = credit] /\ leaves' = leaves \cup {i}
          /\ UNCHANGED <<fee, claimed, requestReceipts, balance>>
      BY Zenon, <2>w DEF HbWithdraw
    <3>2. credit' = 0 /\ revenue' = revenue /\ balance' = balance
      BY <2>w DEF HbWithdraw
    <3>3. /\ TotalHeld' = TotalHeld
          /\ \E more \in Int : more <= credit /\ TotalUnpaid' = TotalUnpaid + more
      BY Zenon, <1>a, <2>4, <3>1
    <3>4. PICK more \in Int : more <= credit /\ TotalUnpaid' = TotalUnpaid + more
      BY <3>3
    <3> QED BY <1>a, <3>2, <3>3, <3>4
  <2>v. ASSUME NEW i \in Withdrawals, HbWithdrawRevenue(i)
        PROVE  TotalHeld' + TotalUnpaid' + credit' + revenue' <= balance'
    <3>1. /\ amount' = [amount EXCEPT ![i] = revenue] /\ leaves' = leaves \cup {i}
          /\ UNCHANGED <<fee, claimed, requestReceipts, balance>>
      BY Zenon, <2>v DEF HbWithdrawRevenue
    <3>2. credit' = credit /\ revenue' = 0 /\ balance' = balance
      BY Zenon, <2>v DEF HbWithdrawRevenue
    <3>3. /\ TotalHeld' = TotalHeld
          /\ \E more \in Int : more <= revenue /\ TotalUnpaid' = TotalUnpaid + more
      BY Zenon, <1>a, <2>4, <3>1
    <3>4. PICK more \in Int : more <= revenue /\ TotalUnpaid' = TotalUnpaid + more
      BY <3>3
    <3> QED BY <1>a, <3>2, <3>3, <3>4
  <2>5. ASSUME NEW l \in Leaves, HbDispatch(l)
        PROVE  TotalHeld' + TotalUnpaid' + credit' + revenue' <= balance'
    <3>1. /\ leaves' = leaves \cup {l} /\ l \notin Withdrawals
          /\ UNCHANGED <<fee, claimed, amount, requestReceipts, credit, revenue, balance>>
      BY Zenon, <2>5 DEF HbDispatch
    <3>2. (leaves \cap Withdrawals)' = leaves \cap Withdrawals
      BY <3>1
    <3>3. TotalHeld' = TotalHeld /\ TotalUnpaid' = TotalUnpaid
      BY <3>1, <3>2, HeldSame, UnpaidSame
    <3> QED BY <1>a, <3>1, <3>3
  <2>6. \/ \E r \in Posts : HbHandleRequest(r)
        \/ \E a \in Answers : HbHandleResponse(a)
        \/ \E m \in Outgoing : Deliver(m) \/ HbTimeout(m)
        \/ HbSeal
        => UNCHANGED <<fee, claimed, amount, leaves, requestReceipts, credit, revenue, balance>>
    BY Zenon DEF HbHandleRequest, HbHandleResponse, Deliver, HbTimeout, HbSeal
  <2> QED BY Zenon, <1>9, <1>f, <2>2, <2>3, <2>w, <2>v, <2>5, <2>6 DEF Hyperbridge
<1> QED BY <1>5, <1>6, <1>7, <1>8, <1>9 DEF Next

----------------------------------------------------------------------------
(* The fee token.                                                          *)

TokenInv ==
    /\ feeToken \in Tokens /\ paidIn \in [Outgoing -> SUBSET Tokens]
    /\ onTimeout \cap Answers = {} =>
          \A m \in Outgoing \ claimed :
              /\ fee[m] = 0 => paidIn[m] = {}
              /\ fee[m] # None => paidIn[m] \subseteq {feeToken}

\* With an empty balance nothing is held.
LEMMA NothingHeld ==
    ASSUME BookInv, BackedInv, onTimeout \cap Answers = {}, balance = 0
    PROVE  \A m \in Outgoing \ claimed : fee[m] \in {None, 0}
<1>1. /\ TotalHeld \in Nat /\ TotalUnpaid \in Nat /\ credit \in Nat /\ revenue \in Nat
      /\ Held \in [Outgoing -> Nat]
  BY Zenon, HeldTypes DEF BookInv
<1>2. TotalHeld + TotalUnpaid + credit + revenue <= 0
  BY DEF BackedInv
<1>3. TotalHeld = 0
  BY <1>1, <1>2
<1>4. ASSUME NEW m \in Outgoing PROVE Held[m] = 0
  <2>1. IsFiniteSet(Outgoing)
    BY Zenon, HostConstants
  <2>2. IsFiniteSet(Outgoing \ {m})
    BY <2>1, FS_Subset
  <2>3. SumFunctionOnSet(Held, Outgoing \ {m}) \in Nat
    BY <1>1, <2>2, SumNat
  <2>4. TotalHeld = Held[m] + SumFunctionOnSet(Held, Outgoing \ {m})
    BY <1>1, <2>1, SumWithout DEF TotalHeld
  <2> QED BY <1>1, <1>3, <2>3, <2>4
<1> QED BY <1>4 DEF Held

LEMMA TokenStep ==
    ASSUME BookInv, BackedInv, TokenInv, [Next]_vars PROVE TokenInv'
<1>n. None \notin Nat
  BY Zenon, HostConstants
<1>k. onTimeout \subseteq onTimeout'
  BY Zenon, TimeoutsOnly DEF HandleRequestTimeout, HandlePostResponseTimeout, Refund
<1>f. UNCHANGED <<feeToken, paidIn, fee>> /\ claimed \subseteq claimed' => TokenInv'
  BY <1>k DEF TokenInv
<1>1. ASSUME NEW m \in Outgoing, NEW stored \in Nat, NEW charge \in Nat,
             Commit(m, stored, stored + charge)
      PROVE  TokenInv'
  <2>1. /\ fee' = [fee EXCEPT ![m] = stored]
        /\ paidIn' = [paidIn EXCEPT ![m] = IF stored > 0 THEN {feeToken} ELSE {}]
        /\ UNCHANGED <<feeToken, claimed, onTimeout>>
    BY Zenon, <1>1 DEF Commit, hyperbridge, history
  <2>2. /\ paidIn' \in [Outgoing -> SUBSET Tokens]
        /\ \A o \in Outgoing \ {m} : paidIn'[o] = paidIn[o] /\ fee'[o] = fee[o]
        /\ paidIn'[m] \subseteq {feeToken} /\ fee'[m] = stored /\ (stored = 0 => paidIn'[m] = {})
    BY <2>1 DEF TokenInv, BookInv
  <2> QED BY Zenon, <2>1, <2>2 DEF TokenInv
<1>2. ASSUME NEW m \in Outgoing, Fund(m, 1) PROVE TokenInv'
  <2>1. /\ fee[m] # None /\ fee' = [fee EXCEPT ![m] = @ + 1]
        /\ paidIn' = [paidIn EXCEPT ![m] = @ \cup {feeToken}]
        /\ UNCHANGED <<feeToken, claimed, onTimeout>>
    BY Zenon, <1>2 DEF Fund, hyperbridge, history
  <2>2. fee[m] \in Nat
    BY Zenon, <2>1 DEF BookInv
  <2>3. /\ paidIn' \in [Outgoing -> SUBSET Tokens]
        /\ \A o \in Outgoing \ {m} : paidIn'[o] = paidIn[o] /\ fee'[o] = fee[o]
        /\ paidIn'[m] = paidIn[m] \cup {feeToken} /\ fee'[m] # 0 /\ fee'[m] # None
    BY <1>n, <2>1, <2>2 DEF TokenInv, BookInv
  <2> QED BY <2>1, <2>3 DEF TokenInv
<1>3. ASSUME NEW m \in Outgoing, Refund(m) PROVE TokenInv'
  <2>1. /\ fee' = [fee EXCEPT ![m] = None] /\ UNCHANGED <<feeToken, paidIn, claimed>>
    BY <1>3 DEF Refund, hyperbridge
  <2>2. fee'[m] = None /\ \A o \in Outgoing \ {m} : fee'[o] = fee[o]
    BY <2>1 DEF BookInv
  <2>3. None # 0
    BY <1>n
  <2> QED BY Zenon, <1>k, <2>1, <2>2, <2>3 DEF TokenInv
<1>4. ASSUME NEW token \in Tokens, UpdateHostParams(token) PROVE TokenInv'
  <2>1. /\ balance = 0 /\ feeToken' = token /\ UNCHANGED <<fee, paidIn, claimed, onTimeout>>
    BY <1>4 DEF UpdateHostParams, hyperbridge, history
  <2>2. onTimeout \cap Answers = {} => \A m \in Outgoing \ claimed : fee[m] # None => paidIn[m] = {}
    BY <2>1, NothingHeld DEF TokenInv
  <2> QED BY <2>1, <2>2 DEF TokenInv
<1>5. CASE Send
  BY Zenon, <1>1, <1>2, <1>5, SendCases DEF BookInv
<1>6. CASE Handle
  <2>1. \A B, ok : HandlePostRequests(B, ok) \/ HandlePostResponses(B, ok) \/ HandleGetResponses(B, ok)
          => UNCHANGED <<feeToken, paidIn, fee, claimed>>
    BY Zenon DEF HandlePostRequests, HandlePostResponses, HandleGetResponses, escrow, hyperbridge
  <2>2. \A m : HandleRequestTimeout(m) \/ HandlePostResponseTimeout(m) => Refund(m)
    BY Zenon DEF HandleRequestTimeout, HandlePostResponseTimeout
  <2>3. Requests \subseteq Outgoing /\ Answers \subseteq Outgoing
    BY DEF Outgoing
  <2> QED BY Zenon, <1>3, <1>6, <1>f, <2>1, <2>2, <2>3 DEF Handle
<1>7. CASE Govern
  <2>1. \A status : SetFrozenState(status) => UNCHANGED <<feeToken, paidIn, fee, claimed>>
    BY DEF SetFrozenState, escrow, hyperbridge
  <2> QED BY <1>4, <1>7, <1>f, <2>1 DEF Govern
<1>8. CASE Hyperbridge
  BY Zenon, <1>8, <1>f DEF Hyperbridge, HbHandleRequest, HbHandleGet, HbHandleResponse, Deliver, HbTimeout,
              HbAccumulate, HbDispatch, HbWithdraw, HbWithdrawRevenue, HbSeal, Host, escrow
<1>9. CASE Tick \/ UNCHANGED vars
  BY Zenon, <1>9, <1>f DEF Tick, vars, escrow, hyperbridge
<1> QED BY <1>5, <1>6, <1>7, <1>8, <1>9 DEF Next

EscrowInv == ProofInv /\ BookInv /\ BackedInv /\ TokenInv

LEMMA EscrowInvariant == Spec => []EscrowInv
<1>1. Init => EscrowInv
  <2> SUFFICES ASSUME Init PROVE EscrowInv
    OBVIOUS
  <2>1. ProofInv
    BY Zenon DEF Init, ProofInv, RouteInv, OnceInv
  <2>2. BookInv
    BY DEF Init, BookInv
  <2>3. /\ \A m \in Outgoing : Held[m] = 0
        /\ \A i \in Withdrawals : Unpaid[i] = 0
        /\ credit = 0 /\ revenue = 0 /\ balance = 0
    BY Zenon DEF Init, Held, Unpaid
  <2>4. IsFiniteSet(Outgoing) /\ IsFiniteSet(Withdrawals)
    BY HostConstants
  <2>5. TotalHeld = 0 /\ TotalUnpaid = 0
    BY Zenon, <2>3, <2>4, SumZero DEF TotalHeld, TotalUnpaid
  <2>6. BackedInv
    BY <2>3, <2>5 DEF BackedInv
  <2>7. feeToken \in Tokens /\ paidIn = [m \in Outgoing |-> {}]
    BY DEF Init
  <2>8. TokenInv
    BY <2>7 DEF TokenInv
  <2> QED BY <2>1, <2>2, <2>6, <2>8 DEF EscrowInv
<1>2. EscrowInv /\ [Next]_vars => EscrowInv'
  <2> SUFFICES ASSUME EscrowInv, [Next]_vars PROVE EscrowInv'
    OBVIOUS
  <2>1. ProofInv'
    BY ProofStep DEF EscrowInv
  <2>2. BookInv'
    BY BookStep DEF EscrowInv, ProofInv
  <2>3. BackedInv'
    BY <2>2, BackedStep DEF EscrowInv
  <2>4. TokenInv'
    BY TokenStep DEF EscrowInv
  <2> QED BY <2>1, <2>2, <2>3, <2>4 DEF EscrowInv
<1> QED BY <1>1, <1>2, PTL DEF Spec

\* The host can always pay the refund of every message that may still be timed
\* out, every relayer credit and every withdrawal under way, whatever the order
\* of funding, delivery, timeout, claim against an old block and withdrawal, as
\* long as no response of its own was refunded (dispatch, fundRequest,
\* dispatchTimeOut, HostManager.onAccept; accumulate and withdraw_fees).
THEOREM FeesPaidOnce == Spec => []EscrowBacked
<1>1. EscrowInv => EscrowBacked
  <2> SUFFICES ASSUME EscrowInv, onTimeout \cap Answers = {} PROVE Liabilities <= balance
    BY DEF EscrowBacked
  <2>1. Liabilities = TotalHeld + credit + TotalUnpaid
    BY LiabilitiesAre DEF EscrowInv
  <2>2. TotalHeld \in Nat /\ TotalUnpaid \in Nat
    BY HeldTypes DEF EscrowInv
  <2>3. /\ TotalHeld + TotalUnpaid + credit + revenue <= balance
        /\ credit \in Nat /\ revenue \in Nat /\ balance \in Int
    BY DEF EscrowInv, BookInv, BackedInv
  <2> QED BY <2>1, <2>2, <2>3
<1> QED BY <1>1, EscrowInvariant, PTL

\* A fee that may have to be refunded is held in the fee token it was paid in:
\* updateHostParams changes the token only when the host holds none of it, and
\* then nothing is owed.
THEOREM RefundsInPaidToken == Spec => []RefundInPaidToken
<1>1. EscrowInv => RefundInPaidToken
  BY DEF EscrowInv, TokenInv, RefundInPaidToken
<1> QED BY <1>1, EscrowInvariant, PTL
============================================================================
