------------------------ MODULE IsmpMessaging_proofs ------------------------
(***************************************************************************)
(* Proofs of the safety of IsmpMessaging for any hosts, any topology that  *)
(* is symmetric around the router, any requests, responses and deadlines.  *)
(***************************************************************************)
EXTENDS IsmpMessaging, TLAPS

\* The destination verifies the source itself.
Direct(r) == Source[r] \in Tracks[Dest[r]]

\* The destination's clock has passed the deadline and it has no receipt: by
\* the check in request::handle it will never have one.
Gone(r) == TimedOut(Deadline[r], now[Dest[r]]) /\ r \notin reqReceipt[Dest[r]]

\* The router has never forwarded the request.
Unrouted(r) ==
    /\ r \notin reqReceipt[Router]
    /\ r \notin reqCommit[Router]
    /\ \A b \in blocks[Router] : r \notin b.reqCommit

\* The request can no longer be delivered.
Dead(r) ==
    \/ Gone(r)
    \/ ~Direct(r) /\ TimedOut(Deadline[r], now[Router]) /\ Unrouted(r)

\* The parts of the inductive invariant about requests.
BlocksPast == \A c \in Hosts : \A b \in blocks[c] : b.time <= now[c]

CommitmentPlaces ==
    \A c \in Hosts : \A r \in reqCommit[c] : c = Source[r] \/ (c = Router /\ Dest[r] # Router)

ReceiptsCounted ==
    \A r \in Posts : onAccept[r] = IF r \in reqReceipt[Dest[r]] THEN 1 ELSE 0

\* A late block of the destination without the receipt condemns the request.
DestinationWitness ==
    \A r \in Posts : \A b \in blocks[Dest[r]] :
        TimedOut(Deadline[r], b.time) /\ r \notin b.reqReceipt => Gone(r)

\* So does a late block of the router, for requests that must go through it.
RouterWitness ==
    \A r \in Posts : ~Direct(r) => \A b \in blocks[Router] :
        TimedOut(Deadline[r], b.time) /\ r \notin b.reqReceipt => Dead(r)

\* The router forgets a request it forwarded only when that is condemned.
RouterForgets ==
    \A r \in Posts : ~Direct(r) /\ r \notin reqReceipt[Router] => Unrouted(r) \/ Gone(r)

\* What arrived through the router, the router had committed to.
RoutedBefore ==
    \A r \in Posts : ~Direct(r) /\ r \in reqReceipt[Dest[r]] =>
        \E b \in blocks[Router] : r \in b.reqCommit

RevertedDead == \A r \in Posts : onTimeout[r] > 0 => Dead(r)

\* A commitment at the source is consumed by its timeout.
TimeoutSpends ==
    \A r \in Posts :
        /\ r \in reqCommit[Source[r]] => r \in dispatched /\ onTimeout[r] = 0
        /\ r \notin dispatched => onTimeout[r] = 0
        /\ onTimeout[r] <= 1

RequestInv ==
    /\ TypeOK
    /\ BlocksPast
    /\ CommitmentPlaces
    /\ ReceiptsCounted
    /\ DestinationWitness
    /\ RouterForgets
    /\ RouterWitness
    /\ RoutedBefore
    /\ RevertedDead
    /\ TimeoutSpends
    /\ RoutedTogether

requestView == <<now, reqVars, blocks, dispatched, onAccept, onTimeout>>

----------------------------------------------------------------------------
\* Callback counts stay counts.
LEMMA CalledType ==
    ASSUME NEW S, NEW f \in [S -> Nat], NEW B
    PROVE  /\ Called(f, B) \in [S -> Nat]
           /\ \A x \in S : Called(f, B)[x] = IF x \in B THEN f[x] + 1 ELSE f[x]
BY DEF Called

\* Clocks, deadlines and the bound are integers.
LEMMA Numbers ==
    ASSUME TypeOK
    PROVE  /\ \A c \in Hosts : now[c] \in Int
           /\ \A r \in Posts : Deadline[r] \in Int
           /\ \A c \in Hosts : \A b \in blocks[c] : b.time \in Int
BY MaxTimeAssumption, MessagesAssumption DEF TypeOK, Time, Never, Block

\* A request that is not direct neither starts nor ends at the router.
LEMMA IndirectPath ==
    ASSUME NEW r \in Posts, ~Direct(r)
    PROVE  Source[r] # Router /\ Dest[r] # Router
BY TopologyAssumption, MessagesAssumption DEF Direct

\* The proof a source or the router needs to revert a request: of the
\* destination, or at the source of an indirect request, of the router.
LEMMA RevertProof ==
    ASSUME NEW r \in Posts, NEW c \in Hosts, NEW d \in Tracks[c], ProofAllowed(c, d, Dest[r]),
           c = Source[r] \/ c = Router
    PROVE  d = Dest[r] \/ (c = Source[r] /\ ~Direct(r) /\ d = Router)
BY TopologyAssumption, MessagesAssumption DEF ProofAllowed, Direct

\* The proof the destination needs to accept a request.
LEMMA AcceptanceProof ==
    ASSUME NEW r \in Posts, NEW d \in Tracks[Dest[r]], ProofAllowed(Dest[r], d, Source[r]),
           ~Direct(r)
    PROVE  d = Router
BY DEF ProofAllowed, Direct

\* The router takes no request of its own from elsewhere.
LEMMA RouterSource ==
    ASSUME NEW r \in Posts, NEW d \in Tracks[Router], ProofAllowed(Router, d, Source[r])
    PROVE  Source[r] # Router
BY TopologyAssumption DEF ProofAllowed

----------------------------------------------------------------------------
\* Every action keeps the types.
LEMMA TypeStep ==
    ASSUME TypeOK, [Next]_vars
    PROVE  TypeOK'
<1> USE MessagesAssumption DEF reqVars, resVars, history
<1>1. ASSUME NEW r \in Posts, DispatchRequest(r)
      PROVE  TypeOK'
  BY <1>1 DEF DispatchRequest, TypeOK
<1>2. ASSUME NEW p \in Responses, DispatchResponse(p)
      PROVE  TypeOK'
  BY <1>2 DEF DispatchResponse, TypeOK
<1>3. ASSUME NEW c \in Hosts, NEW d, NEW b, NEW R \in SUBSET Posts, HandleRequests(c, d, b, R)
      PROVE  TypeOK'
  <2>1. onAccept' \in [Posts -> Nat]
    <3>1. onAccept \in [Posts -> Nat] /\ \E B : onAccept' = Called(onAccept, B)
      BY ZenonT(30), <1>3 DEF HandleRequests, TypeOK
    <3> QED
      BY <3>1, CalledType
  <2> QED
    BY <1>3, <2>1 DEF HandleRequests, TypeOK
<1>4. ASSUME NEW c \in Hosts, NEW d, NEW b, NEW P \in SUBSET Responses,
             HandleResponses(c, d, b, P)
      PROVE  TypeOK'
  <2>1. /\ {Request[p] : p \in P} \subseteq Posts
        /\ {Request[p] : p \in {q \in P : Source[Request[q]] # c}} \subseteq Posts
    OBVIOUS
  <2>2. onResponse' \in [Responses -> Nat]
    <3>1. onResponse \in [Responses -> Nat] /\ \E B : onResponse' = Called(onResponse, B)
      BY ZenonT(30), <1>4 DEF HandleResponses, TypeOK
    <3> QED
      BY <3>1, CalledType
  <2> QED
    BY <1>4, <2>1, <2>2 DEF HandleResponses, TypeOK
<1>5. ASSUME NEW c \in Hosts, NEW d, NEW b, NEW R \in SUBSET Posts, TimeoutRequests(c, d, b, R)
      PROVE  TypeOK'
  <2>1. onTimeout' \in [Posts -> Nat]
    <3>1. onTimeout \in [Posts -> Nat] /\ \E B : onTimeout' = Called(onTimeout, B)
      BY ZenonT(30), <1>5 DEF TimeoutRequests, TypeOK
    <3> QED
      BY <3>1, CalledType
  <2> QED
    BY <1>5, <2>1 DEF TimeoutRequests, TypeOK
<1>6. ASSUME NEW c \in Hosts, NEW d, NEW b, NEW P \in SUBSET Responses,
             TimeoutResponses(c, d, b, P)
      PROVE  TypeOK'
  BY <1>6 DEF TimeoutResponses, TypeOK
<1>7. ASSUME NEW c \in Hosts, SealBlock(c)
      PROVE  TypeOK'
  <2>1. now' \in [Hosts -> Time]
    BY <1>7, MaxTimeAssumption DEF SealBlock, TypeOK, Time
  <2>2. blocks' \in [Hosts -> SUBSET Block]
    BY <1>7 DEF SealBlock, TypeOK, Block
  <2> QED
    BY <1>7, <2>1, <2>2 DEF SealBlock, TypeOK
<1>8. CASE UNCHANGED vars
  BY <1>8 DEF vars, TypeOK
<1> QED
  BY <1>1, <1>2, <1>3, <1>4, <1>5, <1>6, <1>7, <1>8 DEF Next, Relay

\* A new request has left no trace anywhere but its commitment at the source.
LEMMA DispatchStep ==
    ASSUME RequestInv, TypeOK', NEW s \in Posts, DispatchRequest(s)
    PROVE  RequestInv'
<1> USE MessagesAssumption DEF RequestInv, reqVars, resVars, history
<1>1. /\ UNCHANGED <<now, reqReceipt, blocks, onAccept, onTimeout>>
      /\ reqCommit' = [reqCommit EXCEPT ![Source[s]] = @ \cup {s}]
      /\ dispatched' = dispatched \cup {s} /\ s \notin dispatched
  BY DEF DispatchRequest
<1>2. \A r \in Posts : Gone(r)' = Gone(r)
  BY <1>1 DEF Gone
<1>3. \A r \in Posts : ~Direct(r) => Unrouted(r)' = Unrouted(r)
  BY <1>1, IndirectPath DEF Unrouted, TypeOK, Direct
<1>4. \A r \in Posts : Dead(r)' = Dead(r)
  BY <1>1, <1>2, <1>3 DEF Dead, Direct
<1>5. BlocksPast' /\ ReceiptsCounted' /\ DestinationWitness' /\ RoutedBefore'
  BY <1>1, <1>2 DEF BlocksPast, ReceiptsCounted, DestinationWitness, RoutedBefore, Direct
<1>6. RouterForgets' /\ RouterWitness' /\ RevertedDead'
  BY <1>1, <1>2, <1>3, <1>4 DEF RouterForgets, RouterWitness, RevertedDead, Direct
<1>7. CommitmentPlaces' /\ TimeoutSpends' /\ RoutedTogether'
  BY <1>1 DEF CommitmentPlaces, TimeoutSpends, RoutedTogether, TypeOK
<1> QED
  BY <1>5, <1>6, <1>7

\* Accepting a request: it was not condemned, and what it adds is counted.
LEMMA AcceptStep ==
    ASSUME RequestInv, TypeOK', NEW c \in Hosts, NEW d \in Tracks[c], NEW b \in blocks[d],
           NEW R \in SUBSET Posts, HandleRequests(c, d, b, R)
    PROVE  RequestInv'
<1> USE MessagesAssumption DEF RequestInv, resVars, history
<1>0. d \in Hosts /\ Router \in Hosts
  BY TopologyAssumption
<1>1. /\ UNCHANGED <<now, blocks, dispatched, onTimeout>>
      /\ reqReceipt' = [reqReceipt EXCEPT ![c] = @ \cup R]
      /\ reqCommit' = [reqCommit EXCEPT ![c] = @ \cup {r \in R : Dest[r] # c}]
  BY DEF HandleRequests
<1>2. \A r \in R : /\ r \notin reqReceipt[c] /\ ~TimedOut(Deadline[r], now[c])
                   /\ Dest[r] = c \/ c = Router
                   /\ ProofAllowed(c, d, Source[r]) /\ r \in b.reqCommit
  BY DEF HandleRequests, RequestAcceptable
<1>3. \A r \in Posts : Gone(r) => Gone(r)'
  BY <1>1, <1>2 DEF Gone, TypeOK
<1>4. \A r \in Posts : TimedOut(Deadline[r], now[Router]) /\ Unrouted(r) => Unrouted(r)'
  BY <1>0, <1>1, <1>2 DEF Unrouted, TypeOK
<1>5. \A r \in Posts : Dead(r) => Dead(r)'
  BY <1>1, <1>3, <1>4 DEF Dead, Direct
<1>6. BlocksPast' /\ DestinationWitness' /\ RouterWitness' /\ RevertedDead'
  BY <1>1, <1>3, <1>5 DEF BlocksPast, DestinationWitness, RouterWitness, RevertedDead, Direct
<1>7. CommitmentPlaces'
  BY <1>1, <1>2 DEF CommitmentPlaces, TypeOK
<1>8. ReceiptsCounted'
  <2>1. onAccept' = Called(onAccept, {r \in R : Dest[r] = c})
    BY DEF HandleRequests
  <2>2. \A r \in Posts : onAccept'[r] = IF r \in R /\ Dest[r] = c THEN onAccept[r] + 1 ELSE onAccept[r]
    BY <2>1, CalledType DEF TypeOK
  <2> QED
    BY <1>1, <1>2, <2>2 DEF ReceiptsCounted, TypeOK
<1>9. RouterForgets'
  <2> SUFFICES ASSUME NEW r \in Posts, ~Direct(r), r \notin reqReceipt'[Router]
               PROVE  Unrouted(r)' \/ Gone(r)'
    BY DEF RouterForgets, Direct
  <2>1. r \notin reqReceipt[Router] /\ (c = Router => r \notin R)
    BY <1>0, <1>1 DEF TypeOK
  <2>2. Unrouted(r) => Unrouted(r)'
    BY <1>0, <1>1, <2>1 DEF Unrouted, TypeOK
  <2> QED
    BY <1>3, <2>1, <2>2 DEF RouterForgets
<1>10. RoutedBefore'
  <2> SUFFICES ASSUME NEW r \in Posts, ~Direct(r), r \in reqReceipt'[Dest[r]]
               PROVE  \E e \in blocks[Router] : r \in e.reqCommit
    BY <1>1 DEF RoutedBefore, Direct
  <2>1. CASE r \in reqReceipt[Dest[r]]
    BY <2>1 DEF RoutedBefore
  <2>2. CASE r \notin reqReceipt[Dest[r]]
    <3>1. c = Dest[r] /\ r \in R
      BY <1>1, <2>2 DEF TypeOK
    <3>2. d = Router
      BY Zenon, <1>2, <3>1, AcceptanceProof
    <3> QED
      BY <1>2, <3>1, <3>2
  <2> QED
    BY <2>1, <2>2
<1>11. TimeoutSpends'
  <2>1. \A r \in R : Dest[r] # c => c # Source[r]
    BY <1>2, RouterSource
  <2> QED
    BY <1>1, <2>1 DEF TimeoutSpends, TypeOK
<1>12. RoutedTogether'
  BY <1>0, <1>1 DEF RoutedTogether, TypeOK
<1> QED
  BY <1>6, <1>7, <1>8, <1>9, <1>10, <1>11, <1>12

\* Reverting a request: the proof shows it condemned.
LEMMA RevertStep ==
    ASSUME RequestInv, TypeOK', NEW c \in Hosts, NEW d \in Tracks[c], NEW b \in blocks[d],
           NEW R \in SUBSET Posts, TimeoutRequests(c, d, b, R)
    PROVE  RequestInv'
<1> USE MessagesAssumption DEF RequestInv, resVars, history
<1>0. d \in Hosts /\ Router \in Hosts
  BY TopologyAssumption
<1>1. /\ UNCHANGED <<now, blocks, dispatched, onAccept>>
      /\ reqCommit' = [reqCommit EXCEPT ![c] = @ \ R]
      /\ reqReceipt' = [reqReceipt EXCEPT ![c] = @ \ {r \in R : Source[r] # c}]
  BY Zenon DEF TimeoutRequests
<1>2. \A r \in R : /\ ProofAllowed(c, d, Dest[r]) /\ r \in reqCommit[c]
                   /\ TimedOut(Deadline[r], b.time) /\ r \notin b.reqReceipt
  BY DEF TimeoutRequests, RequestExpired
<1>3. \A r \in R : c = Source[r] \/ (c = Router /\ Dest[r] # Router)
  BY <1>2 DEF CommitmentPlaces
<1>4. \A r \in R : d = Dest[r] \/ (c = Source[r] /\ ~Direct(r) /\ d = Router)
  BY <1>2, <1>3, RevertProof
<1>5. \A r \in R : d = Dest[r] => Gone(r)
  BY <1>2 DEF DestinationWitness
<1>6. \A r \in R : Dead(r)
  BY <1>2, <1>4, <1>5 DEF RouterWitness, Dead
<1>7. \A r \in Posts : reqReceipt'[Dest[r]] = reqReceipt[Dest[r]] \/
                       (r \in reqReceipt[Dest[r]] <=> r \in reqReceipt'[Dest[r]])
  BY <1>1, <1>3 DEF TypeOK
<1>8. \A r \in Posts : Gone(r)' = Gone(r)
  BY SMTT(30), <1>1, <1>7 DEF Gone
<1>9. \A r \in Posts : Unrouted(r) => Unrouted(r)'
  BY <1>0, <1>1 DEF Unrouted, TypeOK
<1>10. \A r \in Posts : Dead(r) => Dead(r)'
  BY SMTT(30), <1>1, <1>8, <1>9 DEF Dead, Direct
<1>11. BlocksPast' /\ DestinationWitness' /\ RouterWitness' /\ CommitmentPlaces'
  <2>1. BlocksPast' /\ DestinationWitness'
    BY Zenon, <1>1, <1>8 DEF BlocksPast, DestinationWitness
  <2>2. RouterWitness'
    BY Zenon, <1>1, <1>10 DEF RouterWitness, Direct
  <2>3. reqCommit \in [Hosts -> SUBSET Posts] /\ CommitmentPlaces
    BY Zenon DEF TypeOK
  <2>4. \A e \in Hosts : reqCommit'[e] \subseteq reqCommit[e]
    BY Zenon, <1>1, <2>3
  <2>5. CommitmentPlaces'
    BY Zenon, <2>3, <2>4 DEF CommitmentPlaces
  <2> QED BY Zenon, <2>1, <2>2, <2>5
<1>12. ReceiptsCounted' /\ RoutedBefore'
  BY ZenonT(30), <1>1, <1>7 DEF ReceiptsCounted, RoutedBefore, Direct
<1>13. \A r \in Posts : onTimeout'[r] = IF r \in R /\ Source[r] = c THEN onTimeout[r] + 1 ELSE onTimeout[r]
  <2> DEFINE B == {r \in R : Source[r] = c}
  <2>1. onTimeout' = Called(onTimeout, B) /\ \A r : r \in B <=> r \in R /\ Source[r] = c
    BY Zenon DEF TimeoutRequests
  <2>2. onTimeout \in [Posts -> Nat]
    BY Zenon DEF TypeOK
  <2> HIDE DEF B, RequestInv
  <2>3. \A r \in Posts : Called(onTimeout, B)[r] = IF r \in B THEN onTimeout[r] + 1 ELSE onTimeout[r]
    BY <2>2, CalledType
  <2> QED BY Zenon, <2>1, <2>3
<1>14. RevertedDead'
  BY <1>6, <1>10, <1>13 DEF RevertedDead
<1>15. TimeoutSpends'
  BY <1>1, <1>2, <1>13 DEF TimeoutSpends, TypeOK
<1>16. RouterForgets'
  <2> SUFFICES ASSUME NEW r \in Posts, ~Direct(r), r \notin reqReceipt'[Router]
               PROVE  Unrouted(r)' \/ Gone(r)'
    BY DEF RouterForgets, Direct
  <2>1. CASE r \notin reqReceipt[Router]
    BY <1>8, <1>9, <2>1 DEF RouterForgets
  <2>2. CASE r \in reqReceipt[Router]
    <3>1. r \in R /\ c = Router /\ Source[r] # c
      BY <1>0, <1>1, <2>2 DEF TypeOK
    <3> QED
      BY <1>4, <1>5, <1>8, <3>1
  <2> QED
    BY Zenon, <2>1, <2>2
<1>17. RoutedTogether'
  BY <1>0, <1>1 DEF RoutedTogether, TypeOK
<1> QED
  BY Zenon, <1>11, <1>12, <1>14, <1>15, <1>16, <1>17

\* A block records the storage as it is, at the time it is.
LEMMA SealStep ==
    ASSUME RequestInv, TypeOK', NEW c \in Hosts, SealBlock(c)
    PROVE  RequestInv'
<1> USE MessagesAssumption DEF RequestInv, reqVars, resVars, history
<1> DEFINE sealed == [time |-> now[c], reqCommit |-> reqCommit[c], reqReceipt |-> reqReceipt[c],
                      resCommit |-> resCommit[c], resReceipt |-> resReceipt[c]]
<1>0. Router \in Hosts
  BY TopologyAssumption
<1>1. /\ UNCHANGED <<reqCommit, reqReceipt, dispatched, onAccept, onTimeout>>
      /\ blocks' = [blocks EXCEPT ![c] = @ \cup {sealed}]
      /\ now' = [now EXCEPT ![c] = IF @ < MaxTime THEN @ + 1 ELSE @]
  BY DEF SealBlock
<1>2. \A x \in Hosts : now[x] \in Int /\ now'[x] \in Int /\ now[x] <= now'[x]
  BY <1>1, Numbers DEF TypeOK
<1>3. /\ \A r \in Posts : Deadline[r] \in Int
      /\ \A x \in Hosts : \A b \in blocks[x] : b.time \in Int
  BY Numbers
<1>4. \A x \in Hosts : \A b \in blocks'[x] : b \in blocks[x] \/ (x = c /\ b = sealed)
  BY <1>1 DEF TypeOK
<1>5. \A x \in Hosts : blocks[x] \subseteq blocks'[x]
  BY <1>1 DEF TypeOK
<1>6. \A r \in Posts, x \in Hosts : TimedOut(Deadline[r], now[x]) => TimedOut(Deadline[r], now[x])'
  BY <1>2, <1>3 DEF TimedOut
<1>7. \A r \in Posts : Gone(r) => Gone(r)'
  BY Zenon, <1>1, <1>6 DEF Gone
<1>8. \A r \in Posts : Unrouted(r) => Unrouted(r)'
  BY <1>0, <1>1, <1>4 DEF Unrouted
<1>9. \A r \in Posts : Dead(r) => Dead(r)'
  BY <1>0, <1>6, <1>7, <1>8 DEF Dead, Direct
<1>10. BlocksPast'
  <2> SUFFICES ASSUME NEW x \in Hosts, NEW b \in blocks'[x]
               PROVE  b.time <= now'[x]
    BY DEF BlocksPast
  <2>1. CASE b \in blocks[x]
    BY <1>2, <1>3, <2>1 DEF BlocksPast
  <2>2. CASE x = c /\ b = sealed
    BY <1>2, <2>2
  <2> QED
    BY <1>4, <2>1, <2>2
<1>11. DestinationWitness'
  <2> SUFFICES ASSUME NEW r \in Posts, NEW b \in blocks'[Dest[r]],
                      TimedOut(Deadline[r], b.time), r \notin b.reqReceipt
               PROVE  Gone(r)
    BY <1>7 DEF DestinationWitness, TimedOut
  <2>1. CASE b \in blocks[Dest[r]]
    BY <2>1 DEF DestinationWitness
  <2>2. CASE Dest[r] = c /\ b = sealed
    BY Zenon, <2>2 DEF Gone
  <2> QED
    BY <1>4, <2>1, <2>2
<1>12. RouterWitness'
  <2> SUFFICES ASSUME NEW r \in Posts, ~Direct(r), NEW b \in blocks'[Router],
                      TimedOut(Deadline[r], b.time), r \notin b.reqReceipt
               PROVE  Dead(r)
    BY <1>9 DEF RouterWitness, TimedOut, Direct
  <2>1. CASE b \in blocks[Router]
    BY SMTT(30), <2>1 DEF RouterWitness
  <2>2. CASE Router = c /\ b = sealed
    <3>1. RouterForgets /\ sealed.time = now[c] /\ sealed.reqReceipt = reqReceipt[c]
      BY Zenon
    <3> HIDE DEF RequestInv, sealed
    <3> QED BY Zenon, <2>2, <3>1 DEF RouterForgets, Dead
  <2> QED
    BY Zenon, <1>0, <1>4, <2>1, <2>2
<1>13. RouterForgets' /\ RoutedBefore' /\ RevertedDead'
  <2>1. RouterForgets /\ RoutedBefore /\ RevertedDead
    BY Zenon
  <2> HIDE DEF RequestInv
  <2>2. RouterForgets'
    BY Zenon, <1>1, <1>7, <1>8, <2>1 DEF RouterForgets, Direct
  <2>3. RoutedBefore'
    BY Zenon, <1>0, <1>1, <1>5, <2>1 DEF RoutedBefore, Direct
  <2>4. RevertedDead'
    BY Zenon, <1>1, <1>9, <2>1 DEF RevertedDead
  <2> QED BY Zenon, <2>2, <2>3, <2>4
<1>14. CommitmentPlaces' /\ ReceiptsCounted' /\ TimeoutSpends' /\ RoutedTogether'
  BY Zenon, <1>1 DEF CommitmentPlaces, ReceiptsCounted, TimeoutSpends, RoutedTogether
<1> QED
  BY Zenon, <1>10, <1>11, <1>12, <1>13, <1>14

\* Responses are another matter.
LEMMA ViewStep ==
    ASSUME RequestInv, TypeOK', UNCHANGED requestView
    PROVE  RequestInv'
BY Zenon DEF RequestInv, requestView, reqVars, BlocksPast, CommitmentPlaces, ReceiptsCounted,
       DestinationWitness, RouterForgets, RouterWitness, RoutedBefore, RevertedDead,
       TimeoutSpends, RoutedTogether, Direct, Gone, Unrouted, Dead, TimedOut

\* The request part of the invariant holds in every reachable state.
THEOREM RequestInvHolds == Spec => []RequestInv
<1>1. Init => RequestInv
  <2> SUFFICES ASSUME Init PROVE RequestInv
    OBVIOUS
  <2> USE MessagesAssumption, TopologyAssumption DEF Init
  <2>1. TypeOK
    BY SMTT(30), MaxTimeAssumption DEF TypeOK, Time
  <2>2. BlocksPast /\ CommitmentPlaces /\ ReceiptsCounted /\ DestinationWitness /\ RouterWitness
    BY SMTT(30) DEF BlocksPast, CommitmentPlaces, ReceiptsCounted, DestinationWitness, RouterWitness
  <2>3. RouterForgets /\ RoutedBefore /\ RevertedDead /\ TimeoutSpends /\ RoutedTogether
    BY SMTT(30) DEF RouterForgets, RoutedBefore, RevertedDead, TimeoutSpends, RoutedTogether, Unrouted
  <2> QED
    BY <2>1, <2>2, <2>3 DEF RequestInv
<1>2. RequestInv /\ [Next]_vars => RequestInv'
  <2> SUFFICES ASSUME RequestInv, [Next]_vars PROVE RequestInv'
    OBVIOUS
  <2>1. TypeOK'
    BY SMTT(30), TypeStep DEF RequestInv
  <2>2. ASSUME NEW c \in Hosts, NEW d \in Tracks[c], NEW b \in blocks[d],
               NEW P \in SUBSET Responses,
               HandleResponses(c, d, b, P) \/ TimeoutResponses(c, d, b, P)
        PROVE  RequestInv'
    BY SMTT(30), <2>1, <2>2, ViewStep DEF HandleResponses, TimeoutResponses, requestView, reqVars
  <2>3. ASSUME NEW p \in Responses, DispatchResponse(p)
        PROVE  RequestInv'
    BY ZenonT(30), <2>1, <2>3, ViewStep DEF DispatchResponse, requestView, reqVars, history
  <2>4. CASE UNCHANGED vars
    BY <2>1, <2>4, ViewStep DEF vars, requestView, history
  <2> QED
    BY Zenon, <2>1, <2>2, <2>3, <2>4, DispatchStep, AcceptStep, RevertStep, SealStep DEF Next, Relay
<1> QED
  BY <1>1, <1>2, PTL DEF Spec

----------------------------------------------------------------------------
\* The parts of the inductive invariant about responses.
ResponsePlaces ==
    \A c \in Hosts : \A p \in resCommit[c] :
        c = Dest[Request[p]] \/ (c = Router /\ Source[Request[p]] # Router)

\* Whatever response a host commits to, now or in a block, is to a request
\* that its destination accepted.
ResponsesToAccepted ==
    \A c \in Hosts :
        /\ \A p \in resCommit[c] : onAccept[Request[p]] > 0
        /\ \A b \in blocks[c] : \A p \in b.resCommit : onAccept[Request[p]] > 0

\* A response handed to the source leaves a receipt there.
AnswersReceipted ==
    \A p \in Responses : onResponse[p] > 0 =>
        Request[p] \in resReceipt[Source[Request[p]]] /\ onAccept[Request[p]] > 0

ResponsesOnce ==
    /\ \A p \in Responses : onResponse[p] <= 1
    /\ \A p, q \in Responses :
         Request[p] = Request[q] /\ onResponse[p] > 0 /\ onResponse[q] > 0 => p = q

ResponseInv ==
    /\ ResponsePlaces
    /\ ResponsesToAccepted
    /\ AnswersReceipted
    /\ ResponsesOnce

\* No action takes back a delivery.
LEMMA AcceptGrows ==
    ASSUME TypeOK, [Next]_vars
    PROVE  \A r \in Posts : onAccept[r] > 0 => onAccept'[r] > 0
<1>1. ASSUME NEW c \in Hosts, NEW d, NEW b, NEW R \in SUBSET Posts, HandleRequests(c, d, b, R)
      PROVE  \A r \in Posts : onAccept[r] > 0 => onAccept'[r] > 0
  <2>1. onAccept \in [Posts -> Nat] /\ \E B : onAccept' = Called(onAccept, B)
    BY ZenonT(30), <1>1 DEF HandleRequests, TypeOK
  <2> QED
    BY <2>1, CalledType
<1>2. ASSUME UNCHANGED onAccept
      PROVE  \A r \in Posts : onAccept[r] > 0 => onAccept'[r] > 0
  BY <1>2
<1>3. ASSUME NEW c \in Hosts, Relay(c)
      PROVE  \A r \in Posts : onAccept[r] > 0 => onAccept'[r] > 0
  BY ZenonT(30), <1>1, <1>2, <1>3 DEF Relay, HandleResponses, TimeoutRequests, TimeoutResponses
<1>4. ASSUME \/ \E r \in Posts : DispatchRequest(r)
             \/ \E p \in Responses : DispatchResponse(p)
             \/ \E c \in Hosts : SealBlock(c)
             \/ UNCHANGED vars
      PROVE  UNCHANGED onAccept
  BY ZenonT(30), <1>4 DEF DispatchRequest, DispatchResponse, SealBlock, vars, history
<1> QED
  BY <1>2, <1>3, <1>4 DEF Next

\* Every action keeps the response part.
LEMMA ResponseStep ==
    ASSUME RequestInv, ResponseInv, [Next]_vars
    PROVE  ResponseInv'
<1> USE MessagesAssumption DEF ResponseInv, history
<1>0. TypeOK /\ TypeOK' /\ CommitmentPlaces /\ ReceiptsCounted /\ Router \in Hosts
  BY TypeStep, TopologyAssumption DEF RequestInv
<1>a. \A r \in Posts : onAccept[r] > 0 => onAccept'[r] > 0
  BY <1>0, AcceptGrows
<1>1. ASSUME NEW s \in Responses, DispatchResponse(s)
      PROVE  ResponseInv'
  <2>1. /\ UNCHANGED <<resReceipt, blocks, onAccept, onResponse>>
        /\ resCommit' = [resCommit EXCEPT ![Dest[Request[s]]] = @ \cup {s}]
        /\ Request[s] \in reqReceipt[Dest[Request[s]]]
    BY <1>1 DEF DispatchResponse
  <2>2. onAccept[Request[s]] > 0
    BY SMTT(30), <1>0, <2>1 DEF ReceiptsCounted
  <2>3. ResponsePlaces' /\ ResponsesToAccepted'
    BY <1>0, <2>1, <2>2 DEF ResponsePlaces, ResponsesToAccepted, TypeOK
  <2>4. AnswersReceipted' /\ ResponsesOnce'
    BY <2>1 DEF AnswersReceipted, ResponsesOnce
  <2> QED
    BY <2>3, <2>4
<1>2. ASSUME NEW c \in Hosts, NEW d \in Tracks[c], NEW b \in blocks[d],
             NEW P \in SUBSET Responses, HandleResponses(c, d, b, P)
      PROVE  ResponseInv'
  <2> DEFINE routed == {p \in P : Source[Request[p]] # c}
  <2>1. /\ UNCHANGED <<blocks, onAccept>>
        /\ resReceipt' = [resReceipt EXCEPT ![c] = @ \cup {Request[p] : p \in P}]
        /\ resCommit' = [resCommit EXCEPT ![c] = @ \cup routed]
        /\ onResponse' = Called(onResponse, P \ routed)
    BY Zenon, <1>2 DEF HandleResponses
  <2>2. /\ \A p \in P : /\ Request[p] \in reqCommit[c] /\ Request[p] \notin resReceipt[c]
                       /\ p \in b.resCommit
        /\ \A p, q \in P : Request[p] = Request[q] => p = q
    BY <1>2 DEF HandleResponses, ResponseAcceptable
  <2>3. \A p \in P : onAccept[Request[p]] > 0
    BY SMTT(30), <2>2, TopologyAssumption DEF ResponsesToAccepted
  <2>4. \A p \in routed : c = Router
    BY SMTT(30), <1>0, <2>2 DEF CommitmentPlaces
  <2>5. ResponsePlaces' /\ ResponsesToAccepted'
    BY <1>0, <2>1, <2>3, <2>4 DEF ResponsePlaces, ResponsesToAccepted, TypeOK
  <2>6. \A p \in Responses : onResponse'[p] = IF p \in P \ routed THEN onResponse[p] + 1 ELSE onResponse[p]
    BY SMTT(30), <1>0, <2>1, CalledType DEF TypeOK
  <2>7. \A p \in P \ routed : \A q \in Responses : Request[q] = Request[p] => onResponse[q] = 0
    BY <1>0, <2>2 DEF AnswersReceipted, TypeOK
  <2>8. AnswersReceipted'
    <3> SUFFICES ASSUME NEW p \in Responses, onResponse'[p] > 0
                 PROVE  /\ Request[p] \in resReceipt'[Source[Request[p]]]
                        /\ onAccept'[Request[p]] > 0
      BY DEF AnswersReceipted
    <3>1. CASE p \in P \ routed
      BY SMTT(30), <1>0, <2>1, <2>3, <3>1 DEF TypeOK
    <3>2. CASE p \notin P \ routed
      BY ZenonT(30), <1>0, <2>1, <2>6, <3>2 DEF AnswersReceipted, TypeOK
    <3> QED
      BY <3>1, <3>2
  <2>9. ResponsesOnce'
    <3>1. \A p \in Responses : onResponse'[p] <= 1
      BY <2>6, <2>7 DEF ResponsesOnce
    <3>2. ASSUME NEW p \in Responses, NEW q \in Responses, Request[p] = Request[q],
                 onResponse'[p] > 0, onResponse'[q] > 0
          PROVE  p = q
      <4>1. CASE p \in P \ routed /\ q \in P \ routed
        BY <2>2, <3>2, <4>1
      <4>2. CASE p \in P \ routed /\ q \notin P \ routed
        BY <2>6, <2>7, <3>2, <4>2
      <4>3. CASE p \notin P \ routed /\ q \in P \ routed
        BY <2>6, <2>7, <3>2, <4>3
      <4>4. CASE p \notin P \ routed /\ q \notin P \ routed
        BY <2>6, <3>2, <4>4 DEF ResponsesOnce
      <4> QED
        BY <4>1, <4>2, <4>3, <4>4
    <3> QED
      BY Zenon, <3>1, <3>2 DEF ResponsesOnce
  <2> QED
    BY SMTT(30), <2>5, <2>8, <2>9
<1>3. ASSUME NEW c \in Hosts, NEW d \in Tracks[c], NEW b \in blocks[d],
             NEW P \in SUBSET Responses, TimeoutResponses(c, d, b, P)
      PROVE  ResponseInv'
  <2> DEFINE routed == {p \in P : Dest[Request[p]] # c}
  <2>1. /\ UNCHANGED <<blocks, onAccept, onResponse>>
        /\ resCommit' = [resCommit EXCEPT ![c] = @ \ P]
        /\ resReceipt' = [resReceipt EXCEPT ![c] = @ \ {Request[p] : p \in routed}]
    BY SMTT(30), <1>3 DEF TimeoutResponses
  <2>2. \A p \in routed : Source[Request[p]] # c
    BY Zenon, <1>3 DEF TimeoutResponses, ResponseExpired, ResponsePlaces
  <2>3. \A p \in Responses : Request[p] \in resReceipt[Source[Request[p]]] =>
                             Request[p] \in resReceipt'[Source[Request[p]]]
    BY <1>0, <2>1, <2>2 DEF TypeOK
  <2>4. ResponsePlaces' /\ ResponsesToAccepted'
    BY <1>0, <2>1 DEF ResponsePlaces, ResponsesToAccepted, TypeOK
  <2>5. AnswersReceipted' /\ ResponsesOnce'
    BY SMTT(30), <2>1, <2>3 DEF AnswersReceipted, ResponsesOnce
  <2> QED
    BY SMTT(30), <2>4, <2>5
<1>4. ASSUME NEW c \in Hosts, SealBlock(c)
      PROVE  ResponseInv'
  <2>1. /\ UNCHANGED <<resCommit, resReceipt, onAccept, onResponse>>
        /\ \A x \in Hosts : \A b \in blocks'[x] : b \in blocks[x] \/ b.resCommit = resCommit[c]
    BY <1>0, <1>4 DEF SealBlock, resVars, TypeOK
  <2>2. ResponsePlaces' /\ AnswersReceipted' /\ ResponsesOnce'
    BY Zenon, <2>1 DEF ResponsePlaces, AnswersReceipted, ResponsesOnce
  <2>3. ResponsesToAccepted'
    BY Zenon, <2>1 DEF ResponsesToAccepted
  <2> QED BY Zenon, <2>2, <2>3
<1>5. ASSUME UNCHANGED <<resCommit, resReceipt, blocks, onResponse>>
      PROVE  ResponseInv'
  <2>1. ResponsesToAccepted'
    <3> SUFFICES ASSUME NEW c \in Hosts
                 PROVE  /\ \A p \in resCommit[c] : onAccept'[Request[p]] > 0
                        /\ \A b \in blocks[c] : \A p \in b.resCommit : onAccept'[Request[p]] > 0
      BY <1>5 DEF ResponsesToAccepted
    <3>1. /\ resCommit[c] \subseteq Responses
          /\ \A b \in blocks[c] : b.resCommit \subseteq Responses
      BY SMTT(30), <1>0 DEF TypeOK, Block
    <3> QED
      BY <1>a, <3>1 DEF ResponsesToAccepted
  <2>2. AnswersReceipted'
    BY Zenon, <1>5, <1>a DEF AnswersReceipted
  <2> QED
    BY <1>5, <2>1, <2>2 DEF ResponsePlaces, ResponsesOnce
<1>6. ASSUME NEW c \in Hosts, NEW d, NEW b, NEW R,
             HandleRequests(c, d, b, R) \/ TimeoutRequests(c, d, b, R)
      PROVE  ResponseInv'
  BY <1>5, <1>6 DEF HandleRequests, TimeoutRequests, resVars
<1>7. ASSUME NEW r \in Posts, DispatchRequest(r)
      PROVE  ResponseInv'
  BY <1>5, <1>7 DEF DispatchRequest, resVars
<1>8. CASE UNCHANGED vars
  BY SMTT(30), <1>5, <1>8 DEF vars, resVars
<1>9. ASSUME NEW c \in Hosts, Relay(c)
      PROVE  ResponseInv'
  BY ZenonT(30), <1>2, <1>3, <1>6, <1>9 DEF Relay
<1> QED
  BY <1>1, <1>4, <1>7, <1>8, <1>9 DEF Next

\* The whole invariant holds in every reachable state.
THEOREM InvHolds == Spec => [](RequestInv /\ ResponseInv)
<1>1. Init => ResponseInv
  BY DEF Init, ResponseInv, ResponsePlaces, ResponsesToAccepted, AnswersReceipted, ResponsesOnce
<1>2. RequestInv /\ ResponseInv /\ [Next]_vars => ResponseInv'
  BY ResponseStep
<1> QED
  BY <1>1, <1>2, RequestInvHolds, PTL DEF Spec

----------------------------------------------------------------------------
\* A request that can no longer be delivered has not been delivered.
LEMMA DeadUndelivered ==
    ASSUME RequestInv, NEW r \in Posts, Dead(r)
    PROVE  onAccept[r] = 0
BY DEF RequestInv, Dead, Gone, Unrouted, RoutedBefore, ReceiptsCounted

\* What the invariant says of the properties.
LEMMA InvImplies ==
    ASSUME RequestInv, ResponseInv
    PROVE  /\ AtMostOnce
           /\ TimeoutExcludesDelivery
           /\ ResponseFollowsDelivery
<1>1. TimeoutExcludesDelivery
  BY DeadUndelivered DEF RequestInv, RevertedDead, TimeoutExcludesDelivery
<1>2. AtMostOnce
  BY DEF RequestInv, ResponseInv, ReceiptsCounted, TimeoutSpends, ResponsesOnce, AtMostOnce
<1>3. ResponseFollowsDelivery
  <2> SUFFICES ASSUME NEW p \in Responses, onResponse[p] > 0
               PROVE  onAccept[Request[p]] > 0 /\ onTimeout[Request[p]] = 0
    BY DEF ResponseFollowsDelivery
  <2>1. Request[p] \in Posts
    BY MessagesAssumption
  <2>2. onAccept[Request[p]] > 0
    BY DEF ResponseInv, AnswersReceipted
  <2>3. onTimeout[Request[p]] \in Nat /\ onAccept[Request[p]] \in Nat
    BY <2>1 DEF RequestInv, TypeOK
  <2> QED
    BY <1>1, <2>1, <2>2, <2>3 DEF TimeoutExcludesDelivery
<1> QED
  BY <1>1, <1>2, <1>3

\* Type correctness of the hosts' storage.
THEOREM TypeCorrect == Spec => []TypeOK
BY InvHolds, PTL DEF RequestInv

\* A request whose timeout was handled at the source is never accepted at its
\* destination: whatever the topology around the router, however the clocks
\* drift and whichever blocks the proofs are taken from.
THEOREM TimeoutSafe == Spec => []TimeoutExcludesDelivery
<1>1. RequestInv /\ ResponseInv => TimeoutExcludesDelivery
  BY InvImplies
<1> QED
  BY <1>1, InvHolds, PTL

\* No callback of a request's life is made twice (request and response
\* receipts at the hosts where messages end are never lost).
THEOREM CallbacksOnce == Spec => []AtMostOnce
<1>1. RequestInv /\ ResponseInv => AtMostOnce
  BY InvImplies
<1> QED
  BY <1>1, InvHolds, PTL

\* A source hears a response only to a request that was accepted and that it
\* has not reverted.
THEOREM ResponsesFollow == Spec => []ResponseFollowsDelivery
<1>1. RequestInv /\ ResponseInv => ResponseFollowsDelivery
  BY InvImplies
<1> QED
  BY <1>1, InvHolds, PTL

\* The router keeps commitment and receipt of a forwarded request together.
THEOREM RoutedConsistently == Spec => []RoutedTogether
BY InvHolds, PTL DEF RequestInv
=============================================================================
