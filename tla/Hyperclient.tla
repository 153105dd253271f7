---------------------------- MODULE Hyperclient ----------------------------
(* The browser client that follows one POST request: the status query, the *)
(* status stream and the timeout stream of                                 *)
(* modules/hyperclient/src/internals/post_request.rs.  Every await of the  *)
(* client is a step of its own, so what it has read is old by the time it  *)
(* is used: the three chains go on producing blocks in between.            *)
(*                                                                         *)
(* Each chain numbers its blocks from a number of its own and has a clock  *)
(* of its own, one unit a block.  A block carries at most one message.     *)
EXTENDS Integers, FiniteSetsExt

CONSTANTS First,        \* the number of each chain's block at time zero
          Timeout,      \* timeout_timestamp of the request
          Period,       \* the challenge period each chain imposes
          Evm,          \* the chains the client reaches with an EvmClient
          EventWindow,  \* how many blocks back past updates are looked for
          MaxTime,      \* bound: the clocks stop here
          MaxSkew,      \* bound: how far Hyperbridge and dest may run apart
          MaxLead,      \* bound: how far the source has run on at the start
          MaxUpdates    \* bound: consensus updates on each link

Chain == {"source", "hyperbridge", "dest"}

\* <<c, d>>: chain c follows chain d with a consensus client.
Link == {<<"hyperbridge", "source">>, <<"hyperbridge", "dest">>,
         <<"source", "hyperbridge">>, <<"dest", "hyperbridge">>}

ClientConstants ==
  /\ First \in [Chain -> Nat] /\ \A c \in Chain : First[c] > EventWindow
  /\ Period \in [Chain -> Nat] /\ MaxTime \in [Chain -> Nat]
  /\ Evm \subseteq {"source", "dest"}
  /\ {Timeout, EventWindow, MaxSkew} \subseteq Nat \ {0}
  /\ {MaxLead, MaxUpdates} \subseteq Nat

VARIABLES
  number,     \* the newest block of each chain
  updates,    \* per link, the heights stored and the block that stored each
  relayed,    \* the Hyperbridge block that accepted the request
  retracted,  \* the Hyperbridge block that timed it out
  delivered,  \* the destination block that accepted it
  op,         \* the operation the client runs
  at,         \* the state of the stream
  held,       \* the height the state holds
  foreign,    \* that height is a number of another chain than its use
  step,       \* the await the client is at
  local,      \* what it has read since the state was entered
  verdict,    \* the client has reported Timeout
  calldata    \* the message it has last handed out

chains == <<number, updates, relayed, retracted, delivered>>
client == <<op, at, held, foreign, step, local, verdict, calldata>>
vars == <<chains, client>>

NoBlock == 0
Blank == [time |-> 0, receipt |-> FALSE, from |-> 0, proof |-> 0, block |-> 0]
NoCall == [kind |-> "none", height |-> 0, foreign |-> FALSE]

Time(c, n) == n - First[c]
Now(c) == Time(c, number[c])

\* The block of the source chain that dispatched the request.
dispatched == First["source"]

Stored(c, d) == {u.height : u \in updates[<<c, d>>]}

\* The challenge period of height h of d is over on c at time t.
Elapsed(c, d, h, t) ==
  \E u \in updates[<<c, d>>] :
    u.height = h /\ t - Time(c, u.at) >= Period[c]

\* The client may be started late: after Hyperbridge has finalized the source,
\* accepted the request, and been finalized on the destination.
Begun(progress) ==
  /\ updates = [l \in Link |->
        IF \/ l = <<"hyperbridge", "source">> /\ progress > 0
           \/ l = <<"dest", "hyperbridge">> /\ progress > 2
        THEN {[height |-> First[l[2]], at |-> First[l[1]]]} ELSE {}]
  /\ relayed = IF progress > 1 THEN First["hyperbridge"] ELSE NoBlock

Init ==
  /\ \E lead \in 0 .. MaxLead : number = [First EXCEPT !["source"] = @ + lead]
  /\ \E progress \in 0 .. 3 : Begun(progress)
  /\ retracted = NoBlock /\ delivered = NoBlock
  /\ op \in {"query", "status"} /\ at = "Dispatched" /\ held = dispatched
  /\ foreign = FALSE /\ step = "start" /\ local = Blank
  /\ verdict = FALSE /\ calldata = NoCall

-----------------------------------------------------------------------------
(* The chains.                                                             *)

NextBlock(c) ==
  /\ Now(c) < MaxTime[c]
  /\ c # "source" => \A d \in {"hyperbridge", "dest"} : Now(c) - Now(d) < MaxSkew
  /\ number' = [number EXCEPT ![c] = @ + 1]

EmptyBlock(c) ==
  /\ NextBlock(c)
  /\ UNCHANGED <<updates, relayed, retracted, delivered, client>>

\* A chain finalizes the newest block of another that its own clock is not
\* behind: finality takes longer than the clocks drift apart.
UpdateBlock(c, d) ==
  LET ripe == First[d] + Now(c) + 1
      height == IF number[d] <= ripe THEN number[d] ELSE ripe
  IN /\ Cardinality(updates[<<c, d>>]) < MaxUpdates
     /\ height \notin Stored(c, d)
     /\ NextBlock(c)
     /\ updates' = [updates EXCEPT ![<<c, d>>] =
                      @ \union {[height |-> height, at |-> number[c] + 1]}]
     /\ UNCHANGED <<relayed, retracted, delivered, client>>

RelayBlock ==
  /\ NextBlock("hyperbridge")
  /\ relayed = NoBlock
  /\ Now("hyperbridge") + 1 < Timeout
  /\ \E h \in Stored("hyperbridge", "source") :
       h >= dispatched /\ Elapsed("hyperbridge", "source", h, Now("hyperbridge") + 1)
  /\ relayed' = number["hyperbridge"] + 1
  /\ UNCHANGED <<updates, retracted, delivered, client>>

DeliverBlock ==
  /\ NextBlock("dest")
  /\ relayed # NoBlock /\ delivered = NoBlock
  /\ Now("dest") + 1 < Timeout
  /\ \E h \in Stored("dest", "hyperbridge") :
       h >= relayed /\ Elapsed("dest", "hyperbridge", h, Now("dest") + 1)
  /\ delivered' = number["dest"] + 1
  /\ UNCHANGED <<updates, relayed, retracted, client>>

\* Hyperbridge times the request out on a proof that the destination had no
\* receipt at height h, and forgets its own receipt.
TimeoutOnHyperbridge(h) ==
  /\ NextBlock("hyperbridge")
  /\ relayed # NoBlock /\ retracted = NoBlock
  /\ Elapsed("hyperbridge", "dest", h, Now("hyperbridge") + 1)
  /\ Time("dest", h) >= Timeout
  /\ delivered = NoBlock \/ delivered > h
  /\ retracted' = number["hyperbridge"] + 1
  /\ UNCHANGED <<updates, relayed, delivered>>

TimeoutBlock ==
  /\ \E h \in Stored("hyperbridge", "dest") : TimeoutOnHyperbridge(h)
  /\ UNCHANGED client

-----------------------------------------------------------------------------
(* What the client is made of.                                             *)

HyperbridgeReceipt == relayed # NoBlock /\ retracted = NoBlock

\* The operation enters a state of the stream; the next await is its first.
Enter(state, height) ==
  /\ at' = state /\ held' = height /\ step' = "start" /\ local' = Blank
  /\ UNCHANGED <<chains, op>>

\* An await returns: the client keeps what it read and goes on to the next.
Await(next, known) ==
  /\ step' = next /\ local' = known
  /\ UNCHANGED <<chains, op, at, held, foreign, verdict, calldata>>

At(o, state, s) == op \in o /\ at = state /\ step = s

\* The first block of chain c a look at the events from block n on sees.
EventsFrom(c, n) == IF c \in Evm THEN n ELSE n + 1

\* The first block a subscription to the updates of chain c looks at.
Subscribed(c) == EventsFrom(c, number[c])

\* The update of d of greatest height in the blocks of c a poll looks at.
Polled(c, d) ==
  LET seen == {u \in updates[<<c, d>>] : u.at >= local.from}
  IN {u \in seen : \A v \in seen : v.height <= u.height}

\* The first update of d to height h or more in the latest blocks of c.
Found(c, d, h) ==
  LET seen == {u \in updates[<<c, d>>] :
                 u.at >= EventsFrom(c, number[c] - EventWindow) /\ u.height >= h}
  IN {u \in seen : \A v \in seen : u.at <= v.at}

\* What the indexer may answer: it may lag by any number of events, and a
\* query that fails is answered by nothing.
IndexerAnswers ==
  {"nothing", "SOURCE"}
    \union {w \in {"MESSAGE_RELAYED"} : relayed # NoBlock}
    \union {w \in {"DEST"} : delivered # NoBlock}
    \union {w \in {"TIMED_OUT"} : retracted # NoBlock}

(* query_post_request_status_internal and the state Dispatched of the      *)
(* stream: the destination's clock, then its receipt, then the indexer;    *)
(* Hyperbridge's clock, then its receipt.                                  *)

QueryDestClock ==
  /\ At({"query", "status"}, "Dispatched", "start")
  /\ Await("receipt", [local EXCEPT !.time = Now("dest")])

QueryDestReceipt ==
  /\ At({"query", "status"}, "Dispatched", "receipt")
  /\ Await("indexer", [local EXCEPT !.receipt = delivered # NoBlock])

\* A mutant: the destination's clock is read after its receipt.
UnsettledLateClock ==
  \/ /\ local.receipt
     /\ Enter("End", NoBlock) /\ UNCHANGED <<foreign, verdict, calldata>>
  \/ /\ ~local.receipt /\ Now("dest") >= Timeout
     /\ Enter("End", NoBlock) /\ verdict' = TRUE /\ UNCHANGED <<foreign, calldata>>
  \/ /\ ~local.receipt /\ Now("dest") < Timeout
     /\ Await("clock", Blank)

\* The indexer has not settled the status: does the destination?
Unsettled ==
  \/ /\ local.receipt
     /\ Enter("End", NoBlock) /\ UNCHANGED <<foreign, verdict, calldata>>
  \/ /\ ~local.receipt /\ local.time >= Timeout
     /\ Enter("End", NoBlock) /\ verdict' = TRUE /\ UNCHANGED <<foreign, calldata>>
  \/ /\ ~local.receipt /\ local.time < Timeout
     /\ Await("clock", Blank)

QueryIndexer ==
  /\ At({"query"}, "Dispatched", "indexer")
  /\ \E answer \in IndexerAnswers :
       \/ answer = "nothing" /\ Unsettled
       \/ /\ answer # "nothing"
          /\ Enter("End", NoBlock)
          /\ verdict' = (verdict \/ answer = "TIMED_OUT")
          /\ UNCHANGED <<foreign, calldata>>

\* The stream takes the height of a SOURCE answer, the source's block that
\* dispatched the request, for the Hyperbridge block to look on from.
IndexerDispatched ==
  /\ At({"status"}, "Dispatched", "indexer")
  /\ \E answer \in IndexerAnswers :
       \/ answer \in {"nothing", "TIMED_OUT"} /\ Unsettled
       \/ /\ answer = "SOURCE"
          /\ Enter("SourceFinalized", dispatched) /\ foreign' = TRUE
          /\ UNCHANGED <<verdict, calldata>>
       \/ /\ answer = "MESSAGE_RELAYED"
          /\ Enter("HyperbridgeVerified", relayed)
          /\ UNCHANGED <<foreign, verdict, calldata>>
       \/ /\ answer = "DEST"
          /\ Enter("End", NoBlock) /\ UNCHANGED <<foreign, verdict, calldata>>

QueryHyperbridgeClock ==
  /\ At({"query", "status"}, "Dispatched", "clock")
  /\ Await("hyperbridge", [local EXCEPT !.time = Now("hyperbridge")])

QueryHyperbridgeReceipt ==
  /\ At({"query", "status"}, "Dispatched", "hyperbridge")
  /\ LET late == IF op = "query" THEN local.time > Timeout ELSE local.time >= Timeout
     IN \/ /\ HyperbridgeReceipt /\ op = "status"
           /\ Await("height", Blank)
        \/ /\ ~HyperbridgeReceipt /\ ~late /\ op = "status"
           /\ Await("subscribe", Blank)
        \/ /\ \/ HyperbridgeReceipt /\ op = "query"
              \/ ~HyperbridgeReceipt /\ (late \/ op = "query")
           /\ Enter("End", NoBlock)
           /\ verdict' = (verdict \/ (~HyperbridgeReceipt /\ late))
           /\ UNCHANGED <<foreign, calldata>>

\* The height of a request found on Hyperbridge is the newest block there.
QueryHyperbridgeHeight ==
  /\ At({"status"}, "Dispatched", "height") \/ At({"status"}, "SourceFinalized", "height")
  /\ Enter("HyperbridgeVerified", number["hyperbridge"]) /\ foreign' = FALSE
  /\ UNCHANGED <<verdict, calldata>>

SubscribeDispatched ==
  /\ At({"status"}, "Dispatched", "subscribe")
  /\ Await("poll", [local EXCEPT !.from = Subscribed("hyperbridge")])

\* A poll that finds nothing good enough goes on after the newest block.
PollDispatched ==
  /\ At({"status"}, "Dispatched", "poll")
  /\ number["hyperbridge"] >= local.from
  /\ LET good == {u \in Polled("hyperbridge", "source") : u.height >= held}
     IN \/ /\ good = {} /\ Await("poll", [local EXCEPT !.from = number["hyperbridge"] + 1])
        \/ \E u \in good : /\ Enter("SourceFinalized", u.at) /\ foreign' = FALSE
                           /\ UNCHANGED <<verdict, calldata>>

(* The state SourceFinalized: is the request on Hyperbridge already?  Else *)
(* watch for its event, from the block the state holds.                    *)

QuerySourceFinalized ==
  /\ At({"status"}, "SourceFinalized", "start")
  /\ Await("indexer", [local EXCEPT !.receipt = HyperbridgeReceipt])

\* A mutant: the events are watched from the newest block on.
IndexerSourceFinalizedNewest ==
  /\ At({"status"}, "SourceFinalized", "indexer")
  /\ \E answer \in IndexerAnswers :
       \/ /\ answer \in {"nothing", "SOURCE", "TIMED_OUT"}
          /\ IF local.receipt THEN Await("height", Blank)
             ELSE Await("poll", [local EXCEPT !.from = number["hyperbridge"] + 1])
       \/ /\ answer = "MESSAGE_RELAYED"
          /\ Enter("HyperbridgeVerified", relayed) /\ foreign' = FALSE
          /\ UNCHANGED <<verdict, calldata>>
       \/ /\ answer = "DEST"
          /\ Enter("End", NoBlock) /\ UNCHANGED <<foreign, verdict, calldata>>

IndexerSourceFinalized ==
  /\ At({"status"}, "SourceFinalized", "indexer")
  /\ \E answer \in IndexerAnswers :
       \/ /\ answer \in {"nothing", "SOURCE", "TIMED_OUT"}
          /\ IF local.receipt THEN Await("height", Blank)
                              ELSE Await("poll", [local EXCEPT !.from = held + 1])
       \/ /\ answer = "MESSAGE_RELAYED"
          /\ Enter("HyperbridgeVerified", relayed) /\ foreign' = FALSE
          /\ UNCHANGED <<verdict, calldata>>
       \/ /\ answer = "DEST"
          /\ Enter("End", NoBlock) /\ UNCHANGED <<foreign, verdict, calldata>>

\* The range of a poll is empty while the block to start from is not there
\* yet, and the next poll starts after the newest block all the same.
PollRelayed ==
  /\ At({"status"}, "SourceFinalized", "poll")
  /\ number["hyperbridge"] + 1 # local.from
  /\ IF relayed >= local.from
     THEN /\ Enter("HyperbridgeVerified", relayed) /\ foreign' = FALSE
          /\ UNCHANGED <<verdict, calldata>>
     ELSE Await("poll", [local EXCEPT !.from = number["hyperbridge"] + 1])

(* The state HyperbridgeVerified: deliverable once the destination has     *)
(* finalized the Hyperbridge block and its challenge period is over.       *)

QueryVerified ==
  /\ At({"status"}, "HyperbridgeVerified", "start")
  /\ Await("indexer", [local EXCEPT !.receipt = delivered # NoBlock])

IndexerVerified ==
  /\ At({"status"}, "HyperbridgeVerified", "indexer")
  /\ \E answer \in IndexerAnswers :
       IF answer = "DEST" \/ local.receipt
       THEN Enter("End", NoBlock) /\ UNCHANGED <<foreign, verdict, calldata>>
       ELSE Await("latest", Blank)

\* The latest Hyperbridge height on the destination, or none yet.
QueryLatest ==
  /\ At({"status"}, "HyperbridgeVerified", "latest")
  /\ LET stored == Stored("dest", "hyperbridge")
     IN IF \E h \in stored : h >= held THEN Await("search", [local EXCEPT !.proof = Max(stored)])
                                       ELSE Await("subscribe", Blank)

\* A mutant: any update will do.
SearchAnyUpdate ==
  /\ At({"status"}, "HyperbridgeVerified", "search")
  /\ LET found == Found("dest", "hyperbridge", NoBlock)
     IN \/ found = {} /\ Await("wait", [local EXCEPT !.block = number["dest"]])
        \/ \E u \in found :
             Await("wait", [local EXCEPT !.proof = u.height, !.block = u.at])

SearchUpdate ==
  /\ At({"status"}, "HyperbridgeVerified", "search")
  /\ LET found == Found("dest", "hyperbridge", held)
     IN \/ found = {} /\ Await("wait", [local EXCEPT !.block = number["dest"]])
        \/ \E u \in found :
             Await("wait", [local EXCEPT !.proof = u.height, !.block = u.at])

SubscribeVerified ==
  /\ At({"status"}, "HyperbridgeVerified", "subscribe")
  /\ Await("poll", [local EXCEPT !.from = Subscribed("dest")])

PollVerified ==
  /\ At({"status"}, "HyperbridgeVerified", "poll")
  /\ number["dest"] >= local.from
  /\ LET good == {u \in Polled("dest", "hyperbridge") : u.height >= held}
     IN \/ /\ good = {} /\ Await("poll", [local EXCEPT !.from = number["dest"] + 1])
        \/ \E u \in good :
             Await("wait", [Blank EXCEPT !.proof = u.height, !.block = u.at])

\* The period is over: wait_for_challenge_period wants more than the period,
\* and the update time an EVM chain has for a height it does not know is 0.
Waited(c, h) ==
  \/ \E u \in updates[<<c, "hyperbridge">>] :
       u.height = h /\ Now(c) - Time(c, u.at) > Period[c]
  \/ c \in Evm /\ h \notin Stored(c, "hyperbridge") /\ Now(c) > Period[c]

EncodeRequest ==
  /\ At({"status"}, "HyperbridgeVerified", "wait")
  /\ Waited("dest", local.proof)
  /\ Enter("HyperbridgeFinalized", local.block)
  /\ calldata' = [kind |-> "request", height |-> local.proof, foreign |-> FALSE]
  /\ UNCHANGED <<foreign, verdict>>

(* The state HyperbridgeFinalized: watch the destination for the delivery. *)

QueryFinalized ==
  /\ At({"status"}, "HyperbridgeFinalized", "start")
  /\ Await("indexer", [local EXCEPT !.receipt = delivered # NoBlock])

IndexerFinalized ==
  /\ At({"status"}, "HyperbridgeFinalized", "indexer")
  /\ \E answer \in IndexerAnswers :
       IF answer = "DEST" \/ local.receipt
       THEN Enter("End", NoBlock) /\ UNCHANGED <<foreign, verdict, calldata>>
       ELSE "dest" \in Evm /\ Await("poll", [local EXCEPT !.from = held])

PollDelivered ==
  /\ At({"status"}, "HyperbridgeFinalized", "poll")
  /\ number["dest"] >= local.from
  /\ IF delivered >= local.from
     THEN Enter("End", NoBlock) /\ UNCHANGED <<foreign, verdict, calldata>>
     ELSE Await("poll", [local EXCEPT !.from = number["dest"] + 1])

(* timeout_post_request_stream: wait until Hyperbridge knows a block of    *)
(* the destination past the timeout, time the request out there unless it  *)
(* never got there, wait until the source knows a Hyperbridge block from   *)
(* then on, and hand out the timeout message for the source.               *)

\* The application runs it on Timeout, from the client's report or from
\* message_timeout_stream, which looks at the source chain's clock alone.
StartTimeout ==
  /\ op \in {"query", "status"}
  /\ verdict \/ Now("source") > Timeout
  /\ op' = "timeout" /\ at' = "Pending" /\ held' = NoBlock
  /\ foreign' = FALSE /\ step' = "start" /\ local' = Blank
  /\ UNCHANGED <<chains, verdict, calldata>>

QueryPending ==
  /\ At({"timeout"}, "Pending", "start")
  /\ LET stored == Stored("hyperbridge", "dest")
     IN /\ stored # {}
        /\ IF Time("dest", Max(stored)) > Timeout
           THEN Enter("DestinationFinalized", Max(stored)) /\ UNCHANGED <<foreign, verdict, calldata>>
           ELSE Await("subscribe", Blank)

SubscribePending ==
  /\ At({"timeout"}, "Pending", "subscribe")
  /\ Await("poll", [Blank EXCEPT !.from = Subscribed("hyperbridge")])

PollPending ==
  /\ At({"timeout"}, "Pending", "poll")
  /\ number["hyperbridge"] >= local.from
  /\ LET good == {u \in Polled("hyperbridge", "dest") : Time("dest", u.height) > Timeout}
     IN \/ /\ good = {}
           /\ Await("poll", [local EXCEPT !.from = number["hyperbridge"] + 1])
        \/ \E u \in good : /\ Enter("DestinationFinalized", u.height)
                           /\ UNCHANGED <<foreign, verdict, calldata>>

QueryRouted ==
  /\ At({"timeout"}, "DestinationFinalized", "start")
  /\ Await(IF HyperbridgeReceipt THEN "submit" ELSE "header", Blank)

QueryHeader ==
  /\ At({"timeout"}, "DestinationFinalized", "header")
  /\ Enter("HyperbridgeVerified", number["hyperbridge"])
  /\ UNCHANGED <<foreign, verdict, calldata>>

\* The period is waited for before the message is submitted.
SubmitTimeout ==
  /\ At({"timeout"}, "DestinationFinalized", "submit")
  /\ \E u \in updates[<<"hyperbridge", "dest">>] :
       u.height = held /\ number["hyperbridge"] - u.at > Period["hyperbridge"]
  /\ TimeoutOnHyperbridge(held)
  /\ at' = "HyperbridgeVerified" /\ held' = number["hyperbridge"] + 1
  /\ step' = "start" /\ local' = Blank
  /\ UNCHANGED <<op, foreign, verdict, calldata>>

QueryTimeoutVerified ==
  /\ At({"timeout"}, "HyperbridgeVerified", "start")
  /\ Await(IF \E h \in Stored("source", "hyperbridge") : h >= held
           THEN "search" ELSE "subscribe", Blank)

\* The height the stream goes on with is one of the source chain: that of
\* the block with the update, or of the newest one.
SearchTimeoutUpdate ==
  /\ At({"timeout"}, "HyperbridgeVerified", "search")
  /\ LET found == Found("source", "hyperbridge", held)
     IN \/ found = {} /\ Enter("HyperbridgeFinalized", number["source"])
        \/ \E u \in found : Enter("HyperbridgeFinalized", u.at)
  /\ foreign' = TRUE
  /\ UNCHANGED <<verdict, calldata>>

SubscribeTimeoutVerified ==
  /\ At({"timeout"}, "HyperbridgeVerified", "subscribe")
  /\ Await("poll", [Blank EXCEPT !.from = Subscribed("source")])

PollTimeoutVerified ==
  /\ At({"timeout"}, "HyperbridgeVerified", "poll")
  /\ number["source"] >= local.from
  /\ LET good == {u \in Polled("source", "hyperbridge") :
                    Time("hyperbridge", u.height) > Timeout /\ u.height >= held}
     IN \/ /\ good = {}
           /\ Await("poll", [local EXCEPT !.from = number["source"] + 1])
        \/ \E u \in good : /\ Enter("HyperbridgeFinalized", u.height)
                           /\ UNCHANGED <<foreign, verdict, calldata>>

EncodeTimeout ==
  /\ At({"timeout"}, "HyperbridgeFinalized", "start")
  /\ held <= number["hyperbridge"]
  /\ Waited("source", held)
  /\ Enter("End", NoBlock)
  /\ calldata' = [kind |-> "timeout", height |-> held, foreign |-> foreign]
  /\ UNCHANGED <<foreign, verdict>>

\* An await fails: the stream ends with an error, and the application takes
\* it up again from the state it last heard of.
Fail ==
  /\ step # "start"
  /\ step' = "start" /\ local' = Blank
  /\ UNCHANGED <<chains, op, at, held, foreign, verdict, calldata>>

-----------------------------------------------------------------------------
Blocks ==
  \/ \E c \in Chain : EmptyBlock(c)
  \/ \E l \in Link : UpdateBlock(l[1], l[2])
  \/ RelayBlock \/ DeliverBlock \/ TimeoutBlock

Status ==
  \/ QueryDestClock \/ QueryDestReceipt \/ QueryIndexer \/ IndexerDispatched
  \/ QueryHyperbridgeClock \/ QueryHyperbridgeReceipt \/ QueryHyperbridgeHeight
  \/ SubscribeDispatched \/ PollDispatched
  \/ QuerySourceFinalized \/ IndexerSourceFinalized \/ PollRelayed
  \/ QueryVerified \/ IndexerVerified \/ QueryLatest \/ SearchUpdate
  \/ SubscribeVerified \/ PollVerified \/ EncodeRequest
  \/ QueryFinalized \/ IndexerFinalized \/ PollDelivered

TimeoutStream ==
  \/ StartTimeout \/ QueryPending \/ SubscribePending \/ PollPending
  \/ QueryRouted \/ QueryHeader \/ SubmitTimeout
  \/ QueryTimeoutVerified \/ SearchTimeoutUpdate
  \/ SubscribeTimeoutVerified \/ PollTimeoutVerified \/ EncodeTimeout

Next == Blocks \/ Status \/ TimeoutStream \/ Fail

Spec == Init /\ [][Next]_vars

-----------------------------------------------------------------------------
(* A request the client has reported as timed out, by the query or by the  *)
(* status stream, is not delivered, then or ever after.  The clock the     *)
(* report rests on was read before the receipt it is compared with, on     *)
(* either chain, and blocks were made in between.                          *)
TimeoutIsFinal == verdict => delivered = NoBlock

(* What the client hands out is accepted: a request message rests on a     *)
(* Hyperbridge block that holds the request, a timeout message on one past *)
(* the timeout without a receipt of it, each of a height the other chain   *)
(* knows and whose challenge period is over.  The timeout stream that      *)
(* finds Hyperbridge finalized already goes on with a block number of the  *)
(* source chain, and is left out.                                          *)
CalldataAccepted ==
  LET h == calldata.height IN
  /\ calldata.kind = "request" =>
       /\ Elapsed("dest", "hyperbridge", h, Now("dest"))
       /\ relayed # NoBlock /\ relayed <= h
  /\ calldata.kind = "timeout" /\ ~calldata.foreign =>
       /\ Elapsed("source", "hyperbridge", h, Now("source"))
       /\ Time("hyperbridge", h) >= Timeout
       /\ relayed # NoBlock /\ relayed <= h => retracted # NoBlock /\ retracted <= h

(* The client never waits for an event it has already passed: while it     *)
(* watches Hyperbridge for the request, or the destination for the         *)
(* delivery, the event is not in a block before the one it looks at next.  *)
(* Where the indexer gave the height to look on from, it is a number of    *)
(* the source chain, and the event may be missed.                          *)
NoMissedEvent ==
  /\ At({"status"}, "SourceFinalized", "poll") /\ relayed # NoBlock /\ ~foreign =>
       relayed >= local.from
  /\ At({"status"}, "HyperbridgeFinalized", "poll") /\ delivered # NoBlock =>
       delivered >= local.from
=============================================================================
