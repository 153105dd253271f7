----------------------------- MODULE MCClients -----------------------------
(***************************************************************************)
(* The two clients that follow chains by the updates of others: the        *)
(* consensus client of a chain, in its storage, and the browser client     *)
(* that follows one request over three chains.  They share nothing, so a   *)
(* behaviour is one of a single client: the one `active` names.            *)
(*                                                                         *)
(* State roots are interchangeable: the specification never tells them     *)
(* apart.  The browser client goes through the query and the status        *)
(* stream, or through the timeout stream.                                  *)
(***************************************************************************)
EXTENDS ConsensusClient, TLC

CONSTANTS Timeout, EventWindow, MaxSkew, MaxLead, MaxUpdates, StatusTime

VARIABLES active, number, updates, relayed, retracted, delivered,
          op, at, held, foreign, step, local, verdict, calldata

browserVars == <<number, updates, relayed, retracted, delivered,
                 op, at, held, foreign, step, local, verdict, calldata>>

Symmetry == Permutations(Roots)

\* The numbers of the three chains overlap and do not coincide.
FirstBlocks == [source |-> 7, hyperbridge |-> 3, dest |-> 5]
ChallengePeriods == [source |-> 1, hyperbridge |-> 0, dest |-> 0]
Clocks == [source |-> 8, hyperbridge |-> 6, dest |-> 6]

Client == INSTANCE Hyperclient WITH
    First <- FirstBlocks, Period <- ChallengePeriods, MaxTime <- Clocks,
    Evm <- {"source", "dest"}

ASSUME Client!ClientConstants

MCInit ==
    /\ active \in {"consensus", "status", "timeout"}
    /\ Init /\ Client!Init
    /\ active = "timeout" =>
         /\ op = "status" /\ Client!Now("source") = MaxLead
         /\ updates[<<"hyperbridge", "source">>] # {}
    /\ active # "timeout" => Client!Now("source") = 0
    /\ op = "query" => relayed = Client!NoBlock /\ updates[<<"hyperbridge", "source">>] # {}
    \* One initial state of the browser client beside the consensus client.
    /\ active = "consensus" => op = "status" /\ updates[<<"dest", "hyperbridge">>] # {}

ConsensusStep == active = "consensus" /\ Next /\ UNCHANGED <<active, browserVars>>

\* Following the status: the source chain has done its part, and an update of
\* the destination serves to time the request out.
StatusStep ==
    /\ active = "status" /\ UNCHANGED <<active, vars>>
    /\ \/ /\ Client!Blocks
          /\ number'["source"] = number["source"]
          /\ \A c \in {"hyperbridge", "dest"} : number'[c] - FirstBlocks[c] <= StatusTime
          /\ Cardinality(updates'[<<"hyperbridge", "dest">>]) <= 1
          /\ Cardinality(updates'[<<"hyperbridge", "source">>]) <= 1
       \/ Client!Status \/ Client!Fail

\* Timing the request out: the updates that count are of blocks at or past the
\* timeout.
TimeoutStep ==
    /\ active = "timeout" /\ UNCHANGED <<active, vars>>
    /\ \/ /\ Client!Blocks
          /\ \A l \in {<<"dest", "hyperbridge">>, <<"hyperbridge", "source">>} :
               updates'[l] = updates[l]
          /\ \A u \in updates'[<<"hyperbridge", "dest">>] :
               Client!Time("dest", u.height) >= Timeout
          /\ \A u \in updates'[<<"source", "hyperbridge">>] :
               Client!Time("hyperbridge", u.height) >= Timeout
          /\ Cardinality(updates'[<<"source", "hyperbridge">>]) <= 1
       \/ Client!TimeoutStream
       \/ op = "timeout" /\ Client!Fail

MCNext == ConsensusStep \/ StatusStep \/ TimeoutStep
MCSpec == MCInit /\ [][MCNext]_<<active, vars, browserVars>>

-----------------------------------------------------------------------------
\* A request the browser client has reported as timed out is never delivered
\* (query_post_request_status_internal, post_request_status_stream).
TimeoutIsFinal == Client!TimeoutIsFinal

\* The request and timeout messages the client hands out are accepted, but for
\* the timeout stream that goes on with a block number of the source chain
\* (post_request_status_stream, timeout_post_request_stream).
CalldataAccepted == Client!CalldataAccepted

\* The client never waits for an event it has already passed, but where the
\* indexer gave a block number of the source chain (ismp_events_stream,
\* post_request_handled_stream).
NoMissedEvent == Client!NoMissedEvent
=============================================================================
