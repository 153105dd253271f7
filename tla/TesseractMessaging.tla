------------------------- MODULE TesseractMessaging -------------------------
(***************************************************************************)
(* The Tesseract relayer between Hyperbridge and one destination chain:    *)
(* the messaging task (handle_notification and handle_update), the task    *)
(* that retries unprofitable messages, the fee accumulation task, the      *)
(* command line's accumulate-fees, and the database they share.            *)
(*                                                                         *)
(* The chains are reduced to what the relayer reads from them: the block   *)
(* of Hyperbridge that emitted a message, the newest block of Hyperbridge  *)
(* the destination has finalised, the receipts and the clock of the        *)
(* destination, and the newest destination block known to Hyperbridge.     *)
(* The destination produces one block per unit of its clock.               *)
(*                                                                         *)
(* Whether a message is worth delivering is decided by gas prices, so the  *)
(* set of profitable messages is any set.  Every await whose result can be *)
(* stale when it is used separates two steps.  The database does not fail; *)
(* calls to the chains may.                                                *)
(***************************************************************************)
EXTENDS Naturals, Sequences, FiniteSets, FiniteSetsExt

CONSTANTS
    Requests,       \* POST requests for the destination
    Responses,      \* POST responses for the destination
    Deadline,       \* the destination time at which each message times out
    Never,          \* the deadline of a message without one
    MaxTime,        \* bound: the destination's clock
    MaxCrashes      \* bound: restarts of the relayer

Messages == Requests \cup Responses

Kinds == {Requests, Responses}

MessagingConstants ==
    /\ Requests \cap Responses = {}
    /\ MaxTime \in Nat /\ MaxCrashes \in Nat
    /\ Deadline \in [Messages -> Nat \cup {Never}]

VARIABLES
    emitted,     \* Hyperbridge block of each message's event, 0 before
    height,      \* Hyperbridge's height
    final,       \* newest Hyperbridge height finalised on the destination
    now,         \* the destination's clock and height
    receipt,     \* who delivered each message: "none", "us" or "other"
    attested,    \* newest destination height known to Hyperbridge
    claimed,     \* messages whose fee was accumulated on Hyperbridge
    cursor,      \* previous_height of the messaging task
    work,        \* the messaging task and the retry task
    queue,       \* receipts on their way to the fee accumulation task
    fee,         \* the fee accumulation task and the accumulate-fees command
    rows,        \* table unprofitable_messages: message and proof height
    deliveries,  \* table deliveries: message and delivery height
    recorded,    \* history: messages ever put into deliveries
    mishaps,     \* history: messages an error, a failed callback or a crash hit
    crashes

chains == <<emitted, height, final, now, attested>>
vars == <<chains, receipt, claimed, cursor, work, queue, fee, rows, deliveries,
          recorded, mishaps, crashes>>

Msgs(S) == {r.msg : r \in S}

Workers == {"messaging", "retries"}
Claimers == {"auto", "manual"}

IdleWork == [pc |-> "idle", at |-> 0, batch |-> {}, keep |-> {}, ids |-> {}, got |-> {}]
IdleFee == [pc |-> "idle", at |-> 0, claim |-> {}]

TimedOut(m) == Deadline[m] # Never /\ Deadline[m] <= now

Init ==
    /\ emitted = [m \in Messages |-> 0]
    /\ height = 0 /\ final = 0 /\ now = 0 /\ attested = 0
    /\ receipt = [m \in Messages |-> "none"]
    /\ claimed = {}
    /\ cursor = 0
    /\ work = [w \in Workers |-> IdleWork]
    /\ queue = <<>>
    /\ fee = [c \in Claimers |-> IdleFee]
    /\ rows = {} /\ deliveries = {}
    /\ recorded = {} /\ mishaps = {} /\ crashes = 0

-----------------------------------------------------------------------------
(* The chains. *)

\* Hyperbridge produces a block with a message for the destination.
Emit(m) ==
    /\ emitted[m] = 0
    /\ height' = height + 1
    /\ emitted' = [emitted EXCEPT ![m] = height + 1]
    /\ UNCHANGED <<final, now, attested, receipt, claimed, cursor, work, queue, fee,
                   rows, deliveries, recorded, mishaps, crashes>>

\* Hyperbridge's newest block is finalised on the destination and its
\* challenge period passes: the next update the stream yields.
Finalise ==
    /\ final < height
    /\ final' = height
    /\ UNCHANGED <<emitted, height, now, attested, receipt, claimed, cursor, work,
                   queue, fee, rows, deliveries, recorded, mishaps, crashes>>

Tick ==
    /\ now < MaxTime
    /\ now' = now + 1
    /\ UNCHANGED <<emitted, height, final, attested, receipt, claimed, cursor, work,
                   queue, fee, rows, deliveries, recorded, mishaps, crashes>>

\* Hyperbridge learns the destination's newest block.
Attest ==
    /\ attested < now
    /\ attested' = now
    /\ UNCHANGED <<emitted, height, final, now, receipt, claimed, cursor, work,
                   queue, fee, rows, deliveries, recorded, mishaps, crashes>>

Deliverable(m) == emitted[m] \in 1 .. final /\ receipt[m] = "none" /\ ~TimedOut(m)

\* Another relayer delivers a message.
OtherDelivers(m) ==
    /\ Deliverable(m)
    /\ receipt' = [receipt EXCEPT ![m] = "other"]
    /\ UNCHANGED <<chains, claimed, cursor, work, queue, fee, rows, deliveries,
                   recorded, mishaps, crashes>>

-----------------------------------------------------------------------------
(* Submission.  A batch is one call for its requests and one for its       *)
(* responses; a call reverts unless all of its messages can be delivered,  *)
(* and the first call that fails ends the submission.                      *)

Calls(batch) ==
    LET call(S) == IF batch \cap S = {} THEN <<>> ELSE <<batch \cap S>>
    IN  call(Requests) \o call(Responses)

FirstCalls(batch, n) == UNION {Calls(batch)[i] : i \in 1 .. n}

\* The first n calls of a task's batch are included and their modules execute
\* all messages but those in bad, whose callbacks fail.
Executes(w, n, bad) ==
    LET included == FirstCalls(work[w].batch, n) IN
    /\ \A m \in included : Deliverable(m) /\ emitted[m] <= work[w].at
    /\ bad \subseteq included
    /\ receipt' = [m \in Messages |-> IF m \in included \ bad THEN "us" ELSE receipt[m]]

\* submit returned the receipts of what was executed.
Submitted(w) ==
    \E bad \in SUBSET work[w].batch :
       /\ Executes(w, Len(Calls(work[w].batch)), bad)
       /\ work' = [work EXCEPT ![w].pc = "record",
                               ![w].got = {[msg |-> m, at |-> now] : m \in work[w].batch \ bad}]
       /\ mishaps' = mishaps \cup bad

\* submit failed.  The calls before the failing one were executed; the failing
\* one too, when it was included after its five minute timer gave up on it.
SubmitFailed(w) ==
    \E n \in 0 .. Len(Calls(work[w].batch)) :
       /\ Executes(w, n, {})
       /\ work' = [work EXCEPT ![w].pc = "store"]
       /\ mishaps' = mishaps \cup work[w].batch

\* handle_update and retry_unprofitable_messages: submit the batch, if any.
Submit(w) ==
    /\ work[w].pc = "submit"
    /\ IF work[w].batch = {}
       THEN work' = [work EXCEPT ![w].pc = "store"] /\ UNCHANGED <<receipt, mishaps>>
       ELSE Submitted(w) \/ SubmitFailed(w)
    /\ UNCHANGED <<chains, claimed, cursor, queue, fee, rows, deliveries, recorded, crashes>>

\* The receipts go into the database, then to the fee accumulation task.
Record(w) ==
    /\ work[w].pc = "record"
    /\ deliveries' = deliveries \cup work[w].got
    /\ recorded' = recorded \cup Msgs(work[w].got)
    /\ queue' = IF work[w].got = {} THEN queue ELSE Append(queue, work[w].got)
    /\ work' = [work EXCEPT ![w].pc = "store", ![w].got = {}]
    /\ UNCHANGED <<chains, receipt, claimed, cursor, fee, rows, mishaps, crashes>>

-----------------------------------------------------------------------------
(* What the tasks ask the destination about a set of messages. *)

\* translate_events_to_messages drops messages that timed out.
NotTimedOut(S) == {m \in S : ~TimedOut(m)}

\* A message whose trial execution fails is dropped if it has a receipt.
Undelivered(S) == {m \in S : receipt[m] = "none"}

\* return_successful_queries: the trial executions succeed and the fees cover
\* the cost, for any set of messages that can be delivered at all.
Worthwhile(S) == SUBSET {m \in S : Deliverable(m)}

-----------------------------------------------------------------------------
(* The messaging task. *)

\* Mutant of HandleUpdate: the range starts at the cursor instead of after it.
HandleUpdateInclusive ==
    LET events == {m \in Messages : emitted[m] > 0 /\ emitted[m] \in cursor .. final}
        open == Undelivered(NotTimedOut(events)) IN
    /\ work["messaging"].pc = "idle"
    /\ cursor < final
    /\ cursor' = final
    /\ \E profitable \in Worthwhile(open) :
         work' = [work EXCEPT !["messaging"] =
              [IdleWork EXCEPT !.pc = "submit", !.at = final, !.batch = profitable,
                 !.keep = {[msg |-> m, at |-> final] : m \in open \ profitable}]]
    /\ UNCHANGED <<chains, receipt, claimed, queue, fee, rows, deliveries, recorded,
                   mishaps, crashes>>

\* handle_update: query the events after the cursor up to the finalised
\* height, advance the cursor, drop messages that timed out or that somebody
\* delivered, and estimate which of the others are worth delivering.
HandleUpdate ==
    LET events == {m \in Messages : emitted[m] \in cursor + 1 .. final}
        open == Undelivered(NotTimedOut(events)) IN
    /\ work["messaging"].pc = "idle"
    /\ cursor < final
    /\ cursor' = final
    /\ \/ \E profitable \in Worthwhile(open) :
            /\ work' = [work EXCEPT !["messaging"] =
                 [IdleWork EXCEPT !.pc = "submit", !.at = final, !.batch = profitable,
                    !.keep = {[msg |-> m, at |-> final] : m \in open \ profitable}]]
            /\ UNCHANGED mishaps
       \* The events, the clock, a proof or an estimate could not be queried.
       \/ events # {} /\ mishaps' = mishaps \cup events /\ UNCHANGED work
    /\ UNCHANGED <<chains, receipt, claimed, queue, fee, rows, deliveries, recorded, crashes>>

\* store_unprofitable_messages: the messages that were not worth it.
StoreUnprofitable ==
    /\ work["messaging"].pc = "store"
    /\ rows' = rows \cup work["messaging"].keep
    /\ work' = [work EXCEPT !["messaging"] = IdleWork]
    /\ UNCHANGED <<chains, receipt, claimed, cursor, queue, fee, deliveries, recorded,
                   mishaps, crashes>>

-----------------------------------------------------------------------------
(* The retry task. *)

\* Mutant of RetryRows: the batch is proved at the lowest height of the rows.
RetryRowsLowest ==
    /\ work["retries"].pc = "idle"
    /\ rows # {}
    /\ LET open == Undelivered(Msgs(rows)) IN
       \E profitable \in Worthwhile(open) :
          work' = [work EXCEPT !["retries"] =
              [IdleWork EXCEPT !.pc = "submit", !.at = Min({r.at : r \in rows}),
                 !.batch = profitable, !.ids = rows,
                 !.keep = {r \in rows : r.msg \in open \ profitable}]]
    /\ UNCHANGED <<chains, receipt, claimed, cursor, queue, fee, rows, deliveries,
                   recorded, mishaps, crashes>>

\* Read the rows and estimate them again: the profitable ones form a batch
\* proved at the highest height of all rows, those nobody delivered are kept.
\* A failed estimate loses the rows of that kind, a failed proof its batch.
RetryRows ==
    /\ work["retries"].pc = "idle"
    /\ rows # {}
    /\ \E lost, unproven \in SUBSET Kinds :
         LET open == Undelivered(Msgs(rows) \ UNION lost) IN
         \E profitable \in Worthwhile(open) :
            /\ work' = [work EXCEPT !["retries"] =
                 [IdleWork EXCEPT !.pc = "submit", !.at = Max({r.at : r \in rows}),
                    !.batch = profitable \ UNION unproven, !.ids = rows,
                    !.keep = {r \in rows : r.msg \in open \ profitable}]]
            /\ mishaps' = mishaps \cup (Msgs(rows) \cap UNION lost)
                                  \cup (profitable \cap UNION unproven)
    /\ UNCHANGED <<chains, receipt, claimed, cursor, queue, fee, rows, deliveries,
                   recorded, crashes>>

\* Mutant of DeleteRetried: the table is emptied.
DeleteAllRows ==
    /\ work["retries"].pc = "store"
    /\ rows' = {}
    /\ work' = [work EXCEPT !["retries"].pc = "restore"]
    /\ UNCHANGED <<chains, receipt, claimed, cursor, queue, fee, deliveries, recorded,
                   mishaps, crashes>>

\* delete_unprofitable_messages: all rows that were read.
DeleteRetried ==
    /\ work["retries"].pc = "store"
    /\ rows' = rows \ work["retries"].ids
    /\ work' = [work EXCEPT !["retries"].pc = "restore"]
    /\ UNCHANGED <<chains, receipt, claimed, cursor, queue, fee, deliveries, recorded,
                   mishaps, crashes>>

\* The rows kept go back, unless they timed out.  When the destination's clock
\* cannot be read the task ends instead, and with it the process: see Restart.
RestoreRows ==
    /\ work["retries"].pc = "restore"
    /\ rows' = rows \cup {r \in work["retries"].keep : ~TimedOut(r.msg)}
    /\ work' = [work EXCEPT !["retries"] = IdleWork]
    /\ UNCHANGED <<chains, receipt, claimed, cursor, queue, fee, deliveries, recorded,
                   mishaps, crashes>>

-----------------------------------------------------------------------------
(* Fee accumulation. *)

\* fee_accumulation takes a batch of receipts and waits until Hyperbridge knows
\* a destination block as high as the highest receipt; when the stream ends
\* instead, it stores the receipts again and goes on.
AwaitUpdate ==
    /\ fee["auto"].pc = "idle" /\ queue # <<>>
    /\ queue' = Tail(queue)
    /\ \/ /\ attested >= Max({r.at : r \in Head(queue)})
          /\ fee' = [fee EXCEPT !["auto"] =
                       [pc |-> "claim", at |-> attested, claim |-> Head(queue)]]
          /\ UNCHANGED deliveries
       \/ deliveries' = deliveries \cup Head(queue) /\ UNCHANGED fee
    /\ UNCHANGED <<chains, receipt, claimed, cursor, work, rows, recorded, mishaps, crashes>>

\* accumulate-fees compares the highest stored delivery height with the
\* destination height Hyperbridge knows.
CheckHeights ==
    /\ fee["manual"].pc = "idle" /\ deliveries # {}
    /\ Max({r.at : r \in deliveries}) <= attested
    /\ fee' = [fee EXCEPT !["manual"] = [pc |-> "prove", at |-> attested, claim |-> {}]]
    /\ UNCHANGED <<chains, receipt, claimed, cursor, work, queue, rows, deliveries,
                   recorded, mishaps, crashes>>

\* create_claim_proof reads the rows again: the claimed ones are deleted and
\* the others are proved at the height compared before.
CreateClaimProof ==
    LET unclaimed == {r \in deliveries : r.msg \notin claimed} IN
    /\ fee["manual"].pc = "prove"
    /\ deliveries' = unclaimed
    /\ fee' = [fee EXCEPT !["manual"] =
                 IF unclaimed = {} THEN IdleFee
                 ELSE [@ EXCEPT !.pc = "claim", !.claim = unclaimed]]
    /\ UNCHANGED <<chains, receipt, claimed, cursor, work, queue, rows, recorded,
                   mishaps, crashes>>

\* Hyperbridge ignores what is claimed already and accepts the rest only if
\* there is any and every receipt is in the proved block.
Accepts(c) ==
    LET new == {r \in fee[c].claim : r.msg \notin claimed} IN
    new # {} /\ \A r \in new : r.at <= fee[c].at

\* Mutant of Accumulate: a failed claim goes on to the deletion.
AccumulateUnchecked(c) ==
    /\ fee[c].pc = "claim"
    /\ claimed' = IF Accepts(c) THEN claimed \cup Msgs(fee[c].claim) ELSE claimed
    /\ fee' = [fee EXCEPT ![c].pc = "delete"]
    /\ UNCHANGED <<chains, receipt, cursor, work, queue, rows, deliveries, recorded,
                   mishaps, crashes>>

\* accumulate_fees: accepted, accepted but reported as failed, or failed.
Accumulate(c) ==
    /\ fee[c].pc = "claim"
    /\ \/ /\ Accepts(c)
          /\ claimed' = claimed \cup Msgs(fee[c].claim)
          /\ \/ fee' = [fee EXCEPT ![c].pc = "delete"]
             \/ fee' = [fee EXCEPT ![c] = IdleFee]
       \/ fee' = [fee EXCEPT ![c] = IdleFee] /\ UNCHANGED claimed
    /\ UNCHANGED <<chains, receipt, cursor, work, queue, rows, deliveries, recorded,
                   mishaps, crashes>>

\* delete_claimed_entries, by message.
DeleteClaimed(c) ==
    /\ fee[c].pc = "delete"
    /\ deliveries' = {r \in deliveries : r.msg \notin Msgs(fee[c].claim)}
    /\ fee' = [fee EXCEPT ![c] = IdleFee]
    /\ UNCHANGED <<chains, receipt, claimed, cursor, work, queue, rows, recorded,
                   mishaps, crashes>>

-----------------------------------------------------------------------------
\* The process stops, by itself or because an essential task ended, and starts
\* again at Hyperbridge's height, as it does when no latest_height is configured.
\* Of its state only the database is left; the command is another process.
Restart ==
    /\ crashes < MaxCrashes
    /\ crashes' = crashes + 1
    /\ cursor' = height
    /\ work' = [w \in Workers |-> IdleWork]
    /\ queue' = <<>>
    /\ fee' = [fee EXCEPT !["auto"] = IdleFee]
    /\ mishaps' = mishaps
         \cup {m \in Messages : emitted[m] \in cursor + 1 .. height}
         \cup work["messaging"].batch \cup Msgs(work["messaging"].keep)
         \cup IF work["retries"].pc = "restore" THEN Msgs(work["retries"].keep) ELSE {}
    /\ UNCHANGED <<chains, receipt, claimed, rows, deliveries, recorded>>

RelayerStep ==
    \/ HandleUpdate \/ StoreUnprofitable \/ RetryRows \/ DeleteRetried \/ RestoreRows
    \/ \E w \in Workers : Submit(w) \/ Record(w)
    \/ AwaitUpdate \/ CheckHeights \/ CreateClaimProof
    \/ \E c \in Claimers : Accumulate(c) \/ DeleteClaimed(c)

Next ==
    \/ \E m \in Messages : Emit(m) \/ OtherDelivers(m)
    \/ Finalise \/ Tick \/ Attest
    \/ RelayerStep
    \/ Restart

Spec == Init /\ [][Next]_vars

-----------------------------------------------------------------------------
(* Properties. *)

\* The messages the two tasks are working on.
InFlight == UNION {work[w].batch \cup Msgs(work[w].keep) : w \in Workers}

\* A message the messaging task has passed by, that nobody delivered and that
\* has not timed out, is in the retry table or being worked on, unless an error
\* hit it: handle_update leaves no gap between two ranges, and the retry task's
\* delete and store lose no row another task wrote.
NothingForgotten ==
    \A m \in Messages \ mishaps :
       emitted[m] \in 1 .. cursor /\ receipt[m] = "none" /\ ~TimedOut(m)
       => m \in InFlight \cup Msgs(rows)

\* The messaging task and the retry task never submit the same message.
NoDoubleSubmission ==
    (\A w \in Workers : work[w].pc = "submit")
    => work["messaging"].batch \cap work["retries"].batch = {}

\* A batch is proved at a height that contains all of its messages and that the
\* destination has finalised, although the rows of a retried batch were stored
\* at different heights.
BatchProvable ==
    \A w \in Workers : work[w].pc = "submit" =>
       /\ work[w].at <= final
       /\ \A m \in work[w].batch : emitted[m] \in 1 .. work[w].at

\* The fee of a recorded delivery is claimed on Hyperbridge or can still be
\* claimed from the database, whatever the two claimers, errors and restarts do.
FeesKept == recorded \subseteq claimed \cup Msgs(deliveries)
=============================================================================
