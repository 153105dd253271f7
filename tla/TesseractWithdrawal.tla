------------------------ MODULE TesseractWithdrawal ------------------------
(***************************************************************************)
(* How the Tesseract relayer moves the fees it earned from Hyperbridge to  *)
(* one destination chain: the periodic task auto_withdraw and the command  *)
(* line's withdraw, which run the same steps on the same database.         *)
(*                                                                         *)
(* A run of a task first redelivers the withdrawals left in the database,  *)
(* then, if enough fees are unclaimed, asks Hyperbridge to pay them out,   *)
(* persists the POST request Hyperbridge dispatched, delivers it and       *)
(* deletes the row.  Every await is a separate step, so the two tasks, a   *)
(* third party delivering the same request, and a crash interleave.        *)
(*                                                                         *)
(* A withdrawal is named by the nonce Hyperbridge gave it.  The database   *)
(* itself does not fail; the calls to the two chains may.                  *)
(***************************************************************************)
EXTENDS Naturals, FiniteSetsExt

CONSTANTS
    Tasks,          \* the processes that withdraw: auto_withdraw and the CLI
    MinAmount,      \* minimum_withdrawal_amount
    MaxEarned,      \* bound: fees accumulated for this relayer, in all
    MaxStops      \* bound: restarts of the tasks' processes

WithdrawalConstants ==
    /\ MinAmount \in Nat \ {0}
    /\ MaxEarned \in Nat
    /\ MaxStops \in Nat

VARIABLES
    earned,      \* fees accumulated for the relayer so far
    fees,        \* of those, the unclaimed balance on Hyperbridge
    nonce,       \* withdrawals Hyperbridge has dispatched: 1 .. nonce
    executed,    \* withdrawals the destination has paid
    pending,     \* rows of the pending_withdrawal table
    task,        \* what each task is doing
    faults,     \* withdrawals whose dispatch or delivery was reported wrongly
    stops

withdrawalVars == <<earned, fees, nonce, executed, pending, task, faults, stops>>

Withdrawals == 1 .. MaxEarned

Idle == [pc |-> "idle", todo |-> {}, ids |-> {}]

WithdrawalInit ==
    /\ earned = 0 /\ fees = 0 /\ nonce = 0
    /\ executed = {} /\ pending = {} /\ faults = {}
    /\ task = [t \in Tasks |-> Idle]
    /\ stops = 0

-----------------------------------------------------------------------------
(* The environment. *)

\* The fee accumulation task credits a delivery on Hyperbridge.
Earn ==
    /\ earned < MaxEarned
    /\ earned' = earned + 1
    /\ fees' = fees + 1
    /\ UNCHANGED <<nonce, executed, pending, task, faults, stops>>

\* Delivery is permissionless: anyone may deliver a dispatched withdrawal.
ThirdPartyDelivers(w) ==
    /\ w \in (1 .. nonce) \ executed
    /\ executed' = executed \cup {w}
    /\ UNCHANGED <<earned, fees, nonce, pending, task, faults, stops>>

-----------------------------------------------------------------------------
(* deliver_post_request submits the request up to five times.  It reports  *)
(* success when one submission was included without reverting, and the     *)
(* destination reverts a request that it has executed already.             *)

\* An attempt is included and the destination pays.
Paid(w) == w \notin executed /\ executed' = executed \cup {w} /\ UNCHANGED faults

\* An attempt is included but the module's callback fails: nothing is paid, no
\* receipt is written, and the submission still counts as a success.
CallbackFails(w) == w \notin executed /\ faults' = faults \cup {w} /\ UNCHANGED executed

\* All five attempts fail.
AttemptsFail == UNCHANGED <<executed, faults>>

\* An attempt is included after its five minute timer gave up on it; the
\* attempts that follow revert, because the request is executed.
PaidLate(w) == w \notin executed /\ executed' = executed \cup {w} /\ UNCHANGED faults

DeliverOk(w) == Paid(w) \/ CallbackFails(w)

DeliverErr(w) == AttemptsFail \/ PaidLate(w)

-----------------------------------------------------------------------------
(* The steps of a task. *)

\* Mutant of Start: the rows of earlier runs are not read.
StartFresh(t) ==
    /\ task[t].pc = "idle"
    /\ task' = [task EXCEPT ![t] = [pc |-> "redeliver", todo |-> {}, ids |-> {}]]
    /\ UNCHANGED <<earned, fees, nonce, executed, pending, faults, stops>>

\* The task is triggered and reads the rows left by earlier runs.
Start(t) ==
    /\ task[t].pc = "idle"
    /\ task' = [task EXCEPT ![t] = [pc |-> "redeliver", todo |-> pending, ids |-> pending]]
    /\ UNCHANGED <<earned, fees, nonce, executed, pending, faults, stops>>

\* The rows are delivered in order; the first failure ends the run.
Redeliver(t) ==
    /\ task[t].pc = "redeliver" /\ task[t].todo # {}
    /\ LET w == Min(task[t].todo) IN
         \/ DeliverOk(w) /\ task' = [task EXCEPT ![t].todo = @ \ {w}]
         \/ DeliverErr(w) /\ task' = [task EXCEPT ![t] = Idle]
    /\ UNCHANGED <<earned, fees, nonce, pending, stops>>

\* All of them are delivered: their rows go.
DeleteRedelivered(t) ==
    /\ task[t].pc = "redeliver" /\ task[t].todo = {}
    /\ pending' = pending \ task[t].ids
    /\ task' = [task EXCEPT ![t] = [Idle EXCEPT !.pc = "amount"]]
    /\ UNCHANGED <<earned, fees, nonce, executed, faults, stops>>

\* available_amount: the run ends when too little is unclaimed or the query fails.
CheckAmount(t) ==
    /\ task[t].pc = "amount"
    /\ \/ fees >= MinAmount /\ task' = [task EXCEPT ![t].pc = "withdraw"]
       \/ task' = [task EXCEPT ![t] = Idle]
    /\ UNCHANGED <<earned, fees, nonce, executed, pending, faults, stops>>

\* Mutant of WithdrawFunds: the request is delivered before it is stored.
WithdrawFundsUnstored(t) ==
    /\ task[t].pc = "withdraw" /\ fees > 0
    /\ fees' = 0 /\ nonce' = nonce + 1
    /\ task' = [task EXCEPT ![t] = [pc |-> "deliver", todo |-> {}, ids |-> {nonce + 1}]]
    /\ UNCHANGED <<earned, executed, pending, faults, stops>>

\* withdraw_funds: Hyperbridge pays out the whole balance and dispatches a
\* request.  The call may fail before the extrinsic is finalised, and after it,
\* when the header or the events of its block cannot be read.
WithdrawFunds(t) ==
    /\ task[t].pc = "withdraw"
    /\ \/ /\ fees > 0
          /\ fees' = 0 /\ nonce' = nonce + 1
          /\ \/ /\ task' = [task EXCEPT ![t] =
                              [pc |-> "store", todo |-> {}, ids |-> {nonce + 1}]]
                /\ UNCHANGED faults
             \/ /\ task' = [task EXCEPT ![t] = Idle]
                /\ faults' = faults \cup {nonce + 1}
       \/ task' = [task EXCEPT ![t] = Idle] /\ UNCHANGED <<fees, nonce, faults>>
    /\ UNCHANGED <<earned, executed, pending, stops>>

\* store_pending_withdrawals.
StorePending(t) ==
    /\ task[t].pc = "store"
    /\ pending' = pending \cup task[t].ids
    /\ task' = [task EXCEPT ![t].pc = "deliver"]
    /\ UNCHANGED <<earned, fees, nonce, executed, faults, stops>>

\* The new withdrawal is delivered; when that fails its row stays.
Deliver(t) ==
    /\ task[t].pc = "deliver"
    /\ \E w \in task[t].ids :
         \/ DeliverOk(w) /\ task' = [task EXCEPT ![t].pc = "delete"]
         \/ DeliverErr(w) /\ task' = [task EXCEPT ![t] = Idle]
    /\ UNCHANGED <<earned, fees, nonce, pending, stops>>

\* delete_pending_withdrawals of the row just delivered.
DeletePending(t) ==
    /\ task[t].pc = "delete"
    /\ pending' = pending \ task[t].ids
    /\ task' = [task EXCEPT ![t] = Idle]
    /\ UNCHANGED <<earned, fees, nonce, executed, faults, stops>>

\* A task's process stops and starts over, with only the database left.  A
\* withdrawal dispatched and not yet stored is known to nobody.
Crash(t) ==
    /\ stops < MaxStops
    /\ stops' = stops + 1
    /\ faults' = IF task[t].pc = "store" THEN faults \cup task[t].ids ELSE faults
    /\ task' = [task EXCEPT ![t] = Idle]
    /\ UNCHANGED <<earned, fees, nonce, executed, pending>>

TaskStep(t) ==
    \/ Start(t) \/ Redeliver(t) \/ DeleteRedelivered(t) \/ CheckAmount(t)
    \/ WithdrawFunds(t) \/ StorePending(t) \/ Deliver(t) \/ DeletePending(t)

WithdrawalNext ==
    \/ Earn
    \/ \E w \in Withdrawals : ThirdPartyDelivers(w)
    \/ \E t \in Tasks : TaskStep(t) \/ Crash(t)

WithdrawalSpec == WithdrawalInit /\ [][WithdrawalNext]_withdrawalVars

\* The tasks keep being triggered and keep taking steps.
\* The redelivery of a row that can succeed again and again succeeds in the end.
WithdrawalFairness ==
    \A t \in Tasks :
       /\ WF_withdrawalVars(TaskStep(t))
       /\ \A w \in Withdrawals :
            SF_withdrawalVars(/\ Redeliver(t) /\ w \in task[t].todo
                              /\ task'[t].todo = task[t].todo \ {w} /\ task'[t].pc = "redeliver")

WithdrawalFairSpec == WithdrawalSpec /\ WithdrawalFairness

-----------------------------------------------------------------------------
(* Properties. *)

\* Withdrawals dispatched and not yet in the database.
Unstored == UNION {task[t].ids : t \in {u \in Tasks : task[u].pc = "store"}}

\* Fees that left the relayer's balance are paid, or their withdrawal is in the
\* database or about to be, whichever way the tasks, third parties and restarts
\* interleave.  The exceptions are the faults: Hyperbridge dispatched it and the
\* relayer never learned so, and the destination's module refused it.
WithdrawalsAccounted == 1 .. nonce \subseteq executed \cup pending \cup Unstored \cup faults

\* A stored withdrawal is in the end delivered, unless the table comes to hold
\* for good a row whose request is executed already: its redelivery reverts in
\* every run, and a run ends at the first row that fails.
OnlyExecutedRowsBlock ==
    \A w \in Withdrawals :
       \/ w \in pending ~> w \in executed \cup faults
       \/ <>[](pending \cap executed # {})
=============================================================================
