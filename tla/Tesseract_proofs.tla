-------------------------- MODULE Tesseract_proofs --------------------------
(***************************************************************************)
(* Proofs about the Tesseract relayer, for any messages and deadlines, any *)
(* heights and times, any number of restarts, failed calls and deliveries  *)
(* by others, and any number of tasks that withdraw.                       *)
(*                                                                         *)
(* Relaying rests on RelayInv: a message the cursor has passed is settled, *)
(* in the table, or in the hands of a task; what a task is submitting is   *)
(* provable at its height; and what the messaging task holds the retry     *)
(* task has not seen.  Fees rest on DeletesClaimed: a row is deleted only  *)
(* after Hyperbridge accepted its claim.  Withdrawals rest on TaskOK: a    *)
(* row is deleted only after its withdrawal was delivered.                 *)
(***************************************************************************)
EXTENDS TesseractMessaging, TesseractWithdrawal, NumberFacts

----------------------------------------------------------------------------
(* Relaying. *)

Row == [msg : Messages, at : Nat]

WorkType == [pc : {"idle", "submit", "record", "store", "restore"}, at : Nat,
             batch : SUBSET Messages, keep : SUBSET Row, ids : SUBSET Row, got : SUBSET Row]

RelayTypes ==
    /\ MessagingConstants
    /\ emitted \in [Messages -> Nat] /\ receipt \in [Messages -> {"none", "us", "other"}]
    /\ height \in Nat /\ final \in Nat /\ cursor \in Nat /\ now \in Nat
    /\ cursor <= height /\ final <= height /\ \A m \in Messages : emitted[m] <= height
    /\ rows \subseteq Row
    /\ work \in [Workers -> WorkType]

\* A row of a message the cursor has passed, provable at the height it holds.
RowOK(r) == emitted[r.msg] \in 1 .. r.at /\ r.at <= final /\ emitted[r.msg] <= cursor

PlacedBatch(w) ==
    /\ \A m \in work[w].batch : emitted[m] \in 1 .. cursor
    /\ work[w].pc = "submit" =>
         work[w].at <= final /\ \A m \in work[w].batch : emitted[m] \in 1 .. work[w].at

PlaceInv ==
    /\ \A r \in rows : RowOK(r)
    /\ \A w \in Workers : PlacedBatch(w) /\ \A r \in work[w].keep : RowOK(r)

\* What the messaging task is submitting the retry task has not seen.
ApartInv ==
    \A m \in work["messaging"].batch :
       m \notin work["retries"].batch /\ m \notin Msgs(work["retries"].keep) /\ m \notin Msgs(rows)

Settled(m) == m \in mishaps \/ receipt[m] # "none"

\* After the submission the whole batch is delivered or was hit by an error; what
\* the retry task read stays in the table until it has been estimated and submitted.
WorkOK(w) ==
    /\ work[w].pc = "idle" => work[w].batch = {} /\ work[w].keep = {}
    /\ work[w].pc \in {"record", "store", "restore"} => \A m \in work[w].batch : Settled(m)

RetryOK ==
    work["retries"].pc \in {"submit", "record", "store"} =>
       /\ work["retries"].keep \subseteq work["retries"].ids
       /\ work["retries"].ids \subseteq rows
       /\ work["retries"].batch \subseteq Msgs(work["retries"].ids)
       /\ \A m \in Msgs(work["retries"].ids) :
            Settled(m) \/ m \in work["retries"].batch \/ m \in Msgs(work["retries"].keep)

RelayInv ==
    /\ RelayTypes /\ PlaceInv /\ ApartInv
    /\ \A w \in Workers : WorkOK(w)
    /\ RetryOK /\ NothingForgotten

----------------------------------------------------------------------------
\* The messages two tasks hold.
LEMMA InFlightIs ==
    ASSUME NEW m
    PROVE  /\ m \in InFlight <=> \E w \in Workers : m \in work[w].batch \/ m \in Msgs(work[w].keep)
           /\ m \in InFlight' <=> \E w \in Workers : m \in work'[w].batch \/ m \in Msgs(work'[w].keep)
BY DEF InFlight

\* The messages of a set of rows.
LEMMA MsgsIs ==
    ASSUME NEW S
    PROVE  \A m : m \in Msgs(S) <=> \E r \in S : r.msg = m
BY DEF Msgs

\* The rows made of a set of messages and one height.
LEMMA RowsOf ==
    ASSUME NEW S \in SUBSET Messages, NEW h \in Nat
    PROVE  /\ {[msg |-> m, at |-> h] : m \in S} \in SUBSET Row
           /\ \A m : m \in Msgs({[msg |-> n, at |-> h] : n \in S}) <=> m \in S
           /\ \A r \in {[msg |-> m, at |-> h] : m \in S} : r.msg \in S /\ r.at = h
<1> DEFINE R == {[msg |-> m, at |-> h] : m \in S}
<1>1. \A r \in R : r.msg \in S /\ r.at = h /\ r \in Row
  BY DEF Row
<1>2. \A m \in S : [msg |-> m, at |-> h] \in R /\ [msg |-> m, at |-> h].msg = m
  OBVIOUS
<1> HIDE DEF R
<1>3. \A m : m \in Msgs(R) <=> \E r \in R : r.msg = m
  BY DEF Msgs
<1>4. \A m : m \in Msgs(R) <=> m \in S
  BY Zenon, <1>1, <1>2, <1>3
<1>5. R \in SUBSET Row
  BY <1>1
<1> QED BY <1>1, <1>4, <1>5 DEF R

\* The calls of a batch carry all of it.
LEMMA AllCalls ==
    ASSUME NEW S \in SUBSET Messages
    PROVE  FirstCalls(S, Len(Calls(S))) = S
<1> DEFINE A == S \cap Requests
           B == S \cap Responses
<1>0. S = A \cup B
  BY DEF Messages
<1>1. CASE A = {} /\ B = {}
  <2>1. Len(Calls(S)) = 0
    BY <1>1 DEF Calls
  <2> QED BY <1>0, <1>1, <2>1 DEF FirstCalls
<1>2. CASE A # {} /\ B = {}
  <2>1. Calls(S) = <<A>>
    BY <1>2 DEF Calls
  <2>2. Len(Calls(S)) = 1 /\ Calls(S)[1] = A
    BY <2>1
  <2> QED BY <1>0, <1>2, <2>2 DEF FirstCalls
<1>3. CASE A = {} /\ B # {}
  <2>1. Calls(S) = <<B>>
    BY <1>3 DEF Calls
  <2>2. Len(Calls(S)) = 1 /\ Calls(S)[1] = B
    BY <2>1
  <2> QED BY <1>0, <1>3, <2>2 DEF FirstCalls
<1>4. CASE A # {} /\ B # {}
  <2>1. Calls(S) = <<A>> \o <<B>>
    BY <1>4 DEF Calls
  <2> HIDE DEF A, B
  <2>2. Len(Calls(S)) = 2 /\ Calls(S)[1] = A /\ Calls(S)[2] = B
    BY <2>1
  <2>3. 1 .. 2 = {1, 2}
    OBVIOUS
  <2> QED BY <1>0, <2>2, <2>3 DEF FirstCalls
<1> QED BY <1>1, <1>2, <1>3, <1>4

\* A deadline that has passed stays passed.
LEMMA TimedOutStays ==
    ASSUME RelayTypes, now' \in Nat, now <= now', NEW m \in Messages, TimedOut(m)
    PROVE  TimedOut(m)'
<1>1. Deadline[m] \in Nat /\ Deadline[m] <= now
  BY DEF RelayTypes, MessagingConstants, TimedOut
<1> QED BY <1>1 DEF TimedOut, RelayTypes

\* The chains move on: nothing of what the relayer knows becomes wrong.
LEMMA ChainStep ==
    ASSUME RelayInv, UNCHANGED <<work, rows, cursor>>, RelayTypes',
           final <= final', now <= now',
           \A m \in Messages : emitted'[m] = emitted[m] \/ (emitted[m] = 0 /\ emitted'[m] > cursor),
           \A m \in Messages : Settled(m) => Settled(m)'
    PROVE  RelayInv'
<1>0. RelayTypes
  BY DEF RelayInv
<1>1. ASSUME NEW r \in Row, RowOK(r)
      PROVE  RowOK(r)'
  <2>1. r.msg \in Messages /\ r.at \in Nat
    BY DEF Row
  <2>2. emitted[r.msg] \in 1 .. r.at /\ r.at <= final /\ emitted[r.msg] <= cursor
    BY <1>1 DEF RowOK
  <2>3. emitted'[r.msg] = emitted[r.msg]
    BY <2>1, <2>2
  <2>4. r.at <= final'
    BY <1>0, <2>1, <2>2 DEF RelayTypes
  <2> QED BY <2>1, <2>2, <2>3, <2>4 DEF RowOK
<1>2. ASSUME NEW w \in Workers
      PROVE  PlacedBatch(w)' /\ \A r \in work'[w].keep : RowOK(r)'
  <2>1. work[w].keep \in SUBSET Row /\ work[w].batch \in SUBSET Messages /\ work[w].at \in Nat
    BY <1>0 DEF RelayTypes, WorkType
  <2>2. PlacedBatch(w) /\ \A r \in work[w].keep : RowOK(r)
    BY DEF RelayInv, PlaceInv
  <2>3. \A m \in work[w].batch : emitted'[m] = emitted[m]
    BY <2>1, <2>2 DEF PlacedBatch
  <2>4. work[w].at <= final => work[w].at <= final'
    BY <1>0, <2>1 DEF RelayTypes
  <2>5. PlacedBatch(w)'
    BY <2>2, <2>3, <2>4 DEF PlacedBatch
  <2> QED BY <1>1, <2>1, <2>2, <2>5
<1>3. PlaceInv'
  <2>1. \A r \in rows' : RowOK(r)'
    BY <1>0, <1>1 DEF RelayInv, PlaceInv, RelayTypes
  <2> QED BY <1>2, <2>1 DEF PlaceInv
<1>4. ApartInv'
  BY DEF RelayInv, ApartInv
<1>5. ASSUME NEW w \in Workers PROVE WorkOK(w)'
  <2>1. work[w].batch \in SUBSET Messages
    BY DEF RelayInv, RelayTypes, WorkType
  <2> QED BY <2>1 DEF RelayInv, WorkOK
<1>6. RetryOK'
  <2>1. Msgs(work["retries"].ids) \subseteq Messages
    BY DEF Msgs, Row, RelayInv, RelayTypes, WorkType, Workers
  <2> QED BY <2>1 DEF RelayInv, RetryOK
<1>7. NothingForgotten'
  <2> SUFFICES ASSUME NEW m \in Messages, m \notin mishaps', emitted'[m] \in 1 .. cursor,
                      receipt'[m] = "none", ~TimedOut(m)'
               PROVE  m \in InFlight' \cup Msgs(rows')
    BY DEF NothingForgotten
  <2>1. ~TimedOut(m)
    BY TimedOutStays DEF RelayInv, RelayTypes
  <2>2. emitted[m] \in 1 .. cursor
    BY DEF RelayInv, RelayTypes
  <2>3. m \in InFlight \cup Msgs(rows)
    BY <2>1, <2>2 DEF RelayInv, NothingForgotten, Settled
  <2> QED BY <2>3 DEF InFlight
<1> QED BY <1>3, <1>4, <1>5, <1>6, <1>7 DEF RelayInv

\* The fields the invariant relates, when the chains do not move.
LEMMA SamePlaces ==
    ASSUME UNCHANGED <<emitted, final>>, cursor \in Nat, cursor' \in Nat, cursor <= cursor',
           emitted \in [Messages -> Nat], NEW r \in Row, RowOK(r)
    PROVE  RowOK(r)'
<1>1. emitted[r.msg] \in 1 .. r.at /\ r.at <= final /\ emitted[r.msg] <= cursor
  BY DEF RowOK
<1>2. emitted[r.msg] \in Nat
  BY DEF Row
<1> QED BY <1>1, <1>2 DEF RowOK

\* A task goes on from its submission, with its batch settled.
LEMMA AdvanceStep ==
    ASSUME RelayInv, NEW w \in Workers, work[w].pc \in {"submit", "record"},
           NEW p \in {"record", "store"}, NEW g \in SUBSET Row,
           work' = [work EXCEPT ![w].pc = p, ![w].got = g],
           UNCHANGED <<emitted, height, final, now, rows, cursor>>,
           receipt' \in [Messages -> {"none", "us", "other"}],
           \A m \in Messages : Settled(m) => Settled(m)',
           \A m \in work[w].batch : Settled(m)'
    PROVE  RelayInv'
<1>0. work \in [Workers -> WorkType]
  BY DEF RelayInv, RelayTypes
<1>1. RelayTypes'
  <2>1. work' = [work EXCEPT ![w] = [work[w] EXCEPT !.pc = p, !.got = g]]
    OBVIOUS
  <2>2. [work[w] EXCEPT !.pc = p, !.got = g] \in WorkType
    BY <1>0 DEF WorkType
  <2>3. work' \in [Workers -> WorkType]
    BY <1>0, <2>1, <2>2
  <2> QED BY <2>3 DEF RelayInv, RelayTypes
<1>2. \A u \in Workers : /\ work'[u].batch = work[u].batch /\ work'[u].keep = work[u].keep
                         /\ work'[u].ids = work[u].ids /\ work'[u].at = work[u].at
                         /\ work'[u].pc = IF u = w THEN p ELSE work[u].pc
  BY <1>0 DEF WorkType
<1>3. PlaceInv'
  <2>1. \A r : RowOK(r)' <=> RowOK(r)
    BY DEF RowOK
  <2>2. ASSUME NEW u \in Workers PROVE PlacedBatch(u)'
    <3>1. PlacedBatch(u)
      BY DEF RelayInv, PlaceInv
    <3> QED BY <1>2, <3>1 DEF PlacedBatch
  <2> QED BY <1>2, <2>1, <2>2 DEF RelayInv, PlaceInv
<1>4. ApartInv'
  BY <1>2 DEF RelayInv, ApartInv, Workers
<1>5. ASSUME NEW u \in Workers PROVE WorkOK(u)'
  <2>1. work[u].batch \in SUBSET Messages
    BY <1>0 DEF WorkType
  <2>2. WorkOK(u)
    BY DEF RelayInv
  <2>3. CASE u = w
    BY <1>2, <2>3 DEF WorkOK
  <2>4. CASE u # w
    BY <1>2, <2>1, <2>2, <2>4 DEF WorkOK
  <2> QED BY <2>3, <2>4
<1>6. RetryOK'
  <2>1. Msgs(work["retries"].ids) \subseteq Messages
    BY DEF Msgs, Row, RelayInv, RelayTypes, WorkType, Workers
  <2> QED BY <1>2, <2>1 DEF RelayInv, RetryOK, Workers
<1>7. NothingForgotten'
  <2> SUFFICES ASSUME NEW m \in Messages, m \notin mishaps', emitted[m] \in 1 .. cursor,
                      receipt'[m] = "none", ~TimedOut(m)
               PROVE  m \in InFlight' \cup Msgs(rows)
    BY DEF NothingForgotten, TimedOut
  <2>1. m \in InFlight \cup Msgs(rows)
    BY DEF RelayInv, NothingForgotten, Settled
  <2> QED BY <1>2, <2>1, InFlightIs
<1> QED BY <1>1, <1>3, <1>4, <1>5, <1>6, <1>7 DEF RelayInv

\* Whatever becomes of a submission, the batch is delivered or an error hit it.
LEMMA SubmitStep ==
    ASSUME RelayInv, NEW w \in Workers, Submit(w)
    PROVE  RelayInv'
<1>1. /\ UNCHANGED <<emitted, height, final, now, rows, cursor>> /\ work[w].pc = "submit"
      /\ work[w].batch \in SUBSET Messages /\ work[w].got \in SUBSET Row /\ now \in Nat
      /\ receipt \in [Messages -> {"none", "us", "other"}]
      /\ work \in [Workers -> WorkType]
  BY DEF Submit, chains, RelayInv, RelayTypes, WorkType
<1>2. CASE work[w].batch = {}
  <2>1. work' = [work EXCEPT ![w].pc = "store"] /\ UNCHANGED <<receipt, mishaps>>
    BY <1>2 DEF Submit
  <2>2. work' = [work EXCEPT ![w].pc = "store", ![w].got = work[w].got]
    BY <1>1, <2>1 DEF WorkType
  <2> QED BY <1>1, <1>2, <2>1, <2>2, AdvanceStep DEF Settled
<1>3. CASE Submitted(w)
  <2>1. PICK bad \in SUBSET work[w].batch :
           /\ Executes(w, Len(Calls(work[w].batch)), bad)
           /\ work' = [work EXCEPT ![w].pc = "record",
                               ![w].got = {[msg |-> m, at |-> now] : m \in work[w].batch \ bad}]
           /\ mishaps' = mishaps \cup bad
    BY <1>3 DEF Submitted
  <2>2. receipt' = [m \in Messages |-> IF m \in work[w].batch \ bad THEN "us" ELSE receipt[m]]
    BY <1>1, <2>1, AllCalls DEF Executes
  <2>3. {[msg |-> m, at |-> now] : m \in work[w].batch \ bad} \in SUBSET Row
    BY <1>1 DEF Row
  <2>4. receipt' \in [Messages -> {"none", "us", "other"}]
    BY <1>1, <2>2
  <2>5. \A m \in Messages : Settled(m) => Settled(m)'
    BY <2>1, <2>2 DEF Settled
  <2>6. \A m \in work[w].batch : Settled(m)'
    BY <1>1, <2>1, <2>2 DEF Settled
  <2> QED BY <1>1, <2>1, <2>3, <2>4, <2>5, <2>6, AdvanceStep
<1>4. CASE SubmitFailed(w)
  <2>1. PICK n \in 0 .. Len(Calls(work[w].batch)) :
           /\ Executes(w, n, {})
           /\ work' = [work EXCEPT ![w].pc = "store"]
           /\ mishaps' = mishaps \cup work[w].batch
    BY <1>4 DEF SubmitFailed
  <2>2. receipt' = [m \in Messages |-> IF m \in FirstCalls(work[w].batch, n) \ {} THEN "us" ELSE receipt[m]]
    BY <2>1 DEF Executes
  <2>3. work' = [work EXCEPT ![w].pc = "store", ![w].got = work[w].got]
    BY <1>1, <2>1 DEF WorkType
  <2>4. receipt' \in [Messages -> {"none", "us", "other"}]
    BY <1>1, <2>2
  <2>5. \A m \in Messages : Settled(m) => Settled(m)'
    BY <2>1, <2>2 DEF Settled
  <2>6. \A m \in work[w].batch : Settled(m)'
    BY <2>1 DEF Settled
  <2> QED BY <1>1, <2>3, <2>4, <2>5, <2>6, AdvanceStep
<1> QED BY <1>2, <1>3, <1>4 DEF Submit

\* The receipts are recorded and the task goes on.
LEMMA RecordStep ==
    ASSUME RelayInv, NEW w \in Workers, Record(w)
    PROVE  RelayInv'
<1>1. /\ UNCHANGED <<emitted, height, final, now, rows, cursor, receipt, mishaps>>
      /\ work[w].pc = "record"
      /\ work' = [work EXCEPT ![w].pc = "store", ![w].got = {}]
  BY DEF Record, chains
<1>2. receipt' \in [Messages -> {"none", "us", "other"}]
  BY <1>1 DEF RelayInv, RelayTypes
<1>3. \A m : Settled(m)' <=> Settled(m)
  BY <1>1 DEF Settled
<1>4. \A m \in work[w].batch : Settled(m)'
  BY <1>1, <1>3 DEF RelayInv, WorkOK
<1>5. {} \in SUBSET Row
  OBVIOUS
<1> QED BY <1>1, <1>2, <1>3, <1>4, <1>5, AdvanceStep

----------------------------------------------------------------------------
\* handle_update passes the cursor over the new events and holds or reports all of them.
LEMMA HandleUpdateStep ==
    ASSUME RelayInv, HandleUpdate
    PROVE  RelayInv'
<1> DEFINE events == {m \in Messages : emitted[m] \in cursor + 1 .. final}
           open == Undelivered(NotTimedOut(events))
           kept(b) == {[msg |-> m, at |-> final] : m \in open \ b}
           next(b) == [IdleWork EXCEPT !.pc = "submit", !.at = final, !.batch = b, !.keep = kept(b)]
<1>1. /\ UNCHANGED <<emitted, height, final, now, rows, receipt>>
      /\ work["messaging"].pc = "idle" /\ cursor < final /\ cursor' = final
      /\ emitted \in [Messages -> Nat] /\ cursor \in Nat /\ final \in Nat /\ final <= height
  BY DEF HandleUpdate, chains, RelayInv, RelayTypes
<1>2. work["messaging"].batch = {} /\ work["messaging"].keep = {}
  BY <1>1 DEF RelayInv, WorkOK, Workers
<1>3. \A m \in open : m \in Messages /\ emitted[m] \in cursor + 1 .. final
  BY DEF Undelivered, NotTimedOut
<1>4. \A r \in Row : RowOK(r) => RowOK(r)'
  BY <1>1, SamePlaces
<1>5. /\ \A r \in rows' : RowOK(r)'
      /\ \A r \in work["retries"].keep : RowOK(r)'
  BY <1>1, <1>4 DEF RelayInv, PlaceInv, RelayTypes, WorkType, Workers
<1>6. ASSUME NEW m \in Messages, m \notin mishaps, emitted[m] \in 1 .. final,
             receipt[m] = "none", ~TimedOut(m)
      PROVE  m \in open \/ m \in work["retries"].batch \/ m \in Msgs(work["retries"].keep)
             \/ m \in Msgs(rows)
  <2>1. CASE emitted[m] \in 1 .. cursor
    <3>1. m \in InFlight \cup Msgs(rows)
      BY <1>6, <2>1 DEF RelayInv, NothingForgotten
    <3> QED BY <1>2, <3>1, InFlightIs DEF Workers, Msgs
  <2>2. CASE emitted[m] \notin 1 .. cursor
    <3>1. emitted[m] \in cursor + 1 .. final
      BY <1>1, <1>6, <2>2
    <3> QED BY <1>6, <3>1 DEF Undelivered, NotTimedOut
  <2> QED BY <2>1, <2>2
<1>7. \A m \in work["retries"].batch : emitted[m] \in 1 .. final
  <2>1. work["retries"].batch \in SUBSET Messages
    BY DEF RelayInv, RelayTypes, WorkType, Workers
  <2> QED BY <1>1, <2>1 DEF RelayInv, PlaceInv, PlacedBatch, Workers
<1>8. CASE events # {} /\ mishaps' = mishaps \cup events /\ UNCHANGED work
  <2>1. RelayTypes'
    BY <1>1, <1>8 DEF RelayInv, RelayTypes
  <2>2. PlaceInv'
    BY <1>1, <1>2, <1>5, <1>7, <1>8 DEF RelayInv, PlaceInv, PlacedBatch, Workers
  <2>3. ApartInv'
    BY <1>1, <1>8 DEF RelayInv, ApartInv
  <2>4. \A m : Settled(m) => Settled(m)'
    BY <1>1, <1>8 DEF Settled
  <2>5. \A w \in Workers : WorkOK(w)'
    BY <1>8, <2>4 DEF RelayInv, WorkOK
  <2>6. RetryOK'
    BY <1>1, <1>8, <2>4 DEF RelayInv, RetryOK
  <2>7. NothingForgotten'
    <3> SUFFICES ASSUME NEW m \in Messages, m \notin mishaps', emitted[m] \in 1 .. final,
                        receipt[m] = "none", ~TimedOut(m)
                 PROVE  m \in InFlight' \cup Msgs(rows)
      BY <1>1 DEF NothingForgotten, TimedOut
    <3>1. m \notin open
      BY <1>8 DEF Undelivered, NotTimedOut
    <3> QED BY <1>6, <1>8, <3>1, InFlightIs DEF Workers
  <2> QED BY <2>1, <2>2, <2>3, <2>5, <2>6, <2>7 DEF RelayInv
<1>9. ASSUME NEW b \in SUBSET open, UNCHANGED mishaps,
             work' = [work EXCEPT !["messaging"] = next(b)]
      PROVE  RelayInv'
  <2>0. kept(b) \subseteq Row /\ \A m : m \in Msgs(kept(b)) <=> m \in open \ b
    <3> DEFINE o == open \ b
    <3>1. o \in SUBSET Messages
      BY <1>3
    <3>2. final \in Nat
      BY Zenon, <1>1
    <3> HIDE DEF o, open
    <3>3. /\ {[msg |-> m, at |-> final] : m \in o} \in SUBSET Row
          /\ \A m : m \in Msgs({[msg |-> n, at |-> final] : n \in o}) <=> m \in o
      BY <3>1, <3>2, RowsOf
    <3> QED BY Zenon, <3>3 DEF o
  <2>2. \A m : m \in Msgs(kept(b)) <=> m \in open \ b
    BY <2>0
  <2>1. /\ work' \in [Workers -> WorkType] /\ work'["retries"] = work["retries"]
        /\ work'["messaging"].pc = "submit" /\ work'["messaging"].at = final
        /\ work'["messaging"].batch = b /\ work'["messaging"].keep = kept(b)
    <3>1. b \in SUBSET Messages
      BY <1>3
    <3>3. /\ next(b) \in WorkType /\ next(b).pc = "submit" /\ next(b).at = final
          /\ next(b).batch = b /\ next(b).keep = kept(b)
      <4> HIDE DEF kept, open
      <4>1. final \in Nat
        BY Zenon, <1>1
      <4>2. next(b) = [IdleWork EXCEPT !.pc = "submit", !.at = final, !.batch = b, !.keep = kept(b)]
        OBVIOUS
      <4>3. b \in SUBSET Messages /\ kept(b) \in SUBSET Row
        BY Zenon, <2>0, <3>1
      <4> HIDE DEF next
      <4> QED BY <4>1, <4>2, <4>3 DEF IdleWork, WorkType
    <3>4. work \in [Workers -> WorkType] /\ "messaging" \in Workers /\ "retries" \in Workers
      BY DEF RelayInv, RelayTypes, Workers
    <3> HIDE DEF next
    <3> QED BY <1>9, <3>3, <3>4
  <2>3. RelayTypes'
    BY <1>1, <2>1 DEF RelayInv, RelayTypes
  <2>31. \A m \in open : emitted[m] \in 1 .. final /\ emitted[m] <= final
    BY <1>1, <1>3
  <2>4. \A r \in kept(b) : RowOK(r)'
    <3> HIDE DEF open
    <3> QED BY <1>1, <2>31 DEF RowOK
  <2>41. PlacedBatch("messaging")'
    <3> HIDE DEF open, kept
    <3> QED BY <1>1, <2>1, <2>31 DEF PlacedBatch
  <2>5. PlacedBatch("retries")'
    BY <1>1, <1>7, <2>1 DEF RelayInv, PlaceInv, PlacedBatch, Workers
  <2>6. PlaceInv'
    <3> HIDE DEF kept, open
    <3> QED BY <1>1, <1>5, <2>1, <2>4, <2>41, <2>5 DEF PlaceInv, Workers
  <2>7. ApartInv'
    <3>1. \A m \in Msgs(rows) \cup Msgs(work["retries"].keep) \cup work["retries"].batch :
             emitted[m] <= cursor
      BY DEF RelayInv, PlaceInv, RowOK, PlacedBatch, Msgs, Workers
    <3>2. \A m \in b : ~(emitted[m] <= cursor)
      <4> HIDE DEF open
      <4> QED BY <1>1, <1>3
    <3> QED BY <1>1, <2>1, <3>1, <3>2 DEF ApartInv
  <2>8. \A m : Settled(m)' <=> Settled(m)
    BY <1>1, <1>9 DEF Settled
  <2>9. \A w \in Workers : WorkOK(w)'
    BY <2>1, <2>8 DEF RelayInv, WorkOK, Workers
  <2>10. RetryOK'
    BY <1>1, <2>1, <2>8 DEF RelayInv, RetryOK
  <2>11. NothingForgotten'
    <3> SUFFICES ASSUME NEW m \in Messages, m \notin mishaps, emitted[m] \in 1 .. final,
                        receipt[m] = "none", ~TimedOut(m)
                 PROVE  m \in InFlight' \cup Msgs(rows)
      BY <1>1, <1>9 DEF NothingForgotten, TimedOut
    <3> HIDE DEF open, kept
    <3> QED BY <1>6, <2>1, <2>2, InFlightIs DEF Workers
  <2> QED BY <2>3, <2>6, <2>7, <2>9, <2>10, <2>11 DEF RelayInv
<1>10. CASE \E b \in Worthwhile(open) :
              /\ work' = [work EXCEPT !["messaging"] =
                   [IdleWork EXCEPT !.pc = "submit", !.at = final, !.batch = b,
                      !.keep = {[msg |-> m, at |-> final] : m \in open \ b}]]
              /\ UNCHANGED mishaps
  <2>1. PICK b \in Worthwhile(open) :
              /\ work' = [work EXCEPT !["messaging"] =
                   [IdleWork EXCEPT !.pc = "submit", !.at = final, !.batch = b,
                      !.keep = {[msg |-> m, at |-> final] : m \in open \ b}]]
              /\ UNCHANGED mishaps
    BY <1>10
  <2>2. b \in SUBSET open
    BY DEF Worthwhile
  <2> QED BY <1>9, <2>1, <2>2
<1> QED BY <1>8, <1>10 DEF HandleUpdate

\* The unprofitable messages move from the messaging task to the table.
LEMMA StoreStep ==
    ASSUME RelayInv, StoreUnprofitable
    PROVE  RelayInv'
<1>1. /\ UNCHANGED <<emitted, height, final, now, cursor, receipt, mishaps>>
      /\ work["messaging"].pc = "store" /\ rows' = rows \cup work["messaging"].keep
      /\ work' = [work EXCEPT !["messaging"] = IdleWork]
  BY DEF StoreUnprofitable, chains
<1>2. RelayTypes /\ work \in [Workers -> WorkType] /\ "messaging" \in Workers /\ "retries" \in Workers
  BY DEF RelayInv, RelayTypes, Workers
<1>3. IdleWork \in WorkType /\ IdleWork.pc = "idle" /\ IdleWork.batch = {} /\ IdleWork.keep = {}
  BY DEF IdleWork, WorkType
<1>4. /\ work' \in [Workers -> WorkType] /\ work'["retries"] = work["retries"]
      /\ work'["messaging"] = IdleWork
  BY <1>1, <1>2, <1>3
<1>5. work["messaging"].keep \subseteq Row
  BY <1>2 DEF WorkType
<1>6. RelayTypes'
  BY <1>1, <1>2, <1>4, <1>5 DEF RelayTypes
<1>7. PlaceInv'
  <2>1. \A r : RowOK(r)' <=> RowOK(r)
    BY <1>1 DEF RowOK
  <2>2. PlacedBatch("retries")'
    BY <1>1, <1>2, <1>4 DEF RelayInv, PlaceInv, PlacedBatch
  <2>3. PlacedBatch("messaging")'
    BY <1>3, <1>4 DEF PlacedBatch
  <2> QED BY <1>1, <1>2, <1>3, <1>4, <2>1, <2>2, <2>3 DEF RelayInv, PlaceInv, Workers
<1>8. ApartInv'
  BY <1>3, <1>4 DEF ApartInv
<1>9. \A m : Settled(m)' <=> Settled(m)
  BY <1>1 DEF Settled
<1>10. ASSUME NEW w \in Workers PROVE WorkOK(w)'
  <2>1. WorkOK("retries")'
    BY <1>2, <1>4, <1>9 DEF RelayInv, WorkOK
  <2>2. WorkOK("messaging")'
    BY <1>3, <1>4 DEF WorkOK
  <2> QED BY <2>1, <2>2 DEF Workers
<1>11. RetryOK'
  BY <1>1, <1>4, <1>9 DEF RelayInv, RetryOK
<1>12. NothingForgotten'
  <2> SUFFICES ASSUME NEW m \in Messages, m \notin mishaps, emitted[m] \in 1 .. cursor,
                      receipt[m] = "none", ~TimedOut(m)
               PROVE  m \in InFlight' \cup Msgs(rows')
    BY <1>1 DEF NothingForgotten, TimedOut
  <2>1. m \in InFlight \cup Msgs(rows)
    BY DEF RelayInv, NothingForgotten
  <2>2. m \notin work["messaging"].batch
    BY <1>1, <1>2 DEF RelayInv, WorkOK, Settled
  <2>3. Msgs(rows') = Msgs(rows) \cup Msgs(work["messaging"].keep)
    BY <1>1 DEF Msgs
  <2> QED BY <1>4, <2>1, <2>2, <2>3, InFlightIs DEF Workers
<1> QED BY <1>6, <1>7, <1>8, <1>10, <1>11, <1>12 DEF RelayInv

----------------------------------------------------------------------------
\* The rows have a highest height, at which all of their messages can be proved.
LEMMA HighestRow ==
    ASSUME RelayInv, rows # {}
    PROVE  /\ Max({r.at : r \in rows}) \in Nat /\ Max({r.at : r \in rows}) <= final
           /\ \A m \in Msgs(rows) : emitted[m] \in 1 .. Max({r.at : r \in rows})
<1> DEFINE S == {r.at : r \in rows}
<1>1. rows \subseteq Row /\ final \in Nat /\ emitted \in [Messages -> Nat]
  BY DEF RelayInv, RelayTypes
<1>2. \A r \in rows : r.at \in Nat /\ r.msg \in Messages
  BY <1>1 DEF Row
<1>3. \A r \in rows : RowOK(r)
  BY DEF RelayInv, PlaceInv
<1>4. S \in SUBSET Nat /\ S # {}
  BY <1>2
<1>5. \A x \in S : x <= final
  BY <1>3 DEF RowOK
<1>6. \A r \in rows : r.at \in S
  OBVIOUS
<1> HIDE DEF S
<1>7. Max(S) \in S /\ \A y \in S : y <= Max(S)
  BY <1>1, <1>4, <1>5, MaxNat
<1>8. ASSUME NEW r \in rows PROVE emitted[r.msg] \in 1 .. Max(S)
  <2>1. r.at <= Max(S) /\ r.at \in Nat /\ Max(S) \in Nat
    BY <1>2, <1>4, <1>6, <1>7
  <2>2. emitted[r.msg] \in 1 .. r.at
    BY <1>3 DEF RowOK
  <2> QED BY <2>1, <2>2
<1>9. \A m \in Msgs(rows) : emitted[m] \in 1 .. Max(S)
  BY <1>8 DEF Msgs
<1> QED BY <1>4, <1>5, <1>7, <1>9 DEF S

\* The retry task takes the profitable rows as a batch at the highest height.
LEMMA RetryStep ==
    ASSUME RelayInv, RetryRows
    PROVE  RelayInv'
<1> DEFINE top == Max({r.at : r \in rows})
<1>1. /\ UNCHANGED <<emitted, height, final, now, cursor, receipt, rows>>
      /\ work["retries"].pc = "idle" /\ rows # {}
  BY DEF RetryRows, chains
<1>2. PICK lost \in SUBSET Kinds, unproven \in SUBSET Kinds :
         \E profitable \in Worthwhile(Undelivered(Msgs(rows) \ UNION lost)) :
            /\ work' = [work EXCEPT !["retries"] =
                 [IdleWork EXCEPT !.pc = "submit", !.at = Max({r.at : r \in rows}),
                    !.batch = profitable \ UNION unproven, !.ids = rows,
                    !.keep = {r \in rows : r.msg \in Undelivered(Msgs(rows) \ UNION lost) \ profitable}]]
            /\ mishaps' = mishaps \cup (Msgs(rows) \cap UNION lost)
                                  \cup (profitable \cap UNION unproven)
  BY DEF RetryRows
<1> DEFINE open == Undelivered(Msgs(rows) \ UNION lost)
<1>3. PICK profitable \in Worthwhile(open) :
            /\ work' = [work EXCEPT !["retries"] =
                 [IdleWork EXCEPT !.pc = "submit", !.at = top,
                    !.batch = profitable \ UNION unproven, !.ids = rows,
                    !.keep = {r \in rows : r.msg \in open \ profitable}]]
            /\ mishaps' = mishaps \cup (Msgs(rows) \cap UNION lost)
                                  \cup (profitable \cap UNION unproven)
  BY <1>2
<1> DEFINE b == profitable \ UNION unproven
           k == {r \in rows : r.msg \in open \ profitable}
           next == [IdleWork EXCEPT !.pc = "submit", !.at = top, !.batch = b, !.ids = rows, !.keep = k]
<1>4. RelayTypes /\ work \in [Workers -> WorkType] /\ "messaging" \in Workers /\ "retries" \in Workers
      /\ rows \in SUBSET Row /\ Msgs(rows) \subseteq Messages
  BY DEF RelayInv, RelayTypes, Workers, Row, Msgs
<1>5. /\ top \in Nat /\ top <= final /\ \A m \in Msgs(rows) : emitted[m] \in 1 .. top
  BY <1>1, HighestRow
<1>6. open \subseteq Msgs(rows) /\ profitable \subseteq open /\ b \subseteq profitable
      /\ \A m \in Msgs(rows) \ open : m \in UNION lost \/ receipt[m] # "none"
  BY DEF Worthwhile, Undelivered
<1>7. k \subseteq rows /\ \A m : m \in Msgs(k) <=> m \in open \ profitable
  <2>1. \A m \in open : \E r \in rows : r.msg = m
    BY <1>6 DEF Msgs
  <2> HIDE DEF open
  <2> QED BY <2>1, MsgsIs
<1> HIDE DEF top
<1>8. /\ work' \in [Workers -> WorkType] /\ work'["messaging"] = work["messaging"]
      /\ work'["retries"].pc = "submit" /\ work'["retries"].at = top /\ work'["retries"].batch = b
      /\ work'["retries"].ids = rows /\ work'["retries"].keep = k
  <2>1. b \in SUBSET Messages /\ k \in SUBSET Row
    BY <1>4, <1>6, <1>7
  <2>2. work' = [work EXCEPT !["retries"] = next]
    BY <1>3
  <2> HIDE DEF b, k
  <2>3. next \in WorkType /\ next.pc = "submit" /\ next.at = top /\ next.batch = b /\ next.ids = rows
        /\ next.keep = k
    BY <1>4, <1>5, <2>1 DEF IdleWork, WorkType
  <2> HIDE DEF next
  <2> QED BY <1>4, <2>2, <2>3
<1>9. /\ mishaps \subseteq mishaps' /\ Msgs(rows) \cap UNION lost \subseteq mishaps'
      /\ profitable \ b \subseteq mishaps'
  BY <1>3
<1> HIDE DEF b, k, open
<1>10. RelayTypes'
  BY <1>1, <1>4, <1>8 DEF RelayTypes
<1>11. PlaceInv'
  <2>1. \A r : RowOK(r)' <=> RowOK(r)
    BY <1>1 DEF RowOK
  <2>2. \A m \in b : emitted[m] \in 1 .. cursor
    <3>1. \A r \in rows : emitted[r.msg] \in Nat /\ emitted[r.msg] >= 1 /\ emitted[r.msg] <= cursor
      BY <1>4 DEF RelayInv, PlaceInv, RowOK, Row, RelayTypes
    <3>2. \A m \in Msgs(rows) : emitted[m] \in Nat /\ emitted[m] >= 1 /\ emitted[m] <= cursor
      BY <3>1 DEF Msgs
    <3> QED BY <1>4, <1>6, <3>2 DEF RelayTypes
  <2>3. PlacedBatch("retries")'
    BY <1>1, <1>5, <1>6, <1>8, <2>2 DEF PlacedBatch
  <2>4. PlacedBatch("messaging")'
    BY <1>1, <1>4, <1>8 DEF RelayInv, PlaceInv, PlacedBatch
  <2>5. \A r \in rows : RowOK(r)
    BY DEF RelayInv, PlaceInv
  <2>6. \A r \in work["messaging"].keep : RowOK(r)
    BY <1>4 DEF RelayInv, PlaceInv
  <2> QED BY <1>1, <1>7, <1>8, <2>1, <2>3, <2>4, <2>5, <2>6 DEF PlaceInv, Workers
<1>12. ApartInv'
  BY <1>1, <1>6, <1>7, <1>8 DEF RelayInv, ApartInv
<1>13. \A m : Settled(m) => Settled(m)'
  BY <1>1, <1>9 DEF Settled
<1>14. ASSUME NEW w \in Workers PROVE WorkOK(w)'
  <2>1. WorkOK("retries")'
    BY <1>8 DEF WorkOK
  <2>2. WorkOK("messaging")'
    BY <1>4, <1>8, <1>13 DEF RelayInv, WorkOK
  <2> QED BY <2>1, <2>2 DEF Workers
<1>15. RetryOK'
  <2>1. ASSUME NEW m \in Msgs(rows) PROVE Settled(m)' \/ m \in b \/ m \in Msgs(k)
    BY <1>1, <1>6, <1>7, <1>9 DEF Settled
  <2>2. b \subseteq Msgs(rows)
    BY <1>6
  <2> QED BY <1>1, <1>7, <1>8, <2>1, <2>2 DEF RetryOK
<1>16. NothingForgotten'
  <2> SUFFICES ASSUME NEW m \in Messages, m \notin mishaps', emitted[m] \in 1 .. cursor,
                      receipt[m] = "none", ~TimedOut(m)
               PROVE  m \in InFlight' \cup Msgs(rows)
    BY <1>1 DEF NothingForgotten, TimedOut
  <2>1. m \in InFlight \cup Msgs(rows)
    BY <1>9 DEF RelayInv, NothingForgotten
  <2>2. work["retries"].batch = {} /\ Msgs(work["retries"].keep) = {}
    BY <1>1, <1>4 DEF RelayInv, WorkOK, Msgs
  <2> QED BY <1>8, <2>1, <2>2, InFlightIs DEF Workers
<1> QED BY <1>10, <1>11, <1>12, <1>14, <1>15, <1>16 DEF RelayInv

----------------------------------------------------------------------------
\* The retry task removes only rows it holds or that are settled.
LEMMA DeleteRetriedStep ==
    ASSUME RelayInv, DeleteRetried
    PROVE  RelayInv'
<1>1. /\ UNCHANGED <<emitted, height, final, now, cursor, receipt, mishaps>>
      /\ work["retries"].pc = "store" /\ rows' = rows \ work["retries"].ids
      /\ work' = [work EXCEPT !["retries"].pc = "restore"]
  BY DEF DeleteRetried, chains
<1>2. RelayTypes /\ work \in [Workers -> WorkType] /\ "messaging" \in Workers /\ "retries" \in Workers
  BY DEF RelayInv, RelayTypes, Workers
<1>3. /\ work' \in [Workers -> WorkType] /\ work'["messaging"] = work["messaging"]
      /\ work'["retries"].pc = "restore" /\ work'["retries"].batch = work["retries"].batch
      /\ work'["retries"].keep = work["retries"].keep
  <2>1. [work["retries"] EXCEPT !.pc = "restore"] \in WorkType
    BY <1>2 DEF WorkType
  <2>2. work' = [work EXCEPT !["retries"] = [work["retries"] EXCEPT !.pc = "restore"]]
    BY <1>1
  <2>3. work' \in [Workers -> WorkType]
    BY <1>2, <2>1, <2>2
  <2> QED BY <1>1, <1>2, <2>3 DEF WorkType
<1>4. RelayTypes'
  BY <1>1, <1>2, <1>3 DEF RelayTypes
<1>5. PlaceInv'
  <2>1. \A r : RowOK(r)' <=> RowOK(r)
    BY <1>1 DEF RowOK
  <2>2. PlacedBatch("messaging")'
    BY <1>1, <1>2, <1>3 DEF RelayInv, PlaceInv, PlacedBatch
  <2>3. PlacedBatch("retries")'
    BY <1>1, <1>2, <1>3 DEF RelayInv, PlaceInv, PlacedBatch
  <2> QED BY <1>1, <1>2, <1>3, <2>1, <2>2, <2>3 DEF RelayInv, PlaceInv, Workers
<1>6. ApartInv'
  <2>1. Msgs(rows') \subseteq Msgs(rows)
    BY <1>1 DEF Msgs
  <2> QED BY <1>3, <2>1 DEF RelayInv, ApartInv
<1>7. \A m : Settled(m)' <=> Settled(m)
  BY <1>1 DEF Settled
<1>8. ASSUME NEW w \in Workers PROVE WorkOK(w)'
  <2>1. WorkOK("messaging")'
    BY <1>2, <1>3, <1>7 DEF RelayInv, WorkOK
  <2>2. WorkOK("retries")'
    BY <1>1, <1>2, <1>3, <1>7 DEF RelayInv, WorkOK
  <2> QED BY <2>1, <2>2 DEF Workers
<1>9. RetryOK'
  BY <1>3 DEF RetryOK
<1>10. NothingForgotten'
  <2> SUFFICES ASSUME NEW m \in Messages, m \notin mishaps, emitted[m] \in 1 .. cursor,
                      receipt[m] = "none", ~TimedOut(m)
               PROVE  m \in InFlight' \cup Msgs(rows')
    BY <1>1 DEF NothingForgotten, TimedOut
  <2>1. m \in InFlight \cup Msgs(rows)
    BY DEF RelayInv, NothingForgotten
  <2>2. m \in InFlight => m \in InFlight'
    BY <1>3, InFlightIs DEF Workers
  <2>3. CASE m \in Msgs(rows)
    <3>1. PICK r \in rows : r.msg = m
      BY <2>3 DEF Msgs
    <3>2. CASE r \in work["retries"].ids
      <4>1. m \in Msgs(work["retries"].ids)
        BY <3>1, <3>2 DEF Msgs
      <4>2. m \in work["retries"].batch \/ m \in Msgs(work["retries"].keep)
        BY <1>1, <4>1 DEF RelayInv, RetryOK, Settled
      <4> QED BY <1>2, <1>3, <4>2, InFlightIs
    <3>3. CASE r \notin work["retries"].ids
      BY <1>1, <3>1, <3>3 DEF Msgs
    <3> QED BY <3>2, <3>3
  <2> QED BY <2>1, <2>2, <2>3
<1> QED BY <1>4, <1>5, <1>6, <1>8, <1>9, <1>10 DEF RelayInv

\* The rows that go back are those it still holds and that have not timed out.
LEMMA RestoreStep ==
    ASSUME RelayInv, RestoreRows
    PROVE  RelayInv'
<1> DEFINE back == {r \in work["retries"].keep : ~TimedOut(r.msg)}
<1>1. /\ UNCHANGED <<emitted, height, final, now, cursor, receipt, mishaps>>
      /\ work["retries"].pc = "restore" /\ rows' = rows \cup back
      /\ work' = [work EXCEPT !["retries"] = IdleWork]
  BY DEF RestoreRows, chains
<1>2. RelayTypes /\ work \in [Workers -> WorkType] /\ "messaging" \in Workers /\ "retries" \in Workers
  BY DEF RelayInv, RelayTypes, Workers
<1>3. IdleWork \in WorkType /\ IdleWork.pc = "idle" /\ IdleWork.batch = {} /\ IdleWork.keep = {}
  BY DEF IdleWork, WorkType
<1>4. /\ work' \in [Workers -> WorkType] /\ work'["messaging"] = work["messaging"]
      /\ work'["retries"] = IdleWork
  BY <1>1, <1>2, <1>3
<1>5. back \subseteq work["retries"].keep /\ work["retries"].keep \subseteq Row
  BY <1>2 DEF WorkType
<1>6. RelayTypes'
  <2> HIDE DEF back
  <2> QED BY <1>1, <1>2, <1>4, <1>5 DEF RelayTypes
<1>7. PlaceInv'
  <2> HIDE DEF back
  <2>1. \A r : RowOK(r)' <=> RowOK(r)
    BY <1>1 DEF RowOK
  <2>2. PlacedBatch("messaging")'
    BY <1>1, <1>2, <1>4 DEF RelayInv, PlaceInv, PlacedBatch
  <2>3. PlacedBatch("retries")'
    BY <1>3, <1>4 DEF PlacedBatch
  <2>4. \A r \in rows' : RowOK(r)
    BY <1>1, <1>2, <1>5 DEF RelayInv, PlaceInv
  <2> QED BY <1>1, <1>2, <1>3, <1>4, <2>1, <2>2, <2>3, <2>4 DEF RelayInv, PlaceInv, Workers
<1>8. ApartInv'
  <2>1. Msgs(rows') \subseteq Msgs(rows) \cup Msgs(work["retries"].keep)
    BY <1>1 DEF Msgs
  <2>2. IdleWork.batch = {} /\ Msgs(IdleWork.keep) = {}
    BY <1>3 DEF Msgs
  <2> QED BY <1>4, <2>1, <2>2 DEF RelayInv, ApartInv
<1>9. \A m : Settled(m)' <=> Settled(m)
  BY <1>1 DEF Settled
<1>10. ASSUME NEW w \in Workers PROVE WorkOK(w)'
  <2>1. WorkOK("messaging")'
    BY <1>2, <1>4, <1>9 DEF RelayInv, WorkOK
  <2>2. WorkOK("retries")'
    BY <1>3, <1>4 DEF WorkOK
  <2> QED BY <2>1, <2>2 DEF Workers
<1>11. RetryOK'
  BY <1>3, <1>4 DEF RetryOK
<1>12. NothingForgotten'
  <2> SUFFICES ASSUME NEW m \in Messages, m \notin mishaps, emitted[m] \in 1 .. cursor,
                      receipt[m] = "none", ~TimedOut(m)
               PROVE  m \in InFlight' \cup Msgs(rows')
    BY <1>1 DEF NothingForgotten, TimedOut
  <2>1. m \in InFlight \cup Msgs(rows)
    BY DEF RelayInv, NothingForgotten
  <2>2. m \notin work["retries"].batch
    BY <1>1, <1>2 DEF RelayInv, WorkOK, Settled
  <2>3. m \in Msgs(work["retries"].keep) => m \in Msgs(rows')
    BY <1>1 DEF Msgs
  <2>4. m \in Msgs(rows) => m \in Msgs(rows')
    BY <1>1 DEF Msgs
  <2> QED BY <1>4, <2>1, <2>2, <2>3, <2>4, InFlightIs DEF Workers
<1> QED BY <1>6, <1>7, <1>8, <1>10, <1>11, <1>12 DEF RelayInv

\* A restart forgets only what it reports as hit.
LEMMA RestartStep ==
    ASSUME RelayInv, Restart
    PROVE  RelayInv'
<1>1. /\ UNCHANGED <<emitted, height, final, now, receipt, rows>>
      /\ cursor' = height /\ work' = [w \in Workers |-> IdleWork]
      /\ mishaps \subseteq mishaps' /\ work["messaging"].batch \subseteq mishaps'
      /\ Msgs(work["messaging"].keep) \subseteq mishaps'
      /\ \A m \in Messages : emitted[m] \in cursor + 1 .. height => m \in mishaps'
      /\ work["retries"].pc = "restore" => Msgs(work["retries"].keep) \subseteq mishaps'
  BY DEF Restart, chains
<1>2. RelayTypes /\ "messaging" \in Workers /\ "retries" \in Workers
  BY DEF RelayInv, Workers
<1>3. IdleWork \in WorkType /\ IdleWork.pc = "idle" /\ IdleWork.batch = {} /\ IdleWork.keep = {}
  BY DEF IdleWork, WorkType
<1>4. work' \in [Workers -> WorkType] /\ \A w \in Workers : work'[w] = IdleWork
  BY <1>1, <1>3
<1>5. RelayTypes'
  BY <1>1, <1>2, <1>4 DEF RelayTypes
<1>6. PlaceInv'
  <2>1. \A r \in Row : RowOK(r) => RowOK(r)'
    BY <1>1, <1>2, SamePlaces DEF RelayTypes
  <2>2. \A r \in rows : RowOK(r)'
    BY <1>2, <2>1 DEF RelayInv, PlaceInv, RelayTypes
  <2>3. \A w \in Workers : PlacedBatch(w)'
    BY <1>3, <1>4 DEF PlacedBatch
  <2> QED BY <1>1, <1>3, <1>4, <2>2, <2>3 DEF PlaceInv
<1>7. ApartInv'
  BY <1>2, <1>3, <1>4 DEF ApartInv
<1>8. \A w \in Workers : WorkOK(w)'
  BY <1>3, <1>4 DEF WorkOK
<1>9. RetryOK'
  BY <1>2, <1>3, <1>4 DEF RetryOK
<1>10. NothingForgotten'
  <2> SUFFICES ASSUME NEW m \in Messages, m \notin mishaps', emitted[m] \in 1 .. height,
                      receipt[m] = "none", ~TimedOut(m)
               PROVE  m \in Msgs(rows)
    BY <1>1 DEF NothingForgotten, TimedOut
  <2>1. emitted[m] \in 1 .. cursor
    BY <1>1, <1>2 DEF RelayTypes
  <2>2. m \in InFlight \cup Msgs(rows)
    BY <1>1, <2>1 DEF RelayInv, NothingForgotten
  <2>3. CASE m \in work["retries"].batch \/ m \in Msgs(work["retries"].keep)
    <3>1. work["retries"].pc \in {"submit", "record", "store"}
      <4>1. work["retries"].pc \in {"idle", "submit", "record", "store", "restore"}
        BY <1>2 DEF RelayTypes, WorkType
      <4>2. work["retries"].pc # "idle"
        BY <1>2, <2>3 DEF RelayInv, WorkOK, Msgs
      <4>3. work["retries"].pc # "restore"
        BY <1>1, <1>2, <2>3 DEF RelayInv, WorkOK, Settled
      <4> QED BY <4>1, <4>2, <4>3
    <3>2. /\ work["retries"].keep \subseteq rows /\ work["retries"].ids \subseteq rows
          /\ work["retries"].batch \subseteq Msgs(work["retries"].ids)
      BY <3>1 DEF RelayInv, RetryOK
    <3> QED BY <2>3, <3>2 DEF Msgs
  <2> QED BY <1>1, <2>2, <2>3, InFlightIs DEF Workers
<1> QED BY <1>5, <1>6, <1>7, <1>8, <1>9, <1>10 DEF RelayInv

----------------------------------------------------------------------------
\* Every step of the chains, of the rival and of the relayer keeps RelayInv.
LEMMA RelayStep ==
    ASSUME RelayInv, [Next]_vars
    PROVE  RelayInv'
<1>0. RelayTypes
  BY DEF RelayInv
<1>1. ASSUME UNCHANGED <<emitted, height, final, now, cursor, receipt, mishaps, rows, work>>
      PROVE  RelayInv'
  <2>1. RelayTypes'
    BY <1>0, <1>1 DEF RelayTypes
  <2>2. \A m : Settled(m)' <=> Settled(m)
    BY <1>1 DEF Settled
  <2>3. final <= final' /\ now <= now'
    BY <1>0, <1>1 DEF RelayTypes
  <2> QED BY <1>1, <2>1, <2>2, <2>3, ChainStep
<1>2. ASSUME NEW m \in Messages, Emit(m)
      PROVE  RelayInv'
  <2>1. /\ emitted[m] = 0 /\ height' = height + 1 /\ emitted' = [emitted EXCEPT ![m] = height + 1]
        /\ UNCHANGED <<final, now, cursor, receipt, mishaps, rows, work>>
    BY <1>2 DEF Emit
  <2>2. RelayTypes'
    BY <1>0, <2>1 DEF RelayTypes
  <2>3. \A n \in Messages : emitted'[n] = emitted[n] \/ (emitted[n] = 0 /\ emitted'[n] > cursor)
    BY <1>0, <2>1 DEF RelayTypes
  <2>4. \A n : Settled(n)' <=> Settled(n)
    BY <2>1 DEF Settled
  <2>5. final <= final' /\ now <= now'
    BY <1>0, <2>1 DEF RelayTypes
  <2> QED BY <2>1, <2>2, <2>3, <2>4, <2>5, ChainStep
<1>3. ASSUME NEW m \in Messages, OtherDelivers(m)
      PROVE  RelayInv'
  <2>1. /\ receipt' = [receipt EXCEPT ![m] = "other"]
        /\ UNCHANGED <<emitted, height, final, now, cursor, mishaps, rows, work>>
    BY <1>3 DEF OtherDelivers, chains
  <2>2. RelayTypes'
    BY <1>0, <2>1 DEF RelayTypes
  <2>3. \A n \in Messages : Settled(n) => Settled(n)'
    BY <1>0, <2>1 DEF Settled, RelayTypes
  <2>4. final <= final' /\ now <= now'
    BY <1>0, <2>1 DEF RelayTypes
  <2> QED BY <2>1, <2>2, <2>3, <2>4, ChainStep
<1>4. ASSUME Finalise \/ Tick
      PROVE  RelayInv'
  <2>1. /\ UNCHANGED <<emitted, height, cursor, receipt, mishaps, rows, work>>
        /\ final' \in {final, height} /\ now' \in {now, now + 1}
    BY <1>4 DEF Finalise, Tick
  <2>2. RelayTypes' /\ final <= final' /\ now <= now'
    BY <1>0, <2>1 DEF RelayTypes
  <2>3. \A n : Settled(n)' <=> Settled(n)
    BY <2>1 DEF Settled
  <2> QED BY <2>1, <2>2, <2>3, ChainStep
<1>5. ASSUME RelayerStep
      PROVE  RelayInv'
  <2>1. ASSUME NEW c \in Claimers, Accumulate(c) \/ DeleteClaimed(c)
        PROVE  RelayInv'
    BY <1>1, <2>1 DEF Accumulate, DeleteClaimed, chains
  <2>2. ASSUME AwaitUpdate \/ CheckHeights \/ CreateClaimProof
        PROVE  RelayInv'
    BY <1>1, <2>2 DEF AwaitUpdate, CheckHeights, CreateClaimProof, chains
  <2> QED
    BY <1>5, <2>1, <2>2, HandleUpdateStep, StoreStep, RetryStep, DeleteRetriedStep, RestoreStep,
       SubmitStep, RecordStep DEF RelayerStep
<1>6. CASE Attest
  BY <1>1, <1>6 DEF Attest
<1>7. CASE UNCHANGED vars
  BY <1>1, <1>7 DEF vars, chains
<1> QED BY <1>2, <1>3, <1>4, <1>5, <1>6, <1>7, RestartStep DEF Next

\* The relayer keeps RelayInv whichever way the messaging task, the retry task,
\* failed submissions, a rival relayer and restarts interleave.
THEOREM RelayHolds ==
    ASSUME MessagingConstants
    PROVE  Spec => []RelayInv
<1>1. Init => RelayInv
  <2> SUFFICES ASSUME Init PROVE RelayInv
    OBVIOUS
  <2>1. IdleWork \in WorkType /\ IdleWork.pc = "idle" /\ IdleWork.batch = {} /\ IdleWork.keep = {}
    BY DEF IdleWork, WorkType
  <2>2. work \in [Workers -> WorkType] /\ \A w \in Workers : work[w] = IdleWork
    BY <2>1 DEF Init
  <2>3. RelayTypes
    BY <2>2 DEF Init, RelayTypes
  <2>4. PlaceInv /\ ApartInv
    BY <2>1, <2>2 DEF Init, PlaceInv, PlacedBatch, ApartInv, Workers
  <2>5. RetryOK /\ \A w \in Workers : WorkOK(w)
    BY <2>1, <2>2 DEF RetryOK, WorkOK, Workers
  <2>6. NothingForgotten
    BY DEF Init, NothingForgotten
  <2> QED BY <2>3, <2>4, <2>5, <2>6 DEF RelayInv
<1>2. RelayInv /\ [Next]_vars => RelayInv'
  BY RelayStep
<1> QED BY <1>1, <1>2, PTL DEF Spec

\* A message handle_update has passed stays with a task or in the table of
\* unprofitable messages until it is delivered or times out, unless a failed call,
\* a failed callback or a crash hit it.
THEOREM MessagesKept ==
    ASSUME MessagingConstants
    PROVE  Spec => []NothingForgotten
<1>1. RelayInv => NothingForgotten
  BY DEF RelayInv
<1> QED BY <1>1, RelayHolds, PTL

\* handle_update and retry_unprofitable_messages never submit the same message at
\* the same time.
THEOREM SubmittedOnce ==
    ASSUME MessagingConstants
    PROVE  Spec => []NoDoubleSubmission
<1>1. RelayInv => NoDoubleSubmission
  BY DEF RelayInv, ApartInv, NoDoubleSubmission
<1> QED BY <1>1, RelayHolds, PTL

\* A batch, that of the retry task with its rows of several heights too, is proved
\* at a height the destination has finalised and at which all of it was emitted.
THEOREM BatchesProvable ==
    ASSUME MessagingConstants
    PROVE  Spec => []BatchProvable
<1>1. RelayInv => BatchProvable
  BY DEF RelayInv, PlaceInv, PlacedBatch, BatchProvable
<1> QED BY <1>1, RelayHolds, PTL

----------------------------------------------------------------------------
(* Fee accumulation. *)

FeeType == [pc : {"idle", "prove", "claim", "delete"}, at : Nat, claim : SUBSET Row]

FeeTypes ==
    /\ attested \in Nat /\ deliveries \subseteq Row
    /\ queue \in Seq(SUBSET Row) /\ fee \in [Claimers -> FeeType]

\* Only the rows of claimed messages are about to be deleted.
DeletesClaimed == \A c \in Claimers : fee[c].pc = "delete" => Msgs(fee[c].claim) \subseteq claimed

FeeInv == FeeTypes /\ DeletesClaimed /\ FeesKept

\* Every step keeps the shapes of the claims, the queue and the deliveries.
LEMMA FeeTypesStep ==
    ASSUME RelayInv, FeeTypes, [Next]_vars
    PROVE  FeeTypes'
<1>0. /\ attested \in Nat /\ deliveries \subseteq Row /\ queue \in Seq(SUBSET Row)
      /\ fee \in [Claimers -> FeeType] /\ now \in Nat /\ IdleFee \in FeeType
      /\ "auto" \in Claimers /\ "manual" \in Claimers
  BY DEF FeeTypes, RelayInv, RelayTypes, IdleFee, FeeType, Claimers
<1>1. ASSUME UNCHANGED <<attested, deliveries, queue, fee>>
      PROVE  FeeTypes'
  BY <1>1 DEF FeeTypes
<1>2. CASE Attest
  BY <1>0, <1>2 DEF Attest, FeeTypes
<1>3. ASSUME NEW w \in Workers, Record(w)
      PROVE  FeeTypes'
  <2>1. work[w].got \in SUBSET Row
    BY DEF RelayInv, RelayTypes, WorkType
  <2>2. Append(queue, work[w].got) \in Seq(SUBSET Row)
    BY <1>0, <2>1
  <2>3. queue' \in Seq(SUBSET Row)
    BY <1>0, <1>3, <2>2 DEF Record
  <2> QED BY <1>0, <1>3, <2>1, <2>3 DEF Record, FeeTypes, chains
<1>4. CASE AwaitUpdate
  <2>1. queue # <<>> /\ Head(queue) \in SUBSET Row /\ Tail(queue) \in Seq(SUBSET Row)
    BY <1>0, <1>4 DEF AwaitUpdate
  <2>2. fee' \in [Claimers -> FeeType]
    <3> DEFINE next == [pc |-> "claim", at |-> attested, claim |-> Head(queue)]
    <3>1. next \in FeeType
      BY <1>0, <2>1 DEF FeeType
    <3>2. fee' = [fee EXCEPT !["auto"] = next] \/ fee' = fee
      BY <1>4 DEF AwaitUpdate
    <3> HIDE DEF next
    <3> QED BY <1>0, <3>1, <3>2
  <2> QED BY <1>0, <1>4, <2>1, <2>2 DEF AwaitUpdate, FeeTypes, chains
<1>5. CASE CheckHeights
  <2> DEFINE next == [pc |-> "prove", at |-> attested, claim |-> {}]
  <2>1. next \in FeeType
    BY <1>0 DEF FeeType
  <2>2. fee' = [fee EXCEPT !["manual"] = next] /\ UNCHANGED <<attested, deliveries, queue>>
    BY <1>5 DEF CheckHeights, chains
  <2> HIDE DEF next
  <2> QED BY <1>0, <2>1, <2>2 DEF FeeTypes
<1>6. CASE CreateClaimProof
  <2> DEFINE S == {r \in deliveries : r.msg \notin claimed}
             next == IF S = {} THEN IdleFee
                     ELSE [fee["manual"] EXCEPT !.pc = "claim", !.claim = S]
  <2>1. fee' = [fee EXCEPT !["manual"] = next] /\ deliveries' = S /\ UNCHANGED <<attested, queue>>
    BY <1>6 DEF CreateClaimProof, chains
  <2>2. S \in SUBSET Row
    BY <1>0
  <2> HIDE DEF S
  <2>3. next \in FeeType
    BY <1>0, <2>2 DEF FeeType
  <2> HIDE DEF next
  <2> QED BY <1>0, <2>1, <2>2, <2>3 DEF FeeTypes
<1>7. ASSUME NEW c \in Claimers, Accumulate(c) \/ DeleteClaimed(c)
      PROVE  FeeTypes'
  <2>1. [fee[c] EXCEPT !.pc = "delete"] \in FeeType
    BY <1>0 DEF FeeType
  <2>2. \/ fee' = [fee EXCEPT ![c] = [fee[c] EXCEPT !.pc = "delete"]]
        \/ fee' = [fee EXCEPT ![c] = IdleFee]
    BY <1>7 DEF Accumulate, DeleteClaimed
  <2>3. deliveries' \subseteq deliveries /\ UNCHANGED <<attested, queue>>
    BY <1>7 DEF Accumulate, DeleteClaimed, chains
  <2>4. fee' \in [Claimers -> FeeType]
    BY <1>0, <2>1, <2>2
  <2> QED BY <1>0, <2>3, <2>4 DEF FeeTypes
<1>8. CASE Restart
  <2>1. fee' = [fee EXCEPT !["auto"] = IdleFee] /\ queue' = <<>> /\ UNCHANGED <<attested, deliveries>>
    BY <1>8 DEF Restart, chains
  <2> QED BY <1>0, <2>1 DEF FeeTypes
<1>9. ASSUME NEW w \in Workers, Submit(w)
      PROVE  UNCHANGED <<attested, deliveries, queue, fee>>
  BY <1>9 DEF Submit, chains
<1>10. ASSUME \/ \E m \in Messages : Emit(m) \/ OtherDelivers(m)
              \/ Finalise \/ Tick \/ HandleUpdate \/ StoreUnprofitable \/ RetryRows
              \/ DeleteRetried \/ RestoreRows \/ UNCHANGED vars
       PROVE  UNCHANGED <<attested, deliveries, queue, fee>>
  BY <1>10 DEF Emit, OtherDelivers, Finalise, Tick, HandleUpdate, StoreUnprofitable, RetryRows,
               DeleteRetried, RestoreRows, vars, chains
<1> QED
  BY <1>1, <1>2, <1>3, <1>4, <1>5, <1>6, <1>7, <1>8, <1>9, <1>10 DEF Next, RelayerStep

\* A claimer deletes rows only after Hyperbridge accepted the claim; every other row
\* of a recorded delivery stays.
LEMMA FeeStep ==
    ASSUME RelayInv, FeeInv, [Next]_vars
    PROVE  FeeInv'
<1>0. /\ FeeTypes' /\ DeletesClaimed /\ FeesKept /\ "auto" \in Claimers /\ "manual" \in Claimers
      /\ fee \in [Claimers -> FeeType] /\ IdleFee \in FeeType /\ IdleFee.pc = "idle"
  BY FeeTypesStep DEF FeeInv, FeeTypes, FeeType, IdleFee, Claimers
\* What is left to show when no claimer moves on to a deletion.
<1>1. ASSUME claimed \subseteq claimed', recorded' \subseteq claimed' \cup Msgs(deliveries'),
             \A c \in Claimers : fee'[c].pc = "delete" => fee'[c] = fee[c]
      PROVE  FeeInv'
  BY <1>0, <1>1 DEF FeeInv, DeletesClaimed, FeesKept
<1>2. ASSUME UNCHANGED <<fee, claimed, deliveries, recorded>>
      PROVE  FeeInv'
  BY <1>0, <1>1, <1>2 DEF FeesKept
<1>3. ASSUME NEW w \in Workers, Record(w)
      PROVE  FeeInv'
  <2>1. UNCHANGED <<fee, claimed>> /\ Msgs(deliveries') = Msgs(deliveries) \cup Msgs(work[w].got)
        /\ recorded' = recorded \cup Msgs(work[w].got)
    BY <1>3 DEF Record, Msgs
  <2> QED BY <1>0, <1>1, <2>1 DEF FeesKept
<1>4. CASE AwaitUpdate
  <2>1. UNCHANGED <<claimed, recorded>> /\ Msgs(deliveries) \subseteq Msgs(deliveries')
    BY <1>4 DEF AwaitUpdate, Msgs
  <2>2. \A c \in Claimers : fee'[c].pc = "delete" => fee'[c] = fee[c]
    BY <1>0, <1>4 DEF AwaitUpdate, FeeType
  <2> QED BY <1>0, <1>1, <2>1, <2>2 DEF FeesKept
<1>5. CASE CheckHeights
  <2>1. UNCHANGED <<claimed, deliveries, recorded>>
    BY <1>5 DEF CheckHeights
  <2>2. \A c \in Claimers : fee'[c].pc = "delete" => fee'[c] = fee[c]
    BY <1>0, <1>5 DEF CheckHeights, FeeType
  <2> QED BY <1>0, <1>1, <2>1, <2>2 DEF FeesKept
<1>6. CASE CreateClaimProof
  <2>1. UNCHANGED <<claimed, recorded>> /\ Msgs(deliveries) \subseteq Msgs(deliveries') \cup claimed
    BY <1>6 DEF CreateClaimProof, Msgs
  <2>2. \A c \in Claimers : fee'[c].pc = "delete" => fee'[c] = fee[c]
    <3> DEFINE S == {r \in deliveries : r.msg \notin claimed}
    <3>1. fee' = [fee EXCEPT !["manual"] =
                    IF S = {} THEN IdleFee ELSE [fee["manual"] EXCEPT !.pc = "claim", !.claim = S]]
      BY <1>6 DEF CreateClaimProof
    <3> HIDE DEF S
    <3> QED BY <1>0, <3>1 DEF FeeType
  <2> QED BY <1>0, <1>1, <2>1, <2>2 DEF FeesKept
<1>7. ASSUME NEW c \in Claimers, Accumulate(c)
      PROVE  FeeInv'
  <2>1. UNCHANGED <<deliveries, recorded>> /\ claimed \subseteq claimed'
    BY <1>7 DEF Accumulate
  <2>2. CASE fee' = [fee EXCEPT ![c] = IdleFee]
    BY <1>0, <1>1, <2>1, <2>2 DEF FeesKept
  <2>3. CASE fee' = [fee EXCEPT ![c].pc = "delete"] /\ claimed' = claimed \cup Msgs(fee[c].claim)
    <3>1. fee'[c].claim = fee[c].claim /\ \A d \in Claimers \ {c} : fee'[d] = fee[d]
      BY <1>0, <2>3 DEF FeeType
    <3> QED BY <1>0, <2>1, <2>3, <3>1 DEF FeeInv, DeletesClaimed, FeesKept
  <2> QED BY <1>7, <2>2, <2>3 DEF Accumulate
<1>8. ASSUME NEW c \in Claimers, DeleteClaimed(c)
      PROVE  FeeInv'
  <2>1. /\ UNCHANGED <<claimed, recorded>>
        /\ Msgs(deliveries) \subseteq Msgs(deliveries') \cup Msgs(fee[c].claim)
    BY <1>8 DEF DeleteClaimed, Msgs
  <2>2. Msgs(fee[c].claim) \subseteq claimed
    BY <1>0, <1>8 DEF DeleteClaimed, DeletesClaimed
  <2>3. \A d \in Claimers : fee'[d].pc = "delete" => fee'[d] = fee[d]
    BY <1>0, <1>8 DEF DeleteClaimed
  <2> QED BY <1>0, <1>1, <2>1, <2>2, <2>3 DEF FeesKept
<1>9. CASE Restart
  <2>1. UNCHANGED <<claimed, deliveries, recorded>>
    BY <1>9 DEF Restart
  <2>2. \A c \in Claimers : fee'[c].pc = "delete" => fee'[c] = fee[c]
    BY <1>0, <1>9 DEF Restart
  <2> QED BY <1>0, <1>1, <2>1, <2>2 DEF FeesKept
<1>10. ASSUME NEW w \in Workers, Submit(w)
       PROVE  UNCHANGED <<fee, claimed, deliveries, recorded>>
  BY <1>10 DEF Submit
<1>11. ASSUME \/ \E m \in Messages : Emit(m) \/ OtherDelivers(m)
              \/ Finalise \/ Tick \/ Attest \/ HandleUpdate \/ StoreUnprofitable \/ RetryRows
              \/ DeleteRetried \/ RestoreRows \/ UNCHANGED vars
       PROVE  UNCHANGED <<fee, claimed, deliveries, recorded>>
  BY <1>11 DEF Emit, OtherDelivers, Finalise, Tick, Attest, HandleUpdate, StoreUnprofitable,
               RetryRows, DeleteRetried, RestoreRows, vars
<1> QED
  BY <1>2, <1>3, <1>4, <1>5, <1>6, <1>7, <1>8, <1>9, <1>10, <1>11 DEF Next, RelayerStep

\* The fee of a delivery in the database is claimed on Hyperbridge or can still be
\* claimed: fee_accumulation and accumulate-fees delete only claimed rows, although
\* each read its rows before the other's claim.
THEOREM RecordedFeesKept ==
    ASSUME MessagingConstants
    PROVE  Spec => []FeesKept
<1>1. Init => FeeInv
  <2> SUFFICES ASSUME Init PROVE FeeInv
    OBVIOUS
  <2>1. IdleFee \in FeeType /\ IdleFee.pc = "idle"
    BY DEF IdleFee, FeeType
  <2> QED BY <2>1 DEF Init, FeeInv, FeeTypes, DeletesClaimed, FeesKept
<1>2. RelayInv /\ FeeInv /\ [Next]_vars => FeeInv'
  BY FeeStep
<1>3. FeeInv => FeesKept
  BY DEF FeeInv
<1> QED BY <1>1, <1>2, <1>3, RelayHolds, PTL DEF Spec

-----------------------------------------------------------------------------
(* Withdrawals. *)

TaskType == [pc : {"idle", "redeliver", "amount", "withdraw", "store", "deliver", "delete"},
             todo : SUBSET Nat, ids : SUBSET Nat]

\* What a task knows: the withdrawals it has taken off its list are paid or went
\* wrong, and the one it is about to delete too.
TaskOK(t) ==
    /\ task[t].pc = "redeliver" => task[t].ids \subseteq task[t].todo \cup executed \cup faults
    /\ task[t].pc \in {"store", "deliver"} => \A v, w \in task[t].ids : v = w
    /\ task[t].pc = "delete" => task[t].ids \subseteq executed \cup faults

WithdrawalTypes == nonce \in Nat /\ pending \subseteq Nat /\ task \in [Tasks -> TaskType]

WithdrawalInv ==
    /\ WithdrawalTypes
    /\ \A t \in Tasks : TaskOK(t)
    /\ WithdrawalsAccounted

\* What a step of t has to show about the withdrawals.
LEMMA StillAccounted ==
    ASSUME WithdrawalInv, NEW t \in Tasks, executed \subseteq executed', faults \subseteq faults',
           nonce' \in {nonce, nonce + 1},
           \A u \in Tasks \ {t} : task'[u] = task[u],
           pending \subseteq pending' \cup executed' \cup faults',
           task[t].pc = "store" => task[t].ids \subseteq pending' \cup faults',
           nonce' # nonce =>
              nonce + 1 \in faults' \/ (task'[t].pc = "store" /\ nonce + 1 \in task'[t].ids)
    PROVE  WithdrawalsAccounted'
<1> SUFFICES ASSUME NEW w \in 1 .. nonce'
             PROVE  w \in executed' \cup pending' \cup Unstored' \cup faults'
  BY DEF WithdrawalsAccounted
<1>1. \A u \in Tasks : task'[u].pc = "store" => task'[u].ids \subseteq Unstored'
  BY DEF Unstored
<1>2. CASE w \in 1 .. nonce
  <2>1. w \in executed \cup pending \cup Unstored \cup faults
    BY <1>2 DEF WithdrawalInv, WithdrawalsAccounted
  <2>2. CASE w \in Unstored
    <3>1. PICK u \in Tasks : task[u].pc = "store" /\ w \in task[u].ids
      BY <2>2 DEF Unstored
    <3> QED BY <1>1, <3>1
  <2> QED BY <2>1, <2>2
<1>3. CASE w \notin 1 .. nonce
  <2>1. nonce' = nonce + 1 /\ nonce' # nonce /\ w = nonce + 1
    BY <1>3 DEF WithdrawalInv, WithdrawalTypes
  <2> QED BY <1>1, <2>1
<1> QED BY <1>2, <1>3

\* A step of task t.
LEMMA TaskMoves ==
    ASSUME WithdrawalInv, NEW t \in Tasks, NEW r \in TaskType,
           task' = [task EXCEPT ![t] = r],
           executed \subseteq executed', faults \subseteq faults', pending' \subseteq Nat,
           nonce' \in {nonce, nonce + 1},
           pending \subseteq pending' \cup executed' \cup faults',
           task[t].pc = "store" => task[t].ids \subseteq pending' \cup faults',
           nonce' # nonce => nonce + 1 \in faults' \/ (r.pc = "store" /\ nonce + 1 \in r.ids),
           r.pc = "redeliver" => r.ids \subseteq r.todo \cup executed' \cup faults',
           r.pc \in {"store", "deliver"} => \A v, w \in r.ids : v = w,
           r.pc = "delete" => r.ids \subseteq executed' \cup faults'
    PROVE  WithdrawalInv'
<1>1. task'[t] = r /\ \A u \in Tasks \ {t} : task'[u] = task[u]
  BY DEF WithdrawalInv, WithdrawalTypes
<1>2. \A u \in Tasks : TaskOK(u)'
  BY <1>1 DEF WithdrawalInv, TaskOK
<1>3. WithdrawalsAccounted'
  BY <1>1, StillAccounted
<1>4. WithdrawalTypes'
  BY DEF WithdrawalInv, WithdrawalTypes
<1> QED BY <1>2, <1>3, <1>4 DEF WithdrawalInv

\* Every step keeps the withdrawals accounted for.
LEMMA WithdrawalStep ==
    ASSUME WithdrawalInv, [WithdrawalNext]_withdrawalVars
    PROVE  WithdrawalInv'
<1>0. /\ nonce \in Nat /\ pending \subseteq Nat /\ task \in [Tasks -> TaskType]
      /\ \A t \in Tasks : TaskOK(t) /\ Idle \in TaskType
  BY DEF WithdrawalInv, WithdrawalTypes, Idle, TaskType
<1>1. ASSUME UNCHANGED <<nonce, pending, task, faults>>, executed \subseteq executed'
      PROVE  WithdrawalInv'
  <2>1. \A t \in Tasks : TaskOK(t)'
    BY <1>1 DEF WithdrawalInv, TaskOK
  <2>2. WithdrawalsAccounted'
    BY <1>1 DEF WithdrawalInv, WithdrawalsAccounted, Unstored
  <2> QED BY <1>1, <2>1, <2>2 DEF WithdrawalInv, WithdrawalTypes
\* A run that ends with nothing in hand.
<1>2. ASSUME NEW t \in Tasks, task[t].pc # "store", task' = [task EXCEPT ![t] = Idle],
             UNCHANGED <<nonce, pending>>, executed \subseteq executed', faults \subseteq faults'
      PROVE  WithdrawalInv'
  <2>1. Idle.pc = "idle"
    BY DEF Idle
  <2> QED BY <1>0, <1>2, <2>1, TaskMoves
<1>3. ASSUME NEW t \in Tasks, Start(t)
      PROVE  WithdrawalInv'
  <2> DEFINE r == [pc |-> "redeliver", todo |-> pending, ids |-> pending]
  <2>1. /\ task' = [task EXCEPT ![t] = r] /\ UNCHANGED <<nonce, executed, pending, faults>>
        /\ task[t].pc = "idle"
    BY <1>3 DEF Start
  <2>2. r \in TaskType /\ r.pc = "redeliver" /\ r.ids = r.todo
    BY <1>0 DEF TaskType
  <2> HIDE DEF r
  <2> QED BY <1>0, <2>1, <2>2, TaskMoves
<1>4. ASSUME NEW t \in Tasks, Redeliver(t)
      PROVE  WithdrawalInv'
  <2> DEFINE w == Min(task[t].todo)
             r == [pc |-> "redeliver", todo |-> task[t].todo \ {w}, ids |-> task[t].ids]
  <2>1. UNCHANGED <<nonce, pending>> /\ task[t].pc = "redeliver" /\ task[t] \in TaskType
        /\ task[t].ids \subseteq task[t].todo \cup executed \cup faults
    BY <1>0, <1>4 DEF Redeliver, TaskOK
  <2>2. \/ DeliverOk(w) /\ task' = [task EXCEPT ![t].todo = task[t].todo \ {w}]
        \/ DeliverErr(w) /\ task' = [task EXCEPT ![t] = Idle]
    BY <1>4 DEF Redeliver
  <2> HIDE DEF w
  <2>3. CASE DeliverOk(w) /\ task' = [task EXCEPT ![t].todo = task[t].todo \ {w}]
    <3>0. \A S : [task[t] EXCEPT !.todo = S] = [pc |-> "redeliver", todo |-> S, ids |-> task[t].ids]
      BY <2>1 DEF TaskType
    <3>1. task' = [task EXCEPT ![t] = r]
      BY Zenon, <2>3, <3>0
    <3>2. w \in executed' \cup faults' /\ executed \subseteq executed' /\ faults \subseteq faults'
      BY <2>3 DEF DeliverOk, Paid, CallbackFails
    <3>3. r \in TaskType /\ r.pc = "redeliver" /\ r.ids \subseteq r.todo \cup {w} \cup executed \cup faults
      BY <2>1 DEF TaskType
    <3> HIDE DEF r
    <3> QED BY <1>0, <2>1, <3>1, <3>2, <3>3, TaskMoves
  <2>4. CASE DeliverErr(w) /\ task' = [task EXCEPT ![t] = Idle]
    <3>1. executed \subseteq executed' /\ faults \subseteq faults'
      BY <2>4 DEF DeliverErr, AttemptsFail, PaidLate
    <3> QED BY <1>2, <2>1, <2>4, <3>1
  <2> QED BY <2>2, <2>3, <2>4
<1>5. ASSUME NEW t \in Tasks, DeleteRedelivered(t)
      PROVE  WithdrawalInv'
  <2> DEFINE r == [Idle EXCEPT !.pc = "amount"]
  <2>1. /\ task' = [task EXCEPT ![t] = r]
        /\ UNCHANGED <<nonce, executed, faults>> /\ task[t].pc = "redeliver"
        /\ pending' = pending \ task[t].ids /\ task[t].ids \subseteq executed \cup faults
    BY <1>0, <1>5 DEF DeleteRedelivered, TaskOK
  <2>2. r \in TaskType /\ r.pc = "amount"
    BY DEF Idle, TaskType
  <2> HIDE DEF r
  <2> QED BY <1>0, <2>1, <2>2, TaskMoves
<1>6. ASSUME NEW t \in Tasks, CheckAmount(t)
      PROVE  WithdrawalInv'
  <2> DEFINE r == [pc |-> "withdraw", todo |-> task[t].todo, ids |-> task[t].ids]
  <2>1. UNCHANGED <<nonce, executed, pending, faults>> /\ task[t].pc = "amount"
        /\ task[t] \in TaskType
    BY <1>0, <1>6 DEF CheckAmount
  <2>2. CASE task' = [task EXCEPT ![t].pc = "withdraw"]
    <3>0. [task[t] EXCEPT !.pc = "withdraw"] = r
      BY <2>1 DEF TaskType
    <3>1. task' = [task EXCEPT ![t] = r]
      BY Zenon, <2>2, <3>0
    <3>2. r \in TaskType /\ r.pc = "withdraw"
      BY <2>1 DEF TaskType
    <3> HIDE DEF r
    <3> QED BY <1>0, <2>1, <3>1, <3>2, TaskMoves
  <2>3. CASE task' = [task EXCEPT ![t] = Idle]
    BY <1>2, <2>1, <2>3
  <2> QED BY <1>6, <2>2, <2>3 DEF CheckAmount
<1>7. ASSUME NEW t \in Tasks, WithdrawFunds(t)
      PROVE  WithdrawalInv'
  <2> DEFINE r == [pc |-> "store", todo |-> {}, ids |-> {nonce + 1}]
  <2>1. UNCHANGED <<executed, pending>> /\ task[t].pc = "withdraw"
    BY <1>7 DEF WithdrawFunds
  <2>2. r \in TaskType /\ r.pc = "store" /\ r.ids = {nonce + 1}
    BY <1>0 DEF TaskType
  <2>3. CASE nonce' = nonce + 1 /\ task' = [task EXCEPT ![t] = r] /\ UNCHANGED faults
    <3> HIDE DEF r
    <3> QED BY <1>0, <2>1, <2>2, <2>3, TaskMoves
  <2>4. CASE nonce' = nonce + 1 /\ task' = [task EXCEPT ![t] = Idle] /\ faults' = faults \cup {nonce + 1}
    <3>1. Idle.pc = "idle"
      BY DEF Idle
    <3> QED BY <1>0, <2>1, <2>4, <3>1, TaskMoves
  <2>5. CASE task' = [task EXCEPT ![t] = Idle] /\ UNCHANGED <<nonce, faults>>
    BY <1>2, <2>1, <2>5
  <2> QED BY <1>7, <2>3, <2>4, <2>5 DEF WithdrawFunds
<1>8. ASSUME NEW t \in Tasks, StorePending(t)
      PROVE  WithdrawalInv'
  <2> DEFINE r == [pc |-> "deliver", todo |-> task[t].todo, ids |-> task[t].ids]
  <2>1. /\ UNCHANGED <<nonce, executed, faults>> /\ task[t].pc = "store" /\ task[t] \in TaskType
        /\ pending' = pending \cup task[t].ids /\ \A v, w \in task[t].ids : v = w
    BY <1>0, <1>8 DEF StorePending, TaskOK
  <2>0. [task[t] EXCEPT !.pc = "deliver"] = r
    BY <2>1 DEF TaskType
  <2>2. task' = [task EXCEPT ![t] = r]
    BY Zenon, <1>8, <2>0 DEF StorePending
  <2>3. r \in TaskType /\ r.pc = "deliver" /\ r.ids = task[t].ids /\ task[t].ids \subseteq Nat
    BY <2>1 DEF TaskType
  <2>4. /\ pending' \subseteq Nat /\ pending \subseteq pending' \cup executed' \cup faults'
        /\ task[t].ids \subseteq pending' \cup faults'
        /\ executed \subseteq executed' /\ faults \subseteq faults'
        /\ nonce' = nonce /\ \A v, w \in r.ids : v = w
    BY <1>0, <2>1, <2>3
  <2> HIDE DEF r
  <2> QED BY <2>2, <2>3, <2>4, TaskMoves
<1>9. ASSUME NEW t \in Tasks, Deliver(t)
      PROVE  WithdrawalInv'
  <2> DEFINE r == [pc |-> "delete", todo |-> task[t].todo, ids |-> task[t].ids]
  <2>1. PICK w \in task[t].ids :
           \/ DeliverOk(w) /\ task' = [task EXCEPT ![t].pc = "delete"]
           \/ DeliverErr(w) /\ task' = [task EXCEPT ![t] = Idle]
    BY <1>9 DEF Deliver
  <2>2. /\ UNCHANGED <<nonce, pending>> /\ task[t].pc = "deliver" /\ task[t] \in TaskType
        /\ \A v \in task[t].ids : v = w
    BY <1>0, <1>9 DEF Deliver, TaskOK
  <2>3. CASE DeliverOk(w) /\ task' = [task EXCEPT ![t].pc = "delete"]
    <3>0. [task[t] EXCEPT !.pc = "delete"] = r
      BY <2>2 DEF TaskType
    <3>1. task' = [task EXCEPT ![t] = r]
      BY Zenon, <2>3, <3>0
    <3>2. w \in executed' \cup faults' /\ executed \subseteq executed' /\ faults \subseteq faults'
      BY <2>3 DEF DeliverOk, Paid, CallbackFails
    <3>3. r \in TaskType /\ r.pc = "delete" /\ r.ids = task[t].ids
      BY <2>2 DEF TaskType
    <3> HIDE DEF r
    <3> QED BY <1>0, <2>2, <3>1, <3>2, <3>3, TaskMoves
  <2>4. CASE DeliverErr(w) /\ task' = [task EXCEPT ![t] = Idle]
    <3>1. executed \subseteq executed' /\ faults \subseteq faults'
      BY <2>4 DEF DeliverErr, AttemptsFail, PaidLate
    <3> QED BY <1>2, <2>2, <2>4, <3>1
  <2> QED BY <2>1, <2>3, <2>4
<1>10. ASSUME NEW t \in Tasks, DeletePending(t)
       PROVE  WithdrawalInv'
  <2>1. /\ task' = [task EXCEPT ![t] = Idle]
        /\ UNCHANGED <<nonce, executed, faults>> /\ task[t].pc = "delete"
        /\ pending' = pending \ task[t].ids /\ task[t].ids \subseteq executed \cup faults
    BY <1>0, <1>10 DEF DeletePending, TaskOK
  <2>2. Idle.pc = "idle"
    BY DEF Idle
  <2> QED BY <1>0, <2>1, <2>2, TaskMoves
<1>11. ASSUME NEW t \in Tasks, Crash(t)
       PROVE  WithdrawalInv'
  <2>1. /\ task' = [task EXCEPT ![t] = Idle] /\ UNCHANGED <<nonce, executed, pending>>
        /\ faults \subseteq faults'
        /\ task[t].pc = "store" => task[t].ids \subseteq faults'
    BY <1>11 DEF Crash
  <2>2. Idle.pc = "idle"
    BY DEF Idle
  <2> QED BY <1>0, <2>1, <2>2, TaskMoves
<1>12. CASE Earn
  BY <1>1, <1>12 DEF Earn
<1>13. ASSUME NEW w \in Withdrawals, ThirdPartyDelivers(w)
       PROVE  WithdrawalInv'
  BY <1>1, <1>13 DEF ThirdPartyDelivers
<1>14. CASE UNCHANGED withdrawalVars
  BY <1>1, <1>14 DEF withdrawalVars
<1> QED
  BY <1>3, <1>4, <1>5, <1>6, <1>7, <1>8, <1>9, <1>10, <1>11, <1>12, <1>13, <1>14
  DEF WithdrawalNext, TaskStep

\* Fees that withdraw_funds took from the balance are paid, or their withdrawal is in
\* the table or about to be, unless its dispatch or delivery was misreported, for any
\* number of tasks on the table.
THEOREM NoWithdrawalLost == WithdrawalSpec => []WithdrawalsAccounted
<1>1. WithdrawalInit => WithdrawalInv
  BY DEF WithdrawalInit, Idle, WithdrawalInv, WithdrawalTypes, TaskType, TaskOK, WithdrawalsAccounted
<1>2. WithdrawalInv /\ [WithdrawalNext]_withdrawalVars => WithdrawalInv'
  BY WithdrawalStep
<1>3. WithdrawalInv => WithdrawalsAccounted
  BY DEF WithdrawalInv
<1> QED BY <1>1, <1>2, <1>3, PTL DEF WithdrawalSpec
=============================================================================
