----------------------- MODULE FulfillmentOutboxProofs -----------------------
(* Proofs about FulfillmentOutbox, for any shipments, processors and bounds.  *)
EXTENDS FulfillmentOutboxInductive, TLAPS

-----------------------------------------------------------------------------
(* Types                                                                   *)

LEMMA TypeInit == Init => TypeOK
  BY OutboxAssumption DEF Init, TypeOK, Rows, Claims, Jobs, NoJob, MakerSteps, EnqueueSteps,
     MarkSteps, WritesOutcome

\* A request keeps the types of what it writes.
LEMMA ProceedTypes ==
    ASSUME TypeOK, NEW s \in Shipments, maker[s].at \in {"none"} \cup EnqueueSteps, Proceed(s)
    PROVE  maker' \in [Shipments -> [at : MakerSteps, ok : BOOLEAN]]
<1> DEFINE next == EnqueuePath(s)[maker[s].at]
<1>1. next \in MakerSteps
  BY DEF EnqueuePath, RowFirst, RowLast, MakerSteps, EnqueueSteps
<1>2. maker' = [maker EXCEPT ![s].at = next]
  BY DEF Proceed, MakerTo
<1> HIDE DEF next
<1>3. QED
  BY <1>1, <1>2 DEF TypeOK

LEMMA MakerTypes ==
    ASSUME TypeOK, NEW s \in Shipments,
           PersistLabel(s) \/ MakerStep(s) \/ MakerThrows(s) \/ MakerCrashes(s)
    PROVE  TypeOK'
<1>1. maker' \in [Shipments -> [at : MakerSteps, ok : BOOLEAN]]
  <2>1. CASE maker[s].at \in {"none"} \cup EnqueueSteps /\ Proceed(s)
    BY <2>1, ProceedTypes
  <2>2. CASE \E step \in {"markRow", "markOrder", "done", "store"} : MakerTo(s, step)
    BY <2>2 DEF TypeOK, MakerTo, MakerSteps, MarkSteps
  <2>3. CASE \E step \in {"markShipment", "done"}, ok \in BOOLEAN :
                 maker' = [maker EXCEPT ![s] = [at |-> step, ok |-> ok]]
    BY <2>3 DEF TypeOK, MakerSteps, MarkSteps
  <2>4. CASE PersistLabel(s) \/ RecordSource(s) \/ EnqueueRow(s) \/ MarkPending(s) \/ MarkOrderPending(s)
    BY <2>1, <2>4 DEF PersistLabel, RecordSource, EnqueueRow, MarkPending, MarkOrderPending,
       Making, EnqueueSteps
  <2>5. CASE CallStoreDirectly(s) \/ MakerThrows(s)
    BY <2>2, <2>3, <2>5 DEF CallStoreDirectly, MakerThrows
  <2>6. CASE MarkAttempt(s) \/ MakerCrashes(s)
    BY <2>2, <2>6 DEF MarkAttempt, MakerCrashes
  <2>7. QED
    BY <2>4, <2>5, <2>6 DEF MakerStep
<1>2. row' \in [Shipments -> Rows]
  BY DEF TypeOK, PersistLabel, MakerStep, RecordSource, EnqueueRow, MarkPending,
     MarkOrderPending, CallStoreDirectly, MarkAttempt, MakerThrows, MakerCrashes, rows, Rows
<1>3. QED
  BY <1>1, <1>2 DEF TypeOK, PersistLabel, MakerStep, RecordSource, EnqueueRow, MarkPending,
     MarkOrderPending, CallStoreDirectly, MarkAttempt, MakerThrows, MakerCrashes, rows,
     Processing

LEMMA ClaimTypes ==
    ASSUME TypeOK, NEW p \in Processors, NEW S \in SUBSET Shipments, ClaimRows(p, S),
           retries' \in [Shipments -> Nat]
    PROVE  TypeOK'
<1>1. row' \in [Shipments -> Rows]
  BY DEF ClaimRows, TypeOK, Rows
<1>2. {ClaimOf(s) : s \in S} \in SUBSET Claims
  BY DEF ClaimOf, Claims, TypeOK, Rows
<1>3. batch' \in [Processors -> SUBSET Claims]
  BY <1>2 DEF ClaimRows, TypeOK
<1>4. QED
  BY <1>1, <1>3 DEF ClaimRows, TypeOK

\* The records a job is replaced by are jobs.
LEMMA JobTypes ==
    ASSUME TypeOK, NEW p \in Processors, NEW again \in BOOLEAN, NEW caught \in BOOLEAN
    PROVE  /\ job[p] \in Jobs
           /\ NoJob \in Jobs
           /\ [job[p] EXCEPT !.retryable = again] \in Jobs
           /\ [job[p] EXCEPT !.caught = caught] \in Jobs
           /\ [job[p] EXCEPT !.retryable = again, !.caught = caught] \in Jobs
<1>1. job[p] \in Jobs /\ NoJob \in Jobs
  BY DEF TypeOK, Jobs, NoJob
<1>2. QED
  BY <1>1 DEF Jobs

LEMMA ReleasedTypes ==
    ASSUME TypeOK, NEW p \in Processors, NEW step, Released(p, step)
    PROVE  job' \in [Processors -> Jobs]
  BY JobTypes DEF Released, TypeOK

LEMMA FailedRowType ==
    ASSUME TypeOK, NEW p \in Processors
    PROVE  FailedRow(job[p]) \in Rows
<1>1. job[p].attempts + 1 \in Nat
  BY DEF TypeOK, Jobs
<1>2. QED
  BY <1>1 DEF FailedRow, Rows

LEMMA ProcessorTypes ==
    ASSUME TypeOK, JobsNamed, NEW p \in Processors,
           ProcessorStep(p) \/ RetryExact(p) \/ Throw(p) \/ Crash(p)
    PROVE  TypeOK'
<1>1. CASE ClaimDue(p)
  BY <1>1, ClaimTypes DEF ClaimDue, Due, TypeOK
<1>2. CASE RetryExact(p)
  <2>1. PICK s \in Walmart : ClaimRows(p, {s}) /\ retries' = [retries EXCEPT ![s] = @ + 1]
    BY <1>2 DEF RetryExact
  <2>2. s \in Shipments
    BY OutboxAssumption
  <2>3. retries' \in [Shipments -> Nat]
    BY <2>1, <2>2 DEF TypeOK
  <2>4. QED
    BY <2>1, <2>2, <2>3, ClaimTypes
<1>3. CASE Take(p)
  <2>1. CASE batch[p] = {} /\ pc' = [pc EXCEPT ![p] = "idle"] /\ UNCHANGED <<batch, job>>
    BY <1>3, <2>1 DEF Take, TypeOK, rows
  <2>2. CASE \E c \in batch[p] :
               /\ batch' = [batch EXCEPT ![p] = @ \ {c}]
               /\ job' = [job EXCEPT ![p] = [ship |-> c.ship, attempts |-> c.attempts,
                                            retryable |-> TRUE, caught |-> FALSE]]
               /\ pc' = [pc EXCEPT ![p] = "call"]
    <3>1. PICK c \in batch[p] :
               /\ batch' = [batch EXCEPT ![p] = @ \ {c}]
               /\ job' = [job EXCEPT ![p] = [ship |-> c.ship, attempts |-> c.attempts,
                                            retryable |-> TRUE, caught |-> FALSE]]
               /\ pc' = [pc EXCEPT ![p] = "call"]
      BY <2>2
    <3>2. c.ship \in Shipments /\ c.attempts \in Nat
      BY DEF TypeOK, Claims
    <3>3. [ship |-> c.ship, attempts |-> c.attempts, retryable |-> TRUE, caught |-> FALSE] \in Jobs
      BY <3>2 DEF Jobs
    <3>4. job' \in [Processors -> Jobs]
      BY <3>1, <3>3 DEF TypeOK
    <3>5. batch' \in [Processors -> SUBSET Claims]
      BY <3>1 DEF TypeOK
    <3>6. QED
      BY <1>3, <3>1, <3>4, <3>5 DEF Take, TypeOK, rows
  <2>3. QED
    BY <1>3, <2>1, <2>2 DEF Take
<1>4. CASE CallStore(p)
  <2>0. job[p].ship \in Shipments
    BY <1>4 DEF JobsNamed, CallStore
  <2>1. job' \in [Processors -> Jobs]
    <3>1. CASE UNCHANGED job
      BY <3>1 DEF TypeOK
    <3>2. CASE \E again \in BOOLEAN : job' = [job EXCEPT ![p].retryable = again]
      BY <3>2, JobTypes DEF TypeOK
    <3>3. CASE job' = [job EXCEPT ![p].caught = TRUE]
      BY <3>3, JobTypes DEF TypeOK
    <3>4. QED
      BY <1>4, <3>1, <3>2, <3>3 DEF CallStore
  <2>2. calls' \in [Shipments -> Nat]
    BY <1>4, <2>0 DEF CallStore, TypeOK
  <2>3. QED
    BY <1>4, <2>0, <2>1, <2>2 DEF CallStore, TypeOK, WritesOutcome, AfterThrow, rows
<1>5. CASE CompleteRow(p)
  <2>1. job' \in [Processors -> Jobs]
    BY <1>5, ReleasedTypes DEF CompleteRow
  <2>2. row' \in [Shipments -> Rows]
    <3>1. CASE UNCHANGED row
      BY <3>1 DEF TypeOK
    <3>2. CASE row' = [row EXCEPT ![job[p].ship].status = "succeeded"]
      <4>1. \A s \in Shipments : row[s] \in Rows /\ [row[s] EXCEPT !.status = "succeeded"] \in Rows
        BY DEF TypeOK, Rows
      <4>2. row' = [row EXCEPT ![job[p].ship] = [@ EXCEPT !.status = "succeeded"]]
        BY <3>2 DEF TypeOK
      <4>3. QED
        BY <4>1, <4>2 DEF TypeOK
    <3>3. QED
      BY <1>5, <3>1, <3>2 DEF CompleteRow
  <2>3. QED
    BY <1>5, <2>1, <2>2 DEF CompleteRow, Released, TypeOK, WritesOutcome
<1>6. CASE FailRow(p)
  <2>1. job' \in [Processors -> Jobs]
    BY <1>6, ReleasedTypes DEF FailRow
  <2>2. row' \in [Shipments -> Rows]
    BY <1>6, FailedRowType DEF FailRow, TypeOK
  <2>3. QED
    BY <1>6, <2>1, <2>2 DEF FailRow, Released, AfterFailure, TypeOK, WritesOutcome
<1>7. CASE Throw(p)
  <2>1. job' \in [Processors -> Jobs]
    <3>1. CASE job' = [job EXCEPT ![p].retryable = TRUE, ![p].caught = TRUE]
      <4>1. [job[p] EXCEPT !.retryable = TRUE, !.caught = TRUE] \in Jobs
        BY JobTypes
      <4>2. job' = [job EXCEPT ![p] = [job[p] EXCEPT !.retryable = TRUE, !.caught = TRUE]]
        BY <3>1 DEF TypeOK
      <4>3. QED
        BY <4>1, <4>2 DEF TypeOK
    <3>2. CASE job' = [job EXCEPT ![p] = NoJob]
      BY <3>2, JobTypes DEF TypeOK
    <3>3. QED
      BY <1>7, <3>1, <3>2 DEF Throw
  <2>2. QED
    BY <1>7, <2>1 DEF Throw, TypeOK, WritesOutcome, rows
<1>8. CASE Crash(p)
  BY <1>8, JobTypes DEF Crash, TypeOK, rows
<1>9. QED
  BY <1>1, <1>2, <1>3, <1>4, <1>5, <1>6, <1>7, <1>8 DEF ProcessorStep

\* Time passes: only the due date of a row changes.
LEMMA BackoffTypes ==
    ASSUME TypeOK, NEW s \in Shipments, BackoffEnds(s)
    PROVE  TypeOK'
<1>1. row[s] \in Rows /\ [row[s] EXCEPT !.due = "now"] \in Rows
  BY DEF TypeOK, Rows
<1>2. row' = [row EXCEPT ![s] = [row[s] EXCEPT !.due = "now"]]
  BY DEF BackoffEnds, TypeOK
<1>3. row' \in [Shipments -> Rows]
  BY <1>1, <1>2 DEF TypeOK
<1>4. QED
  BY <1>3 DEF BackoffEnds, TypeOK

-----------------------------------------------------------------------------
(* What one shipment's part of the invariant survives                      *)

\* A processor that does not come to work on the shipment, nor claims it, disturbs
\* nothing as long as the row and the calls stay.
LEMMA Elsewhere ==
    ASSUME TypeOK, NEW s \in Own, ShipmentInv(s), NEW p \in Processors,
           row'[s] = row[s], calls'[s] = calls[s], maker'[s] = maker[s],
           \A q \in Processors \ {p} :
               batch'[q] = batch[q] /\ job'[q] = job[q] /\ pc'[q] = pc[q],
           \A c \in batch'[p] : c.ship = s => c \in batch[p],
           job'[p].ship # s
    PROVE  ShipmentInv(s)'
<1>1. RowInsertedOnce(s)' /\ DueRowCounted(s)' /\ CallsBounded(s)'
  BY DEF ShipmentInv, RowInsertedOnce, BeforeRow, DueRowCounted, CallsBounded, Claimable
<1>2. ClaimFresh(s)'
  BY DEF ShipmentInv, ClaimFresh
<1>3. JobCounted(s)'
  BY DEF ShipmentInv, JobCounted
<1>4. \A q \in Processors : Touches(q, s)' => Touches(q, s)
  BY DEF Touches
<1>5. QED
  BY <1>1, <1>2, <1>3, <1>4 DEF ShipmentInv, OneToucher

\* Nor does a step that leaves the row, the calls and every processor alone.
LEMMA Bystander ==
    ASSUME TypeOK, NEW s \in Own, ShipmentInv(s),
           row'[s] = row[s], calls' = calls, UNCHANGED <<pc, batch, job>>,
           RowInsertedOnce(s)'
    PROVE  ShipmentInv(s)'
<1>1. DueRowCounted(s)' /\ CallsBounded(s)'
  BY DEF ShipmentInv, DueRowCounted, CallsBounded, Claimable
<1>2. ClaimFresh(s)' /\ JobCounted(s)'
  BY DEF ShipmentInv, ClaimFresh, JobCounted
<1>3. \A q \in Processors : Touches(q, s)' <=> Touches(q, s)
  BY DEF Touches
<1>4. QED
  BY <1>1, <1>2, <1>3 DEF ShipmentInv, OneToucher

\* The one processor at work on the shipment may write its row and count a call, if
\* what it leaves cannot be claimed beyond the attempts it counts.
LEMMA AtWork ==
    ASSUME TypeOK, NEW s \in Own, ShipmentInv(s), NEW p \in Processors,
           job[p].ship = s, job'[p].ship = s, job'[p].attempts = job[p].attempts,
           maker' = maker, batch' = batch,
           \A q \in Processors \ {p} : job'[q] = job[q] /\ pc'[q] = pc[q],
           pc'[p] \in WritesOutcome,
           row'[s].status \in {"processing", "failed", "succeeded"},
           row'[s].status = "failed" => row'[s].due # "now",
           row'[s].status = "failed" /\ row'[s].due # "never" =>
               row'[s].attempts < MaxAttempts /\ calls'[s] <= row'[s].attempts,
           calls'[s] \in Nat,
           calls'[s] <= job[p].attempts + 1
    PROVE  ShipmentInv(s)'
<1>1. job[p].attempts \in Nat /\ job[p].attempts < MaxAttempts
  BY DEF ShipmentInv, JobCounted, TypeOK, Jobs
<1>2. \A q \in Processors : q # p => job[q].ship # s
  BY DEF ShipmentInv, OneToucher, Touches
<1>3. \A q \in Processors : \A c \in batch[q] : c.ship # s
  <2>1. \A q \in Processors : (\E c \in batch[q] : c.ship = s) => q = p
    BY DEF ShipmentInv, OneToucher, Touches
  <2>2. QED
    BY <2>1 DEF ShipmentInv, ClaimFresh
<1>4. RowInsertedOnce(s)' /\ DueRowCounted(s)'
  <2>1. row[s].status # "none"
    BY DEF ShipmentInv, JobCounted
  <2>2. QED
    BY <2>1 DEF ShipmentInv, RowInsertedOnce, BeforeRow, DueRowCounted, Claimable
<1>5. ClaimFresh(s)'
  BY <1>3 DEF ClaimFresh
<1>6. JobCounted(s)'
  BY <1>1, <1>2 DEF JobCounted, WritesOutcome
<1>7. OneToucher(s)'
  BY <1>2, <1>3 DEF OneToucher, Touches
<1>8. CallsBounded(s)'
  BY <1>1, OutboxAssumption DEF CallsBounded
<1>9. QED
  BY <1>4, <1>5, <1>6, <1>7, <1>8 DEF ShipmentInv

-----------------------------------------------------------------------------
(* One lemma per kind of step                                              *)

\* The request: for a row of the outbox's own it never marks an attempt.
LEMMA MakerSteps_ShipmentInv ==
    ASSUME OutboxInv, NEW s \in Own, NEW t \in Shipments,
           PersistLabel(t) \/ MakerStep(t) \/ MakerThrows(t) \/ MakerCrashes(t)
    PROVE  ShipmentInv(s)'
<1>1. TypeOK /\ ShipmentInv(s) /\ s \in Shipments /\ s \notin Walmart
  BY DEF OutboxInv, Own
<1>2. UNCHANGED <<calls, pc, batch, job>>
  BY DEF PersistLabel, MakerStep, RecordSource, EnqueueRow, MarkPending, MarkOrderPending,
     CallStoreDirectly, MarkAttempt, MakerThrows, MakerCrashes, Processing
<1>3. CASE t # s
  <2>1. row'[s] = row[s] /\ maker'[s] = maker[s]
    BY <1>1, <1>3 DEF TypeOK, PersistLabel, MakerStep, RecordSource, EnqueueRow, MarkPending,
       MarkOrderPending, CallStoreDirectly, MarkAttempt, MakerThrows, MakerCrashes, Proceed,
       MakerTo, rows
  <2>2. RowInsertedOnce(s)'
    BY <1>1, <1>2, <2>1 DEF ShipmentInv, RowInsertedOnce, BeforeRow
  <2>3. QED
    BY <1>1, <1>2, <2>1, <2>2, Bystander
<1>4. CASE t = s /\ ~EnqueueRow(s)
  <2>1. maker[s].at \notin {"store"} \cup MarkSteps
    BY <1>1 DEF ShipmentInv, RowInsertedOnce
  <2>2. UNCHANGED row
    BY <1>4, <2>1 DEF PersistLabel, MakerStep, RecordSource, MarkPending, MarkOrderPending,
       CallStoreDirectly, MarkAttempt, MakerThrows, MakerCrashes, Making, MarkSteps, rows
  <2>3. /\ maker'[s].at \in {"done"} \cup EnqueueSteps
        /\ maker'[s].at \in BeforeRow(s) => maker[s].at \in BeforeRow(s)
    <3>1. CASE Proceed(s) /\ maker[s].at \in ({"none"} \cup EnqueueSteps) \ {"row"}
      <4>1. maker'[s].at = EnqueuePath(s)[maker[s].at]
        BY <1>1, <3>1 DEF Proceed, MakerTo, TypeOK
      <4>2. QED
        BY <1>1, <3>1, <4>1 DEF EnqueuePath, RowFirst, RowLast, BeforeRow, EnqueueSteps
    <3>2. CASE MakerTo(s, "done")
      BY <1>1, <3>2 DEF MakerTo, TypeOK, BeforeRow
    <3>3. QED
      BY <1>1, <1>4, <2>1, <3>1, <3>2 DEF PersistLabel, MakerStep, RecordSource, MarkPending,
         MarkOrderPending, CallStoreDirectly, MarkAttempt, MakerThrows, MakerCrashes, Making,
         MarkSteps, EnqueueSteps
  <2>4. RowInsertedOnce(s)'
    <3>1. BeforeRow(s)' = BeforeRow(s)
      BY DEF BeforeRow
    <3>2. QED
      BY <1>1, <1>2, <2>2, <2>3, <3>1 DEF ShipmentInv, RowInsertedOnce, EnqueueSteps, MarkSteps
  <2>5. QED
    BY <1>1, <1>2, <2>2, <2>4, Bystander
<1>5. CASE EnqueueRow(s)
  <2>1. row[s].status = "none" /\ calls[s] = 0
    BY <1>1, <1>5 DEF ShipmentInv, RowInsertedOnce, BeforeRow, EnqueueRow, Making
  <2>2. \A q \in Processors : ~Touches(q, s)
    BY <1>1, <2>1 DEF ShipmentInv, ClaimFresh, JobCounted, Touches
  <2>3. row'[s] = [status |-> "pending", attempts |-> 0, due |-> "now"]
    BY <1>1, <1>5 DEF EnqueueRow, TypeOK
  <2>4. maker'[s].at \in {"shipment", "done"} /\ (maker'[s].at = "shipment" => s \notin Direct)
    <3>1. maker'[s].at = EnqueuePath(s)["row"]
      BY <1>1, <1>5 DEF EnqueueRow, Making, Proceed, MakerTo, TypeOK
    <3>2. QED
      BY <1>1, <3>1 DEF EnqueuePath, RowFirst, RowLast
  <2>5. RowInsertedOnce(s)' /\ DueRowCounted(s)' /\ CallsBounded(s)'
    BY <1>2, <2>1, <2>3, <2>4, OutboxAssumption
       DEF RowInsertedOnce, BeforeRow, MarkSteps, DueRowCounted, CallsBounded
  <2>6. ClaimFresh(s)' /\ JobCounted(s)' /\ OneToucher(s)'
    BY <1>2, <2>2 DEF ClaimFresh, JobCounted, OneToucher, Touches
  <2>7. QED
    BY <2>5, <2>6 DEF ShipmentInv
<1>6. QED
  BY <1>3, <1>4, <1>5

\* A claim: the row is then in the hands of this processor, and of no other.
LEMMA Claim_ShipmentInv ==
    ASSUME OutboxInv, NEW s \in Own, NEW p \in Processors, NEW S \in SUBSET Shipments,
           ClaimRows(p, S), s \in S => s \in Due
    PROVE  ShipmentInv(s)'
<1>1. TypeOK /\ ShipmentInv(s) /\ s \in Shipments
  BY DEF OutboxInv, Own
<1>2. \A q \in Processors \ {p} : batch'[q] = batch[q] /\ job'[q] = job[q] /\ pc'[q] = pc[q]
  BY <1>1 DEF ClaimRows, TypeOK
<1>3. batch'[p] = {ClaimOf(t) : t \in S} /\ pc'[p] = "take" /\ UNCHANGED <<job, maker, calls>>
  BY <1>1 DEF ClaimRows, TypeOK
<1>4. job[p].ship # s
  BY <1>1 DEF ClaimRows, ShipmentInv, JobCounted, WritesOutcome
<1>5. \A c \in batch'[p] : c.ship \in S /\ c = ClaimOf(c.ship)
  BY <1>3 DEF ClaimOf
<1>6. CASE s \notin S
  <2>1. row'[s] = row[s]
    BY <1>1, <1>6 DEF ClaimRows
  <2>2. QED
    BY <1>1, <1>2, <1>3, <1>4, <1>5, <1>6, <2>1, Elsewhere
<1>7. CASE s \in S
  <2>1. Claimable(s) /\ row[s].due = "now"
    BY <1>7 DEF Due
  <2>2. \A q \in Processors : ~Touches(q, s)
    BY <1>1, <2>1 DEF ShipmentInv, ClaimFresh, JobCounted, Touches, Claimable
  <2>3. row'[s] = [row[s] EXCEPT !.status = "processing"]
    BY <1>1, <1>7 DEF ClaimRows
  <2>4. row'[s].status = "processing" /\ row'[s].attempts = row[s].attempts
    BY <1>1, <2>3 DEF TypeOK, Rows
  <2>5. row[s].attempts < MaxAttempts /\ calls[s] <= row[s].attempts
    BY <1>1, <2>1 DEF ShipmentInv, DueRowCounted
  <2>6. RowInsertedOnce(s)' /\ DueRowCounted(s)' /\ CallsBounded(s)'
    BY <1>1, <1>3, <2>1, <2>4 DEF ShipmentInv, RowInsertedOnce, BeforeRow, DueRowCounted,
       CallsBounded, Claimable
  <2>7. ClaimFresh(s)'
    <3>1. \A q \in Processors : job'[q].ship # s
      BY <1>3, <2>2 DEF Touches
    <3>2. \A q \in Processors : \A c \in batch'[q] : c.ship = s => c = ClaimOf(s)
      BY <1>2, <1>5, <2>2 DEF Touches
    <3>3. ClaimOf(s).attempts = row[s].attempts
      BY DEF ClaimOf
    <3>4. QED
      BY <1>3, <2>4, <2>5, <3>1, <3>2, <3>3 DEF ClaimFresh
  <2>8. JobCounted(s)' /\ OneToucher(s)'
    BY <1>2, <1>3, <2>2 DEF JobCounted, OneToucher, Touches
  <2>9. QED
    BY <2>6, <2>7, <2>8 DEF ShipmentInv
<1>8. QED
  BY <1>6, <1>7

\* The processor's own steps.
LEMMA Processor_ShipmentInv ==
    ASSUME OutboxInv, NEW s \in Own, NEW p \in Processors,
           ProcessorStep(p) \/ RetryExact(p) \/ Throw(p) \/ Crash(p)
    PROVE  ShipmentInv(s)'
<1>1. TypeOK /\ ShipmentInv(s) /\ s \in Shipments /\ s \notin Walmart
  BY DEF OutboxInv, Own
<1>2. TypeOK'
  BY ProcessorTypes DEF OutboxInv
<1>3. CASE ClaimDue(p)
  BY <1>3, Claim_ShipmentInv DEF ClaimDue, Due
<1>4. CASE RetryExact(p)
  BY <1>1, <1>4, Claim_ShipmentInv, OutboxAssumption DEF RetryExact
<1>5. CASE ~ClaimDue(p) /\ ~RetryExact(p)
  <2>0. \A q \in Processors \ {p} : batch'[q] = batch[q] /\ job'[q] = job[q] /\ pc'[q] = pc[q]
    BY <1>1, <1>5 DEF ProcessorStep, Take, CallStore, CompleteRow, FailRow, Released, Throw,
       Crash, TypeOK
  <2>1. CASE Take(p)
    <3>1. UNCHANGED <<row, calls, maker>>
      BY <2>1 DEF Take, rows
    <3>2. job[p].ship # s
      BY <1>1, <2>1 DEF Take, ShipmentInv, JobCounted, WritesOutcome
    <3>3. CASE UNCHANGED <<batch, job>>
      BY <1>1, <2>0, <3>1, <3>2, <3>3, Elsewhere
    <3>4. CASE \E c \in batch[p] :
                 /\ batch' = [batch EXCEPT ![p] = @ \ {c}]
                 /\ job' = [job EXCEPT ![p] = [ship |-> c.ship, attempts |-> c.attempts,
                                              retryable |-> TRUE, caught |-> FALSE]]
                 /\ pc' = [pc EXCEPT ![p] = "call"]
      <4>1. PICK c \in batch[p] :
                 /\ batch' = [batch EXCEPT ![p] = @ \ {c}]
                 /\ job' = [job EXCEPT ![p] = [ship |-> c.ship, attempts |-> c.attempts,
                                              retryable |-> TRUE, caught |-> FALSE]]
                 /\ pc' = [pc EXCEPT ![p] = "call"]
        BY <3>4
      <4>2. /\ batch'[p] = batch[p] \ {c} /\ pc'[p] = "call"
            /\ job'[p].ship = c.ship /\ job'[p].attempts = c.attempts
        BY <1>1, <4>1 DEF TypeOK
      <4>3. CASE c.ship # s
        BY <1>1, <2>0, <3>1, <4>2, <4>3, Elsewhere
      <4>4. CASE c.ship = s
        <5>1. /\ row[s].status = "processing" /\ c.attempts = row[s].attempts
              /\ c.attempts < MaxAttempts /\ calls[s] <= c.attempts
          BY <1>1, <4>4 DEF ShipmentInv, ClaimFresh
        <5>2. \A q \in Processors : Touches(q, s) => q = p
          BY <1>1, <4>4 DEF ShipmentInv, OneToucher, Touches
        <5>3. \A d \in batch'[p] : d.ship # s
          <6>1. \A d \in batch[p] : d.ship = s => d.attempts = c.attempts
            BY <1>1, <5>1 DEF ShipmentInv, ClaimFresh
          <6>2. \A d \in batch[p] : d.ship = s => d = c
            BY <1>1, <4>4, <6>1 DEF TypeOK, Claims
          <6>3. QED
            BY <4>2, <6>2
        <5>4. \A q \in Processors : \A d \in batch'[q] : d.ship # s
          BY <2>0, <5>2, <5>3 DEF Touches
        <5>5. \A q \in Processors : job'[q].ship = s => q = p
          BY <2>0, <5>2 DEF Touches
        <5>6. RowInsertedOnce(s)' /\ DueRowCounted(s)' /\ CallsBounded(s)'
          BY <1>1, <3>1 DEF ShipmentInv, RowInsertedOnce, BeforeRow, DueRowCounted,
             CallsBounded, Claimable
        <5>7. ClaimFresh(s)' /\ OneToucher(s)'
          BY <5>4, <5>5 DEF ClaimFresh, OneToucher, Touches
        <5>8. JobCounted(s)'
          <6>1. c.attempts \in Nat
            BY <1>1 DEF TypeOK, Claims
          <6>2. QED
            BY <3>1, <4>2, <5>1, <5>5, <6>1 DEF JobCounted
        <5>9. QED
          BY <5>6, <5>7, <5>8 DEF ShipmentInv
      <4>5. QED
        BY <4>3, <4>4
    <3>5. QED
      BY <2>1, <3>3, <3>4 DEF Take
  <2>2. CASE ~Take(p) /\ job'[p].ship # s
    <3>2. row'[s] = row[s]
      <4>1. CASE job[p].ship # s
        BY <1>1, <1>5, <2>2, <4>1 DEF ProcessorStep, CallStore, CompleteRow, FailRow, Throw, Crash,
           TypeOK, rows
      <4>2. CASE job[p].ship = s
        BY <1>1, <1>5, <2>2, <4>2 DEF ProcessorStep, CallStore, CompleteRow, FailRow, Throw, Crash,
           Released, TypeOK, rows
      <4>3. QED
        BY <4>1, <4>2
    <3>3. calls'[s] = calls[s]
      <4>1. CASE job[p].ship # s
        BY <1>1, <1>5, <2>2, <4>1 DEF ProcessorStep, CallStore, CompleteRow, FailRow, Throw, Crash,
           TypeOK
      <4>2. CASE job[p].ship = s
        BY <1>1, <1>5, <2>2, <4>2 DEF ProcessorStep, CallStore, CompleteRow, FailRow, Throw, Crash,
           TypeOK, Jobs
      <4>3. QED
        BY <4>1, <4>2
    <3>4. maker' = maker /\ \A c \in batch'[p] : c \in batch[p]
      BY <1>1, <1>5, <2>2 DEF ProcessorStep, CallStore, CompleteRow, FailRow, Throw, Crash, TypeOK
    <3>5. QED
      BY <1>1, <2>0, <2>2, <3>2, <3>3, <3>4, Elsewhere
  <2>3. CASE ~Take(p) /\ job'[p].ship = s
    <3>1. UNCHANGED <<maker, batch>>
      BY <1>1, <1>2, <1>5, <2>3, OutboxAssumption DEF ProcessorStep, CallStore, CompleteRow,
         FailRow, Throw, Crash, NoJob, TypeOK
    <3>2. job[p].ship = s /\ job'[p].attempts = job[p].attempts
      BY <1>1, <1>5, <2>3, OutboxAssumption DEF ProcessorStep, CallStore, CompleteRow,
         FailRow, Released, Throw, Crash, NoJob, TypeOK, Jobs
    <3>3. /\ pc[p] \in {"call"} \cup WritesOutcome
          /\ row[s].status \in {"processing", "failed", "succeeded"}
          /\ row[s].status = "failed" => row[s].due # "now"
          /\ job[p].attempts \in Nat /\ job[p].attempts < MaxAttempts /\ calls[s] \in Nat
          /\ calls[s] <= job[p].attempts + (IF pc[p] = "call" THEN 0 ELSE 1)
      BY <1>1, <3>2 DEF ShipmentInv, JobCounted, TypeOK, Jobs
    <3>4. pc'[p] \in WritesOutcome
      BY <1>1, <1>5, <2>3, OutboxAssumption DEF ProcessorStep, CallStore, CompleteRow, FailRow, Released,
         AfterFailure, AfterThrow, Throw, Crash, NoJob, WritesOutcome, TypeOK
    <3>5. calls'[s] \in Nat /\ calls'[s] <= job[p].attempts + 1
      <4>1. CASE CallStore(p)
        BY <1>1, <3>2, <3>3, <4>1 DEF CallStore, TypeOK
      <4>2. CASE UNCHANGED calls
        BY <3>3, <4>2
      <4>3. QED
        BY <1>5, <2>3, <4>1, <4>2 DEF ProcessorStep, CompleteRow, FailRow, Throw, Crash
    <3>6. /\ row'[s].status \in {"processing", "failed", "succeeded"}
          /\ row'[s].status = "failed" => row'[s].due # "now"
          /\ row'[s].status = "failed" /\ row'[s].due # "never" =>
                 row'[s].attempts < MaxAttempts /\ calls'[s] <= row'[s].attempts
      <4>1. CASE UNCHANGED row /\ UNCHANGED calls
        BY <1>1, <3>3, <4>1 DEF ShipmentInv, DueRowCounted, Claimable
      <4>2. CASE CallStore(p)
        <5>1. row[s].status = "processing"
          BY <1>1, <3>2, <4>2 DEF CallStore, ShipmentInv, JobCounted
        <5>2. QED
          BY <4>2, <5>1 DEF CallStore, rows
      <4>3. CASE row' = [row EXCEPT ![s].status = "succeeded"]
        BY <1>1, <4>3 DEF TypeOK, Rows
      <4>4. CASE row' = [row EXCEPT ![s] = FailedRow(job[p])]
        BY <1>1, <3>3, <3>5, <4>4 DEF FailedRow, ShouldRetry, TypeOK
      <4>5. QED
        BY <1>5, <2>3, <3>2, <4>1, <4>2, <4>3, <4>4 DEF ProcessorStep, CompleteRow, FailRow,
           Throw, Crash, rows
    <3>7. QED
      BY <1>1, <2>0, <2>3, <3>1, <3>2, <3>4, <3>5, <3>6, AtWork
  <2>4. QED
    BY <2>1, <2>2, <2>3
<1>6. QED
  BY <1>3, <1>4, <1>5

\* The end of a backoff: nobody has the row, as only a failed row waits.
LEMMA Backoff_ShipmentInv ==
    ASSUME OutboxInv, NEW s \in Own, NEW t \in Shipments, BackoffEnds(t)
    PROVE  ShipmentInv(s)'
<1>1. TypeOK /\ ShipmentInv(s) /\ s \in Shipments
  BY DEF OutboxInv, Own
<1>2. UNCHANGED <<calls, maker, pc, batch, job>>
  BY DEF BackoffEnds
<1>3. CASE t # s
  <2>1. row'[s] = row[s]
    BY <1>1, <1>3 DEF BackoffEnds, TypeOK
  <2>2. RowInsertedOnce(s)'
    BY <1>1, <1>2, <2>1 DEF ShipmentInv, RowInsertedOnce, BeforeRow
  <2>3. QED
    BY <1>1, <1>2, <2>1, <2>2, Bystander
<1>4. CASE t = s
  <2>1. row[s].status = "failed" /\ row[s].due = "later" /\ \A q \in Processors : job[q].ship # s
    BY <1>4 DEF BackoffEnds
  <2>2. \A q \in Processors : \A c \in batch[q] : c.ship # s
    BY <1>1, <2>1 DEF ShipmentInv, ClaimFresh
  <2>3. row'[s].status = "failed" /\ row'[s].attempts = row[s].attempts
    BY <1>1, <1>4, <2>1 DEF BackoffEnds, TypeOK, Rows
  <2>4. RowInsertedOnce(s)' /\ DueRowCounted(s)' /\ CallsBounded(s)'
    BY <1>1, <1>2, <2>1, <2>3 DEF ShipmentInv, RowInsertedOnce, BeforeRow, DueRowCounted,
       CallsBounded, Claimable
  <2>5. ClaimFresh(s)' /\ JobCounted(s)' /\ OneToucher(s)'
    BY <1>2, <2>1, <2>2 DEF ClaimFresh, JobCounted, OneToucher, Touches
  <2>6. QED
    BY <2>4, <2>5 DEF ShipmentInv
<1>5. QED
  BY <1>3, <1>4

\* A processor keeps the row it works on until it has no more to write.
LEMMA Processor_JobsNamed ==
    ASSUME TypeOK, JobsNamed, NEW p \in Processors,
           ProcessorStep(p) \/ RetryExact(p) \/ Throw(p) \/ Crash(p)
    PROVE  JobsNamed'
<1>1. \A q \in Processors \ {p} : pc'[q] = pc[q] /\ job'[q] = job[q]
  BY DEF ProcessorStep, ClaimDue, RetryExact, ClaimRows, Take, CallStore, CompleteRow, FailRow,
     Released, Throw, Crash, TypeOK
<1>2. pc'[p] \in {"call"} \cup WritesOutcome => job'[p].ship \in Shipments
  <2>1. CASE ClaimDue(p) \/ RetryExact(p) \/ Crash(p)
    BY <2>1 DEF ClaimDue, RetryExact, ClaimRows, Crash, WritesOutcome, TypeOK
  <2>2. CASE Take(p)
    BY <2>2 DEF Take, WritesOutcome, TypeOK, Claims
  <2>3. CASE CallStore(p) \/ CompleteRow(p) \/ FailRow(p) \/ Throw(p)
    <3>1. pc[p] \in {"call"} \cup WritesOutcome
      BY <2>3 DEF CallStore, CompleteRow, FailRow, Throw, WritesOutcome
    <3>2. job[p].ship \in Shipments
      BY <3>1 DEF JobsNamed
    <3>3. pc'[p] \in {"take", "idle"} \/ job'[p].ship = job[p].ship
      BY <2>3 DEF CallStore, CompleteRow, FailRow, Released, Throw, TypeOK, Jobs
    <3>4. QED
      BY <3>2, <3>3 DEF WritesOutcome
  <2>4. QED
    BY <2>1, <2>2, <2>3 DEF ProcessorStep
<1>3. QED
  BY <1>1, <1>2 DEF JobsNamed

-----------------------------------------------------------------------------
(* The theorems                                                            *)

LEMMA InvInit == Init => OutboxInv
<1> SUFFICES ASSUME Init PROVE OutboxInv
  OBVIOUS
<1>1. TypeOK
  BY TypeInit
<1>2. JobsNamed
  BY DEF Init, JobsNamed, WritesOutcome
<1>3. ASSUME NEW s \in Own PROVE ShipmentInv(s)
  BY OutboxAssumption DEF Own, Init, ShipmentInv, RowInsertedOnce, BeforeRow, MarkSteps,
     DueRowCounted, Claimable, ClaimFresh, JobCounted, OneToucher, Touches, CallsBounded, NoJob
<1>4. QED
  BY <1>1, <1>2, <1>3 DEF OutboxInv

LEMMA InvStep == OutboxInv /\ [Next]_vars => OutboxInv'
<1> SUFFICES ASSUME OutboxInv, [Next]_vars PROVE OutboxInv'
  OBVIOUS
<1>0. TypeOK /\ JobsNamed
  BY DEF OutboxInv
<1>1. ASSUME NEW t \in Shipments,
             PersistLabel(t) \/ MakerStep(t) \/ MakerThrows(t) \/ MakerCrashes(t)
      PROVE  OutboxInv'
  <2>1. TypeOK'
    BY <1>0, <1>1, MakerTypes
  <2>2. UNCHANGED <<pc, job>>
    BY <1>1 DEF PersistLabel, MakerStep, RecordSource, EnqueueRow, MarkPending, MarkOrderPending,
       CallStoreDirectly, MarkAttempt, MakerThrows, MakerCrashes, Processing
  <2>3. JobsNamed'
    BY <1>0, <2>2 DEF JobsNamed
  <2>4. \A s \in Own : ShipmentInv(s)'
    BY <1>1, MakerSteps_ShipmentInv
  <2>5. QED
    BY <2>1, <2>3, <2>4 DEF OutboxInv, Own
<1>2. ASSUME NEW t \in Shipments, BackoffEnds(t)
      PROVE  OutboxInv'
  <2>1. TypeOK'
    BY <1>0, <1>2, BackoffTypes
  <2>2. JobsNamed'
    BY <1>0, <1>2 DEF JobsNamed, BackoffEnds
  <2>3. \A s \in Own : ShipmentInv(s)'
    BY <1>2, Backoff_ShipmentInv
  <2>4. QED
    BY <2>1, <2>2, <2>3 DEF OutboxInv, Own
<1>3. ASSUME NEW p \in Processors, ProcessorStep(p) \/ RetryExact(p) \/ Throw(p) \/ Crash(p)
      PROVE  OutboxInv'
  <2>1. TypeOK' /\ JobsNamed'
    BY <1>0, <1>3, ProcessorTypes, Processor_JobsNamed
  <2>2. \A s \in Own : ShipmentInv(s)'
    BY <1>3, Processor_ShipmentInv
  <2>3. QED
    BY <2>1, <2>2 DEF OutboxInv, Own
<1>4. CASE UNCHANGED vars
  BY <1>4 DEF vars, OutboxInv, TypeOK, JobsNamed, ShipmentInv, RowInsertedOnce, BeforeRow,
     DueRowCounted, Claimable, ClaimFresh, JobCounted, OneToucher, Touches, CallsBounded
<1>5. QED
  BY <1>1, <1>2, <1>3, <1>4 DEF Next

\* The invariant holds whatever fails, however many runs overlap.
THEOREM OutboxInductive == Spec => []OutboxInv
  BY InvInit, InvStep, PTL DEF Spec

\* Rows, statuses, claims and jobs keep their types.
THEOREM OutboxTypes == Spec => []TypeOK
<1>1. OutboxInv => TypeOK
  BY DEF OutboxInv
<1>2. QED
  BY <1>1, OutboxInductive, PTL

\* Two runs that overlap (scheduler, cron, the request itself) never both have a row
\* that only the outbox writes: claimDueOutboxRows hands it to one of them.
THEOREM OneRunAtATime == Spec => []OneRunPerRow
<1>1. OutboxInv => OneRunPerRow
  BY DEF OutboxInv, ShipmentInv, OneToucher, Touches, OneRunPerRow, Holds, Own
<1>2. QED
  BY <1>1, OutboxInductive, PTL

\* The store is called MAX_ATTEMPTS times at most for such a row, whatever number that
\* is, and although the attempts are counted after the call, in a statement that may
\* fail: the row is not claimed again before they are.
THEOREM RetriesAreBounded == Spec => []RetriesBounded
<1>1. OutboxInv => RetriesBounded
  BY DEF OutboxInv, ShipmentInv, CallsBounded, RetriesBounded, Own
<1>2. QED
  BY <1>1, OutboxInductive, PTL


-----------------------------------------------------------------------------
(* What says succeeded was told to the store                               *)

\* confirmed only grows: the store forgets nothing it has been told.
LEMMA ToldStays ==
    ASSUME TypeOK, [Next]_vars
    PROVE  confirmed \subseteq confirmed'
  BY DEF Next, vars, PersistLabel, MakerStep, RecordSource, EnqueueRow, MarkPending,
     MarkOrderPending, CallStoreDirectly, MarkAttempt, MakerThrows, MakerCrashes, BackoffEnds,
     ProcessorStep, ClaimDue, RetryExact, ClaimRows, Take, CallStore, CompleteRow, FailRow,
     Throw, Crash, Processing

LEMMA TypesStep ==
    ASSUME TypeOK, JobsNamed, Next
    PROVE  TypeOK' /\ JobsNamed'
<1>1. ASSUME NEW t \in Shipments,
             PersistLabel(t) \/ MakerStep(t) \/ MakerThrows(t) \/ MakerCrashes(t)
      PROVE  TypeOK' /\ JobsNamed'
  <2>1. TypeOK'
    BY <1>1, MakerTypes
  <2>2. UNCHANGED <<pc, job>>
    BY <1>1 DEF PersistLabel, MakerStep, RecordSource, EnqueueRow, MarkPending, MarkOrderPending,
       CallStoreDirectly, MarkAttempt, MakerThrows, MakerCrashes, Processing
  <2>3. QED
    BY <2>1, <2>2 DEF JobsNamed
<1>2. ASSUME NEW t \in Shipments, BackoffEnds(t)
      PROVE  TypeOK' /\ JobsNamed'
  BY <1>2, BackoffTypes DEF JobsNamed, BackoffEnds
<1>3. ASSUME NEW p \in Processors, ProcessorStep(p) \/ RetryExact(p) \/ Throw(p) \/ Crash(p)
      PROVE  TypeOK' /\ JobsNamed'
  BY <1>3, ProcessorTypes, Processor_JobsNamed
<1>4. QED
  BY <1>1, <1>2, <1>3 DEF Next

\* The request: it marks a success of its own call only, and then the store was told.
LEMMA MakerTold ==
    ASSUME ToldInv, NEW t \in Shipments,
           PersistLabel(t) \/ MakerStep(t) \/ MakerThrows(t) \/ MakerCrashes(t)
    PROVE  WritersWereTold' /\ DirectKeepsSource' /\ SucceededWasTold'
<1>0. TypeOK /\ WritersWereTold /\ DirectKeepsSource /\ SucceededWasTold
  BY DEF ToldInv
<1>1. UNCHANGED <<pc, job>> /\ confirmed \subseteq confirmed'
  <2>1. [Next]_vars
    BY DEF Next
  <2>2. QED
    BY <1>0, <2>1, ToldStays DEF PersistLabel, MakerStep, RecordSource, EnqueueRow, MarkPending,
       MarkOrderPending, CallStoreDirectly, MarkAttempt, MakerThrows, MakerCrashes, Processing
<1>2. \A s \in Shipments : s # t => maker'[s] = maker[s]
  BY <1>0 DEF TypeOK, PersistLabel, MakerStep, RecordSource, EnqueueRow, MarkPending,
     MarkOrderPending, CallStoreDirectly, MarkAttempt, MakerThrows, MakerCrashes, Proceed, MakerTo
<1>3. /\ maker'[t].at \in MarkSteps /\ maker'[t].ok => t \in confirmed'
      /\ t \in Direct => maker'[t].at # "source"
  <2>1. CASE Proceed(t) /\ maker[t].at \in {"none"} \cup EnqueueSteps
    <3>1. maker'[t].at = EnqueuePath(t)[maker[t].at]
      BY <1>0, <2>1 DEF Proceed, MakerTo, TypeOK
    <3>2. QED
      BY <1>0, <2>1, <3>1 DEF EnqueuePath, RowFirst, RowLast, EnqueueSteps, MarkSteps,
         DirectKeepsSource
  <2>2. CASE CallStoreDirectly(t)
    BY <1>0, <2>2 DEF CallStoreDirectly, TypeOK
  <2>3. CASE MarkAttempt(t)
    BY <1>0, <1>1, <2>3 DEF MarkAttempt, Making, MakerTo, TypeOK, MarkSteps, WritersWereTold
  <2>4. CASE MakerThrows(t) \/ MakerCrashes(t)
    BY <1>0, <2>4 DEF MakerThrows, MakerCrashes, MakerTo, TypeOK, MarkSteps, EnqueueSteps
  <2>5. QED
    BY <2>1, <2>2, <2>3, <2>4 DEF PersistLabel, MakerStep, RecordSource, EnqueueRow,
       MarkPending, MarkOrderPending, Making, EnqueueSteps
<1>4. WritersWereTold'
  BY <1>0, <1>1, <1>2, <1>3 DEF WritersWereTold
<1>5. DirectKeepsSource'
  BY <1>0, <1>2, <1>3, OutboxAssumption DEF DirectKeepsSource
<1>6. ASSUME NEW s \in Shipments, row'[s].status = "succeeded" \/ shown'[s] = "succeeded"
      PROVE  s \in confirmed'
  <2>1. CASE row[s].status = "succeeded" \/ shown[s] = "succeeded"
    BY <1>0, <1>1, <2>1 DEF SucceededWasTold
  <2>2. CASE ~(row[s].status = "succeeded" \/ shown[s] = "succeeded")
    <3>1. MarkAttempt(t) /\ s = t /\ maker[t].ok
      BY <1>0, <1>6, <2>2 DEF TypeOK, PersistLabel, MakerStep, RecordSource, EnqueueRow,
         MarkPending, MarkOrderPending, CallStoreDirectly, MarkAttempt, MakerThrows,
         MakerCrashes, rows
    <3>2. QED
      BY <1>0, <1>1, <3>1 DEF MarkAttempt, Making, MarkSteps, WritersWereTold
  <2>3. QED
    BY <2>1, <2>2
<1>7. ASSUME canonical' = "shipped", Shipments = Direct
      PROVE  confirmed' # {}
  <2>1. CASE canonical = "shipped"
    BY <1>0, <1>1, <1>7, <2>1 DEF SucceededWasTold
  <2>2. CASE canonical # "shipped"
    <3>1. ~RecordSource(t)
      BY <1>0, <1>7 DEF RecordSource, Making, DirectKeepsSource
    <3>2. Making(t, "markOrder") /\ maker[t].ok
      BY <1>7, <2>2, <3>1 DEF PersistLabel, MakerStep, EnqueueRow, MarkPending,
         MarkOrderPending, CallStoreDirectly, MarkAttempt, MakerThrows, MakerCrashes, rows
    <3>3. QED
      BY <1>0, <1>1, <3>2 DEF Making, MarkSteps, WritersWereTold
  <2>3. QED
    BY <2>1, <2>2
<1>8. QED
  BY <1>4, <1>5, <1>6, <1>7 DEF SucceededWasTold

\* A processor comes to completeOutboxRow with the store's answer in hand.
LEMMA ProcessorTold ==
    ASSUME ToldInv, NEW p \in Processors,
           ProcessorStep(p) \/ RetryExact(p) \/ Throw(p) \/ Crash(p)
    PROVE  WritersWereTold' /\ DirectKeepsSource' /\ SucceededWasTold'
<1> DEFINE Completing == {"completeRow", "completeShipment", "completeOrder"}
<1>0. TypeOK /\ JobsNamed /\ WritersWereTold /\ DirectKeepsSource /\ SucceededWasTold
  BY DEF ToldInv
<1>1. UNCHANGED maker /\ confirmed \subseteq confirmed'
  <2>1. [Next]_vars
    BY DEF Next
  <2>2. QED
    BY <1>0, <2>1, ToldStays DEF ProcessorStep, ClaimDue, RetryExact, ClaimRows, Take, CallStore,
       CompleteRow, FailRow, Throw, Crash
<1>2. \A q \in Processors \ {p} : pc'[q] = pc[q] /\ job'[q] = job[q]
  BY <1>0 DEF ProcessorStep, ClaimDue, RetryExact, ClaimRows, Take, CallStore, CompleteRow,
     FailRow, Released, Throw, Crash, TypeOK
<1>3. pc'[p] \in Completing => job'[p].ship \in confirmed'
  <2>1. CASE CallStore(p)
    BY <1>0, <2>1 DEF CallStore, AfterThrow, TypeOK
  <2>2. CASE CompleteRow(p)
    BY <1>0, <1>1, <2>2 DEF CompleteRow, Released, TypeOK, WritersWereTold
  <2>3. CASE ClaimDue(p) \/ RetryExact(p) \/ Take(p) \/ FailRow(p) \/ Throw(p) \/ Crash(p)
    BY <1>0, <2>3 DEF ClaimDue, RetryExact, ClaimRows, Take, FailRow, Released, AfterFailure,
       Throw, Crash, TypeOK
  <2>4. QED
    BY <2>1, <2>2, <2>3 DEF ProcessorStep
<1>4. WritersWereTold'
  BY <1>0, <1>1, <1>2, <1>3 DEF WritersWereTold
<1>5. DirectKeepsSource'
  BY <1>0, <1>1 DEF DirectKeepsSource
<1>6. CASE CompleteRow(p)
  <2>1. job[p].ship \in confirmed /\ job[p].ship \in Shipments
    BY <1>0, <1>6 DEF CompleteRow, WritersWereTold, JobsNamed, WritesOutcome
  <2>2. \A s \in Shipments : s # job[p].ship => row'[s] = row[s] /\ shown'[s] = shown[s]
    BY <1>0, <1>6 DEF CompleteRow, TypeOK
  <2>3. QED
    BY <1>0, <1>1, <1>4, <1>5, <2>1, <2>2 DEF SucceededWasTold
<1>7. CASE ~CompleteRow(p)
  <2>1. \A s \in Shipments : /\ row'[s].status = "succeeded" => row[s].status = "succeeded"
                             /\ shown'[s] = "succeeded" => shown[s] = "succeeded"
    <3>1. CASE ClaimDue(p) \/ RetryExact(p)
      BY <1>0, <3>1 DEF ClaimDue, RetryExact, ClaimRows, TypeOK, Rows
    <3>2. CASE Take(p) \/ CallStore(p) \/ Throw(p) \/ Crash(p)
      BY <3>2 DEF Take, CallStore, Throw, Crash, rows
    <3>3. CASE FailRow(p)
      BY <1>0, <3>3 DEF FailRow, FailedRow, TypeOK
    <3>4. QED
      BY <1>7, <3>1, <3>2, <3>3 DEF ProcessorStep
  <2>2. canonical' = "shipped" => canonical = "shipped"
    BY <1>7 DEF ProcessorStep, ClaimDue, RetryExact, ClaimRows, Take, CallStore, FailRow, Throw,
       Crash, rows
  <2>3. QED
    BY <1>0, <1>1, <1>4, <1>5, <2>1, <2>2 DEF SucceededWasTold
<1>8. QED
  BY <1>6, <1>7

LEMMA ToldInit == Init => ToldInv
<1>1. Init => JobsNamed
  BY DEF Init, JobsNamed, WritesOutcome
<1>2. Init => WritersWereTold /\ DirectKeepsSource /\ SucceededWasTold
  BY OutboxAssumption DEF Init, WritersWereTold, DirectKeepsSource, SucceededWasTold
<1>3. QED
  BY <1>1, <1>2, TypeInit DEF ToldInv

LEMMA ToldStep == ToldInv /\ [Next]_vars => ToldInv'
<1> SUFFICES ASSUME ToldInv, [Next]_vars PROVE ToldInv'
  OBVIOUS
<1>1. ASSUME Next PROVE TypeOK' /\ JobsNamed'
  BY <1>1, TypesStep DEF ToldInv
<1>2. ASSUME NEW t \in Shipments,
             PersistLabel(t) \/ MakerStep(t) \/ MakerThrows(t) \/ MakerCrashes(t)
      PROVE  ToldInv'
  BY <1>1, <1>2, MakerTold DEF ToldInv, Next
<1>3. ASSUME NEW t \in Shipments, BackoffEnds(t)
      PROVE  ToldInv'
  <2>1. TypeOK' /\ JobsNamed'
    BY <1>1, <1>3 DEF Next
  <2>2. \A s \in Shipments : row'[s].status = "succeeded" => row[s].status = "succeeded"
    BY <1>3 DEF ToldInv, BackoffEnds, TypeOK, Rows
  <2>3. QED
    BY <1>3, <2>1, <2>2 DEF ToldInv, BackoffEnds, WritersWereTold, DirectKeepsSource,
       SucceededWasTold
<1>4. ASSUME NEW p \in Processors, ProcessorStep(p) \/ RetryExact(p) \/ Throw(p) \/ Crash(p)
      PROVE  ToldInv'
  BY <1>1, <1>4, ProcessorTold DEF ToldInv, Next
<1>5. CASE UNCHANGED vars
  BY <1>5 DEF vars, ToldInv, TypeOK, JobsNamed, WritersWereTold, DirectKeepsSource,
     SucceededWasTold
<1>6. QED
  BY <1>2, <1>3, <1>4, <1>5 DEF Next

\* However the endpoint's own call, the runs of the outbox and an operator's retries
\* overlap, and whatever statement fails or process dies, neither completeOutboxRow nor
\* markWalmartConfirmationAttemptSql writes succeeded of what the store was not told.
THEOREM SuccessWasTold == Spec => []SucceededWasTold
<1>1. ToldInv => SucceededWasTold
  BY DEF ToldInv
<1>2. QED
  BY <1>1, ToldInit, ToldStep, PTL DEF Spec


-----------------------------------------------------------------------------
(* What a settled shipment and its order show                              *)

\* A step that leaves the row, what is shown, and whoever works on the shipment.
LEMMA ShownElsewhere ==
    ASSUME TypeOK, NEW s \in Shipments, RowAtStep(s), ShipmentAgrees(s),
           row'[s] = row[s], shown'[s] = shown[s],
           \A q \in Processors : job'[q].ship = s => job'[q] = job[q] /\ pc'[q] = pc[q],
           \A q \in Processors : job[q].ship = s => job'[q].ship = s
    PROVE  RowAtStep(s)' /\ ShipmentAgrees(s)'
<1>1. RowAtStep(s)'
  BY DEF RowAtStep, FailedRow, ShouldRetry
<1>2. ShipmentWritten(s)' => ShipmentWritten(s)
  BY DEF ShipmentWritten
<1>3. QED
  BY <1>1, <1>2 DEF ShipmentAgrees, Settled, GivenUp

\* The request of a direct carrier's shipment is over only once its row is inserted, and
\* a row just inserted is not settled.
LEMMA MakerShown ==
    ASSUME OutboxInv, Faults = {}, NEW t \in Direct \ Walmart,
           PersistLabel(t) \/ MakerStep(t) \/ MakerThrows(t) \/ MakerCrashes(t)
    PROVE  /\ row'[t].status \in {"none", "pending"}
           /\ \A q \in Processors : job'[q].ship # t
<1>1. TypeOK /\ ShipmentInv(t) /\ t \in Shipments
  BY OutboxAssumption DEF OutboxInv, Own
<1>2. maker[t].at \notin {"store", "done"} \cup MarkSteps
  BY <1>1 DEF ShipmentInv, RowInsertedOnce, PersistLabel, MakerStep, RecordSource, EnqueueRow,
     MarkPending, MarkOrderPending, CallStoreDirectly, MarkAttempt, MakerThrows, MakerCrashes,
     Making, EnqueueSteps, MarkSteps
<1>3. maker[t].at \in BeforeRow(t)
  BY <1>1, <1>2 DEF TypeOK, MakerSteps, EnqueueSteps, BeforeRow
<1>4. row[t].status = "none"
  BY <1>1, <1>3 DEF ShipmentInv, RowInsertedOnce
<1>5. \A q \in Processors : job[q].ship # t
  BY <1>1, <1>4 DEF ShipmentInv, JobCounted
<1>6. UNCHANGED job
  BY DEF PersistLabel, MakerStep, RecordSource, EnqueueRow, MarkPending, MarkOrderPending,
     CallStoreDirectly, MarkAttempt, MakerThrows, MakerCrashes, Processing
<1>7. row'[t].status \in {"none", "pending"}
  BY <1>1, <1>2, <1>4 DEF PersistLabel, MakerStep, RecordSource, EnqueueRow, MarkPending,
     MarkOrderPending, CallStoreDirectly, MarkAttempt, MakerThrows, MakerCrashes, Making,
     MarkSteps, rows, TypeOK
<1>8. QED
  BY <1>5, <1>6, <1>7

LEMMA MakerSettled ==
    ASSUME SettledInv, Faults = {}, NEW t \in Shipments,
           PersistLabel(t) \/ MakerStep(t) \/ MakerThrows(t) \/ MakerCrashes(t)
    PROVE  /\ \A s \in Direct \ Walmart : RowAtStep(s)' /\ ShipmentAgrees(s)'
           /\ OrderShowsARow'
<1>0. OutboxInv /\ TypeOK
  BY DEF SettledInv, OutboxInv
<1>1. ASSUME NEW s \in Direct \ Walmart
      PROVE  RowAtStep(s)' /\ ShipmentAgrees(s)'
  <2>0. s \in Shipments
    BY OutboxAssumption
  <2>1. CASE s = t
    BY <1>0, <1>1, <2>1, MakerShown DEF RowAtStep, ShipmentAgrees, Settled, GivenUp
  <2>2. CASE s # t
    <3>1. row'[s] = row[s]
      BY <1>0, <2>0, <2>2 DEF TypeOK, PersistLabel, MakerStep, RecordSource, EnqueueRow,
         MarkPending, MarkOrderPending, CallStoreDirectly, MarkAttempt, MakerThrows,
         MakerCrashes, rows
    <3>2. shown'[s] = shown[s]
      BY <1>0, <2>0, <2>2 DEF TypeOK, PersistLabel, MakerStep, RecordSource, EnqueueRow,
         MarkPending, MarkOrderPending, CallStoreDirectly, MarkAttempt, MakerThrows,
         MakerCrashes, rows
    <3>3. UNCHANGED <<pc, job>>
      BY DEF PersistLabel, MakerStep, RecordSource, EnqueueRow, MarkPending, MarkOrderPending,
         CallStoreDirectly, MarkAttempt, MakerThrows, MakerCrashes, Processing
    <3>4. RowAtStep(s) /\ ShipmentAgrees(s)
      BY <1>1, <2>0 DEF SettledInv
    <3>5. QED
      BY <1>0, <2>0, <3>1, <3>2, <3>3, <3>4, ShownElsewhere
  <2>3. QED
    BY <2>1, <2>2
<1>2. Walmart = {} /\ Shipments = Direct => ~Settled(t)'
  BY <1>0, MakerShown DEF Settled, GivenUp
<1>3. QED
  BY <1>1, <1>2 DEF OrderShowsARow

\* The end of a backoff: the row was waiting, so nobody had it, and it is due again.
LEMMA BackoffSettled ==
    ASSUME SettledInv, Faults = {}, NEW t \in Shipments, BackoffEnds(t)
    PROVE  /\ \A s \in Direct \ Walmart : RowAtStep(s)' /\ ShipmentAgrees(s)'
           /\ OrderShowsARow'
<1>0. TypeOK /\ UNCHANGED <<shown, pc, job>>
  BY DEF SettledInv, OutboxInv, BackoffEnds
<1>1. row'[t].status = "failed" /\ row'[t].due = "now" /\ \A q \in Processors : job'[q].ship # t
  BY <1>0 DEF BackoffEnds, TypeOK, Rows
<1>2. \A s \in Shipments : s # t => row'[s] = row[s]
  BY <1>0 DEF BackoffEnds, TypeOK
<1>3. ASSUME NEW s \in Direct \ Walmart
      PROVE  RowAtStep(s)' /\ ShipmentAgrees(s)'
  <2>1. CASE s = t
    BY <1>1, <2>1 DEF RowAtStep, ShipmentAgrees, Settled, GivenUp
  <2>2. CASE s # t
    BY <1>0, <1>2, <2>2, ShownElsewhere, OutboxAssumption DEF SettledInv
  <2>3. QED
    BY <2>1, <2>2
<1>4. ~Settled(t)'
  BY <1>1 DEF Settled, GivenUp
<1>5. QED
  BY <1>3, <1>4 DEF OrderShowsARow

\* The processor that has the row writes it, then the shipment.
LEMMA WorkerShown ==
    ASSUME SettledInv, Faults = {}, NEW s \in Direct \ Walmart, NEW p \in Processors,
           job[p].ship = s, CallStore(p) \/ CompleteRow(p) \/ FailRow(p)
    PROVE  RowAtStep(s)' /\ ShipmentAgrees(s)'
<1>0. TypeOK /\ ShipmentInv(s) /\ s \in Shipments /\ RowAtStep(s) /\ ShipmentAgrees(s)
  BY OutboxAssumption DEF SettledInv, OutboxInv, Own
<1>1. \A q \in Processors : q # p => job[q].ship # s /\ job'[q] = job[q]
  BY <1>0 DEF ShipmentInv, OneToucher, Touches, CallStore, CompleteRow, FailRow, Released, TypeOK
<1>2. CASE CallStore(p)
  <2>1. row[s].status = "processing" /\ UNCHANGED row
    BY <1>0, <1>2 DEF CallStore, RowAtStep, rows
  <2>2. pc'[p] \in {"completeRow", "failRow"}
    BY <1>0, <1>2 DEF CallStore, AfterThrow, TypeOK
  <2>3. QED
    BY <1>1, <2>1, <2>2 DEF RowAtStep, ShipmentAgrees, Settled, GivenUp
<1>3. CASE pc[p] = "completeRow" /\ CompleteRow(p)
  <2>1. row'[s].status = "succeeded" /\ pc'[p] = "completeShipment" /\ job' = job
    BY <1>0, <1>3 DEF CompleteRow, Released, TypeOK, Rows
  <2>2. QED
    BY <1>1, <2>1 DEF RowAtStep, ShipmentAgrees, ShipmentWritten
<1>4. CASE pc[p] = "completeShipment" /\ CompleteRow(p)
  <2>1. row[s].status = "succeeded" /\ row' = row
    BY <1>0, <1>4 DEF CompleteRow, RowAtStep
  <2>2. shown'[s] = "succeeded" /\ pc'[p] = "completeOrder" /\ job' = job
    BY <1>0, <1>4 DEF CompleteRow, Released, TypeOK
  <2>3. QED
    BY <1>1, <2>1, <2>2 DEF RowAtStep, ShipmentAgrees, GivenUp
<1>5. CASE pc[p] = "failRow" /\ FailRow(p)
  <2>1. row'[s] = FailedRow(job[p]) /\ pc'[p] = "failShipment" /\ job' = job
    BY <1>0, <1>5 DEF FailRow, Released, TypeOK
  <2>2. QED
    BY <1>1, <2>1 DEF RowAtStep, ShipmentAgrees, ShipmentWritten, FailedRow, ShouldRetry
<1>6. CASE pc[p] = "failShipment" /\ FailRow(p)
  <2>1. row[s] = FailedRow(job[p]) /\ row' = row /\ shown'[s] = "failed"
    BY <1>0, <1>6 DEF FailRow, RowAtStep, TypeOK
  <2>2. CASE ShouldRetry(job[p])
    <3>1. row'[s].status = "failed" /\ row'[s].due = "later"
      BY <2>1, <2>2 DEF FailedRow
    <3>2. job'[p].ship # s
      BY <1>0, <1>6, <2>2, OutboxAssumption DEF FailRow, Released, AfterFailure, NoJob, TypeOK
    <3>3. QED
      BY <1>1, <3>1, <3>2 DEF RowAtStep, ShipmentAgrees, Settled, GivenUp
  <2>3. CASE ~ShouldRetry(job[p])
    <3>1. row'[s].status = "failed" /\ row'[s].due = "never"
      BY <2>1, <2>3 DEF FailedRow
    <3>2. pc'[p] = "failOrder" /\ job' = job
      BY <1>0, <1>6, <2>3 DEF FailRow, Released, AfterFailure, TypeOK
    <3>3. RowAtStep(s)'
      BY <1>1, <2>1, <2>3, <3>2 DEF RowAtStep, FailedRow, ShouldRetry
    <3>4. QED
      BY <2>1, <3>1, <3>3 DEF ShipmentAgrees, GivenUp
  <2>4. QED
    BY <2>2, <2>3
<1>7. CASE pc[p] \in {"completeOrder", "failOrder"} /\ (CompleteRow(p) \/ FailRow(p))
  <2>1. ShipmentWritten(s)
    BY <1>1, <1>7 DEF ShipmentWritten
  <2>2. row' = row /\ shown' = shown /\ job'[p].ship # s
    BY <1>0, <1>7, OutboxAssumption DEF CompleteRow, FailRow, Released, NoJob, TypeOK
  <2>3. QED
    BY <1>0, <1>1, <2>1, <2>2 DEF RowAtStep, ShipmentAgrees, Settled, GivenUp
<1>8. QED
  BY <1>2, <1>3, <1>4, <1>5, <1>6, <1>7 DEF CompleteRow, FailRow

\* Any step of a processor, as one shipment and its row see it.
LEMMA ProcessorShown ==
    ASSUME SettledInv, Faults = {}, NEW s \in Direct \ Walmart, NEW p \in Processors,
           ProcessorStep(p) \/ RetryExact(p) \/ Throw(p) \/ Crash(p)
    PROVE  RowAtStep(s)' /\ ShipmentAgrees(s)'
<1>0. TypeOK /\ ShipmentInv(s) /\ s \in Shipments /\ RowAtStep(s) /\ ShipmentAgrees(s)
  BY OutboxAssumption DEF SettledInv, OutboxInv, Own
<1>1. CASE ClaimDue(p)
  <2>1. UNCHANGED <<shown, job>> /\ \A q \in Processors \ {p} : pc'[q] = pc[q]
    BY <1>0, <1>1 DEF ClaimDue, ClaimRows, TypeOK
  <2>2. CASE s \in Due
    <3>1. row'[s].status = "processing"
      BY <1>0, <1>1, <2>2 DEF ClaimDue, ClaimRows, TypeOK, Rows
    <3>2. \A q \in Processors : job[q].ship # s
      BY <1>0, <2>2 DEF Due, Claimable, ShipmentInv, JobCounted
    <3>3. QED
      BY <2>1, <3>1, <3>2 DEF RowAtStep, ShipmentAgrees, Settled, GivenUp
  <2>3. CASE s \notin Due
    <3>1. row'[s] = row[s]
      BY <1>0, <1>1, <2>3 DEF ClaimDue, ClaimRows
    <3>2. job[p].ship # s
      BY <1>0, <1>1 DEF ClaimDue, ClaimRows, ShipmentInv, JobCounted, WritesOutcome
    <3>3. QED
      BY <1>0, <2>1, <3>1, <3>2, ShownElsewhere
  <2>4. QED
    BY <2>2, <2>3
<1>2. CASE RetryExact(p)
  <2>1. UNCHANGED <<shown, job>> /\ \A q \in Processors \ {p} : pc'[q] = pc[q]
    BY <1>0, <1>2 DEF RetryExact, ClaimRows, TypeOK
  <2>2. row'[s] = row[s]
    BY <1>0, <1>2 DEF RetryExact, ClaimRows
  <2>3. job[p].ship # s
    BY <1>0, <1>2 DEF RetryExact, ClaimRows, ShipmentInv, JobCounted, WritesOutcome
  <2>4. QED
    BY <1>0, <2>1, <2>2, <2>3, ShownElsewhere
<1>3. CASE Take(p)
  <2>1. UNCHANGED <<row, shown>> /\ job[p].ship # s
    BY <1>0, <1>3 DEF Take, rows, ShipmentInv, JobCounted, WritesOutcome
  <2>2. \A q \in Processors \ {p} : pc'[q] = pc[q] /\ job'[q] = job[q]
    BY <1>0, <1>3 DEF Take, TypeOK
  <2>3. CASE job'[p].ship # s
    BY <1>0, <2>1, <2>2, <2>3, ShownElsewhere
  <2>4. CASE job'[p].ship = s
    <3>1. PICK c \in batch[p] : /\ job' = [job EXCEPT ![p] = [ship |-> c.ship,
                                              attempts |-> c.attempts,
                                              retryable |-> TRUE, caught |-> FALSE]]
                                /\ pc' = [pc EXCEPT ![p] = "call"]
      BY <1>3, <2>1, <2>4 DEF Take
    <3>2. c.ship = s /\ pc'[p] = "call"
      BY <1>0, <2>4, <3>1 DEF TypeOK
    <3>3. row[s].status = "processing" /\ \A q \in Processors : job[q].ship # s
      BY <1>0, <3>2 DEF ShipmentInv, ClaimFresh, OneToucher, Touches
    <3>4. QED
      BY <2>1, <2>2, <3>2, <3>3 DEF RowAtStep, ShipmentAgrees, Settled, GivenUp
  <2>5. QED
    BY <2>3, <2>4
<1>4. CASE CallStore(p) \/ CompleteRow(p) \/ FailRow(p)
  <2>1. CASE job[p].ship = s
    BY <1>4, <2>1, WorkerShown
  <2>2. CASE job[p].ship # s
    <3>1. row'[s] = row[s] /\ shown'[s] = shown[s]
      BY <1>0, <1>4, <2>2 DEF CallStore, CompleteRow, FailRow, rows, TypeOK
    <3>2. \A q \in Processors \ {p} : pc'[q] = pc[q] /\ job'[q] = job[q]
      BY <1>0, <1>4 DEF CallStore, CompleteRow, FailRow, Released, TypeOK
    <3>3. job'[p].ship # s
      BY <1>0, <1>4, <2>2, OutboxAssumption DEF CallStore, CompleteRow, FailRow, Released, NoJob,
         TypeOK, Jobs
    <3>4. QED
      BY <1>0, <2>2, <3>1, <3>2, <3>3, ShownElsewhere
  <2>3. QED
    BY <2>1, <2>2
<1>5. ~Throw(p) /\ ~Crash(p)
  BY DEF Throw, Crash
<1>6. QED
  BY <1>1, <1>2, <1>3, <1>4, <1>5 DEF ProcessorStep

\* The order is written last, by the processor that lets the row go.
LEMMA ProcessorOrder ==
    ASSUME SettledInv, NEW p \in Processors,
           ProcessorStep(p) \/ RetryExact(p) \/ Throw(p) \/ Crash(p)
    PROVE  OrderShowsARow'
<1> SUFFICES ASSUME Faults = {}, Walmart = {}, Shipments = Direct,
                    \A s \in Shipments : Quiet(s)' /\ Settled(s)'
             PROVE  \E s \in Shipments :
                        canonical' = IF GivenUp(s)' THEN "failed" ELSE "shipped"
  BY DEF OrderShowsARow
<1>0. TypeOK /\ JobsNamed /\ OrderShowsARow /\ \A s \in Shipments : RowAtStep(s)
  BY DEF SettledInv, OutboxInv
<1>1. \A s \in Shipments : job'[p].ship # s
  BY DEF Quiet
<1>2. ~ClaimDue(p)
  <2>1. SUFFICES ASSUME ClaimDue(p) PROVE FALSE
    OBVIOUS
  <2>2. PICK s \in Due : s \in Shipments
    BY <2>1 DEF ClaimDue, ClaimRows, Due
  <2>3. row'[s].status = "processing"
    BY <1>0, <2>1, <2>2 DEF ClaimDue, ClaimRows, TypeOK, Rows
  <2>4. QED
    BY <2>2, <2>3 DEF Settled, GivenUp
<1>3. ~CallStore(p)
  <2>1. SUFFICES ASSUME CallStore(p) PROVE FALSE
    OBVIOUS
  <2>2. job[p].ship \in Shipments /\ job'[p].ship = job[p].ship
    BY <1>0, <2>1 DEF CallStore, JobsNamed, TypeOK, Jobs
  <2>3. QED
    BY <1>1, <2>2
<1>4. CASE Take(p)
  <2>1. UNCHANGED job
    <3>1. \A c \in batch[p] : c.ship \in Shipments
      BY <1>0 DEF TypeOK, Claims
    <3>2. QED
      BY <1>0, <1>1, <1>4, <3>1 DEF Take, TypeOK
  <2>2. UNCHANGED <<row, canonical, maker>>
    BY <1>4 DEF Take, rows
  <2>3. \A s \in Shipments : Quiet(s) /\ Settled(s)
    BY <2>1, <2>2 DEF Quiet, Settled, GivenUp
  <2>4. QED
    BY <1>0, <2>2, <2>3 DEF OrderShowsARow, GivenUp
<1>5. CASE CompleteRow(p) \/ FailRow(p)
  <2>1. job[p].ship \in Shipments
    BY <1>0, <1>5 DEF CompleteRow, FailRow, WritesOutcome, JobsNamed
  <2>2. PICK s \in Shipments : s = job[p].ship
    BY <2>1
  <2>3. \/ pc[p] \in {"completeOrder", "failOrder"}
        \/ pc[p] = "failShipment" /\ ShouldRetry(job[p])
    BY <1>1, <1>5, <2>1 DEF CompleteRow, FailRow, Released, AfterFailure
  <2>4. CASE pc[p] = "completeOrder"
    <3>1. row[s].status = "succeeded" /\ row' = row /\ canonical' = "shipped"
      BY <1>0, <1>5, <2>2, <2>4 DEF CompleteRow, FailRow, RowAtStep
    <3>2. QED
      BY <3>1 DEF GivenUp
  <2>5. CASE pc[p] = "failOrder"
    <3>1. row[s] = FailedRow(job[p]) /\ ~ShouldRetry(job[p])
      BY <1>0, <2>2, <2>5 DEF RowAtStep
    <3>2. row[s].status = "failed" /\ row[s].due = "never"
      BY <3>1 DEF FailedRow
    <3>3. row' = row /\ canonical' = "failed"
      BY <1>5, <2>5 DEF CompleteRow, FailRow
    <3>4. QED
      BY <3>2, <3>3 DEF GivenUp
  <2>6. CASE pc[p] = "failShipment" /\ ShouldRetry(job[p])
    <3>1. row[s] = FailedRow(job[p]) /\ row' = row
      BY <1>0, <1>5, <2>2, <2>6 DEF CompleteRow, FailRow, RowAtStep
    <3>2. row'[s].status = "failed" /\ row'[s].due = "later"
      BY <2>6, <3>1 DEF FailedRow
    <3>3. QED
      BY <3>2 DEF Settled, GivenUp
  <2>7. QED
    BY <2>3, <2>4, <2>5, <2>6
<1>6. ~RetryExact(p) /\ ~Throw(p) /\ ~Crash(p)
  BY DEF RetryExact, Throw, Crash
<1>7. QED
  BY <1>2, <1>3, <1>4, <1>5, <1>6 DEF ProcessorStep

LEMMA SettledInit ==
    ASSUME Shipments # {}
    PROVE  Init => SettledInv
<1> SUFFICES ASSUME Init PROVE SettledInv
  OBVIOUS
<1>1. OutboxInv
  BY InvInit
<1>2. \A s \in Shipments : RowAtStep(s) /\ ShipmentAgrees(s) /\ ~Settled(s)
  BY OutboxAssumption DEF Init, RowAtStep, ShipmentAgrees, Settled, GivenUp, NoJob
<1>3. QED
  BY <1>1, <1>2, OutboxAssumption DEF SettledInv, OrderShowsARow

LEMMA SettledStep == SettledInv /\ [Next]_vars => SettledInv'
<1> SUFFICES ASSUME SettledInv, [Next]_vars PROVE SettledInv'
  OBVIOUS
<1>1. OutboxInv'
  BY InvStep DEF SettledInv
<1>2. CASE Faults # {}
  BY <1>1, <1>2 DEF SettledInv, OrderShowsARow
<1>3. CASE Faults = {}
  <2>1. ASSUME NEW t \in Shipments,
               PersistLabel(t) \/ MakerStep(t) \/ MakerThrows(t) \/ MakerCrashes(t)
        PROVE  SettledInv'
    BY <1>1, <1>3, <2>1, MakerSettled DEF SettledInv
  <2>2. ASSUME NEW t \in Shipments, BackoffEnds(t)
        PROVE  SettledInv'
    BY <1>1, <1>3, <2>2, BackoffSettled DEF SettledInv
  <2>3. ASSUME NEW p \in Processors, ProcessorStep(p) \/ RetryExact(p) \/ Throw(p) \/ Crash(p)
        PROVE  SettledInv'
    BY <1>1, <1>3, <2>3, ProcessorShown, ProcessorOrder DEF SettledInv
  <2>4. CASE UNCHANGED vars
    <3>1. \A s \in Direct \ Walmart : RowAtStep(s)' /\ ShipmentAgrees(s)'
      BY <1>3, <2>4 DEF vars, SettledInv, RowAtStep, ShipmentAgrees, ShipmentWritten, Settled,
         GivenUp, FailedRow, ShouldRetry
    <3>2. OrderShowsARow'
      BY <2>4 DEF vars, SettledInv, OrderShowsARow, Quiet, Settled, GivenUp
    <3>3. QED
      BY <1>1, <3>1, <3>2 DEF SettledInv
  <2>5. QED
    BY <2>1, <2>2, <2>3, <2>4 DEF Next
<1>4. QED
  BY <1>2, <1>3

\* As long as nothing fails, what the portal shows of the shipment and of its order is
\* what became of the confirmations, although completeOutboxRow and failOutboxRow write
\* the row, the shipment and the order in separate statements and other runs come
\* between them.  An order has a shipment.
THEOREM SettledIsShown ==
    ASSUME Shipments # {}
    PROVE  Spec => []ShownAsSettled
<1>1. SettledInv => ShownAsSettled
  <2>1. SUFFICES ASSUME SettledInv PROVE ShipmentShowsRow
    BY DEF SettledInv, ShownAsSettled
  <2>2. ASSUME Faults = {}, NEW s \in Direct \ Walmart, Quiet(s), Settled(s)
        PROVE  shown[s] = IF GivenUp(s) THEN "failed" ELSE "succeeded"
    <3>1. ShipmentAgrees(s) /\ ShipmentWritten(s)
      BY <2>1, <2>2 DEF SettledInv, Quiet, ShipmentWritten
    <3>2. QED
      BY <2>2, <3>1 DEF ShipmentAgrees
  <2>3. QED
    BY <2>2 DEF ShipmentShowsRow
<1>2. QED
  BY <1>1, SettledInit, SettledStep, PTL DEF Spec
=============================================================================
