-------------------------- MODULE FulfillmentOutbox --------------------------
(***************************************************************************)
(* The confirmation of the shipments of ONE order to its store.            *)
(*                                                                         *)
(* When a label is bought, a row of fulfillment_outbox asks for the store  *)
(* to be told (enqueueShipmentConfirmation in src/src/services/fulfillment *)
(* /outbox.ts for createLabelV2, enqueueShipmentConfirmationSql in         *)
(* src/api/_lib/carriers/labels/outbox.ts for the direct carriers).        *)
(* Processors claim the rows that are due, call the store, and write the   *)
(* outcome to the row, to the shipment and to the order, one statement     *)
(* after another.  The scheduler, the cron route and createLabelV2 itself  *)
(* run processors at the same time; after a label for a Walmart order the  *)
(* direct endpoint also calls the store itself, beside the outbox.         *)
(*                                                                         *)
(* What is abstracted:                                                     *)
(*  - a store connector is live, and the label has a tracking number (a    *)
(*    shipment without either gets no row);                                *)
(*  - next_run_at is now, later or never ('infinity'): a backoff ends at   *)
(*    any moment after the processor that set it has moved on;             *)
(*  - a batch holds every due row: an order has fewer than the limit;      *)
(*  - each label is a new shipment, so a row is enqueued once and the      *)
(*    ON CONFLICT branch of the insert is never taken.                     *)
(***************************************************************************)
EXTENDS Integers, FiniteSets

CONSTANTS
    Shipments,    \* the labelled shipments of the order
    Direct,       \* those labelled by the direct carrier endpoints
    Walmart,      \* those of a Walmart order
    Processors,   \* concurrent runs of the outbox
    NoShipment,   \* no shipment at hand
    MaxAttempts,  \* MAX_ATTEMPTS (6 in the code)
    MaxRetries,   \* BOUND: exact-row retries of an operator per shipment
    Faults        \* subset of {"crash", "throw"}: processes die, statements fail

ASSUME OutboxAssumption ==
    /\ Walmart \subseteq Shipments
    /\ Direct \subseteq Shipments
    /\ NoShipment \notin Shipments
    /\ MaxAttempts \in Nat \ {0}
    /\ MaxRetries \in Nat
    /\ Faults \subseteq {"crash", "throw"}

VARIABLES
    row,        \* fulfillment_outbox: status, attempts, next_run_at of each shipment's row
    shown,      \* shipments.confirmation_status
    canonical,  \* orders.canonical_status
    confirmed,  \* EXTERNAL store: shipments it has been told of
    calls,      \* history: calls the processors made for each shipment
    retries,    \* history: exact-row retries of an operator
    maker,      \* the request that labels each shipment: where it stands, and the
                \* outcome it writes
    pc,         \* where each processor stands
    batch,      \* rows it has claimed and not yet taken, as it read them
    job         \* the row it works on, as it read it, and how that call ends

rows == <<row, shown, canonical>>
vars == <<row, shown, canonical, confirmed, calls, retries, maker, pc, batch, job>>

-----------------------------------------------------------------------------

Rows == [status : {"none", "pending", "processing", "failed", "succeeded"},
         attempts : Nat, due : {"now", "later", "never"}]
Claims == [ship : Shipments, attempts : Nat]
Jobs == [ship : Shipments \cup {NoShipment}, attempts : Nat,
         retryable : BOOLEAN, caught : BOOLEAN]
NoJob == [ship |-> NoShipment, attempts |-> 0, retryable |-> FALSE, caught |-> FALSE]

EnqueueSteps == {"source", "row", "shipment", "order"}
MarkSteps    == {"markShipment", "markRow", "markOrder"}
MakerSteps   == {"none", "store", "done"} \cup EnqueueSteps \cup MarkSteps
WritesOutcome == {"completeRow", "completeShipment", "completeOrder",
                  "failRow", "failShipment", "failOrder"}

TypeOK ==
    /\ row \in [Shipments -> Rows]
    /\ shown \in [Shipments -> {"none", "pending", "failed", "succeeded"}]
    /\ canonical \in {"none", "pending", "shipped", "failed"}
    /\ confirmed \in SUBSET Shipments
    /\ calls \in [Shipments -> Nat]
    /\ retries \in [Shipments -> Nat]
    /\ maker \in [Shipments -> [at : MakerSteps, ok : BOOLEAN]]
    /\ pc \in [Processors -> {"idle", "take", "call"} \cup WritesOutcome]
    /\ batch \in [Processors -> SUBSET Claims]
    /\ job \in [Processors -> Jobs]

Init ==
    /\ row = [s \in Shipments |-> [status |-> "none", attempts |-> 0, due |-> "now"]]
    /\ shown = [s \in Shipments |-> "none"]
    /\ canonical = "none"
    /\ confirmed = {}
    /\ calls = [s \in Shipments |-> 0]
    /\ retries = [s \in Shipments |-> 0]
    /\ maker = [s \in Shipments |-> [at |-> "none", ok |-> FALSE]]
    /\ pc = [p \in Processors |-> "idle"]
    /\ batch = [p \in Processors |-> {}]
    /\ job = [p \in Processors |-> NoJob]

Processing == <<confirmed, calls, retries, pc, batch, job>>
Making(s, step)  == maker[s].at = step
MakerTo(s, step) == maker' = [maker EXCEPT ![s].at = step]

-----------------------------------------------------------------------------
(* The request that bought the label                                       *)

\* createLabelV2 writes the outbox row first and the statuses after it, ...
RowFirst(s) == [none |-> "source", source |-> "row", row |-> "shipment",
                shipment |-> "order", order |-> "done"]

\* ... a direct endpoint the row last (and its one update of the order records the
\* source too); for a Walmart order it then calls the store.
RowLast(s) == [none |-> "order", source |-> "order", order |-> "shipment",
               shipment |-> "row", row |-> IF s \in Walmart THEN "store" ELSE "done"]

EnqueuePath(s) == IF s \in Direct THEN RowLast(s) ELSE RowFirst(s)
Proceed(s)     == MakerTo(s, EnqueuePath(s)[maker[s].at])

\* The shipment is persisted and the order marked shipped; then the enqueue starts.
PersistLabel(s) ==
    /\ Making(s, "none")
    /\ Proceed(s)
    /\ UNCHANGED <<rows, Processing>>

\* recordOrderSourceIfNeeded copies order_status, by now 'shipped', when it is null.
RecordSource(s) ==
    /\ Making(s, "source")
    /\ canonical' = IF canonical = "none" THEN "shipped" ELSE canonical
    /\ Proceed(s)
    /\ UNCHANGED <<row, shown, Processing>>

EnqueueRow(s) ==
    /\ Making(s, "row")
    /\ row' = [row EXCEPT ![s] = [status |-> "pending", attempts |-> 0, due |-> "now"]]
    /\ Proceed(s)
    /\ UNCHANGED <<shown, canonical, Processing>>

MarkPending(s) ==
    /\ Making(s, "shipment")
    /\ shown' = [shown EXCEPT ![s] = "pending"]
    /\ Proceed(s)
    /\ UNCHANGED <<row, canonical, Processing>>

MarkOrderPending(s) ==
    /\ Making(s, "order")
    /\ canonical' = "pending"
    /\ Proceed(s)
    /\ UNCHANGED <<row, shown, Processing>>

\* confirmWalmartSourceOrderAfterLabelSql: the endpoint calls the store itself.
CallStoreDirectly(s) ==
    /\ Making(s, "store")
    /\ \E ok, told \in BOOLEAN :
        /\ ok => told
        /\ confirmed' = IF told THEN confirmed \cup {s} ELSE confirmed
        /\ maker' = [maker EXCEPT ![s] = [at |-> "markShipment", ok |-> ok]]
    /\ UNCHANGED <<rows, calls, retries, pc, batch, job>>

\* markWalmartConfirmationAttemptSql writes whatever state the row is in; the
\* enqueue may have failed, and then there is no row.
MarkAttempt(s) ==
    LET ok == maker[s].ok IN
    \/ /\ Making(s, "markShipment")
       /\ shown' = [shown EXCEPT ![s] = IF ok THEN "succeeded" ELSE "failed"]
       /\ MakerTo(s, "markRow")
       /\ UNCHANGED <<row, canonical, Processing>>
    \/ /\ Making(s, "markRow")
       /\ row' = IF row[s].status = "none" THEN row
                 ELSE [row EXCEPT ![s] = [status |-> IF ok THEN "succeeded" ELSE "failed",
                                          attempts |-> @.attempts + 1,
                                          due |-> IF ok THEN @.due ELSE "later"]]
       /\ MakerTo(s, "markOrder")
       /\ UNCHANGED <<shown, canonical, Processing>>
    \/ /\ Making(s, "markOrder")
       /\ canonical' = IF ok THEN "shipped" ELSE "failed"
       /\ MakerTo(s, "done")
       /\ UNCHANGED <<row, shown, Processing>>

\* A statement of the request fails.  A direct endpoint logs it: it still calls the
\* store, and a failure to mark a success is marked as a failure.
MakerThrows(s) ==
    /\ "throw" \in Faults
    /\ \/ /\ maker[s].at \in EnqueueSteps
          /\ MakerTo(s, IF s \in Direct \cap Walmart THEN "store" ELSE "done")
       \/ /\ maker[s].at \in MarkSteps
          /\ maker' = [maker EXCEPT ![s] = [at |-> IF @.ok THEN "markShipment" ELSE "done",
                                            ok |-> FALSE]]
    /\ UNCHANGED <<rows, Processing>>

MakerCrashes(s) ==
    /\ "crash" \in Faults
    /\ maker[s].at \notin {"none", "done"}
    /\ MakerTo(s, "done")
    /\ UNCHANGED <<rows, Processing>>

-----------------------------------------------------------------------------
(* Processors: processFulfillmentOutboxOnce and processFulfillmentOutboxById *)

\* Mutants: a failed row is not claimed again; one in processing is.
ClaimablePending(s) == row[s].status = "pending"
ClaimableStuck(s)   == row[s].status \in {"pending", "failed", "processing"}

Claimable(s) == row[s].status \in {"pending", "failed"}
ClaimOf(s)   == [ship |-> s, attempts |-> row[s].attempts]
Due          == {s \in Shipments : Claimable(s) /\ row[s].due = "now"}

\* Claims the rows of S in one statement.
ClaimRows(p, S) ==
    /\ pc[p] = "idle"
    /\ S # {}
    /\ row' = [s \in Shipments |-> IF s \in S THEN [row[s] EXCEPT !.status = "processing"]
                                   ELSE row[s]]
    /\ batch' = [batch EXCEPT ![p] = {ClaimOf(s) : s \in S}]
    /\ pc' = [pc EXCEPT ![p] = "take"]
    /\ UNCHANGED <<shown, canonical, confirmed, calls, maker, job>>

\* claimDueOutboxRows
ClaimDue(p) == ClaimRows(p, Due) /\ UNCHANGED retries

\* claimOutboxRowById, by the operator's command, which takes Walmart rows only and
\* does not look at next_run_at.
RetryExact(p) ==
    \E s \in Walmart :
        /\ Claimable(s)
        /\ retries[s] < MaxRetries
        /\ ClaimRows(p, {s})
        /\ retries' = [retries EXCEPT ![s] = @ + 1]

\* The next row of the batch; after the last one the run is over.
Take(p) ==
    /\ pc[p] = "take"
    /\ \/ \E c \in batch[p] :
            /\ batch' = [batch EXCEPT ![p] = @ \ {c}]
            /\ job' = [job EXCEPT ![p] = [ship |-> c.ship, attempts |-> c.attempts,
                                          retryable |-> TRUE, caught |-> FALSE]]
            /\ pc' = [pc EXCEPT ![p] = "call"]
       \/ batch[p] = {} /\ pc' = [pc EXCEPT ![p] = "idle"] /\ UNCHANGED <<batch, job>>
    /\ UNCHANGED <<rows, confirmed, calls, retries, maker>>

\* Mutant: a call that throws is taken for a shipment the store already has.
TakenAsTold == "completeRow"

AfterThrow == "failRow"

\* connector.confirmShipment.  The store accepts; or it refuses, for now or for
\* good; or the call throws, whether or not the store was told.
CallStore(p) ==
    LET s == job[p].ship IN
    /\ pc[p] = "call"
    /\ calls' = [calls EXCEPT ![s] = @ + 1]
    /\ \/ /\ confirmed' = confirmed \cup {s}
          /\ pc' = [pc EXCEPT ![p] = "completeRow"]
          /\ UNCHANGED job
       \/ /\ \E again \in BOOLEAN : job' = [job EXCEPT ![p].retryable = again]
          /\ pc' = [pc EXCEPT ![p] = "failRow"]
          /\ UNCHANGED confirmed
       \/ /\ confirmed' \in {confirmed, confirmed \cup {s}}
          /\ job' = [job EXCEPT ![p].caught = TRUE]
          /\ pc' = [pc EXCEPT ![p] = AfterThrow]
    /\ UNCHANGED <<rows, retries, maker, batch>>

Released(p, step) ==
    /\ pc' = [pc EXCEPT ![p] = step]
    /\ job' = IF step = "take" THEN [job EXCEPT ![p] = NoJob] ELSE job

\* completeOutboxRow: three statements that look at nothing.
CompleteRow(p) ==
    LET s == job[p].ship IN
    \/ /\ pc[p] = "completeRow"
       /\ row' = [row EXCEPT ![s].status = "succeeded"]
       /\ Released(p, "completeShipment")
       /\ UNCHANGED <<shown, canonical, confirmed, calls, retries, maker, batch>>
    \/ /\ pc[p] = "completeShipment"
       /\ shown' = [shown EXCEPT ![s] = "succeeded"]
       /\ Released(p, "completeOrder")
       /\ UNCHANGED <<row, canonical, confirmed, calls, retries, maker, batch>>
    \/ /\ pc[p] = "completeOrder"
       /\ canonical' = "shipped"
       /\ Released(p, "take")
       /\ UNCHANGED <<row, shown, confirmed, calls, retries, maker, batch>>

\* Mutants: one attempt too many; attempts left instead of attempts made.
OneMoreTry(j)      == j.retryable /\ j.attempts < MaxAttempts
CountedDown(j)     == [status |-> "failed", attempts |-> j.attempts - 1, due |-> "later"]

ShouldRetry(j) == j.retryable /\ j.attempts + 1 < MaxAttempts

\* failOutboxRow's first statement; the attempts are those read at the claim.
FailedRow(j) == [status |-> "failed", attempts |-> j.attempts + 1,
                 due |-> IF ShouldRetry(j) THEN "later" ELSE "never"]

AfterFailure(j) == IF ShouldRetry(j) THEN "take" ELSE "failOrder"

\* failOutboxRow: two statements, and a third when the row is given up.
FailRow(p) ==
    LET s == job[p].ship IN
    \/ /\ pc[p] = "failRow"
       /\ row' = [row EXCEPT ![s] = FailedRow(job[p])]
       /\ Released(p, "failShipment")
       /\ UNCHANGED <<shown, canonical, confirmed, calls, retries, maker, batch>>
    \/ /\ pc[p] = "failShipment"
       /\ shown' = [shown EXCEPT ![s] = "failed"]
       /\ Released(p, AfterFailure(job[p]))
       /\ UNCHANGED <<row, canonical, confirmed, calls, retries, maker, batch>>
    \/ /\ pc[p] = "failOrder"
       /\ canonical' = "failed"
       /\ Released(p, "take")
       /\ UNCHANGED <<row, shown, confirmed, calls, retries, maker, batch>>

\* A statement fails.  The run catches it once per row and fails the row, as one to
\* retry; a failure of that ends the run, and the rest of its batch with it.
Throw(p) ==
    /\ "throw" \in Faults
    /\ pc[p] \in WritesOutcome
    /\ \/ /\ ~job[p].caught
          /\ job' = [job EXCEPT ![p].retryable = TRUE, ![p].caught = TRUE]
          /\ pc' = [pc EXCEPT ![p] = "failRow"]
          /\ UNCHANGED batch
       \/ /\ job[p].caught
          /\ job' = [job EXCEPT ![p] = NoJob]
          /\ batch' = [batch EXCEPT ![p] = {}]
          /\ pc' = [pc EXCEPT ![p] = "idle"]
    /\ UNCHANGED <<rows, confirmed, calls, retries, maker>>

\* The process dies: nothing returns the rows it has claimed.
Crash(p) ==
    /\ "crash" \in Faults
    /\ pc[p] # "idle"
    /\ job' = [job EXCEPT ![p] = NoJob]
    /\ batch' = [batch EXCEPT ![p] = {}]
    /\ pc' = [pc EXCEPT ![p] = "idle"]
    /\ UNCHANGED <<rows, confirmed, calls, retries, maker>>

\* next_run_at passes.  The shortest backoff, a minute, outlasts the few statements
\* left to whoever set it (each ends within DB_STATEMENT_TIMEOUT_MS, 12 s).
BackoffEnds(s) ==
    /\ row[s].status = "failed" /\ row[s].due = "later"
    /\ \A p \in Processors : job[p].ship # s
    /\ ~Making(s, "markOrder")
    /\ row' = [row EXCEPT ![s].due = "now"]
    /\ UNCHANGED <<shown, canonical, confirmed, calls, retries, maker, pc, batch, job>>

-----------------------------------------------------------------------------

MakerStep(s) ==
    \/ RecordSource(s) \/ EnqueueRow(s) \/ MarkPending(s) \/ MarkOrderPending(s)
    \/ CallStoreDirectly(s) \/ MarkAttempt(s)

ProcessorStep(p) ==
    \/ ClaimDue(p) \/ Take(p) \/ CallStore(p) \/ CompleteRow(p) \/ FailRow(p)

Next ==
    \/ \E s \in Shipments : PersistLabel(s) \/ MakerStep(s) \/ MakerThrows(s)
                            \/ MakerCrashes(s) \/ BackoffEnds(s)
    \/ \E p \in Processors : ProcessorStep(p) \/ RetryExact(p) \/ Throw(p) \/ Crash(p)

Spec == Init /\ [][Next]_vars

\* Requests run on; the scheduler ticks every minute and every call it makes has a
\* timeout; time passes.  Labels, operators and faults owe nothing.
Fairness ==
    /\ \A s \in Shipments : WF_vars(MakerStep(s)) /\ WF_vars(BackoffEnds(s))
    /\ \A p \in Processors : WF_vars(ProcessorStep(p))

FairSpec == Spec /\ Fairness

-----------------------------------------------------------------------------
(* What the outbox promises                                                *)

Holds(p, s) ==
    \/ \E c \in batch[p] : c.ship = s
    \/ job[p].ship = s /\ pc[p] \in {"call", "completeRow", "failRow"}

\* Of the rows no one claims by hand or writes from outside, each is in the hands of
\* one run at a time: two concurrent runs never confirm the same shipment.
OneRunPerRow ==
    \A p, q \in Processors, s \in Shipments \ Walmart :
        Holds(p, s) /\ Holds(q, s) => p = q

\* The store is called MAX_ATTEMPTS times at most for such a row, whatever fails where:
\* failing statements and dead runs cost no extra call.
RetriesBounded ==
    \A s \in Shipments \ Walmart : calls[s] <= MaxAttempts

\* Neither the row nor the shipment says succeeded, nor the order shipped, of what the
\* store was never told, however the endpoint, the runs and the operator overlap.
SucceededWasTold ==
    /\ \A s \in Shipments :
        row[s].status = "succeeded" \/ shown[s] = "succeeded" => s \in confirmed
    /\ canonical = "shipped" /\ Shipments = Direct => confirmed # {}

GivenUp(s) == row[s].status = "failed" /\ row[s].due = "never"
Settled(s) == row[s].status = "succeeded" \/ GivenUp(s)
Quiet(s)   == /\ maker[s].at = "done"
              /\ \A p \in Processors : job[p].ship # s

\* When nobody is at work on it, a settled row and its shipment say the same, with
\* the row written last and no fault in between.
ShipmentShowsRow ==
    Faults = {} =>
        \A s \in Direct \ Walmart :
            Quiet(s) /\ Settled(s) =>
                shown[s] = IF GivenUp(s) THEN "failed" ELSE "succeeded"

\* And once every shipment of the order is settled, the order shows the outcome of one
\* of them: never still pending, never an outcome none of them has.
OrderShowsARow ==
    Faults = {} /\ Walmart = {} /\ Shipments = Direct
        /\ (\A s \in Shipments : Quiet(s) /\ Settled(s)) =>
            \E s \in Shipments : canonical = IF GivenUp(s) THEN "failed" ELSE "shipped"

\* What the portal shows is what became of the confirmations (completeOutboxRow and
\* failOutboxRow write the row, the shipment and the order one after the other).
ShownAsSettled == ShipmentShowsRow /\ OrderShowsARow

\* Every row comes to an end, confirmed or given up, unless a fault strands it.
RowsSettle ==
    \A s \in Shipments : Faults = {} /\ row[s].status = "pending" ~> Settled(s)
=============================================================================
