--------------------- MODULE FulfillmentOutboxInductive ---------------------
(* Three inductive invariants.  OutboxInv, behind OneRunPerRow and           *)
(* RetriesBounded, is about the rows that only the outbox itself writes:     *)
(* nobody retries them by hand or marks them from outside.  ToldInv, behind  *)
(* SucceededWasTold, is about every row; SettledInv, behind ShownAsSettled,  *)
(* adds to OutboxInv how far whoever works on a row has come.                *)
EXTENDS FulfillmentOutbox

Own == Shipments \ Walmart

Touches(p, s) == job[p].ship = s \/ \E c \in batch[p] : c.ship = s

\* A processor that calls the store or writes an outcome has a row at work.
JobsNamed ==
    \A p \in Processors : pc[p] \in {"call"} \cup WritesOutcome => job[p].ship \in Shipments

\* Steps of the request at which the row is yet to be inserted.
BeforeRow(s) ==
    {"none", "source", "row"} \cup (IF s \in Direct THEN {"order", "shipment"} ELSE {})

\* A request inserts its row once, and touches no row after that.
RowInsertedOnce(s) ==
    /\ maker[s].at \in BeforeRow(s) => row[s].status = "none"
    /\ maker[s].at \notin {"store"} \cup MarkSteps
    /\ row[s].status = "none" => calls[s] = 0

\* A row that may be claimed has a call left, and every call so far is counted.
DueRowCounted(s) ==
    Claimable(s) /\ row[s].due # "never" =>
        row[s].attempts < MaxAttempts /\ calls[s] <= row[s].attempts

\* A claim not yet taken is of a row in processing, with the attempts the row has.
ClaimFresh(s) ==
    \A p \in Processors : \A c \in batch[p] : c.ship = s =>
        /\ job[p].ship # s
        /\ row[s].status = "processing"
        /\ c.attempts = row[s].attempts
        /\ c.attempts < MaxAttempts
        /\ calls[s] <= c.attempts

\* The row at work cannot be claimed by anyone, and one call is not counted yet.
JobCounted(s) ==
    \A p \in Processors : job[p].ship = s =>
        /\ pc[p] \in {"call"} \cup WritesOutcome
        /\ row[s].status \in {"processing", "failed", "succeeded"}
        /\ row[s].status = "failed" => row[s].due # "now"
        /\ pc[p] = "call" => row[s].status = "processing"
        /\ job[p].attempts < MaxAttempts
        /\ calls[s] <= job[p].attempts + (IF pc[p] = "call" THEN 0 ELSE 1)

OneToucher(s) ==
    \A p, q \in Processors : Touches(p, s) /\ Touches(q, s) => p = q

CallsBounded(s) == calls[s] <= MaxAttempts

ShipmentInv(s) ==
    /\ RowInsertedOnce(s)
    /\ DueRowCounted(s)
    /\ ClaimFresh(s)
    /\ JobCounted(s)
    /\ OneToucher(s)
    /\ CallsBounded(s)

OutboxInv ==
    /\ TypeOK
    /\ JobsNamed
    /\ \A s \in Own : ShipmentInv(s)


-----------------------------------------------------------------------------
(* What SucceededWasTold rests on.  It is about every row, also those that   *)
(* an operator retries or the endpoint marks, and whatever fails.            *)

\* Who writes a success was told of it by the store: a processor on its way through
\* completeOutboxRow, an endpoint that marks its own call.
WritersWereTold ==
    /\ \A p \in Processors :
        pc[p] \in {"completeRow", "completeShipment", "completeOrder"} =>
            job[p].ship \in confirmed
    /\ \A s \in Shipments : maker[s].at \in MarkSteps /\ maker[s].ok => s \in confirmed

\* A direct endpoint never records the order's source by a statement of its own.
DirectKeepsSource == \A s \in Direct : maker[s].at # "source"

ToldInv ==
    /\ TypeOK
    /\ JobsNamed
    /\ WritersWereTold
    /\ DirectKeepsSource
    /\ SucceededWasTold

-----------------------------------------------------------------------------
(* What ShownAsSettled rests on: as long as nothing fails, the row tells how *)
(* far whoever works on it has come.                                         *)

RowAtStep(s) ==
    \A p \in Processors : job[p].ship = s =>
        /\ pc[p] \in {"call", "completeRow", "failRow"} => row[s].status = "processing"
        /\ pc[p] \in {"completeShipment", "completeOrder"} => row[s].status = "succeeded"
        /\ pc[p] \in {"failShipment", "failOrder"} => row[s] = FailedRow(job[p])
        /\ pc[p] = "failOrder" => ~ShouldRetry(job[p])

\* The shipment agrees with its settled row from the moment it is written, while the
\* order may be yet to come.
ShipmentWritten(s) ==
    \A p \in Processors : job[p].ship = s => pc[p] \in {"completeOrder", "failOrder"}

ShipmentAgrees(s) ==
    Settled(s) /\ ShipmentWritten(s) =>
        shown[s] = IF GivenUp(s) THEN "failed" ELSE "succeeded"

SettledInv ==
    /\ OutboxInv
    /\ Faults = {} => \A s \in Direct \ Walmart : RowAtStep(s) /\ ShipmentAgrees(s)
    /\ OrderShowsARow
=============================================================================
