------------------------ MODULE ReturnLabelRefinement ------------------------
(* ReturnLabel implements the promise of ReturnSlot: the slot holds the rows  *)
(* that are not voided, the voided rows are spent, the return shows the row  *)
(* it links.  Everything else of ReturnLabel is machinery the promise hides. *)
EXTENDS ReturnLabelInductive

Slot == INSTANCE ReturnSlot WITH
    Labels  <- Ships,
    NoLabel <- NoShip,
    held    <- ActiveShips,
    spent   <- {s \in Ships : Voided(s)},
    shown   <- ret.ship,
    status  <- ret.status

\* What the return is about to show has a row, and so has a completed purchase.
TargetsPersisted ==
    /\ \A r \in Requests : pc[r] \in TargetSteps => ship[snap[r].target] # "absent"
    /\ intent.state = "completed" => ship[intent.ship] # "absent"

RefinementInv == SlotInv /\ TargetsPersisted

\* Whatever requests, retries, voids, operators and the warehouse do, one return
\* shows the portal an ordinary label slot: filled when empty, emptied only by
\* voiding what is on view, never refilled with a voided label.
ImplementsReturnSlot == Slot!Spec
=============================================================================
