------------------------------ MODULE ReturnSlot ------------------------------
(***************************************************************************)
(* What the label slot of one return promises the portal, with none of the *)
(* machinery that keeps the promise: no requests, leases, reference keys,  *)
(* receipts or carrier.  The slot holds at most one usable label; the       *)
(* return shows a label; a label leaves the slot only by being voided while *)
(* it is the one shown, and never comes back; what the return shows changes *)
(* only when nothing usable would disappear from view.                     *)
(* ReturnLabelRefinement shows that ReturnLabel implements it.             *)
(***************************************************************************)
EXTENDS Integers

CONSTANTS Labels, NoLabel

VARIABLES
    held,    \* the usable label, as a set: empty or one label
    spent,   \* labels that were held and voided
    shown,   \* the label the return points at
    status   \* the status of the return

slot == <<held, spent, shown, status>>

Waiting   == {"requested", "label_failed"}
Labelable == Waiting \cup {"label_created"}

Init ==
    /\ held = {} /\ spent = {}
    /\ shown = NoLabel
    /\ status = "requested"

\* Nothing usable is hidden when another label is shown.
MayShow(s) == shown = NoLabel \/ shown = s \/ shown \in spent

\* A label is bought: it fills an empty slot, and is not on view yet.
Fill(s) ==
    /\ held = {} /\ s \notin spent
    /\ held' = {s}
    /\ UNCHANGED <<spent, shown, status>>

\* The return shows a label it holds, or one it held.
Show(s) ==
    /\ s \in held \cup spent
    /\ MayShow(s)
    /\ status \in Labelable
    /\ shown' = s
    /\ status' = "label_created"
    /\ UNCHANGED <<held, spent>>

\* A label bought elsewhere fills an empty slot and is on view at once.
Assign(s) ==
    /\ held = {} /\ s \notin spent
    /\ shown = NoLabel \/ shown \in spent
    /\ status \in Labelable
    /\ held' = {s}
    /\ shown' = s
    /\ status' = "label_created"
    /\ UNCHANGED spent

\* The label on view is voided; the return goes on pointing at it.
Void ==
    /\ held = {shown}
    /\ held' = {}
    /\ spent' = spent \cup held
    /\ UNCHANGED <<shown, status>>

\* The purchase failed, and nothing had been shown since.
Fail ==
    /\ status \in Waiting
    /\ status' = "label_failed"
    /\ UNCHANGED <<held, spent, shown>>

\* The parcel moves under the label on view; the warehouse receives or inspects it.
Ship ==
    /\ \/ status = "label_created" /\ shown # NoLabel /\ status' = "in_transit"
       \/ status' \in {"received", "inspected"}
    /\ UNCHANGED <<held, spent, shown>>

Move ==
    \/ \E s \in Labels : Fill(s) \/ Show(s) \/ Assign(s)
    \/ Void \/ Fail \/ Ship

\* A move that changes nothing is no step.
Next == slot' # slot /\ Move

Spec == Init /\ [][Next]_slot
=============================================================================
