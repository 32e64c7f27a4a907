--------------------------- MODULE OutboundLabel ---------------------------
(***************************************************************************)
(* The outbound labels of one order: createLabelV2 (ShipStation postage    *)
(* and offline test labels), the direct carrier endpoint (Shipp, Walmart,  *)
(* UPS, EasyPost), voidLabelV2, the shipment sync and the order import,    *)
(* interleaved statement by statement.                                     *)
(*                                                                         *)
(* createLabelV2 looks for a label without a lock and buys one later; the  *)
(* direct endpoint buys first and locks the order row when it persists.    *)
(* A label is a member of Labels from the moment the carrier sells it.     *)
(* Deductions of stock (InventoryLedger), what becomes of an enqueued      *)
(* confirmation (FulfillmentOutbox), the print queue and the tracking      *)
(* number shown on the order are not state here.                           *)
(***************************************************************************)
EXTENDS Naturals, FiniteSets

CONSTANTS
    Requests,   \* calls of createLabelV2 and of the direct endpoint
    Asks,       \* what the calls may together ask for: a kind of label each
    Voids,      \* calls of voidLabelV2
    Labels,     \* the labels that may be sold (or mocked) for the order
    NoLabel,    \* what a call that has none holds
    Marketplace, \* the order comes from the Walmart or the eBay import
    MaxFaults   \* bound: crashes, failing statements and lost answers

Kinds == {"shipstation", "direct", "test"}

ASSUME AsksAssumption == Asks \subseteq [Requests -> Kinds]
ASSUME NoLabelAssumption == NoLabel \notin Labels
ASSUME MaxFaultsAssumption == MaxFaults \in Nat

VARIABLES
    order,          \* orders.order_status
    opening,        \* how often a void has reopened the order (history)
    kind,           \* who sold the label
    postage,        \* the label in the carrier's books
    row,            \* its shipments row, written by PrepShip
    resynced,       \* the rows whose source the sync has made 'shipstation'
    dup,            \* the shipments row the sync inserted for it
    confirmations,  \* the labels with a fulfillment_outbox row
    persistedIn,    \* the opening in which the row was inserted (history)
    struck,         \* the labels whose request met a fault (history)
    late,           \* bought labels refused because the order had closed
    req,            \* the label requests
    void,           \* the void requests
    sync,           \* the run of syncShipments
    seen,           \* the labels behind its watermark
    faults          \* faults so far

labelVars == <<kind, postage, row, resynced, dup, confirmations, persistedIn>>
history == <<opening, struck, late>>
vars == <<order, opening, kind, postage, row, resynced, dup, confirmations,
          persistedIn, struck, late, req, void, sync, seen, faults>>

Statuses == {"awaiting_shipment", "shipped", "cancelled"}
Closed == {"shipped", "cancelled"}
RowStates == {"none", "active", "voided"}
Which == {"row", "dup"}

\* A call that is answered, with success or with an error, has ended.
ReqPcs == {"idle", "loaded", "checked", "bought", "saved", "marked", "ended"}
VoidPcs == {"idle", "read", "told", "ended"}
SyncPcs == {"idle", "fetched", "writing", "written"}

IdleSync == [pc |-> "idle", live |-> {}, dead |-> {}, inserts |-> {},
             updates |-> {}, promote |-> FALSE]

Resting(pc) == [pc |-> pc, label |-> NoLabel, which |-> "row"]

TypeOK ==
    /\ order \in Statuses
    /\ opening \in Nat
    /\ kind \in [Labels -> Kinds \cup {"none"}]
    /\ postage \in [Labels -> {"unsold", "live", "void"}]
    /\ row \in [Labels -> RowStates]
    /\ resynced \in SUBSET Labels
    /\ dup \in [Labels -> RowStates]
    /\ confirmations \in SUBSET Labels
    /\ persistedIn \in [Labels -> Nat]
    /\ struck \in SUBSET Labels
    /\ late \in SUBSET Labels
    /\ req \in [Requests -> [pc : ReqPcs, kind : Kinds, label : Labels \cup {NoLabel}]]
    /\ void \in [Voids -> [pc : VoidPcs, label : Labels \cup {NoLabel}, which : Which]]
    /\ sync \in [pc : SyncPcs, live : SUBSET Labels, dead : SUBSET Labels,
                 inserts : SUBSET Labels, updates : SUBSET (Labels \X Which),
                 promote : BOOLEAN]
    /\ seen \in SUBSET Labels
    /\ faults \in 0 .. MaxFaults

Init ==
    /\ order = "awaiting_shipment"
    /\ opening = 0
    /\ kind = [l \in Labels |-> "none"]
    /\ postage = [l \in Labels |-> "unsold"]
    /\ row = [l \in Labels |-> "none"]
    /\ resynced = {}
    /\ dup = [l \in Labels |-> "none"]
    /\ confirmations = {}
    /\ persistedIn = [l \in Labels |-> 0]
    /\ struck = {}
    /\ late = {}
    /\ \E kinds \in Asks :
        req = [r \in Requests |-> [pc |-> "idle", kind |-> kinds[r], label |-> NoLabel]]
    /\ void = [v \in Voids |-> Resting("idle")]
    /\ sync = IdleSync
    /\ seen = {}
    /\ faults = 0
-----------------------------------------------------------------------------
(* What the queries ask. *)

\* The bound on sales, and the label sold next.
Supply == \E l \in Labels : kind[l] = "none"
Fresh == CHOOSE l \in Labels : kind[l] = "none"

\* A shipments row of the label that findActiveLabelForOrder would return.
ShownActive(l) == row[l] = "active" \/ dup[l] = "active"

Shown(l) == row[l] # "none" \/ dup[l] # "none"

\* The rows with source prepship_v2 or test_offline that make the sync skip
\* the order; a direct carrier's source is not in the list.
Guarding(l) == row[l] = "active" /\ kind[l] # "direct" /\ l \notin resynced

Guarded == \E l \in Labels : Guarding(l)

At(r, pc) == req[r].pc = pc

Moves(r, pc) == req' = [req EXCEPT ![r].pc = pc]
Ends(r) == req' = [req EXCEPT ![r].pc = "ended", ![r].label = NoLabel]

Fault == faults < MaxFaults /\ faults' = faults + 1

Strike(r) == struck' = struck \cup ({req[r].label} \cap Labels)
-----------------------------------------------------------------------------
(* createLabelV2 and the direct endpoint, up to the purchase. *)

\* The order is read; a shipped or cancelled one is refused. The direct
\* endpoint checks nothing else before it buys.
LoadOrder(r) ==
    /\ At(r, "idle")
    /\ \/ order \in Closed /\ Ends(r)
       \/ /\ order \notin Closed
          /\ Moves(r, IF req[r].kind = "direct" THEN "checked" ELSE "loaded")
    /\ UNCHANGED <<order, labelVars, history, void, sync, seen, faults>>

\* createLabelV2's existing-label check.
CheckExisting(r) ==
    /\ At(r, "loaded")
    /\ IF \E l \in Labels : ShownActive(l) THEN Ends(r) ELSE Moves(r, "checked")
    /\ UNCHANGED <<order, labelVars, history, void, sync, seen, faults>>

Sells(r) ==
    /\ kind' = [kind EXCEPT ![Fresh] = req[r].kind]
    /\ postage' = [postage EXCEPT ![Fresh] = "live"]

\* The carrier sells a label and the answer arrives.
Buy(r) ==
    /\ At(r, "checked") /\ req[r].kind # "test" /\ Supply
    /\ Sells(r)
    /\ req' = [req EXCEPT ![r].pc = "bought", ![r].label = Fresh]
    /\ UNCHANGED <<order, row, resynced, dup, confirmations, persistedIn, history,
                   void, sync, seen, faults>>

\* The carrier refuses, or the request is given up before it is sent.
BuyFails(r) ==
    /\ At(r, "checked") /\ req[r].kind # "test"
    /\ Ends(r)
    /\ UNCHANGED <<order, labelVars, history, void, sync, seen, faults>>

\* The label is sold and the answer is lost or unusable: a timeout, an
\* unreadable PDF, a missing tracking number. Or ShipStation answers 5xx
\* after the sale and the client posts again, with no idempotency key.
SoldUnheard(r) ==
    /\ At(r, "checked") /\ req[r].kind # "test" /\ Supply
    /\ Fault
    /\ Sells(r)
    /\ struck' = struck \cup {Fresh}
    /\ \/ Ends(r)
       \/ req[r].kind = "shipstation" /\ UNCHANGED req
    /\ UNCHANGED <<order, row, resynced, dup, confirmations, persistedIn, opening, late,
                   void, sync, seen>>
-----------------------------------------------------------------------------
(* createLabelV2 after the purchase: one statement after the other. *)

SavesRow(l) ==
    /\ row' = [row EXCEPT ![l] = "active"]
    /\ persistedIn' = [persistedIn EXCEPT ![l] = opening]

\* Mutant: a label whose order has closed meanwhile is not written.
PersistUnlessClosed(r) ==
    /\ At(r, "bought") /\ req[r].kind = "shipstation"
    /\ IF order \in Closed
       THEN Ends(r) /\ UNCHANGED <<row, persistedIn>>
       ELSE SavesRow(req[r].label) /\ Moves(r, "saved")
    /\ UNCHANGED <<order, kind, postage, resynced, dup, confirmations, history,
                   void, sync, seen, faults>>

PersistCreatedLabel(r) ==
    /\ At(r, "bought") /\ req[r].kind = "shipstation"
    /\ SavesRow(req[r].label)
    /\ Moves(r, "saved")
    /\ UNCHANGED <<order, kind, postage, resynced, dup, confirmations, history,
                   void, sync, seen, faults>>

\* An offline label costs nothing; its row has a shipment id of its own.
PersistTestLabel(r) ==
    /\ At(r, "checked") /\ req[r].kind = "test" /\ Supply
    /\ kind' = [kind EXCEPT ![Fresh] = "test"]
    /\ SavesRow(Fresh)
    /\ req' = [req EXCEPT ![r].pc = "saved", ![r].label = Fresh]
    /\ UNCHANGED <<order, postage, resynced, dup, confirmations, history,
                   void, sync, seen, faults>>

\* The update of the order has no condition.
MarkOrderShipped(r) ==
    /\ At(r, "saved")
    /\ order' = "shipped"
    /\ IF req[r].kind = "test" THEN Ends(r) ELSE Moves(r, "marked")
    /\ UNCHANGED <<labelVars, history, void, sync, seen, faults>>

Enqueues(l) == confirmations' = confirmations \cup {l}

EnqueueConfirmation(r) ==
    /\ At(r, "marked")
    /\ Enqueues(req[r].label)
    /\ Ends(r)
    /\ UNCHANGED <<order, kind, postage, row, resynced, dup, persistedIn, history,
                   void, sync, seen, faults>>
-----------------------------------------------------------------------------
(* The direct endpoint after the purchase. *)

\* Mutant: only a cancelled order is refused.
NotCancelled == order # "cancelled"

\* What the transaction asks of the order row it has locked.
StillOpen == order \notin Closed

\* One transaction under SELECT ... FOR UPDATE of the order.
PersistDirect(r) ==
    /\ At(r, "bought") /\ req[r].kind = "direct"
    /\ StillOpen
    /\ SavesRow(req[r].label)
    /\ order' = "shipped"
    /\ Moves(r, "marked")
    /\ UNCHANGED <<kind, postage, resynced, dup, confirmations, history,
                   void, sync, seen, faults>>

\* The order closed while the carrier sold the label: the transaction throws
\* and the label, paid for, is written nowhere.
PersistDirectRefused(r) ==
    /\ At(r, "bought") /\ req[r].kind = "direct"
    /\ ~StillOpen
    /\ late' = late \cup {req[r].label}
    /\ Ends(r)
    /\ UNCHANGED <<order, labelVars, opening, struck, void, sync, seen, faults>>
-----------------------------------------------------------------------------
(* What a label request may meet at any statement after its purchase. *)

\* A statement fails, or the process dies: nothing after it is done. The
\* direct endpoint catches a failed enqueue and still answers success.
RequestFault(r) ==
    /\ \E pc \in {"bought", "saved", "marked"} : At(r, pc)
    /\ Fault
    /\ Strike(r)
    /\ Ends(r)
    /\ UNCHANGED <<order, labelVars, opening, late, void, sync, seen>>
-----------------------------------------------------------------------------
(* voidLabelV2 of an outbound label: no return claims it. *)

RowOf(l, w) == IF w = "row" THEN row[l] ELSE dup[l]

\* Mutant: the row the sync inserted is voided without its carrier.
OwnLabelOnly(l) == kind[l] = "shipstation" /\ row[l] = "active"

\* Only the rows of ShipStation labels hold the shipment id a carrier is
\* told of; a test label is never told, a direct one has no id.
HasCarrierId(l) == kind[l] = "shipstation"

VoidRead(v, l, w) ==
    /\ void[v].pc = "idle"
    /\ RowOf(l, w) = "active"
    /\ void' = [void EXCEPT ![v] = [pc |-> "read", label |-> l, which |-> w]]
    /\ UNCHANGED <<order, labelVars, history, req, sync, seen, faults>>

\* The provider voids the label. An error is accepted when the readback
\* shows the label already voided.
VoidAtProvider(v) ==
    /\ void[v].pc = "read" /\ HasCarrierId(void[v].label)
    /\ postage' = [postage EXCEPT ![void[v].label] = "void"]
    /\ void' = [void EXCEPT ![v].pc = "told"]
    /\ UNCHANGED <<order, kind, row, resynced, dup, confirmations, persistedIn, history,
                   req, sync, seen, faults>>

VoidUntold(v) ==
    /\ void[v].pc = "read" /\ ~HasCarrierId(void[v].label)
    /\ void' = [void EXCEPT ![v].pc = "told"]
    /\ UNCHANGED <<order, labelVars, history, req, sync, seen, faults>>

\* The call fails, before or after the provider voided the label.
VoidFails(v) ==
    /\ void[v].pc = "read" /\ HasCarrierId(void[v].label)
    /\ Fault
    /\ \/ postage' = [postage EXCEPT ![void[v].label] = "void"]
       \/ UNCHANGED postage
    /\ void' = [void EXCEPT ![v] = Resting("ended")]
    /\ UNCHANGED <<order, kind, row, resynced, dup, confirmations, persistedIn, history,
                   req, sync, seen>>

\* One transaction: the row is voided if it still is active, and the order is
\* reopened whatever its status and its other labels.
VoidCommit(v) ==
    /\ void[v].pc = "told"
    /\ LET l == void[v].label  w == void[v].which IN
        /\ RowOf(l, w) = "active"
        /\ row' = IF w = "row" THEN [row EXCEPT ![l] = "voided"] ELSE row
        /\ dup' = IF w = "dup" THEN [dup EXCEPT ![l] = "voided"] ELSE dup
    /\ order' = "awaiting_shipment"
    /\ opening' = opening + 1
    /\ void' = [void EXCEPT ![v] = Resting("ended")]
    /\ UNCHANGED <<kind, postage, resynced, confirmations, persistedIn, struck, late,
                   req, sync, seen, faults>>

\* Another void (or the sync) voided the row first; or the statement fails.
VoidRollsBack(v) ==
    /\ void[v].pc = "told"
    /\ \/ RowOf(void[v].label, void[v].which) # "active" /\ UNCHANGED faults
       \/ Fault
    /\ void' = [void EXCEPT ![v] = Resting("ended")]
    /\ UNCHANGED <<order, labelVars, history, req, sync, seen>>
-----------------------------------------------------------------------------
(* syncShipments, for the order's ShipStation account. *)

SoldByShipStation == {l \in Labels : kind[l] = "shipstation"}

\* A page of the labels created since the watermark less its overlap.
SyncFetch ==
    /\ sync.pc = "idle"
    /\ \E again \in SUBSET (SoldByShipStation \cap seen) :
        LET page == (SoldByShipStation \ seen) \cup again IN
        sync' = [IdleSync EXCEPT !.pc = "fetched",
                    !.live = {l \in page : postage[l] = "live"},
                    !.dead = {l \in page : postage[l] = "void"}]
    /\ UNCHANGED <<order, labelVars, history, req, void, seen, faults>>

Existing(l) == {w \in Which : RowOf(l, w) # "none"}

\* The rows and the order are read and the writes decided. A label with two
\* rows updates either: the lookup has no order. An order with an active
\* PrepShip label is skipped, but a live label of the page may still ship it.
SyncDecide ==
    /\ sync.pc = "fetched"
    /\ LET page == sync.live \cup sync.dead
           kept == {l \in page : ~Guarded}
           known == {l \in kept : Existing(l) # {}}
       IN \E u \in SUBSET (known \X Which) :
            /\ \A l \in known : \E w \in Existing(l) : u \cap ({l} \X Which) = {<<l, w>>}
            /\ sync' = [sync EXCEPT !.pc = "writing", !.inserts = kept \ known,
                            !.updates = u,
                            !.promote = order = "awaiting_shipment" /\ sync.live # {}]
    /\ UNCHANGED <<order, labelVars, history, req, void, seen, faults>>

Paged(l) == IF l \in sync.live THEN "active" ELSE "voided"

\* One INSERT of all new rows.
SyncInsert ==
    /\ sync.pc = "writing" /\ sync.inserts # {}
    /\ dup' = [l \in Labels |-> IF l \in sync.inserts THEN Paged(l) ELSE dup[l]]
    /\ sync' = [sync EXCEPT !.inserts = {}]
    /\ UNCHANGED <<order, kind, postage, row, resynced, confirmations, persistedIn,
                   history, req, void, seen, faults>>

\* The UPDATE of one row sets every column, its source and voided included.
SyncUpdate(l, w) ==
    /\ sync.pc = "writing" /\ sync.inserts = {} /\ <<l, w>> \in sync.updates
    /\ row' = IF w = "row" THEN [row EXCEPT ![l] = Paged(l)] ELSE row
    /\ dup' = IF w = "dup" THEN [dup EXCEPT ![l] = Paged(l)] ELSE dup
    /\ resynced' = IF w = "row" THEN resynced \cup {l} ELSE resynced
    /\ sync' = [sync EXCEPT !.updates = @ \ {<<l, w>>}]
    /\ UNCHANGED <<order, kind, postage, confirmations, persistedIn,
                   history, req, void, seen, faults>>

\* All pages are written: the watermark moves to the start of the run.
SyncAdvance ==
    /\ sync.pc = "writing" /\ sync.inserts = {} /\ sync.updates = {}
    /\ seen' = seen \cup sync.live \cup sync.dead
    /\ sync' = [sync EXCEPT !.pc = "written"]
    /\ UNCHANGED <<order, labelVars, history, req, void, faults>>

\* The orders collected on the way are shipped if they still are awaiting.
SyncPromote ==
    /\ sync.pc = "written"
    /\ order' = IF sync.promote /\ order = "awaiting_shipment" THEN "shipped" ELSE order
    /\ sync' = IdleSync
    /\ UNCHANGED <<labelVars, history, req, void, seen, faults>>

\* Mutant: the watermark moves although the page was not written.
SyncFaultAdvances ==
    /\ sync.pc # "idle"
    /\ Fault
    /\ seen' = seen \cup sync.live \cup sync.dead
    /\ sync' = IdleSync
    /\ UNCHANGED <<order, labelVars, history, req, void>>

\* A call or a statement fails before the page is written, or the process
\* dies: nothing more is done. When only the watermark cannot be stored, the
\* orders of the page are still shipped.
SyncFault ==
    /\ sync.pc # "idle"
    /\ Fault
    /\ \/ sync' = IdleSync
       \/ /\ sync.pc = "writing" /\ sync.inserts = {} /\ sync.updates = {}
          /\ sync' = [sync EXCEPT !.pc = "written"]
    /\ UNCHANGED <<order, labelVars, history, req, void, seen>>

SyncStep ==
    \/ SyncFetch \/ SyncDecide \/ SyncInsert \/ SyncAdvance \/ SyncPromote
    \/ \E l \in Labels, w \in Which : SyncUpdate(l, w)
-----------------------------------------------------------------------------
\* The statuses an import leaves as they are: the Walmart and eBay imports a
\* shipped order, the others a closed order the store still shows as awaiting.
Stands(s) ==
    IF Marketplace THEN order = "shipped"
    ELSE order \in Closed /\ s = "awaiting_shipment"

\* Mutant: a status the store adds is stored as it comes.
ImportedAsIs(s) == IF s = "cancelled" THEN "on_hold" ELSE s

Imported(s) == IF Stands(s) THEN order ELSE s

\* The store's status replaces the order's; the catch-up for shipped and
\* cancelled orders is the import of these statuses.
ImportOrder(s) ==
    /\ order' = Imported(s)
    /\ UNCHANGED <<labelVars, history, req, void, sync, seen, faults>>

Next ==
    \/ \E r \in Requests :
        \/ LoadOrder(r) \/ CheckExisting(r) \/ Buy(r) \/ BuyFails(r) \/ SoldUnheard(r)
        \/ PersistCreatedLabel(r) \/ PersistTestLabel(r) \/ MarkOrderShipped(r)
        \/ EnqueueConfirmation(r) \/ PersistDirect(r) \/ PersistDirectRefused(r)
        \/ RequestFault(r)
    \/ \E v \in Voids :
        \/ \E l \in Labels, w \in Which : VoidRead(v, l, w)
        \/ VoidAtProvider(v) \/ VoidUntold(v) \/ VoidFails(v)
        \/ VoidCommit(v) \/ VoidRollsBack(v)
    \/ SyncStep \/ SyncFault
    \/ \E s \in Statuses : ImportOrder(s)

Spec == Init /\ [][Next]_vars

\* The scheduler runs the sync for ever; nothing else is fair: an operator
\* need not retry, and a request may be cut off at any statement.
FairSpec == Spec /\ WF_vars(SyncStep)
-----------------------------------------------------------------------------
(* Safety. *)

Held(l) == \E r \in Requests : At(r, "bought") /\ req[r].label = l

\* Postage that no shipments row shows is held by a running request, or was
\* struck by a fault, or is a direct carrier's label whose order closed while
\* it was bought; and a row that its finished request left without a
\* confirmation belongs to an offline label or was struck
\* (labels.ts:738-792, direct-label-persistence.ts:47-57).
PostageAccounted ==
    \A l \in Labels :
        /\ postage[l] = "live" /\ ~Shown(l) =>
              Held(l) \/ l \in struck \/ (l \in late /\ kind[l] = "direct")
        /\ row[l] # "none" /\ kind[l] # "test" /\ l \notin confirmations =>
              \/ l \in struck
              \/ \E r \in Requests :
                    req[r].label = l /\ (At(r, "saved") \/ At(r, "marked"))

\* Direct labels are persisted one per opening of the order: the row lock
\* makes the second of two purchases fail, and only a void reopens an order
\* with such a label, whichever import it comes from
\* (direct-label-persistence.ts:44-57, 83-88; labels.ts:929;
\* store-order-import.ts:90-95).
OneDirectLabelPerOpening ==
    \A l, m \in Labels :
        /\ l # m /\ kind[l] = "direct" /\ kind[m] = "direct"
        /\ row[l] # "none" /\ row[m] # "none"
        => persistedIn[l] # persistedIn[m]

\* A ShipStation label shown as voided, by a void or from a page of the sync,
\* is voided in ShipStation's books: no failed or unanswered call and no late
\* page makes PrepShip forget postage that still can ship
\* (labels.ts:886-927, shipment-sync.ts:101).
VoidShownIsVoid ==
    \A l \in SoldByShipStation :
        row[l] = "voided" \/ dup[l] = "voided" => postage[l] = "void"
-----------------------------------------------------------------------------
(* Liveness. *)

Orphan(l) == kind[l] = "shipstation" /\ postage[l] = "live" /\ ~Shown(l)

\* The sync finds a ShipStation label whose purchase was forgotten, unless the
\* order has an active PrepShip label when it comes by: that order is skipped,
\* and a label the watermark has passed may never be read again
\* ("missed rows self-heal", shipment-sync.ts:13).
OrphansAreFound ==
    \A l \in Labels :
        Orphan(l) /\ l \notin seen \cup sync.live ~> ~Orphan(l) \/ Guarded
=============================================================================
