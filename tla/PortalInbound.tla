--------------------------- MODULE PortalInbound ---------------------------
(***************************************************************************)
(* Inbound shipments of the client portal: saving one (createPortalInbound)*)
(* or a batch of them (importPortalInbound) under an idempotency key, and  *)
(* receiving one (previewPortalInboundReceive, receivePortalInbound), while*)
(* the inventory the receipt is matched with is edited.                    *)
(*                                                                         *)
(* Every call is one READ COMMITTED transaction: what it writes is kept    *)
(* with the call and reaches the tables when it commits.  A key stands for *)
(* an actor and the key he sends.  Cancelled shipments, which nothing ever *)
(* makes of open ones, are received ones here: both are refused alike.     *)
(* A call takes its locks and reads what decides it in one step: what      *)
(* others do between the lock and the reads could as well come before it.  *)
(***************************************************************************)
EXTENDS Naturals

CONSTANTS
    Saves,      \* calls of createPortalInbound and importPortalInbound
    Keys,       \* idempotency keys
    NoKey,      \* the key of a create that sends none
    Details,    \* what a call may ask to save
    BatchSize,  \* shipments in an import
    Receivers,  \* operators with the receiving form
    Shipments,  \* inbound_shipments rows that may be created
    NoShipment, \* what a receipt is left with when its shipment is deleted
    Lines,      \* the items of a shipment, named by their SKU
    Rows,       \* inventory rows of the client
    NoSku,      \* the SKU of a row that does not exist, or matches no line
    Quantities, \* received quantities tried
    Nobody,     \* not a save, not a preview
    MaxEdits,   \* bound: edits of inventory rows and deletions
    MaxFaults   \* bound: failing statements, dying processes, lost answers

ASSUME NamesAssumption ==
    /\ NoKey \notin Keys /\ NoShipment \notin Shipments /\ NoSku \notin Lines
    /\ Nobody \notin Saves
ASSUME BoundsAssumption ==
    /\ Shipments \subseteq Nat /\ BatchSize \in Nat \ {0} /\ Quantities \subseteq Nat
    /\ MaxEdits \in Nat /\ MaxFaults \in Nat

VARIABLES
    status,     \* inbound_shipments.status
    receivedQty, \* inbound_items.received_qty
    receipts,   \* portal_inbound_create_requests
    ledger,     \* the 'receive' movements of inventory_ledger
    sku,        \* inventory.sku
    save,       \* the calls that save
    receiver,   \* the operators that receive
    savedBy,    \* the call that created the shipment (history)
    confirmed,  \* what the operator who received it had been shown (history)
    edits,      \* edits and deletions so far
    faults      \* faults so far

vars == <<status, receivedQty, receipts, ledger, sku, save, receiver, savedBy,
          confirmed, edits, faults>>

Kinds == {"create", "import"}
SavePcs == {"sent", "writing", "ended"}
ReceivePcs == {"idle", "shown", "writing"}

Statuses == {"absent", "open", "received", "deleted"}

\* A preview is what its fingerprint digests: the choice, the quantities, the
\* shipment's status and the inventory rows each line matches.
Previews == [shipment : Shipments, status : Statuses, add : BOOLEAN, qty : [Lines -> Quantities],
             targets : [Lines -> SUBSET Rows]]

ASSUME NobodyAssumption == Nobody \notin Previews

Hashes == [kind : Kinds, key : Keys \cup {NoKey}, details : Details]

Receipts == [key : Keys, part : Nat, hash : Hashes, shipment : Shipments \cup {NoShipment}]

Movements == [shipment : Shipments, line : Lines, row : Rows, qty : Nat]

TypeOK ==
    /\ status \in [Shipments -> Statuses]
    /\ receivedQty \in [Shipments -> [Lines -> Nat]]
    /\ receipts \subseteq Receipts
    /\ ledger \subseteq Movements
    /\ sku \in [Rows -> Lines \cup {NoSku}]
    /\ save \in [Saves -> [pc : SavePcs, kind : Kinds, key : Keys \cup {NoKey},
                           details : Details, answer : SUBSET Shipments]]
    /\ receiver \in [Receivers -> [pc : ReceivePcs, shown : Previews \cup {Nobody},
                                   moves : SUBSET Movements, rows : SUBSET Rows]]
    /\ savedBy \in [Shipments -> Saves \cup {Nobody}]
    /\ confirmed \in [Shipments -> Previews \cup {Nobody}]
    /\ edits \in 0 .. MaxEdits
    /\ faults \in 0 .. MaxFaults

\* An import always has a key.
Inputs == {i \in Hashes : i.kind = "import" => i.key \in Keys}

Resting == [pc |-> "idle", shown |-> Nobody, moves |-> {}, rows |-> {}]

Init ==
    /\ status = [i \in Shipments |-> "absent"]
    /\ receivedQty = [i \in Shipments |-> [l \in Lines |-> 0]]
    /\ receipts = {}
    /\ ledger = {}
    /\ sku \in [Rows -> Lines \cup {NoSku}]
    /\ \E input \in [Saves -> Inputs] :
          save = [s \in Saves |->
                    [pc |-> "sent", kind |-> input[s].kind, key |-> input[s].key,
                     details |-> input[s].details, answer |-> {}]]
    /\ receiver = [q \in Receivers |-> Resting]
    /\ savedBy = [i \in Shipments |-> Nobody]
    /\ confirmed = [i \in Shipments |-> Nobody]
    /\ edits = 0
    /\ faults = 0

Fault == faults < MaxFaults /\ faults' = faults + 1
Edit == edits < MaxEdits /\ edits' = edits + 1

saving == <<status, receivedQty, receipts, savedBy>>
receiving == <<ledger, sku, receiver, confirmed, edits>>
-----------------------------------------------------------------------------
(* Saving. *)

\* Mutant: imports and creates lock different names.
HoldsOwnKind(s, k) == save[s].kind = "create" /\ save[s].key = k /\ save[s].pc = "writing"

\* The transaction's advisory lock on the actor's key.
Holds(s, k) == save[s].key = k /\ save[s].pc = "writing"

\* Creates and imports share the lock's namespace; a create without a key
\* takes no lock.
Locks(s) == save[s].key = NoKey \/ \A t \in Saves : ~Holds(t, save[s].key)

\* What the digest of a request covers: an import's its key too.
Hash(s) == [kind |-> save[s].kind,
            key |-> IF save[s].kind = "import" THEN save[s].key ELSE NoKey,
            details |-> save[s].details]

\* The receipt of an earlier request with the key.
Previous(s) == {x \in receipts : x.key = save[s].key /\ x.part = 0}

SameHash(x, s) == x.hash = Hash(s)

\* The receipts a replay answers from: an import's are found by their hash.
Replayed(s) ==
    IF save[s].kind = "create" THEN Previous(s)
    ELSE {x \in receipts : SameHash(x, s)}

Answers(s, ships) == save' = [save EXCEPT ![s].pc = "ended", ![s].answer = ships]

Replay(s) ==
    /\ save[s].pc = "sent" /\ Locks(s) /\ Previous(s) # {}
    /\ \A x \in Previous(s) : SameHash(x, s)
    /\ \A x \in Replayed(s) : x.shipment # NoShipment
    /\ Answers(s, {x.shipment : x \in Replayed(s)})
    /\ UNCHANGED <<saving, receiving, faults>>

\* The key was used with other details, or a shipment of it was deleted.
RefuseReuse(s) ==
    /\ save[s].pc = "sent" /\ Locks(s) /\ Previous(s) # {}
    /\ \/ \E x \in Previous(s) : ~SameHash(x, s)
       \/ \E x \in Replayed(s) : x.shipment = NoShipment
    /\ Answers(s, {})
    /\ UNCHANGED <<saving, receiving, faults>>

\* The file is no longer what was previewed: a client was renamed since.
RefuseImport(s) ==
    /\ save[s].pc = "sent" /\ Locks(s) /\ Previous(s) = {}
    /\ save[s].kind = "import"
    /\ Answers(s, {})
    /\ UNCHANGED <<saving, receiving, faults>>

\* The request is new.
Accept(s) ==
    /\ save[s].pc = "sent" /\ Locks(s) /\ Previous(s) = {}
    /\ save' = [save EXCEPT ![s].pc = "writing"]
    /\ UNCHANGED <<saving, receiving, faults>>

\* childKey: the first shipment of a batch keeps the request's key.
ChildPart(s, n) == n

Size(s) == IF save[s].kind = "import" THEN BatchSize ELSE 1
PartsOf(s) == 0 .. Size(s) - 1

Unsaved == {i \in Shipments : savedBy[i] = Nobody}

\* Mutant: a create without a key leaves a receipt too.
ReceiptsAlways(s, ships) ==
    {[key |-> save[s].key, part |-> ChildPart(s, n), hash |-> Hash(s),
      shipment |-> ships[n]] : n \in PartsOf(s)}

ReceiptsFor(s, ships) ==
    IF save[s].key = NoKey THEN {}
    ELSE {[key |-> save[s].key, part |-> ChildPart(s, n), hash |-> Hash(s),
           shipment |-> ships[n]] : n \in PartsOf(s)}

\* The primary key of the receipts would fail the transaction.
Collides(s) == \E x \in receipts : x.key = save[s].key /\ \E n \in PartsOf(s) : x.part = ChildPart(s, n)

\* Ids come from a sequence.
Serial(ships, made) ==
    /\ \A m, n \in DOMAIN ships : m < n => ships[m] < ships[n]
    /\ \A i \in made, j \in Unsaved \ made : i < j

\* All of it appears at once. A shipment may be saved as received, and adds
\* no stock then; the quantities it is saved with are taken as zero. The answer
\* may not arrive.
Commit(s) ==
    /\ save[s].pc = "writing" /\ ~Collides(s)
    /\ \E ships \in [PartsOf(s) -> Unsaved] :
        LET made == {ships[n] : n \in PartsOf(s)} IN
        /\ Serial(ships, made)
        /\ \E st \in [made -> {"open", "received"}] :
              status' = [i \in Shipments |-> IF i \in made THEN st[i] ELSE status[i]]
        /\ receipts' = receipts \cup ReceiptsFor(s, ships)
        /\ savedBy' = [i \in Shipments |-> IF i \in made THEN s ELSE savedBy[i]]
        /\ \/ Answers(s, made) /\ UNCHANGED faults
           \/ Fault /\ Answers(s, {})
    /\ UNCHANGED <<receivedQty, receiving>>

\* A statement fails or the process dies; the database rolls back.
SaveFails(s) ==
    /\ save[s].pc = "writing"
    /\ IF Collides(s) THEN UNCHANGED faults ELSE Fault
    /\ Answers(s, {})
    /\ UNCHANGED <<saving, receiving>>

SaveStep(s) == Replay(s) \/ RefuseReuse(s) \/ RefuseImport(s) \/ Accept(s) \/ Commit(s)
-----------------------------------------------------------------------------
(* Receiving. *)

Matches == [l \in Lines |-> {r \in Rows : sku[r] = l}]

PreviewOf(i, add, qty) == [shipment |-> i, status |-> status[i], add |-> add, qty |-> qty, targets |-> Matches]

Stocked(p) == {l \in Lines : p.add /\ p.qty[l] > 0}

\* Every line that adds stock has one row to add it to.
CanConfirm(p) == \A l \in Stocked(p) : \E r \in Rows : p.targets[l] = {r}

\* What planPortalInboundReceive accepts, for a preview and for a receipt.
Receivable(i) == status[i] = "open"

\* The preview, a snapshot; what cannot be confirmed leads to nothing.
Preview(q, i) ==
    /\ receiver[q].pc = "idle" /\ Receivable(i)
    /\ \E add \in BOOLEAN, qty \in [Lines -> Quantities] :
        LET p == PreviewOf(i, add, qty) IN
        /\ CanConfirm(p)
        /\ receiver' = [receiver EXCEPT ![q] = [Resting EXCEPT !.pc = "shown", !.shown = p]]
    /\ UNCHANGED <<saving, ledger, sku, save, confirmed, edits, faults>>

\* SELECT ... FOR UPDATE of the shipment and its items.
OnShipment(q, i) == receiver[q].pc = "writing" /\ receiver[q].shown.shipment = i

Ends(q) == receiver' = [receiver EXCEPT ![q] = Resting]

\* Mutant: what is confirmed is not compared with what was shown.
NotCompared(p, now) == TRUE

SameFingerprint(p, now) == p = now

Movement(p, l, r) == [shipment |-> p.shipment, line |-> l, row |-> r, qty |-> p.qty[l]]

\* What the receipt adds to the ledger; each line then matches one row.
Planned(p) == UNION {{Movement(p, l, r) : r \in p.targets[l]} : l \in Stocked(p)}

\* The shipment is locked and its status read, the rows are matched again and
\* locked FOR SHARE. The request sends the quantities again; the fingerprint
\* tells if they are others.
Confirm(q) ==
    LET p == receiver[q].shown
        i == p.shipment
    IN
    /\ receiver[q].pc = "shown"
    /\ \A o \in Receivers : ~OnShipment(o, i)
    /\ \E add \in BOOLEAN, qty \in [Lines -> Quantities] :
        LET now == PreviewOf(i, add, qty) IN
        IF Receivable(i) /\ CanConfirm(now) /\ SameFingerprint(p, now)
        THEN receiver' = [receiver EXCEPT ![q].pc = "writing", ![q].moves = Planned(now),
                                          ![q].rows = UNION {Matches[l] : l \in Lines}]
        ELSE Ends(q)
    /\ UNCHANGED <<saving, ledger, sku, save, confirmed, edits, faults>>

\* The movement's identity is the shipment's and the item's: one that is in
\* the ledger with another intent fails the transaction.
Conflicts(m) == \E n \in ledger : n.shipment = m.shipment /\ n.line = m.line /\ n # m

\* Items, movements and header appear together; the answer may not arrive,
\* and the operator may preview and confirm again.
ReceiveCommit(q) ==
    LET p == receiver[q].shown
        i == p.shipment
    IN
    /\ receiver[q].pc = "writing"
    /\ IF \E m \in receiver[q].moves : Conflicts(m)
       THEN UNCHANGED <<status, receivedQty, ledger, confirmed>>
       ELSE /\ status' = [status EXCEPT ![i] = "received"]
            /\ receivedQty' = [receivedQty EXCEPT ![i] = p.qty]
            /\ ledger' = ledger \cup receiver[q].moves
            /\ confirmed' = [confirmed EXCEPT ![i] = p]
    /\ Ends(q)
    /\ UNCHANGED <<receipts, savedBy, sku, save, edits, faults>>

\* A statement fails or the process dies; the database rolls back.
ReceiveFails(q) ==
    /\ receiver[q].pc = "writing"
    /\ Fault
    /\ Ends(q)
    /\ UNCHANGED <<saving, ledger, sku, save, confirmed, edits>>

ReceiveStep(q) == Confirm(q) \/ ReceiveCommit(q)
-----------------------------------------------------------------------------
(* The rest of the database. *)

\* Mutant: the matched rows are read without a lock.
NoRow(q) == {}

\* The inventory rows a receipt holds FOR SHARE.
SharedRows(q) == receiver[q].rows

\* A row is added, or its SKU is edited, which waits for the receipts that
\* hold it. A row without a SKU of the shipments' is one with NoSku.
EditRow(r, to) ==
    /\ Edit
    /\ \A q \in Receivers : r \notin SharedRows(q)
    /\ sku' = [sku EXCEPT ![r] = to]
    /\ UNCHANGED <<saving, ledger, receiver, save, confirmed, faults>>

\* A shipment is deleted by hand: its receipts stay (ON DELETE SET NULL).
Delete(i) ==
    /\ Edit
    /\ status[i] \in {"open", "received"}
    /\ \A q \in Receivers : ~OnShipment(q, i)
    /\ status' = [status EXCEPT ![i] = "deleted"]
    /\ receipts' = {IF x.shipment = i THEN [x EXCEPT !.shipment = NoShipment] ELSE x :
                       x \in receipts}
    /\ UNCHANGED <<receivedQty, savedBy, ledger, sku, receiver, save, confirmed, faults>>

Next ==
    \/ \E s \in Saves : SaveStep(s) \/ SaveFails(s)
    \/ \E q \in Receivers : ReceiveStep(q) \/ ReceiveFails(q)
    \/ \E q \in Receivers, i \in Shipments : Preview(q, i)
    \/ \E r \in Rows, to \in Lines \cup {NoSku} : EditRow(r, to)
    \/ \E i \in Shipments : Delete(i)

Spec == Init /\ [][Next]_vars
-----------------------------------------------------------------------------
(* Properties. *)

\* Two calls with one key never both save shipments.
OneSavePerKey ==
    \A i, j \in Shipments :
        (savedBy[i] # Nobody /\ savedBy[j] # Nobody) =>
            (save[savedBy[i]].key = save[savedBy[j]].key /\ save[savedBy[i]].key # NoKey
                => savedBy[i] = savedBy[j])

SameRequest(s, t) ==
    save[s].kind = save[t].kind /\ save[s].key = save[t].key
    /\ save[s].details = save[t].details

\* Whoever is answered is answered with all the shipments of one accepted
\* request, which asked for what he asked for: a replay never answers part of
\* a batch, nor for a request with other details.
AnswersAreWhole ==
    \A s \in Saves : save[s].answer # {} =>
        \E t \in Saves : SameRequest(s, t)
                          /\ save[s].answer = {i \in Shipments : savedBy[i] = t}

\* No call that writes is failed by the primary key of the receipts.
RetriesDoNotCollide == \A s \in Saves : save[s].pc = "writing" => ~Collides(s)

\* A key saves once, whichever entry points its calls use and however they
\* interleave, fail and are repeated; and a call that repeats another while it
\* runs waits for it instead of failing (createPortalInbound,
\* importPortalInbound).
KeySavesOnce == OneSavePerKey /\ RetriesDoNotCollide

MovesOf(i) == {m \in ledger : m.shipment = i}

\* The stock a shipment added and the quantities it shows are those of the one
\* preview its receiver confirmed, however many operators tried; a shipment
\* nobody confirmed added nothing.
StockAsShown ==
    \A i \in Shipments :
        IF confirmed[i] = Nobody THEN MovesOf(i) = {}
        ELSE /\ status[i] \in {"received", "deleted"}
             /\ receivedQty[i] = confirmed[i].qty
             /\ MovesOf(i) = Planned(confirmed[i])

\* Received units are booked to a row that carries the line's SKU when they
\* are, although SKUs are edited between the match and the booking.
StockReachesItsSku == [][\A m \in ledger' \ ledger : sku[m.row] = m.line]_vars
=============================================================================
