--------------------------- MODULE InventoryLedger ---------------------------
(***************************************************************************)
(* What moves the stock of one client: shipped orders are deducted         *)
(* (deductInventoryForOrder in src/src/services/fulfillment-deductions.ts) *)
(* and batches are received (POST /inventory/receive), each by one         *)
(* database transaction that finds or creates the inventory row of every   *)
(* line and appends a movement to the immutable inventory_ledger           *)
(* (applyInventoryMovementInTransaction).  The quantity on hand is the sum *)
(* of the ledger.                                                          *)
(*                                                                         *)
(* Labels, the order sync, the shipment sync and operators ship the same   *)
(* order concurrently, and clients retry a batch.  A transaction is READ   *)
(* COMMITTED: each statement sees what is committed plus its own writes,   *)
(* an insert that meets a key of an open transaction waits for it, and an  *)
(* update waits for an open transaction that has updated the row.          *)
(*                                                                         *)
(* What is abstracted:                                                     *)
(*  - one client: an inventory row is the client's or no client's;         *)
(*  - lines are those of buildDeductionLines: one per SKU, at least one;   *)
(*    a batch has one line per SKU too, and is retried with the same lines *)
(*    (so that its key, which also holds the index of the line, is that of *)
(*    source and row);                                                     *)
(*  - INVENTORY_AUTO_DEDUCT is on; an order keeps its client and is not    *)
(*    cancelled; a row keeps its SKU and client;                           *)
(*  - a name is there or missing (null or empty); a row inserted for a     *)
(*    batch has one, and the lines of a batch name no row that exists;     *)
(*  - notes and dates, and operators' single adjustments, which carry a    *)
(*    key of their own.                                                    *)
(***************************************************************************)
EXTENDS Integers, Sequences, FiniteSets

CONSTANTS
    Orders,
    Receipts,    \* receive requests, by Idempotency-Key
    Unowned,     \* orders and receipts without a client
    Skus,        \* SKUs as they are spelled
    Lower,       \* [Skus -> Skus]: one spelling for all that differ in case only
    Carts,       \* [Orders \cup Receipts -> sets of sequences of lines]
    Processes,
    MaxCopy,     \* BOUND: further rows of one SKU that no client owns
    Editable,    \* rows an operator adds, names, deactivates and reactivates
    None,        \* no row at hand, no work
    Mortal       \* processes that may die, at any point

Sources == Orders \cup Receipts
Items   == [owned : BOOLEAN, sku : Skus, copy : 0..MaxCopy]
Lines   == [sku : Skus, qty : Nat \ {0}, named : BOOLEAN]

OwnedItem(sku) == [owned |-> TRUE, sku |-> sku, copy |-> 0]

ASSUME InventoryAssumption ==
    /\ Orders \cap Receipts = {}
    /\ Unowned \subseteq Sources
    /\ Lower \in [Skus -> Skus]
    /\ \A f \in Sources : Carts[f] \subseteq Seq(Lines) \ {<<>>} /\ Carts[f] # {}
    /\ \A f \in Sources : \A c \in Carts[f] : \A m, n \in DOMAIN c :
            Lower[c[m].sku] = Lower[c[n].sku] => m = n
    /\ MaxCopy \in Nat
    /\ Editable \subseteq {i \in Items : i.owned => i.copy = 0}
    /\ None \notin Items \cup Sources
    /\ Mortal \subseteq Processes

VARIABLES
    items,     \* inventory: the committed rows
    inactive,  \* those with active = false
    named,     \* those with a name
    ledger,    \* inventory_ledger: the committed movements
    status,    \* orders.order_status
    cart,      \* the lines of orders.items, and of each batch
    pc,        \* where each process stands
    work,      \* what it moves: lines as it read them, the one it is at, that line's row,
               \* whether it is to name that row
    new        \* rows and movements its transaction has inserted, and the rows it has
               \* named, none of it committed

stock == <<items, inactive, named, ledger>>
vars  == <<items, inactive, named, ledger, status, cart, pc, work, new>>

-----------------------------------------------------------------------------

Moves   == [source : Sources, item : Items, qty : Nat]
Writes  == [items : SUBSET Items, moves : SUBSET Moves, named : SUBSET Items]
Nothing == [items |-> {}, moves |-> {}, named |-> {}]
Places  == {"idle", "read", "find", "findGlobal", "create", "look", "record", "name", "commit",
            "dead"}
Work    == [source : Sources \cup {None}, lines : Seq(Lines), at : Nat \ {0},
            item : Items \cup {None}, toName : BOOLEAN]
NoWork  == [source |-> None, lines |-> <<>>, at |-> 1, item |-> None, toName |-> FALSE]

TypeOK ==
    /\ items \subseteq Items
    /\ inactive \subseteq items
    /\ named \subseteq items
    /\ ledger \subseteq Moves
    /\ status \in [Orders -> {"awaiting", "shipped"}]
    /\ cart \in [Sources -> Seq(Lines)]
    /\ pc \in [Processes -> Places]
    /\ work \in [Processes -> Work]
    /\ \A p \in Processes : work[p] # NoWork => work[p].at \in DOMAIN work[p].lines
    /\ new \in [Processes -> Writes]

\* Any rows of the client may exist from the start, named or not.
Init ==
    /\ items \in SUBSET {OwnedItem(s) : s \in Skus}
    /\ inactive = {}
    /\ named \in SUBSET items
    /\ ledger = {}
    /\ status = [o \in Orders |-> "awaiting"]
    /\ cart \in [Sources -> UNION {Carts[f] : f \in Sources}]
    /\ \A f \in Sources : cart[f] \in Carts[f]
    /\ pc = [p \in Processes |-> "idle"]
    /\ work = [p \in Processes |-> NoWork]
    /\ new = [p \in Processes |-> Nothing]

Step(p, from, to) == pc[p] = from /\ pc' = [pc EXCEPT ![p] = to]

-----------------------------------------------------------------------------
(* Shipping and receiving start the transactions                           *)

FirstLookup(f) == IF f \in Orders \cap Unowned THEN "findGlobal" ELSE "find"

TakeOn(p, f) ==
    work' = [work EXCEPT ![p] =
        [source |-> f, lines |-> cart[f], at |-> 1, item |-> None, toName |-> FALSE]]

\* createLabelV2 and the external-shipped route read an order that awaits shipment ...
ReadOrder(p, o) ==
    /\ Step(p, "idle", "read")
    /\ status[o] = "awaiting"
    /\ TakeOn(p, o)
    /\ UNCHANGED <<stock, status, cart, new>>

\* ... and much later mark it shipped, whatever it is by then, and deduct what they read.
MarkShipped(p) ==
    /\ Step(p, "read", FirstLookup(work[p].source))
    /\ status' = [status EXCEPT ![work[p].source] = "shipped"]
    /\ UNCHANGED <<stock, cart, work, new>>

\* The syncs deduct the orders that their conditional update has moved to shipped.
PromoteOrder(p, o) ==
    /\ Step(p, "idle", FirstLookup(o))
    /\ status[o] = "awaiting"
    /\ status' = [status EXCEPT ![o] = "shipped"]
    /\ TakeOn(p, o)
    /\ UNCHANGED <<stock, cart, new>>

ReceiveBatch(p, r) ==
    /\ Step(p, "idle", FirstLookup(r))
    /\ TakeOn(p, r)
    /\ UNCHANGED <<stock, status, cart, new>>

\* An import overwrites the items, and the status unless it would reopen the order.
ImportOrder(o) ==
    /\ cart' \in {[cart EXCEPT ![o] = c] : c \in Carts[o]}
    /\ \E incoming \in {"awaiting", "shipped"} :
        status' = [status EXCEPT ![o] = IF @ = "shipped" THEN @ ELSE incoming]
    /\ UNCHANGED <<stock, pc, work, new>>

\* Voiding a label reopens its order.
ReopenOrder(o) ==
    /\ status' = [status EXCEPT ![o] = "awaiting"]
    /\ UNCHANGED <<stock, cart, pc, work, new>>

-----------------------------------------------------------------------------
(* The statements of a transaction                                         *)

Line(p)      == work[p].lines[work[p].at]
Others(p)    == Processes \ {p}
IsOrder(p)   == work[p].source \in Orders
IsOwned(p)   == work[p].source \notin Unowned

\* Mutant: the quantity is part of the key.
SameAll(m, n) == m = n

\* The idempotency key of a movement: what caused it, and the row.
SameKey(m, n) == m.source = n.source /\ m.item = n.item

\* Rows a lookup may return; a deduction sees active ones only, a receipt all.
Matching(p, owned) ==
    {i \in items \cup new[p].items :
        /\ i.owned = owned
        /\ Lower[i.sku] = Lower[Line(p).sku]
        /\ IsOrder(p) => i \notin inactive}

Found(p, S, otherwise) ==
    \/ \E i \in S : /\ work' = [work EXCEPT ![p].item = i]
                    /\ pc' = [pc EXCEPT ![p] = "look"]
    \/ /\ S = {}
       /\ pc' = [pc EXCEPT ![p] = otherwise]
       /\ UNCHANGED work

\* The client's row, or for a receipt without a client nobody's.
Find(p) ==
    /\ pc[p] = "find"
    /\ Found(p, Matching(p, IsOwned(p)), IF IsOrder(p) THEN "findGlobal" ELSE "create")
    /\ UNCHANGED <<stock, status, cart, new>>

\* A deduction falls back on a row of no client.
FindGlobal(p) ==
    /\ pc[p] = "findGlobal"
    /\ Found(p, Matching(p, FALSE), "create")
    /\ UNCHANGED <<stock, status, cart, new>>

\* Mutant: what the transaction wrote is not rolled back.
LeaveOpen(p, to) ==
    /\ pc' = [pc EXCEPT ![p] = to]
    /\ work' = [work EXCEPT ![p] = NoWork]
    /\ UNCHANGED <<stock, status, cart, new>>

Abandon(p, to) ==
    /\ pc' = [pc EXCEPT ![p] = to]
    /\ new' = [new EXCEPT ![p] = Nothing]
    /\ work' = [work EXCEPT ![p] = NoWork]
    /\ UNCHANGED <<stock, status, cart>>

Creates(p) ==
    {i \in Items : /\ i.owned = IsOwned(p)
                   /\ i.sku = Line(p).sku
                   /\ i.owned => i.copy = 0}

\* A client has one row per spelling (inventory_client_sku_unq); nobody has any number.
InsertedElsewhere(p, i) == \E q \in Others(p) : i \in new[q].items

\* A batch falls back on the SKU for a name, a deduction has only that of the line.
CreatedNamed(p) == IsOrder(p) => Line(p).named

Create(p) ==
    /\ pc[p] = "create"
    /\ \E i \in Creates(p) :
        /\ ~InsertedElsewhere(p, i)
        /\ \/ /\ i \notin items \cup new[p].items
              /\ new' = [new EXCEPT ![p].items = @ \cup {i},
                                     ![p].named = IF CreatedNamed(p) THEN @ \cup {i} ELSE @]
              /\ work' = [work EXCEPT ![p].item = i]
              /\ pc' = [pc EXCEPT ![p] = "look"]
              /\ UNCHANGED <<stock, status, cart>>
           \/ i.owned /\ i \in items \cup new[p].items /\ Abandon(p, "idle")

\* applyInventoryMovementInTransaction, its first statement: the row as it is now.
Look(p) ==
    /\ Step(p, "look", "record")
    /\ work' = [work EXCEPT ![p].toName =
            IsOrder(p) /\ Line(p).named /\ work[p].item \notin named \cup new[p].named]
    /\ UNCHANGED <<stock, status, cart, new>>

Movement(p) == [source |-> work[p].source, item |-> work[p].item, qty |-> Line(p).qty]

\* Mutant: the insert does not wait for an equal key of an open transaction.
RecordedNowhere(p, m) == FALSE

RecordedElsewhere(p, m) == \E q \in Others(p) : \E n \in new[q].moves : SameKey(m, n)

\* Mutant: the quantity of the movement already there is not compared.
AnyIntent(p, n) == SameKey(Movement(p), n)

SameIntent(p, n) == n = Movement(p)

\* Mutant: one line too many.
NextLinePast(p) ==
    IF work[p].at > Len(work[p].lines)
    THEN pc' = [pc EXCEPT ![p] = "commit"] /\ UNCHANGED work
    ELSE /\ pc' = [pc EXCEPT ![p] = FirstLookup(work[p].source)]
         /\ work' = [work EXCEPT ![p].at = @ + 1, ![p].item = None, ![p].toName = FALSE]

NextLine(p) ==
    IF work[p].at = Len(work[p].lines)
    THEN pc' = [pc EXCEPT ![p] = "commit"] /\ UNCHANGED work
    ELSE /\ pc' = [pc EXCEPT ![p] = FirstLookup(work[p].source)]
         /\ work' = [work EXCEPT ![p].at = @ + 1, ![p].item = None, ![p].toName = FALSE]

\* A row that had no name when it was read is given that of the line, ...
GoOn(p) ==
    IF work[p].toName
    THEN pc' = [pc EXCEPT ![p] = "name"] /\ UNCHANGED work
    ELSE NextLine(p)

\* Insert on conflict do nothing, then compare.
Record(p) ==
    LET known == {n \in ledger \cup new[p].moves : SameKey(Movement(p), n)} IN
    /\ pc[p] = "record"
    /\ ~RecordedElsewhere(p, Movement(p))
    /\ \/ /\ known = {}
          /\ new' = [new EXCEPT ![p].moves = @ \cup {Movement(p)}]
          /\ GoOn(p)
          /\ UNCHANGED <<stock, status, cart>>
       \/ /\ \E n \in known : SameIntent(p, n)
          /\ GoOn(p)
          /\ UNCHANGED <<stock, status, cart, new>>
       \/ /\ \E n \in known : ~SameIntent(p, n)
          /\ Abandon(p, "idle")

NamedElsewhere(i, Q) == \E q \in Q : i \in new[q].named

\* ... whatever name it has by now, once no other transaction holds the row.
Name(p) ==
    /\ pc[p] = "name"
    /\ ~NamedElsewhere(work[p].item, Others(p))
    /\ new' = [new EXCEPT ![p].named = @ \cup {work[p].item}]
    /\ NextLine(p)
    /\ UNCHANGED <<stock, status, cart>>

Commit(p) ==
    /\ Step(p, "commit", "idle")
    /\ items' = items \cup new[p].items
    /\ named' = named \cup new[p].named
    /\ ledger' = ledger \cup new[p].moves
    /\ new' = [new EXCEPT ![p] = Nothing]
    /\ work' = [work EXCEPT ![p] = NoWork]
    /\ UNCHANGED <<inactive, status, cart>>

Waits(p, q) ==
    \/ pc[p] = "create" /\ \E i \in Creates(p) : i.owned /\ i \in new[q].items
    \/ pc[p] = "record" /\ \E n \in new[q].moves : SameKey(Movement(p), n)
    \/ pc[p] = "name" /\ work[p].item \in new[q].named

\* The database ends a deadlock by failing one of those in it; every caller only logs.
Deadlock(p) ==
    /\ \E S \in SUBSET Processes : \E next \in [S -> S] :
        /\ p \in S
        /\ \A q \in S : next[q] # q /\ Waits(q, next[q])
        /\ \A q \in S : \E r \in S : next[r] = q
    /\ Abandon(p, "idle")

Crash(p) ==
    /\ p \in Mortal
    /\ pc[p] \notin {"idle", "dead"}
    /\ Abandon(p, "dead")

Switched(i, S) == IF i \in S THEN S \ {i} ELSE S \cup {i}

\* An operator adds a row, switches its active flag, or gives or takes its name.
EditItem(i) ==
    /\ \/ /\ i \notin items
          /\ \A p \in Processes : i \notin new[p].items
          /\ items' = items \cup {i}
          /\ named' \in {named, named \cup {i}}
          /\ UNCHANGED inactive
       \/ /\ i \in items /\ ~NamedElsewhere(i, Processes)
          /\ \/ inactive' = Switched(i, inactive) /\ UNCHANGED named
             \/ named' = Switched(i, named) /\ UNCHANGED inactive
          /\ UNCHANGED items
    /\ UNCHANGED <<ledger, status, cart, pc, work, new>>

-----------------------------------------------------------------------------

InTransaction(p) ==
    \/ MarkShipped(p) \/ Find(p) \/ FindGlobal(p) \/ Create(p) \/ Look(p) \/ Record(p)
    \/ Name(p) \/ Commit(p) \/ Deadlock(p)

Next ==
    \/ \E p \in Processes :
        \/ \E o \in Orders : ReadOrder(p, o) \/ PromoteOrder(p, o)
        \/ \E r \in Receipts : ReceiveBatch(p, r)
        \/ InTransaction(p) \/ Crash(p)
    \/ \E o \in Orders : ImportOrder(o) \/ ReopenOrder(o)
    \/ \E i \in Editable : EditItem(i)

Spec == Init /\ [][Next]_vars

\* Requests and syncs run on.
FairSpec == Spec /\ \A p \in Processes : WF_vars(InTransaction(p))

-----------------------------------------------------------------------------
(* What stock keeping relies on                                            *)

\* SKUs with one spelling that only the client ever has rows of.
ClientsOwn ==
    {s \in Skus :
        /\ \A t \in Skus : Lower[t] = Lower[s] => t = s
        /\ \A i \in Editable : i.sku = s => i.owned
        /\ \A f \in Unowned : \A c \in Carts[f] : \A n \in DOMAIN c : c[n].sku # s}

\* However often an order is shipped and a batch retried, and by whomever at once, each
\* such SKU of it moves once.
AppliedOnce ==
    \A m, n \in ledger :
        m.source = n.source /\ m.item.sku = n.item.sku /\ m.item.sku \in ClientsOwn
            => m = n

Whole(f, c) ==
    \A n \in DOMAIN c :
        \E m \in ledger : /\ m.source = f
                          /\ Lower[m.item.sku] = Lower[c[n].sku]
                          /\ m.qty = c[n].qty

\* A transaction that moves stock leaves its whole cart in the ledger, at the
\* quantities it read: no line is missing, and none stands at an older quantity.
MovesWholeCarts ==
    [][ledger' # ledger =>
        \E f \in Sources : \E c \in Carts[f] :
            /\ \E p \in Processes : work[p].source = f /\ work[p].lines = c
            /\ Whole(f, c)']_vars

Starting(p, o) == work[p].source = o /\ work[p].at = 1 /\ pc[p] = FirstLookup(o)
Deducted(o)    == \E m \in ledger : m.source = o

\* The client has a row, named and left alone, for all the order may contain.
Stocked(o) ==
    /\ o \notin Unowned
    /\ \A c \in Carts[o] : \A n \in DOMAIN c :
        /\ OwnedItem(c[n].sku) \in ((items \ inactive) \cap named) \ Editable
        /\ \A s \in Skus : Lower[s] = Lower[c[n].sku] => s = c[n].sku

\* Edits of the order leave its lines in their order.
InOneOrder(o) ==
    \A c, d \in Carts[o] : \A m, n \in DOMAIN c : \A k, l \in DOMAIN d :
        m < n /\ c[m].sku = d[k].sku /\ c[n].sku = d[l].sku => k < l

\* None of its deductions has looked for a row yet.
AtStart(o) == \A p \in Processes : work[p].source = o => pc[p] = "read" \/ Starting(p, o)

\* A deduction of stocked goods by a process that lives on succeeds, though shipments
\* that overlap wait for each other's keys, the others may die holding them, and other
\* orders hold and await the rows they name.  (Over rows without a name, deductions of
\* two orders fail each other.)
StockedIsDeducted ==
    \A o \in Orders :
        (\E p \in Processes \ Mortal : Starting(p, o)) /\ AtStart(o) /\ Stocked(o) /\ InOneOrder(o)
            ~> Deducted(o)
=============================================================================
