----------------------------- MODULE StoreMirror -----------------------------
(***************************************************************************)
(* What the order sync of a store account promises whoever reads orders    *)
(* from the tables, with none of what keeps the promise: no runs, pages,   *)
(* batches, tokens or failures.  The tables follow the store behind its    *)
(* changes, a step at a time and never backwards, and the cursor passes a  *)
(* change only once the tables have it.                                    *)
(* StoreSyncRefinement shows that StoreSync implements it.                 *)
(***************************************************************************)
EXTENDS Integers

CONSTANTS
    Orders,    \* the store's orders
    Skipped,   \* those never imported
    Times      \* a version is the time of the change: later ones are greater, 0 is before it is placed

VARIABLES
    store,     \* the version of each order in the store
    row,       \* in the orders table
    items,     \* in order_items
    cursor     \* the next run asks for what changed from here on

mirror == <<store, row, items, cursor>>

Imported == Orders \ Skipped

Init ==
    /\ store = [o \in Orders |-> 0]
    /\ row = [o \in Orders |-> 0]
    /\ items = [o \in Orders |-> 0]
    /\ cursor = 0

\* No order has a later version than the one that has just changed.
Change(o) ==
    /\ \E now \in Times :
        /\ store[o] < now
        /\ \A p \in Orders : store[p] <= now
        /\ store' = [store EXCEPT ![o] = now]
    /\ UNCHANGED <<row, items, cursor>>

\* Some rows catch up, not always with the latest version.
Copy ==
    /\ row' \in [Orders -> Times]
    /\ \A o \in Orders : row[o] <= row'[o] /\ row'[o] <= store[o]
    /\ \A o \in Skipped : row'[o] = row[o]
    /\ UNCHANGED <<store, items, cursor>>

\* The items of some orders are made those of their rows.
Rebuild ==
    /\ \E O \in SUBSET Imported :
        items' = [o \in Orders |-> IF o \in O THEN row[o] ELSE items[o]]
    /\ UNCHANGED <<store, row, cursor>>

\* What changed before the time at is in both tables.
HasAllBefore(at) ==
    \A o \in Imported :
        store[o] # 0 /\ store[o] < at => row[o] = store[o] /\ items[o] = store[o]

\* Never past the latest change: a later one finds the cursor behind it.
Pass ==
    /\ cursor' \in Times
    /\ cursor < cursor'
    /\ \E o \in Orders : cursor' <= store[o]
    /\ HasAllBefore(cursor')
    /\ UNCHANGED <<store, row, items>>

Next == (\E o \in Orders : Change(o)) \/ Copy \/ Rebuild \/ Pass

Spec == Init /\ [][Next]_mirror
=============================================================================
