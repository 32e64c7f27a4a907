------------------------------ MODULE StockBook ------------------------------
(***************************************************************************)
(* What the inventory ledger promises whoever reads stock from it, with    *)
(* none of what keeps the promise: no processes, statements, rollbacks or  *)
(* waiting for keys.  Carts are asked to be moved; a cart is booked whole, *)
(* at once, each line on one row of its SKU, whatever of it was booked     *)
(* before, and nothing is booked twice or taken back.                      *)
(* InventoryLedgerRefinement shows that InventoryLedger implements it.     *)
(***************************************************************************)
EXTENDS Integers

CONSTANTS
    Sources,  \* orders and batches
    Items,    \* inventory rows
    Lower,    \* one spelling of each SKU
    Carts     \* the carts a source may have

VARIABLES
    booked,   \* movements: what caused it, the row, the quantity
    asked     \* carts somebody is to book, with their source

book == <<booked, asked>>

Init == booked = {} /\ asked = {}

\* The movements of a cart, line by line on the given rows.
Booking(f, c, rows) == {[source |-> f, item |-> rows[n], qty |-> c[n].qty] : n \in DOMAIN c}

OncePerRow(moves) == \A m, n \in moves : m.source = n.source /\ m.item = n.item => m = n

Ask(f, c) ==
    /\ asked' = asked \cup {<<f, c>>}
    /\ UNCHANGED booked

\* Given up, or done with nothing left to book.
Drop(f, c) ==
    /\ asked' = asked \ {<<f, c>>}
    /\ UNCHANGED booked

\* Somebody else may have been asked the same.
Book(f, c) ==
    /\ <<f, c>> \in asked
    /\ \E rows \in [DOMAIN c -> Items] :
        /\ \A n \in DOMAIN c : Lower[rows[n].sku] = Lower[c[n].sku]
        /\ booked' = booked \cup Booking(f, c, rows)
    /\ OncePerRow(booked')
    /\ asked' \in {asked, asked \ {<<f, c>>}}

Next == \E f \in Sources : \E c \in Carts[f] : Ask(f, c) \/ Drop(f, c) \/ Book(f, c)

Spec == Init /\ [][Next]_book
=============================================================================
