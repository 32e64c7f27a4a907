-------------------------- MODULE MCInventoryLedger --------------------------
(* Instances of InventoryLedger for TLC.                                     *)
EXTENDS InventoryLedgerRefinement, TLC

CONSTANTS o1, o2, r1, a, b

One(sku)      == [sku |-> sku, qty |-> 1, named |-> TRUE]
Two(sku)      == [One(sku) EXCEPT !.qty = 2]
MCLower       == [s \in Skus |-> s]
MCEditable    == {[OwnedItem(b) EXCEPT !.owned = FALSE]}

\* The first order may be edited between two shipments; the second holds its SKUs in the
\* opposite order.
MCCarts ==
    o1 :> {<<One(a)>>, <<One(b), Two(a)>>} @@ o2 :> {<<One(a), One(b)>>}
        @@ r1 :> {<<One(b)>>}

AtWorkOn(f) == \E p \in Processes : work[p].source = f
Moved(f)    == \E m \in ledger : m.source = f

\* BOUNDS: the second order is not reopened once it is being deducted; where it is shipped,
\* no batch is received and the operator edits nothing; and he edits nothing while a row of
\* the client has no name.
SecondAlone ==
    /\ status[o2] = "awaiting" =>
        /\ ~Moved(o2)
        /\ \A p \in Processes : work[p].source = o2 => pc[p] = "read"
    /\ status[o2] = "shipped" \/ AtWorkOn(o2) =>
        items \cap Editable = {} /\ ~AtWorkOn(r1) /\ ~Moved(r1)
    /\ items \cap Editable = {} \/ \A i \in items \ named : ~i.owned
=============================================================================
