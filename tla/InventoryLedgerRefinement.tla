---------------------- MODULE InventoryLedgerRefinement ----------------------
(* InventoryLedger implements the promise of StockBook: the committed        *)
(* movements are booked, and a cart is asked for while a process works on it *)
(* as it read it.  The statements of a transaction are not seen.             *)
EXTENDS InventoryLedgerInductive

Job(p) == <<work[p].source, work[p].lines>>
AtWork == {p \in Processes : work[p].source # None}

Books == INSTANCE StockBook WITH
    booked <- ledger,
    asked  <- {Job(p) : p \in AtWork}

\* What a transaction has inserted are movements of lines it has gone past, one of each.
NewOfLines(p) ==
    /\ \A m \in new[p].moves : \E n \in Finished(p) :
            Shows(m, work[p].source, work[p].lines[n])
    /\ \A m, n \in new[p].moves : Lower[m.item.sku] = Lower[n.item.sku] => m = n

BookInv == LedgerInv /\ \A p \in Processes : NewOfLines(p)

\* However shipments, syncs, retried batches, edits, deadlocks and dying processes
\* interleave statement by statement, stock moves as if each deduction of an order
\* (deductInventoryForOrder) and each receipt of a batch happened whole and at once.
ImplementsStockBook == Books!Spec
=============================================================================
