---------------------- MODULE InventoryLedgerInductive ----------------------
(* The inductive invariant behind AppliedOnce and MovesWholeCarts, and part  *)
(* of the one behind the refinement of StockBook.                            *)
EXTENDS InventoryLedger

\* Rows that process p can see.
Rows(p) == items \cup new[p].items

Closed == {"idle", "dead"}

\* Between its transactions a process has no work and nothing written.
Rested(p) == pc[p] \in Closed => work[p] = NoWork /\ new[p] = Nothing

\* A process at work is at a line of a cart that its order or batch has had.
WorkSound(p) ==
    pc[p] \notin Closed =>
        /\ work[p].source \in Sources
        /\ work[p].lines \in Carts[work[p].source]
        /\ work[p].at \in DOMAIN work[p].lines

\* The row a movement is being recorded for is there and holds the line's SKU.
RowFound(p) ==
    pc[p] \in {"look", "record", "name"} =>
        work[p].item \in Rows(p) /\ Lower[work[p].item.sku] = Lower[Line(p).sku]

\* No row but the client's own is of a SKU that only the client has.
OnlyClients(I) == \A i \in I : i.sku \in ClientsOwn => i = OwnedItem(i.sku)

Shows(m, f, line) ==
    m.source = f /\ Lower[m.item.sku] = Lower[line.sku] /\ m.qty = line.qty

Finished(p) ==
    CASE pc[p] = "commit" -> DOMAIN work[p].lines
      [] pc[p] = "name"   -> 1..work[p].at
      [] OTHER            -> 1..(work[p].at - 1)

\* The lines a transaction has gone past are in the ledger, or will be with its commit.
LinesMoved(p) ==
    pc[p] \notin Closed =>
        \A n \in Finished(p) : \E m \in ledger \cup new[p].moves :
            Shows(m, work[p].source, work[p].lines[n])

ProcessInv(p) ==
    /\ Rested(p)
    /\ WorkSound(p)
    /\ RowFound(p)
    /\ OnlyClients(Rows(p))
    /\ \A m \in new[p].moves : m.item \in Rows(p)
    /\ new[p].named \subseteq Rows(p)
    /\ LinesMoved(p)

\* No key stands twice, committed or not.
KeysUnique ==
    LET moves == ledger \cup UNION {new[p].moves : p \in Processes}
    IN  \A m, n \in moves : SameKey(m, n) => m = n

LedgerInv ==
    /\ TypeOK
    /\ \A f \in Sources : cart[f] \in Carts[f]
    /\ \A m \in ledger : m.item \in items
    /\ OnlyClients(items)
    /\ \A p \in Processes : ProcessInv(p)
    /\ KeysUnique
=============================================================================
