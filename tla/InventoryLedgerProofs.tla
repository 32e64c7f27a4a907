------------------------ MODULE InventoryLedgerProofs ------------------------
(* Proofs about InventoryLedger, for any orders, batches, SKUs, edits,        *)
(* processes and rows.                                                        *)
EXTENDS InventoryLedgerRefinement, TLAPS

LEMMA CartLines ==
    ASSUME NEW f \in Sources, NEW c \in Carts[f]
    PROVE  c \in Seq(Lines) /\ c # <<>> /\ Len(c) \in Nat \ {0} /\ DOMAIN c = 1..Len(c)
  BY InventoryAssumption

\* What a process at work holds.
LEMMA WorkTypes ==
    ASSUME TypeOK, NEW p \in Processes, WorkSound(p), pc[p] \notin Closed
    PROVE  /\ work[p].source \in Sources
           /\ work[p].lines \in Seq(Lines)
           /\ work[p].at \in 1..Len(work[p].lines)
           /\ Len(work[p].lines) \in Nat
           /\ Line(p) \in Lines
           /\ work[p].item \in Items \cup {None}
<1>1. work[p] \in Work
  BY DEF TypeOK
<1>2. /\ work[p].source \in Sources
      /\ work[p].lines \in Seq(Lines)
      /\ work[p].at \in 1..Len(work[p].lines)
      /\ Len(work[p].lines) \in Nat
  BY CartLines DEF WorkSound
<1>3. Line(p) \in Lines
  BY <1>2 DEF Line
<1>4. QED
  BY <1>1, <1>2, <1>3 DEF Work

LEMMA InvInit == Init => LedgerInv
<1> SUFFICES ASSUME Init PROVE LedgerInv
  OBVIOUS
<1>1. \A s \in Skus : OwnedItem(s) \in Items
  BY InventoryAssumption DEF OwnedItem, Items
<1>2. items \subseteq {OwnedItem(s) : s \in Skus}
  BY DEF Init
<1>3. items \subseteq Items /\ OnlyClients(items)
  BY <1>1, <1>2 DEF OnlyClients, OwnedItem
<1>4. cart \in [Sources -> Seq(Lines)]
  BY CartLines DEF Init
<1>5. NoWork \in Work /\ Nothing \in Writes
  BY DEF NoWork, Work, Nothing, Writes
<1>6. TypeOK
  BY <1>3, <1>4, <1>5 DEF Init, TypeOK, Places
<1>7. ASSUME NEW p \in Processes PROVE ProcessInv(p)
  BY <1>3, <1>7 DEF Init, ProcessInv, Rested, WorkSound, RowFound, Rows, LinesMoved, Closed, Nothing
<1>8. KeysUnique
  BY DEF Init, KeysUnique, Nothing
<1>9. QED
  BY <1>3, <1>6, <1>7, <1>8 DEF Init, LedgerInv

-----------------------------------------------------------------------------
(* Frames: what leaves the invariant of a process alone                    *)

\* The rows and the ledger only grow, and a process that does nothing keeps its own.
LEMMA Bystander ==
    ASSUME NEW p \in Processes, ProcessInv(p),
           pc'[p] = pc[p], work'[p] = work[p], new'[p] = new[p],
           items \subseteq items', ledger \subseteq ledger', OnlyClients(items')
    PROVE  ProcessInv(p)'
<1>1. Rested(p)' /\ WorkSound(p)'
  BY DEF ProcessInv, Rested, WorkSound
<1>2. Rows(p) \subseteq Rows(p)' /\ OnlyClients(Rows(p))'
  BY DEF Rows, ProcessInv, OnlyClients
<1>3. /\ RowFound(p)' /\ new'[p].named \subseteq Rows(p)'
      /\ \A m \in new'[p].moves : m.item \in Rows(p)'
  BY <1>2 DEF ProcessInv, RowFound, Line
<1>4. Finished(p)' = Finished(p)
  BY DEF Finished
<1>5. LinesMoved(p)'
  BY <1>4 DEF ProcessInv, LinesMoved, Shows
<1>6. QED
  BY <1>1, <1>2, <1>3, <1>5 DEF ProcessInv

\* Nothing is written: keys and rows are as they were.
LEMMA KeysKept ==
    ASSUME LedgerInv, ledger' = ledger,
           \A p \in Processes : new'[p].moves \subseteq new[p].moves
    PROVE  KeysUnique'
  BY DEF LedgerInv, KeysUnique, SameKey

-----------------------------------------------------------------------------
(* A process takes a source on, looks a row up, or gives up                *)

LEMMA Idle_Inv ==
    ASSUME LedgerInv, NEW p \in Processes, NEW f \in Sources, NEW step \in {"read", "find", "findGlobal"},
           pc[p] = "idle", pc' = [pc EXCEPT ![p] = step], TakeOn(p, f),
           UNCHANGED <<stock, cart, new>>, status' \in [Orders -> {"awaiting", "shipped"}]
    PROVE  LedgerInv'
<1> DEFINE taken == [source |-> f, lines |-> cart[f], at |-> 1, item |-> None, toName |-> FALSE]
<1>0. TypeOK /\ ProcessInv(p) /\ cart[f] \in Carts[f] /\ work \in [Processes -> Work]
      /\ pc \in [Processes -> Places]
  BY DEF LedgerInv, TypeOK
<1>1. cart[f] \in Seq(Lines) /\ 1 \in DOMAIN cart[f]
  BY <1>0, CartLines
<1>2. /\ taken \in Work /\ taken.source = f /\ taken.lines = cart[f]
      /\ taken.at = 1 /\ taken.item = None
  BY <1>1 DEF Work
<1>3. work' = [work EXCEPT ![p] = taken]
  BY DEF TakeOn
<1> HIDE DEF taken
<1>4. work'[p] = taken /\ pc'[p] = step /\ \A q \in Processes \ {p} : work'[q] = work[q] /\ pc'[q] = pc[q]
  BY <1>0, <1>3
<1>5. TypeOK'
  <2>1. work' \in [Processes -> Work] /\ pc' \in [Processes -> Places]
    BY <1>0, <1>2, <1>3 DEF Places
  <2>2. \A q \in Processes : work'[q] # NoWork => work'[q].at \in DOMAIN work'[q].lines
    BY <1>0, <1>1, <1>2, <1>4 DEF TypeOK
  <2>3. QED
    BY <1>0, <2>1, <2>2 DEF TypeOK, stock
<1>6. ProcessInv(p)'
  <2>1. Rested(p)' /\ RowFound(p)'
    BY <1>4 DEF Rested, RowFound, Closed
  <2>2. WorkSound(p)'
    BY <1>0, <1>1, <1>2, <1>4 DEF WorkSound
  <2>3. /\ OnlyClients(Rows(p))' /\ new'[p].named \subseteq Rows(p)'
        /\ \A m \in new'[p].moves : m.item \in Rows(p)'
    BY <1>0 DEF ProcessInv, Rows, OnlyClients, stock
  <2>4. LinesMoved(p)'
    BY <1>2, <1>4 DEF LinesMoved, Finished
  <2>5. QED
    BY <2>1, <2>2, <2>3, <2>4 DEF ProcessInv
<1>7. \A q \in Processes : ProcessInv(q)'
  BY <1>4, <1>6, Bystander DEF LedgerInv, stock
<1>8. KeysUnique'
  BY KeysKept DEF stock
<1>9. QED
  BY <1>5, <1>7, <1>8 DEF LedgerInv, stock, OnlyClients

LEMMA Abandon_Inv ==
    ASSUME LedgerInv, NEW p \in Processes, NEW to \in Closed, Abandon(p, to)
    PROVE  LedgerInv'
<1>0. TypeOK /\ ProcessInv(p)
  BY DEF LedgerInv
<1>1. NoWork \in Work /\ Nothing \in Writes
  BY DEF NoWork, Work, Nothing, Writes
<1>2. TypeOK'
  <2>1. /\ work' \in [Processes -> Work]
        /\ new' \in [Processes -> Writes]
        /\ pc' \in [Processes -> Places]
    BY <1>0, <1>1 DEF TypeOK, Abandon, Closed, Places
  <2>2. \A q \in Processes : work'[q] # NoWork => work'[q].at \in DOMAIN work'[q].lines
    BY <1>0 DEF TypeOK, Abandon
  <2>3. QED
    BY <1>0, <2>1, <2>2 DEF TypeOK, Abandon, stock
<1>3. pc'[p] = to /\ work'[p] = NoWork /\ new'[p] = Nothing
      /\ \A q \in Processes \ {p} : pc'[q] = pc[q] /\ work'[q] = work[q] /\ new'[q] = new[q]
  BY <1>0 DEF Abandon, TypeOK
<1>4. ProcessInv(p)'
  BY <1>0, <1>3 DEF ProcessInv, Rested, WorkSound, RowFound, LinesMoved, Closed, Nothing, Rows,
     OnlyClients, Abandon, stock
<1>5. \A q \in Processes : ProcessInv(q)'
  BY <1>3, <1>4, Bystander DEF LedgerInv, Abandon, stock
<1>6. KeysUnique'
  BY <1>3, KeysKept DEF Abandon, stock, Nothing
<1>7. QED
  BY <1>2, <1>5, <1>6 DEF LedgerInv, Abandon, stock, OnlyClients

\* A step within a transaction that leaves its work and writes nothing.
LEMMA Pass_Inv ==
    ASSUME LedgerInv, NEW p \in Processes, NEW step \in {"find", "findGlobal", "create"},
           pc[p] \in {"read", "find", "findGlobal"}, pc' = [pc EXCEPT ![p] = step],
           UNCHANGED <<stock, cart, work, new>>, status' \in [Orders -> {"awaiting", "shipped"}]
    PROVE  LedgerInv'
<1>0. TypeOK /\ ProcessInv(p)
  BY DEF LedgerInv
<1>1. pc'[p] = step /\ \A q \in Processes \ {p} : pc'[q] = pc[q]
  BY <1>0 DEF TypeOK
<1>2. TypeOK'
  BY <1>0 DEF TypeOK, stock, Places
<1>3. ProcessInv(p)'
  <2>1. Finished(p)' = Finished(p)
    BY <1>1 DEF Finished
  <2>2. QED
    BY <1>0, <1>1, <2>1 DEF ProcessInv, Rested, WorkSound, RowFound, LinesMoved, Closed, Rows,
       OnlyClients, Shows, stock
<1>4. \A q \in Processes : ProcessInv(q)'
  BY <1>1, <1>3, Bystander DEF LedgerInv, stock
<1>5. KeysUnique'
  BY KeysKept DEF stock
<1>6. QED
  BY <1>2, <1>4, <1>5 DEF LedgerInv, stock, OnlyClients

\* A transaction has the row for its line, found or created.
LEMMA Row_Inv ==
    ASSUME LedgerInv, NEW p \in Processes, pc[p] \in {"find", "findGlobal", "create"},
           NEW i \in Items, Lower[i.sku] = Lower[Line(p).sku],
           i.sku \in ClientsOwn => i = OwnedItem(i.sku),
           NEW names \in SUBSET {i},
           \/ i \in Rows(p) /\ UNCHANGED new
           \/ new' = [new EXCEPT ![p].items = @ \cup {i}, ![p].named = @ \cup names],
           work' = [work EXCEPT ![p].item = i], pc' = [pc EXCEPT ![p] = "look"],
           UNCHANGED <<stock, status, cart>>
    PROVE  LedgerInv'
<1> DEFINE held == [new[p] EXCEPT !.items = @ \cup {i}, !.named = @ \cup names]
<1>0. TypeOK /\ ProcessInv(p) /\ pc[p] \notin Closed /\ WorkSound(p)
      /\ work \in [Processes -> Work] /\ new \in [Processes -> Writes]
  BY DEF LedgerInv, Closed, ProcessInv, TypeOK
<1>1. work[p] \in Work /\ [work[p] EXCEPT !.item = i] \in Work
  <2>1. work[p] \in Work
    BY <1>0
  <2>2. QED
    BY <2>1 DEF Work
<1>2. /\ held \in Writes
      /\ held.items = new[p].items \cup {i} /\ held.moves = new[p].moves
      /\ held.named = new[p].named \cup names
  <2>1. new[p] \in Writes
    BY <1>0
  <2>2. QED
    BY <2>1 DEF Writes
<1>3. (i \in Rows(p) /\ UNCHANGED new) \/ new' = [new EXCEPT ![p] = held]
  OBVIOUS
<1> HIDE DEF held
<1>4. /\ pc'[p] = "look" /\ work'[p] = [work[p] EXCEPT !.item = i]
      /\ new'[p] \in {new[p], held}
      /\ \A q \in Processes \ {p} : pc'[q] = pc[q] /\ work'[q] = work[q] /\ new'[q] = new[q]
  BY <1>0, <1>3 DEF TypeOK
<1>5. /\ work'[p].source = work[p].source /\ work'[p].lines = work[p].lines
      /\ work'[p].at = work[p].at /\ work'[p].item = i
  BY <1>1, <1>4 DEF Work
<1>6. /\ new'[p].moves = new[p].moves
      /\ new'[p].named \subseteq new[p].named \cup {i}
      /\ \/ new'[p].items = new[p].items \cup {i}
         \/ new'[p].items = new[p].items /\ i \in Rows(p)
  <2>1. CASE i \in Rows(p) /\ UNCHANGED new
    BY <2>1
  <2>2. CASE new' = [new EXCEPT ![p] = held]
    BY <1>0, <1>2, <2>2
  <2>3. QED
    BY <1>3, <2>1, <2>2
<1>7. TypeOK'
  <2>1. work' \in [Processes -> Work] /\ pc' \in [Processes -> Places]
    BY <1>0, <1>1 DEF TypeOK, Places
  <2>2. new' \in [Processes -> Writes]
    BY <1>0, <1>2, <1>3
  <2>3. \A q \in Processes : work'[q] # NoWork => work'[q].at \in DOMAIN work'[q].lines
    BY <1>0, <1>4, <1>5 DEF TypeOK, WorkSound
  <2>4. QED
    BY <1>0, <2>1, <2>2, <2>3 DEF TypeOK, stock
<1>8. ProcessInv(p)'
  <2>1. Rows(p)' = Rows(p) \cup {i}
    BY <1>6 DEF Rows, stock
  <2>2. Rested(p)' /\ WorkSound(p)'
    BY <1>0, <1>4, <1>5 DEF Rested, WorkSound, Closed
  <2>3. RowFound(p)'
    BY <1>5, <2>1 DEF RowFound, Line
  <2>4. OnlyClients(Rows(p))'
    BY <1>0, <2>1 DEF ProcessInv, OnlyClients
  <2>5. /\ new'[p].named \subseteq Rows(p)'
        /\ \A m \in new'[p].moves : m.item \in Rows(p)'
    BY <1>0, <1>6, <2>1 DEF ProcessInv
  <2>6. Finished(p)' = Finished(p)
    BY <1>4, <1>5 DEF Finished
  <2>7. LinesMoved(p)'
    BY <1>0, <1>4, <1>5, <1>6, <2>6 DEF ProcessInv, LinesMoved, Shows, stock
  <2>8. QED
    BY <2>2, <2>3, <2>4, <2>5, <2>7 DEF ProcessInv
<1>9. \A q \in Processes : ProcessInv(q)'
  BY <1>4, <1>8, Bystander DEF LedgerInv, stock
<1>10. KeysUnique'
  <2>1. \A q \in Processes : new'[q].moves = new[q].moves
    BY <1>4, <1>6
  <2>2. QED
    BY <2>1, KeysKept DEF stock
<1>11. QED
  BY <1>7, <1>9, <1>10 DEF LedgerInv, stock, OnlyClients

LEMMA Found_Inv ==
    ASSUME LedgerInv, NEW p \in Processes, pc[p] \in {"find", "findGlobal"}, NEW owned,
           NEW step \in {"findGlobal", "create"}, Found(p, Matching(p, owned), step),
           UNCHANGED <<stock, status, cart, new>>
    PROVE  LedgerInv'
<1>0. TypeOK /\ ProcessInv(p)
  BY DEF LedgerInv
<1>1. ASSUME NEW i \in Matching(p, owned), work' = [work EXCEPT ![p].item = i],
             pc' = [pc EXCEPT ![p] = "look"]
      PROVE  LedgerInv'
  <2>1. i \in Rows(p) /\ Lower[i.sku] = Lower[Line(p).sku]
    BY DEF Matching, Rows
  <2>2. i \in Items /\ (i.sku \in ClientsOwn => i = OwnedItem(i.sku))
    BY <1>0, <2>1 DEF TypeOK, ProcessInv, OnlyClients, Rows, Writes
  <2>3. QED
    BY <1>1, <2>1, <2>2, Row_Inv
<1>2. CASE pc' = [pc EXCEPT ![p] = step] /\ UNCHANGED work
  BY <1>0, <1>2, Pass_Inv DEF TypeOK
<1>3. QED
  BY <1>1, <1>2 DEF Found

LEMMA Create_Inv ==
    ASSUME LedgerInv, NEW p \in Processes, Create(p)
    PROVE  LedgerInv'
<1>0. TypeOK /\ ProcessInv(p) /\ WorkSound(p) /\ pc[p] = "create" /\ pc[p] \notin Closed
  BY DEF LedgerInv, ProcessInv, Create, Closed
<1> DEFINE Inserted(i) ==
             [new EXCEPT ![p].items = @ \cup {i},
                         ![p].named = IF CreatedNamed(p) THEN @ \cup {i} ELSE @]
<1>1. PICK i \in Creates(p) :
        \/ /\ new' = Inserted(i)
           /\ work' = [work EXCEPT ![p].item = i]
           /\ pc' = [pc EXCEPT ![p] = "look"]
           /\ UNCHANGED <<stock, status, cart>>
        \/ Abandon(p, "idle")
  BY DEF Create
<1>2. i \in Items /\ i.owned = IsOwned(p) /\ i.sku = Line(p).sku /\ (i.owned => i.copy = 0)
  BY DEF Creates
<1>3. ASSUME i.sku \in ClientsOwn PROVE i = OwnedItem(i.sku)
  <2>1. \A f \in Unowned : \A c \in Carts[f] : \A n \in DOMAIN c : c[n].sku # i.sku
    BY <1>3 DEF ClientsOwn
  <2>2. work[p].source \notin Unowned
    BY <1>0, <1>2, <2>1 DEF WorkSound, Line
  <2>3. i.owned = TRUE /\ i.copy = 0
    BY <1>2, <2>2 DEF IsOwned
  <2>4. QED
    BY <1>2, <2>3 DEF OwnedItem, Items
<1>4. CASE /\ new' = Inserted(i)
           /\ work' = [work EXCEPT ![p].item = i] /\ pc' = [pc EXCEPT ![p] = "look"]
           /\ UNCHANGED <<stock, status, cart>>
  <2>1. PICK names \in SUBSET {i} :
            new' = [new EXCEPT ![p].items = @ \cup {i}, ![p].named = @ \cup names]
    <3>1. CASE CreatedNamed(p)
      BY <1>4, <3>1
    <3>2. CASE ~CreatedNamed(p)
      <4>1. new[p].named \cup {} = new[p].named /\ {} \in SUBSET {i}
        OBVIOUS
      <4>2. QED
        BY <1>4, <3>2, <4>1
    <3>3. QED
      BY <3>1, <3>2
  <2>2. QED
    BY <1>0, <1>2, <1>3, <1>4, <2>1, Row_Inv
<1>5. CASE Abandon(p, "idle")
  BY <1>5, Abandon_Inv DEF Closed
<1>6. QED
  BY <1>1, <1>4, <1>5

\* After a line comes the next one, or the commit.
LEMMA NextLine_Work ==
    ASSUME LedgerInv, NEW p \in Processes, pc[p] \in {"record", "name"}, NextLine(p)
    PROVE  /\ work' \in [Processes -> Work]
           /\ pc' \in [Processes -> {"find", "findGlobal", "commit"} \cup {pc[q] : q \in Processes}]
           /\ pc'[p] \in {"find", "findGlobal", "commit"}
           /\ work'[p].source = work[p].source
           /\ work'[p].lines = work[p].lines
           /\ work'[p].at \in DOMAIN work[p].lines
           /\ Finished(p)' = Finished(p) \cup {work[p].at}
           /\ \A q \in Processes \ {p} : pc'[q] = pc[q] /\ work'[q] = work[q]
<1> DEFINE further == [work[p] EXCEPT !.at = @ + 1, !.item = None, !.toName = FALSE]
<1>0. TypeOK /\ WorkSound(p) /\ pc[p] \notin Closed /\ work \in [Processes -> Work]
  BY DEF LedgerInv, ProcessInv, Closed, TypeOK
<1>1. work[p] \in Work
  BY <1>0
<1>2. /\ work[p].at \in 1..Len(work[p].lines) /\ Len(work[p].lines) \in Nat
      /\ DOMAIN work[p].lines = 1..Len(work[p].lines)
  BY <1>0, WorkTypes
<1>3. CASE work[p].at = Len(work[p].lines)
  <2>1. work' = work /\ pc'[p] = "commit" /\ pc' = [pc EXCEPT ![p] = "commit"]
    BY <1>0, <1>3 DEF NextLine, TypeOK
  <2>2. Finished(p)' = Finished(p) \cup {work[p].at}
    BY <1>2, <1>3, <2>1 DEF Finished
  <2>3. QED
    BY <1>0, <1>2, <2>1, <2>2 DEF TypeOK
<1>4. CASE work[p].at # Len(work[p].lines)
  <2>1. /\ further \in Work
        /\ further.source = work[p].source /\ further.lines = work[p].lines
        /\ further.at = work[p].at + 1
    <3>1. work[p].at + 1 \in Nat \ {0}
      BY <1>2
    <3>2. QED
      BY <1>1, <3>1, Zenon DEF Work
  <2>2. work' = [work EXCEPT ![p] = further] /\ pc' = [pc EXCEPT ![p] = FirstLookup(work[p].source)]
    BY <1>4 DEF NextLine
  <2> HIDE DEF further
  <2>3. work'[p] = further /\ pc'[p] \in {"find", "findGlobal"}
    BY <1>0, <2>2 DEF TypeOK, FirstLookup
  <2>4. Finished(p)' = Finished(p) \cup {work[p].at}
    BY <1>2, <2>1, <2>3 DEF Finished
  <2>5. work'[p].at \in DOMAIN work[p].lines
    BY <1>2, <1>4, <2>1, <2>3
  <2>6. work' \in [Processes -> Work] /\ \A q \in Processes \ {p} : pc'[q] = pc[q] /\ work'[q] = work[q]
    BY <1>0, <2>1, <2>2 DEF TypeOK
  <2>7. pc' \in [Processes -> {"find", "findGlobal", "commit"} \cup {pc[q] : q \in Processes}]
    BY <1>0, <2>2, <2>3 DEF TypeOK
  <2>8. QED
    BY <2>1, <2>3, <2>4, <2>5, <2>6, <2>7
<1>5. QED
  BY <1>3, <1>4

\* With the movement of its line a transaction goes on to the next, or to name its row.
LEMMA GoOn_Work ==
    ASSUME LedgerInv, NEW p \in Processes, pc[p] \in {"record", "name"},
           NextLine(p) \/ (pc[p] = "record" /\ GoOn(p))
    PROVE  /\ work' \in [Processes -> Work]
           /\ pc' \in [Processes -> Places]
           /\ pc'[p] \in {"find", "findGlobal", "commit", "name"}
           /\ pc'[p] = "name" => work'[p] = work[p]
           /\ work'[p].source = work[p].source
           /\ work'[p].lines = work[p].lines
           /\ work'[p].at \in DOMAIN work[p].lines
           /\ Finished(p)' = Finished(p) \cup {work[p].at}
           /\ \A q \in Processes \ {p} : pc'[q] = pc[q] /\ work'[q] = work[q]
<1>0. TypeOK /\ WorkSound(p) /\ pc[p] \notin Closed
  BY DEF LedgerInv, ProcessInv, Closed
<1>1. CASE NextLine(p)
  <2>1. pc' \in [Processes -> Places]
    BY <1>0, <1>1, NextLine_Work DEF TypeOK, Places
  <2>2. QED
    BY <1>1, <2>1, NextLine_Work
<1>2. CASE pc[p] = "record" /\ pc' = [pc EXCEPT ![p] = "name"] /\ UNCHANGED work
  <2>1. /\ pc' \in [Processes -> Places] /\ pc'[p] = "name"
        /\ \A q \in Processes \ {p} : pc'[q] = pc[q]
    BY <1>0, <1>2 DEF TypeOK, Places
  <2>2. Finished(p)' = Finished(p) \cup {work[p].at}
    <3>1. work[p].at \in Nat \ {0}
      BY <1>0, WorkTypes
    <3>2. Finished(p) = 1..(work[p].at - 1) /\ Finished(p)' = 1..work[p].at
      BY <1>2, <2>1 DEF Finished
    <3>3. QED
      BY <3>1, <3>2
  <2>3. QED
    BY <1>0, <1>2, <2>1, <2>2 DEF TypeOK, WorkSound
<1>3. QED
  BY <1>1, <1>2 DEF GoOn

\* A movement stands in the ledger or in what the transaction has written.
LEMMA Moved_Inv ==
    ASSUME LedgerInv, NEW p \in Processes, pc[p] \in {"record", "name"},
           NextLine(p) \/ (pc[p] = "record" /\ GoOn(p)),
           UNCHANGED <<stock, status, cart>>, new' \in [Processes -> Writes],
           new'[p].items = new[p].items, new'[p].named \subseteq new[p].named \cup {work[p].item},
           \E m \in ledger \cup new'[p].moves : Shows(m, work[p].source, Line(p)),
           new[p].moves \subseteq new'[p].moves,
           new'[p].moves \subseteq new[p].moves \cup {Movement(p)},
           \A q \in Processes \ {p} : new'[q] = new[q],
           KeysUnique'
    PROVE  LedgerInv'
<1>0. TypeOK /\ ProcessInv(p) /\ pc[p] \notin Closed /\ WorkSound(p) /\ RowFound(p)
  BY DEF LedgerInv, Closed, ProcessInv
<1>1. TypeOK'
  <2>1. pc' \in [Processes -> Places] /\ work' \in [Processes -> Work]
    BY GoOn_Work
  <2>2. \A q \in Processes : work'[q] # NoWork => work'[q].at \in DOMAIN work'[q].lines
    BY <1>0, GoOn_Work DEF TypeOK
  <2>3. QED
    BY <1>0, <2>1, <2>2, GoOn_Work DEF TypeOK, stock
<1>2. ProcessInv(p)'
  <2>1. Rows(p)' = Rows(p)
    BY DEF Rows, stock
  <2>2. Rested(p)' /\ WorkSound(p)' /\ RowFound(p)'
    BY <1>0, <2>1, GoOn_Work DEF Rested, WorkSound, RowFound, Closed, Line
  <2>3. OnlyClients(Rows(p))'
    BY <1>0, <2>1 DEF ProcessInv, OnlyClients
  <2>4. /\ new'[p].named \subseteq Rows(p)'
        /\ \A m \in new'[p].moves : m.item \in Rows(p)'
    BY <1>0, <2>1 DEF ProcessInv, Movement, RowFound
  <2>6. ASSUME NEW n \in Finished(p) \cup {work[p].at}
        PROVE  \E m \in ledger \cup new'[p].moves : Shows(m, work[p].source, work[p].lines[n])
    BY <1>0, <2>6 DEF ProcessInv, LinesMoved, Line
  <2>7. LinesMoved(p)'
    BY <2>6, GoOn_Work DEF LinesMoved, Shows, stock
  <2>8. QED
    BY <2>2, <2>3, <2>4, <2>7 DEF ProcessInv
<1>3. \A q \in Processes : ProcessInv(q)'
  BY <1>2, GoOn_Work, Bystander DEF LedgerInv, stock
<1>4. QED
  BY <1>1, <1>3 DEF LedgerInv, stock, OnlyClients

LEMMA Record_Inv ==
    ASSUME LedgerInv, NEW p \in Processes, Record(p)
    PROVE  LedgerInv'
<1> DEFINE m == Movement(p)
           known == {n \in ledger \cup new[p].moves : SameKey(m, n)}
           held == [new[p] EXCEPT !.moves = @ \cup {m}]
<1>0. /\ TypeOK /\ ProcessInv(p) /\ WorkSound(p) /\ RowFound(p) /\ KeysUnique
      /\ pc[p] = "record" /\ pc[p] \notin Closed
      /\ new \in [Processes -> Writes]
  BY DEF LedgerInv, ProcessInv, Record, Closed, TypeOK
<1>1. m \in Moves
  <2>1. work[p].item \in Items /\ work[p].source \in Sources /\ Line(p).qty \in Nat
    BY <1>0, WorkTypes DEF RowFound, Rows, TypeOK, Lines, Writes
  <2>2. QED
    BY <2>1 DEF Movement, Moves
<1>6. Shows(m, work[p].source, Line(p))
  BY <1>0 DEF Shows, Movement, RowFound
<1>2. ASSUME known = {}, new' = [new EXCEPT ![p].moves = @ \cup {m}], GoOn(p),
             UNCHANGED <<stock, status, cart>>
      PROVE  LedgerInv'
  <2>1. /\ held \in Writes
        /\ held.items = new[p].items /\ held.moves = new[p].moves \cup {m}
        /\ held.named = new[p].named
    <3>1. new[p] \in Writes
      BY <1>0
    <3>2. QED
      BY <1>1, <3>1 DEF Writes
  <2>2. new' = [new EXCEPT ![p] = held]
    BY <1>2
  <2> HIDE DEF held
  <2>3. /\ new' \in [Processes -> Writes]
        /\ new'[p] = held /\ \A q \in Processes \ {p} : new'[q] = new[q]
    BY <1>0, <2>1, <2>2
  <2>4. KeysUnique'
    <3>1. ASSUME NEW q \in Processes, NEW n \in ledger \cup new[q].moves
          PROVE  ~SameKey(m, n)
      BY <1>2, <3>1 DEF Record, RecordedElsewhere, Others
    <3>2. ASSUME NEW q \in Processes, NEW n \in ledger' \cup new'[q].moves
          PROVE  n = m \/ \E r \in Processes : n \in ledger \cup new[r].moves
      BY <1>2, <2>1, <2>3, <3>2 DEF stock
    <3>3. \A k, n : SameKey(k, n) => SameKey(n, k)
      BY DEF SameKey
    <3> HIDE DEF m
    <3>4. ASSUME NEW q \in Processes, NEW k \in ledger' \cup new'[q].moves,
                 NEW r \in Processes, NEW n \in ledger' \cup new'[r].moves, SameKey(k, n)
          PROVE  k = n
      BY <1>0, <3>1, <3>2, <3>3, <3>4 DEF KeysUnique
    <3>5. QED
      BY <1>2, <3>4 DEF KeysUnique, SameKey
  <2>5. \E n \in ledger \cup new'[p].moves : Shows(n, work[p].source, Line(p))
    BY <1>6, <2>1, <2>3
  <2>6. QED
    BY <1>0, <1>2, <2>1, <2>3, <2>4, <2>5, Moved_Inv
<1>3. ASSUME \E n \in known : SameIntent(p, n), GoOn(p), UNCHANGED <<stock, status, cart, new>>
      PROVE  LedgerInv'
  <2>1. m \in ledger \cup new[p].moves
    BY <1>3 DEF SameIntent
  <2>2. KeysUnique'
    BY <1>3, KeysKept DEF stock
  <2>3. QED
    BY <1>0, <1>3, <1>6, <2>1, <2>2, Moved_Inv
<1>4. CASE Abandon(p, "idle")
  BY <1>4, Abandon_Inv DEF Closed
<1>5. QED
  BY <1>2, <1>3, <1>4 DEF Record

\* Reading the row, and giving it a name, leave the movements alone.
LEMMA Look_Inv ==
    ASSUME LedgerInv, NEW p \in Processes, Look(p)
    PROVE  LedgerInv'
<1> DEFINE seen == [work[p] EXCEPT !.toName =
                       IsOrder(p) /\ Line(p).named /\ work[p].item \notin named \cup new[p].named]
<1>0. /\ TypeOK /\ ProcessInv(p) /\ pc[p] = "look" /\ WorkSound(p) /\ pc[p] \notin Closed
      /\ work \in [Processes -> Work]
  BY DEF LedgerInv, Look, Step, ProcessInv, TypeOK, Closed
<1>1. /\ seen \in Work /\ seen.source = work[p].source /\ seen.lines = work[p].lines
      /\ seen.at = work[p].at /\ seen.item = work[p].item
  <2>1. work[p] \in Work
    BY <1>0
  <2>2. QED
    BY <2>1, Zenon DEF Work
<1>2. work' = [work EXCEPT ![p] = seen] /\ pc' = [pc EXCEPT ![p] = "record"]
      /\ UNCHANGED <<stock, status, cart, new>>
  BY DEF Look, Step
<1> HIDE DEF seen
<1>3. /\ pc'[p] = "record" /\ work'[p] = seen
      /\ \A q \in Processes \ {p} : pc'[q] = pc[q] /\ work'[q] = work[q] /\ new'[q] = new[q]
  BY <1>0, <1>2 DEF TypeOK
<1>4. TypeOK'
  <2>1. work' \in [Processes -> Work] /\ pc' \in [Processes -> Places]
    BY <1>0, <1>1, <1>2 DEF TypeOK, Places
  <2>2. \A q \in Processes : work'[q] # NoWork => work'[q].at \in DOMAIN work'[q].lines
    BY <1>0, <1>1, <1>3 DEF TypeOK, WorkSound
  <2>3. QED
    BY <1>0, <1>2, <2>1, <2>2 DEF TypeOK, stock
<1>5. ProcessInv(p)'
  <2>1. Rows(p)' = Rows(p) /\ Finished(p)' = Finished(p)
    BY <1>0, <1>1, <1>2, <1>3 DEF Rows, Finished, stock
  <2>2. Rested(p)' /\ WorkSound(p)' /\ RowFound(p)'
    BY <1>0, <1>1, <1>3, <2>1 DEF ProcessInv, Rested, WorkSound, RowFound, Closed, Line
  <2>3. LinesMoved(p)'
    BY <1>0, <1>1, <1>2, <1>3, <2>1 DEF ProcessInv, LinesMoved, Shows, stock
  <2>4. QED
    BY <1>0, <1>2, <2>1, <2>2, <2>3 DEF ProcessInv, OnlyClients
<1>6. \A q \in Processes : ProcessInv(q)'
  BY <1>2, <1>3, <1>5, Bystander DEF LedgerInv, stock
<1>7. KeysUnique'
  BY <1>2, KeysKept DEF stock
<1>8. QED
  BY <1>2, <1>4, <1>6, <1>7 DEF LedgerInv, stock, OnlyClients

LEMMA Name_Inv ==
    ASSUME LedgerInv, NEW p \in Processes, Name(p)
    PROVE  LedgerInv'
<1> DEFINE held == [new[p] EXCEPT !.named = @ \cup {work[p].item}]
<1>0. /\ TypeOK /\ ProcessInv(p) /\ WorkSound(p) /\ RowFound(p)
      /\ pc[p] = "name" /\ pc[p] \notin Closed /\ new \in [Processes -> Writes]
  BY DEF LedgerInv, ProcessInv, Name, Closed, TypeOK
<1>1. /\ held \in Writes /\ held.items = new[p].items /\ held.moves = new[p].moves
      /\ held.named = new[p].named \cup {work[p].item}
  <2>1. new[p] \in Writes /\ work[p].item \in Items
    BY <1>0 DEF RowFound, Rows, TypeOK, Writes
  <2>2. QED
    BY <2>1 DEF Writes
<1>2. new' = [new EXCEPT ![p] = held] /\ NextLine(p) /\ UNCHANGED <<stock, status, cart>>
  BY DEF Name
<1> HIDE DEF held
<1>3. /\ new' \in [Processes -> Writes] /\ new'[p] = held
      /\ \A q \in Processes \ {p} : new'[q] = new[q]
  BY <1>0, <1>1, <1>2
<1>4. \E m \in ledger \cup new'[p].moves : Shows(m, work[p].source, Line(p))
  <2>1. work[p].at \in Finished(p)
    BY <1>0, WorkTypes DEF Finished
  <2>2. QED
    BY <1>0, <1>1, <1>3, <2>1 DEF ProcessInv, LinesMoved, Line
<1>5. KeysUnique'
  BY <1>1, <1>2, <1>3, KeysKept DEF stock
<1>6. /\ new'[p].items = new[p].items /\ new'[p].moves = new[p].moves
      /\ new'[p].named \subseteq new[p].named \cup {work[p].item}
  BY <1>1, <1>3
<1>7. pc[p] \in {"record", "name"} /\ NextLine(p) /\ UNCHANGED <<stock, status, cart>>
  BY <1>0, <1>2
<1>8. new'[p].moves \subseteq new[p].moves \cup {Movement(p)}
  BY <1>6
<1> HIDE DEF held
<1>9. QED
  BY <1>3, <1>4, <1>5, <1>6, <1>7, <1>8, Moved_Inv

LEMMA Commit_Inv ==
    ASSUME LedgerInv, NEW p \in Processes, Commit(p)
    PROVE  LedgerInv'
<1>0. TypeOK /\ ProcessInv(p)
  BY DEF LedgerInv
<1>1. NoWork \in Work /\ Nothing \in Writes
  BY DEF NoWork, Work, Nothing, Writes
<1>2. TypeOK'
  <2>1. /\ work' \in [Processes -> Work]
        /\ new' \in [Processes -> Writes]
        /\ pc' \in [Processes -> Places]
    BY <1>0, <1>1 DEF TypeOK, Commit, Step, Places
  <2>2. \A q \in Processes : work'[q] # NoWork => work'[q].at \in DOMAIN work'[q].lines
    BY <1>0 DEF TypeOK, Commit
  <2>3. /\ items' \subseteq Items /\ ledger' \subseteq Moves
        /\ inactive' \subseteq items' /\ named' \subseteq items'
    BY <1>0 DEF TypeOK, Commit, ProcessInv, Rows, Writes
  <2>4. QED
    BY <1>0, <2>1, <2>2, <2>3 DEF TypeOK, Commit
<1>3. pc'[p] = "idle" /\ work'[p] = NoWork /\ new'[p] = Nothing
      /\ \A q \in Processes \ {p} : pc'[q] = pc[q] /\ work'[q] = work[q] /\ new'[q] = new[q]
  BY <1>0 DEF Commit, TypeOK, Step
<1>4. OnlyClients(items') /\ \A m \in ledger' : m.item \in items'
  BY <1>0 DEF LedgerInv, ProcessInv, Rows, OnlyClients, Commit
<1>5. ProcessInv(p)'
  BY <1>3, <1>4 DEF ProcessInv, Rested, WorkSound, RowFound, LinesMoved, Closed, Nothing, Rows,
     OnlyClients
<1>6. \A q \in Processes : ProcessInv(q)'
  BY <1>3, <1>4, <1>5, Bystander DEF LedgerInv, Commit
<1>7. KeysUnique'
  <2>1. ASSUME NEW q \in Processes, NEW m \in ledger' \cup new'[q].moves
        PROVE  \E r \in Processes : m \in ledger \cup new[r].moves
    BY <1>3, <2>1 DEF Commit, Nothing
  <2>2. ASSUME NEW m \in ledger', Processes # {}
        PROVE  \E r \in Processes : m \in ledger \cup new[r].moves
    BY <2>2 DEF Commit
  <2>3. QED
    BY <2>1, <2>2 DEF LedgerInv, KeysUnique, SameKey
<1>8. QED
  BY <1>2, <1>4, <1>6, <1>7 DEF LedgerInv, Commit, OnlyClients

LEMMA Order_Inv ==
    ASSUME LedgerInv, NEW o \in Orders, ImportOrder(o) \/ ReopenOrder(o)
    PROVE  LedgerInv'
<1>0. TypeOK /\ o \in Sources
  BY DEF LedgerInv, Sources
<1>1. \A f \in Sources : cart'[f] \in Carts[f]
  BY <1>0 DEF LedgerInv, ImportOrder, ReopenOrder, TypeOK
<1>2. cart' \in [Sources -> Seq(Lines)]
  BY <1>0, CartLines DEF ImportOrder, ReopenOrder, TypeOK
<1>3. status' \in [Orders -> {"awaiting", "shipped"}]
  BY <1>0 DEF TypeOK, ImportOrder, ReopenOrder
<1>4. UNCHANGED <<stock, pc, work, new>>
  BY DEF ImportOrder, ReopenOrder
<1>5. TypeOK'
  BY <1>0, <1>2, <1>3, <1>4 DEF TypeOK, stock
<1>6. \A q \in Processes : ProcessInv(q)'
  BY <1>4, Bystander DEF LedgerInv, stock
<1>7. KeysUnique'
  BY <1>4, KeysKept DEF stock
<1>8. QED
  BY <1>1, <1>4, <1>5, <1>6, <1>7 DEF LedgerInv, stock, OnlyClients

LEMMA EditItem_Inv ==
    ASSUME LedgerInv, NEW i \in Editable, EditItem(i)
    PROVE  LedgerInv'
<1>0. TypeOK /\ i \in Items /\ (i.owned => i.copy = 0)
  BY InventoryAssumption DEF LedgerInv
<1>1. i.sku \in ClientsOwn => i = OwnedItem(i.sku)
  BY <1>0 DEF ClientsOwn, Items, OwnedItem
<1>2. OnlyClients(items') /\ items \subseteq items'
  BY <1>1 DEF EditItem, LedgerInv, OnlyClients
<1>3. TypeOK'
  <2>1. items' \subseteq Items /\ inactive' \subseteq items' /\ named' \subseteq items'
    BY <1>0 DEF TypeOK, EditItem, Switched
  <2>2. QED
    BY <1>0, <2>1 DEF TypeOK, EditItem
<1>4. \A q \in Processes : ProcessInv(q)'
  BY <1>2, Bystander DEF LedgerInv, EditItem
<1>5. KeysUnique'
  BY KeysKept DEF EditItem
<1>6. QED
  BY <1>2, <1>3, <1>4, <1>5 DEF LedgerInv, EditItem

LEMMA Process_Inv ==
    ASSUME LedgerInv, NEW p \in Processes,
           \/ \E o \in Orders : ReadOrder(p, o) \/ PromoteOrder(p, o)
           \/ \E r \in Receipts : ReceiveBatch(p, r)
           \/ InTransaction(p) \/ Crash(p)
    PROVE  LedgerInv'
<1>0. TypeOK
  BY DEF LedgerInv
<1>1. ASSUME NEW o \in Orders, ReadOrder(p, o) \/ PromoteOrder(p, o)
      PROVE  LedgerInv'
  <2>1. PICK step \in {"read", "find", "findGlobal"} : pc[p] = "idle" /\ pc' = [pc EXCEPT ![p] = step]
    BY <1>1 DEF ReadOrder, PromoteOrder, Step, FirstLookup
  <2>2. status' \in [Orders -> {"awaiting", "shipped"}]
    BY <1>0, <1>1 DEF TypeOK, ReadOrder, PromoteOrder
  <2>3. QED
    BY <1>1, <2>1, <2>2, Idle_Inv DEF ReadOrder, PromoteOrder, Sources
<1>2. ASSUME NEW r \in Receipts, ReceiveBatch(p, r)
      PROVE  LedgerInv'
  <2>1. PICK step \in {"find", "findGlobal"} : pc[p] = "idle" /\ pc' = [pc EXCEPT ![p] = step]
    BY <1>2 DEF ReceiveBatch, Step, FirstLookup
  <2>2. QED
    BY <1>0, <1>2, <2>1, Idle_Inv DEF ReceiveBatch, Sources, TypeOK
<1>3. CASE MarkShipped(p)
  <2>1. PICK step \in {"find", "findGlobal"} : pc[p] = "read" /\ pc' = [pc EXCEPT ![p] = step]
    BY <1>3 DEF MarkShipped, Step, FirstLookup
  <2>2. status' \in [Orders -> {"awaiting", "shipped"}]
    BY <1>0, <1>3 DEF TypeOK, MarkShipped
  <2>3. QED
    BY <1>3, <2>1, <2>2, Pass_Inv DEF MarkShipped
<1>4. CASE Find(p)
  <2>1. PICK step \in {"findGlobal", "create"} : Found(p, Matching(p, IsOwned(p)), step)
    BY <1>4 DEF Find
  <2>2. QED
    BY <1>4, <2>1, Found_Inv DEF Find
<1>5. CASE FindGlobal(p)
  BY <1>5, Found_Inv DEF FindGlobal
<1>6. CASE Deadlock(p) \/ Crash(p)
  BY <1>6, Abandon_Inv DEF Deadlock, Crash, Closed
<1>7. QED
  BY <1>1, <1>2, <1>3, <1>4, <1>5, <1>6, Create_Inv, Look_Inv, Record_Inv,
     Name_Inv, Commit_Inv
     DEF InTransaction

LEMMA InvStep == LedgerInv /\ [Next]_vars => LedgerInv'
<1> SUFFICES ASSUME LedgerInv, [Next]_vars PROVE LedgerInv'
  OBVIOUS
<1>1. CASE UNCHANGED vars
  <2>1. UNCHANGED <<items, inactive, named, ledger, status, cart, pc, work, new>>
    BY <1>1 DEF vars
  <2>2. TypeOK' /\ KeysUnique'
    BY <2>1, KeysKept DEF LedgerInv, TypeOK
  <2>3. \A q \in Processes : ProcessInv(q)'
    BY <2>1, Bystander DEF LedgerInv
  <2>4. QED
    BY <2>1, <2>2, <2>3 DEF LedgerInv, OnlyClients
<1>2. CASE Next
  BY <1>2, Process_Inv, Order_Inv, EditItem_Inv DEF Next
<1>3. QED
  BY <1>1, <1>2

-----------------------------------------------------------------------------
(* What follows                                                            *)

\* The invariant holds however many transactions overlap, fail and run again.
THEOREM LedgerInductive == Spec => []LedgerInv
  BY InvInit, InvStep, PTL DEF Spec

\* Rows, movements and the work of every process keep their types, and no transaction
\* runs past the end of its cart.
THEOREM LedgerTypes == Spec => []TypeOK
<1>1. LedgerInv => TypeOK
  BY DEF LedgerInv
<1>2. QED
  BY <1>1, LedgerInductive, PTL

\* An order shipped or a batch received any number of times, by any processes at once,
\* moves a SKU once, if the SKU has one spelling and no row without a client:
\* applyInventoryMovementInTransaction keys a movement by its row, and such a SKU has one.
THEOREM MovedOnce == Spec => []AppliedOnce
<1>1. LedgerInv => AppliedOnce
  <2> SUFFICES ASSUME LedgerInv, NEW m \in ledger, NEW n \in ledger,
                      m.source = n.source, m.item.sku = n.item.sku, m.item.sku \in ClientsOwn
               PROVE  m = n
    BY DEF AppliedOnce
  <2>1. m.item = OwnedItem(m.item.sku) /\ n.item = OwnedItem(n.item.sku)
    BY DEF LedgerInv, OnlyClients
  <2>2. SameKey(m, n)
    BY <2>1 DEF SameKey
  <2>3. QED
    BY <2>2 DEF LedgerInv, KeysUnique
<1>2. QED
  BY <1>1, LedgerInductive, PTL

LEMMA OnlyCommitMoves ==
    ASSUME Next, ledger' # ledger
    PROVE  \E p \in Processes : Commit(p)
  BY DEF Next, InTransaction, ReadOrder, PromoteOrder, ReceiveBatch, ImportOrder, ReopenOrder,
     MarkShipped, Find, FindGlobal, Create, Look, Record, Name, Abandon, Deadlock, Crash, EditItem, stock

\* A transaction that moves stock leaves every line of its cart in the ledger at the
\* quantity it read, although others commit between its statements and the order is
\* edited meanwhile: deductInventoryForOrder moves all of the cart or none of it.
THEOREM WholeCartsMove == Spec => MovesWholeCarts
<1> DEFINE Moved == ledger' # ledger =>
               \E f \in Sources : \E c \in Carts[f] :
                   /\ \E p \in Processes : work[p].source = f /\ work[p].lines = c
                   /\ Whole(f, c)'
<1>1. ASSUME LedgerInv, Next, ledger' # ledger PROVE Moved
  <2>1. PICK p \in Processes : Commit(p)
    BY <1>1, OnlyCommitMoves
  <2>2. pc[p] = "commit" /\ ProcessInv(p) /\ pc[p] \notin Closed
    BY <1>1, <2>1 DEF LedgerInv, Commit, Step, Closed
  <2>3. work[p].source \in Sources /\ work[p].lines \in Carts[work[p].source]
    BY <2>2 DEF ProcessInv, WorkSound
  <2>4. \A n \in DOMAIN work[p].lines : \E m \in ledger' : Shows(m, work[p].source, work[p].lines[n])
    BY <2>1, <2>2 DEF ProcessInv, LinesMoved, Finished, Commit
  <2>5. ASSUME NEW f \in Sources, NEW c \in Carts[f], f = work[p].source, c = work[p].lines
        PROVE  Whole(f, c)'
    BY <2>4, <2>5 DEF Whole, Shows
  <2>6. QED
    BY <2>3, <2>5
<1>2. LedgerInv /\ [Next]_vars => [Moved]_vars
  BY <1>1
<1>3. QED
  BY <1>2, LedgerInductive, PTL DEF Spec, MovesWholeCarts


-----------------------------------------------------------------------------
(* The refinement of StockBook: what a step does to the process that takes  *)
(* it, of which StockBook sees the ends of a transaction.                   *)

\* Its lines are read.
Begins(p) ==
    /\ pc[p] = "idle" /\ pc'[p] \in {"read", "find", "findGlobal"}
    /\ \E f \in Sources :
          work'[p] = [source |-> f, lines |-> cart[f], at |-> 1, item |-> None, toName |-> FALSE]
    /\ new'[p] = new[p]
    /\ ledger' = ledger

\* Nothing is inserted.
Looks(p) ==
    /\ pc[p] \notin Closed /\ pc'[p] \notin Closed
    /\ Job(p)' = Job(p) /\ Finished(p)' = Finished(p)
    /\ new'[p].moves = new[p].moves
    /\ ledger' = ledger

\* The movement of its line stands.
Inserts(p) ==
    /\ pc[p] = "record" /\ pc'[p] \notin Closed
    /\ Job(p)' = Job(p) /\ Finished(p)' = Finished(p) \cup {work[p].at}
    /\ new'[p].moves \in {new[p].moves, new[p].moves \cup {Movement(p)}}
    /\ ledger' = ledger

GivesUp(p) ==
    /\ pc'[p] \in Closed
    /\ work'[p] = NoWork /\ new'[p] = Nothing
    /\ ledger' = ledger

Ends(p) ==
    /\ pc[p] = "commit" /\ pc'[p] \in Closed
    /\ work'[p] = NoWork /\ new'[p] = Nothing
    /\ ledger' = ledger \cup new[p].moves

Alone(p) ==
    \A q \in Processes \ {p} : pc'[q] = pc[q] /\ work'[q] = work[q] /\ new'[q] = new[q]

Effect(p) == Alone(p) /\ (Begins(p) \/ Looks(p) \/ Inserts(p) \/ GivesUp(p) \/ Ends(p))

LEMMA Abandoned ==
    ASSUME TypeOK, NEW p \in Processes, NEW to \in Closed, Abandon(p, to)
    PROVE  Effect(p)
  BY DEF TypeOK, Abandon, Effect, Alone, GivesUp, stock

LEMMA FoundEffect ==
    ASSUME TypeOK, NEW p \in Processes, pc[p] \in {"find", "findGlobal"},
           NEW S, NEW step \in {"findGlobal", "create"}, Found(p, S, step),
           UNCHANGED <<stock, new>>
    PROVE  Effect(p)
<1>0. pc' \in [Processes -> {"look", step} \cup {pc[q] : q \in Processes}]
  BY DEF TypeOK, Found
<1>1. pc'[p] \in {"look", "findGlobal", "create"} /\ Alone(p)
  BY DEF TypeOK, Found, Alone
<1>2. Job(p)' = Job(p) /\ work'[p].at = work[p].at
  <2>1. CASE UNCHANGED work
    BY <2>1 DEF Job
  <2>2. CASE \E i \in S : work' = [work EXCEPT ![p].item = i]
    <3>1. PICK i \in S : work' = [work EXCEPT ![p].item = i]
      BY <2>2
    <3>2. work[p] \in Work /\ work'[p] = [work[p] EXCEPT !.item = i]
      BY <3>1 DEF TypeOK
    <3>3. QED
      BY <3>2 DEF Job, Work
  <2>3. QED
    BY <2>1, <2>2 DEF Found
<1>3. QED
  BY <1>1, <1>2 DEF Effect, Looks, Finished, Job, Closed, stock

LEMMA CreateEffect ==
    ASSUME TypeOK, NEW p \in Processes, Create(p)
    PROVE  Effect(p)
<1> DEFINE Inserted(i) ==
             [new EXCEPT ![p].items = @ \cup {i},
                         ![p].named = IF CreatedNamed(p) THEN @ \cup {i} ELSE @]
<1>1. PICK i \in Creates(p) :
        \/ /\ new' = Inserted(i)
           /\ work' = [work EXCEPT ![p].item = i]
           /\ pc' = [pc EXCEPT ![p] = "look"]
           /\ UNCHANGED <<stock, status, cart>>
        \/ Abandon(p, "idle")
  BY DEF Create
<1>2. CASE /\ new' = Inserted(i)
           /\ work' = [work EXCEPT ![p].item = i]
           /\ pc' = [pc EXCEPT ![p] = "look"]
           /\ UNCHANGED <<stock, status, cart>>
  <2>1. /\ work[p] \in Work /\ work'[p] = [work[p] EXCEPT !.item = i]
        /\ new[p] \in Writes
        /\ new'[p] = [new[p] EXCEPT !.items = @ \cup {i},
                                    !.named = IF CreatedNamed(p) THEN @ \cup {i} ELSE @]
    BY <1>2 DEF TypeOK
  <2>2. Job(p)' = Job(p) /\ work'[p].at = work[p].at /\ new'[p].moves = new[p].moves
    BY <2>1 DEF Job, Work, Writes
  <2>3. Alone(p) /\ pc[p] = "create" /\ pc'[p] = "look"
    BY <1>2 DEF Alone, TypeOK, Create
  <2>4. QED
    BY <1>2, <2>2, <2>3 DEF Effect, Looks, Finished, Job, Closed, stock
<1>3. QED
  BY <1>1, <1>2, Abandoned DEF Closed

LEMMA RecordEffect ==
    ASSUME LedgerInv, NEW p \in Processes, Record(p)
    PROVE  Effect(p)
<1>0. TypeOK /\ pc[p] = "record"
  BY DEF LedgerInv, Record
<1>1. CASE Abandon(p, "idle")
  BY <1>0, <1>1, Abandoned DEF Closed
<1>2. ASSUME GoOn(p), UNCHANGED <<stock, status, cart>>,
             new' = [new EXCEPT ![p].moves = @ \cup {Movement(p)}] \/ UNCHANGED new
      PROVE  Effect(p)
  <2>1. /\ new'[p].moves \in {new[p].moves, new[p].moves \cup {Movement(p)}}
        /\ \A q \in Processes \ {p} : new'[q] = new[q]
    <3>1. CASE UNCHANGED new
      BY <3>1
    <3>2. CASE new' = [new EXCEPT ![p].moves = @ \cup {Movement(p)}]
      <4>1. /\ new[p] \in Writes
            /\ new'[p] = [new[p] EXCEPT !.moves = @ \cup {Movement(p)}]
        BY <1>0, <3>2 DEF TypeOK
      <4>2. new'[p].moves = new[p].moves \cup {Movement(p)}
        BY <4>1 DEF Writes
      <4>3. \A q \in Processes \ {p} : new'[q] = new[q]
        BY <1>0, <3>2 DEF TypeOK
      <4>4. QED
        BY <4>2, <4>3
    <3>3. QED
      BY <1>2, <3>1, <3>2
  <2>2. /\ Job(p)' = Job(p) /\ pc'[p] \notin Closed
        /\ Finished(p)' = Finished(p) \cup {work[p].at}
    BY <1>0, <1>2, GoOn_Work DEF Job, Closed
  <2>3. Alone(p)
    BY <1>0, <1>2, <2>1, GoOn_Work DEF Alone
  <2>4. QED
    BY <1>0, <1>2, <2>1, <2>2, <2>3 DEF Effect, Inserts, stock
<1>3. QED
  BY <1>1, <1>2 DEF Record

LEMMA LookEffect ==
    ASSUME LedgerInv, NEW p \in Processes, Look(p)
    PROVE  Effect(p)
<1>0. TypeOK /\ work[p] \in Work /\ pc[p] = "look" /\ pc'[p] = "record" /\ Alone(p)
      /\ UNCHANGED <<stock, new>>
  BY DEF LedgerInv, TypeOK, Look, Step, Alone
<1>1. Job(p)' = Job(p) /\ work'[p].at = work[p].at
  BY <1>0 DEF Look, TypeOK, Job, Work
<1>2. QED
  BY <1>0, <1>1 DEF Effect, Looks, Finished, Job, Closed, stock

LEMMA NameEffect ==
    ASSUME LedgerInv, NEW p \in Processes, Name(p)
    PROVE  Effect(p)
<1>0. /\ TypeOK /\ pc[p] = "name" /\ WorkSound(p) /\ pc[p] \notin Closed /\ NextLine(p)
      /\ UNCHANGED stock
  BY DEF LedgerInv, ProcessInv, Name, Closed
<1>1. new'[p].moves = new[p].moves /\ \A q \in Processes \ {p} : new'[q] = new[q]
  <2>1. new[p] \in Writes /\ new' = [new EXCEPT ![p].named = @ \cup {work[p].item}]
    BY <1>0 DEF TypeOK, Name
  <2>2. QED
    BY <1>0, <2>1 DEF Writes, TypeOK
<1>2. work[p].at \in Finished(p)
  BY <1>0, WorkTypes DEF Finished
<1>3. Job(p)' = Job(p) /\ Finished(p)' = Finished(p) /\ pc'[p] \notin Closed /\ Alone(p)
  BY <1>0, <1>1, <1>2, NextLine_Work DEF Job, Closed, Alone
<1>4. QED
  BY <1>0, <1>1, <1>3 DEF Effect, Looks, stock

\* Every step is seen by one process only, or by none.
LEMMA StepEffect ==
    ASSUME LedgerInv, Next
    PROVE  UNCHANGED <<ledger, pc, work, new>> \/ \E p \in Processes : Effect(p)
<1>0. TypeOK
  BY DEF LedgerInv
<1>1. ASSUME NEW p \in Processes, NEW f \in Sources, NEW step \in {"read", "find", "findGlobal"},
             Step(p, "idle", step), TakeOn(p, f), UNCHANGED <<stock, new>>
      PROVE  Effect(p)
  <2>1. work'[p] = [source |-> f, lines |-> cart[f], at |-> 1, item |-> None, toName |-> FALSE]
    BY <1>0, <1>1 DEF TakeOn, TypeOK
  <2>2. Alone(p) /\ pc'[p] = step /\ pc[p] = "idle"
    BY <1>0, <1>1 DEF TakeOn, TypeOK, Alone, Step
  <2>3. QED
    BY <1>1, <2>1, <2>2 DEF Effect, Begins, stock
<1>2. \A f \in Sources : FirstLookup(f) \in {"read", "find", "findGlobal"}
  BY DEF FirstLookup
<1>3. ASSUME NEW p \in Processes, NEW o \in Orders, ReadOrder(p, o) \/ PromoteOrder(p, o)
      PROVE  Effect(p)
  BY <1>1, <1>2, <1>3 DEF ReadOrder, PromoteOrder, Sources
<1>4. ASSUME NEW p \in Processes, NEW r \in Receipts, ReceiveBatch(p, r)
      PROVE  Effect(p)
  BY <1>1, <1>2, <1>4 DEF ReceiveBatch, Sources
<1>5. ASSUME NEW p \in Processes, MarkShipped(p) PROVE Effect(p)
  <2>1. pc[p] = "read" /\ pc'[p] \in {"find", "findGlobal"} /\ UNCHANGED <<stock, work, new>>
    BY <1>0, <1>5 DEF MarkShipped, Step, FirstLookup, TypeOK
  <2>2. Alone(p)
    BY <1>0, <1>5 DEF MarkShipped, Step, TypeOK, Alone
  <2>3. QED
    BY <2>1, <2>2 DEF Effect, Looks, Finished, Closed, Job, stock
<1>6. ASSUME NEW p \in Processes, Find(p) \/ FindGlobal(p) PROVE Effect(p)
  BY <1>0, <1>6, FoundEffect DEF Find, FindGlobal
<1>7. ASSUME NEW p \in Processes, Commit(p) PROVE Effect(p)
  BY <1>0, <1>7 DEF Commit, Step, TypeOK, Effect, Alone, Ends, Closed
<1>8. ASSUME NEW p \in Processes, Deadlock(p) \/ Crash(p) PROVE Effect(p)
  BY <1>0, <1>8, Abandoned DEF Deadlock, Crash, Closed
<1>9. ASSUME NEW p \in Processes, InTransaction(p) \/ Crash(p) PROVE Effect(p)
  BY <1>0, <1>5, <1>6, <1>7, <1>8, <1>9, CreateEffect, LookEffect, RecordEffect,
     NameEffect
     DEF InTransaction
<1>10. ASSUME \/ \E o \in Orders : ImportOrder(o) \/ ReopenOrder(o)
              \/ \E i \in Editable : EditItem(i)
       PROVE  UNCHANGED <<ledger, pc, work, new>>
  BY <1>10 DEF ImportOrder, ReopenOrder, EditItem, stock
<1>11. QED
  BY <1>3, <1>4, <1>9, <1>10 DEF Next

\* No cart has two lines of a SKU, so a transaction inserts one movement for a line.
LEMMA InsertedOfLines ==
    ASSUME BookInv, NEW p \in Processes, Effect(p)
    PROVE  NewOfLines(p)'
<1>0. TypeOK /\ ProcessInv(p) /\ NewOfLines(p)
  BY DEF BookInv, LedgerInv
<1>1. CASE Begins(p) \/ GivesUp(p) \/ Ends(p)
  <2>1. new'[p].moves = {}
    <3>1. CASE Begins(p)
      <4>1. new'[p] = new[p] /\ pc[p] \in Closed
        BY <3>1 DEF Begins, Closed
      <4>2. QED
        BY <1>0, <4>1 DEF ProcessInv, Rested, Nothing
    <3>2. CASE GivesUp(p) \/ Ends(p)
      BY <3>2 DEF GivesUp, Ends, Nothing
    <3>3. QED
      BY <1>1, <3>1, <3>2
  <2>2. QED
    BY <2>1 DEF NewOfLines
<1>2. CASE Looks(p)
  <2>1. Finished(p)' = Finished(p) /\ work'[p].source = work[p].source /\ work'[p].lines = work[p].lines
    BY <1>2 DEF Looks, Job
  <2>2. QED
    BY <1>0, <1>2, <2>1 DEF Looks, NewOfLines, Shows
<1>3. CASE Inserts(p)
  <2>1. /\ work'[p].source = work[p].source /\ work'[p].lines = work[p].lines
        /\ WorkSound(p) /\ RowFound(p) /\ pc[p] = "record" /\ pc[p] \notin Closed
    BY <1>0, <1>3 DEF Inserts, Job, ProcessInv, Closed
  <2>2. Shows(Movement(p), work[p].source, work[p].lines[work[p].at])
    BY <2>1 DEF Shows, Movement, RowFound, Line
  <2>3. /\ work[p].at \in DOMAIN work[p].lines
        /\ \A n \in Finished(p) : n \in DOMAIN work[p].lines /\ n # work[p].at
    BY <1>0, <2>1, WorkTypes DEF Finished
  <2>4. ASSUME NEW m \in new[p].moves PROVE Lower[m.item.sku] # Lower[Movement(p).item.sku]
    <3>1. PICK n \in Finished(p) : Shows(m, work[p].source, work[p].lines[n])
      BY <1>0, <2>4 DEF NewOfLines
    <3>2. Lower[work[p].lines[n].sku] # Lower[work[p].lines[work[p].at].sku]
      BY <2>1, <2>3, InventoryAssumption DEF WorkSound
    <3>3. QED
      BY <2>2, <3>1, <3>2 DEF Shows
  <2>5. ASSUME NEW m \in new'[p].moves
        PROVE  \E n \in Finished(p)' : Shows(m, work[p].source, work[p].lines[n])
    BY <1>0, <1>3, <2>2, <2>5 DEF Inserts, NewOfLines
  <2>6. ASSUME NEW m \in new'[p].moves, NEW n \in new'[p].moves,
               Lower[m.item.sku] = Lower[n.item.sku]
        PROVE  m = n
    BY <1>0, <1>3, <2>4, <2>6 DEF Inserts, NewOfLines
  <2>7. QED
    BY <2>1, <2>5, <2>6 DEF NewOfLines, Shows
<1>4. QED
  BY <1>1, <1>2, <1>3 DEF Effect

LEMMA BookInit == Init => BookInv
  BY InvInit DEF Init, BookInv, NewOfLines, Nothing

LEMMA BookStep == BookInv /\ [Next]_vars => BookInv'
<1> SUFFICES ASSUME BookInv, [Next]_vars PROVE BookInv'
  OBVIOUS
<1>0. LedgerInv /\ LedgerInv'
  BY InvStep DEF BookInv
<1>1. ASSUME NEW p \in Processes, pc'[p] = pc[p], work'[p] = work[p], new'[p] = new[p]
      PROVE  NewOfLines(p)'
  BY <1>1 DEF BookInv, NewOfLines, Finished, Shows
<1>2. CASE UNCHANGED <<ledger, pc, work, new>>
  BY <1>0, <1>1, <1>2 DEF BookInv
<1>3. CASE \E p \in Processes : Effect(p)
  BY <1>0, <1>1, <1>3, InsertedOfLines DEF BookInv, Effect, Alone
<1>4. QED
  BY <1>0, <1>2, <1>3, StepEffect DEF vars

Asked == {Job(p) : p \in AtWork}

LEMMA NothingAsked == Init => Books!Init
  BY DEF Init, Books!Init, AtWork, NoWork

\* A process is at work from the moment it has read a cart to the end.
LEMMA WhoIsAtWork ==
    ASSUME LedgerInv, NEW p \in Processes
    PROVE  /\ p \in AtWork <=> pc[p] \notin Closed
           /\ p \in AtWork => /\ work[p].source \in Sources
                              /\ work[p].lines \in Carts[work[p].source]
<1>1. ProcessInv(p) /\ None \notin Sources
  BY InventoryAssumption DEF LedgerInv
<1>2. QED
  BY <1>1 DEF ProcessInv, Rested, WorkSound, AtWork, NoWork

\* Others stay at their work.
LEMMA AskedApart ==
    ASSUME NEW p \in Processes, Alone(p)
    PROVE  /\ AtWork' \ {p} = AtWork \ {p}
           /\ \A q \in Processes \ {p} : Job(q)' = Job(q)
  BY DEF Alone, AtWork, Job

LEMMA AskedKept ==
    ASSUME NEW p \in Processes, Alone(p), p \in AtWork, p \in AtWork', Job(p)' = Job(p)
    PROVE  Asked' = Asked
<1>1. AtWork' = AtWork /\ \A q \in Processes : Job(q)' = Job(q)
  BY AskedApart
<1>2. AtWork \subseteq Processes
  BY DEF AtWork
<1>3. QED
  BY <1>1, <1>2 DEF Asked

LEMMA AskedLess ==
    ASSUME NEW p \in Processes, Alone(p), p \in AtWork, p \notin AtWork'
    PROVE  Asked' \in {Asked, Asked \ {Job(p)}}
<1>1. /\ AtWork' = AtWork \ {p} /\ AtWork \subseteq Processes
      /\ \A q \in Processes \ {p} : Job(q)' = Job(q)
  BY AskedApart DEF AtWork
<1>2. Asked' = {Job(q) : q \in AtWork \ {p}}
  BY <1>1 DEF Asked
<1>3. QED
  BY <1>2 DEF Asked

LEMMA AskedMore ==
    ASSUME NEW p \in Processes, Alone(p), p \notin AtWork, p \in AtWork'
    PROVE  Asked' = Asked \cup {Job(p)'}
<1>1. /\ AtWork' = AtWork \cup {p} /\ p \notin AtWork /\ AtWork \subseteq Processes
      /\ \A q \in Processes \ {p} : Job(q)' = Job(q)
  BY AskedApart DEF AtWork
<1>2. QED
  BY <1>1 DEF Asked

\* A commit books the cart as it was read: every line of it on one row, the row of the
\* movement it inserts, or of the one that was there.
LEMMA EndsBooks ==
    ASSUME BookInv, BookInv', NEW p \in Processes, Effect(p), Ends(p)
    PROVE  Books!Book(work[p].source, work[p].lines)
<1> DEFINE f == work[p].source
           c == work[p].lines
           moves == ledger \cup new[p].moves
<1>0. /\ LedgerInv /\ TypeOK /\ ProcessInv(p) /\ NewOfLines(p)
      /\ pc[p] = "commit" /\ pc[p] \notin Closed /\ pc'[p] \in Closed
      /\ ledger' = moves
  BY DEF BookInv, LedgerInv, Ends, Closed
<1>1. p \in AtWork /\ p \notin AtWork' /\ f \in Sources /\ c \in Carts[f]
  <2>1. p \notin AtWork'
    BY DEF Ends, AtWork, NoWork
  <2>2. QED
    BY <1>0, <2>1, WhoIsAtWork
<1>2. Asked' \in {Asked, Asked \ {<<f, c>>}} /\ <<f, c>> \in Asked
  <2>1. Job(p) = <<f, c>>
    BY DEF Job
  <2>2. QED
    BY <1>1, <2>1, AskedLess DEF Effect, Asked
<1>3. \A n \in DOMAIN c : \E m \in moves : Shows(m, f, c[n])
  BY <1>0 DEF ProcessInv, LinesMoved, Finished
<1>4. \A m \in new[p].moves : \E n \in DOMAIN c : Shows(m, f, c[n])
  BY <1>0 DEF NewOfLines, Finished
<1>5. \A m \in moves : m \in Moves /\ m.item \in Items
  <2>1. moves \subseteq Moves
    BY <1>0 DEF TypeOK, Writes
  <2>2. QED
    BY <2>1 DEF Moves
<1> DEFINE chosen(n) == IF \E m \in new[p].moves : Shows(m, f, c[n])
                        THEN CHOOSE m \in new[p].moves : Shows(m, f, c[n])
                        ELSE CHOOSE m \in moves : Shows(m, f, c[n])
           rows == [n \in DOMAIN c |-> chosen(n).item]
<1>6. ASSUME NEW n \in DOMAIN c
      PROVE  /\ chosen(n) \in moves /\ Shows(chosen(n), f, c[n])
             /\ \A m \in new[p].moves : Shows(m, f, c[n]) => m = chosen(n)
  <2>1. CASE \E m \in new[p].moves : Shows(m, f, c[n])
    <3>1. chosen(n) \in new[p].moves /\ Shows(chosen(n), f, c[n])
      BY <2>1
    <3>2. QED
      BY <1>0, <3>1 DEF NewOfLines, Shows
  <2>2. CASE ~\E m \in new[p].moves : Shows(m, f, c[n])
    <3>1. chosen(n) = CHOOSE m \in moves : Shows(m, f, c[n])
      BY <2>2
    <3>2. QED
      BY <1>3, <2>2, <3>1
  <2>3. QED
    BY <2>1, <2>2
<1> HIDE DEF chosen
<1>7. rows \in [DOMAIN c -> Items] /\ \A n \in DOMAIN c : Lower[rows[n].sku] = Lower[c[n].sku]
  BY <1>5, <1>6 DEF Shows
<1>8. \A n \in DOMAIN c : [source |-> f, item |-> rows[n], qty |-> c[n].qty] = chosen(n)
  BY <1>5, <1>6 DEF Shows, Moves
<1>9. Books!Booking(f, c, rows) = {chosen(n) : n \in DOMAIN c}
  BY <1>8 DEF Books!Booking
<1>10. ledger' = ledger \cup Books!Booking(f, c, rows)
  <2>1. \A m \in new[p].moves : \E n \in DOMAIN c : m = chosen(n)
    BY <1>4, <1>6
  <2>2. QED
    BY <1>0, <1>6, <1>9, <2>1
<1>11. Books!OncePerRow(ledger')
  BY DEF BookInv, LedgerInv, KeysUnique, SameKey, Books!OncePerRow
<1> HIDE DEF rows, f, c, moves
<1>12. QED
  BY <1>2, <1>7, <1>10, <1>11 DEF Books!Book, Asked, f, c

LEMMA BookSimulated == BookInv /\ BookInv' /\ [Next]_vars => [Books!Next]_<<ledger, Asked>>
<1> SUFFICES ASSUME BookInv, BookInv', [Next]_vars
             PROVE  Books!Next \/ UNCHANGED <<ledger, Asked>>
  OBVIOUS
<1>0. LedgerInv
  BY DEF BookInv
<1>1. CASE UNCHANGED <<ledger, pc, work, new>>
  BY <1>1 DEF Asked, AtWork, Job
<1>2. ASSUME NEW p \in Processes, Effect(p), Begins(p)
      PROVE  Books!Next
  <2>1. PICK f \in Sources :
            work'[p] = [source |-> f, lines |-> cart[f], at |-> 1, item |-> None, toName |-> FALSE]
    BY <1>2 DEF Begins
  <2>2. cart[f] \in Carts[f] /\ None \notin Sources
    BY <1>0, InventoryAssumption DEF LedgerInv
  <2>3. Job(p)' = <<f, cart[f]>> /\ p \in AtWork' /\ p \notin AtWork
    <3>1. work'[p].source = f /\ work'[p].lines = cart[f]
      BY <2>1
    <3>2. QED
      BY <1>0, <1>2, <2>2, <3>1, WhoIsAtWork DEF Job, AtWork, Begins, Closed
  <2>4. Asked' = Asked \cup {<<f, cart[f]>>}
    BY <1>2, <2>3, AskedMore DEF Effect
  <2>5. Books!Ask(f, cart[f])
    BY <1>2, <2>4 DEF Books!Ask, Begins, Asked
  <2>6. QED
    BY <2>2, <2>5 DEF Books!Next
<1>3. ASSUME NEW p \in Processes, Effect(p), Looks(p) \/ Inserts(p)
      PROVE  UNCHANGED <<ledger, Asked>>
  <2>1. p \in AtWork /\ Job(p)' = Job(p) /\ ledger' = ledger
    BY <1>0, <1>3, WhoIsAtWork DEF Looks, Inserts, Closed
  <2>2. p \in AtWork'
    BY <2>1 DEF Job, AtWork
  <2>3. QED
    BY <1>3, <2>1, <2>2, AskedKept DEF Effect
<1>4. ASSUME NEW p \in Processes, Effect(p), GivesUp(p)
      PROVE  Books!Next \/ UNCHANGED <<ledger, Asked>>
  <2>1. p \notin AtWork' /\ ledger' = ledger
    BY <1>4 DEF GivesUp, AtWork, NoWork
  <2>2. CASE p \in AtWork
    <3>1. work[p].source \in Sources /\ work[p].lines \in Carts[work[p].source]
      BY <1>0, <2>2, WhoIsAtWork
    <3>2. Asked' \in {Asked, Asked \ {<<work[p].source, work[p].lines>>}}
      BY <1>4, <2>1, <2>2, AskedLess DEF Effect, Job
    <3>3. CASE Asked' = Asked
      BY <2>1, <3>3
    <3>4. CASE Asked' = Asked \ {<<work[p].source, work[p].lines>>}
      <4>1. Books!Drop(work[p].source, work[p].lines)
        BY <2>1, <3>4 DEF Books!Drop, Asked
      <4>2. QED
        BY <3>1, <4>1 DEF Books!Next
    <3>5. QED
      BY <3>2, <3>3, <3>4
  <2>3. CASE p \notin AtWork
    <3>1. AtWork' = AtWork /\ \A q \in AtWork : Job(q)' = Job(q)
      BY <1>4, <2>1, <2>3, AskedApart DEF Effect, AtWork
    <3>2. QED
      BY <2>1, <3>1 DEF Asked
  <2>4. QED
    BY <2>2, <2>3
<1>5. ASSUME NEW p \in Processes, Effect(p), Ends(p)
      PROVE  Books!Next
  <2>1. work[p].source \in Sources /\ work[p].lines \in Carts[work[p].source]
    BY <1>0, <1>5, WhoIsAtWork DEF Ends, Closed
  <2>2. QED
    BY <1>5, <2>1, EndsBooks DEF Books!Next
<1>6. QED
  BY <1>0, <1>1, <1>2, <1>3, <1>4, <1>5, StepEffect DEF Effect, vars

\* However the statements of shipments, syncs, retried batches and edits interleave, and
\* whichever transactions fail, deadlock or die, the ledger moves as if each deduction
\* (deductInventoryForOrder) and receipt (POST /inventory/receive) were one step that
\* books its whole cart, each line once.
THEOREM StockBookImplemented == Spec => ImplementsStockBook
<1>1. Spec => []BookInv
  BY BookInit, BookStep, PTL DEF Spec
<1>2. Init => Books!Init
  BY NothingAsked
<1>3. BookInv /\ BookInv' /\ [Next]_vars => [Books!Next]_Books!book
  BY BookSimulated DEF Books!book, Asked
<1>4. QED
  BY <1>1, <1>2, <1>3, PTL DEF Spec, ImplementsStockBook, Books!Spec
=============================================================================
