------------------------ MODULE OutboundLabelProofs ------------------------
(* OutboundInv is inductive, for every number of requests, voids, labels and *)
(* faults; the safety properties of OutboundLabel follow.                    *)
EXTENDS OutboundLabelInductive, TLAPS

ReqRec  == [pc : ReqPcs, kind : Kinds, label : Labels \cup {NoLabel}]
VoidRec == [pc : VoidPcs, label : Labels \cup {NoLabel}, which : Which]

-----------------------------------------------------------------------------
(* What the helpers do                                                      *)

LEMMA FreshLabel ==
    ASSUME Supply
    PROVE  Fresh \in Labels /\ kind[Fresh] = "none"
BY DEF Supply, Fresh

LEMMA MovesEffect ==
    ASSUME TypeOK, NEW r \in Requests, NEW pc \in ReqPcs, Moves(r, pc)
    PROVE  /\ req' \in [Requests -> ReqRec]
           /\ req'[r].pc = pc /\ req'[r].kind = req[r].kind /\ req'[r].label = req[r].label
           /\ \A s \in Requests \ {r} : req'[s] = req[s]
BY DEF TypeOK, Moves, ReqRec

LEMMA EndsEffect ==
    ASSUME TypeOK, NEW r \in Requests, Ends(r)
    PROVE  /\ req' \in [Requests -> ReqRec]
           /\ req'[r].pc = "ended"
           /\ \A s \in Requests \ {r} : req'[s] = req[s]
<1>1. req \in [Requests -> ReqRec] /\ "ended" \in ReqPcs
  BY DEF TypeOK, ReqRec, ReqPcs
<1>2. req' = [req EXCEPT ![r].pc = "ended", ![r].label = NoLabel]
  BY DEF Ends
<1>3. QED
  BY <1>1, <1>2 DEF ReqRec

LEMMA TakesEffect ==
    ASSUME TypeOK, NEW r \in Requests, NEW pc \in ReqPcs, Supply,
           req' = [req EXCEPT ![r].pc = pc, ![r].label = Fresh]
    PROVE  /\ req' \in [Requests -> ReqRec]
           /\ req'[r].pc = pc /\ req'[r].kind = req[r].kind /\ req'[r].label = Fresh
           /\ \A s \in Requests \ {r} : req'[s] = req[s]
BY FreshLabel DEF TypeOK, ReqRec

LEMMA SellsEffect ==
    ASSUME TypeOK, NEW r \in Requests, Supply, Sells(r)
    PROVE  /\ kind' \in [Labels -> Kinds \cup {"none"}]
           /\ postage' \in [Labels -> {"unsold", "live", "void"}]
           /\ kind'[Fresh] = req[r].kind /\ postage'[Fresh] = "live"
           /\ \A l \in Labels \ {Fresh} : kind'[l] = kind[l] /\ postage'[l] = postage[l]
<1>1. Fresh \in Labels /\ req[r].kind \in Kinds
  BY FreshLabel DEF TypeOK
<1>2. QED
  BY <1>1 DEF TypeOK, Sells

LEMMA SavesEffect ==
    ASSUME TypeOK, NEW l \in Labels, SavesRow(l)
    PROVE  /\ row' \in [Labels -> RowStates] /\ persistedIn' \in [Labels -> Nat]
           /\ row'[l] = "active" /\ persistedIn'[l] = opening
           /\ \A m \in Labels \ {l} : row'[m] = row[m] /\ persistedIn'[m] = persistedIn[m]
BY DEF TypeOK, SavesRow, RowStates

\* A label request with its purchase behind it holds a label.
LEMMA HeldLabel ==
    ASSUME RequestInv, NEW r \in Requests,
           At(r, "bought") \/ At(r, "saved") \/ At(r, "marked")
    PROVE  req[r].label \in Labels /\ kind[req[r].label] = req[r].kind
BY DEF RequestInv, At

LEMMA PagedRow ==
    ASSUME NEW l
    PROVE  /\ Paged(l) \in RowStates \ {"none"}
           /\ Paged(l) = "voided" => l \notin sync.live
BY DEF Paged, RowStates

-----------------------------------------------------------------------------
(* Who writes what                                                          *)

\* The writers of the requests.
LEMMA RequestWriters ==
    ASSUME [Next]_vars
    PROVE  \/ UNCHANGED <<req, struck, late>>
           \/ \E r \in Requests :
                \/ LoadOrder(r) \/ CheckExisting(r) \/ Buy(r) \/ BuyFails(r) \/ SoldUnheard(r)
                \/ PersistCreatedLabel(r) \/ PersistTestLabel(r) \/ MarkOrderShipped(r)
                \/ EnqueueConfirmation(r) \/ PersistDirect(r) \/ PersistDirectRefused(r)
                \/ RequestFault(r)
<1>1. CASE UNCHANGED vars
  BY <1>1 DEF vars
<1>2. CASE \E v \in Voids :
        \/ \E l \in Labels, w \in Which : VoidRead(v, l, w)
        \/ VoidAtProvider(v) \/ VoidUntold(v) \/ VoidFails(v)
        \/ VoidCommit(v) \/ VoidRollsBack(v)
  BY <1>2 DEF VoidRead, VoidAtProvider, VoidUntold, VoidFails, VoidCommit, VoidRollsBack, history
<1>3. CASE SyncStep \/ SyncFault
  BY <1>3 DEF SyncStep, SyncFetch, SyncDecide, SyncInsert, SyncAdvance, SyncPromote, SyncUpdate,
              SyncFault, history
<1>4. CASE \E s \in Statuses : ImportOrder(s)
  BY <1>4 DEF ImportOrder, history
<1>5. QED
  BY <1>1, <1>2, <1>3, <1>4 DEF Next

\* The writers of the voids, and of the opening.
LEMMA VoidWriters ==
    ASSUME [Next]_vars
    PROVE  \/ UNCHANGED <<void, opening>>
           \/ \E v \in Voids :
                \/ \E l \in Labels, w \in Which : VoidRead(v, l, w)
                \/ VoidAtProvider(v) \/ VoidUntold(v) \/ VoidFails(v)
                \/ VoidCommit(v) \/ VoidRollsBack(v)
<1>1. CASE UNCHANGED vars
  BY <1>1 DEF vars
<1>2. ASSUME NEW r \in Requests,
             \/ LoadOrder(r) \/ CheckExisting(r) \/ Buy(r) \/ BuyFails(r) \/ SoldUnheard(r)
             \/ PersistCreatedLabel(r) \/ PersistTestLabel(r) \/ MarkOrderShipped(r)
             \/ EnqueueConfirmation(r) \/ PersistDirect(r) \/ PersistDirectRefused(r)
             \/ RequestFault(r)
      PROVE  UNCHANGED <<void, opening>>
  BY <1>2 DEF LoadOrder, CheckExisting, Buy, BuyFails, SoldUnheard, PersistCreatedLabel,
              PersistTestLabel, MarkOrderShipped, EnqueueConfirmation, PersistDirect,
              PersistDirectRefused, RequestFault, history
<1>3. CASE SyncStep \/ SyncFault
  BY <1>3 DEF SyncStep, SyncFetch, SyncDecide, SyncInsert, SyncAdvance, SyncPromote, SyncUpdate,
              SyncFault, history
<1>4. CASE \E s \in Statuses : ImportOrder(s)
  BY <1>4 DEF ImportOrder, history
<1>5. QED
  BY <1>1, <1>2, <1>3, <1>4 DEF Next

\* The writers of the sync's run.
LEMMA SyncWriters ==
    ASSUME [Next]_vars
    PROVE  sync' = sync \/ SyncStep \/ SyncFault
<1>1. CASE UNCHANGED vars
  BY <1>1 DEF vars
<1>2. ASSUME NEW r \in Requests,
             \/ LoadOrder(r) \/ CheckExisting(r) \/ Buy(r) \/ BuyFails(r) \/ SoldUnheard(r)
             \/ PersistCreatedLabel(r) \/ PersistTestLabel(r) \/ MarkOrderShipped(r)
             \/ EnqueueConfirmation(r) \/ PersistDirect(r) \/ PersistDirectRefused(r)
             \/ RequestFault(r)
      PROVE  sync' = sync
  BY <1>2 DEF LoadOrder, CheckExisting, Buy, BuyFails, SoldUnheard, PersistCreatedLabel,
              PersistTestLabel, MarkOrderShipped, EnqueueConfirmation, PersistDirect,
              PersistDirectRefused, RequestFault
<1>3. ASSUME NEW v \in Voids,
             \/ \E l \in Labels, w \in Which : VoidRead(v, l, w)
             \/ VoidAtProvider(v) \/ VoidUntold(v) \/ VoidFails(v)
             \/ VoidCommit(v) \/ VoidRollsBack(v)
      PROVE  sync' = sync
  BY <1>3 DEF VoidRead, VoidAtProvider, VoidUntold, VoidFails, VoidCommit, VoidRollsBack
<1>4. CASE \E s \in Statuses : ImportOrder(s)
  BY <1>4 DEF ImportOrder
<1>5. QED
  BY <1>1, <1>2, <1>3, <1>4 DEF Next

\* The writers of the labels and their rows.
LEMMA LabelWriters ==
    ASSUME [Next]_vars
    PROVE  \/ UNCHANGED <<kind, postage, row, resynced, dup, persistedIn>>
           \/ \E r \in Requests : \/ Buy(r) \/ SoldUnheard(r) \/ PersistCreatedLabel(r)
                                  \/ PersistTestLabel(r) \/ PersistDirect(r)
           \/ \E v \in Voids : VoidAtProvider(v) \/ VoidFails(v) \/ VoidCommit(v)
           \/ SyncInsert
           \/ \E l \in Labels, w \in Which : SyncUpdate(l, w)
<1>1. CASE UNCHANGED vars
  BY <1>1 DEF vars
<1>2. ASSUME NEW r \in Requests,
             \/ LoadOrder(r) \/ CheckExisting(r) \/ BuyFails(r) \/ MarkOrderShipped(r)
             \/ EnqueueConfirmation(r) \/ PersistDirectRefused(r) \/ RequestFault(r)
      PROVE  UNCHANGED <<kind, postage, row, resynced, dup, persistedIn>>
  BY <1>2 DEF LoadOrder, CheckExisting, BuyFails, MarkOrderShipped, EnqueueConfirmation,
              PersistDirectRefused, RequestFault, labelVars
<1>3. ASSUME NEW v \in Voids,
             \/ \E l \in Labels, w \in Which : VoidRead(v, l, w)
             \/ VoidUntold(v) \/ VoidRollsBack(v)
      PROVE  UNCHANGED <<kind, postage, row, resynced, dup, persistedIn>>
  BY <1>3 DEF VoidRead, VoidUntold, VoidRollsBack, labelVars
<1>4. CASE SyncFetch \/ SyncDecide \/ SyncAdvance \/ SyncPromote \/ SyncFault
  BY <1>4 DEF SyncFetch, SyncDecide, SyncAdvance, SyncPromote, SyncFault, labelVars
<1>5. CASE \E s \in Statuses : ImportOrder(s)
  BY <1>5 DEF ImportOrder, labelVars
<1>6. QED
  BY <1>1, <1>2, <1>3, <1>4, <1>5 DEF Next, SyncStep

-----------------------------------------------------------------------------
(* Types                                                                    *)

LEMMA RequestTypes ==
    ASSUME TypeOK, RequestInv, NEW r \in Requests,
           \/ LoadOrder(r) \/ CheckExisting(r) \/ Buy(r) \/ BuyFails(r) \/ SoldUnheard(r)
           \/ PersistCreatedLabel(r) \/ PersistTestLabel(r) \/ MarkOrderShipped(r)
           \/ EnqueueConfirmation(r) \/ PersistDirect(r) \/ PersistDirectRefused(r)
           \/ RequestFault(r)
    PROVE  TypeOK'
<1>0. {"loaded", "checked", "bought", "saved", "marked"} \subseteq ReqPcs
  BY DEF ReqPcs
<1>1. ASSUME NEW pc \in ReqPcs, Moves(r, pc) \/ Ends(r)
      PROVE  req' \in [Requests -> [pc : ReqPcs, kind : Kinds, label : Labels \cup {NoLabel}]]
  BY <1>1, MovesEffect, EndsEffect DEF ReqRec
<1>2. CASE LoadOrder(r) \/ CheckExisting(r) \/ BuyFails(r)
  BY <1>0, <1>1, <1>2 DEF LoadOrder, CheckExisting, BuyFails, TypeOK, labelVars, history
<1>3. CASE Buy(r)
  <2>1. req' \in [Requests -> [pc : ReqPcs, kind : Kinds, label : Labels \cup {NoLabel}]]
    BY <1>0, <1>3, TakesEffect DEF Buy, ReqRec
  <2>2. QED
    BY <1>3, <2>1, SellsEffect DEF Buy, TypeOK, history
<1>4. CASE SoldUnheard(r)
  <2>1. req' \in [Requests -> [pc : ReqPcs, kind : Kinds, label : Labels \cup {NoLabel}]]
    BY <1>0, <1>1, <1>4 DEF SoldUnheard, TypeOK
  <2>2. struck' \in SUBSET Labels /\ faults' \in 0 .. MaxFaults
    BY <1>4, FreshLabel, MaxFaultsAssumption DEF SoldUnheard, Fault, TypeOK
  <2>3. QED
    BY <1>4, <2>1, <2>2, SellsEffect DEF SoldUnheard, TypeOK
<1>5. CASE PersistCreatedLabel(r)
  BY <1>0, <1>1, <1>5, HeldLabel, SavesEffect DEF PersistCreatedLabel, TypeOK, history
<1>6. CASE PersistTestLabel(r)
  <2>1. req' \in [Requests -> [pc : ReqPcs, kind : Kinds, label : Labels \cup {NoLabel}]]
    BY <1>0, <1>6, TakesEffect DEF PersistTestLabel, ReqRec
  <2>2. Fresh \in Labels /\ "test" \in Kinds
    BY <1>6, FreshLabel DEF PersistTestLabel, Kinds
  <2>3. kind' \in [Labels -> Kinds \cup {"none"}]
    BY <1>6, <2>2 DEF PersistTestLabel, TypeOK
  <2>4. QED
    BY <1>6, <2>1, <2>2, <2>3, SavesEffect DEF PersistTestLabel, TypeOK, history
<1>7. CASE MarkOrderShipped(r)
  BY <1>0, <1>1, <1>7 DEF MarkOrderShipped, TypeOK, Statuses, labelVars, history
<1>8. CASE EnqueueConfirmation(r)
  <2>1. confirmations' \in SUBSET Labels
    BY <1>8, HeldLabel DEF EnqueueConfirmation, Enqueues, TypeOK
  <2>2. QED
    BY <1>0, <1>1, <1>8, <2>1 DEF EnqueueConfirmation, TypeOK, history
<1>9. CASE PersistDirect(r)
  BY <1>0, <1>1, <1>9, HeldLabel, SavesEffect DEF PersistDirect, TypeOK, Statuses, history
<1>10. CASE PersistDirectRefused(r)
  <2>1. late' \in SUBSET Labels
    BY <1>10, HeldLabel DEF PersistDirectRefused, TypeOK
  <2>2. QED
    BY <1>0, <1>1, <1>10, <2>1 DEF PersistDirectRefused, TypeOK, labelVars
<1>11. CASE RequestFault(r)
  <2>1. struck' \in SUBSET Labels /\ faults' \in 0 .. MaxFaults
    BY <1>11, MaxFaultsAssumption DEF RequestFault, Strike, Fault, TypeOK
  <2>2. QED
    BY <1>0, <1>1, <1>11, <2>1 DEF RequestFault, TypeOK, labelVars
<1>12. QED
  BY <1>2, <1>3, <1>4, <1>5, <1>6, <1>7, <1>8, <1>9, <1>10, <1>11

LEMMA VoidTypes ==
    ASSUME TypeOK, VoidInv, NEW v \in Voids,
           \/ \E l \in Labels, w \in Which : VoidRead(v, l, w)
           \/ VoidAtProvider(v) \/ VoidUntold(v) \/ VoidFails(v)
           \/ VoidCommit(v) \/ VoidRollsBack(v)
    PROVE  TypeOK'
<1>0. /\ void \in [Voids -> VoidRec] /\ Resting("ended") \in VoidRec
      /\ {"read", "told"} \subseteq VoidPcs
  BY DEF TypeOK, VoidRec, VoidPcs, Resting, Which
<1>1. CASE \E l \in Labels, w \in Which : VoidRead(v, l, w)
  <2>1. PICK l \in Labels, w \in Which : VoidRead(v, l, w)
    BY <1>1
  <2>2. [pc |-> "read", label |-> l, which |-> w] \in VoidRec
    BY <1>0 DEF VoidRec
  <2>3. void' \in [Voids -> VoidRec]
    BY <1>0, <2>1, <2>2 DEF VoidRead
  <2>4. QED
    BY <2>1, <2>3 DEF VoidRead, TypeOK, VoidRec, labelVars, history
<1>2. CASE VoidAtProvider(v)
  <2>1. void' \in [Voids -> VoidRec]
    BY <1>0, <1>2 DEF VoidAtProvider, VoidRec
  <2>2. postage' \in [Labels -> {"unsold", "live", "void"}]
    BY <1>2 DEF VoidAtProvider, TypeOK
  <2>3. QED
    BY <1>2, <2>1, <2>2 DEF VoidAtProvider, TypeOK, VoidRec, history
<1>3. CASE VoidUntold(v)
  <2>1. void' \in [Voids -> VoidRec]
    BY <1>0, <1>3 DEF VoidUntold, VoidRec
  <2>2. QED
    BY <1>3, <2>1 DEF VoidUntold, TypeOK, VoidRec, labelVars, history
<1>4. CASE VoidFails(v)
  <2>1. void' \in [Voids -> VoidRec]
    BY <1>0, <1>4 DEF VoidFails
  <2>2. postage' \in [Labels -> {"unsold", "live", "void"}] /\ faults' \in 0 .. MaxFaults
    BY <1>4, MaxFaultsAssumption DEF VoidFails, Fault, TypeOK
  <2>3. QED
    BY <1>4, <2>1, <2>2 DEF VoidFails, TypeOK, VoidRec, history
<1>5. CASE VoidCommit(v)
  <2>1. void' \in [Voids -> VoidRec]
    BY <1>0, <1>5 DEF VoidCommit
  <2>2. row' \in [Labels -> RowStates] /\ dup' \in [Labels -> RowStates]
    BY <1>5 DEF VoidCommit, TypeOK, RowStates
  <2>3. order' \in Statuses /\ opening' \in Nat
    BY <1>5 DEF VoidCommit, TypeOK, Statuses
  <2>4. QED
    BY <1>5, <2>1, <2>2, <2>3 DEF VoidCommit, TypeOK, VoidRec
<1>6. CASE VoidRollsBack(v)
  <2>1. void' \in [Voids -> VoidRec]
    BY <1>0, <1>6 DEF VoidRollsBack
  <2>2. faults' \in 0 .. MaxFaults
    BY <1>6, MaxFaultsAssumption DEF VoidRollsBack, Fault, TypeOK
  <2>3. QED
    BY <1>6, <2>1, <2>2 DEF VoidRollsBack, TypeOK, VoidRec, labelVars, history
<1>7. QED
  BY <1>1, <1>2, <1>3, <1>4, <1>5, <1>6

SyncRec == [pc : SyncPcs, live : SUBSET Labels, dead : SUBSET Labels,
            inserts : SUBSET Labels, updates : SUBSET (Labels \X Which),
            promote : BOOLEAN]

LEMMA SyncTypes ==
    ASSUME TypeOK, SyncStep \/ SyncFault
    PROVE  TypeOK'
<1>0. sync \in SyncRec /\ IdleSync \in SyncRec /\ IdleSync.pc = "idle"
  BY DEF TypeOK, SyncRec, IdleSync, SyncPcs
<1>1. CASE SyncFetch
  <2>1. PICK page \in SUBSET Labels :
           sync' = [IdleSync EXCEPT !.pc = "fetched",
                       !.live = {l \in page : postage[l] = "live"},
                       !.dead = {l \in page : postage[l] = "void"}]
    BY <1>1 DEF SyncFetch, SoldByShipStation
  <2>2. sync' \in SyncRec
    BY <1>0, <2>1 DEF SyncRec, SyncPcs
  <2>3. QED
    BY <1>1, <2>2 DEF SyncFetch, TypeOK, SyncRec, labelVars, history
<1>2. CASE SyncDecide
  <2>1. PICK inserts \in SUBSET Labels, u \in SUBSET (Labels \X Which), b \in BOOLEAN :
           sync' = [sync EXCEPT !.pc = "writing", !.inserts = inserts, !.updates = u, !.promote = b]
    <3> DEFINE page == sync.live \cup sync.dead
               kept == {l \in page : ~Guarded}
               known == {l \in kept : Existing(l) # {}}
               b == order = "awaiting_shipment" /\ sync.live # {}
    <3>1. kept \ known \in SUBSET Labels /\ known \in SUBSET Labels /\ b \in BOOLEAN
      BY <1>0 DEF SyncRec
    <3>2. PICK u \in SUBSET (known \X Which) :
             sync' = [sync EXCEPT !.pc = "writing", !.inserts = kept \ known, !.updates = u,
                                  !.promote = b]
      BY <1>2 DEF SyncDecide
    <3>3. u \in SUBSET (Labels \X Which)
      BY <3>1
    <3> HIDE DEF known, kept, page, b
    <3>4. QED
      BY <3>1, <3>2, <3>3
  <2>2. sync' \in SyncRec
    BY <1>0, <2>1 DEF SyncRec, SyncPcs
  <2>3. QED
    BY <1>2, <2>2 DEF SyncDecide, TypeOK, SyncRec, labelVars, history
<1>3. CASE SyncInsert
  <2>1. dup' \in [Labels -> RowStates]
    BY <1>3, PagedRow DEF SyncInsert, TypeOK
  <2>2. sync' \in SyncRec
    BY <1>0, <1>3 DEF SyncInsert, SyncRec
  <2>3. QED
    BY <1>3, <2>1, <2>2 DEF SyncInsert, TypeOK, SyncRec, history
<1>4. ASSUME NEW l \in Labels, NEW w \in Which, SyncUpdate(l, w)
      PROVE  TypeOK'
  <2>1. row' \in [Labels -> RowStates] /\ dup' \in [Labels -> RowStates]
    BY <1>4, PagedRow DEF SyncUpdate, TypeOK
  <2>2. sync' \in SyncRec /\ resynced' \in SUBSET Labels
    BY <1>0, <1>4 DEF SyncUpdate, SyncRec, TypeOK
  <2>3. QED
    BY <1>4, <2>1, <2>2 DEF SyncUpdate, TypeOK, SyncRec, history
<1>5. CASE SyncAdvance
  <2>1. sync' \in SyncRec /\ seen' \in SUBSET Labels
    BY <1>0, <1>5 DEF SyncAdvance, SyncRec, SyncPcs, TypeOK
  <2>2. QED
    BY <1>5, <2>1 DEF SyncAdvance, TypeOK, SyncRec, labelVars, history
<1>6. CASE SyncPromote
  <2>1. sync' \in SyncRec /\ order' \in Statuses
    BY <1>0, <1>6 DEF SyncPromote, TypeOK, Statuses
  <2>2. QED
    BY <1>6, <2>1 DEF SyncPromote, TypeOK, SyncRec, labelVars, history
<1>7. CASE SyncFault
  <2>1. sync' \in SyncRec
    BY <1>0, <1>7 DEF SyncFault, SyncRec, SyncPcs
  <2>2. faults' \in 0 .. MaxFaults
    BY <1>7, MaxFaultsAssumption DEF SyncFault, Fault, TypeOK
  <2>3. QED
    BY <1>7, <2>1, <2>2 DEF SyncFault, TypeOK, SyncRec, labelVars, history
<1>8. QED
  BY <1>1, <1>2, <1>3, <1>4, <1>5, <1>6, <1>7 DEF SyncStep

LEMMA TypeStep ==
    ASSUME TypeOK, RequestInv, VoidInv, [Next]_vars
    PROVE  TypeOK'
<1>1. CASE UNCHANGED vars
  BY <1>1 DEF TypeOK, vars
<1>2. CASE \E s \in Statuses : ImportOrder(s)
  BY <1>2 DEF ImportOrder, Imported, Stands, TypeOK, labelVars, history
<1>3. QED
  BY <1>1, <1>2, RequestTypes, VoidTypes, SyncTypes DEF Next

-----------------------------------------------------------------------------
(* What a step does to the labels                                           *)

\* Facts of a label never taken back: who sold it, that its postage is void,
\* that a row shows it.
LEMMA LabelsKeep ==
    ASSUME TypeOK, UnsoldInv, RequestInv, VoidInv, SyncInv, [Next]_vars, NEW l \in Labels
    PROVE  /\ kind[l] # "none" => kind'[l] = kind[l]
           /\ postage[l] = "void" => postage'[l] = "void"
           /\ postage[l] = "live" => postage'[l] # "unsold"
           /\ row[l] # "none" => row'[l] # "none"
           /\ dup[l] # "none" => dup'[l] # "none"
<1>1. ASSUME NEW r \in Requests, Buy(r) \/ SoldUnheard(r)
      PROVE  /\ kind[l] # "none" => kind'[l] = kind[l] /\ postage'[l] = postage[l]
             /\ kind[l] = "none" => postage'[l] # "unsold" \/ postage'[l] = postage[l]
             /\ row' = row /\ dup' = dup
  BY <1>1, FreshLabel, SellsEffect DEF Buy, SoldUnheard, history
<1>2. ASSUME NEW r \in Requests, PersistCreatedLabel(r) \/ PersistDirect(r)
      PROVE  /\ kind' = kind /\ postage' = postage /\ dup' = dup
             /\ row[l] # "none" => row'[l] # "none"
  BY <1>2, HeldLabel, SavesEffect DEF PersistCreatedLabel, PersistDirect
<1>3. ASSUME NEW r \in Requests, PersistTestLabel(r)
      PROVE  /\ kind[l] # "none" => kind'[l] = kind[l]
             /\ postage' = postage /\ dup' = dup
             /\ row[l] # "none" => row'[l] # "none"
  BY <1>3, FreshLabel, SavesEffect DEF PersistTestLabel, TypeOK
<1>4. ASSUME NEW v \in Voids, VoidAtProvider(v) \/ VoidFails(v)
      PROVE  /\ kind' = kind /\ row' = row /\ dup' = dup
             /\ postage'[l] = postage[l] \/ postage'[l] = "void"
  BY <1>4 DEF VoidAtProvider, VoidFails, TypeOK
<1>5. ASSUME NEW v \in Voids, VoidCommit(v)
      PROVE  /\ kind' = kind /\ postage' = postage
             /\ row[l] # "none" => row'[l] # "none"
             /\ dup[l] # "none" => dup'[l] # "none"
  BY <1>5 DEF VoidCommit, TypeOK
<1>6. CASE SyncInsert
  BY <1>6, PagedRow DEF SyncInsert, TypeOK
<1>7. ASSUME NEW m \in Labels, NEW w \in Which, SyncUpdate(m, w)
      PROVE  /\ kind' = kind /\ postage' = postage
             /\ row[l] # "none" => row'[l] # "none"
             /\ dup[l] # "none" => dup'[l] # "none"
  BY <1>7, PagedRow DEF SyncUpdate, TypeOK
<1>8. kind[l] = "none" => postage[l] = "unsold"
  BY DEF UnsoldInv
<1>9. QED
  BY <1>1, <1>2, <1>3, <1>4, <1>5, <1>6, <1>7, <1>8, LabelWriters

-----------------------------------------------------------------------------
(* The parts of the invariant, one by one                                   *)

LEMMA UnsoldStep ==
    ASSUME TypeOK, UnsoldInv, RequestInv, VoidInv, SyncInv, [Next]_vars
    PROVE  UnsoldInv'
<1> SUFFICES ASSUME NEW l \in Labels, kind'[l] = "none"
             PROVE  postage'[l] = "unsold" /\ row'[l] = "none" /\ dup'[l] = "none"
  BY DEF UnsoldInv
<1>0. kind[l] = "none" /\ postage[l] = "unsold" /\ row[l] = "none" /\ dup[l] = "none"
  BY LabelsKeep DEF UnsoldInv
<1>1. ASSUME NEW r \in Requests, Buy(r) \/ SoldUnheard(r)
      PROVE  postage'[l] = "unsold" /\ row'[l] = "none" /\ dup'[l] = "none"
  <2>1. req[r].kind # "none" /\ Supply
    BY <1>1 DEF TypeOK, Kinds, Buy, SoldUnheard
  <2>2. l # Fresh
    BY <1>1, <2>1, SellsEffect DEF Buy, SoldUnheard
  <2>3. QED
    BY <1>0, <1>1, <2>1, <2>2, SellsEffect DEF Buy, SoldUnheard
<1>2. ASSUME NEW r \in Requests, PersistCreatedLabel(r) \/ PersistDirect(r)
      PROVE  postage'[l] = "unsold" /\ row'[l] = "none" /\ dup'[l] = "none"
  <2>1. req[r].label \in Labels /\ kind[req[r].label] # "none"
    BY <1>2, HeldLabel DEF PersistCreatedLabel, PersistDirect
  <2>2. QED
    BY <1>0, <1>2, <2>1, SavesEffect DEF PersistCreatedLabel, PersistDirect
<1>3. ASSUME NEW r \in Requests, PersistTestLabel(r)
      PROVE  postage'[l] = "unsold" /\ row'[l] = "none" /\ dup'[l] = "none"
  BY <1>0, <1>3, FreshLabel, SavesEffect DEF PersistTestLabel, TypeOK
<1>4. ASSUME NEW v \in Voids, VoidAtProvider(v) \/ VoidFails(v)
      PROVE  postage'[l] = "unsold" /\ row'[l] = "none" /\ dup'[l] = "none"
  <2>1. void[v].label # l
    BY <1>0, <1>4 DEF VoidAtProvider, VoidFails, HasCarrierId
  <2>2. QED
    BY <1>0, <1>4, <2>1 DEF VoidAtProvider, VoidFails, TypeOK
<1>5. ASSUME NEW v \in Voids, VoidCommit(v)
      PROVE  postage'[l] = "unsold" /\ row'[l] = "none" /\ dup'[l] = "none"
  BY <1>0, <1>5 DEF VoidCommit, RowOf, TypeOK
<1>6. CASE SyncInsert
  <2>1. l \notin sync.inserts
    BY <1>0, <1>6 DEF SyncInv
  <2>2. QED
    BY <1>0, <1>6, <2>1 DEF SyncInsert
<1>7. ASSUME NEW m \in Labels, NEW w \in Which, SyncUpdate(m, w)
      PROVE  postage'[l] = "unsold" /\ row'[l] = "none" /\ dup'[l] = "none"
  <2>1. RowOf(m, w) # "none"
    BY <1>7 DEF SyncUpdate, SyncInv
  <2>2. m # l
    BY <1>0, <2>1 DEF RowOf
  <2>3. QED
    BY <1>0, <1>7, <2>2 DEF SyncUpdate, TypeOK
<1>8. QED
  BY <1>0, <1>1, <1>2, <1>3, <1>4, <1>5, <1>6, <1>7, LabelWriters

\* A step of one request leaves the others as they are.
LEMMA OthersRest ==
    ASSUME TypeOK, [Next]_vars, NEW s \in Requests
    PROVE  \/ req'[s] = req[s]
           \/ LoadOrder(s) \/ CheckExisting(s) \/ Buy(s) \/ BuyFails(s) \/ SoldUnheard(s)
           \/ PersistCreatedLabel(s) \/ PersistTestLabel(s) \/ MarkOrderShipped(s)
           \/ EnqueueConfirmation(s) \/ PersistDirect(s) \/ PersistDirectRefused(s)
           \/ RequestFault(s)
<1>0. {"loaded", "checked", "bought", "saved", "marked"} \subseteq ReqPcs
  BY DEF ReqPcs
<1>1. ASSUME NEW r \in Requests, r # s,
             \/ LoadOrder(r) \/ CheckExisting(r) \/ Buy(r) \/ BuyFails(r) \/ SoldUnheard(r)
             \/ PersistCreatedLabel(r) \/ PersistTestLabel(r) \/ MarkOrderShipped(r)
             \/ EnqueueConfirmation(r) \/ PersistDirect(r) \/ PersistDirectRefused(r)
             \/ RequestFault(r)
      PROVE  req'[s] = req[s]
  BY <1>0, <1>1, MovesEffect, EndsEffect, TakesEffect
     DEF LoadOrder, CheckExisting, Buy, BuyFails, SoldUnheard, PersistCreatedLabel,
         PersistTestLabel, MarkOrderShipped, EnqueueConfirmation, PersistDirect,
         PersistDirectRefused, RequestFault
<1>2. QED
  BY <1>1, RequestWriters

LEMMA RequestInvStep ==
    ASSUME TypeOK, UnsoldInv, RequestInv, VoidInv, SyncInv, [Next]_vars
    PROVE  RequestInv'
<1> SUFFICES ASSUME NEW s \in Requests
             PROVE  /\ req'[s].pc \in {"bought", "saved", "marked"} =>
                          req'[s].label \in Labels /\ kind'[req'[s].label] = req'[s].kind
                    /\ req'[s].pc \in {"saved", "marked"} => row'[req'[s].label] # "none"
  BY DEF RequestInv
<1> DEFINE Good == /\ req'[s].pc \in {"bought", "saved", "marked"} =>
                          req'[s].label \in Labels /\ kind'[req'[s].label] = req'[s].kind
                   /\ req'[s].pc \in {"saved", "marked"} => row'[req'[s].label] # "none"
<1>0. /\ {"loaded", "checked", "bought", "saved", "marked"} \subseteq ReqPcs
      /\ req[s].kind \in Kinds /\ req[s].kind # "none"
  BY DEF ReqPcs, TypeOK, Kinds
<1>1. CASE req'[s] = req[s]
  <2>1. CASE req[s].pc \in {"bought", "saved", "marked"}
    <3>1. req[s].label \in Labels /\ kind[req[s].label] = req[s].kind
      BY <2>1 DEF RequestInv
    <3>2. kind'[req[s].label] = req[s].kind
      BY <1>0, <3>1, LabelsKeep
    <3>3. req[s].pc \in {"saved", "marked"} => row'[req[s].label] # "none"
      BY <3>1, LabelsKeep DEF RequestInv
    <3>4. QED
      BY <1>1, <3>1, <3>2, <3>3
  <2>2. QED
    BY <1>1, <2>1
<1>2. CASE req'[s].pc \notin {"bought", "saved", "marked"}
  BY <1>2
<1>3. ASSUME Buy(s)
      PROVE  Good
  BY <1>0, <1>3, TakesEffect, SellsEffect, FreshLabel DEF Buy
<1>4. ASSUME PersistCreatedLabel(s) \/ PersistDirect(s)
      PROVE  Good
  <2>1. req'[s].kind = req[s].kind /\ req'[s].label = req[s].label
    BY <1>0, <1>4, MovesEffect DEF PersistCreatedLabel, PersistDirect
  <2>2. req[s].label \in Labels /\ kind[req[s].label] = req[s].kind
    BY <1>4, HeldLabel DEF PersistCreatedLabel, PersistDirect
  <2>3. kind' = kind /\ row'[req[s].label] = "active"
    BY <1>4, <2>2, SavesEffect DEF PersistCreatedLabel, PersistDirect
  <2>4. QED
    BY <2>1, <2>2, <2>3
<1>5. ASSUME PersistTestLabel(s)
      PROVE  Good
  <2>1. req'[s].kind = "test" /\ req'[s].label = Fresh
    BY <1>0, <1>5, TakesEffect DEF PersistTestLabel
  <2>2. Fresh \in Labels
    BY <1>5, FreshLabel DEF PersistTestLabel
  <2>3. kind'[Fresh] = "test" /\ row'[Fresh] = "active"
    BY <1>5, <2>2, SavesEffect DEF PersistTestLabel, TypeOK
  <2>4. QED
    BY <2>1, <2>2, <2>3
<1>6. ASSUME MarkOrderShipped(s)
      PROVE  Good
  <2>1. CASE req[s].kind = "test"
    BY <1>6, <2>1, EndsEffect DEF MarkOrderShipped
  <2>2. CASE req[s].kind # "test"
    <3>1. req'[s].kind = req[s].kind /\ req'[s].label = req[s].label
      BY <1>0, <1>6, <2>2, MovesEffect DEF MarkOrderShipped
    <3>2. kind' = kind /\ row' = row
      BY <1>6 DEF MarkOrderShipped, labelVars
    <3>3. req[s].label \in Labels /\ kind[req[s].label] = req[s].kind /\ row[req[s].label] # "none"
      BY <1>6 DEF MarkOrderShipped, At, RequestInv
    <3>4. QED
      BY <3>1, <3>2, <3>3
  <2>3. QED
    BY <2>1, <2>2
<1>7. ASSUME \/ LoadOrder(s) \/ CheckExisting(s) \/ BuyFails(s)
             \/ EnqueueConfirmation(s) \/ PersistDirectRefused(s) \/ RequestFault(s)
      PROVE  req'[s].pc \notin {"bought", "saved", "marked"}
  BY <1>0, <1>7, MovesEffect, EndsEffect
     DEF LoadOrder, CheckExisting, BuyFails, EnqueueConfirmation, PersistDirectRefused,
         RequestFault
<1>8. ASSUME SoldUnheard(s)
      PROVE  req'[s].pc \notin {"bought", "saved", "marked"}
  BY <1>8, EndsEffect DEF SoldUnheard, At
<1>9. QED
  BY <1>1, <1>2, <1>3, <1>4, <1>5, <1>6, <1>7, <1>8, OthersRest

LEMMA VoidInvStep ==
    ASSUME TypeOK, UnsoldInv, RequestInv, VoidInv, SyncInv, [Next]_vars
    PROVE  VoidInv'
<1> SUFFICES ASSUME NEW u \in Voids
             PROVE  /\ void'[u].pc \in {"read", "told"} =>
                          void'[u].label \in Labels /\ kind'[void'[u].label] # "none"
                    /\ void'[u].pc = "told" /\ kind'[void'[u].label] = "shipstation" =>
                          postage'[void'[u].label] = "void"
  BY DEF VoidInv
<1> DEFINE Good == /\ void'[u].pc \in {"read", "told"} =>
                          void'[u].label \in Labels /\ kind'[void'[u].label] # "none"
                   /\ void'[u].pc = "told" /\ kind'[void'[u].label] = "shipstation" =>
                          postage'[void'[u].label] = "void"
<1>1. ASSUME void'[u] = void[u]
      PROVE  Good
  <2>1. ASSUME void[u].pc \in {"read", "told"}
        PROVE  /\ void[u].label \in Labels
               /\ kind[void[u].label] # "none"
               /\ kind'[void[u].label] = kind[void[u].label]
               /\ postage[void[u].label] = "void" => postage'[void[u].label] = "void"
    BY <2>1, LabelsKeep DEF VoidInv
  <2>2. QED
    BY <1>1, <2>1 DEF VoidInv
<1>2. ASSUME void'[u].pc = "ended"
      PROVE  Good
  BY <1>2
<1>3. ASSUME NEW l \in Labels, NEW w \in Which, VoidRead(u, l, w)
      PROVE  Good
  <2>1. void'[u].pc = "read" /\ void'[u].label = l
    BY <1>3 DEF VoidRead, TypeOK
  <2>2. kind[l] # "none" /\ kind' = kind
    BY <1>3 DEF VoidRead, RowOf, UnsoldInv, labelVars
  <2>3. QED
    BY <2>1, <2>2
<1>4. ASSUME VoidAtProvider(u) \/ VoidUntold(u)
      PROVE  Good
  <2>1. /\ void'[u].pc = "told" /\ void'[u].label = void[u].label
        /\ void[u].label \in Labels /\ kind[void[u].label] # "none" /\ kind' = kind
    BY <1>4 DEF VoidAtProvider, VoidUntold, VoidInv, TypeOK, labelVars
  <2>2. CASE VoidAtProvider(u)
    <3>1. postage'[void[u].label] = "void"
      BY <2>1, <2>2 DEF VoidAtProvider, TypeOK
    <3>2. QED
      BY <2>1, <3>1
  <2>3. CASE VoidUntold(u)
    BY <2>1, <2>3 DEF VoidUntold, HasCarrierId
  <2>4. QED
    BY <1>4, <2>2, <2>3
<1>5. ASSUME VoidFails(u) \/ VoidCommit(u) \/ VoidRollsBack(u)
      PROVE  void'[u].pc = "ended"
  BY <1>5 DEF VoidFails, VoidCommit, VoidRollsBack, Resting, TypeOK
<1>6. ASSUME NEW v \in Voids, v # u,
             \/ \E l \in Labels, w \in Which : VoidRead(v, l, w)
             \/ VoidAtProvider(v) \/ VoidUntold(v) \/ VoidFails(v)
             \/ VoidCommit(v) \/ VoidRollsBack(v)
      PROVE  void'[u] = void[u]
  BY <1>6 DEF VoidRead, VoidAtProvider, VoidUntold, VoidFails, VoidCommit, VoidRollsBack, TypeOK
<1>7. QED
  BY <1>1, <1>2, <1>3, <1>4, <1>5, <1>6, VoidWriters

LEMMA SyncInvStep ==
    ASSUME TypeOK, UnsoldInv, RequestInv, VoidInv, SyncInv, [Next]_vars
    PROVE  SyncInv'
<1> DEFINE Page == sync.live \cup sync.dead
           Page1 == sync'.live \cup sync'.dead
           Rows(u) == IF u[2] = "row" THEN row'[u[1]] # "none" ELSE dup'[u[1]] # "none"
<1> SUFFICES /\ \A l \in Page1 : kind'[l] = "shipstation"
             /\ \A l \in sync'.dead : postage'[l] = "void"
             /\ sync'.inserts \subseteq Page1
             /\ \A u \in sync'.updates : u[1] \in Page1 /\ Rows(u)
  BY DEF SyncInv, RowOf
<1>0. sync \in SyncRec
  BY DEF TypeOK, SyncRec
<1>1. ASSUME sync' = IdleSync
      PROVE  Page1 = {} /\ sync'.dead = {} /\ sync'.inserts = {} /\ sync'.updates = {}
  BY <1>1 DEF IdleSync
<1>2. ASSUME sync'.live = sync.live, sync'.dead = sync.dead
      PROVE  /\ Page1 = Page
             /\ \A l \in Page1 : kind'[l] = "shipstation"
             /\ \A l \in sync'.dead : postage'[l] = "void"
  BY <1>0, <1>2, LabelsKeep DEF SyncInv, SyncRec
<1>3. ASSUME sync'.live = sync.live, sync'.dead = sync.dead,
             sync'.inserts \subseteq sync.inserts, sync'.updates \subseteq sync.updates
      PROVE  /\ sync'.inserts \subseteq Page1
             /\ \A u \in sync'.updates : u[1] \in Page1 /\ Rows(u)
  <2>1. sync'.inserts \subseteq Page1
    BY <1>2, <1>3 DEF SyncInv
  <2>2. ASSUME NEW u \in sync'.updates
        PROVE  u[1] \in Page1 /\ Rows(u)
    <3>1. u \in sync.updates /\ u[1] \in Labels
      BY <1>0, <1>3 DEF SyncRec
    <3>2. u[1] \in Page /\ RowOf(u[1], u[2]) # "none"
      BY <3>1 DEF SyncInv
    <3>3. Rows(u)
      BY <3>1, <3>2, LabelsKeep DEF RowOf
    <3>4. QED
      BY <1>2, <1>3, <3>2, <3>3
  <2>3. QED
    BY <2>1, <2>2
<1>4. CASE SyncFetch
  <2>1. PICK page \in SUBSET SoldByShipStation :
           sync' = [IdleSync EXCEPT !.pc = "fetched",
                       !.live = {l \in page : postage[l] = "live"},
                       !.dead = {l \in page : postage[l] = "void"}]
    BY <1>4 DEF SyncFetch
  <2>2. /\ sync'.inserts = {} /\ sync'.updates = {}
        /\ sync'.live = {l \in page : postage[l] = "live"}
        /\ sync'.dead = {l \in page : postage[l] = "void"}
    BY <2>1 DEF IdleSync
  <2>3. kind' = kind /\ postage' = postage
    BY <1>4 DEF SyncFetch, labelVars
  <2>4. QED
    BY <2>2, <2>3 DEF SoldByShipStation
<1>5. CASE SyncDecide
  <2>1. PICK ks \in SUBSET Page, b \in BOOLEAN, ins \in SUBSET Page, u \in SUBSET (Page \X Which) :
           /\ u \subseteq ks \X Which
           /\ \A l \in ks : \E w \in Existing(l) : u \cap ({l} \X Which) = {<<l, w>>}
           /\ sync' = [sync EXCEPT !.pc = "writing", !.inserts = ins, !.updates = u, !.promote = b]
    <3> DEFINE kept == {l \in Page : ~Guarded}
               known == {l \in kept : Existing(l) # {}}
               b == order = "awaiting_shipment" /\ sync.live # {}
    <3>1. kept \ known \in SUBSET Page /\ known \in SUBSET Page /\ b \in BOOLEAN
      OBVIOUS
    <3>2. PICK u \in SUBSET (known \X Which) :
             /\ \A l \in known : \E w \in Existing(l) : u \cap ({l} \X Which) = {<<l, w>>}
             /\ sync' = [sync EXCEPT !.pc = "writing", !.inserts = kept \ known, !.updates = u,
                                     !.promote = b]
      BY <1>5 DEF SyncDecide
    <3> HIDE DEF known, kept, Page, b
    <3>3. QED
      BY <3>1, <3>2
  <2>2. /\ sync'.live = sync.live /\ sync'.dead = sync.dead
        /\ sync'.inserts = ins /\ sync'.updates = u
    BY <1>0, <2>1 DEF SyncRec
  <2>3. row' = row /\ dup' = dup
    BY <1>5 DEF SyncDecide, labelVars
  <2>4. ASSUME NEW x \in u
        PROVE  x[1] \in Page1 /\ Rows(x)
    <3>1. x[1] \in ks /\ x[2] \in Which /\ x = <<x[1], x[2]>>
      BY <2>1
    <3>2. PICK w \in Existing(x[1]) : u \cap ({x[1]} \X Which) = {<<x[1], w>>}
      BY <2>1, <3>1
    <3>3. x \in u \cap ({x[1]} \X Which)
      BY <3>1
    <3>4. x[2] = w
      BY <3>1, <3>2, <3>3
    <3>5. QED
      BY <2>2, <2>3, <3>1, <3>2, <3>4 DEF Existing, RowOf
  <2>5. QED
    BY <1>2, <2>1, <2>2, <2>4
<1>6. CASE SyncInsert \/ SyncAdvance \/ \E l \in Labels, w \in Which : SyncUpdate(l, w)
  <2>1. /\ sync'.live = sync.live /\ sync'.dead = sync.dead
        /\ sync'.inserts \subseteq sync.inserts /\ sync'.updates \subseteq sync.updates
    <3>1. CASE SyncInsert
      BY <1>0, <3>1 DEF SyncInsert, SyncRec
    <3>2. CASE SyncAdvance
      BY <1>0, <3>2 DEF SyncAdvance, SyncRec
    <3>3. ASSUME NEW l \in Labels, NEW w \in Which, SyncUpdate(l, w)
          PROVE  /\ sync'.live = sync.live /\ sync'.dead = sync.dead
                 /\ sync'.inserts \subseteq sync.inserts /\ sync'.updates \subseteq sync.updates
      BY <1>0, <3>3 DEF SyncUpdate, SyncRec
    <3>4. QED
      BY <1>6, <3>1, <3>2, <3>3
  <2>2. QED
    BY <1>2, <1>3, <2>1
<1>7. CASE SyncFault
  <2>1. CASE sync' = IdleSync
    BY <1>1, <2>1
  <2>2. CASE sync' = [sync EXCEPT !.pc = "written"]
    <3>1. /\ sync'.live = sync.live /\ sync'.dead = sync.dead
          /\ sync'.inserts = sync.inserts /\ sync'.updates = sync.updates
      BY <1>0, <2>2 DEF SyncRec
    <3>2. QED
      BY <1>2, <1>3, <3>1
  <2>3. QED
    BY <1>7, <2>1, <2>2 DEF SyncFault
<1>8. CASE SyncPromote
  BY <1>1, <1>8 DEF SyncPromote
<1>9. CASE sync' = sync
  BY <1>2, <1>3, <1>9
<1>10. QED
  BY <1>4, <1>5, <1>6, <1>7, <1>8, <1>9, SyncWriters DEF SyncStep

\* A shut order is reopened only by a void, which starts a new opening.
LEMMA ShutStays ==
    ASSUME TypeOK, [Next]_vars, order \in Shut
    PROVE  \/ opening' = opening /\ order' \in Shut
           \/ opening' = opening + 1
<1>1. CASE UNCHANGED vars
  BY <1>1 DEF vars
<1>2. ASSUME NEW r \in Requests,
             \/ LoadOrder(r) \/ CheckExisting(r) \/ Buy(r) \/ BuyFails(r) \/ SoldUnheard(r)
             \/ PersistCreatedLabel(r) \/ PersistTestLabel(r) \/ MarkOrderShipped(r)
             \/ EnqueueConfirmation(r) \/ PersistDirect(r) \/ PersistDirectRefused(r)
             \/ RequestFault(r)
      PROVE  opening' = opening /\ order' \in Shut
  BY <1>2 DEF LoadOrder, CheckExisting, Buy, BuyFails, SoldUnheard, PersistCreatedLabel,
              PersistTestLabel, MarkOrderShipped, EnqueueConfirmation, PersistDirect,
              PersistDirectRefused, RequestFault, history, Shut, Closed
<1>3. ASSUME NEW v \in Voids,
             \/ \E l \in Labels, w \in Which : VoidRead(v, l, w)
             \/ VoidAtProvider(v) \/ VoidUntold(v) \/ VoidFails(v)
             \/ VoidCommit(v) \/ VoidRollsBack(v)
      PROVE  \/ opening' = opening /\ order' = order
             \/ opening' = opening + 1
  BY <1>3 DEF VoidRead, VoidAtProvider, VoidUntold, VoidFails, VoidCommit, VoidRollsBack, history
<1>4. CASE SyncStep \/ SyncFault
  BY <1>4 DEF SyncStep, SyncFetch, SyncDecide, SyncInsert, SyncAdvance, SyncPromote, SyncUpdate,
              SyncFault, history, Shut, Closed
<1>5. CASE \E s \in Statuses : ImportOrder(s)
  BY <1>5 DEF ImportOrder, Imported, Stands, Statuses, history, Shut, Closed
<1>6. QED
  BY <1>1, <1>2, <1>3, <1>4, <1>5 DEF Next

\* A row is written for a label by its request, and once there only its state
\* changes.
LEMMA RowsAppear ==
    ASSUME TypeOK, UnsoldInv, RequestInv, SyncInv, [Next]_vars, NEW l \in Labels,
           row'[l] # "none"
    PROVE  \/ /\ row[l] # "none"
              /\ kind'[l] = kind[l] /\ persistedIn'[l] = persistedIn[l]
           \/ \E r \in Requests :
                 \/ (PersistCreatedLabel(r) \/ PersistDirect(r)) /\ l = req[r].label
                 \/ PersistTestLabel(r) /\ l = Fresh
<1>0. kind[l] = "none" => row[l] = "none"
  BY DEF UnsoldInv
<1>1. ASSUME NEW r \in Requests, Buy(r) \/ SoldUnheard(r)
      PROVE  row[l] # "none" /\ kind'[l] = kind[l] /\ persistedIn'[l] = persistedIn[l]
  BY <1>0, <1>1, FreshLabel, SellsEffect DEF Buy, SoldUnheard, history
<1>2. ASSUME NEW r \in Requests, PersistCreatedLabel(r) \/ PersistDirect(r), l # req[r].label
      PROVE  row[l] # "none" /\ kind'[l] = kind[l] /\ persistedIn'[l] = persistedIn[l]
  BY <1>2, HeldLabel, SavesEffect DEF PersistCreatedLabel, PersistDirect
<1>3. ASSUME NEW r \in Requests, PersistTestLabel(r), l # Fresh
      PROVE  row[l] # "none" /\ kind'[l] = kind[l] /\ persistedIn'[l] = persistedIn[l]
  BY <1>3, FreshLabel, SavesEffect DEF PersistTestLabel, TypeOK
<1>4. ASSUME NEW v \in Voids, VoidAtProvider(v) \/ VoidFails(v) \/ VoidCommit(v)
      PROVE  row[l] # "none" /\ kind'[l] = kind[l] /\ persistedIn'[l] = persistedIn[l]
  <2>1. CASE VoidAtProvider(v) \/ VoidFails(v)
    BY <2>1 DEF VoidAtProvider, VoidFails
  <2>2. CASE VoidCommit(v)
    BY <2>2 DEF VoidCommit, RowOf, TypeOK
  <2>3. QED
    BY <1>4, <2>1, <2>2
<1>5. CASE SyncInsert
  BY <1>5 DEF SyncInsert
<1>6. ASSUME NEW m \in Labels, NEW w \in Which, SyncUpdate(m, w)
      PROVE  row[l] # "none" /\ kind'[l] = kind[l] /\ persistedIn'[l] = persistedIn[l]
  <2>1. RowOf(m, w) # "none"
    BY <1>6 DEF SyncUpdate, SyncInv
  <2>2. QED
    BY <1>6, <2>1 DEF SyncUpdate, RowOf, TypeOK
<1>7. QED
  BY <1>1, <1>2, <1>3, <1>4, <1>5, <1>6, LabelWriters

\* A direct label's row is there before the step, or PersistDirect writes it.
LEMMA DirectRows ==
    ASSUME TypeOK, UnsoldInv, RequestInv, SyncInv, [Next]_vars, NEW l \in Labels,
           kind'[l] = "direct", row'[l] # "none"
    PROVE  \/ /\ kind[l] = "direct" /\ row[l] # "none" /\ persistedIn'[l] = persistedIn[l]
           \/ \E r \in Requests : PersistDirect(r) /\ l = req[r].label
<1>1. ASSUME NEW r \in Requests, PersistCreatedLabel(r), l = req[r].label
      PROVE  FALSE
  BY <1>1, HeldLabel DEF PersistCreatedLabel
<1>2. ASSUME NEW r \in Requests, PersistTestLabel(r), l = Fresh
      PROVE  FALSE
  BY <1>2 DEF PersistTestLabel, TypeOK
<1>3. QED
  BY <1>1, <1>2, RowsAppear

LEMMA DirectPersisted ==
    ASSUME TypeOK, RequestInv, NEW r \in Requests, PersistDirect(r)
    PROVE  /\ order \notin Shut /\ order' \in Shut /\ opening' = opening
           /\ persistedIn'[req[r].label] = opening
BY HeldLabel, SavesEffect DEF PersistDirect, StillOpen, Shut, Closed, history

LEMMA DirectStep ==
    ASSUME TypeOK, UnsoldInv, RequestInv, SyncInv, DirectInv, [Next]_vars
    PROVE  DirectInv'
<1> SUFFICES ASSUME NEW l \in Labels, kind'[l] = "direct", row'[l] # "none"
             PROVE  /\ persistedIn'[l] <= opening'
                    /\ persistedIn'[l] = opening' => order' \in Shut
  BY DEF DirectInv
<1>0. opening \in Nat /\ persistedIn[l] \in Nat
  BY DEF TypeOK
<1>1. ASSUME NEW r \in Requests, PersistDirect(r), l = req[r].label
      PROVE  /\ persistedIn'[l] <= opening'
             /\ persistedIn'[l] = opening' => order' \in Shut
  BY <1>0, <1>1, DirectPersisted
<1>2. CASE kind[l] = "direct" /\ row[l] # "none" /\ persistedIn'[l] = persistedIn[l]
  <2>1. persistedIn[l] <= opening /\ (persistedIn[l] = opening => order \in Shut)
    BY <1>2 DEF DirectInv
  <2>2. opening' = opening \/ opening' = opening + 1
    BY VoidWriters DEF VoidRead, VoidAtProvider, VoidUntold, VoidFails, VoidCommit, VoidRollsBack,
                       history
  <2>3. QED
    BY <1>0, <1>2, <2>1, <2>2, ShutStays
<1>3. QED
  BY <1>1, <1>2, DirectRows

LEMMA OneDirectStep ==
    ASSUME TypeOK, UnsoldInv, RequestInv, SyncInv, DirectInv, OneDirectLabelPerOpening,
           [Next]_vars
    PROVE  OneDirectLabelPerOpening'
<1> SUFFICES ASSUME NEW l \in Labels, NEW m \in Labels, l # m,
                    kind'[l] = "direct", kind'[m] = "direct",
                    row'[l] # "none", row'[m] # "none"
             PROVE  persistedIn'[l] # persistedIn'[m]
  BY DEF OneDirectLabelPerOpening
<1>1. ASSUME NEW r \in Requests, PersistDirect(r), NEW n \in Labels, n # req[r].label,
             kind'[n] = "direct", row'[n] # "none"
      PROVE  persistedIn'[n] # persistedIn'[req[r].label]
  <2>1. kind[n] = "direct" /\ row[n] # "none" /\ persistedIn'[n] = persistedIn[n]
    BY <1>1, HeldLabel, SavesEffect DEF PersistDirect
  <2>2. persistedIn[n] # opening
    BY <1>1, <2>1, DirectPersisted DEF DirectInv
  <2>3. QED
    BY <1>1, <2>1, <2>2, DirectPersisted
<1>2. CASE \E r \in Requests : PersistDirect(r)
  <2>1. PICK r \in Requests : PersistDirect(r)
    BY <1>2
  <2>2. CASE l = req[r].label \/ m = req[r].label
    BY <1>1, <2>1, <2>2
  <2>3. CASE l # req[r].label /\ m # req[r].label
    <3>1. \A n \in {l, m} : row[n] # "none" /\ kind[n] = "direct" /\ persistedIn'[n] = persistedIn[n]
      BY <2>1, <2>3, HeldLabel, SavesEffect DEF PersistDirect
    <3>2. QED
      BY <3>1 DEF OneDirectLabelPerOpening
  <2>4. QED
    BY <2>2, <2>3
<1>3. CASE ~\E r \in Requests : PersistDirect(r)
  BY <1>3, DirectRows DEF OneDirectLabelPerOpening
<1>4. QED
  BY <1>2, <1>3

\* Postage is live because it was, or because this step sells it.
LEMMA PostageSold ==
    ASSUME TypeOK, [Next]_vars, NEW l \in Labels, postage'[l] = "live"
    PROVE  \/ postage[l] = "live"
           \/ \E r \in Requests : (Buy(r) \/ SoldUnheard(r)) /\ l = Fresh
<1>1. ASSUME NEW r \in Requests, Buy(r) \/ SoldUnheard(r), l # Fresh
      PROVE  postage[l] = "live"
  BY <1>1, SellsEffect DEF Buy, SoldUnheard
<1>2. ASSUME NEW r \in Requests,
             PersistCreatedLabel(r) \/ PersistTestLabel(r) \/ PersistDirect(r)
      PROVE  postage[l] = "live"
  BY <1>2 DEF PersistCreatedLabel, PersistTestLabel, PersistDirect
<1>3. ASSUME NEW v \in Voids, VoidAtProvider(v) \/ VoidFails(v) \/ VoidCommit(v)
      PROVE  postage[l] = "live"
  BY <1>3 DEF VoidAtProvider, VoidFails, VoidCommit, TypeOK
<1>4. CASE SyncInsert \/ \E m \in Labels, w \in Which : SyncUpdate(m, w)
  BY <1>4 DEF SyncInsert, SyncUpdate
<1>5. QED
  BY <1>1, <1>2, <1>3, <1>4, LabelWriters

\* What excuses a label is not taken back.
LEMMA MarksKeep ==
    ASSUME TypeOK, [Next]_vars
    PROVE  struck \subseteq struck' /\ late \subseteq late' /\ confirmations \subseteq confirmations'
<1>1. CASE UNCHANGED vars
  BY <1>1 DEF vars
<1>2. ASSUME NEW r \in Requests,
             \/ LoadOrder(r) \/ CheckExisting(r) \/ Buy(r) \/ BuyFails(r) \/ SoldUnheard(r)
             \/ PersistCreatedLabel(r) \/ PersistTestLabel(r) \/ MarkOrderShipped(r)
             \/ EnqueueConfirmation(r) \/ PersistDirect(r) \/ PersistDirectRefused(r)
             \/ RequestFault(r)
      PROVE  struck \subseteq struck' /\ late \subseteq late' /\ confirmations \subseteq confirmations'
  BY <1>2 DEF LoadOrder, CheckExisting, Buy, BuyFails, SoldUnheard, PersistCreatedLabel,
              PersistTestLabel, MarkOrderShipped, EnqueueConfirmation, Enqueues, PersistDirect,
              PersistDirectRefused, RequestFault, Strike, labelVars, history
<1>3. ASSUME NEW v \in Voids,
             \/ \E l \in Labels, w \in Which : VoidRead(v, l, w)
             \/ VoidAtProvider(v) \/ VoidUntold(v) \/ VoidFails(v)
             \/ VoidCommit(v) \/ VoidRollsBack(v)
      PROVE  UNCHANGED <<struck, late, confirmations>>
  BY <1>3 DEF VoidRead, VoidAtProvider, VoidUntold, VoidFails, VoidCommit, VoidRollsBack,
              labelVars, history
<1>4. CASE SyncStep \/ SyncFault
  BY <1>4 DEF SyncStep, SyncFetch, SyncDecide, SyncInsert, SyncAdvance, SyncPromote, SyncUpdate,
              SyncFault, labelVars, history
<1>5. CASE \E s \in Statuses : ImportOrder(s)
  BY <1>5 DEF ImportOrder, labelVars, history
<1>6. QED
  BY <1>1, <1>2, <1>3, <1>4, <1>5 DEF Next

\* A request that holds a label keeps it, writes its row, or leaves its mark.
LEMMA HolderStep ==
    ASSUME TypeOK, UnsoldInv, RequestInv, [Next]_vars, NEW r \in Requests, At(r, "bought")
    PROVE  \/ req'[r] = req[r]
           \/ row'[req[r].label] # "none"
           \/ req[r].label \in struck'
           \/ req[r].label \in late' /\ kind[req[r].label] = "direct"
<1>1. CASE PersistCreatedLabel(r) \/ PersistDirect(r)
  BY <1>1, HeldLabel, SavesEffect DEF PersistCreatedLabel, PersistDirect
<1>2. CASE PersistDirectRefused(r)
  BY <1>2, HeldLabel DEF PersistDirectRefused
<1>3. CASE RequestFault(r)
  BY <1>3, HeldLabel DEF RequestFault, Strike
<1>4. ASSUME \/ LoadOrder(r) \/ CheckExisting(r) \/ Buy(r) \/ BuyFails(r) \/ SoldUnheard(r)
             \/ PersistTestLabel(r) \/ MarkOrderShipped(r) \/ EnqueueConfirmation(r)
      PROVE  FALSE
  BY <1>4 DEF At, LoadOrder, CheckExisting, Buy, BuyFails, SoldUnheard, PersistTestLabel,
              MarkOrderShipped, EnqueueConfirmation
<1>5. QED
  BY <1>1, <1>2, <1>3, <1>4, OthersRest

\* A request between its row and its confirmation keeps its label, confirms it
\* or leaves its mark.
LEMMA ConfirmerStep ==
    ASSUME TypeOK, UnsoldInv, RequestInv, [Next]_vars, NEW r \in Requests,
           At(r, "saved") \/ At(r, "marked"), kind[req[r].label] # "test"
    PROVE  \/ req'[r].label = req[r].label /\ req'[r].pc \in {"saved", "marked"}
           \/ req[r].label \in struck'
           \/ req[r].label \in confirmations'
<1>0. req[r].label \in Labels /\ req[r].kind # "test" /\ "marked" \in ReqPcs
  BY HeldLabel DEF ReqPcs
<1>1. CASE MarkOrderShipped(r)
  BY <1>0, <1>1, MovesEffect DEF MarkOrderShipped
<1>2. CASE EnqueueConfirmation(r)
  BY <1>2 DEF EnqueueConfirmation, Enqueues
<1>3. CASE RequestFault(r)
  BY <1>0, <1>3 DEF RequestFault, Strike
<1>4. ASSUME \/ LoadOrder(r) \/ CheckExisting(r) \/ Buy(r) \/ BuyFails(r) \/ SoldUnheard(r)
             \/ PersistTestLabel(r) \/ PersistCreatedLabel(r) \/ PersistDirect(r)
             \/ PersistDirectRefused(r)
      PROVE  FALSE
  BY <1>4 DEF At, LoadOrder, CheckExisting, Buy, BuyFails, SoldUnheard, PersistTestLabel,
              PersistCreatedLabel, PersistDirect, PersistDirectRefused
<1>5. QED
  BY <1>1, <1>2, <1>3, <1>4, OthersRest DEF At

LEMMA PostageStep ==
    ASSUME TypeOK, UnsoldInv, RequestInv, VoidInv, SyncInv, PostageAccounted, [Next]_vars
    PROVE  PostageAccounted'
<1> DEFINE Accounted(l) == \/ \E r \in Requests : req'[r].pc = "bought" /\ req'[r].label = l
                           \/ l \in struck'
                           \/ l \in late' /\ kind'[l] = "direct"
           Confirmed(l) == \/ l \in struck'
                           \/ \E r \in Requests :
                                 /\ req'[r].label = l
                                 /\ req'[r].pc = "saved" \/ req'[r].pc = "marked"
<1> SUFFICES ASSUME NEW l \in Labels
             PROVE  /\ postage'[l] = "live" /\ row'[l] = "none" /\ dup'[l] = "none" =>
                          Accounted(l)
                    /\ row'[l] # "none" /\ kind'[l] # "test" /\ l \notin confirmations' =>
                          Confirmed(l)
  BY DEF PostageAccounted, Shown, Held, At
<1>0. {"bought", "saved"} \subseteq ReqPcs
  BY DEF ReqPcs
<1>1. ASSUME postage'[l] = "live", row'[l] = "none", dup'[l] = "none"
      PROVE  Accounted(l)
  <2>1. ASSUME postage[l] = "live"
        PROVE  Accounted(l)
    <3>1. row[l] = "none" /\ dup[l] = "none" /\ kind[l] # "none" /\ kind'[l] = kind[l]
      BY <1>1, <2>1, LabelsKeep DEF UnsoldInv
    <3>2. CASE l \in struck \/ (l \in late /\ kind[l] = "direct")
      BY <3>1, <3>2, MarksKeep
    <3>3. CASE Held(l)
      <4>1. PICK r \in Requests : At(r, "bought") /\ req[r].label = l
        BY <3>3 DEF Held
      <4>2. CASE req'[r] = req[r]
        BY <4>1, <4>2 DEF At
      <4>3. QED
        BY <1>1, <3>1, <4>1, <4>2, HolderStep
    <3>4. QED
      BY <2>1, <3>1, <3>2, <3>3 DEF PostageAccounted, Shown
  <2>2. ASSUME NEW r \in Requests, Buy(r), l = Fresh
        PROVE  Accounted(l)
    BY <1>0, <2>2, TakesEffect DEF Buy
  <2>3. ASSUME NEW r \in Requests, SoldUnheard(r), l = Fresh
        PROVE  Accounted(l)
    BY <2>3 DEF SoldUnheard
  <2>4. QED
    BY <1>1, <2>1, <2>2, <2>3, PostageSold
<1>2. ASSUME row'[l] # "none", kind'[l] # "test", l \notin confirmations'
      PROVE  Confirmed(l)
  <2>1. ASSUME row[l] # "none", kind'[l] = kind[l]
        PROVE  Confirmed(l)
    <3>1. l \notin confirmations /\ (l \in struck => l \in struck')
      BY <1>2, MarksKeep
    <3>2. ASSUME NEW r \in Requests, req[r].label = l, At(r, "saved") \/ At(r, "marked")
          PROVE  Confirmed(l)
      BY <1>2, <2>1, <3>2, ConfirmerStep
    <3>3. QED
      BY <1>2, <2>1, <3>1, <3>2 DEF PostageAccounted
  <2>2. ASSUME NEW r \in Requests, PersistCreatedLabel(r) \/ PersistDirect(r), l = req[r].label
        PROVE  Confirmed(l)
    <3>1. req'[r].label = l /\ (req'[r].pc = "saved" \/ req'[r].pc = "marked")
      BY <1>0, <2>2, MovesEffect DEF PersistCreatedLabel, PersistDirect, ReqPcs
    <3>2. QED
      BY <3>1
  <2>3. ASSUME NEW r \in Requests, PersistTestLabel(r), l = Fresh
        PROVE  FALSE
    BY <1>2, <2>3 DEF PersistTestLabel, TypeOK
  <2>4. QED
    BY <1>2, <2>1, <2>2, <2>3, RowsAppear
<1>3. QED
  BY <1>1, <1>2

LEMMA VoidShownStep ==
    ASSUME TypeOK, UnsoldInv, RequestInv, VoidInv, SyncInv, VoidShownIsVoid, [Next]_vars
    PROVE  VoidShownIsVoid'
<1> SUFFICES ASSUME NEW l \in Labels, kind'[l] = "shipstation",
                    row'[l] = "voided" \/ dup'[l] = "voided"
             PROVE  postage'[l] = "void"
  BY DEF VoidShownIsVoid, SoldByShipStation
<1>1. ASSUME row[l] = "voided" \/ dup[l] = "voided"
      PROVE  postage'[l] = "void"
  <2>1. kind[l] # "none" /\ kind'[l] = kind[l]
    BY <1>1, LabelsKeep DEF UnsoldInv
  <2>2. QED
    BY <1>1, <2>1, LabelsKeep DEF VoidShownIsVoid, SoldByShipStation
<1>2. ASSUME NEW r \in Requests,
             \/ Buy(r) \/ SoldUnheard(r) \/ PersistCreatedLabel(r) \/ PersistTestLabel(r)
             \/ PersistDirect(r)
      PROVE  row[l] = "voided" \/ dup[l] = "voided"
  <2>1. CASE Buy(r) \/ SoldUnheard(r)
    BY <2>1 DEF Buy, SoldUnheard
  <2>2. CASE PersistCreatedLabel(r) \/ PersistDirect(r)
    BY <2>2, HeldLabel, SavesEffect DEF PersistCreatedLabel, PersistDirect
  <2>3. CASE PersistTestLabel(r)
    BY <2>3, FreshLabel, SavesEffect DEF PersistTestLabel
  <2>4. QED
    BY <1>2, <2>1, <2>2, <2>3
<1>3. ASSUME NEW v \in Voids, VoidAtProvider(v) \/ VoidFails(v)
      PROVE  row[l] = "voided" \/ dup[l] = "voided"
  BY <1>3 DEF VoidAtProvider, VoidFails
<1>4. ASSUME NEW v \in Voids, VoidCommit(v)
      PROVE  (row[l] = "voided" \/ dup[l] = "voided") \/ postage'[l] = "void"
  <2>1. kind' = kind /\ postage' = postage
    BY <1>4 DEF VoidCommit
  <2>2. CASE l = void[v].label
    BY <1>4, <2>1, <2>2 DEF VoidCommit, VoidInv
  <2>3. CASE l # void[v].label
    BY <1>4, <2>3 DEF VoidCommit, TypeOK
  <2>4. QED
    BY <2>2, <2>3
<1>5. CASE SyncInsert
  <2>1. postage' = postage /\ row' = row
    BY <1>5 DEF SyncInsert
  <2>2. CASE l \in sync.inserts /\ Paged(l) = "voided"
    BY <2>1, <2>2, PagedRow DEF SyncInv
  <2>3. CASE ~(l \in sync.inserts /\ Paged(l) = "voided")
    BY <1>1, <1>5, <2>1, <2>3 DEF SyncInsert
  <2>4. QED
    BY <2>2, <2>3
<1>6. ASSUME NEW m \in Labels, NEW w \in Which, SyncUpdate(m, w)
      PROVE  (row[l] = "voided" \/ dup[l] = "voided") \/ postage'[l] = "void"
  <2>1. postage' = postage /\ m \in sync.live \cup sync.dead
    BY <1>6 DEF SyncUpdate, SyncInv
  <2>2. CASE m = l /\ Paged(l) = "voided"
    BY <2>1, <2>2, PagedRow DEF SyncInv
  <2>3. CASE ~(m = l /\ Paged(l) = "voided")
    BY <1>6, <2>3 DEF SyncUpdate, TypeOK
  <2>4. QED
    BY <2>2, <2>3
<1>7. QED
  BY <1>1, <1>2, <1>3, <1>4, <1>5, <1>6, LabelWriters

-----------------------------------------------------------------------------
(* The invariant                                                            *)

LEMMA InitInv ==
    ASSUME Init
    PROVE  OutboundInv
<1>0. PICK kinds \in Asks :
         req = [r \in Requests |-> [pc |-> "idle", kind |-> kinds[r], label |-> NoLabel]]
  BY DEF Init
<1>1. TypeOK
  <2>1. order \in Statuses /\ opening \in Nat /\ faults \in 0 .. MaxFaults
    BY MaxFaultsAssumption DEF Init, Statuses
  <2>2. /\ kind \in [Labels -> Kinds \cup {"none"}]
        /\ postage \in [Labels -> {"unsold", "live", "void"}]
        /\ row \in [Labels -> RowStates] /\ dup \in [Labels -> RowStates]
        /\ persistedIn \in [Labels -> Nat]
    BY DEF Init, RowStates
  <2>3. resynced \in SUBSET Labels /\ confirmations \in SUBSET Labels /\ seen \in SUBSET Labels
    BY DEF Init
  <2>4. struck \in SUBSET Labels /\ late \in SUBSET Labels
    BY DEF Init
  <2>5. req \in [Requests -> [pc : ReqPcs, kind : Kinds, label : Labels \cup {NoLabel}]]
    <3>1. \A r \in Requests : kinds[r] \in Kinds
      BY AsksAssumption
    <3>2. QED
      BY <1>0, <3>1 DEF ReqPcs
  <2>6. void \in [Voids -> [pc : VoidPcs, label : Labels \cup {NoLabel}, which : Which]]
    BY DEF Init, Resting, VoidPcs, Which
  <2>7. sync \in [pc : SyncPcs, live : SUBSET Labels, dead : SUBSET Labels,
                  inserts : SUBSET Labels, updates : SUBSET (Labels \X Which),
                  promote : BOOLEAN]
    BY DEF Init, IdleSync, SyncPcs
  <2>8. QED
    BY <2>1, <2>2, <2>3, <2>4, <2>5, <2>6, <2>7 DEF TypeOK
<1>2. \A l \in Labels : row[l] = "none" /\ dup[l] = "none" /\ postage[l] = "unsold"
  BY DEF Init
<1>3. UnsoldInv /\ DirectInv /\ PostageAccounted /\ OneDirectLabelPerOpening /\ VoidShownIsVoid
  BY <1>2 DEF UnsoldInv, DirectInv, PostageAccounted, OneDirectLabelPerOpening, VoidShownIsVoid,
              SoldByShipStation
<1>4. RequestInv
  BY <1>0 DEF RequestInv
<1>5. VoidInv
  BY DEF Init, VoidInv, Resting
<1>6. SyncInv
  BY DEF Init, SyncInv, IdleSync
<1>7. QED
  BY <1>1, <1>3, <1>4, <1>5, <1>6 DEF OutboundInv

LEMMA InvStep ==
    ASSUME OutboundInv, [Next]_vars
    PROVE  OutboundInv'
BY TypeStep, UnsoldStep, RequestInvStep, VoidInvStep, SyncInvStep, DirectStep, PostageStep,
   OneDirectStep, VoidShownStep DEF OutboundInv

\* Every step of a label request, a void, the sync and the import keeps the
\* invariant, however many of them run at once and wherever they fail.
THEOREM OutboundInductive == Spec => []OutboundInv
<1>1. Init => OutboundInv
  BY InitInv
<1>2. OutboundInv /\ [Next]_vars => OutboundInv'
  BY InvStep
<1>3. QED
  BY <1>1, <1>2, PTL DEF Spec

-----------------------------------------------------------------------------
(* What it implies                                                          *)

\* The state of the rows, the requests and the sync stays within its types.
THEOREM TypeCorrect == Spec => []TypeOK
<1>1. OutboundInv => TypeOK
  BY DEF OutboundInv
<1>2. QED
  BY <1>1, OutboundInductive, PTL

\* However label requests, voids, imports and syncs overlap, live postage that
\* no row shows has a running request, a fault or a refused direct persist
\* behind it, and a row without a confirmation an unfinished request or a fault
\* (createLabelV2, persistDirectShipmentAndMarkShipped).
THEOREM PostageIsAccounted == Spec => []PostageAccounted
<1>1. OutboundInv => PostageAccounted
  BY DEF OutboundInv
<1>2. QED
  BY <1>1, OutboundInductive, PTL

\* Two direct purchases of one opening of an order never both reach the
\* shipments table (persistDirectShipmentAndMarkShipped's row lock).
THEOREM OneDirectPerOpening == Spec => []OneDirectLabelPerOpening
<1>1. OutboundInv => OneDirectLabelPerOpening
  BY DEF OutboundInv
<1>2. QED
  BY <1>1, OutboundInductive, PTL

\* No interleaving of voids, lost answers and stale pages of the sync shows a
\* ShipStation label as voided while its postage can still ship.
THEOREM ShownVoidIsVoid == Spec => []VoidShownIsVoid
<1>1. OutboundInv => VoidShownIsVoid
  BY DEF OutboundInv
<1>2. QED
  BY <1>1, OutboundInductive, PTL
=============================================================================
