------------------------ MODULE PortalInboundProofs ------------------------
(* PortalInv is inductive, for every number of calls, operators, shipments,  *)
(* lines, rows, quantities, edits and faults; the properties of PortalInbound*)
(* follow, and that it implements InboundDesk.                               *)
EXTENDS PortalInboundRefinement, TLAPS

SaveRec == [pc : SavePcs, kind : Kinds, key : Keys \cup {NoKey}, details : Details,
            answer : SUBSET Shipments]
ReceiverRec == [pc : ReceivePcs, shown : Previews \cup {Nobody},
                moves : SUBSET Movements, rows : SUBSET Rows]

\* A call keeps what it asked for.
Steadfast == \A t \in Saves : /\ save'[t].kind = save[t].kind
                              /\ save'[t].key = save[t].key
                              /\ save'[t].details = save[t].details

saveVars == <<status, receipts, savedBy, save>>

-----------------------------------------------------------------------------
(* What the helpers do                                                      *)

LEMMA AnswersEffect ==
    ASSUME TypeOK, NEW s \in Saves, NEW ships \in SUBSET Shipments, Answers(s, ships)
    PROVE  /\ save' \in [Saves -> SaveRec] /\ Steadfast
           /\ save'[s].pc = "ended" /\ save'[s].answer = ships
           /\ \A t \in Saves \ {s} : save'[t] = save[t]
<1>1. save \in [Saves -> SaveRec] /\ "ended" \in SavePcs
  BY DEF TypeOK, SaveRec, SavePcs
<1>2. save' = [save EXCEPT ![s].pc = "ended", ![s].answer = ships]
  BY DEF Answers
<1>3. QED
  BY <1>1, <1>2 DEF SaveRec, Steadfast

LEMMA AcceptEffect ==
    ASSUME TypeOK, NEW s \in Saves, Accept(s)
    PROVE  /\ save' \in [Saves -> SaveRec] /\ Steadfast
           /\ save[s].pc = "sent" /\ Locks(s) /\ Previous(s) = {}
           /\ save'[s].pc = "writing" /\ save'[s].answer = save[s].answer
           /\ \A t \in Saves \ {s} : save'[t] = save[t]
           /\ UNCHANGED <<saving, receiving, faults>>
<1>1. save \in [Saves -> SaveRec] /\ "writing" \in SavePcs
  BY DEF TypeOK, SaveRec, SavePcs
<1>2. save' = [save EXCEPT ![s].pc = "writing"]
  BY DEF Accept
<1>3. save' \in [Saves -> SaveRec] /\ Steadfast
      /\ save'[s].pc = "writing" /\ save'[s].answer = save[s].answer
      /\ \A t \in Saves \ {s} : save'[t] = save[t]
  BY <1>1, <1>2 DEF SaveRec, Steadfast
<1>4. QED
  BY <1>3 DEF Accept

\* The digest and the size of a request do not change.
LEMMA SameHashes ==
    ASSUME Steadfast, NEW t \in Saves
    PROVE  Hash(t)' = Hash(t) /\ PartsOf(t)' = PartsOf(t) /\ Keyed(t)' = Keyed(t)
BY DEF Steadfast, Hash, PartsOf, Size, Keyed

LEMMA HashType ==
    ASSUME TypeOK, NEW t \in Saves
    PROVE  Hash(t) \in Hashes
<1>1. save[t].kind \in Kinds /\ save[t].key \in Keys \cup {NoKey} /\ save[t].details \in Details
  BY DEF TypeOK
<1>2. QED
  BY <1>1 DEF Hash, Hashes

LEMMA SizeType ==
    ASSUME NEW t \in Saves
    PROVE  Size(t) \in Nat \ {0} /\ 0 \in PartsOf(t) /\ PartsOf(t) \subseteq Nat
BY BoundsAssumption DEF Size, PartsOf

LEMMA AuthorType ==
    ASSUME TypeOK, NEW i \in Shipments, Authored(i)
    PROVE  Author(i) \in Saves
BY DEF TypeOK, Authored, Author

LEMMA EndsEffect ==
    ASSUME TypeOK, NEW q \in Receivers, Ends(q)
    PROVE  /\ receiver' \in [Receivers -> ReceiverRec]
           /\ receiver'[q] = Resting
           /\ \A o \in Receivers \ {q} : receiver'[o] = receiver[o]
<1>1. receiver \in [Receivers -> ReceiverRec]
  BY DEF TypeOK, ReceiverRec
<1>2. Resting \in ReceiverRec
  BY DEF Resting, ReceiverRec, ReceivePcs
<1>3. receiver' = [receiver EXCEPT ![q] = Resting]
  BY DEF Ends
<1>4. QED
  BY <1>1, <1>2, <1>3

LEMMA PreviewType ==
    ASSUME TypeOK, NEW i \in Shipments, NEW add \in BOOLEAN, NEW qty \in [Lines -> Quantities]
    PROVE  PreviewOf(i, add, qty) \in Previews
<1>1. Matches \in [Lines -> SUBSET Rows] /\ status[i] \in Statuses
  BY DEF Matches, TypeOK
<1>2. QED
  BY <1>1, Zenon DEF PreviewOf, Previews

LEMMA PlannedType ==
    ASSUME NEW p \in Previews
    PROVE  /\ Planned(p) \in SUBSET Movements
           /\ \A m \in Planned(p) : m.shipment = p.shipment /\ m.line \in Lines
                                    /\ m.row \in p.targets[m.line]
<1>1. ASSUME NEW m \in Planned(p)
      PROVE  m \in Movements /\ m.shipment = p.shipment /\ m.line \in Lines
             /\ m.row \in p.targets[m.line]
  <2>1. PICK l \in Lines : \E r \in p.targets[l] : m = Movement(p, l, r)
    BY <1>1 DEF Planned, Stocked
  <2>2. PICK r \in p.targets[l] : m = Movement(p, l, r)
    BY <2>1
  <2>3. r \in Rows /\ p.shipment \in Shipments /\ p.qty[l] \in Nat
    BY <2>1, <2>2, BoundsAssumption DEF Previews
  <2>4. QED
    BY <2>1, <2>2, <2>3 DEF Movement, Movements
<1>2. QED
  BY <1>1

LEMMA ReplayType ==
    ASSUME TypeOK, NEW s \in Saves, Replay(s)
    PROVE  {x.shipment : x \in Replayed(s)} \in SUBSET Shipments
<1>1. \A x \in receipts : x.shipment \in Shipments \cup {NoShipment}
  BY DEF TypeOK, Receipts
<1>2. Replayed(s) \subseteq receipts
  BY DEF Replayed, Previous
<1>3. \A x \in Replayed(s) : x.shipment # NoShipment
  BY DEF Replay
<1>4. QED
  BY <1>1, <1>2, <1>3

\* How a call ends without having saved anything.
EndsWith(s, a) ==
    /\ save[s].pc \in {"sent", "writing"}
    /\ Answers(s, a)
    /\ UNCHANGED <<saving, receiving>>
    /\ faults' \in 0 .. MaxFaults

LEMMA EndingSteps ==
    ASSUME TypeOK, NEW s \in Saves, RefuseReuse(s) \/ RefuseImport(s) \/ SaveFails(s)
    PROVE  EndsWith(s, {})
<1>1. CASE RefuseReuse(s)
  BY <1>1 DEF RefuseReuse, EndsWith, TypeOK
<1>2. CASE RefuseImport(s)
  BY <1>2 DEF RefuseImport, EndsWith, TypeOK
<1>3. CASE SaveFails(s)
  <2>1. faults' \in 0 .. MaxFaults
    BY <1>3, BoundsAssumption DEF SaveFails, Fault, TypeOK
  <2>2. QED
    BY <1>3, <2>1 DEF SaveFails, EndsWith
<1>4. QED
  BY <1>1, <1>2, <1>3

LEMMA ReplayEnds ==
    ASSUME TypeOK, NEW s \in Saves, Replay(s)
    PROVE  EndsWith(s, {x.shipment : x \in Replayed(s)})
BY DEF Replay, EndsWith, TypeOK

\* What a commit does: the shipments made were not there, and the call is
\* answered with them or with nothing.
Made(s, ships) == {ships[n] : n \in PartsOf(s)}

Committed(s, ships, a) ==
    /\ save[s].pc = "writing"
    /\ status' \in [Shipments -> Statuses]
    /\ \A i \in Made(s, ships) : status'[i] \in {"open", "received"}
    /\ \A i \in Shipments \ Made(s, ships) : status'[i] = status[i]
    /\ receipts' = receipts \cup ReceiptsFor(s, ships)
    /\ savedBy' = [i \in Shipments |-> IF i \in Made(s, ships) THEN s ELSE savedBy[i]]
    /\ \A m, n \in PartsOf(s) : ships[m] = ships[n] => m = n
    /\ a \in {{}, Made(s, ships)}
    /\ Answers(s, a)
    /\ faults' \in 0 .. MaxFaults
    /\ UNCHANGED <<receivedQty, receiving>>

LEMMA CommitEffect ==
    ASSUME TypeOK, NEW s \in Saves, Commit(s)
    PROVE  \E ships \in [PartsOf(s) -> Unsaved], a \in SUBSET Shipments : Committed(s, ships, a)
<1>1. PICK ships \in [PartsOf(s) -> Unsaved] :
        LET made == {ships[n] : n \in PartsOf(s)} IN
        /\ Serial(ships, made)
        /\ \E st \in [made -> {"open", "received"}] :
              status' = [i \in Shipments |-> IF i \in made THEN st[i] ELSE status[i]]
        /\ receipts' = receipts \cup ReceiptsFor(s, ships)
        /\ savedBy' = [i \in Shipments |-> IF i \in made THEN s ELSE savedBy[i]]
        /\ \/ Answers(s, made) /\ UNCHANGED faults
           \/ Fault /\ Answers(s, {})
  BY Zenon DEF Commit
<1>2. Made(s, ships) \in SUBSET Shipments
  BY <1>1 DEF Made, Unsaved
<1>3. faults' \in 0 .. MaxFaults
  BY <1>1, BoundsAssumption DEF Fault, TypeOK
<1>4. save[s].pc = "writing" /\ UNCHANGED <<receivedQty, receiving>>
  BY Zenon DEF Commit
<1>5. \E a \in {{}, Made(s, ships)} : Answers(s, a)
  BY <1>1, Zenon DEF Made
<1>6. PICK a \in {{}, Made(s, ships)} : Answers(s, a)
  BY <1>5
<1>7. PICK st \in [Made(s, ships) -> {"open", "received"}] :
        status' = [i \in Shipments |-> IF i \in Made(s, ships) THEN st[i] ELSE status[i]]
  BY <1>1, Zenon DEF Made
<1>8. /\ status' \in [Shipments -> Statuses]
      /\ \A i \in Made(s, ships) : status'[i] \in {"open", "received"}
      /\ \A i \in Shipments \ Made(s, ships) : status'[i] = status[i]
  BY <1>2, <1>7 DEF TypeOK, Statuses
<1>9. \A m, n \in PartsOf(s) : ships[m] = ships[n] => m = n
  <2>1. \A m, n \in PartsOf(s) : m < n => ships[m] < ships[n]
    BY <1>1 DEF Serial
  <2>2. \A n \in PartsOf(s) : n \in Nat /\ ships[n] \in Nat
    BY <1>1, SizeType, BoundsAssumption DEF Unsaved
  <2>3. QED
    BY <2>1, <2>2
<1>10. Committed(s, ships, a)
  BY <1>1, <1>3, <1>4, <1>6, <1>8, <1>9, Zenon DEF Committed, Made
<1>11. QED
  BY <1>1, <1>2, <1>6, <1>10

LEMMA ReceiptsForType ==
    ASSUME TypeOK, NEW s \in Saves, NEW ships \in [PartsOf(s) -> Unsaved]
    PROVE  /\ ReceiptsFor(s, ships) \subseteq Receipts
           /\ \A x \in ReceiptsFor(s, ships) :
                  /\ x.key = save[s].key /\ x.hash = Hash(s) /\ Keyed(s)
                  /\ \E n \in PartsOf(s) : x.part = n /\ x.shipment = ships[n]
           /\ Keyed(s) => \A n \in PartsOf(s) : \E x \in ReceiptsFor(s, ships) :
                  /\ x.key = save[s].key /\ x.hash = Hash(s)
                  /\ x.part = n /\ x.shipment = ships[n]
<1>1. save[s].key \in Keys \cup {NoKey}
  BY DEF TypeOK
<1>2. Hash(s) \in Hashes /\ PartsOf(s) \subseteq Nat /\ Unsaved \subseteq Shipments
  BY HashType, SizeType DEF Unsaved
<1> DEFINE rec(n) == [key |-> save[s].key, part |-> n, hash |-> Hash(s), shipment |-> ships[n]]
<1>3. ReceiptsFor(s, ships) = IF Keyed(s) THEN {rec(n) : n \in PartsOf(s)} ELSE {}
  BY Zenon DEF ReceiptsFor, ChildPart, Keyed
<1>4. ASSUME NEW n \in PartsOf(s), Keyed(s)
      PROVE  /\ rec(n) \in Receipts /\ rec(n).key = save[s].key /\ rec(n).hash = Hash(s)
             /\ rec(n).part = n /\ rec(n).shipment = ships[n]
  <2>1. save[s].key \in Keys /\ n \in Nat /\ ships[n] \in Shipments
    BY <1>1, <1>2, <1>4 DEF Keyed
  <2>2. QED
    BY <1>2, <2>1 DEF Receipts
<1> HIDE DEF rec
<1>5. QED
  BY <1>3, <1>4

\* The receiver's steps that write nothing to the tables.
Matching(q) ==
    /\ receiver'[q].pc = "writing" /\ receiver[q].pc = "shown"
    /\ receiver'[q].shown = receiver[q].shown
    /\ \A o \in Receivers : ~OnShipment(o, receiver[q].shown.shipment)
    /\ \E add \in BOOLEAN, qty \in [Lines -> Quantities] :
          LET now == PreviewOf(receiver[q].shown.shipment, add, qty) IN
          /\ receiver[q].shown = now
          /\ status[now.shipment] = "open"
          /\ receiver'[q].moves = Planned(now)
          /\ receiver'[q].rows = UNION {Matches[l] : l \in Lines}

ReceiverOnly(q) ==
    /\ UNCHANGED <<saving, ledger, sku, save, confirmed, edits>>
    /\ faults' \in 0 .. MaxFaults
    /\ receiver' \in [Receivers -> ReceiverRec]
    /\ \A o \in Receivers \ {q} : receiver'[o] = receiver[o]
    /\ \/ receiver'[q] = Resting
       \/ /\ receiver'[q].pc = "shown" /\ receiver'[q].shown \in Previews
          /\ CanConfirm(receiver'[q].shown)
       \/ Matching(q)

LEMMA ReceiverSteps ==
    ASSUME TypeOK, ReceiverInv, NEW q \in Receivers,
           Confirm(q) \/ ReceiveFails(q) \/ \E i \in Shipments : Preview(q, i)
    PROVE  ReceiverOnly(q)
<1>0. receiver \in [Receivers -> ReceiverRec] /\ faults \in 0 .. MaxFaults
  BY DEF TypeOK, ReceiverRec
<1>1. CASE ReceiveFails(q)
  <2>1. Ends(q) /\ Fault /\ UNCHANGED <<saving, ledger, sku, save, confirmed, edits>>
    BY <1>1 DEF ReceiveFails
  <2>2. faults' \in 0 .. MaxFaults
    BY <1>0, <2>1, BoundsAssumption DEF Fault
  <2>3. QED
    BY <2>1, <2>2, EndsEffect DEF ReceiverOnly
<1>2. ASSUME NEW i \in Shipments, Preview(q, i)
      PROVE  /\ UNCHANGED <<saving, ledger, sku, save, confirmed, edits, faults>>
             /\ receiver' \in [Receivers -> ReceiverRec]
             /\ \A o \in Receivers \ {q} : receiver'[o] = receiver[o]
             /\ receiver'[q].pc = "shown" /\ receiver'[q].shown \in Previews
             /\ CanConfirm(receiver'[q].shown)
  <2>1. PICK add \in BOOLEAN, qty \in [Lines -> Quantities] :
          /\ CanConfirm(PreviewOf(i, add, qty))
          /\ receiver' = [receiver EXCEPT ![q] = [Resting EXCEPT !.pc = "shown",
                                                    !.shown = PreviewOf(i, add, qty)]]
    BY <1>2, Zenon DEF Preview
  <2>2. PreviewOf(i, add, qty) \in Previews
    BY PreviewType
  <2> DEFINE rec == [Resting EXCEPT !.pc = "shown", !.shown = PreviewOf(i, add, qty)]
  <2>3. rec \in ReceiverRec /\ rec.pc = "shown" /\ rec.shown = PreviewOf(i, add, qty)
    BY <2>2 DEF Resting, ReceiverRec, ReceivePcs
  <2>4. receiver' = [receiver EXCEPT ![q] = rec]
    BY <2>1
  <2>5. CanConfirm(rec.shown)
    BY <2>1, <2>3
  <2> HIDE DEF rec
  <2>6. QED
    BY <1>0, <1>2, <2>2, <2>3, <2>4, <2>5 DEF Preview
<1>3. CASE Confirm(q)
  <2> DEFINE i == receiver[q].shown.shipment
  <2>0. receiver[q].pc = "shown" /\ (\A o \in Receivers : ~OnShipment(o, i))
        /\ UNCHANGED <<saving, ledger, sku, save, confirmed, edits, faults>>
    BY <1>3 DEF Confirm
  <2>1. PICK add \in BOOLEAN, qty \in [Lines -> Quantities] :
          LET now == PreviewOf(i, add, qty) IN
          IF Receivable(i) /\ CanConfirm(now) /\ SameFingerprint(receiver[q].shown, now)
          THEN receiver' = [receiver EXCEPT ![q].pc = "writing", ![q].moves = Planned(now),
                                            ![q].rows = UNION {Matches[l] : l \in Lines}]
          ELSE Ends(q)
    BY <1>3, Zenon DEF Confirm
  <2> DEFINE now == PreviewOf(i, add, qty)
  <2>2. CASE Receivable(i) /\ CanConfirm(now) /\ SameFingerprint(receiver[q].shown, now)
    <3>1. receiver[q].shown = now
      BY <2>2 DEF SameFingerprint
    <3>2. now.shipment = i
      BY DEF PreviewOf
    <3>3. receiver[q].shown \in Previews
      BY <2>0 DEF ReceiverInv
    <3>4. i \in Shipments
      BY <3>3 DEF Previews
    <3>5. now \in Previews
      BY <3>4, PreviewType
    <3>6. Planned(now) \in SUBSET Movements
      BY <3>5, PlannedType
    <3>7. UNION {Matches[l] : l \in Lines} \in SUBSET Rows
      BY DEF Matches
    <3>8. receiver' = [receiver EXCEPT ![q].pc = "writing", ![q].moves = Planned(now),
                                       ![q].rows = UNION {Matches[l] : l \in Lines}]
      BY <2>1, <2>2
    <3> DEFINE mv == Planned(now)
               rw == UNION {Matches[l] : l \in Lines}
    <3>9. receiver' = [receiver EXCEPT ![q].pc = "writing", ![q].moves = mv, ![q].rows = rw]
      BY <3>8
    <3>10. mv \in SUBSET Movements /\ rw \in SUBSET Rows /\ "writing" \in ReceivePcs
      BY <3>6, <3>7 DEF ReceivePcs
    <3> HIDE DEF mv, rw
    <3>11. /\ receiver' \in [Receivers -> ReceiverRec]
           /\ receiver'[q].pc = "writing" /\ receiver'[q].shown = receiver[q].shown
           /\ receiver'[q].moves = mv /\ receiver'[q].rows = rw
           /\ \A o \in Receivers \ {q} : receiver'[o] = receiver[o]
      BY <1>0, <3>9, <3>10 DEF ReceiverRec
    <3>12. status[i] = "open"
      BY <2>2 DEF Receivable
    <3> QED
      BY <1>0, <2>0, <3>1, <3>2, <3>11, <3>12 DEF mv, rw, ReceiverOnly, Matching
  <2>3. CASE ~(Receivable(i) /\ CanConfirm(now) /\ SameFingerprint(receiver[q].shown, now))
    <3>1. Ends(q)
      BY <2>1, <2>3
    <3> QED
      BY <1>0, <2>0, <3>1, EndsEffect DEF ReceiverOnly
  <2>4. QED
    BY <2>2, <2>3
<1>4. QED
  BY <1>0, <1>1, <1>2, <1>3 DEF ReceiverOnly

-----------------------------------------------------------------------------
(* The steps                                                                *)

\* A call ends: refused, failed, or answered by the receipts it has found.
Ending(s, a) ==
    /\ EndsWith(s, a)
    /\ a # {} => Replay(s) /\ a = {x.shipment : x \in Replayed(s)}

LEMMA Steps ==
    ASSUME TypeOK, ReceiverInv, [Next]_vars
    PROVE  \/ \E s \in Saves, a \in SUBSET Shipments : Ending(s, a)
           \/ \E s \in Saves : Accept(s)
           \/ \E s \in Saves : \E ships \in [PartsOf(s) -> Unsaved],
                 a \in SUBSET Shipments : Committed(s, ships, a)
           \/ \E q \in Receivers : ReceiverOnly(q)
           \/ \E q \in Receivers : ReceiveCommit(q)
           \/ \E r \in Rows, to \in Lines \cup {NoSku} : EditRow(r, to)
           \/ \E i \in Shipments : Delete(i)
           \/ UNCHANGED vars
<1>1. CASE UNCHANGED vars
  BY <1>1
<1>2. ASSUME NEW s \in Saves, SaveStep(s) \/ SaveFails(s)
      PROVE  \/ \E a \in SUBSET Shipments : Ending(s, a)
             \/ Accept(s)
             \/ \E ships \in [PartsOf(s) -> Unsaved],
                   a \in SUBSET Shipments : Committed(s, ships, a)
  <2>1. CASE Replay(s)
    BY <2>1, ReplayEnds, ReplayType DEF Ending
  <2>2. CASE RefuseReuse(s) \/ RefuseImport(s) \/ SaveFails(s)
    <3>1. Ending(s, {})
      BY <2>2, EndingSteps DEF Ending
    <3>2. QED
      BY <3>1
  <2>3. CASE Accept(s)
    BY <2>3
  <2>4. CASE Commit(s)
    BY <2>4, CommitEffect
  <2>5. QED
    BY <1>2, <2>1, <2>2, <2>3, <2>4 DEF SaveStep
<1>3. ASSUME NEW q \in Receivers, ReceiveStep(q) \/ ReceiveFails(q)
      PROVE  ReceiverOnly(q) \/ ReceiveCommit(q)
  BY <1>3, ReceiverSteps DEF ReceiveStep
<1>4. ASSUME NEW q \in Receivers, NEW i \in Shipments, Preview(q, i)
      PROVE  ReceiverOnly(q)
  BY <1>4, ReceiverSteps
<1>5. CASE Next
  BY <1>2, <1>3, <1>4, <1>5, Zenon DEF Next
<1>6. QED
  BY <1>1, <1>5

\* A receipt and what a deletion leaves of it.
Remains(x, y) ==
    /\ y.key = x.key /\ y.part = x.part /\ y.hash = x.hash
    /\ y.shipment \in {x.shipment, NoShipment}

LEMMA DeleteReceipts ==
    ASSUME TypeOK, NEW i \in Shipments, Delete(i)
    PROVE  /\ receipts' \subseteq Receipts
           /\ \A y \in receipts' : \E x \in receipts : Remains(x, y)
           /\ \A x \in receipts : \E y \in receipts' : Remains(x, y)
<1> DEFINE left(x) == IF x.shipment = i THEN [x EXCEPT !.shipment = NoShipment] ELSE x
<1>1. receipts' = {left(x) : x \in receipts}
  BY DEF Delete
<1>2. ASSUME NEW x \in receipts
      PROVE  left(x) \in Receipts /\ Remains(x, left(x))
  <2>1. x \in Receipts
    BY DEF TypeOK
  <2>2. CASE x.shipment = i
    BY <2>1, <2>2 DEF Receipts, Remains
  <2>3. CASE x.shipment # i
    BY <2>1, <2>3 DEF Remains
  <2>4. QED
    BY <2>2, <2>3
<1> HIDE DEF left
<1>3. QED
  BY <1>1, <1>2

LEMMA TypeStep ==
    ASSUME TypeOK, ReceiverInv, [Next]_vars
    PROVE  TypeOK'
<1>1. ASSUME NEW s \in Saves, NEW a \in SUBSET Shipments, Ending(s, a)
      PROVE  TypeOK'
  <2>1. save' \in [Saves -> SaveRec]
    BY <1>1, AnswersEffect DEF Ending, EndsWith
  <2>2. QED
    BY <1>1, <2>1 DEF TypeOK, Ending, EndsWith, saving, receiving, SaveRec
<1>2. ASSUME NEW s \in Saves, Accept(s)
      PROVE  TypeOK'
  BY <1>2, AcceptEffect DEF TypeOK, saving, receiving, SaveRec
<1>3. ASSUME NEW s \in Saves, NEW ships \in [PartsOf(s) -> Unsaved],
             NEW a \in SUBSET Shipments, Committed(s, ships, a)
      PROVE  TypeOK'
  <2>1. save' \in [Saves -> SaveRec]
    BY <1>3, AnswersEffect DEF Committed
  <2>2. receipts' \subseteq Receipts
    BY <1>3, ReceiptsForType DEF Committed, TypeOK
  <2>3. status' \in [Shipments -> Statuses]
    BY <1>3 DEF Committed, TypeOK, Statuses
  <2>4. savedBy' \in [Shipments -> Saves \cup {Nobody}]
    BY <1>3 DEF Committed, TypeOK
  <2>5. faults' \in 0 .. MaxFaults /\ UNCHANGED <<receivedQty, receiving>>
    BY <1>3 DEF Committed
  <2>6. QED
    BY <2>1, <2>2, <2>3, <2>4, <2>5 DEF TypeOK, receiving, SaveRec
<1>4. ASSUME NEW q \in Receivers, ReceiverOnly(q)
      PROVE  TypeOK'
  BY <1>4 DEF ReceiverOnly, TypeOK, saving, ReceiverRec
<1>5. ASSUME NEW q \in Receivers, ReceiveCommit(q)
      PROVE  TypeOK'
  <2> DEFINE p == receiver[q].shown
  <2>1. Ends(q) /\ UNCHANGED <<receipts, savedBy, sku, save, edits, faults>>
        /\ receiver[q].pc = "writing"
    BY <1>5 DEF ReceiveCommit
  <2>2. receiver' \in [Receivers -> ReceiverRec]
    BY <2>1, EndsEffect
  <2>3. p \in Previews
    BY <2>1 DEF ReceiverInv
  <2>4. p.shipment \in Shipments /\ p.qty \in [Lines -> Nat]
    BY <2>3, BoundsAssumption DEF Previews
  <2>5. receiver[q].moves \in SUBSET Movements
    BY DEF TypeOK
  <2>6. CASE UNCHANGED <<status, receivedQty, ledger, confirmed>>
    BY <2>1, <2>2, <2>6 DEF TypeOK, ReceiverRec
  <2>7. CASE /\ status' = [status EXCEPT ![p.shipment] = "received"]
             /\ receivedQty' = [receivedQty EXCEPT ![p.shipment] = p.qty]
             /\ ledger' = ledger \cup receiver[q].moves
             /\ confirmed' = [confirmed EXCEPT ![p.shipment] = p]
    <3>1. status' \in [Shipments -> Statuses]
      BY <2>7 DEF TypeOK, Statuses
    <3>2. receivedQty' \in [Shipments -> [Lines -> Nat]]
      BY <2>4, <2>7 DEF TypeOK
    <3>3. ledger' \subseteq Movements
      BY <2>5, <2>7 DEF TypeOK
    <3>4. confirmed' \in [Shipments -> Previews \cup {Nobody}]
      BY <2>3, <2>7 DEF TypeOK
    <3>5. QED
      BY <2>1, <2>2, <3>1, <3>2, <3>3, <3>4 DEF TypeOK, ReceiverRec
  <2>8. QED
    BY <1>5, <2>6, <2>7 DEF ReceiveCommit
<1>6. ASSUME NEW r \in Rows, NEW to \in Lines \cup {NoSku}, EditRow(r, to)
      PROVE  TypeOK'
  <2>1. edits' \in 0 .. MaxEdits
    BY <1>6, BoundsAssumption DEF EditRow, Edit, TypeOK
  <2>2. sku' \in [Rows -> Lines \cup {NoSku}]
    BY <1>6 DEF EditRow, TypeOK
  <2>3. QED
    BY <1>6, <2>1, <2>2 DEF EditRow, TypeOK, saving
<1>7. ASSUME NEW i \in Shipments, Delete(i)
      PROVE  TypeOK'
  <2>1. edits' \in 0 .. MaxEdits
    BY <1>7, BoundsAssumption DEF Delete, Edit, TypeOK
  <2>2. receipts' \subseteq Receipts
    BY <1>7, DeleteReceipts
  <2>3. status' \in [Shipments -> Statuses]
    BY <1>7 DEF Delete, TypeOK, Statuses
  <2>4. QED
    BY <1>7, <2>1, <2>2, <2>3 DEF Delete, TypeOK
<1>8. CASE UNCHANGED vars
  BY <1>8 DEF vars, TypeOK
<1>9. QED
  BY <1>1, <1>2, <1>3, <1>4, <1>5, <1>6, <1>7, <1>8, Steps

-----------------------------------------------------------------------------
(* Saving                                                                   *)

\* Steps that leave the calls, the receipts, the authors alone, and give no
\* shipment nobody saved a status.
LEMMA SavingUntouched ==
    ASSUME LockInv, ReceiptInv, SavedInv, OneSavePerKey, AnswersAreWhole,
           UNCHANGED <<receipts, savedBy, save>>,
           \A i \in Shipments : status'[i] = status[i] \/ Authored(i)
    PROVE  LockInv' /\ ReceiptInv' /\ SavedInv' /\ OneSavePerKey' /\ AnswersAreWhole'
<1>1. LockInv'
  BY DEF LockInv, Keyed
<1>2. ReceiptInv'
  BY DEF ReceiptInv, ReceiptOf, Authored, Author, Hash, PartsOf, Size
<1>3. SavedInv'
  BY DEF SavedInv, ReceiptOf, Authored, Author, Hash, PartsOf, Size, Keyed
<1>4. OneSavePerKey' /\ AnswersAreWhole'
  BY DEF OneSavePerKey, AnswersAreWhole, SameRequest
<1>5. QED
  BY <1>1, <1>2, <1>3, <1>4

\* A shipment's receipt is recognised by what never changes of its call.
LEMMA ReceiptOfStays ==
    ASSUME Steadfast, TypeOK, NEW i \in Shipments, NEW x, Authored(i), savedBy'[i] = savedBy[i]
    PROVE  ReceiptOf(x, i)' = ReceiptOf(x, i) /\ Author(i)' = Author(i) /\ Author(i) \in Saves
           /\ Authored(i)' /\ Keyed(Author(i))' = Keyed(Author(i))
           /\ (save[Author(i)].key)' = save[Author(i)].key
<1>1. Author(i) \in Saves /\ Author(i)' = Author(i) /\ Authored(i)'
  BY AuthorType DEF Author, Authored
<1>2. PICK t \in Saves : t = Author(i)
  BY <1>1
<1>3. Hash(t)' = Hash(t) /\ PartsOf(t)' = PartsOf(t) /\ Keyed(t)' = Keyed(t)
      /\ save'[t].key = save[t].key
  BY SameHashes DEF Steadfast
<1>4. QED
  BY <1>1, <1>2, <1>3 DEF ReceiptOf

\* A receipt's key is a key, and its request and its shipment are there.
LEMMA KeysHaveFirst ==
    ASSUME TypeOK, ReceiptInv, SavedInv, NEW x \in receipts
    PROVE  /\ x.key # NoKey
           /\ \E y \in receipts : y.key = x.key /\ y.part = 0
<1>1. x.key # NoKey
  BY NamesAssumption DEF TypeOK, Receipts
<1>2. PICK i \in Shipments : Authored(i) /\ ReceiptOf(x, i)
  BY DEF ReceiptInv
<1>3. save[Author(i)].key = x.key /\ Keyed(Author(i))
  BY <1>1, <1>2 DEF ReceiptOf, Keyed
<1>4. QED
  BY <1>1, <1>2, <1>3 DEF SavedInv

\* When only s moves, and s has saved nothing, the receipts and the shipments
\* keep what is said of them.
LEMMA OthersStay ==
    ASSUME TypeOK, ReceiptInv, SavedInv, OneSavePerKey, Steadfast, NEW s \in Saves,
           UNCHANGED <<status, receipts, savedBy>>,
           save[s].pc \in {"sent", "writing"}, \A t \in Saves \ {s} : save'[t] = save[t]
    PROVE  ReceiptInv' /\ SavedInv' /\ OneSavePerKey'
<1>1. \A i \in Shipments : Authored(i) => Author(i) # s
  BY DEF SavedInv
<1>2. \A i \in Shipments : Authored(i) =>
        \A x : ReceiptOf(x, i)' = ReceiptOf(x, i) /\ Author(i)' = Author(i) /\ Author(i) \in Saves
               /\ Authored(i)' /\ Keyed(Author(i))' = Keyed(Author(i))
               /\ (save[Author(i)].key)' = save[Author(i)].key
  BY ReceiptOfStays
<1>3. \A i \in Shipments : Authored(i)' = Authored(i)
  BY DEF Authored
<1>4. ReceiptInv'
  BY <1>2, <1>3 DEF ReceiptInv
<1>5. SavedInv'
  <2>1. SUFFICES ASSUME NEW i \in Shipments, Authored(i)
                 PROVE  /\ (save[Author(i)].pc = "ended")'
                        /\ Keyed(Author(i))' =>
                              /\ \E x \in receipts' : ReceiptOf(x, i)'
                              /\ \E x \in receipts' : x.key = (save[Author(i)].key)' /\ x.part = 0
    BY <1>3 DEF SavedInv
  <2>2. Author(i) \in Saves \ {s} /\ Author(i)' = Author(i)
    BY <1>1, <1>2, <2>1
  <2>3. (save[Author(i)].pc = "ended")'
    BY <2>1, <2>2 DEF SavedInv
  <2>4. QED
    BY <1>2, <2>1, <2>3 DEF SavedInv
<1>6. OneSavePerKey'
  BY DEF OneSavePerKey, Steadfast, TypeOK
<1>7. QED
  BY <1>4, <1>5, <1>6

\* What a replay answers with is all that one call of the same request saved.
LEMMA ReplayIsWhole ==
    ASSUME TypeOK, ReceiptInv, SavedInv, OneSavePerKey, NEW s \in Saves, Replay(s)
    PROVE  \E t \in Saves : SameRequest(s, t)
               /\ {x.shipment : x \in Replayed(s)} = {i \in Shipments : savedBy[i] = t}
<1>1. Previous(s) # {} /\ (\A x \in Previous(s) : x.hash = Hash(s))
      /\ \A x \in Replayed(s) : x.shipment # NoShipment
  BY DEF Replay, SameHash
<1>2. PICK x0 \in receipts : x0.key = save[s].key /\ x0.hash = Hash(s)
  BY <1>1 DEF Previous
<1>3. PICK i0 \in Shipments : Authored(i0) /\ ReceiptOf(x0, i0)
  BY DEF ReceiptInv
<1> DEFINE t == Author(i0)
<1>4. t \in Saves /\ Keyed(s) /\ save[t].key = save[s].key /\ Hash(t) = Hash(s)
  BY <1>2, <1>3, AuthorType, KeysHaveFirst DEF ReceiptOf, Keyed
<1>5. save[t].kind = save[s].kind /\ save[t].details = save[s].details
  BY <1>4 DEF Hash
<1>6. SameRequest(s, t)
  BY <1>4, <1>5 DEF SameRequest
<1>7. save[s].kind \in Kinds
  BY DEF TypeOK
<1>8. ASSUME NEW x \in Replayed(s)
      PROVE  x.shipment \in Shipments /\ savedBy[x.shipment] = t
  <2>1. x \in receipts
    BY DEF Replayed, Previous
  <2>2. PICK i \in Shipments : Authored(i) /\ ReceiptOf(x, i)
    BY <2>1 DEF ReceiptInv
  <2>3. x.shipment = i
    BY <1>1, <2>2 DEF ReceiptOf
  <2>4. Author(i) \in Saves
    BY <2>2, AuthorType
  <2>5. save[Author(i)].key = save[s].key
    <3>1. CASE save[s].kind = "create"
      BY <2>2, <3>1 DEF Replayed, Previous, ReceiptOf
    <3>2. CASE save[s].kind # "create"
      <4>1. x.hash = Hash(s) /\ save[s].kind = "import"
        BY <1>7, <3>2 DEF Replayed, SameHash, Kinds
      <4>2. Hash(Author(i)) = Hash(s)
        BY <2>2, <4>1 DEF ReceiptOf
      <4>3. QED
        BY <4>1, <4>2 DEF Hash
    <3>3. QED
      BY <3>1, <3>2
  <2>6. Author(i) = Author(i0)
    BY <1>3, <1>4, <2>2, <2>5 DEF OneSavePerKey, Authored, Author, Keyed
  <2>7. QED
    BY <2>3, <2>6 DEF Author
<1>9. ASSUME NEW i \in Shipments, savedBy[i] = t
      PROVE  \E x \in Replayed(s) : x.shipment = i
  <2>1. Authored(i) /\ Author(i) = t
    BY <1>3, <1>9 DEF Authored, Author
  <2>2. PICK x \in receipts : ReceiptOf(x, i)
    BY <1>4, <2>1 DEF SavedInv, Keyed
  <2>3. x.key = save[s].key /\ x.hash = Hash(s) /\ x.part \in PartsOf(t)
    BY <1>4, <2>1, <2>2 DEF ReceiptOf
  <2>4. x \in Replayed(s)
    <3>1. CASE save[s].kind = "create"
      <4>1. PartsOf(t) = {0}
        BY <1>5, <3>1 DEF PartsOf, Size
      <4>2. QED
        BY <2>3, <3>1, <4>1 DEF Replayed, Previous
    <3>2. CASE save[s].kind # "create"
      BY <2>3, <3>2 DEF Replayed, SameHash
    <3>3. QED
      BY <3>1, <3>2
  <2>5. QED
    BY <1>1, <2>2, <2>4 DEF ReceiptOf
<1>10. {x.shipment : x \in Replayed(s)} = {i \in Shipments : savedBy[i] = t}
  BY <1>8, <1>9
<1>11. QED
  BY <1>4, <1>6, <1>10

LEMMA AcceptSaving ==
    ASSUME TypeOK, LockInv, ReceiptInv, SavedInv, OneSavePerKey, AnswersAreWhole,
           NEW s \in Saves, Accept(s)
    PROVE  LockInv' /\ ReceiptInv' /\ SavedInv' /\ OneSavePerKey' /\ AnswersAreWhole'
<1>1. /\ Steadfast /\ save[s].pc = "sent" /\ Locks(s) /\ Previous(s) = {}
      /\ save'[s].pc = "writing" /\ save'[s].answer = save[s].answer
      /\ \A t \in Saves \ {s} : save'[t] = save[t]
      /\ UNCHANGED <<status, receipts, savedBy>>
  BY AcceptEffect DEF saving
<1>2. LockInv'
  <2>1. ASSUME NEW x \in receipts, x.key = save[s].key
        PROVE  FALSE
    BY <1>1, <2>1, KeysHaveFirst DEF Previous
  <2>2. ASSUME NEW t \in Saves, save[t].pc = "writing", save[t].key = save[s].key, Keyed(s)
        PROVE  FALSE
    BY <1>1, <2>2 DEF Locks, Holds, Keyed
  <2>3. QED
    BY <1>1, <2>1, <2>2 DEF LockInv, Keyed, Steadfast
<1>3. ReceiptInv' /\ SavedInv' /\ OneSavePerKey'
  BY <1>1, OthersStay
<1>4. AnswersAreWhole'
  <2>1. \A t \in Saves : save'[t].answer = save[t].answer
    BY <1>1
  <2>2. \A t, u \in Saves : SameRequest(t, u)' = SameRequest(t, u)
    BY <1>1 DEF Steadfast, SameRequest
  <2>3. QED
    BY <1>1, <2>1, <2>2 DEF AnswersAreWhole
<1>5. QED
  BY <1>2, <1>3, <1>4

LEMMA EndingSaving ==
    ASSUME TypeOK, LockInv, ReceiptInv, SavedInv, OneSavePerKey, AnswersAreWhole,
           NEW s \in Saves, NEW a \in SUBSET Shipments, Ending(s, a)
    PROVE  LockInv' /\ ReceiptInv' /\ SavedInv' /\ OneSavePerKey' /\ AnswersAreWhole'
<1>1. /\ Steadfast /\ save[s].pc \in {"sent", "writing"}
      /\ save'[s].pc = "ended" /\ save'[s].answer = a
      /\ \A t \in Saves \ {s} : save'[t] = save[t]
      /\ UNCHANGED <<status, receipts, savedBy>>
  BY AnswersEffect DEF Ending, EndsWith, saving
<1>2. LockInv'
  BY <1>1 DEF LockInv, Keyed, Steadfast
<1>3. ReceiptInv' /\ SavedInv' /\ OneSavePerKey'
  BY <1>1, OthersStay
<1>4. AnswersAreWhole'
  <2>1. \A t, u \in Saves : SameRequest(t, u)' = SameRequest(t, u)
    BY <1>1 DEF Steadfast, SameRequest
  <2>2. SUFFICES ASSUME NEW u \in Saves, save'[u].answer # {}
                 PROVE  \E t \in Saves : SameRequest(u, t)
                           /\ save'[u].answer = {i \in Shipments : savedBy[i] = t}
    BY <1>1, <2>1 DEF AnswersAreWhole
  <2>3. CASE u = s
    <3>1. Replay(s) /\ a = {x.shipment : x \in Replayed(s)}
      BY <1>1, <2>2, <2>3 DEF Ending
    <3>2. QED
      BY <1>1, <2>3, <3>1, ReplayIsWhole
  <2>4. CASE u # s
    BY <1>1, <2>2, <2>4 DEF AnswersAreWhole
  <2>5. QED
    BY <2>3, <2>4
<1>5. QED
  BY <1>2, <1>3, <1>4

LEMMA DeleteSaving ==
    ASSUME TypeOK, LockInv, ReceiptInv, SavedInv, OneSavePerKey, AnswersAreWhole,
           NEW d \in Shipments, Delete(d)
    PROVE  LockInv' /\ ReceiptInv' /\ SavedInv' /\ OneSavePerKey' /\ AnswersAreWhole'
<1>1. /\ UNCHANGED <<savedBy, save>> /\ status[d] # "absent"
      /\ \A i \in Shipments \ {d} : status'[i] = status[i]
  BY DEF Delete, TypeOK
<1>2. /\ \A y \in receipts' : \E x \in receipts : Remains(x, y)
      /\ \A x \in receipts : \E y \in receipts' : Remains(x, y)
  BY DeleteReceipts
<1>3. ASSUME NEW i \in Shipments, NEW x, NEW y, Remains(x, y), ReceiptOf(x, i)
      PROVE  ReceiptOf(y, i)'
  BY <1>1, <1>3 DEF Remains, ReceiptOf, Author, Hash, PartsOf, Size
<1>4. \A i \in Shipments : Authored(i)' = Authored(i) /\ Author(i)' = Author(i)
                           /\ Keyed(Author(i))' = Keyed(Author(i))
                           /\ (save[Author(i)].key)' = save[Author(i)].key
                           /\ (save[Author(i)].pc)' = save[Author(i)].pc
  BY <1>1 DEF Authored, Author, Keyed
<1>5. LockInv'
  BY <1>1, <1>2 DEF LockInv, Keyed, Remains
<1>6. ReceiptInv'
  <2>1. SUFFICES ASSUME NEW y \in receipts'
                 PROVE  \E i \in Shipments : Authored(i)' /\ ReceiptOf(y, i)'
    BY DEF ReceiptInv
  <2>2. PICK x \in receipts : Remains(x, y)
    BY <1>2
  <2>3. PICK i \in Shipments : Authored(i) /\ ReceiptOf(x, i)
    BY DEF ReceiptInv
  <2>4. QED
    BY <1>3, <1>4, <2>2, <2>3
<1>7. SavedInv'
  <2>1. SUFFICES ASSUME NEW i \in Shipments
                 PROVE  /\ ~Authored(i) => status'[i] = "absent"
                        /\ Authored(i) => save[Author(i)].pc = "ended"
                        /\ Authored(i) /\ Keyed(Author(i)) =>
                              /\ \E y \in receipts' : ReceiptOf(y, i)'
                              /\ \E y \in receipts' : y.key = save[Author(i)].key /\ y.part = 0
    BY <1>4 DEF SavedInv
  <2>2. ~Authored(i) => status'[i] = "absent"
    BY <1>1 DEF SavedInv
  <2>3. Authored(i) => save[Author(i)].pc = "ended"
    BY DEF SavedInv
  <2>4. ASSUME Authored(i), Keyed(Author(i))
        PROVE  /\ \E y \in receipts' : ReceiptOf(y, i)'
               /\ \E y \in receipts' : y.key = save[Author(i)].key /\ y.part = 0
    <3>1. PICK x1 \in receipts : ReceiptOf(x1, i)
      BY <2>4 DEF SavedInv
    <3>2. PICK x2 \in receipts : x2.key = save[Author(i)].key /\ x2.part = 0
      BY <2>4 DEF SavedInv
    <3>3. PICK y1 \in receipts' : Remains(x1, y1)
      BY <1>2
    <3>4. PICK y2 \in receipts' : Remains(x2, y2)
      BY <1>2
    <3>5. QED
      BY <1>3, <3>1, <3>2, <3>3, <3>4 DEF Remains
  <2>5. QED
    BY <2>2, <2>3, <2>4
<1>8. OneSavePerKey' /\ AnswersAreWhole'
  BY <1>1 DEF OneSavePerKey, AnswersAreWhole, SameRequest
<1>9. QED
  BY <1>5, <1>6, <1>7, <1>8

LEMMA CommittedEffect ==
    ASSUME TypeOK, SavedInv, NEW s \in Saves, NEW ships \in [PartsOf(s) -> Unsaved],
           NEW a \in SUBSET Shipments,
           Committed(s, ships, a)
    PROVE  /\ Steadfast /\ save[s].pc = "writing" /\ save'[s].pc = "ended" /\ save'[s].answer = a
           /\ \A t \in Saves \ {s} : save'[t] = save[t]
           /\ a \in {{}, Made(s, ships)}
           /\ Made(s, ships) \subseteq Shipments /\ s # Nobody
           /\ \A i \in Made(s, ships) : ~Authored(i) /\ savedBy'[i] = s
           /\ \A i \in Shipments \ Made(s, ships) :
                 savedBy'[i] = savedBy[i] /\ status'[i] = status[i] /\ savedBy[i] # s
           /\ \A i \in Made(s, ships) : status[i] = "absent" /\ status'[i] \in {"open", "received"}
           /\ receipts' = receipts \cup ReceiptsFor(s, ships)
           /\ UNCHANGED <<receivedQty, receiving>>
<1>1. Made(s, ships) \subseteq Shipments /\ \A i \in Made(s, ships) : ~Authored(i)
  BY DEF Made, Unsaved, Authored
<1>2. s # Nobody
  BY NamesAssumption
<1>3. save[s].pc = "writing" /\ Answers(s, a)
  BY DEF Committed
<1>4. \A i \in Shipments : savedBy[i] # s
  BY <1>2, <1>3 DEF SavedInv, Authored, Author
<1>5. Steadfast /\ save'[s].pc = "ended" /\ save'[s].answer = a
      /\ \A t \in Saves \ {s} : save'[t] = save[t]
  BY <1>3, AnswersEffect
<1>6. \A i \in Made(s, ships) : status[i] = "absent"
  BY <1>1 DEF SavedInv
<1>7. QED
  BY <1>1, <1>2, <1>3, <1>4, <1>5, <1>6 DEF Committed

LEMMA CommitSaving ==
    ASSUME TypeOK, LockInv, ReceiptInv, SavedInv, OneSavePerKey, AnswersAreWhole,
           NEW s \in Saves, NEW ships \in [PartsOf(s) -> Unsaved],
           NEW a \in SUBSET Shipments,
           Committed(s, ships, a)
    PROVE  LockInv' /\ ReceiptInv' /\ SavedInv' /\ OneSavePerKey' /\ AnswersAreWhole'
<1> DEFINE made == Made(s, ships)
<1>1. /\ Steadfast /\ save[s].pc = "writing" /\ save'[s].pc = "ended" /\ save'[s].answer = a
      /\ \A t \in Saves \ {s} : save'[t] = save[t]
      /\ a \in {{}, made}
      /\ made \subseteq Shipments /\ s # Nobody
      /\ \A i \in made : ~Authored(i) /\ savedBy'[i] = s
      /\ \A i \in Shipments \ made :
            savedBy'[i] = savedBy[i] /\ status'[i] = status[i] /\ savedBy[i] # s
      /\ receipts' = receipts \cup ReceiptsFor(s, ships)
  BY CommittedEffect
<1>2. /\ \A x \in ReceiptsFor(s, ships) :
             /\ x.key = save[s].key /\ x.hash = Hash(s) /\ Keyed(s)
             /\ \E n \in PartsOf(s) : x.part = n /\ x.shipment = ships[n]
      /\ Keyed(s) => \A n \in PartsOf(s) : \E x \in ReceiptsFor(s, ships) :
             /\ x.key = save[s].key /\ x.hash = Hash(s)
             /\ x.part = n /\ x.shipment = ships[n]
  BY ReceiptsForType
<1>3. \A n \in PartsOf(s) : ships[n] \in made
  BY DEF Made
<1>4. Hash(s)' = Hash(s) /\ PartsOf(s)' = PartsOf(s) /\ Keyed(s)' = Keyed(s)
      /\ save'[s].key = save[s].key
  BY <1>1, SameHashes DEF Steadfast
<1>5. \A i \in Shipments : Authored(i) => i \notin made /\ savedBy'[i] = savedBy[i] /\ Author(i) # s
  BY <1>1 DEF Author
<1>6. \A i \in Shipments : Authored(i) =>
        \A x : ReceiptOf(x, i)' = ReceiptOf(x, i) /\ Author(i)' = Author(i) /\ Author(i) \in Saves
               /\ Authored(i)' /\ Keyed(Author(i))' = Keyed(Author(i))
               /\ (save[Author(i)].key)' = save[Author(i)].key
  BY <1>1, <1>5, ReceiptOfStays
<1>7. \A i \in made : Authored(i)' /\ Author(i)' = s
  BY <1>1 DEF Authored, Author
<1>8. \A i \in Shipments \ made : Authored(i)' = Authored(i)
  BY <1>1 DEF Authored
<1>9. ASSUME NEW n \in PartsOf(s), NEW x, x.key = save[s].key, x.hash = Hash(s),
             x.part = n, x.shipment = ships[n]
      PROVE  ReceiptOf(x, ships[n])'
  <2>1. Author(ships[n])' = s
    BY <1>3, <1>7
  <2>2. QED
    BY <1>4, <1>9, <2>1 DEF ReceiptOf
<1> HIDE DEF made
<1>10. LockInv'
  <2>1. SUFFICES ASSUME NEW u \in Saves, save'[u].pc = "writing", Keyed(u)'
                 PROVE  /\ \A t \in Saves : save'[t].pc = "writing" /\ save'[t].key = save'[u].key
                                              => t = u
                        /\ \A x \in receipts' : x.key # save'[u].key
    BY DEF LockInv
  <2>2. u # s /\ save'[u] = save[u] /\ Keyed(u)
    BY <1>1, <2>1 DEF Keyed
  <2>3. save[u].key # save[s].key
    BY <1>1, <2>1, <2>2 DEF LockInv
  <2>4. \A x \in receipts' : x.key # save'[u].key
    BY <1>1, <1>2, <2>1, <2>2, <2>3 DEF LockInv
  <2>5. QED
    BY <1>1, <2>1, <2>2, <2>4 DEF LockInv, Steadfast
<1>11. ReceiptInv'
  <2>1. SUFFICES ASSUME NEW x \in receipts'
                 PROVE  \E i \in Shipments : Authored(i)' /\ ReceiptOf(x, i)'
    BY DEF ReceiptInv
  <2>2. CASE x \in receipts
    BY <1>6, <2>2 DEF ReceiptInv
  <2>3. CASE x \in ReceiptsFor(s, ships)
    <3>1. PICK n \in PartsOf(s) : x.part = n /\ x.shipment = ships[n]
      BY <1>2, <2>3
    <3>2. ReceiptOf(x, ships[n])' /\ Authored(ships[n])' /\ ships[n] \in Shipments
      BY <1>1, <1>2, <1>3, <1>7, <1>9, <2>3, <3>1
    <3>3. QED
      BY <3>2
  <2>4. QED
    BY <1>1, <2>2, <2>3
<1>12. SavedInv'
  <2>1. SUFFICES ASSUME NEW i \in Shipments
                 PROVE  /\ ~Authored(i)' => status'[i] = "absent"
                        /\ Authored(i)' => (save[Author(i)].pc = "ended")'
                        /\ Authored(i)' /\ Keyed(Author(i))' =>
                              /\ \E x \in receipts' : ReceiptOf(x, i)'
                              /\ \E x \in receipts' : x.key = (save[Author(i)].key)' /\ x.part = 0
    BY DEF SavedInv
  <2>2. CASE i \in made
    <3>1. Authored(i)' /\ Author(i)' = s
      BY <1>7, <2>2
    <3>2. (save[Author(i)].pc = "ended")' /\ (save[Author(i)].key)' = save[s].key
          /\ Keyed(Author(i))' = Keyed(s)
      BY <1>1, <1>4, <3>1
    <3>3. ASSUME Keyed(s)
          PROVE  /\ \E x \in receipts' : ReceiptOf(x, i)'
                 /\ \E x \in receipts' : x.key = save[s].key /\ x.part = 0
      <4>1. PICK n \in PartsOf(s) : ships[n] = i
        BY <2>2 DEF made, Made
      <4>2. PICK x \in ReceiptsFor(s, ships) :
              x.key = save[s].key /\ x.hash = Hash(s) /\ x.part = n /\ x.shipment = ships[n]
        BY <1>2, <3>3
      <4>3. ReceiptOf(x, i)'
        BY <1>9, <4>1, <4>2
      <4>4. \E y \in ReceiptsFor(s, ships) : y.key = save[s].key /\ y.part = 0
        BY <1>2, <3>3, SizeType
      <4>5. QED
        BY <1>1, <4>2, <4>3, <4>4
    <3>4. QED
      BY <3>1, <3>2, <3>3
  <2>3. CASE i \notin made
    <3>1. Authored(i)' = Authored(i) /\ status'[i] = status[i]
      BY <1>1, <1>8, <2>3
    <3>2. ASSUME Authored(i)
          PROVE  (save[Author(i)].pc = "ended")'
      <4>1. Author(i) \in Saves \ {s} /\ Author(i)' = Author(i)
        BY <1>5, <1>6, <3>2
      <4>2. QED
        BY <1>1, <3>2, <4>1 DEF SavedInv
    <3>3. ASSUME Authored(i), Keyed(Author(i))'
          PROVE  /\ \E x \in receipts' : ReceiptOf(x, i)'
                 /\ \E x \in receipts' : x.key = (save[Author(i)].key)' /\ x.part = 0
      BY <1>1, <1>6, <3>3 DEF SavedInv
    <3>4. QED
      BY <3>1, <3>2, <3>3 DEF SavedInv
  <2>4. QED
    BY <2>2, <2>3
<1>13. OneSavePerKey'
  <2>1. ASSUME NEW i \in Shipments, NEW j \in made, savedBy'[i] # Nobody,
               save'[savedBy'[i]].key = save'[s].key, save'[s].key # NoKey
        PROVE  savedBy'[i] = s
    <3>1. CASE i \in made
      BY <1>1, <3>1
    <3>2. CASE i \notin made
      <4>1. savedBy[i] = savedBy'[i] /\ Authored(i) /\ Author(i) \in Saves
        BY <1>1, <1>6, <2>1, <3>2 DEF Authored
      <4>2. save[Author(i)].key = save[s].key /\ Keyed(s)
        BY <1>1, <1>4, <2>1, <4>1 DEF Author, Keyed, Steadfast
      <4>3. \E x \in receipts : x.key = save[s].key
        BY <4>1, <4>2 DEF SavedInv, Keyed
      <4>4. QED
        BY <1>1, <4>2, <4>3 DEF LockInv
    <3>3. QED
      BY <3>1, <3>2
  <2>2. SUFFICES ASSUME NEW i \in Shipments, NEW j \in Shipments,
                        savedBy'[i] # Nobody, savedBy'[j] # Nobody,
                        save'[savedBy'[i]].key = save'[savedBy'[j]].key,
                        save'[savedBy'[i]].key # NoKey
                 PROVE  savedBy'[i] = savedBy'[j]
    BY DEF OneSavePerKey
  <2>3. CASE i \in made
    BY <1>1, <2>1, <2>2, <2>3
  <2>4. CASE j \in made
    BY <1>1, <2>1, <2>2, <2>4
  <2>5. CASE i \notin made /\ j \notin made
    <3>1. savedBy'[i] = savedBy[i] /\ savedBy'[j] = savedBy[j]
      BY <1>1, <2>5
    <3>2. savedBy[i] \in Saves /\ savedBy[j] \in Saves
      BY <2>2, <3>1 DEF TypeOK
    <3>3. save[savedBy[i]].key = save[savedBy[j]].key /\ save[savedBy[i]].key # NoKey
      BY <1>1, <2>2, <3>1, <3>2 DEF Steadfast
    <3>4. QED
      BY <2>2, <3>1, <3>3 DEF OneSavePerKey
  <2>6. QED
    BY <2>3, <2>4, <2>5
<1>14. AnswersAreWhole'
  <2>1. \A t, u \in Saves : SameRequest(t, u)' = SameRequest(t, u)
    BY <1>1 DEF Steadfast, SameRequest
  <2>2. {i \in Shipments : savedBy'[i] = s} = made
    BY <1>1
  <2>3. \A t \in Saves \ {s} : {i \in Shipments : savedBy'[i] = t} = {i \in Shipments : savedBy[i] = t}
    BY <1>1, NamesAssumption DEF Authored
  <2>4. {i \in Shipments : savedBy[i] = s} = {}
    BY <1>1, NamesAssumption DEF Authored
  <2>5. SUFFICES ASSUME NEW u \in Saves, save'[u].answer # {}
                 PROVE  \E t \in Saves : SameRequest(u, t)
                           /\ save'[u].answer = {i \in Shipments : savedBy'[i] = t}
    BY <2>1 DEF AnswersAreWhole
  <2>6. CASE u = s
    <3>1. save'[u].answer = made /\ SameRequest(s, s)
      BY <1>1, <2>5, <2>6 DEF SameRequest
    <3>2. QED
      BY <2>2, <2>6, <3>1
  <2>7. CASE u # s
    <3>1. PICK t \in Saves : SameRequest(u, t)
                 /\ save[u].answer = {i \in Shipments : savedBy[i] = t}
      BY <1>1, <2>5, <2>7 DEF AnswersAreWhole
    <3>2. t # s
      BY <1>1, <2>4, <2>5, <2>7, <3>1
    <3>3. QED
      BY <1>1, <2>3, <2>7, <3>1, <3>2
  <2>8. QED
    BY <2>6, <2>7
<1>15. QED
  BY <1>10, <1>11, <1>12, <1>13, <1>14

LEMMA SavingStep ==
    ASSUME PortalInv, [Next]_vars
    PROVE  LockInv' /\ ReceiptInv' /\ SavedInv' /\ OneSavePerKey' /\ AnswersAreWhole'
<1>0. TypeOK /\ LockInv /\ ReceiptInv /\ SavedInv /\ ReceiverInv /\ OneSavePerKey /\ AnswersAreWhole
  BY DEF PortalInv
<1>1. ASSUME NEW q \in Receivers, ReceiverOnly(q)
      PROVE  UNCHANGED saveVars
  BY <1>1 DEF ReceiverOnly, saving, saveVars
<1>2. ASSUME NEW q \in Receivers, ReceiveCommit(q)
      PROVE  /\ UNCHANGED <<receipts, savedBy, save>>
             /\ \A i \in Shipments : status'[i] = status[i] \/ Authored(i)
  <2>1. status[receiver[q].shown.shipment] = "open"
    BY <1>0, <1>2 DEF ReceiverInv, ReceiveCommit
  <2>2. UNCHANGED status \/ status' = [status EXCEPT ![receiver[q].shown.shipment] = "received"]
    BY <1>2 DEF ReceiveCommit
  <2>3. \A i \in Shipments : status'[i] = status[i] \/ status[i] = "open"
    BY <1>0, <2>1, <2>2 DEF TypeOK
  <2>4. QED
    BY <1>0, <1>2, <2>3 DEF SavedInv, ReceiveCommit
<1>3. ASSUME NEW r \in Rows, NEW to \in Lines \cup {NoSku}, EditRow(r, to)
      PROVE  UNCHANGED saveVars
  BY <1>3 DEF EditRow, saving, saveVars
<1>4. CASE UNCHANGED saveVars
  BY <1>0, <1>4, SavingUntouched DEF saveVars
<1>5. UNCHANGED vars => UNCHANGED saveVars
  BY DEF vars, saveVars
<1>6. QED
  BY <1>0, <1>1, <1>2, <1>3, <1>4, <1>5, Steps, EndingSaving, AcceptSaving, CommitSaving,
     DeleteSaving, SavingUntouched

-----------------------------------------------------------------------------
(* Receiving                                                                *)

LEMMA CommitReceiving ==
    ASSUME PortalInv, NEW s \in Saves, NEW ships \in [PartsOf(s) -> Unsaved],
           NEW a \in SUBSET Shipments,
           Committed(s, ships, a)
    PROVE  ReceiverInv' /\ OpenInv' /\ StockAsShown'
<1>0. TypeOK /\ SavedInv /\ ReceiverInv /\ OpenInv /\ StockAsShown
  BY DEF PortalInv
<1>1. \A i \in Shipments : status'[i] = status[i] \/ status[i] = "absent"
  BY <1>0, CommittedEffect
<1>2. UNCHANGED <<receivedQty, ledger, sku, receiver, confirmed>>
  BY DEF Committed, receiving
<1>3. ReceiverInv'
  BY <1>0, <1>1, <1>2 DEF ReceiverInv, OnShipment, Planned, Previews
<1>4. \A i \in Shipments : status[i] = "absent" => confirmed[i] = Nobody
  BY <1>0 DEF OpenInv
<1>5. OpenInv' /\ StockAsShown'
  BY <1>0, <1>1, <1>2, <1>4 DEF OpenInv, StockAsShown, MovesOf
<1>6. QED
  BY <1>3, <1>5

LEMMA ReceiverOnlyReceiving ==
    ASSUME PortalInv, NEW q \in Receivers, ReceiverOnly(q)
    PROVE  ReceiverInv' /\ OpenInv' /\ StockAsShown'
<1>0. TypeOK /\ ReceiverInv /\ OpenInv /\ StockAsShown
  BY DEF PortalInv
<1>1. /\ UNCHANGED <<status, receivedQty, ledger, sku, confirmed>>
      /\ \A o \in Receivers \ {q} : receiver'[o] = receiver[o]
  BY DEF ReceiverOnly, saving
<1>2. OpenInv' /\ StockAsShown'
  BY <1>0, <1>1 DEF OpenInv, StockAsShown, MovesOf
<1>3. CASE receiver'[q].pc # "writing" /\ (receiver'[q].pc # "idle" => receiver'[q].shown \in Previews)
  <2>1. \A o \in Receivers, i \in Shipments : OnShipment(o, i)' => OnShipment(o, i)
    BY <1>1, <1>3 DEF OnShipment
  <2>2. \A o \in Receivers : receiver[o].pc = "writing" => receiver[o].shown.shipment \in Shipments
    BY <1>0 DEF ReceiverInv, Previews
  <2>3. ReceiverInv'
    BY <1>0, <1>1, <1>3, <2>1, <2>2 DEF ReceiverInv, OnShipment, Planned, Stocked, Movement
  <2>4. QED
    BY <1>2, <2>3
<1>4. CASE Matching(q)
  <2> DEFINE p == receiver[q].shown
  <2>1. /\ receiver'[q].pc = "writing" /\ receiver[q].pc = "shown"
        /\ receiver'[q].shown = p
        /\ \A o \in Receivers : ~OnShipment(o, p.shipment)
    BY <1>4 DEF Matching
  <2>2. p \in Previews
    BY <1>0, <2>1 DEF ReceiverInv
  <2>3. PICK add \in BOOLEAN, qty \in [Lines -> Quantities] :
          LET now == PreviewOf(p.shipment, add, qty) IN
          /\ p = now
          /\ status[now.shipment] = "open"
          /\ receiver'[q].moves = Planned(now)
          /\ receiver'[q].rows = UNION {Matches[l] : l \in Lines}
    BY <1>4, Zenon DEF Matching
  <2>4. p.targets = Matches /\ status[p.shipment] = "open" /\ receiver'[q].moves = Planned(p)
        /\ receiver'[q].rows = UNION {Matches[l] : l \in Lines}
    <3>1. PreviewOf(p.shipment, add, qty).targets = Matches
      BY DEF PreviewOf
    <3> HIDE DEF p
    <3>2. QED
      BY <2>3, <3>1
  <2>5. /\ \A l \in Lines : p.targets[l] \subseteq receiver'[q].rows
        /\ \A l \in Lines : \A r \in p.targets[l] : sku[r] = l
    BY <2>4 DEF Matches
  <2>6. \A o \in Receivers \ {q} : ~OnShipment(o, p.shipment)'
    BY <1>1, <2>1 DEF OnShipment
  <2>7. \A o \in Receivers \ {q} : receiver[o].pc = "writing" =>
            /\ receiver[o].shown.shipment \in Shipments
            /\ receiver[o].shown.shipment # p.shipment
    BY <1>0, <2>1 DEF ReceiverInv, Previews, OnShipment
  <2> HIDE DEF p
  <2>8. SUFFICES ASSUME NEW o \in Receivers
                 PROVE  /\ receiver'[o].pc # "idle" => receiver'[o].shown \in Previews
                        /\ receiver'[o].pc = "writing" =>
                              /\ status'[receiver'[o].shown.shipment] = "open"
                              /\ receiver'[o].moves = Planned(receiver'[o].shown)
                              /\ \A l \in Lines : receiver'[o].shown.targets[l] \subseteq receiver'[o].rows
                              /\ \A l \in Lines : \A r \in receiver'[o].shown.targets[l] : sku'[r] = l
                              /\ \A u \in Receivers : receiver'[u].pc = "writing"
                                     /\ receiver'[u].shown.shipment = receiver'[o].shown.shipment
                                     => u = o
    BY <1>2 DEF ReceiverInv, OnShipment, Planned, Stocked, Movement
  <2>9. CASE o = q
    BY <1>1, <2>1, <2>2, <2>4, <2>5, <2>6, <2>9 DEF OnShipment
  <2>10. CASE o # q
    BY <1>0, <1>1, <2>1, <2>7, <2>10 DEF ReceiverInv, OnShipment
  <2>11. QED
    BY <2>9, <2>10
<1>5. CASE receiver'[q] = Resting
  BY <1>3, <1>5 DEF Resting
<1>6. CASE receiver'[q].pc = "shown" /\ receiver'[q].shown \in Previews
  BY <1>3, <1>6
<1>7. QED
  BY <1>2, <1>4, <1>5, <1>6 DEF ReceiverOnly

\* What a receipt writes when it commits: nothing its shipment had stands in
\* its way.
LEMMA ReceiveCommitEffect ==
    ASSUME PortalInv, NEW q \in Receivers, ReceiveCommit(q)
    PROVE  LET p == receiver[q].shown
               i == p.shipment IN
           /\ p \in Previews /\ status[i] = "open" /\ receiver[q].pc = "writing"
           /\ status' = [status EXCEPT ![i] = "received"]
           /\ receivedQty' = [receivedQty EXCEPT ![i] = p.qty]
           /\ ledger' = ledger \cup Planned(p)
           /\ confirmed' = [confirmed EXCEPT ![i] = p]
           /\ Ends(q)
           /\ MovesOf(i) = {}
           /\ UNCHANGED sku
<1> DEFINE p == receiver[q].shown
           i == p.shipment
<1>0. TypeOK /\ ReceiverInv /\ OpenInv /\ StockAsShown
  BY DEF PortalInv
<1>1. receiver[q].pc = "writing" /\ Ends(q) /\ UNCHANGED sku
  BY DEF ReceiveCommit
<1>2. p \in Previews /\ status[i] = "open" /\ receiver[q].moves = Planned(p)
  BY <1>0, <1>1 DEF ReceiverInv
<1>3. i \in Shipments
  BY <1>2 DEF Previews
<1>4. MovesOf(i) = {}
  BY <1>0, <1>2, <1>3 DEF OpenInv, StockAsShown
<1>5. \A m \in receiver[q].moves : m.shipment = i
  BY <1>2, PlannedType
<1>6. ~ \E m \in receiver[q].moves : Conflicts(m)
  BY <1>4, <1>5 DEF Conflicts, MovesOf
<1>7. /\ status' = [status EXCEPT ![i] = "received"]
      /\ receivedQty' = [receivedQty EXCEPT ![i] = p.qty]
      /\ ledger' = ledger \cup receiver[q].moves
      /\ confirmed' = [confirmed EXCEPT ![i] = p]
  BY <1>6 DEF ReceiveCommit
<1>8. QED
  BY <1>1, <1>2, <1>4, <1>7

LEMMA ReceiveCommitReceiving ==
    ASSUME PortalInv, NEW q \in Receivers, ReceiveCommit(q)
    PROVE  ReceiverInv' /\ OpenInv' /\ StockAsShown'
<1> DEFINE p == receiver[q].shown
           i == p.shipment
<1>0. TypeOK /\ ReceiverInv /\ OpenInv /\ StockAsShown
  BY DEF PortalInv
<1>1. /\ p \in Previews /\ status[i] = "open" /\ receiver[q].pc = "writing"
      /\ status' = [status EXCEPT ![i] = "received"]
      /\ receivedQty' = [receivedQty EXCEPT ![i] = p.qty]
      /\ ledger' = ledger \cup Planned(p)
      /\ confirmed' = [confirmed EXCEPT ![i] = p]
      /\ Ends(q)
      /\ MovesOf(i) = {}
      /\ UNCHANGED sku
  BY ReceiveCommitEffect
<1>2. receiver'[q] = Resting /\ \A o \in Receivers \ {q} : receiver'[o] = receiver[o]
  BY <1>0, <1>1, EndsEffect
<1>3. \A m \in Planned(p) : m.shipment = i
  BY <1>1, PlannedType
<1>4. i \in Shipments
  BY <1>1 DEF Previews
<1>5. \A j \in Shipments \ {i} : {m \in ledger' : m.shipment = j} = MovesOf(j)
  BY <1>1, <1>3 DEF MovesOf
<1>6. {m \in ledger' : m.shipment = i} = Planned(p)
  BY <1>1, <1>3 DEF MovesOf
<1>7. /\ status'[i] = "received" /\ receivedQty'[i] = p.qty /\ confirmed'[i] = p
      /\ \A j \in Shipments \ {i} : /\ status'[j] = status[j] /\ confirmed'[j] = confirmed[j]
                                    /\ receivedQty'[j] = receivedQty[j]
  BY <1>0, <1>1, <1>4 DEF TypeOK
<1>8. \A o \in Receivers \ {q} : receiver[o].pc = "writing" =>
          receiver[o].shown.shipment \in Shipments \ {i}
  BY <1>0, <1>1 DEF ReceiverInv, Previews, OnShipment
<1>9. OpenInv'
  BY <1>0, <1>7 DEF OpenInv
<1>10. StockAsShown'
  <2>1. p # Nobody
    BY <1>1, NobodyAssumption
  <2>2. SUFFICES ASSUME NEW j \in Shipments
                 PROVE  IF confirmed'[j] = Nobody THEN {m \in ledger' : m.shipment = j} = {}
                        ELSE /\ status'[j] \in {"received", "deleted"}
                             /\ receivedQty'[j] = confirmed'[j].qty
                             /\ {m \in ledger' : m.shipment = j} = Planned(confirmed'[j])
    BY DEF StockAsShown, MovesOf, Planned, Stocked, Movement
  <2>3. CASE j = i
    BY <1>6, <1>7, <2>1, <2>3
  <2>4. CASE j # i
    BY <1>0, <1>5, <1>7, <2>4 DEF StockAsShown
  <2>5. QED
    BY <2>3, <2>4
<1> HIDE DEF p, i
<1>11. ReceiverInv'
  <2>1. receiver'[q].pc = "idle"
    BY <1>2 DEF Resting
  <2>2. SUFFICES ASSUME NEW o \in Receivers \ {q}
                 PROVE  /\ receiver[o].pc # "idle" => receiver[o].shown \in Previews
                        /\ receiver[o].pc = "writing" =>
                              /\ status'[receiver[o].shown.shipment] = "open"
                              /\ receiver[o].moves = Planned(receiver[o].shown)
                              /\ \A l \in Lines : receiver[o].shown.targets[l] \subseteq receiver[o].rows
                              /\ \A l \in Lines : \A r \in receiver[o].shown.targets[l] : sku[r] = l
                              /\ \A u \in Receivers \ {q} : receiver[u].pc = "writing"
                                     /\ receiver[u].shown.shipment = receiver[o].shown.shipment
                                     => u = o
    BY <1>1, <1>2, <2>1 DEF ReceiverInv, OnShipment, Planned, Stocked, Movement
  <2>3. QED
    BY <1>0, <1>7, <1>8 DEF ReceiverInv, OnShipment
<1>12. QED
  BY <1>9, <1>10, <1>11

LEMMA EditReceiving ==
    ASSUME PortalInv, NEW r \in Rows, NEW to \in Lines \cup {NoSku}, EditRow(r, to)
    PROVE  ReceiverInv' /\ OpenInv' /\ StockAsShown'
<1>0. TypeOK /\ ReceiverInv /\ OpenInv /\ StockAsShown
  BY DEF PortalInv
<1>1. /\ UNCHANGED <<status, receivedQty, ledger, receiver, confirmed>>
      /\ \A q \in Receivers : r \notin receiver[q].rows
      /\ \A w \in Rows \ {r} : sku'[w] = sku[w]
  BY <1>0 DEF EditRow, saving, SharedRows, TypeOK
<1>2. OpenInv' /\ StockAsShown'
  BY <1>0, <1>1 DEF OpenInv, StockAsShown, MovesOf
<1>3. \A q \in Receivers : receiver[q].pc = "writing" =>
          \A l \in Lines : \A w \in receiver[q].shown.targets[l] : sku'[w] = l
  <2>1. SUFFICES ASSUME NEW q \in Receivers, receiver[q].pc = "writing", NEW l \in Lines,
                        NEW w \in receiver[q].shown.targets[l]
                 PROVE  sku'[w] = l
    OBVIOUS
  <2>2. w \in receiver[q].rows /\ sku[w] = l /\ w \in Rows
    BY <1>0, <2>1 DEF ReceiverInv, Previews
  <2>3. QED
    BY <1>1, <2>2
<1>4. ReceiverInv'
  BY <1>0, <1>1, <1>3 DEF ReceiverInv, OnShipment, Planned, Stocked, Movement
<1>5. QED
  BY <1>2, <1>4

LEMMA DeleteReceiving ==
    ASSUME PortalInv, NEW d \in Shipments, Delete(d)
    PROVE  ReceiverInv' /\ OpenInv' /\ StockAsShown'
<1>0. TypeOK /\ ReceiverInv /\ OpenInv /\ StockAsShown
  BY DEF PortalInv
<1>1. /\ UNCHANGED <<receivedQty, ledger, sku, receiver, confirmed>>
      /\ \A q \in Receivers : ~OnShipment(q, d)
      /\ status'[d] = "deleted"
      /\ \A i \in Shipments \ {d} : status'[i] = status[i]
  BY <1>0 DEF Delete, TypeOK
<1>2. OpenInv' /\ StockAsShown'
  BY <1>0, <1>1 DEF OpenInv, StockAsShown, MovesOf
<1>3. \A q \in Receivers : receiver[q].pc = "writing" =>
          status'[receiver[q].shown.shipment] = "open"
  BY <1>0, <1>1 DEF ReceiverInv, OnShipment, Previews
<1>4. ReceiverInv'
  BY <1>0, <1>1, <1>3 DEF ReceiverInv, OnShipment, Planned, Stocked, Movement
<1>5. QED
  BY <1>2, <1>4

\* Steps of the saving calls that end or begin one touch nothing a receiver
\* reads.
LEMMA ReceivingStep ==
    ASSUME PortalInv, [Next]_vars
    PROVE  ReceiverInv' /\ OpenInv' /\ StockAsShown'
<1>0. TypeOK /\ ReceiverInv /\ OpenInv /\ StockAsShown
  BY DEF PortalInv
<1>1. ASSUME UNCHANGED <<status, receivedQty, ledger, sku, receiver, confirmed>>
      PROVE  ReceiverInv' /\ OpenInv' /\ StockAsShown'
  <2>1. ReceiverInv'
    BY <1>0, <1>1 DEF ReceiverInv, OnShipment, Planned, Stocked, Movement
  <2>2. OpenInv' /\ StockAsShown'
    BY <1>0, <1>1 DEF OpenInv, StockAsShown, MovesOf
  <2>3. QED
    BY <2>1, <2>2
<1>2. ASSUME NEW s \in Saves, NEW a \in SUBSET Shipments, Ending(s, a)
      PROVE  ReceiverInv' /\ OpenInv' /\ StockAsShown'
  <2>1. UNCHANGED <<status, receivedQty, ledger, sku, receiver, confirmed>>
    BY <1>2 DEF Ending, EndsWith, saving, receiving
  <2>2. QED
    BY <1>1, <2>1
<1>3. ASSUME NEW s \in Saves, Accept(s)
      PROVE  ReceiverInv' /\ OpenInv' /\ StockAsShown'
  <2>1. UNCHANGED <<status, receivedQty, ledger, sku, receiver, confirmed>>
    BY <1>3 DEF Accept, saving, receiving
  <2>2. QED
    BY <1>1, <2>1
<1>4. UNCHANGED vars => UNCHANGED <<status, receivedQty, ledger, sku, receiver, confirmed>>
  BY DEF vars
<1>5. QED
  BY <1>0, <1>1, <1>2, <1>3, <1>4, Steps, CommitReceiving, ReceiverOnlyReceiving,
     ReceiveCommitReceiving, EditReceiving, DeleteReceiving

-----------------------------------------------------------------------------
(* The invariant                                                            *)

LEMMA InitInv ==
    ASSUME Init
    PROVE  PortalInv
<1>1. PICK input \in [Saves -> Inputs] :
        save = [s \in Saves |->
                  [pc |-> "sent", kind |-> input[s].kind, key |-> input[s].key,
                   details |-> input[s].details, answer |-> {}]]
  BY DEF Init
<1>2. save \in [Saves -> SaveRec] /\ \A s \in Saves : save[s].pc = "sent" /\ save[s].answer = {}
  <2>1. ASSUME NEW s \in Saves
        PROVE  input[s].kind \in Kinds /\ input[s].key \in Keys \cup {NoKey}
               /\ input[s].details \in Details
    <3>1. input[s] \in Hashes
      BY DEF Inputs
    <3>2. QED
      BY <3>1 DEF Hashes
  <2>2. QED
    BY <1>1, <2>1 DEF SaveRec, SavePcs
<1>3. Resting \in ReceiverRec
  BY DEF Resting, ReceiverRec, ReceivePcs
<1>4. receiver \in [Receivers -> ReceiverRec]
  BY <1>3 DEF Init
<1>5. TypeOK
  <2>1. status \in [Shipments -> Statuses]
    BY DEF Init, Statuses
  <2>2. receivedQty \in [Shipments -> [Lines -> Nat]]
    BY DEF Init
  <2>3. receipts \subseteq Receipts /\ ledger \subseteq Movements /\ sku \in [Rows -> Lines \cup {NoSku}]
    BY DEF Init
  <2>4. savedBy \in [Shipments -> Saves \cup {Nobody}] /\ confirmed \in [Shipments -> Previews \cup {Nobody}]
    BY DEF Init
  <2>5. edits \in 0 .. MaxEdits /\ faults \in 0 .. MaxFaults
    BY BoundsAssumption DEF Init
  <2>6. QED
    BY <1>2, <1>4, <2>1, <2>2, <2>3, <2>4, <2>5 DEF TypeOK, SaveRec, ReceiverRec
<1>6. LockInv /\ AnswersAreWhole
  BY <1>2 DEF LockInv, AnswersAreWhole
<1>7. ReceiptInv /\ SavedInv /\ OneSavePerKey
  BY DEF Init, ReceiptInv, SavedInv, OneSavePerKey, Authored
<1>8. ReceiverInv
  BY DEF Init, ReceiverInv, Resting
<1>9. OpenInv /\ StockAsShown
  BY DEF Init, OpenInv, StockAsShown, MovesOf
<1>10. QED
  BY <1>5, <1>6, <1>7, <1>8, <1>9 DEF PortalInv

LEMMA InvStep ==
    ASSUME PortalInv, [Next]_vars
    PROVE  PortalInv'
<1>1. TypeOK /\ ReceiverInv
  BY DEF PortalInv
<1>2. QED
  BY <1>1, TypeStep, SavingStep, ReceivingStep DEF PortalInv

\* Every step of a save, an import, a receipt, an edit of the inventory and a
\* deletion keeps the invariant.
THEOREM PortalInductive == Spec => []PortalInv
<1>1. Init => PortalInv
  BY InitInv
<1>2. PortalInv /\ [Next]_vars => PortalInv'
  BY InvStep
<1>3. QED
  BY <1>1, <1>2, PTL DEF Spec

-----------------------------------------------------------------------------
(* What it implies                                                          *)

\* The tables and the calls stay within their types: no receipt is without a
\* key.
THEOREM TypeCorrect == Spec => []TypeOK
<1>1. PortalInv => TypeOK
  BY DEF PortalInv
<1>2. QED
  BY <1>1, PortalInductive, PTL

\* Whoever is answered, first or by a replay, is answered with the whole batch
\* of one equal request (importPortalInbound's receipts by hash).
THEOREM WholeAnswers == Spec => []AnswersAreWhole
<1>1. PortalInv => AnswersAreWhole
  BY DEF PortalInv
<1>2. QED
  BY <1>1, PortalInductive, PTL

\* However many creates and imports send one idempotency key, at most one of
\* them saves shipments, and the advisory lock keeps the others from failing on
\* the primary key of the receipts (createPortalInbound, importPortalInbound).
THEOREM OneSaveForAKey == Spec => []KeySavesOnce
<1>1. PortalInv => KeySavesOnce
  <2>1. ASSUME PortalInv, NEW s \in Saves, save[s].pc = "writing",
               NEW x \in receipts, x.key = save[s].key
        PROVE  FALSE
    <3>1. x.key # NoKey
      BY <2>1, NamesAssumption DEF PortalInv, TypeOK, Receipts
    <3>2. QED
      BY <2>1, <3>1 DEF PortalInv, LockInv, Keyed
  <2>2. PortalInv => RetriesDoNotCollide
    BY <2>1 DEF RetriesDoNotCollide, Collides
  <2>3. QED
    BY <2>2 DEF KeySavesOnce, PortalInv
<1>2. QED
  BY <1>1, PortalInductive, PTL

\* The stock and the quantities of a received shipment are those one operator
\* was shown and confirmed (receivePortalInbound's fingerprint and row locks).
THEOREM StockIsAsShown == Spec => []StockAsShown
<1>1. PortalInv => StockAsShown
  BY DEF PortalInv
<1>2. QED
  BY <1>1, PortalInductive, PTL

\* Units are booked to a row whose SKU is the line's when they are booked,
\* whatever edits came between the preview, the match and the booking.
THEOREM StockReachesSku == Spec => StockReachesItsSku
<1>1. ASSUME PortalInv, [Next]_vars
      PROVE  \A m \in ledger' \ ledger : sku[m.row] = m.line
  <2>0. TypeOK /\ ReceiverInv
    BY <1>1 DEF PortalInv
  <2>1. ASSUME NEW q \in Receivers, ReceiveCommit(q)
        PROVE  \A m \in ledger' \ ledger : sku[m.row] = m.line
    <3> DEFINE p == receiver[q].shown
    <3>1. p \in Previews /\ receiver[q].pc = "writing" /\ ledger' = ledger \cup Planned(p)
      BY <1>1, <2>1, ReceiveCommitEffect
    <3>2. \A m \in Planned(p) : m.line \in Lines /\ m.row \in p.targets[m.line]
      BY <3>1, PlannedType
    <3>3. \A l \in Lines : \A r \in p.targets[l] : sku[r] = l
      BY <2>0, <3>1 DEF ReceiverInv
    <3>4. QED
      BY <3>1, <3>2, <3>3
  <2>2. ASSUME UNCHANGED ledger
        PROVE  \A m \in ledger' \ ledger : sku[m.row] = m.line
    BY <2>2
  <2>3. \/ UNCHANGED ledger
        \/ \E q \in Receivers : ReceiveCommit(q)
    <3>1. \A s \in Saves, a \in SUBSET Shipments : Ending(s, a) => UNCHANGED ledger
      BY DEF Ending, EndsWith, receiving
    <3>2. \A s \in Saves : Accept(s) => UNCHANGED ledger
      BY DEF Accept, receiving
    <3>3. \A s \in Saves : \A ships, st, a : Committed(s, ships, a) => UNCHANGED ledger
      BY DEF Committed, receiving
    <3>4. \A q \in Receivers : ReceiverOnly(q) => UNCHANGED ledger
      BY DEF ReceiverOnly
    <3>5. \A r \in Rows, to \in Lines \cup {NoSku} : EditRow(r, to) => UNCHANGED ledger
      BY DEF EditRow
    <3>6. \A i \in Shipments : Delete(i) => UNCHANGED ledger
      BY DEF Delete
    <3>7. UNCHANGED vars => UNCHANGED ledger
      BY DEF vars
    <3>8. QED
      BY <1>1, <2>0, <3>1, <3>2, <3>3, <3>4, <3>5, <3>6, <3>7, Steps
  <2>4. QED
    BY <2>1, <2>2, <2>3
<1>2. PortalInv /\ [Next]_vars => [\A m \in ledger' \ ledger : sku[m.row] = m.line]_vars
  BY <1>1
<1>3. QED
  BY <1>2, PortalInductive, PTL DEF Spec, StockReachesItsSku


-----------------------------------------------------------------------------
(* The refinement of InboundDesk                                            *)

Request == [s \in Saves |-> Asked(s)]
Told == [s \in Saves |-> save[s].answer]
deskVars == <<Request, Told, savedBy, status, receivedQty, ledger, sku>>

\* What a call asked for is what it was sent with.
LEMMA SameRequests ==
    ASSUME Steadfast
    PROVE  Request' = Request
<1>1. \A s \in Saves : Asked(s)' = Asked(s)
  BY DEF Steadfast, Asked
<1>2. QED
  BY <1>1 DEF Request

LEMMA DeskInit ==
    ASSUME Init
    PROVE  Desk!Init /\ DeskInv
<1>1. PICK input \in [Saves -> Inputs] :
        save = [s \in Saves |->
                  [pc |-> "sent", kind |-> input[s].kind, key |-> input[s].key,
                   details |-> input[s].details, answer |-> {}]]
  BY DEF Init
<1>2. \A s \in Saves : save[s].answer = {} /\ Asked(s) = input[s]
  <2>1. ASSUME NEW s \in Saves
        PROVE  save[s].answer = {} /\ Asked(s) = input[s]
    <3>1. input[s] \in Hashes
      BY DEF Inputs
    <3>2. QED
      BY <1>1, <3>1 DEF Asked, Hashes
  <2>2. QED
    BY <2>1
<1>3. Request \in [Saves -> Desk!Requests]
  <2>1. Inputs = Desk!Requests
    BY DEF Inputs, Hashes, Kinds, Desk!Requests
  <2>2. QED
    BY <1>2, <2>1 DEF Request
<1>4. Told = [s \in Saves |-> {}]
  BY <1>2 DEF Told
<1>5. Desk!Init
  BY <1>3, <1>4 DEF Init, Desk!Init, Request, Told
<1>6. ToldInv /\ NamedInv /\ ShownInv
  BY <1>2 DEF Init, ToldInv, NamedInv, ShownInv, Resting
<1>7. QED
  BY <1>5, <1>6, InitInv DEF DeskInv

\* What an operator is shown and confirms is what could be confirmed.
LEMMA ShownStep ==
    ASSUME PortalInv, ShownInv, [Next]_vars
    PROVE  ShownInv'
<1>0. TypeOK /\ ReceiverInv
  BY DEF PortalInv
<1>1. CASE UNCHANGED receiver
  BY <1>1 DEF ShownInv, CanConfirm, Stocked
<1>2. ASSUME NEW q \in Receivers, ReceiverOnly(q)
      PROVE  ShownInv'
  <2>1. receiver'[q].pc # "idle" => CanConfirm(receiver'[q].shown)
    BY <1>2 DEF ReceiverOnly, Resting, Matching, ShownInv
  <2>2. \A o \in Receivers : receiver'[o].pc # "idle" => CanConfirm(receiver'[o].shown)
    BY <1>2, <2>1 DEF ReceiverOnly, ShownInv
  <2>3. QED
    BY <2>2 DEF ShownInv, CanConfirm, Stocked
<1>3. ASSUME NEW q \in Receivers, ReceiveCommit(q)
      PROVE  ShownInv'
  <2>1. receiver'[q] = Resting /\ \A o \in Receivers \ {q} : receiver'[o] = receiver[o]
    BY <1>0, <1>3, EndsEffect DEF ReceiveCommit
  <2>2. \A o \in Receivers : receiver'[o].pc # "idle" => CanConfirm(receiver'[o].shown)
    BY <2>1 DEF ShownInv, Resting
  <2>3. QED
    BY <2>2 DEF ShownInv, CanConfirm, Stocked
<1>4. \A s \in Saves, a \in SUBSET Shipments : Ending(s, a) => UNCHANGED receiver
  BY DEF Ending, EndsWith, receiving
<1>5. \A s \in Saves : Accept(s) => UNCHANGED receiver
  BY DEF Accept, receiving
<1>6. \A s \in Saves : \A ships, a : Committed(s, ships, a) => UNCHANGED receiver
  BY DEF Committed, receiving
<1>7. \A r \in Rows, to \in Lines \cup {NoSku} : EditRow(r, to) => UNCHANGED receiver
  BY DEF EditRow
<1>8. \A i \in Shipments : Delete(i) => UNCHANGED receiver
  BY DEF Delete
<1>9. UNCHANGED vars => UNCHANGED receiver
  BY DEF vars
<1>10. QED
  BY <1>0, <1>1, <1>2, <1>3, <1>4, <1>5, <1>6, <1>7, <1>8, <1>9, Steps

\* The steps that change neither a call nor a receipt, and take no shipment away.
LEMMA NamedUntouched ==
    ASSUME ToldInv, NamedInv, UNCHANGED <<receipts, save>>,
           \A i \in Shipments : status'[i] = status[i] \/ status'[i] \in {"open", "received"},
           TypeOK
    PROVE  ToldInv' /\ NamedInv'
<1>1. \A x \in receipts : x.shipment \in Shipments \cup {NoShipment}
  BY DEF TypeOK, Receipts
<1>2. QED
  BY <1>1 DEF ToldInv, NamedInv

LEMMA ToldStep ==
    ASSUME PortalInv, ToldInv, NamedInv, [Next]_vars
    PROVE  ToldInv' /\ NamedInv'
<1>0. TypeOK /\ ReceiverInv /\ SavedInv
  BY DEF PortalInv
<1>1. ASSUME NEW s \in Saves, NEW a \in SUBSET Shipments, Ending(s, a)
      PROVE  ToldInv' /\ NamedInv'
  <2>1. save'[s].pc = "ended" /\ (\A t \in Saves \ {s} : save'[t] = save[t])
        /\ UNCHANGED <<status, receipts>>
    BY <1>0, <1>1, AnswersEffect DEF Ending, EndsWith, saving
  <2>2. QED
    BY <2>1 DEF ToldInv, NamedInv
<1>2. ASSUME NEW s \in Saves, Accept(s)
      PROVE  ToldInv' /\ NamedInv'
  <2>1. /\ save[s].pc = "sent" /\ save'[s].answer = save[s].answer
        /\ \A t \in Saves \ {s} : save'[t] = save[t]
        /\ UNCHANGED <<status, receipts>>
    BY <1>0, <1>2, AcceptEffect DEF saving
  <2>2. QED
    BY <2>1 DEF ToldInv, NamedInv
<1>3. ASSUME NEW s \in Saves, NEW ships \in [PartsOf(s) -> Unsaved],
             NEW a \in SUBSET Shipments, Committed(s, ships, a)
      PROVE  ToldInv' /\ NamedInv'
  <2>1. /\ save'[s].pc = "ended" /\ \A t \in Saves \ {s} : save'[t] = save[t]
        /\ receipts' = receipts \cup ReceiptsFor(s, ships)
        /\ \A i \in Shipments \ Made(s, ships) : status'[i] = status[i]
        /\ \A i \in Made(s, ships) : status[i] = "absent" /\ status'[i] \in {"open", "received"}
    BY <1>0, <1>3, CommittedEffect
  <2>2. \A x \in ReceiptsFor(s, ships) : x.shipment \in Made(s, ships)
    BY <1>0, ReceiptsForType DEF Made
  <2>3. \A x \in receipts : x.shipment \in Shipments \cup {NoShipment}
    BY <1>0 DEF TypeOK, Receipts
  <2>4. \A x \in receipts : x.shipment # NoShipment => status'[x.shipment] \in {"open", "received"}
    BY <2>1, <2>3 DEF NamedInv
  <2>5. NamedInv'
    BY <2>1, <2>2, <2>4 DEF NamedInv
  <2>6. ToldInv'
    BY <2>1 DEF ToldInv
  <2>7. QED
    BY <2>5, <2>6
<1>4. ASSUME NEW q \in Receivers, ReceiveCommit(q)
      PROVE  ToldInv' /\ NamedInv'
  <2>1. UNCHANGED <<receipts, save>>
    BY <1>4 DEF ReceiveCommit
  <2>2. status' = [status EXCEPT ![receiver[q].shown.shipment] = "received"]
    BY <1>4, ReceiveCommitEffect
  <2>3. \A i \in Shipments : status'[i] = status[i] \/ status'[i] \in {"open", "received"}
    BY <1>0, <2>2 DEF TypeOK
  <2>4. QED
    BY <1>0, <2>1, <2>3, NamedUntouched
<1>5. ASSUME NEW i \in Shipments, Delete(i)
      PROVE  ToldInv' /\ NamedInv'
  <2>1. /\ UNCHANGED save /\ \A j \in Shipments \ {i} : status'[j] = status[j]
        /\ receipts' = {IF x.shipment = i THEN [x EXCEPT !.shipment = NoShipment] ELSE x :
                           x \in receipts}
    BY <1>0, <1>5 DEF Delete, TypeOK
  <2>2. \A x \in receipts : x \in Receipts
    BY <1>0 DEF TypeOK
  <2>3. ASSUME NEW y \in receipts', y.shipment # NoShipment
        PROVE  status'[y.shipment] \in {"open", "received"}
    <3>1. PICK x \in receipts :
            y = IF x.shipment = i THEN [x EXCEPT !.shipment = NoShipment] ELSE x
      BY <2>1
    <3>2. x.shipment # i /\ y = x
      BY <2>2, <2>3, <3>1 DEF Receipts
    <3>3. QED
      BY <2>1, <2>2, <2>3, <3>2 DEF NamedInv, Receipts
  <2>4. QED
    BY <2>1, <2>3 DEF ToldInv, NamedInv
<1>6. ASSUME UNCHANGED <<status, receipts, save>>
      PROVE  ToldInv' /\ NamedInv'
  BY <1>6 DEF ToldInv, NamedInv
<1>7. \A q \in Receivers : ReceiverOnly(q) => UNCHANGED <<status, receipts, save>>
  BY DEF ReceiverOnly, saving
<1>8. \A r \in Rows, to \in Lines \cup {NoSku} : EditRow(r, to) => UNCHANGED <<status, receipts, save>>
  BY DEF EditRow, saving
<1>9. UNCHANGED vars => UNCHANGED <<status, receipts, save>>
  BY DEF vars
<1>10. QED
  BY <1>0, <1>1, <1>2, <1>3, <1>4, <1>5, <1>6, <1>7, <1>8, <1>9, Steps


\* A call that ends without saving was told nothing, or repeats another.
LEMMA EndingSimulated ==
    ASSUME DeskInv, NEW s \in Saves, NEW a \in SUBSET Shipments, Ending(s, a)
    PROVE  Desk!Next \/ UNCHANGED deskVars
<1>0. TypeOK /\ ReceiptInv /\ SavedInv /\ OneSavePerKey /\ ToldInv /\ NamedInv
  BY DEF DeskInv, PortalInv
<1>1. /\ Steadfast /\ save[s].pc \in {"sent", "writing"}
      /\ save'[s].answer = a
      /\ \A t \in Saves \ {s} : save'[t] = save[t]
      /\ UNCHANGED <<status, receivedQty, savedBy, ledger, sku>>
  BY <1>0, AnswersEffect DEF Ending, EndsWith, saving, receiving
<1>2. Request' = Request /\ save[s].answer = {}
  BY <1>0, <1>1, SameRequests DEF ToldInv
<1>3. Told' = [Told EXCEPT ![s] = a]
  BY <1>1 DEF Told
<1>4. CASE a = {}
  <2>1. Told' = Told
    BY <1>2, <1>3, <1>4 DEF Told
  <2>2. QED
    BY <1>1, <1>2, <2>1 DEF deskVars
<1>5. CASE a # {}
  <2>1. Replay(s) /\ a = {x.shipment : x \in Replayed(s)}
    BY <1>5 DEF Ending
  <2>2. PICK t \in Saves : SameRequest(s, t) /\ a = {i \in Shipments : savedBy[i] = t}
    BY <1>0, <2>1, ReplayIsWhole
  <2>3. Desk!Made(t) = a
    BY <2>2 DEF Desk!Made
  <2>4. Request[s] = Request[t]
    BY <2>2 DEF SameRequest, Request, Asked
  <2>5. Replayed(s) \subseteq receipts /\ \A x \in Replayed(s) : x.shipment # NoShipment
    BY <2>1 DEF Replay, Replayed, Previous
  <2>6. \A i \in a : status[i] # "deleted"
    BY <1>0, <2>1, <2>5 DEF NamedInv
  <2>7. Desk!Repeat(s, t)
    BY <1>1, <1>2, <1>3, <1>5, <2>3, <2>4, <2>6 DEF Desk!Repeat, Desk!stock, Request, Told
  <2>8. QED
    BY <2>7 DEF Desk!Next
<1>6. QED
  BY <1>4, <1>5

\* A commit saves all of a request whose key nobody has used.
LEMMA CommitSimulated ==
    ASSUME DeskInv, NEW s \in Saves, NEW ships \in [PartsOf(s) -> Unsaved],
           NEW a \in SUBSET Shipments, Committed(s, ships, a)
    PROVE  Desk!Save(s)
<1> DEFINE made == Made(s, ships)
<1>0. TypeOK /\ LockInv /\ SavedInv /\ ToldInv
  BY DEF DeskInv, PortalInv
<1>1. /\ Steadfast /\ save[s].pc = "writing" /\ save'[s].answer = a
      /\ \A t \in Saves \ {s} : save'[t] = save[t]
      /\ a \in {{}, made} /\ made \subseteq Shipments
      /\ \A i \in Shipments : savedBy[i] # s
      /\ \A i \in Shipments \ made : status'[i] = status[i]
      /\ \A i \in made : status[i] = "absent" /\ status'[i] \in {"open", "received"}
      /\ UNCHANGED <<receivedQty, receiving>>
  <2>1. \A i \in made : ~Authored(i)
    BY <1>0, CommittedEffect
  <2>2. \A i \in Shipments : savedBy[i] # s
    BY <1>0, <2>1, CommittedEffect DEF Authored
  <2>3. QED
    BY <1>0, <2>2, CommittedEffect
<1>2. savedBy' = [i \in Shipments |-> IF i \in made THEN s ELSE savedBy[i]]
      /\ status' \in [Shipments -> Statuses]
      /\ \A m, n \in PartsOf(s) : ships[m] = ships[n] => m = n
  BY DEF Committed
<1>3. Request' = Request /\ save[s].answer = {}
  BY <1>0, <1>1, SameRequests DEF ToldInv
<1>4. Told' \in {Told, [Told EXCEPT ![s] = made]}
  <2>1. Told' = [Told EXCEPT ![s] = a]
    BY <1>1 DEF Told
  <2>2. Told = [Told EXCEPT ![s] = {}]
    BY <1>3 DEF Told
  <2>3. QED
    BY <1>1, <2>1, <2>2
<1>5. Desk!Made(s) = {} /\ Told[s] = {}
  BY <1>1, <1>3 DEF Desk!Made, Told
<1>6. Request[s].key # NoKey => ~Desk!Used(Request[s].key)
  <2>1. SUFFICES ASSUME Request[s].key # NoKey, NEW i \in Shipments, savedBy[i] # Nobody,
                        Request[savedBy[i]].key = Request[s].key
                 PROVE  FALSE
    BY DEF Desk!Used, Request
  <2>2. Authored(i) /\ Author(i) = savedBy[i] /\ Author(i) \in Saves
    BY <1>0, <2>1, AuthorType DEF Authored, Author
  <2>3. save[Author(i)].key = save[s].key /\ Keyed(s) /\ Keyed(Author(i))
    BY <2>1, <2>2 DEF Request, Asked, Keyed
  <2>4. PICK x \in receipts : x.key = save[Author(i)].key
    BY <1>0, <2>2, <2>3 DEF SavedInv
  <2>5. QED
    BY <1>0, <1>1, <2>3, <2>4 DEF LockInv
<1>7. ships \in [Desk!Parts(Request[s]) -> Desk!Absent] /\ Desk!Distinct(ships)
      /\ made = {ships[n] : n \in DOMAIN ships}
  <2>1. Desk!Parts(Request[s]) = PartsOf(s)
    BY DEF Desk!Parts, PartsOf, Size, Request, Asked
  <2>2. Unsaved \subseteq Desk!Absent
    BY <1>0 DEF Unsaved, Desk!Absent, SavedInv, Authored
  <2>3. DOMAIN ships = PartsOf(s)
    OBVIOUS
  <2>4. ships \in [PartsOf(s) -> Desk!Absent]
    BY <2>2
  <2>5. QED
    BY <1>2, <2>1, <2>3, <2>4 DEF Desk!Distinct, Made
<1>8. \E st \in [made -> {"open", "received"}] :
        status' = [i \in Shipments |-> IF i \in made THEN st[i] ELSE status[i]]
  <2> DEFINE st == [i \in made |-> status'[i]]
  <2>1. st \in [made -> {"open", "received"}]
    BY <1>1
  <2>2. status' = [i \in Shipments |-> IF i \in made THEN st[i] ELSE status[i]]
    BY <1>1, <1>2
  <2>3. QED
    BY <2>1, <2>2
<1>9. UNCHANGED <<Request, receivedQty, ledger, sku>>
  BY <1>1, <1>3 DEF receiving
<1> HIDE DEF made
<1>10. \E f \in [Desk!Parts(Request[s]) -> Desk!Absent] :
         /\ Desk!Distinct(f)
         /\ savedBy' = [i \in Shipments |-> IF i \in {f[n] : n \in DOMAIN f} THEN s ELSE savedBy[i]]
         /\ Told' \in {Told, [Told EXCEPT ![s] = {f[n] : n \in DOMAIN f}]}
         /\ \E st \in [{f[n] : n \in DOMAIN f} -> {"open", "received"}] :
               status' = [i \in Shipments |->
                            IF i \in {f[n] : n \in DOMAIN f} THEN st[i] ELSE status[i]]
  <2>1. made = {ships[n] : n \in DOMAIN ships} /\ Desk!Distinct(ships)
        /\ ships \in [Desk!Parts(Request[s]) -> Desk!Absent]
    BY <1>7
  <2>2. savedBy' = [i \in Shipments |->
                      IF i \in {ships[n] : n \in DOMAIN ships} THEN s ELSE savedBy[i]]
    BY <1>2, <2>1, Zenon
  <2>3. Told' \in {Told, [Told EXCEPT ![s] = {ships[n] : n \in DOMAIN ships}]}
    BY <1>4, <2>1, Zenon
  <2>4. \E st \in [{ships[n] : n \in DOMAIN ships} -> {"open", "received"}] :
           status' = [i \in Shipments |->
                        IF i \in {ships[n] : n \in DOMAIN ships} THEN st[i] ELSE status[i]]
    BY <1>8, <2>1, Zenon
  <2>5. QED
    BY <2>1, <2>2, <2>3, <2>4, Zenon
<1>11. UNCHANGED <<Request, <<receivedQty, ledger, sku>>>>
  BY <1>9
<1>12. QED
  BY <1>5, <1>6, <1>10, <1>11, Zenon DEF Desk!Save, Desk!stock, Request, Told

\* A receipt books what its operator was shown, each line to its one row, which
\* carries the line's SKU.
LEMMA ReceiveSimulated ==
    ASSUME DeskInv, NEW q \in Receivers, ReceiveCommit(q)
    PROVE  Desk!Next
<1> DEFINE p == receiver[q].shown
           i == p.shipment
<1>0. PortalInv /\ ReceiverInv /\ ShownInv
  BY DEF DeskInv, PortalInv
<1>1. /\ p \in Previews /\ status[i] = "open" /\ receiver[q].pc = "writing"
      /\ status' = [status EXCEPT ![i] = "received"]
      /\ receivedQty' = [receivedQty EXCEPT ![i] = p.qty]
      /\ ledger' = ledger \cup Planned(p)
      /\ UNCHANGED sku
  BY <1>0, ReceiveCommitEffect
<1>2. UNCHANGED <<Request, Told, savedBy>>
  BY DEF ReceiveCommit, Request, Told, Asked
<1>3. i \in Shipments /\ p.qty \in [Lines -> Quantities] /\ p.add \in BOOLEAN
  BY <1>1 DEF Previews
<1>4. CanConfirm(p) /\ \A l \in Lines : \A r \in p.targets[l] : sku[r] = l
  BY <1>0, <1>1 DEF ShownInv, ReceiverInv
<1> HIDE DEF p
<1> DEFINE stocked == Stocked(p)
           row == [l \in stocked |-> CHOOSE r \in Rows : p.targets[l] = {r}]
<1>5. stocked \in SUBSET Lines /\ stocked \in {{}, {l \in Lines : p.qty[l] > 0}}
  BY <1>3 DEF Stocked
<1>6. \A l \in stocked : row[l] \in Rows /\ p.targets[l] = {row[l]}
  BY <1>4 DEF CanConfirm
<1>7. row \in [stocked -> Rows] /\ \A l \in stocked : sku[row[l]] = l
  BY <1>4, <1>5, <1>6
<1>8. Planned(p) = {[shipment |-> i, line |-> l, row |-> row[l], qty |-> p.qty[l]] : l \in stocked}
  BY <1>6 DEF Planned, Movement
<1> HIDE DEF stocked, row
<1>9. Desk!Receive(i)
  BY <1>1, <1>2, <1>3, <1>5, <1>7, <1>8 DEF Desk!Receive, Desk!saves, Request, Told
<1>10. QED
  BY <1>3, <1>9 DEF Desk!Next

LEMMA DeskSimulated ==
    ASSUME DeskInv, [Next]_vars
    PROVE  Desk!Next \/ UNCHANGED deskVars
<1>0. TypeOK /\ ReceiverInv
  BY DEF DeskInv, PortalInv
<1>1. ASSUME NEW s \in Saves, Accept(s)
      PROVE  UNCHANGED deskVars
  <2>1. Steadfast /\ \A t \in Saves : save'[t].answer = save[t].answer
    BY <1>0, <1>1, AcceptEffect
  <2>2. Request' = Request /\ Told' = Told
    BY <2>1, SameRequests DEF Told
  <2>3. QED
    BY <1>1, <2>2 DEF Accept, saving, receiving, deskVars
<1>2. ASSUME NEW s \in Saves, NEW ships \in [PartsOf(s) -> Unsaved],
             NEW a \in SUBSET Shipments, Committed(s, ships, a)
      PROVE  Desk!Next
  BY <1>2, CommitSimulated DEF Desk!Next
<1>3. ASSUME NEW q \in Receivers, ReceiverOnly(q)
      PROVE  UNCHANGED deskVars
  BY <1>3 DEF ReceiverOnly, saving, deskVars, Request, Asked, Told
<1>4. ASSUME NEW r \in Rows, NEW to \in Lines \cup {NoSku}, EditRow(r, to)
      PROVE  Desk!Next
  <2>1. UNCHANGED <<Request, Told, savedBy, status, receivedQty, ledger>>
        /\ sku' = [sku EXCEPT ![r] = to]
    BY <1>4 DEF EditRow, saving, Request, Asked, Told
  <2>2. Desk!Edit(r)
    BY <2>1 DEF Desk!Edit, Desk!saves, Request, Told
  <2>3. QED
    BY <2>2 DEF Desk!Next
<1>5. ASSUME NEW i \in Shipments, Delete(i)
      PROVE  Desk!Next
  <2>1. UNCHANGED <<Request, Told, savedBy, receivedQty, ledger, sku>>
        /\ status[i] \in {"open", "received"} /\ status' = [status EXCEPT ![i] = "deleted"]
    BY <1>5 DEF Delete, Request, Asked, Told
  <2>2. Desk!Delete(i)
    BY <2>1 DEF Desk!Delete, Desk!saves, Desk!stock, Request, Told
  <2>3. QED
    BY <2>2 DEF Desk!Next
<1>6. UNCHANGED vars => UNCHANGED deskVars
  BY DEF vars, deskVars, Request, Asked, Told
<1>7. QED
  BY <1>0, <1>1, <1>2, <1>3, <1>4, <1>5, <1>6, Steps, EndingSimulated, ReceiveSimulated

\* However calls that save or repeat a save, previews, receipts, edits and deletions
\* interleave, and whichever of them fail, the portal behaves as a desk that serves
\* one request at a time, a key once and a shipment once (createPortalInbound,
\* importPortalInbound, receivePortalInbound).
THEOREM DeskImplemented == Spec => ImplementsInboundDesk
<1>1. Init => Desk!Init /\ DeskInv
  BY DeskInit
<1>2. DeskInv /\ [Next]_vars => DeskInv'
  BY InvStep, ShownStep, ToldStep DEF DeskInv
<1>3. DeskInv /\ [Next]_vars => [Desk!Next]_Desk!desk
  BY DeskSimulated DEF Desk!desk, Desk!saves, Desk!stock, deskVars, Request, Told
<1>4. QED
  BY <1>1, <1>2, <1>3, PTL DEF Spec, ImplementsInboundDesk, Desk!Spec
=============================================================================
