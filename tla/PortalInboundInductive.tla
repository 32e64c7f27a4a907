----------------------- MODULE PortalInboundInductive -----------------------
(* The inductive invariant behind the properties of PortalInbound.          *)
EXTENDS PortalInbound

Keyed(s) == save[s].key # NoKey

\* The call that a saved shipment comes from.
Author(i) == savedBy[i]
Authored(i) == savedBy[i] # Nobody

\* x is the receipt of shipment i, deleted or not.
ReceiptOf(x, i) ==
    /\ x.key = save[Author(i)].key /\ x.hash = Hash(Author(i)) /\ x.part \in PartsOf(Author(i))
    /\ x.shipment \in {i, NoShipment}

\* While a call writes nobody else writes under its key, and no receipt has it.
LockInv ==
    \A s \in Saves : save[s].pc = "writing" /\ Keyed(s) =>
        /\ \A t \in Saves : save[t].pc = "writing" /\ save[t].key = save[s].key => t = s
        /\ \A x \in receipts : x.key # save[s].key

\* Every receipt is a shipment's.
ReceiptInv == \A x \in receipts : \E i \in Shipments : Authored(i) /\ ReceiptOf(x, i)

\* Every shipment saved under a key has its receipt, and the key its first one;
\* what no call has saved does not exist.
SavedInv ==
    \A i \in Shipments :
        /\ ~Authored(i) => status[i] = "absent"
        /\ Authored(i) => save[Author(i)].pc = "ended"
        /\ Authored(i) /\ Keyed(Author(i)) =>
              /\ \E x \in receipts : ReceiptOf(x, i)
              /\ \E x \in receipts : x.key = save[Author(i)].key /\ x.part = 0

\* A receipt being written is of an open shipment nobody else receives, and the
\* rows that match its lines are held.
ReceiverInv ==
    \A q \in Receivers :
        /\ receiver[q].pc # "idle" => receiver[q].shown \in Previews
        /\ receiver[q].pc = "writing" =>
              LET p == receiver[q].shown IN
              /\ status[p.shipment] = "open"
              /\ receiver[q].moves = Planned(p)
              /\ \A l \in Lines : p.targets[l] \subseteq receiver[q].rows
              /\ \A l \in Lines : \A r \in p.targets[l] : sku[r] = l
              /\ \A o \in Receivers : OnShipment(o, p.shipment) => o = q

\* Nobody has received an open shipment.
OpenInv == \A i \in Shipments : status[i] \in {"absent", "open"} => confirmed[i] = Nobody

PortalInv ==
    /\ TypeOK
    /\ LockInv
    /\ ReceiptInv
    /\ SavedInv
    /\ ReceiverInv
    /\ OpenInv
    /\ OneSavePerKey
    /\ AnswersAreWhole
    /\ StockAsShown
=============================================================================
