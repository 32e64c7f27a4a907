----------------------- MODULE PortalInboundRefinement -----------------------
(* PortalInbound implements the promise of InboundDesk: what the tables show *)
(* and what the calls were answered with.  Receipts, locks, previews and the *)
(* transactions in progress are not seen.                                    *)
EXTENDS PortalInboundInductive

Asked(s) == [kind |-> save[s].kind, key |-> save[s].key, details |-> save[s].details]

Desk == INSTANCE InboundDesk WITH
    Callers <- Saves,
    request <- [s \in Saves |-> Asked(s)],
    told    <- [s \in Saves |-> save[s].answer],
    by      <- savedBy,
    counted <- receivedQty,
    booked  <- ledger

\* Nobody is answered before he ends, a receipt that names a shipment names one
\* that is there, and what an operator is shown can be confirmed.
ToldInv == \A s \in Saves : save[s].pc # "ended" => save[s].answer = {}
NamedInv ==
    \A x \in receipts : x.shipment # NoShipment => status[x.shipment] \in {"open", "received"}
ShownInv == \A q \in Receivers : receiver[q].pc # "idle" => CanConfirm(receiver[q].shown)

DeskInv == PortalInv /\ ToldInv /\ NamedInv /\ ShownInv

\* However calls that save, repeat, preview, confirm, edit and delete interleave
\* and fail, the portal behaves as a desk that serves one of them at a time
\* (createPortalInbound, importPortalInbound, receivePortalInbound).
ImplementsInboundDesk == Desk!Spec
=============================================================================
