----------------------------- MODULE InboundDesk -----------------------------
(***************************************************************************)
(* What the portal promises those who announce and receive shipments, with *)
(* none of what keeps the promise: no locks, receipts, hashes, previews or *)
(* transactions.  A request saves all its shipments at once and a key only *)
(* once; whoever asks the same may be told the same, while it is there;    *)
(* an open shipment is received once, and what it brings is booked with it *)
(* to rows that carry the SKU at that moment.                              *)
(* PortalInboundRefinement shows that PortalInbound implements it.         *)
(***************************************************************************)
EXTENDS Naturals

CONSTANTS
    Callers,    \* calls that save shipments
    Keys,       \* idempotency keys
    NoKey,      \* the key of a create that sends none
    Details,    \* what a call may ask to save
    BatchSize,  \* shipments in an import
    Shipments,
    Lines,      \* the items of a shipment, named by their SKU
    Rows,       \* inventory rows
    NoSku,      \* the SKU of a row that matches no line
    Quantities,
    Nobody      \* not a caller

VARIABLES
    request,  \* what each call asks
    told,     \* the shipments it is answered with
    status,   \* of a shipment
    by,       \* the call that saved it
    counted,  \* the quantities it was received with
    booked,   \* movements of stock
    sku       \* of a row

saves == <<request, told, by>>
stock == <<counted, booked, sku>>
desk == <<saves, status, stock>>

Requests == {r \in [kind : {"create", "import"}, key : Keys \cup {NoKey}, details : Details] :
                r.kind = "import" => r.key \in Keys}

Init ==
    /\ request \in [Callers -> Requests]
    /\ told = [c \in Callers |-> {}]
    /\ status = [i \in Shipments |-> "absent"]
    /\ by = [i \in Shipments |-> Nobody]
    /\ counted = [i \in Shipments |-> [l \in Lines |-> 0]]
    /\ booked = {}
    /\ sku \in [Rows -> Lines \cup {NoSku}]

Made(c) == {i \in Shipments : by[i] = c}

Absent == {i \in Shipments : status[i] = "absent"}

Used(k) == \E i \in Shipments : by[i] # Nobody /\ request[by[i]].key = k

Parts(r) == 0 .. (IF r.kind = "import" THEN BatchSize ELSE 1) - 1

Distinct(ships) == \A m, n \in DOMAIN ships : ships[m] = ships[n] => m = n

\* The caller may not hear of it.
Save(c) ==
    /\ Made(c) = {} /\ told[c] = {}
    /\ request[c].key # NoKey => ~Used(request[c].key)
    /\ UNCHANGED <<request, stock>>
    /\ \E ships \in [Parts(request[c]) -> Absent] :
        LET made == {ships[n] : n \in DOMAIN ships} IN
        /\ Distinct(ships)
        /\ by' = [i \in Shipments |-> IF i \in made THEN c ELSE by[i]]
        /\ told' \in {told, [told EXCEPT ![c] = made]}
        /\ \E st \in [made -> {"open", "received"}] :
              status' = [i \in Shipments |-> IF i \in made THEN st[i] ELSE status[i]]

\* A call that repeats another is told of the shipments the other one saved.
Repeat(c, d) ==
    /\ told[c] = {}
    /\ request[c] = request[d]
    /\ Made(d) # {} /\ \A i \in Made(d) : status[i] # "deleted"
    /\ told' = [told EXCEPT ![c] = Made(d)]
    /\ UNCHANGED <<request, by, status, stock>>

\* Its lines bring stock, or none of them does.
Receive(i) ==
    /\ status[i] = "open"
    /\ status' = [status EXCEPT ![i] = "received"]
    /\ \E qty \in [Lines -> Quantities], stocked \in SUBSET Lines :
        /\ counted' = [counted EXCEPT ![i] = qty]
        /\ stocked \in {{}, {l \in Lines : qty[l] > 0}}
        /\ \E row \in [stocked -> Rows] :
            /\ \A l \in stocked : sku[row[l]] = l
            /\ booked' = booked \cup
                  {[shipment |-> i, line |-> l, row |-> row[l], qty |-> qty[l]] : l \in stocked}
    /\ UNCHANGED <<saves, sku>>

Edit(r) ==
    /\ \E to \in Lines \cup {NoSku} : sku' = [sku EXCEPT ![r] = to]
    /\ UNCHANGED <<saves, status, counted, booked>>

Delete(i) ==
    /\ status[i] \in {"open", "received"}
    /\ status' = [status EXCEPT ![i] = "deleted"]
    /\ UNCHANGED <<saves, stock>>

Next ==
    \/ \E c \in Callers : Save(c) \/ \E d \in Callers : Repeat(c, d)
    \/ \E i \in Shipments : Receive(i) \/ Delete(i)
    \/ \E r \in Rows : Edit(r)

Spec == Init /\ [][Next]_desk
=============================================================================
