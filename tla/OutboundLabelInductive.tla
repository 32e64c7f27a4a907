----------------------- MODULE OutboundLabelInductive -----------------------
(* The inductive invariant behind the properties of OutboundLabel.          *)
EXTENDS OutboundLabel

\* A label nobody has sold is nowhere.
UnsoldInv ==
    \A l \in Labels :
        kind[l] = "none" => postage[l] = "unsold" /\ row[l] = "none" /\ dup[l] = "none"

\* A request holds a label of its kind from the purchase to its end; once it
\* has saved the row, the row is there.
RequestInv ==
    \A r \in Requests :
        /\ req[r].pc \in {"bought", "saved", "marked"} =>
              req[r].label \in Labels /\ kind[req[r].label] = req[r].kind
        /\ req[r].pc \in {"saved", "marked"} => row[req[r].label] # "none"

\* A void has read a row of a label that was sold; what it has told the
\* provider is void in the provider's books.
VoidInv ==
    \A v \in Voids :
        /\ void[v].pc \in {"read", "told"} =>
              void[v].label \in Labels /\ kind[void[v].label] # "none"
        /\ void[v].pc = "told" /\ kind[void[v].label] = "shipstation" =>
              postage[void[v].label] = "void"

\* The sync writes only what was on its page, a label it read as voided is void
\* for good, and a row it updates exists.
SyncInv ==
    /\ \A l \in sync.live \cup sync.dead : kind[l] = "shipstation"
    /\ \A l \in sync.dead : postage[l] = "void"
    /\ sync.inserts \subseteq sync.live \cup sync.dead
    /\ \A u \in sync.updates : u[1] \in sync.live \cup sync.dead /\ RowOf(u[1], u[2]) # "none"

\* What no import reopens.
Shut == IF Marketplace THEN {"shipped"} ELSE Closed

\* In the opening in which a direct label was persisted the order is shut.
DirectInv ==
    \A l \in Labels :
        kind[l] = "direct" /\ row[l] # "none" =>
            /\ persistedIn[l] <= opening
            /\ persistedIn[l] = opening => order \in Shut

OutboundInv ==
    /\ TypeOK
    /\ UnsoldInv
    /\ RequestInv
    /\ VoidInv
    /\ SyncInv
    /\ DirectInv
    /\ PostageAccounted
    /\ OneDirectLabelPerOpening
    /\ VoidShownIsVoid
=============================================================================
