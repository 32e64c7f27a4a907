------------------------- MODULE ReturnLabelInductive -------------------------
(* The inductive invariant behind ReturnLabel's type invariant and behind    *)
(* AtMostOneActiveLabel.  TLC checks it as an invariant of the reachable      *)
(* states; ReturnLabelProofs proves it inductive.                             *)
EXTENDS ReturnLabel

\* The steps at which a request acts on the key, the lease and the target it read.
LeaseSteps  == {"quote", "saveRate", "send", "calling", "record"}
KeySteps    == LeaseSteps \cup {"lookup", "recordRecovered", "persist"}
TargetSteps == {"freeze", "complete", "completeExisting", "freezeExisting",
                "writeAlias", "freezeCompleted", "link"}

\* A request that buys, recovers or finalizes has a key; one that links has a row.
Usable(step, s) ==
    /\ step \in KeySteps    => s.key \in Keys
    /\ step \in LeaseSteps  => s.lease \in Attempts
    /\ step \in TargetSteps => s.target \in Keys

RequestsUsable == \A r \in Requests : Usable(pc[r], snap[r])

IntentUsable ==
    /\ intent.state = "completed" => intent.ship \in Keys
    /\ intent.state # "none"      => intent.key \in Keys
    /\ intent.state = "none"      => intent.key = 0

\* Nobody acts on a key that has not been drawn yet.
KeysDrawn ==
    /\ intent.ship <= intent.key
    /\ \A r \in Requests : snap[r].key <= intent.key /\ snap[r].target <= intent.key

TypeInv == TypeOK /\ RequestsUsable /\ IntentUsable /\ KeysDrawn

\* A purchase whose row may still appear, or is there, owns the slot for good:
\* neither failed nor claimable.
PurchaseOwnsSlot ==
    /\ Active(intent.key) => intent.state \in {"purchased", "completed"}
    /\ \A r \in Requests :
          pc[r] = "persist" /\ snap[r].key = intent.key =>
              intent.state \in {"purchased", "completed"}

\* An active external label is the linked one, and no purchased row of the current
\* key is there or about to appear.
ExternalExcludesPurchase ==
    \A x \in External :
        Active(x) =>
            /\ ret.ship = x
            /\ intent.state \in {"none", "failed", "voided", "completed"}
            /\ ~Active(intent.key)
            /\ \A r \in Requests : pc[r] = "persist" => snap[r].key # intent.key

\* The sync of an order with a PrepShip outbound label has read nothing to write.
NothingRead == Mirrors = {} => \A k \in Keys : page[k] = "unread"

SlotInv ==
    /\ TypeInv
    /\ NothingRead
    /\ KeyRotatesOncePerVoid
    /\ PurchaseOwnsSlot
    /\ ExternalExcludesPurchase
=============================================================================
