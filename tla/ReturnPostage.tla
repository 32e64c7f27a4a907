---------------------------- MODULE ReturnPostage ----------------------------
(* What ReturnLabel keeps true of the money: which purchase of a key may still *)
(* be sold, and which row describes it.  PostageInv is the inductive invariant *)
(* behind the statements about labels, receipts and rates; it holds whether or *)
(* not the shipment sync writes the rows too.  TLC checks it as an invariant   *)
(* of the reachable states; ReturnPostageProofs proves it.                     *)
EXTENDS ReturnLabelRefinement

\* The steps at which a request may still write the intent under the lease it drew.
HolderSteps == LeaseSteps \cup {"markFailed", "markUnknown"}

\* A lease belongs to one request and to the key it was drawn for, and the intent
\* is being purchased under the last one.
LeasesDistinct ==
    /\ intent.state = "purchasing" => intent.lease = attempt
    /\ \A r \in Requests : pc[r] \in HolderSteps =>
          /\ snap[r].lease \in 1..attempt
          /\ Owns(r) => snap[r].key = intent.key
          /\ \A q \in Requests :
                pc[q] \in HolderSteps /\ snap[q].lease = snap[r].lease => q = r

\* A call was sent under a lease that was drawn, and a request that has not sent
\* its call, or has the answer, has none in flight.
CallsSent ==
    /\ \A c \in calls : c[1] <= intent.key /\ c[2] \in 1..attempt
    /\ Recovered # {} \/ \A k \in Keys : label[k] # "none" => k <= intent.key
    /\ \A r \in Requests :
          pc[r] \in HolderSteps \ {"calling", "markUnknown"} =>
              \/ <<snap[r].key, snap[r].lease>> \notin calls
              \/ pc[r] = "markFailed" /\ snap[r].key \in disowned

\* A receipt is kept for the key it was given for, until the purchase is completed.
ReceiptsMatch ==
    /\ intent.receipt # 0 =>
          /\ intent.state = "purchased"
          /\ intent.receipt = intent.key \/ intent.key \in Recovered
    /\ \A r \in Requests :
          pc[r] \in {"record", "recordRecovered", "persist"} =>
              \/ snap[r].receipt = snap[r].key
              \/ snap[r].key \in Recovered

\* What a request is about to link has its customer money frozen.
TargetsFrozen ==
    \A r \in Requests :
        \/ pc[r] \in {"complete", "writeAlias", "link"}
        \/ pc[r] = "completeExisting" /\ snap[r].wasFrozen
        => snap[r].target \in frozen

\* The row of a key is there only once the key was drawn.
RowsDrawn == \A k \in Keys : ship[k] # "absent" => k <= intent.key

\* What the sync read is of a label that was sold, and voided only if that was; a row
\* it inserted describes such a label.
SyncTold ==
    /\ \A k \in Keys : /\ page[k] # "unread" => label[k] # "none"
                       /\ page[k] = "voided" => label[k] = "voided"
    /\ \A m \in Mirrors :
          ship[m] # "absent" => carries[m] \in Keys /\ label[carries[m]] # "none"

\* A void reaches a row of the carrier's only through the carrier, and the sync shows a
\* purchased row voided only when its label is.
VoidsAtCarrier ==
    /\ \A v \in Voiders : pc[v] # "idle" =>
          /\ goal[v] \in Ships /\ ship[goal[v]] # "absent"
          /\ pc[v] = "provider" => goal[v] \notin External
          /\ pc[v] = "finalize" /\ goal[v] \in Keys =>
                goal[v] \in Recovered \/ label[goal[v]] = "voided"
    /\ \A k \in Keys : Voided(k) => k \in Recovered \/ label[k] = "voided"

\* A completed intent has the row of its current key, whatever the sync makes of it.
CompletedOwnsRow ==
    intent.state = "completed" =>
        \/ intent.ship = intent.key /\ ship[intent.ship] # "absent"
        \/ intent.key \in Overwritten

\* The key is rotated past labels that are voided at the carrier.
OldKeysVoided ==
    \A k \in Keys : k < intent.key => label[k] = "voided" \/ k \in Overwritten

\* The intent answers for what a call under this key and lease may still buy.
Covered(k, lease) ==
    /\ k = intent.key
    /\ \/ intent.state = "completed"
       \/ intent.rated /\ intent.state \in {"unknown_outcome", "purchased"}
       \/ intent.rated /\ intent.state = "purchasing" /\ intent.lease = lease

\* A call for the key under the lease is in flight, or about to be sent.
Exposed(k, lease) ==
    \/ <<k, lease>> \in calls
    \/ \E r \in Requests : pc[r] = "send" /\ snap[r].key = k /\ snap[r].lease = lease

\* A label that was sold, or may still be, is covered; and one sold under the running
\* lease is the answer its request waits for.
SalesCovered(k) ==
    /\ label[k] = "live" => Covered(k, intent.lease)
    /\ \A lease \in Attempts : Exposed(k, lease) => Covered(k, lease)
    /\ \A r \in Requests :
          pc[r] \in HolderSteps /\ Owns(r) /\ snap[r].key = k /\ label[k] = "live" =>
              /\ pc[r] \in {"calling", "markUnknown", "record"}
              /\ <<k, snap[r].lease>> \notin calls

EverySaleCovered ==
    \A k \in Keys :
        k \in disowned \/ k \in Overwritten \/ label[k] = "voided" \/ SalesCovered(k)

\* A key was disowned while it was the current one, and a voided intent has a fresh key.
DisownedDrawn ==
    /\ \A k \in disowned : k <= intent.key
    /\ intent.state = "voided" =>
          /\ intent.key \notin disowned
          /\ \A r \in Requests : pc[r] \in HolderSteps => snap[r].key # intent.key

PostageInv ==
    /\ TypeInv
    /\ TargetsPersisted
    /\ LeasesDistinct
    /\ CallsSent
    /\ ReceiptsMatch
    /\ RowsMatchTheirLabel
    /\ TargetsFrozen
    /\ RowsDrawn
    /\ SyncTold
    /\ VoidsAtCarrier
    /\ CompletedOwnsRow
    /\ OldKeysVoided
    /\ EverySaleCovered
    /\ DisownedDrawn
=============================================================================
