------------------------- MODULE ReturnPostageProofs -------------------------
(* Theorems about the postage of ReturnLabel, for every value of its         *)
(* constants: what was sold is accounted for, and what a row says is true.   *)
EXTENDS ReturnPostage, ReturnLabelProofs, FiniteSetTheorems

-----------------------------------------------------------------------------
(* Who writes what                                                          *)

LEMMA FrozenGrows == [Next]_vars => frozen \subseteq frozen'
<1> SUFFICES ASSUME [Next]_vars PROVE frozen \subseteq frozen'
  OBVIOUS
<1>1. CASE \E r \in Requests : RequestStep(r)
  BY <1>1 DEF RequestStep, ReadReturn, CheckLinked, ReadIntent, CheckActive, AcquireConflict,
     Claim, AcquireRecover, AcquireInProgress, AcquireCompleted, Quote, SaveRate, SendCreate,
     ReceiveReceipt, ReceiveRejection, ReceiveRepostRejection, AbandonCall, Heartbeat,
     MarkUnknown, MarkFailed, MarkReturnFailed, RecordReceipt, Lookup, RecordRecovered, PersistShipment, Freeze, Complete,
     CompleteExisting, WriteAlias, Link, Crash, rows
<1>2. CASE \E v \in Voiders : VoidStep(v)
  BY <1>2 DEF VoidStep, VoidPreflight, VoidAtProvider, VoidFinalize, VoidAborts, rows
<1>3. CASE OtherStep
  BY <1>3 DEF OtherStep, LeaseExpires, ProviderSells, AssignExternal, ResolveNoEffect,
     SyncReads, SyncWrites, TrackingAdvances, Receive, rows
<1>4. QED
  BY <1>1, <1>2, <1>3 DEF Next, vars

\* What an operator certified and what bypassed the slot stay on record.
LEMMA HistoryGrows == [Next]_vars => disowned \subseteq disowned' /\ bypassed \subseteq bypassed'
<1> SUFFICES ASSUME [Next]_vars
             PROVE  disowned \subseteq disowned' /\ bypassed \subseteq bypassed'
  OBVIOUS
<1>1. CASE \E r \in Requests : RequestStep(r)
  BY <1>1 DEF RequestStep, ReadReturn, CheckLinked, ReadIntent, CheckActive, AcquireConflict,
     Claim, AcquireRecover, AcquireInProgress, AcquireCompleted, Quote, SaveRate, SendCreate,
     ReceiveReceipt, ReceiveRejection, ReceiveRepostRejection, AbandonCall, Heartbeat,
     MarkUnknown, MarkFailed, MarkReturnFailed, RecordReceipt, Lookup, RecordRecovered, PersistShipment, Freeze, Complete,
     CompleteExisting, Completed, WriteAlias, Link, Crash, history
<1>2. CASE \E v \in Voiders : VoidStep(v)
  BY <1>2 DEF VoidStep, VoidPreflight, VoidAtProvider, VoidFinalize, VoidAborts, history
<1>3. CASE OtherStep
  BY <1>3 DEF OtherStep, LeaseExpires, ProviderSells, AssignExternal, ResolveNoEffect,
     SyncReads, SyncWrites, TrackingAdvances, Receive, history
<1>4. QED
  BY <1>1, <1>2, <1>3 DEF Next, vars

\* So do the keys that an unfenced write reached.
LEMMA EscapesGrow ==
    ASSUME [Next]_vars
    PROVE  /\ Recovered \subseteq Recovered' /\ Overwritten \subseteq Overwritten'
           /\ Recovered \subseteq Overwritten /\ disowned \subseteq disowned'
BY HistoryGrows DEF Recovered, Overwritten

\* A key is disowned by the operator, or by the request whose repost was rejected.
LEMMA DisownedWriters ==
    [Next]_vars => \/ disowned' = disowned \/ ResolveNoEffect
                   \/ \E r \in Requests : ReceiveRepostRejection(r)
<1> SUFFICES ASSUME [Next]_vars
             PROVE  \/ disowned' = disowned \/ ResolveNoEffect
                    \/ \E r \in Requests : ReceiveRepostRejection(r)
  OBVIOUS
<1>1. CASE \E r \in Requests : RequestStep(r)
  BY <1>1 DEF RequestStep, ReadReturn, CheckLinked, ReadIntent, CheckActive, AcquireConflict,
     Claim, AcquireRecover, AcquireInProgress, AcquireCompleted, Quote, SaveRate, SendCreate,
     ReceiveReceipt, ReceiveRejection, AbandonCall, Heartbeat, MarkUnknown, MarkFailed,
     MarkReturnFailed, RecordReceipt, Lookup, RecordRecovered, PersistShipment, Freeze, Complete,
     CompleteExisting, WriteAlias, Link, Crash, history
<1>2. CASE \E v \in Voiders : VoidStep(v)
  BY <1>2 DEF VoidStep, VoidPreflight, VoidAtProvider, VoidFinalize, VoidAborts, history
<1>3. CASE OtherStep
  BY <1>3 DEF OtherStep, LeaseExpires, ProviderSells, AssignExternal,
     SyncReads, SyncWrites, TrackingAdvances, Receive, history
<1>4. QED
  BY <1>1, <1>2, <1>3 DEF Next, vars

LEMMA LeaseWriters == [Next]_vars => attempt' = attempt \/ \E r \in Requests : Claim(r)
<1> SUFFICES ASSUME [Next]_vars PROVE attempt' = attempt \/ \E r \in Requests : Claim(r)
  OBVIOUS
<1>1. CASE \E r \in Requests : RequestStep(r)
  BY <1>1 DEF RequestStep, ReadReturn, CheckLinked, ReadIntent, CheckActive, AcquireConflict,
     AcquireRecover, AcquireInProgress, AcquireCompleted, Quote, SaveRate, SendCreate,
     ReceiveReceipt, ReceiveRejection, ReceiveRepostRejection, AbandonCall, Heartbeat,
     MarkUnknown, MarkFailed, MarkReturnFailed, RecordReceipt, Lookup, RecordRecovered, PersistShipment, Freeze, Complete,
     CompleteExisting, WriteAlias, Link, Crash, rows
<1>2. CASE \E v \in Voiders : VoidStep(v)
  BY <1>2 DEF VoidStep, VoidPreflight, VoidAtProvider, VoidFinalize, VoidAborts, rows
<1>3. CASE OtherStep
  BY <1>3 DEF OtherStep, LeaseExpires, ProviderSells, AssignExternal, ResolveNoEffect,
     SyncReads, SyncWrites, TrackingAdvances, Receive, rows
<1>4. QED
  BY <1>1, <1>2, <1>3 DEF Next, vars

\* Who writes at the carrier.
LEMMA CarrierWriters ==
    ASSUME [Next]_vars
    PROVE  /\ \/ calls' = calls \/ ProviderSells
              \/ \E r \in Requests : SendCreate(r) \/ ReceiveRejection(r)
           /\ label' = label \/ ProviderSells \/ \E v \in Voiders : VoidAtProvider(v)
<1>1. CASE \E r \in Requests : RequestStep(r)
  BY <1>1 DEF RequestStep, ReadReturn, CheckLinked, ReadIntent, CheckActive, AcquireConflict,
     Claim, AcquireRecover, AcquireInProgress, AcquireCompleted, Quote, SaveRate, SendCreate,
     ReceiveReceipt, ReceiveRejection, ReceiveRepostRejection, AbandonCall, Heartbeat,
     MarkUnknown, MarkFailed, MarkReturnFailed, RecordReceipt, Lookup, RecordRecovered, PersistShipment, Freeze, Complete,
     CompleteExisting, WriteAlias, Link, Crash, provider
<1>2. CASE \E v \in Voiders : VoidStep(v)
  BY <1>2 DEF VoidStep, VoidPreflight, VoidAtProvider, VoidFinalize, VoidAborts, provider
<1>3. CASE OtherStep
  BY <1>3 DEF OtherStep, LeaseExpires, ProviderSells, AssignExternal, ResolveNoEffect,
     SyncReads, SyncWrites, TrackingAdvances, Receive, provider
<1>4. QED
  BY <1>1, <1>2, <1>3 DEF Next, vars

\* The row a purchased shipment describes is written when it is inserted.
LEMMA CarriesWriters ==
    ASSUME [Next]_vars, carries' # carries
    PROVE  SyncWrites \/ \E r \in Requests : PersistShipment(r)
<1>1. CASE \E r \in Requests : RequestStep(r)
  BY <1>1 DEF RequestStep, ReadReturn, CheckLinked, ReadIntent, CheckActive, AcquireConflict,
     Claim, AcquireRecover, AcquireInProgress, AcquireCompleted, Quote, SaveRate, SendCreate,
     ReceiveReceipt, ReceiveRejection, ReceiveRepostRejection, AbandonCall, Heartbeat,
     MarkUnknown, MarkFailed, MarkReturnFailed, RecordReceipt, Lookup, RecordRecovered, Freeze, Complete,
     CompleteExisting, WriteAlias, Link, Crash, rows
<1>2. CASE \E v \in Voiders : VoidStep(v)
  BY <1>2 DEF VoidStep, VoidPreflight, VoidAtProvider, VoidFinalize, VoidAborts, rows
<1>3. CASE OtherStep
  BY <1>3 DEF OtherStep, LeaseExpires, ProviderSells, AssignExternal, ResolveNoEffect,
     SyncReads, TrackingAdvances, Receive, rows
<1>4. QED
  BY <1>1, <1>2, <1>3 DEF Next, vars

-----------------------------------------------------------------------------
(* How a request comes to stand where it stands                             *)

\* The step a request reaches, and the action that takes it there.
Arrives(r) ==
    \/ pc'[r] = "idle"
    \/ pc'[r] \in {"linked", "readIntent", "readActive", "acquire", "returnFailed"}
    \/ pc'[r] = "quote" /\ Claim(r)
    \/ pc'[r] \in {"lookup", "recordRecovered"} /\ AcquireRecover(r)
    \/ pc'[r] = "freezeCompleted" /\ AcquireCompleted(r)
    \/ pc'[r] \in {"saveRate", "markFailed"} /\ Quote(r)
    \/ pc'[r] = "send" /\ SaveRate(r)
    \/ pc'[r] = "calling" /\ (SendCreate(r) \/ Heartbeat(r))
    \/ pc'[r] = "record" /\ ReceiveReceipt(r)
    \/ pc'[r] = "markFailed" /\ (ReceiveRejection(r) \/ ReceiveRepostRejection(r))
    \/ pc'[r] = "markUnknown" /\ AbandonCall(r)
    \/ pc'[r] = "recordRecovered" /\ Lookup(r)
    \/ pc'[r] = "persist" /\ (RecordReceipt(r) \/ RecordRecovered(r))
    \/ pc'[r] = "freeze" /\ PersistShipment(r)
    \/ pc'[r] = "completeExisting" /\ CheckActive(r)
    \/ pc'[r] = "complete" /\ At(r, "freeze") /\ Freeze(r)
    \/ pc'[r] = "writeAlias" /\ At(r, "freezeExisting") /\ Freeze(r)
    \/ pc'[r] = "link" /\ At(r, "freezeCompleted") /\ Freeze(r)
    \/ pc'[r] = "freezeExisting" /\ CompleteExisting(r)
    \/ pc'[r] = "link" /\ (Complete(r) \/ WriteAlias(r))
    \/ pc'[r] = "link" /\ CompleteExisting(r) /\ RateProven(snap[r])

LEMMA Arrival == ASSUME TypeInv, NEW r \in Requests, RequestStep(r) PROVE Arrives(r)
<1>0. ProcsTyped
  BY Parts
<1>1. \A step \in Steps : Goto(r, step) => pc'[r] = step
  BY <1>0 DEF Goto, ProcsTyped
<1>2. CASE Finish(r)
  BY <1>1, <1>2 DEF Finish, Arrives, Steps
<1>3. CASE ReadReturn(r) \/ CheckLinked(r) \/ ReadIntent(r) \/ CheckActive(r)
  BY <1>1, <1>2, <1>3 DEF ReadReturn, CheckLinked, ReadIntent, CheckActive, Arrives, Steps
<1>4. CASE \/ AcquireConflict(r) \/ Claim(r) \/ AcquireRecover(r) \/ AcquireInProgress(r)
           \/ AcquireCompleted(r)
  BY <1>1, <1>2, <1>4 DEF AcquireConflict, Claim, AcquireRecover, AcquireInProgress,
     AcquireCompleted, Arrives, Steps
<1>5. CASE \/ Quote(r) \/ SaveRate(r) \/ SendCreate(r) \/ ReceiveReceipt(r)
           \/ ReceiveRejection(r) \/ ReceiveRepostRejection(r) \/ AbandonCall(r)
  BY <1>1, <1>2, <1>5 DEF Quote, SaveRate, SendCreate, ReceiveReceipt, ReceiveRejection,
     ReceiveRepostRejection, AbandonCall, Arrives, Steps
<1>6. CASE Heartbeat(r) \/ MarkUnknown(r) \/ MarkFailed(r) \/ MarkReturnFailed(r)
  BY <1>1, <1>2, <1>6 DEF Heartbeat, MarkUnknown, MarkFailed, MarkReturnFailed, At, Arrives, Steps
<1>7. CASE RecordReceipt(r) \/ Lookup(r) \/ RecordRecovered(r) \/ PersistShipment(r)
  BY <1>1, <1>2, <1>7 DEF RecordReceipt, Lookup, RecordRecovered, PersistShipment, Arrives, Steps
<1>8. CASE Freeze(r)
  BY <1>1, <1>8 DEF Freeze, AfterFreeze, At, Arrives, Steps
<1>9. CASE CompleteExisting(r)
  BY <1>1, <1>2, <1>9 DEF CompleteExisting, Arrives, Steps
<1>10. CASE Complete(r) \/ WriteAlias(r) \/ Link(r) \/ Crash(r)
  BY <1>1, <1>2, <1>10 DEF Complete, WriteAlias, Link, Crash, Arrives, Steps
<1>11. QED
  BY <1>3, <1>4, <1>5, <1>6, <1>7, <1>8, <1>9, <1>10 DEF RequestStep

\* A request stands still, or takes a step of its own.
LEMMA Moved ==
    ASSUME TypeInv, [Next]_vars, NEW r \in Requests
    PROVE  (pc'[r] = pc[r] /\ snap'[r] = snap[r]) \/ RequestStep(r)
<1>1. CASE UNCHANGED vars
  BY <1>1 DEF vars
<1>2. QED
  BY <1>1, SnapshotOwn, OthersMoveNoRequest DEF Next

\* Only the first step of a purchase draws a lease; the others act under the one drawn.
LEMMA HolderEntered ==
    ASSUME TypeInv, [Next]_vars, NEW r \in Requests, pc'[r] \in HolderSteps
    PROVE  \/ Claim(r)
           \/ /\ pc[r] \in HolderSteps
              /\ snap'[r].key = snap[r].key /\ snap'[r].lease = snap[r].lease
<1>0. ProcsTyped /\ snap[r] \in Snapshot
  BY Parts DEF ProcsTyped
<1>1. CASE pc'[r] = pc[r] /\ snap'[r] = snap[r]
  BY <1>1
<1>2. CASE Arrives(r)
  <2>1. CASE \/ Quote(r) \/ SendCreate(r) \/ ReceiveRejection(r) \/ ReceiveRepostRejection(r)
            \/ AbandonCall(r) \/ Heartbeat(r)
    BY <1>0, <2>1 DEF Quote, SendCreate, ReceiveRejection, ReceiveRepostRejection, AbandonCall,
       Heartbeat, At, HolderSteps, LeaseSteps
  <2>2. CASE pc'[r] = "send" /\ SaveRate(r)
    BY <1>0, <2>2 DEF SaveRate, At, Finish, Goto, ProcsTyped, HolderSteps, LeaseSteps
  <2>3. CASE ReceiveReceipt(r)
    BY <1>0, <2>3 DEF ReceiveReceipt, At, Keeps, ProcsTyped, Snapshot, HolderSteps, LeaseSteps
  <2>4. QED
    BY <1>2, <2>1, <2>2, <2>3 DEF Arrives, HolderSteps, LeaseSteps
<1>3. QED
  BY <1>1, <1>2, Arrival, Moved

-----------------------------------------------------------------------------
(* What a step does to the intent                                           *)

\* The purchase stands; its rate may be put on file, its lease renewed or run out.
PurchaseStands ==
    /\ intent'.state = intent.state /\ intent'.key = intent.key /\ intent'.lease = intent.lease
    /\ intent'.receipt = intent.receipt /\ intent'.ship = intent.ship
    /\ intent.rated => intent'.rated

PurchaseHeld ==
    /\ intent.state = "purchasing" /\ intent'.state = "unknown_outcome"
    /\ intent'.key = intent.key /\ intent'.receipt = intent.receipt
    /\ intent.rated => intent'.rated

PurchaseFailed(r) ==
    /\ MarkFailed(r) /\ Owns(r)
    /\ intent'.state = "failed" /\ intent'.key = intent.key /\ intent'.receipt = 0

PurchaseRecorded(r) ==
    /\ \/ RecordReceipt(r) /\ Owns(r)
       \/ RecordRecovered(r) /\ intent.state \in {"unknown_outcome", "purchased"}
    /\ intent'.state = "purchased" /\ intent'.key = intent.key
    /\ intent'.receipt = snap[r].receipt
    /\ intent.rated => intent'.rated

PurchaseCompleted(r) ==
    /\ Complete(r) \/ CompleteExisting(r)
    /\ intent'.state = "completed" /\ intent'.key = intent.key /\ intent'.receipt = 0
    /\ intent'.ship = snap[r].target

PurchaseReleased(v) ==
    /\ VoidFinalize(v) /\ intent.state = "completed" /\ intent.ship = goal[v]
    /\ intent'.state = "voided" /\ intent'.key = intent.key + 1
    /\ intent'.receipt = intent.receipt

PurchaseResolved ==
    /\ ResolveNoEffect
    /\ intent'.state = "failed" /\ intent'.key = intent.key /\ intent'.receipt = 0

LEMMA PurchaseMoves ==
    ASSUME TypeInv, [Next]_vars
    PROVE  \/ PurchaseStands \/ PurchaseHeld \/ PurchaseResolved
           \/ \E r \in Requests :
                 Claim(r) \/ PurchaseFailed(r) \/ PurchaseRecorded(r) \/ PurchaseCompleted(r)
           \/ \E v \in Voiders : PurchaseReleased(v)
<1>0. intent \in Intents
  BY Parts DEF IntentTyped
<1>1. CASE intent' = intent
  BY <1>1 DEF PurchaseStands
<1>2. ASSUME NEW r \in Requests, AcquireRecover(r) \/ MarkUnknown(r), intent' # intent
      PROVE  PurchaseHeld
  BY <1>0, <1>2 DEF AcquireRecover, MarkUnknown, Owns, Held, Intents, PurchaseHeld
<1>3. ASSUME NEW r \in Requests, SaveRate(r) \/ Heartbeat(r)
      PROVE  PurchaseStands
  BY <1>0, <1>3 DEF SaveRate, Heartbeat, Intents, PurchaseStands
<1>4. ASSUME NEW r \in Requests, MarkFailed(r), intent' # intent
      PROVE  PurchaseFailed(r)
  BY <1>0, <1>4 DEF MarkFailed, Intents, PurchaseFailed
<1>5. ASSUME NEW r \in Requests, RecordReceipt(r) \/ RecordRecovered(r), intent' # intent
      PROVE  PurchaseRecorded(r)
  BY <1>0, <1>5 DEF RecordReceipt, RecordRecovered, Intents, PurchaseRecorded
<1>6. ASSUME NEW r \in Requests, Complete(r) \/ CompleteExisting(r)
      PROVE  PurchaseCompleted(r)
  BY <1>0, <1>6 DEF Complete, CompleteExisting, Completed, Intents, PurchaseCompleted
<1>7. ASSUME NEW v \in Voiders, VoidFinalize(v), intent' # intent
      PROVE  PurchaseReleased(v)
  BY <1>0, <1>7 DEF VoidFinalize, Released, Intents, PurchaseReleased
<1>8. CASE LeaseExpires
  BY <1>0, <1>8 DEF LeaseExpires, Intents, PurchaseStands
<1>9. CASE ResolveNoEffect
  BY <1>0, <1>9 DEF ResolveNoEffect, Intents, PurchaseResolved
<1>10. QED
  BY <1>1, <1>2, <1>3, <1>4, <1>5, <1>6, <1>7, <1>8, <1>9, IntentWriters, OtherIntentWriters
     DEF Next, vars

\* A claim starts a purchase of the current key, or of the first one.
LEMMA Claimed ==
    ASSUME TypeInv, NEW r \in Requests, Claim(r)
    PROVE  /\ intent.state \in {"none", "failed", "voided"} /\ intent'.state = "purchasing"
           /\ intent'.key = IF intent.state = "none" THEN 1 ELSE intent.key
           /\ intent'.lease = attempt + 1 /\ attempt' = attempt + 1
           /\ intent'.receipt = intent.receipt
           /\ pc'[r] = "quote"
           /\ snap'[r].key = intent'.key /\ snap'[r].lease = attempt + 1
           /\ UNCHANGED <<ret, ship, carries, frozen, label, calls, disowned, bypassed>>
<1>0. intent \in Intents /\ ProcsTyped /\ snap[r] \in Snapshot
  BY Parts DEF IntentTyped, ProcsTyped
<1>1. QED
  BY <1>0 DEF Claim, Intents, Goto, Keeps, ProcsTyped, Snapshot, provider, history

\* A purchase that is running was just claimed, or runs on under its lease.
LEMMA PurchasingKept ==
    ASSUME TypeInv, [Next]_vars, intent'.state = "purchasing"
    PROVE  \/ \E r \in Requests : Claim(r)
           \/ PurchaseStands /\ intent.state = "purchasing" /\ attempt' = attempt
<1>1. PurchaseStands \/ \E r \in Requests : Claim(r)
  BY PurchaseMoves DEF PurchaseHeld, PurchaseResolved, PurchaseFailed, PurchaseRecorded,
     PurchaseCompleted, PurchaseReleased
<1>2. QED
  BY <1>1, LeaseWriters DEF PurchaseStands

-----------------------------------------------------------------------------
(* Leases and calls                                                         *)

LEMMA LeasesStep ==
    ASSUME TypeInv, LeasesDistinct, [Next]_vars
    PROVE  LeasesDistinct'
<1>0. attempt \in Nat
  BY Parts, Constant DEF RowsTyped
<1>1. attempt' \in Nat /\ attempt <= attempt'
  BY <1>0, LeaseWriters, Claimed
<1>2. ASSUME intent'.state = "purchasing" PROVE intent'.lease = attempt'
  BY <1>2, PurchasingKept, Claimed DEF LeasesDistinct, PurchaseStands
<1>3. ASSUME NEW r \in Requests, pc'[r] \in HolderSteps PROVE snap'[r].lease \in 1..attempt'
  BY <1>0, <1>1, <1>3, HolderEntered, Claimed DEF LeasesDistinct
<1>4. ASSUME NEW r \in Requests, pc'[r] \in HolderSteps, Owns(r)'
      PROVE  snap'[r].key = intent'.key
  <2>1. CASE Claim(r)
    BY <2>1, Claimed
  <2>2. CASE ~Claim(r)
    <3>1. /\ pc[r] \in HolderSteps /\ snap'[r].key = snap[r].key
          /\ snap'[r].lease = snap[r].lease /\ snap[r].lease \in 1..attempt
      BY <1>4, <2>2, HolderEntered DEF LeasesDistinct
    <3>2. intent'.state = "purchasing" /\ intent'.lease = snap'[r].lease
      BY <1>4 DEF Owns
    <3>3. ~\E q \in Requests : Claim(q)
      BY <1>0, <3>1, <3>2, Claimed
    <3>4. Owns(r) /\ intent'.key = intent.key
      BY <3>1, <3>2, <3>3, PurchasingKept DEF Owns, PurchaseStands
    <3>5. QED
      BY <3>1, <3>4 DEF LeasesDistinct
  <2>3. QED
    BY <2>1, <2>2
<1>5. ASSUME NEW r \in Requests, NEW q \in Requests, pc'[r] \in HolderSteps,
             pc'[q] \in HolderSteps, snap'[q].lease = snap'[r].lease
      PROVE  q = r
  <2>1. ASSUME NEW p \in Requests, NEW o \in Requests, Claim(p), o # p, pc'[o] \in HolderSteps
        PROVE  snap'[o].lease # snap'[p].lease
    <3>1. pc'[o] = pc[o] /\ snap'[o] = snap[o]
      BY <2>1, SnapshotOwn DEF RequestStep
    <3>2. snap[o].lease \in 1..attempt
      BY <2>1, <3>1 DEF LeasesDistinct
    <3>3. QED
      BY <1>0, <2>1, <3>1, <3>2, Claimed
  <2>2. CASE Claim(r) \/ Claim(q)
    BY <1>5, <2>1, <2>2
  <2>3. CASE ~(Claim(r) \/ Claim(q))
    BY <1>5, <2>3, HolderEntered DEF LeasesDistinct
  <2>4. QED
    BY <2>2, <2>3
<1>6. QED
  BY <1>2, <1>3, <1>4, <1>5 DEF LeasesDistinct

\* What a request adds to the calls in flight is its own call.
LEMMA CallsMove ==
    ASSUME [Next]_vars, NEW c \in calls', c \notin calls
    PROVE  \E r \in Requests : SendCreate(r) /\ c = <<snap[r].key, snap[r].lease>>
BY CarrierWriters DEF SendCreate, ReceiveRejection, ProviderSells

\* A label that was sold was sold, and one voided at the carrier stays voided there.
LEMMA SoldStays ==
    ASSUME TypeInv, [Next]_vars, NEW k \in Keys
    PROVE  /\ label[k] # "none" => label'[k] # "none"
           /\ label[k] = "voided" => label'[k] = "voided"
<1>0. label \in [Keys -> {"none", "live", "voided"}]
  BY Parts DEF RowsTyped
<1>1. CASE ProviderSells
  BY <1>0, <1>1 DEF ProviderSells
<1>2. ASSUME NEW v \in Voiders, VoidAtProvider(v)
      PROVE  label'[k] = label[k] \/ label'[k] = "voided"
  BY <1>0, <1>2 DEF VoidAtProvider
<1>3. QED
  BY <1>1, <1>2, CarrierWriters

LEMMA CallsStep ==
    ASSUME TypeInv, RowsDrawn, SyncTold, LeasesDistinct, CallsSent, VoidsAtCarrier,
           RowsMatchTheirLabel, [Next]_vars
    PROVE  CallsSent'
<1>0. /\ attempt \in Nat /\ intent.key \in Nat /\ intent'.key \in Nat
      /\ intent.key <= intent'.key /\ attempt <= attempt' /\ attempt' \in Nat
      /\ calls \in SUBSET (Keys \X Attempts) /\ label \in [Keys -> {"none", "live", "voided"}]
      /\ \A k \in Keys : k \in Nat
  BY Parts, Constant, KeyGrows, IntentStep, LeaseWriters, Claimed
     DEF RowsTyped, IntentTyped, Intents, KeyOrNull, Keys
<1>1. ASSUME NEW c \in calls' PROVE c[1] <= intent'.key /\ c[2] \in 1..attempt'
  <2>1. CASE c \in calls
    <3>1. c[1] \in Nat /\ c[1] <= intent.key /\ c[2] \in 1..attempt
      BY <1>0, <2>1 DEF CallsSent
    <3>2. QED
      BY <1>0, <3>1
  <2>2. CASE c \notin calls
    <3>1. PICK r \in Requests : SendCreate(r) /\ c = <<snap[r].key, snap[r].lease>>
      BY <2>2, CallsMove
    <3>2. snap[r].key \in Nat /\ snap[r].key <= intent.key /\ snap[r].lease \in 1..attempt
      BY <1>0, <3>1, Parts DEF ProcsTyped, RequestsUsable, Usable, KeySteps, LeaseSteps,
         HolderSteps, SendCreate, At, KeysDrawn, LeasesDistinct
    <3>3. QED
      BY <1>0, <3>1, <3>2
  <2>3. QED
    BY <2>1, <2>2
<1>2. Recovered' # {} \/ \A k \in Keys : label'[k] # "none" => k <= intent'.key
  <2> SUFFICES ASSUME Recovered' = {}, NEW k \in Keys, label'[k] # "none" PROVE k <= intent'.key
    OBVIOUS
  <2>0. Recovered = {}
    BY EscapesGrow
  <2>1. CASE label[k] # "none"
    BY <1>0, <2>0, <2>1 DEF CallsSent
  <2>2. CASE label[k] = "none" /\ ProviderSells
    <3>1. PICK c \in calls : label' = [label EXCEPT ![c[1]] = IF @ = "none" THEN "live" ELSE @]
      BY <2>2 DEF ProviderSells
    <3>2. c[1] = k
      BY <1>0, <2>2, <3>1
    <3>3. k <= intent.key
      BY <3>1, <3>2 DEF CallsSent
    <3>4. QED
      BY <1>0, <3>3
  <2>3. ASSUME label[k] = "none", NEW v \in Voiders, VoidAtProvider(v) PROVE k <= intent'.key
    <3>1. goal[v] \in Keys \cup Mirrors /\ ship[goal[v]] # "absent"
      BY <2>3 DEF VoidsAtCarrier, VoidAtProvider, At, Ships
    <3>2. carries[goal[v]] = k
      BY <1>0, <2>3 DEF VoidAtProvider
    <3>3. goal[v] \in Keys
      BY <2>3, <3>1, <3>2 DEF SyncTold
    <3>4. goal[v] = k
      BY <2>0, <3>1, <3>2, <3>3 DEF RowsMatchTheirLabel
    <3>5. k <= intent.key
      BY <3>1, <3>4 DEF RowsDrawn
    <3>6. QED
      BY <1>0, <3>5
  <2>4. QED
    BY <2>1, <2>2, <2>3, CarrierWriters
<1>3. ASSUME NEW r \in Requests, pc'[r] \in HolderSteps \ {"calling", "markUnknown"},
             ~(pc'[r] = "markFailed" /\ snap'[r].key \in disowned')
      PROVE  <<snap'[r].key, snap'[r].lease>> \notin calls'
  <2>1. CASE Claim(r)
    <3>1. snap'[r].lease = attempt + 1 /\ calls' = calls
      BY <2>1, Claimed
    <3>2. \A c \in calls : c[2] # attempt + 1
      BY <1>0 DEF CallsSent
    <3>3. QED
      BY <3>1, <3>2
  <2>2. CASE ~Claim(r)
    <3> DEFINE own == <<snap[r].key, snap[r].lease>>
    <3>1. pc[r] \in HolderSteps /\ <<snap'[r].key, snap'[r].lease>> = own
      BY <1>3, <2>2, HolderEntered
    <3>2. own \notin calls \/ ReceiveRejection(r)
      <4>1. CASE pc[r] \in HolderSteps \ {"calling", "markUnknown"}
        <5>1. CASE pc[r] = "markFailed" /\ snap[r].key \in disowned
          <6>1. pc'[r] # "markFailed"
            BY <1>3, <3>1, <5>1, EscapesGrow
          <6>2. Arrives(r)
            BY <5>1, <6>1, Moved, Arrival
          <6>3. QED
            BY <1>3, <5>1, <6>1, <6>2 DEF Arrives, At, Claim, SaveRate, SendCreate, Heartbeat,
               Quote, ReceiveReceipt, AbandonCall, HolderSteps, LeaseSteps
        <5>2. QED
          BY <4>1, <5>1 DEF CallsSent
      <4>2. CASE pc[r] \in {"calling", "markUnknown"}
        <5>1. Arrives(r)
          BY <1>3, <4>2, Moved, Arrival
        <5>2. ReceiveReceipt(r) \/ ReceiveRejection(r)
          <6>1. ~ReceiveRepostRejection(r)
            <7>1. ASSUME ReceiveRepostRejection(r) PROVE FALSE
              <8>1. pc'[r] = "markFailed" /\ snap[r].key \in disowned'
                BY <7>1, Parts DEF ReceiveRepostRejection, Goto, ProcsTyped
              <8>2. QED
                BY <1>3, <3>1, <8>1
            <7>2. QED
              BY <7>1
          <6>2. QED
            BY <1>3, <4>2, <5>1, <6>1 DEF Arrives, At, Claim, Quote, SaveRate, HolderSteps,
               LeaseSteps
        <5>3. QED
          BY <5>2 DEF ReceiveReceipt
      <4>3. QED
        BY <3>1, <4>1, <4>2
    <3>3. ASSUME own \in calls', own \notin calls PROVE FALSE
      <4>1. PICK q \in Requests : SendCreate(q) /\ own = <<snap[q].key, snap[q].lease>>
        BY <3>3, CallsMove
      <4>2. pc[q] \in HolderSteps /\ snap[q].lease = snap[r].lease
        BY <4>1 DEF SendCreate, At, HolderSteps, LeaseSteps
      <4>3. q = r
        BY <3>1, <4>2 DEF LeasesDistinct
      <4>4. pc'[r] = "calling"
        BY <4>1, <4>3, Parts DEF SendCreate, Goto, ProcsTyped
      <4>5. QED
        BY <1>3, <4>4
    <3>4. CASE ReceiveRejection(r)
      BY <3>1, <3>4 DEF ReceiveRejection
    <3>5. QED
      BY <3>1, <3>2, <3>3, <3>4
  <2>3. QED
    BY <2>1, <2>2
<1>4. QED
  BY <1>1, <1>2, <1>3 DEF CallsSent

-----------------------------------------------------------------------------
(* Receipts, rows and rates                                                 *)

\* A request has a receipt from its own answer, its own lookup, or the intent.
LEMMA ReceiptsStep ==
    ASSUME TypeInv, LeasesDistinct, ReceiptsMatch, [Next]_vars
    PROVE  ReceiptsMatch'
<1> DEFINE Kept == {"record", "recordRecovered", "persist"}
<1>0. ProcsTyped /\ IntentTyped
  BY Parts
<1>1. /\ intent.receipt # 0 =>
            intent.state = "purchased" /\ (intent.receipt = intent.key \/ intent.key \in Recovered)
      /\ \A r \in Requests : pc[r] \in Kept =>
            snap[r].receipt = snap[r].key \/ snap[r].key \in Recovered
      /\ \A k \in Recovered : k \in Recovered'
  BY EscapesGrow DEF ReceiptsMatch
<1>2. intent'.receipt # 0 =>
          /\ intent'.state = "purchased"
          /\ intent'.receipt = intent'.key \/ intent'.key \in Recovered'
  <2>1. CASE PurchaseStands \/ PurchaseHeld \/ PurchaseResolved
    BY <1>1, <2>1 DEF PurchaseStands, PurchaseHeld, PurchaseResolved
  <2>2. ASSUME NEW r \in Requests, PurchaseRecorded(r)
        PROVE  /\ intent'.state = "purchased"
               /\ intent'.receipt = intent'.key \/ intent'.key \in Recovered'
    <3>1. CASE RecordReceipt(r) /\ Owns(r)
      <4>1. /\ snap[r].receipt = snap[r].key \/ snap[r].key \in Recovered
            /\ snap[r].key = intent.key
        BY <1>1, <3>1 DEF RecordReceipt, At, LeasesDistinct, HolderSteps, LeaseSteps
      <4>2. QED
        BY <1>1, <2>2, <4>1 DEF PurchaseRecorded
    <3>2. CASE RecordRecovered(r) /\ intent.state \in {"unknown_outcome", "purchased"}
      <4>1. snap[r].receipt = snap[r].key \/ snap[r].key \in Recovered
        BY <1>1, <3>2 DEF RecordRecovered, At
      <4>2. intent.key \in Keys
        BY <1>0, <3>2 DEF IntentTyped, IntentUsable
      <4>3. snap[r].key = intent.key \/ <<"stale_recovery", intent.key>> \in bypassed'
        BY <3>2 DEF RecordRecovered
      <4>4. snap[r].key = intent.key \/ intent.key \in Recovered'
        BY <4>2, <4>3 DEF Recovered
      <4>5. QED
        BY <1>1, <2>2, <4>1, <4>4 DEF PurchaseRecorded
    <3>3. QED
      BY <2>2, <3>1, <3>2 DEF PurchaseRecorded
  <2>3. ASSUME NEW r \in Requests, Claim(r) PROVE intent'.receipt = 0
    BY <1>1, <2>3, Claimed
  <2>4. ASSUME NEW r \in Requests, PurchaseFailed(r) \/ PurchaseCompleted(r)
        PROVE  intent'.receipt = 0
    BY <2>4 DEF PurchaseFailed, PurchaseCompleted
  <2>5. ASSUME NEW v \in Voiders, PurchaseReleased(v) PROVE intent'.receipt = 0
    BY <1>1, <2>5 DEF PurchaseReleased
  <2>6. QED
    BY <2>1, <2>2, <2>3, <2>4, <2>5, PurchaseMoves
<1>3. ASSUME NEW r \in Requests, pc'[r] \in Kept
      PROVE  snap'[r].receipt = snap'[r].key \/ snap'[r].key \in Recovered'
  <2>0. snap[r] \in Snapshot
    BY <1>0 DEF ProcsTyped
  <2>1. CASE pc'[r] = pc[r] /\ snap'[r] = snap[r]
    BY <1>1, <1>3, <2>1
  <2>2. CASE Arrives(r)
    <3>1. CASE AcquireRecover(r) /\ pc'[r] = "recordRecovered"
      <4>1. intent.receipt # 0
            /\ Keeps(r, [snap[r] EXCEPT !.key = intent.key, !.receipt = intent.receipt])
        BY <1>0, <3>1 DEF AcquireRecover, Finish, Goto, ProcsTyped
      <4>2. QED
        BY <1>0, <1>1, <2>0, <4>1 DEF Keeps, ProcsTyped, Snapshot
    <3>2. CASE ReceiveReceipt(r) \/ (Lookup(r) /\ pc'[r] = "recordRecovered")
      BY <1>0, <2>0, <3>2 DEF ReceiveReceipt, Lookup, Finish, Goto, Keeps, ProcsTyped, Snapshot
    <3>3. CASE (RecordReceipt(r) \/ RecordRecovered(r)) /\ pc'[r] = "persist"
      BY <1>0, <1>1, <2>0, <3>3 DEF RecordReceipt, RecordRecovered, At, Finish, Goto, ProcsTyped
    <3>4. QED
      BY <1>3, <2>2, <3>1, <3>2, <3>3 DEF Arrives
  <2>3. QED
    BY <2>1, <2>2, Arrival, Moved
<1>4. QED
  BY <1>2, <1>3 DEF ReceiptsMatch

\* The sync writes a row it knows by the label the row describes, or inserts one of its
\* own, with the flag of the page it read.
LEMMA SyncWrote ==
    ASSUME SyncWrites
    PROVE  \E k \in Keys, s \in Keys \cup Mirrors, f \in {"active", "voided"} :
              /\ page[k] # "unread"
              /\ s \in Keys => s \in Mirrors \/ (ship[s] # "absent" /\ carries[s] = k)
              /\ f = "voided" => page[k] = "voided"
              /\ ship' = [ship EXCEPT ![s] = f]
              /\ carries' = [carries EXCEPT ![s] = k]
              /\ page' = [page EXCEPT ![k] = "unread"]
              /\ label' = label
<1>1. PICK k \in Keys :
        LET known == {s \in Keys \cup Mirrors : ship[s] # "absent" /\ carries[s] = k}
            flag  == IF page[k] = "voided" THEN "voided" ELSE "active"
        IN  /\ page[k] # "unread"
            /\ \E s \in IF known # {} THEN known ELSE {m \in Mirrors : ship[m] = "absent"} :
                  /\ ship' = [ship EXCEPT ![s] = flag]
                  /\ carries' = [carries EXCEPT ![s] = k]
            /\ page' = [page EXCEPT ![k] = "unread"]
            /\ label' = label
  BY Zenon DEF SyncWrites
<1> DEFINE known == {s \in Keys \cup Mirrors : ship[s] # "absent" /\ carries[s] = k}
           flag  == IF page[k] = "voided" THEN "voided" ELSE "active"
           free  == {m \in Mirrors : ship[m] = "absent"}
<1>2. PICK s \in known \cup free : /\ ship' = [ship EXCEPT ![s] = flag]
                                  /\ carries' = [carries EXCEPT ![s] = k]
  BY <1>1
<1>3. /\ s \in Keys \cup Mirrors
      /\ s \in Keys => s \in Mirrors \/ (ship[s] # "absent" /\ carries[s] = k)
  BY <1>2
<1>4. flag \in {"active", "voided"} /\ (flag = "voided" => page[k] = "voided")
  OBVIOUS
<1>5. page[k] # "unread" /\ page' = [page EXCEPT ![k] = "unread"] /\ label' = label
  BY <1>1
<1> HIDE DEF flag, known, free
<1>6. /\ k \in Keys
      /\ s \in Keys \cup Mirrors
      /\ flag \in {"active", "voided"}
  BY <1>3, <1>4
<1>7. QED
  <2> USE <1>6
  <2> WITNESS k \in Keys, s \in Keys \cup Mirrors, flag \in {"active", "voided"}
  <2>1. QED
    BY <1>2, <1>3, <1>4, <1>5

LEMMA RowsDrawnStep ==
    ASSUME TypeInv, RowsDrawn, [Next]_vars
    PROVE  RowsDrawn'
<1>0. /\ ProcsTyped /\ RowsTyped
      /\ intent.key \in Nat /\ intent'.key \in Nat /\ intent.key <= intent'.key
      /\ \A k \in Keys : k \in Nat /\ k \in Ships /\ k \notin External /\ k \notin Mirrors
  <2>1. intent.key \in Nat /\ intent'.key \in Nat /\ intent.key <= intent'.key
    BY Parts, Constant, KeyGrows, IntentStep DEF IntentTyped, Intents, KeyOrNull, Keys
  <2>2. \A k \in Keys : k \in Nat /\ k \in Ships /\ k \notin External /\ k \notin Mirrors
    BY Constant, ConstantsAssumption DEF Keys
  <2>3. QED
    BY <2>1, <2>2, Parts
<1>1. ASSUME NEW k \in Keys, ship'[k] # "absent" PROVE k <= intent.key
  <2>1. CASE ship[k] # "absent"
    BY <2>1 DEF RowsDrawn
  <2>2. ASSUME ship[k] = "absent", NEW r \in Requests, PersistShipment(r) PROVE k <= intent.key
    <3>1. snap[r].key = k
      BY <1>0, <1>1, <2>2 DEF PersistShipment, PurchaseKey, RowsTyped
    <3>2. QED
      BY <3>1 DEF TypeInv, KeysDrawn
  <2>3. ASSUME ship[k] = "absent", NEW v \in Voiders, VoidFinalize(v) PROVE FALSE
    BY <1>0, <1>1, <2>3 DEF VoidFinalize, CanFinalize, Active, RowsTyped
  <2>4. ASSUME ship[k] = "absent", AssignExternal PROVE FALSE
    BY <1>0, <1>1, <2>4 DEF AssignExternal, RowsTyped
  <2>5. ASSUME ship[k] = "absent", SyncWrites PROVE FALSE
    <3>1. PICK j \in Keys, s \in Keys \cup Mirrors, f \in {"active", "voided"} :
            /\ s \in Keys => s \in Mirrors \/ ship[s] # "absent"
            /\ ship' = [ship EXCEPT ![s] = f]
      BY <2>5, SyncWrote
    <3>2. s # k
      BY <1>0, <2>5, <3>1
    <3>3. QED
      BY <1>0, <1>1, <2>5, <3>1, <3>2 DEF RowsTyped
  <2>6. QED
    BY <1>1, <2>1, <2>2, <2>3, <2>4, <2>5, ShipWriters
<1>2. QED
  BY <1>0, <1>1 DEF RowsDrawn

\* Every row of a purchase is inserted for the label its receipt names, and the return
\* links a row only with its frozen amount.
LEMMA RowsMatchStep ==
    ASSUME TypeInv, ReceiptsMatch, TargetsFrozen, RowsMatchTheirLabel, [Next]_vars
    PROVE  RowsMatchTheirLabel'
<1>0. /\ ProcsTyped /\ RowsTyped /\ ret \in Returns
      /\ \A k \in Keys : /\ k # 0 /\ k \in Keys \cup Mirrors /\ k \in Ships
                         /\ k \notin External /\ k \notin Mirrors
  BY Parts, Constant, ConstantsAssumption DEF Keys
<1>2. ASSUME NEW k \in Keys, ship'[k] # "absent", k \notin Recovered' PROVE carries'[k] = k
  <2>0. k \notin Recovered /\ (ship[k] # "absent" => carries[k] = k)
    BY <1>2, EscapesGrow DEF RowsMatchTheirLabel
  <2>1. ASSUME NEW r \in Requests, PersistShipment(r) PROVE carries'[k] = k
    <3>1. /\ snap[r].receipt = snap[r].key \/ snap[r].key \in Recovered
          /\ snap[r].key \in Keys
      BY <1>0, <2>1 DEF PersistShipment, At, ReceiptsMatch, ProcsTyped, RequestsUsable,
         Usable, KeySteps
    <3>2. QED
      BY <1>0, <1>2, <2>0, <2>1, <3>1 DEF PersistShipment, PurchaseKey, RowsTyped
  <2>2. CASE SyncWrites
    <3>1. PICK j \in Keys, s \in Keys \cup Mirrors, f \in {"active", "voided"} :
            /\ s \in Keys => s \in Mirrors \/ (ship[s] # "absent" /\ carries[s] = j)
            /\ ship' = [ship EXCEPT ![s] = f]
            /\ carries' = [carries EXCEPT ![s] = j]
      BY <2>2, SyncWrote
    <3>2. CASE s = k
      BY <1>0, <2>0, <3>1, <3>2 DEF RowsTyped
    <3>3. CASE s # k
      BY <1>0, <1>2, <2>0, <3>1, <3>3 DEF RowsTyped
    <3>4. QED
      BY <3>2, <3>3
  <2>3. CASE ~SyncWrites /\ ~\E r \in Requests : PersistShipment(r)
    <3>1. carries' = carries
      BY <2>3, CarriesWriters
    <3>2. ship[k] # "absent"
      <4>1. CASE ship' = ship
        BY <1>2, <4>1
      <4>2. ASSUME NEW v \in Voiders, VoidFinalize(v) PROVE ship[k] # "absent"
        BY <1>0, <1>2, <4>2 DEF VoidFinalize, CanFinalize, Active, RowsTyped
      <4>3. CASE AssignExternal
        BY <1>0, <1>2, <4>3 DEF AssignExternal, RowsTyped
      <4>4. QED
        BY <2>3, <4>1, <4>2, <4>3, ShipWriters
    <3>3. QED
      BY <2>0, <3>1, <3>2
  <2>4. QED
    BY <2>1, <2>2, <2>3
<1>3. ASSUME ret'.ship \in Keys PROVE ret'.ship \in frozen' /\ ret'.rate = ret'.ship
  <2>1. ASSUME ret'.ship = ret.ship, ret'.rate = ret.rate \/ ret.rate = 0
        PROVE  ret'.ship \in frozen' /\ ret'.rate = ret'.ship
    BY <1>0, <1>3, <2>1, FrozenGrows DEF RowsMatchTheirLabel
  <2>2. ASSUME NEW r \in Requests, Link(r)
        PROVE  ret'.ship \in frozen' /\ ret'.rate = ret'.ship
    <3>1. CASE CanLink(snap[r].target)
      <4>1. snap[r].target \in frozen
        BY <2>2 DEF Link, At, TargetsFrozen
      <4>2. QED
        BY <2>2, <3>1, <4>1, FrozenGrows DEF Link
    <3>2. CASE ~CanLink(snap[r].target)
      BY <2>1, <2>2, <3>2 DEF Link
    <3>3. QED
      BY <3>1, <3>2
  <2>3. ASSUME NEW r \in Requests, MarkReturnFailed(r) \/ WriteAlias(r)
        PROVE  ret'.ship \in frozen' /\ ret'.rate = ret'.ship
    BY <1>0, <2>1, <2>3 DEF MarkReturnFailed, WriteAlias, Returns
  <2>4. CASE AssignExternal
    BY <1>0, <1>3, <2>4 DEF AssignExternal, Returns
  <2>5. CASE TrackingAdvances \/ Receive
    BY <1>0, <2>1, <2>5 DEF TrackingAdvances, Receive, Returns
  <2>6. QED
    BY <2>1, <2>2, <2>3, <2>4, <2>5, ReturnWriters
<1>4. QED
  BY <1>2, <1>3 DEF RowsMatchTheirLabel

\* A request reaches the link only past the freeze, or with the amount it found frozen.
LEMMA FrozenStep ==
    ASSUME TypeInv, TargetsFrozen, [Next]_vars
    PROVE  TargetsFrozen'
<1>0. ProcsTyped
  BY Parts
<1>1. ASSUME NEW r \in Requests,
             \/ pc'[r] \in {"complete", "writeAlias", "link"}
             \/ pc'[r] = "completeExisting" /\ snap'[r].wasFrozen
      PROVE  snap'[r].target \in frozen'
  <2>0. snap[r] \in Snapshot
    BY <1>0 DEF ProcsTyped
  <2>1. CASE pc'[r] = pc[r] /\ snap'[r] = snap[r]
    BY <1>1, <2>1, FrozenGrows DEF TargetsFrozen
  <2>2. CASE Freeze(r)
    BY <2>2 DEF Freeze, FreezesRow
  <2>3. CASE CheckActive(r) /\ pc'[r] = "completeExisting"
    <3>1. ~Finish(r) /\ ~Goto(r, "acquire")
      BY <1>0, <2>3 DEF Finish, Goto, ProcsTyped
    <3>2. PICK s \in Ships : Keeps(r, [snap[r] EXCEPT !.target = s, !.wasFrozen = s \in frozen])
      BY <2>3, <3>1, ZenonT(60) DEF CheckActive
    <3>3. snap'[r].target = s /\ (snap'[r].wasFrozen <=> s \in frozen)
      BY <1>0, <2>0, <3>2 DEF Keeps, ProcsTyped, Snapshot
    <3>4. QED
      BY <1>1, <2>3, <3>3, FrozenGrows
  <2>4. CASE (Complete(r) \/ WriteAlias(r)) /\ pc'[r] = "link"
    BY <2>4, FrozenGrows DEF Complete, WriteAlias, At, TargetsFrozen
  <2>5. CASE CompleteExisting(r) /\ RateProven(snap[r]) /\ pc'[r] = "link"
    <3>1. UNCHANGED snap
      BY <1>0, <2>5 DEF CompleteExisting, Finish, Goto, ProcsTyped
    <3>2. QED
      BY <2>5, <3>1, FrozenGrows DEF CompleteExisting, RateProven, At, TargetsFrozen
  <2>6. CASE Arrives(r)
    BY <1>1, <2>2, <2>3, <2>4, <2>5, <2>6 DEF Arrives
  <2>7. QED
    BY <2>1, <2>6, Arrival, Moved
<1>2. QED
  BY <1>1 DEF TargetsFrozen

-----------------------------------------------------------------------------
(* Voids                                                                    *)

\* Who writes what the sync has read.
LEMMA PageWriters == [Next]_vars => page' = page \/ SyncReads \/ SyncWrites
<1> SUFFICES ASSUME [Next]_vars PROVE page' = page \/ SyncReads \/ SyncWrites
  OBVIOUS
<1>1. CASE \E r \in Requests : RequestStep(r)
  BY <1>1 DEF RequestStep, ReadReturn, CheckLinked, ReadIntent, CheckActive, AcquireConflict,
     Claim, AcquireRecover, AcquireInProgress, AcquireCompleted, Quote, SaveRate, SendCreate,
     ReceiveReceipt, ReceiveRejection, ReceiveRepostRejection, AbandonCall, Heartbeat,
     MarkUnknown, MarkFailed, MarkReturnFailed, RecordReceipt, Lookup, RecordRecovered, PersistShipment, Freeze, Complete,
     CompleteExisting, WriteAlias, Link, Crash, provider
<1>2. CASE \E v \in Voiders : VoidStep(v)
  BY <1>2 DEF VoidStep, VoidPreflight, VoidAtProvider, VoidFinalize, VoidAborts, provider
<1>3. CASE OtherStep
  BY <1>3 DEF OtherStep, LeaseExpires, ProviderSells, AssignExternal, ResolveNoEffect,
     TrackingAdvances, Receive, provider
<1>4. QED
  BY <1>1, <1>2, <1>3 DEF Next, vars

\* A page is a copy of what the carrier said, and that only becomes more final.
LEMMA SyncToldStep ==
    ASSUME TypeInv, SyncTold, [Next]_vars
    PROVE  SyncTold'
<1>0. /\ RowsTyped
      /\ \A m \in Mirrors : /\ m \in Ships /\ m \in Keys \cup Mirrors
                            /\ m \notin Keys /\ m \notin External
  BY Parts, ConstantsAssumption DEF Ships, Keys
<1>1. ASSUME NEW k \in Keys
      PROVE  /\ page'[k] # "unread" => label'[k] # "none"
             /\ page'[k] = "voided" => label'[k] = "voided"
  <2>1. CASE page' = page
    BY <2>1, SoldStays DEF SyncTold
  <2>2. CASE SyncReads
    BY <1>0, <2>2 DEF SyncReads, SyncTold, RowsTyped
  <2>3. CASE SyncWrites
    BY <1>0, <2>3, SyncWrote DEF SyncTold, RowsTyped
  <2>4. QED
    BY <2>1, <2>2, <2>3, PageWriters
<1>2. ASSUME NEW m \in Mirrors, ship'[m] # "absent"
      PROVE  carries'[m] \in Keys /\ label'[carries'[m]] # "none"
  <2>1. ASSUME ship[m] # "absent", carries'[m] = carries[m]
        PROVE  carries'[m] \in Keys /\ label'[carries'[m]] # "none"
    BY <2>1, SoldStays DEF SyncTold
  <2>2. CASE SyncWrites
    <3>1. PICK j \in Keys, s \in Keys \cup Mirrors, f \in {"active", "voided"} :
            /\ page[j] # "unread" /\ label' = label
            /\ ship' = [ship EXCEPT ![s] = f]
            /\ carries' = [carries EXCEPT ![s] = j]
      BY <2>2, SyncWrote
    <3>2. CASE s = m
      BY <1>0, <3>1, <3>2 DEF SyncTold, RowsTyped
    <3>3. CASE s # m
      BY <1>0, <1>2, <2>1, <3>1, <3>3 DEF RowsTyped
    <3>4. QED
      BY <3>2, <3>3
  <2>3. ASSUME NEW r \in Requests, PersistShipment(r)
        PROVE  ship[m] # "absent" /\ carries'[m] = carries[m]
    <3>1. snap[r].key \in Keys
      BY <2>3, Parts DEF PersistShipment, At, ProcsTyped, RequestsUsable, Usable, KeySteps
    <3>2. QED
      BY <1>0, <1>2, <2>3, <3>1 DEF PersistShipment, PurchaseKey, RowsTyped
  <2>4. CASE ~SyncWrites /\ ~\E r \in Requests : PersistShipment(r)
    <3>1. carries' = carries
      BY <2>4, CarriesWriters
    <3>2. ship[m] # "absent"
      <4>1. CASE ship' = ship
        BY <1>2, <4>1
      <4>2. ASSUME NEW v \in Voiders, VoidFinalize(v) PROVE ship[m] # "absent"
        BY <1>0, <1>2, <4>2 DEF VoidFinalize, CanFinalize, Active, RowsTyped
      <4>3. CASE AssignExternal
        BY <1>0, <1>2, <4>3 DEF AssignExternal, RowsTyped
      <4>4. QED
        BY <2>4, <4>1, <4>2, <4>3, ShipWriters
    <3>3. QED
      BY <2>1, <3>1, <3>2
  <2>5. QED
    BY <2>1, <2>2, <2>3, <2>4
<1>3. QED
  BY <1>1, <1>2 DEF SyncTold

\* A void stands still, or takes a step of its own.
LEMMA VoiderMoved ==
    ASSUME TypeInv, [Next]_vars, NEW v \in Voiders
    PROVE  (pc'[v] = pc[v] /\ goal'[v] = goal[v]) \/ VoidStep(v)
<1>0. ProcsTyped
  BY Parts
<1>1. CASE UNCHANGED <<pc, goal>>
  BY <1>1
<1>2. ASSUME NEW r \in Requests, RequestStep(r) PROVE pc'[v] = pc[v] /\ goal'[v] = goal[v]
  <2>1. UNCHANGED goal
    BY <1>2 DEF RequestStep, ReadReturn, CheckLinked, ReadIntent, CheckActive, AcquireConflict,
       Claim, AcquireRecover, AcquireInProgress, AcquireCompleted, Quote, SaveRate, SendCreate,
       ReceiveReceipt, ReceiveRejection, ReceiveRepostRejection, AbandonCall, Heartbeat,
       MarkUnknown, MarkFailed, MarkReturnFailed, RecordReceipt, Lookup, RecordRecovered, PersistShipment, Freeze,
       Complete, CompleteExisting, WriteAlias, Link, Crash
  <2>2. UNCHANGED pc \/ \E step : Goto(r, step)
    BY <1>2 DEF RequestStep, ReadReturn, CheckLinked, ReadIntent, CheckActive, AcquireConflict,
       Claim, AcquireRecover, AcquireInProgress, AcquireCompleted, Quote, SaveRate, SendCreate,
       ReceiveReceipt, ReceiveRejection, ReceiveRepostRejection, AbandonCall, Heartbeat,
       MarkUnknown, MarkFailed, MarkReturnFailed, RecordReceipt, Lookup, RecordRecovered, PersistShipment, Freeze,
       Complete, CompleteExisting, WriteAlias, Link, Crash, Finish
  <2>3. v # r
    BY ConstantsAssumption
  <2>4. QED
    BY <1>0, <2>1, <2>2, <2>3 DEF Goto, ProcsTyped
<1>3. ASSUME NEW u \in Voiders, u # v, VoidStep(u) PROVE pc'[v] = pc[v] /\ goal'[v] = goal[v]
  <2>1. \E step \in VoidSteps : Goto(u, step)
    BY <1>3 DEF VoidStep, VoidPreflight, VoidAtProvider, VoidFinalize, VoidAborts, VoidSteps
  <2>2. UNCHANGED goal \/ \E s : goal' = [goal EXCEPT ![u] = s]
    BY <1>3 DEF VoidStep, VoidPreflight, VoidAtProvider, VoidFinalize, VoidAborts
  <2>3. QED
    BY <1>0, <1>3, <2>1, <2>2 DEF Goto, ProcsTyped
<1>4. CASE OtherStep
  BY <1>1, <1>4 DEF OtherStep, LeaseExpires, ProviderSells, AssignExternal, ResolveNoEffect,
     SyncReads, SyncWrites, TrackingAdvances, Receive
<1>5. QED
  BY <1>1, <1>2, <1>3, <1>4 DEF Next, vars

LEMMA VoidsStep ==
    ASSUME TypeInv, SyncTold, RowsMatchTheirLabel, VoidsAtCarrier, [Next]_vars
    PROVE  VoidsAtCarrier'
<1>0. /\ ProcsTyped /\ RowsTyped
      /\ label \in [Keys -> {"none", "live", "voided"}]
      /\ \A k \in Keys : k \in Ships /\ k \notin External /\ k \notin Mirrors
      /\ \A k \in Recovered : k \in Recovered'
  <2>1. \A k \in Keys : k \in Ships /\ k \notin External /\ k \notin Mirrors
    BY Constant, ConstantsAssumption DEF Keys
  <2>2. RowsTyped /\ ProcsTyped /\ label \in [Keys -> {"none", "live", "voided"}]
    BY Parts DEF RowsTyped
  <2>3. QED
    BY <2>1, <2>2, EscapesGrow
<1>1. ASSUME NEW v \in Voiders, pc'[v] # "idle"
      PROVE  /\ goal'[v] \in Ships /\ ship'[goal'[v]] # "absent"
             /\ pc'[v] = "provider" => goal'[v] \notin External
             /\ pc'[v] = "finalize" /\ goal'[v] \in Keys =>
                    goal'[v] \in Recovered' \/ label'[goal'[v]] = "voided"
  <2>1. CASE pc'[v] = pc[v] /\ goal'[v] = goal[v]
    <3>1. /\ goal[v] \in Ships /\ ship[goal[v]] # "absent"
          /\ pc[v] = "provider" => goal[v] \notin External
          /\ pc[v] = "finalize" /\ goal[v] \in Keys =>
                goal[v] \in Recovered \/ label[goal[v]] = "voided"
      BY <1>1, <2>1 DEF VoidsAtCarrier
    <3>2. ship'[goal[v]] # "absent"
      BY <3>1, RowsStay
    <3>3. QED
      BY <1>0, <2>1, <3>1, <3>2, SoldStays
  <2>2. CASE VoidPreflight(v)
    <3>1. PICK s \in Ships :
            /\ Active(s) /\ goal' = [goal EXCEPT ![v] = s]
            /\ Goto(v, IF s \notin External THEN "provider" ELSE "finalize")
      BY <2>2 DEF VoidPreflight
    <3>2. goal'[v] = s /\ ship' = ship /\ ship[s] # "absent"
      BY <1>0, <2>2, <3>1 DEF VoidPreflight, ProcsTyped, rows, Active
    <3>3. pc'[v] = IF s \notin External THEN "provider" ELSE "finalize"
      BY <1>0, <3>1 DEF Goto, ProcsTyped
    <3>4. QED
      BY <1>0, <3>2, <3>3
  <2>3. CASE VoidAtProvider(v)
    <3>1. pc[v] = "provider" /\ pc'[v] = "finalize" /\ UNCHANGED <<goal, ship>>
      BY <1>0, <2>3 DEF VoidAtProvider, At, Goto, ProcsTyped, rows
    <3>2. goal[v] \in Ships /\ ship[goal[v]] # "absent"
      BY <3>1 DEF VoidsAtCarrier
    <3>3. goal[v] \in Keys => goal[v] \in Recovered \/ carries[goal[v]] = goal[v]
      BY <3>2 DEF RowsMatchTheirLabel
    <3>4. goal[v] \in Keys => goal[v] \in Recovered \/ label'[goal[v]] = "voided"
      BY <1>0, <2>3, <3>3 DEF VoidAtProvider
    <3>5. QED
      BY <1>0, <3>1, <3>2, <3>4
  <2>4. CASE VoidFinalize(v) \/ VoidAborts(v)
    BY <1>0, <1>1, <2>4 DEF VoidFinalize, VoidAborts, Goto, ProcsTyped
  <2>5. QED
    BY <2>1, <2>2, <2>3, <2>4, VoiderMoved DEF VoidStep
<1>2. ASSUME NEW k \in Keys, Voided(k)' PROVE k \in Recovered' \/ label'[k] = "voided"
  <2>1. CASE Voided(k)
    BY <1>0, <2>1, SoldStays DEF VoidsAtCarrier
  <2>2. ASSUME ~Voided(k), NEW v \in Voiders, VoidFinalize(v)
        PROVE  k \in Recovered' \/ label'[k] = "voided"
    <3>1. goal[v] = k
      BY <1>0, <1>2, <2>2 DEF VoidFinalize, Voided, RowsTyped
    <3>2. k \in Recovered \/ label[k] = "voided"
      BY <2>2, <3>1 DEF VoidsAtCarrier, VoidFinalize, At
    <3>3. QED
      BY <1>0, <3>2, SoldStays
  <2>3. ASSUME ~Voided(k), NEW r \in Requests, PersistShipment(r) PROVE FALSE
    BY <1>0, <1>2, <2>3 DEF PersistShipment, Voided, RowsTyped
  <2>4. ASSUME ~Voided(k), AssignExternal PROVE FALSE
    BY <1>0, <1>2, <2>4 DEF AssignExternal, Voided, RowsTyped
  <2>5. ASSUME ~Voided(k), SyncWrites PROVE k \in Recovered' \/ label'[k] = "voided"
    <3>1. PICK j \in Keys, s \in Keys \cup Mirrors, f \in {"active", "voided"} :
            /\ s \in Keys => s \in Mirrors \/ (ship[s] # "absent" /\ carries[s] = j)
            /\ f = "voided" => page[j] = "voided"
            /\ ship' = [ship EXCEPT ![s] = f]
      BY <2>5, SyncWrote
    <3>2. s = k /\ f = "voided"
      BY <1>0, <1>2, <2>5, <3>1 DEF Voided, RowsTyped
    <3>3. label[j] = "voided" /\ (k \in Recovered \/ j = k)
      BY <1>0, <3>1, <3>2 DEF SyncTold, RowsMatchTheirLabel
    <3>4. QED
      BY <1>0, <3>3, SoldStays
  <2>6. ASSUME ~Voided(k), ship' = ship PROVE FALSE
    BY <1>2, <2>6 DEF Voided
  <2>7. QED
    BY <2>1, <2>2, <2>3, <2>4, <2>5, <2>6, ShipWriters
<1>3. QED
  BY <1>1, <1>2 DEF VoidsAtCarrier

-----------------------------------------------------------------------------
(* A completed purchase                                                     *)

\* The intent is completed with the row its request made sure of.
LEMMA CompletedRowStep ==
    ASSUME TypeInv, TargetsPersisted, CompletedOwnsRow, [Next]_vars
    PROVE  CompletedOwnsRow'
<1>0. ProcsTyped /\ \A k \in Keys : k \in Ships
  BY Parts, Constant
<1> SUFFICES ASSUME intent'.state = "completed", intent'.key \notin Overwritten'
             PROVE  intent'.ship = intent'.key /\ ship'[intent'.ship] # "absent"
  BY DEF CompletedOwnsRow
<1>1. intent'.key \notin Overwritten
  BY EscapesGrow
<1>2. CASE PurchaseStands
  <2>1. /\ intent.state = "completed" /\ intent'.ship = intent.ship /\ intent'.key = intent.key
        /\ intent.ship = intent.key /\ ship[intent.ship] # "absent"
    BY <1>1, <1>2 DEF PurchaseStands, CompletedOwnsRow
  <2>2. intent.ship \in Ships
    BY <1>0, <2>1, Parts DEF IntentTyped, IntentUsable
  <2>3. QED
    BY <2>1, <2>2, RowsStay
<1>3. ASSUME NEW r \in Requests, PurchaseCompleted(r)
      PROVE  intent'.ship = intent'.key /\ ship'[intent'.ship] # "absent"
  <2> DEFINE k == snap[r].target
  <2>1. pc[r] \in {"complete", "completeExisting"} /\ Completed(k) /\ ship' = ship
    BY <1>3 DEF PurchaseCompleted, Complete, CompleteExisting, At
  <2>2. ship[k] # "absent"
    BY <2>1 DEF TargetSteps, TargetsPersisted
  <2>3. k = intent.key
    <3>1. intent'.key = intent.key
      BY <1>3 DEF PurchaseCompleted
    <3>2. intent'.key \in Keys
      BY IntentStep DEF IntentTyped, IntentUsable
    <3>3. k = intent.key \/ <<"stale_finalize", intent.key>> \in bypassed'
      BY <2>1 DEF Completed
    <3>4. QED
      BY <3>1, <3>2, <3>3 DEF Overwritten
  <2>4. QED
    BY <1>3, <2>1, <2>2, <2>3 DEF PurchaseCompleted
<1>4. QED
  BY <1>2, <1>3, PurchaseMoves, Claimed DEF PurchaseHeld, PurchaseResolved, PurchaseFailed,
     PurchaseRecorded, PurchaseReleased

\* The key is rotated when the label of a completed purchase was voided at the carrier.
LEMMA OldKeysStep ==
    ASSUME TypeInv, VoidsAtCarrier, CompletedOwnsRow, OldKeysVoided, [Next]_vars
    PROVE  OldKeysVoided'
<1> SUFFICES ASSUME NEW k \in Keys, k < intent'.key, k \notin Overwritten'
             PROVE  label'[k] = "voided"
  BY DEF OldKeysVoided
<1>0. /\ k \notin Overwritten /\ k \notin Recovered
      /\ k \in Nat /\ 1 <= k /\ intent.key \in Nat
  BY EscapesGrow, Parts, Constant DEF IntentTyped, Intents, KeyOrNull, Keys
<1>1. CASE k < intent.key
  BY <1>0, <1>1, SoldStays DEF OldKeysVoided
<1>2. CASE ~(k < intent.key)
  <2>1. ASSUME NEW r \in Requests, Claim(r) PROVE FALSE
    BY <1>0, <1>2, <2>1, Claimed
  <2>2. PICK v \in Voiders : PurchaseReleased(v)
    BY <1>2, <2>1, PurchaseMoves DEF PurchaseStands, PurchaseHeld, PurchaseResolved,
       PurchaseFailed, PurchaseRecorded, PurchaseCompleted
  <2>3. intent'.key = intent.key + 1
    BY <2>2 DEF PurchaseReleased
  <2>4. k = intent.key
    BY <1>0, <1>2, <2>3
  <2>7. goal[v] = k
    BY <1>0, <2>2, <2>4 DEF PurchaseReleased, CompletedOwnsRow
  <2>5. label[k] = "voided"
    BY <1>0, <2>2, <2>7 DEF PurchaseReleased, VoidFinalize, At, VoidsAtCarrier
  <2>6. QED
    BY <2>5, SoldStays
<1>3. QED
  BY <1>1, <1>2

-----------------------------------------------------------------------------
(* Every sale is covered.  What can be sold under a key is its label, the   *)
(* calls in flight, and the call a request is about to send; a step is      *)
(* checked by what it does to the intent that answers for them.             *)

\* A sale that is exposed after a step was exposed before it, or is the one whose
\* rate its request just put on file under its own lease.
LEMMA ExposedBefore ==
    ASSUME TypeInv, LeasesDistinct, [Next]_vars, NEW k \in Keys, NEW l \in Attempts,
           Exposed(k, l)'
    PROVE  Exposed(k, l) \/ Covered(k, l)'
<1>0. ProcsTyped
  BY Parts
<1>1. CASE <<k, l>> \in calls'
  BY <1>1, CallsMove DEF SendCreate, At, Exposed
<1>2. ASSUME NEW r \in Requests, pc'[r] = "send", snap'[r].key = k, snap'[r].lease = l
      PROVE  Exposed(k, l) \/ Covered(k, l)'
  <2>1. CASE pc'[r] = pc[r] /\ snap'[r] = snap[r]
    BY <1>2, <2>1 DEF Exposed
  <2>2. CASE SaveRate(r)
    <3>1. /\ Owns(r) /\ intent' = [intent EXCEPT !.rated = TRUE]
          /\ UNCHANGED snap /\ pc[r] = "saveRate"
      BY <1>0, <1>2, <2>2 DEF SaveRate, At, Finish, Goto, ProcsTyped
    <3>2. snap[r].key = intent.key
      BY <3>1 DEF LeasesDistinct, HolderSteps, LeaseSteps
    <3>3. /\ intent'.rated /\ intent'.state = "purchasing" /\ intent'.key = intent.key
          /\ intent'.lease = snap[r].lease
      BY <3>1, Parts DEF IntentTyped, Intents, Owns
    <3>4. QED
      BY <1>2, <3>1, <3>2, <3>3 DEF Covered
  <2>3. Arrives(r) => SaveRate(r)
    BY <1>2 DEF Arrives
  <2>4. QED
    BY <2>1, <2>2, <2>3, Arrival, Moved
<1>3. QED
  BY <1>1, <1>2 DEF Exposed

\* The intent goes on answering for a sale, until its owner learns that nothing was sold.
LEMMA CoveredKept ==
    ASSUME TypeInv, VoidsAtCarrier, CompletedOwnsRow, [Next]_vars,
           NEW k \in Keys, NEW l \in Attempts \cup {0}, Covered(k, l),
           k \notin disowned', k \notin Overwritten', label'[k] # "voided"
    PROVE  Covered(k, l)' \/ \E r \in Requests : PurchaseFailed(r)
<1>1. k \notin Overwritten /\ k \notin Recovered
  BY EscapesGrow
<1>2. CASE PurchaseStands \/ PurchaseHeld
  BY <1>2 DEF PurchaseStands, PurchaseHeld, Covered
<1>3. ASSUME NEW r \in Requests, PurchaseRecorded(r) \/ PurchaseCompleted(r)
      PROVE  Covered(k, l)'
  BY <1>3 DEF PurchaseRecorded, PurchaseCompleted, Owns, Covered
<1>4. ASSUME NEW v \in Voiders, PurchaseReleased(v) PROVE FALSE
  <2>1. goal[v] = k
    BY <1>1, <1>4 DEF PurchaseReleased, CompletedOwnsRow, Covered
  <2>2. label[k] = "voided"
    BY <1>1, <1>4, <2>1 DEF PurchaseReleased, VoidFinalize, At, VoidsAtCarrier
  <2>3. QED
    BY <2>2, SoldStays
<1>5. CASE PurchaseResolved
  BY <1>5 DEF PurchaseResolved, ResolveNoEffect, Covered
<1>6. ASSUME NEW r \in Requests, Claim(r) PROVE FALSE
  BY <1>6, Claimed DEF Covered
<1>7. QED
  BY <1>2, <1>3, <1>4, <1>5, <1>6, PurchaseMoves

\* A purchase is failed only by the request that owns it, after its own call was
\* rejected or before it sent one: nothing of the key is sold or may still be.
LEMMA FailedUnexposed ==
    ASSUME TypeInv, LeasesDistinct, CallsSent, NEW k \in Keys, SalesCovered(k),
           k \notin disowned, NEW r \in Requests, PurchaseFailed(r)
    PROVE  label[k] # "live" /\ \A l \in Attempts : ~Exposed(k, l)
<1>1. pc[r] = "markFailed" /\ Owns(r)
  BY DEF PurchaseFailed, MarkFailed, At
<1>2. /\ intent.state = "purchasing" /\ intent.lease = snap[r].lease
      /\ snap[r].key = intent.key /\ pc[r] \in HolderSteps
  BY <1>1 DEF Owns, LeasesDistinct, HolderSteps
<1>3. ASSUME label[k] = "live" PROVE FALSE
  BY <1>1, <1>2, <1>3 DEF SalesCovered, Covered
<1>4. ASSUME NEW l \in Attempts, Exposed(k, l) PROVE FALSE
  <2>1. k = snap[r].key /\ l = snap[r].lease
    BY <1>2, <1>4 DEF SalesCovered, Covered
  <2>2. <<k, l>> \notin calls
    BY <1>1, <1>2, <2>1 DEF CallsSent
  <2>3. ASSUME NEW q \in Requests, pc[q] = "send", snap[q].lease = l PROVE FALSE
    <3>1. q = r
      BY <1>2, <2>1, <2>3 DEF LeasesDistinct, HolderSteps, LeaseSteps
    <3>2. QED
      BY <1>1, <2>3, <3>1
  <2>4. QED
    BY <1>4, <2>2, <2>3 DEF Exposed
<1>5. QED
  BY <1>3, <1>4

LEMMA SalesStep ==
    ASSUME TypeInv, LeasesDistinct, CallsSent, VoidsAtCarrier, CompletedOwnsRow,
           EverySaleCovered, [Next]_vars
    PROVE  EverySaleCovered'
<1> SUFFICES ASSUME NEW k \in Keys, k \notin disowned', k \notin Overwritten',
                    label'[k] # "voided"
             PROVE  SalesCovered(k)'
  BY DEF EverySaleCovered
<1>0. /\ ProcsTyped /\ attempt \in Nat
      /\ calls \in SUBSET (Keys \X Attempts) /\ label \in [Keys -> {"none", "live", "voided"}]
      /\ intent.lease \in Attempts \cup {0}
  BY Parts, Constant DEF RowsTyped, IntentTyped, Intents
<1>1. SalesCovered(k) /\ k \notin disowned
  BY EscapesGrow, SoldStays DEF EverySaleCovered
<1>2. ASSUME label[k] # "live", label'[k] = "live"
      PROVE  \E l \in Attempts : /\ <<k, l>> \in calls /\ calls' = calls \ {<<k, l>>}
                                 /\ UNCHANGED <<intent, pc, snap>>
  <2>1. ProviderSells
    <3>1. ASSUME NEW v \in Voiders, VoidAtProvider(v) PROVE FALSE
      BY <1>0, <1>2, <3>1 DEF VoidAtProvider
    <3>2. QED
      BY <1>2, <3>1, CarrierWriters
  <2>2. PICK c \in calls :
          /\ calls' = calls \ {c}
          /\ label' = [label EXCEPT ![c[1]] = IF @ = "none" THEN "live" ELSE @]
          /\ UNCHANGED <<intent, pc, snap>>
    BY <2>1 DEF ProviderSells, rows
  <2>3. c[1] = k
    BY <1>0, <1>2, <2>2
  <2>4. c = <<k, c[2]>> /\ c[2] \in Attempts
    BY <1>0, <2>3
  <2>5. QED
    BY <2>2, <2>4
<1>3. ASSUME label'[k] = "live" PROVE Covered(k, intent.lease)'
  <2>1. CASE label[k] = "live"
    <3> DEFINE l == intent.lease
    <3>1. Covered(k, l)
      BY <1>1, <2>1 DEF SalesCovered
    <3>2. ~\E r \in Requests : PurchaseFailed(r)
      BY <1>1, <2>1, FailedUnexposed
    <3>3. ASSUME NEW m \in Attempts \cup {0}, m = l PROVE Covered(k, intent.lease)'
      <4>1. Covered(k, m)
        BY <3>1, <3>3
      <4>2. Covered(k, m)'
        BY <3>2, <4>1, CoveredKept
      <4>3. QED
        BY <4>2 DEF Covered
    <3>4. QED
      BY <1>0, <3>3
  <2>2. CASE label[k] # "live"
    BY <1>1, <1>2, <1>3, <2>2 DEF SalesCovered, Exposed, Covered
  <2>3. QED
    BY <2>1, <2>2
<1>4. ASSUME NEW l \in Attempts, Exposed(k, l)' PROVE Covered(k, l)'
  <2>1. CASE Exposed(k, l)
    <3>1. Covered(k, l) /\ ~\E r \in Requests : PurchaseFailed(r)
      BY <1>1, <2>1, FailedUnexposed DEF SalesCovered
    <3>2. QED
      BY <3>1, CoveredKept
  <2>2. QED
    BY <1>4, <2>1, ExposedBefore
<1>5. ASSUME NEW r \in Requests, pc'[r] \in HolderSteps, Owns(r)', snap'[r].key = k,
             label'[k] = "live"
      PROVE  /\ pc'[r] \in {"calling", "markUnknown", "record"}
             /\ <<k, snap'[r].lease>> \notin calls'
  <2> DEFINE own == <<k, snap[r].lease>>
  <2>1. CASE Claim(r)
    <3>1. label[k] = "live" /\ intent.state \in {"none", "failed", "voided"}
      BY <1>5, <2>1, Claimed
    <3>2. QED
      BY <1>1, <3>1 DEF SalesCovered, Covered
  <2>2. CASE ~Claim(r)
    <3>1. /\ pc[r] \in HolderSteps /\ snap[r].key = k /\ snap'[r].lease = snap[r].lease
          /\ snap[r].lease \in 1..attempt
      BY <1>5, <2>2, HolderEntered DEF LeasesDistinct
    <3>2. intent'.state = "purchasing" /\ intent'.lease = snap[r].lease
      BY <1>5, <3>1 DEF Owns
    <3>3. ~\E q \in Requests : Claim(q)
      BY <1>0, <3>1, <3>2, Claimed
    <3>4. Owns(r)
      BY <3>2, <3>3, PurchasingKept DEF Owns, PurchaseStands
    <3>5. CASE label[k] = "live"
      <4>1. pc[r] \in {"calling", "markUnknown", "record"} /\ own \notin calls
        BY <1>1, <3>1, <3>4, <3>5 DEF SalesCovered
      <4>2. own \notin calls'
        <5>1. ASSUME own \in calls' PROVE FALSE
          <6>1. PICK q \in Requests : SendCreate(q) /\ own = <<snap[q].key, snap[q].lease>>
            BY <4>1, <5>1, CallsMove
          <6>2. pc[q] = "send" /\ q = r
            BY <3>1, <6>1 DEF SendCreate, At, LeasesDistinct, HolderSteps, LeaseSteps
          <6>3. QED
            BY <4>1, <6>2
        <5>2. QED
          BY <5>1
      <4>3. pc'[r] \in {"calling", "markUnknown", "record"}
        <5>1. Arrives(r) => pc'[r] \in {"calling", "markUnknown", "record"}
          BY <1>5, <2>2, <3>1, <4>1 DEF Arrives, At, Quote, SaveRate, ReceiveRejection,
             ReceiveRepostRejection, HolderSteps, LeaseSteps
        <5>2. QED
          BY <4>1, <5>1, Arrival, Moved
      <4>4. QED
        BY <3>1, <4>2, <4>3
    <3>6. CASE label[k] # "live"
      <4>1. PICK l \in Attempts : /\ <<k, l>> \in calls /\ calls' = calls \ {<<k, l>>}
                                  /\ UNCHANGED <<intent, pc, snap>>
        BY <1>2, <1>5, <3>6
      <4>2. l = snap[r].lease
        BY <1>1, <3>4, <4>1 DEF SalesCovered, Exposed, Covered, Owns
      <4>3. pc[r] \in {"calling", "markUnknown"}
        BY <1>1, <3>1, <4>1, <4>2 DEF CallsSent
      <4>4. QED
        BY <3>1, <4>1, <4>2, <4>3
    <3>7. QED
      BY <3>5, <3>6
  <2>3. QED
    BY <2>1, <2>2
<1>6. QED
  BY <1>3, <1>4, <1>5 DEF SalesCovered

\* A key is disowned when it is drawn; a void rotates to one that nobody has drawn.
LEMMA DisownedStep ==
    ASSUME TypeInv, DisownedDrawn, [Next]_vars
    PROVE  DisownedDrawn'
<1>0. /\ intent.key \in Nat /\ intent'.key \in Nat /\ intent.key <= intent'.key
      /\ disowned \in SUBSET Keys /\ (\A k \in Keys : k \in Nat) /\ ProcsTyped
      /\ \A r \in Requests : snap[r].key \in Nat /\ snap[r].key <= intent.key
  <2>1. KeysDrawn /\ ProcsTyped /\ disowned \in SUBSET Keys
    BY Parts DEF TypeInv, RowsTyped
  <2>2. \A r \in Requests : snap[r].key \in Nat
    BY <2>1, Constant DEF ProcsTyped, Snapshot, KeyOrNull, Keys
  <2>3. intent'.key \in Nat
    BY IntentStep, Constant DEF IntentTyped, Intents, KeyOrNull, Keys
  <2>4. QED
    BY <2>1, <2>2, <2>3, KeyGrows, Constant DEF KeysDrawn, Keys
<1>1. ASSUME NEW k \in disowned', k \notin disowned
      PROVE  /\ k \in Nat /\ k <= intent.key
             /\ \/ ResolveNoEffect
                \/ \E r \in Requests : ReceiveRepostRejection(r) /\ k = snap[r].key
  BY <1>0, <1>1, DisownedWriters DEF ResolveNoEffect, ReceiveRepostRejection
<1>2. ASSUME NEW k \in disowned' PROVE k <= intent'.key
  <2>1. k \in Nat /\ k <= intent.key
    BY <1>0, <1>1 DEF DisownedDrawn
  <2>2. QED
    BY <1>0, <2>1
<1>3. ASSUME intent'.state = "voided"
      PROVE  /\ intent'.key \notin disowned'
             /\ \A r \in Requests : pc'[r] \in HolderSteps => snap'[r].key # intent'.key
  <2>1. PurchaseStands \/ \E v \in Voiders : PurchaseReleased(v)
    BY <1>3, PurchaseMoves, Claimed DEF PurchaseHeld, PurchaseResolved, PurchaseFailed,
       PurchaseRecorded, PurchaseCompleted
  <2>2. ASSUME NEW r \in Requests, Claim(r) PROVE FALSE
    BY <1>3, <2>2, Claimed
  <2>3. CASE PurchaseStands
    <3>1. /\ intent.state = "voided" /\ intent'.key = intent.key /\ intent.key \notin disowned
          /\ \A r \in Requests : pc[r] \in HolderSteps => snap[r].key # intent.key
      BY <1>3, <2>3 DEF PurchaseStands, DisownedDrawn
    <3>2. ~ResolveNoEffect
      BY <3>1 DEF ResolveNoEffect
    <3>3. ASSUME NEW r \in Requests, ReceiveRepostRejection(r) PROVE snap[r].key # intent.key
      BY <3>1, <3>3 DEF ReceiveRepostRejection, At, HolderSteps, LeaseSteps
    <3>4. intent.key \notin disowned'
      BY <1>1, <3>1, <3>2, <3>3
    <3>5. QED
      BY <2>2, <3>1, <3>4, HolderEntered
  <2>4. ASSUME NEW v \in Voiders, PurchaseReleased(v)
        PROVE  /\ intent'.key \notin disowned'
               /\ \A r \in Requests : pc'[r] \in HolderSteps => snap'[r].key # intent'.key
    <3>1. intent'.key = intent.key + 1
      BY <2>4 DEF PurchaseReleased
    <3>2. intent'.key \notin disowned'
      BY <1>0, <1>1, <3>1 DEF DisownedDrawn
    <3>3. QED
      BY <1>0, <2>2, <3>1, <3>2, HolderEntered
  <2>5. QED
    BY <2>1, <2>3, <2>4
<1>4. QED
  BY <1>2, <1>3 DEF DisownedDrawn

-----------------------------------------------------------------------------
(* The invariant, and what it says                                          *)

LEMMA PostageInit == Init => PostageInv
<1> SUFFICES ASSUME Init PROVE PostageInv
  OBVIOUS
<1>1. TypeInv /\ TargetsPersisted
  BY TypeInit DEF Init, TargetsPersisted, TargetSteps
<1>2. /\ \A p \in Requests \cup Voiders : pc[p] = "idle"
      /\ \A k \in Keys : ship[k] = "absent" /\ label[k] = "none" /\ page[k] = "unread"
      /\ \A m \in Mirrors : ship[m] = "absent"
      /\ calls = {} /\ intent.state = "none" /\ intent.receipt = 0 /\ intent.key = 0
      /\ ret.ship = NoShip
  BY Constant DEF Init, Ships
<1>3. NoShip \notin Keys /\ \A k \in Keys : ~(k < 0)
  BY Distinct, Constant DEF Keys
<1>4. LeasesDistinct /\ CallsSent /\ ReceiptsMatch /\ TargetsFrozen
  BY <1>2 DEF LeasesDistinct, CallsSent, ReceiptsMatch, TargetsFrozen, HolderSteps, LeaseSteps
<1>5. VoidsAtCarrier /\ RowsMatchTheirLabel /\ CompletedOwnsRow
  BY <1>2, <1>3 DEF VoidsAtCarrier, RowsMatchTheirLabel, CompletedOwnsRow, Voided
<1>6. RowsDrawn /\ SyncTold /\ OldKeysVoided
  BY <1>2, <1>3 DEF RowsDrawn, SyncTold, OldKeysVoided
<1>7. EverySaleCovered /\ DisownedDrawn
  BY <1>2 DEF Init, EverySaleCovered, SalesCovered, Exposed, HolderSteps, LeaseSteps,
     DisownedDrawn
<1>8. QED
  BY <1>1, <1>4, <1>5, <1>6, <1>7 DEF PostageInv

LEMMA PostageStep == PostageInv /\ [Next]_vars => PostageInv'
<1> SUFFICES ASSUME PostageInv, [Next]_vars PROVE PostageInv'
  OBVIOUS
<1>0. /\ TypeInv /\ TargetsPersisted /\ LeasesDistinct /\ CallsSent /\ ReceiptsMatch
      /\ RowsMatchTheirLabel /\ TargetsFrozen /\ RowsDrawn /\ SyncTold /\ VoidsAtCarrier
      /\ CompletedOwnsRow /\ OldKeysVoided /\ EverySaleCovered
      /\ DisownedDrawn
  BY DEF PostageInv
<1>1. TypeInv' /\ TargetsPersisted'
  BY <1>0, TypeStep, TargetsStep
<1>2. LeasesDistinct' /\ CallsSent'
  BY <1>0, LeasesStep, CallsStep
<1>3. ReceiptsMatch' /\ RowsMatchTheirLabel' /\ TargetsFrozen'
  BY <1>0, ReceiptsStep, RowsMatchStep, FrozenStep
<1>4. RowsDrawn' /\ SyncTold' /\ VoidsAtCarrier'
  BY <1>0, RowsDrawnStep, SyncToldStep, VoidsStep
<1>5. CompletedOwnsRow' /\ OldKeysVoided' /\ EverySaleCovered' /\ DisownedDrawn'
  BY <1>0, CompletedRowStep, OldKeysStep, SalesStep, DisownedStep
<1>6. QED
  BY <1>1, <1>2, <1>3, <1>4, <1>5 DEF PostageInv

LEMMA PostageInvariant == Spec => []PostageInv
  BY PostageInit, PostageStep, PTL DEF Spec

\* Postage that was paid for and not voided is never forgotten by createReturnLabel, its
\* recovery, voidLabelV2 and the shipment sync: its row is active, or the intent holds its
\* purchase, or stands failed under its key after an operator or the rejection of a repost
\* said that nothing was bought; unless a write that the code does not fence reached the
\* intent under that key.
THEOREM PostageAccounted == Spec => []PaidLabelAccounted
<1>1. PostageInv => PaidLabelAccounted
  <2> SUFFICES ASSUME PostageInv, NEW k \in LiveLabels, k \notin Overwritten
               PROVE  \/ Active(k)
                      \/ /\ k = intent.key
                         /\ intent.state \in {"purchasing", "unknown_outcome", "purchased"}
                      \/ k = intent.key /\ intent.state = "failed" /\ k \in disowned
    BY DEF PaidLabelAccounted
  <2>0. /\ intent.key \in Nat /\ intent.state \in IntentStates
        /\ intent.state = "none" => intent.key = 0
    BY Parts, Constant DEF PostageInv, IntentTyped, IntentUsable, Intents, KeyOrNull, Keys
  <2>1. k \in Keys /\ k \in Nat /\ k # 0 /\ k \in Ships /\ label[k] = "live"
    BY Constant DEF LiveLabels, Keys
  <2>2. k = intent.key
    <3>1. CASE k \in disowned
      <4>1. k <= intent.key /\ ~(k < intent.key)
        BY <2>1, <3>1 DEF PostageInv, DisownedDrawn, OldKeysVoided
      <4>2. QED
        BY <2>0, <2>1, <4>1
    <3>2. CASE k \notin disowned
      BY <2>1, <3>2 DEF PostageInv, EverySaleCovered, SalesCovered, Covered
    <3>3. QED
      BY <3>1, <3>2
  <2>3. CASE intent.state = "completed"
    <3>1. ship[k] # "absent" /\ ~Voided(k)
      BY <2>1, <2>2, <2>3 DEF PostageInv, CompletedOwnsRow, VoidsAtCarrier, Recovered, Overwritten
    <3>2. RowsTyped
      BY Parts DEF PostageInv
    <3>3. QED
      BY <2>1, <3>1, <3>2 DEF Active, Voided, RowsTyped
  <2>4. CASE k \notin disowned
    BY <2>1, <2>3, <2>4 DEF PostageInv, EverySaleCovered, SalesCovered, Covered
  <2>5. CASE k \in disowned /\ intent.state # "completed"
    <3>1. intent.state \notin {"none", "voided"}
      BY <2>0, <2>1, <2>2, <2>5 DEF PostageInv, DisownedDrawn
    <3>2. QED
      BY <2>0, <2>2, <2>5, <3>1 DEF IntentStates
  <2>6. QED
    BY <2>3, <2>4, <2>5
<1>2. QED
  BY <1>1, PostageInvariant, PTL

\* A held purchase of a sold label can be recovered without an operator: no step takes
\* the rate that acquireReturnLabelPurchase's recovery requires off the intent.
THEOREM HeldRecoverable == Spec => []HeldPurchaseRecoverable
<1>1. PostageInv => HeldPurchaseRecoverable
  <2>1. TypeInv => (label[intent.key] = "live" /\ intent.state # "none" => intent.key \in Keys)
    BY Parts DEF IntentTyped, IntentUsable
  <2>2. QED
    BY <2>1 DEF PostageInv, HeldPurchaseRecoverable, EverySaleCovered, SalesCovered, Covered
<1>2. QED
  BY <1>1, PostageInvariant, PTL

\* The shipment row of a key describes the label sold under that key, also after the
\* sync wrote it, and the return is billed at the amount frozen for the label it links.
THEOREM RowsTrue == Spec => []RowsMatchTheirLabel
<1>1. PostageInv => RowsMatchTheirLabel
  BY DEF PostageInv
<1>2. QED
  BY <1>1, PostageInvariant, PTL

\* If the labels of all earlier keys are voided, one label at most is live.
LEMMA LiveIsCurrent ==
    ASSUME TypeInv, CallsSent, Recovered = {},
           \A k \in Keys : k < intent.key => label[k] = "voided"
    PROVE  ~(Cardinality(LiveLabels) > 1)
<1>0. intent.key \in Nat
  BY Parts, Constant DEF IntentTyped, Intents, KeyOrNull, Keys
<1>1. ASSUME NEW k \in LiveLabels PROVE k = intent.key
  <2>1. k \in Keys /\ k \in Nat /\ label[k] = "live"
    BY Constant DEF LiveLabels, Keys
  <2>2. k <= intent.key
    BY <2>1 DEF CallsSent
  <2>3. ~(k < intent.key)
    BY <2>1
  <2>4. QED
    BY <1>0, <2>1, <2>2, <2>3
<1>2. LiveLabels = {} \/ LiveLabels = {intent.key}
  BY <1>1
<1>3. Cardinality(LiveLabels) = 0 \/ Cardinality(LiveLabels) = 1
  BY <1>2, FS_EmptySet, FS_Singleton
<1>4. QED
  BY <1>3

\* A return never has two labels that are sold and live at the carrier, however its
\* purchases are retried, resolved, recovered, voided and synced, as long as no write
\* reached the intent past its fence (completeReturnLabelPurchase and
\* recordRecoveredReturnLabelProviderReceipt match it by id and state, not by key).
THEOREM OneLiveLabelWhenFenced == Spec => [](bypassed = {} => ~(Cardinality(LiveLabels) > 1))
<1>1. PostageInv => (bypassed = {} => ~(Cardinality(LiveLabels) > 1))
  <2>1. bypassed = {} => Recovered = {} /\ Overwritten = {}
    BY DEF Recovered, Overwritten
  <2>2. QED
    BY <2>1, LiveIsCurrent DEF PostageInv, OldKeysVoided
<1>2. QED
  BY <1>1, PostageInvariant, PTL

\* While the shipment sync leaves the order alone, a completion of an older key that
\* lands on the intent does no harm either: only the recovery of one may.
THEOREM OneLiveLabel == ASSUME Mirrors = {} PROVE Spec => []AtMostOneLiveLabel
<1>1. PostageInv /\ SlotInv => AtMostOneLiveLabel
  <2> SUFFICES ASSUME PostageInv, SlotInv, Recovered = {}
               PROVE  ~(Cardinality(LiveLabels) > 1)
    BY DEF AtMostOneLiveLabel
  <2>1. \A k \in Keys : k < intent.key => label[k] = "voided"
    BY DEF PostageInv, SlotInv, KeyRotatesOncePerVoid, VoidsAtCarrier
  <2>2. QED
    BY <2>1, LiveIsCurrent DEF PostageInv
<1>2. QED
  BY <1>1, PostageInvariant, SlotInvariant, PTL

\* Under the same assumption a completed intent points at the active row of its current
\* key, unless completeReturnLabelPurchase or a recovery, which match the intent by id
\* alone, landed on it with an older key.
THEOREM CompletedOwnsLabel == ASSUME Mirrors = {} PROVE Spec => []CompletedOwnsActiveLabel
<1>1. PostageInv /\ SlotInv => CompletedOwnsActiveLabel
  <2> SUFFICES ASSUME PostageInv, SlotInv, intent.state = "completed",
                      intent.key \notin Overwritten
               PROVE  intent.ship = intent.key /\ Active(intent.ship)
    BY DEF CompletedOwnsActiveLabel
  <2>1. intent.ship = intent.key /\ ship[intent.key] # "absent"
    BY DEF PostageInv, CompletedOwnsRow
  <2>2. intent.key \in Keys /\ intent.key \in Ships /\ ~(intent.key < intent.key)
    BY Parts, Constant DEF PostageInv, IntentTyped, IntentUsable, Intents, KeyOrNull, Keys
  <2>3. ~Voided(intent.key)
    BY <2>2 DEF SlotInv, KeyRotatesOncePerVoid
  <2>4. RowsTyped
    BY Parts DEF PostageInv
  <2>5. QED
    BY <2>1, <2>2, <2>3, <2>4 DEF Active, Voided, RowsTyped
<1>2. QED
  BY <1>1, PostageInvariant, SlotInvariant, PTL
=============================================================================
