-------------------------- MODULE ReturnLabelProofs --------------------------
(* Theorems about the label slot of ReturnLabel, for every value of its      *)
(* constants, and that it implements ReturnSlot.                             *)
EXTENDS ReturnLabelRefinement, TLAPS

-----------------------------------------------------------------------------
(* Type correctness.  TypeInv splits into the return, the intent, the other *)
(* rows with the provider, and the processes; a step is checked against     *)
(* the parts it writes.                                                     *)

IntentTyped == intent \in Intents /\ IntentUsable

RowsTyped ==
    /\ ship \in [Ships -> {"absent", "active", "voided"}]
    /\ carries \in [Keys \cup Mirrors -> KeyOrNull]
    /\ page \in [Keys -> {"unread", "live", "voided"}]
    /\ frozen \in SUBSET Keys
    /\ attempt \in 0..MaxAttempts
    /\ label \in [Keys -> {"none", "live", "voided"}]
    /\ calls \in SUBSET (Keys \X Attempts)
    /\ disowned \in SUBSET Keys
    /\ bypassed \in SUBSET ({"stale_finalize", "stale_recovery"} \X Keys)

ProcsTyped ==
    /\ pc \in [Requests \cup Voiders -> Steps \cup VoidSteps]
    /\ snap \in [Requests -> Snapshot]
    /\ goal \in [Voiders -> ShipOrNull]
    /\ RequestsUsable

LEMMA Parts ==
    TypeInv <=> ret \in Returns /\ IntentTyped /\ RowsTyped /\ ProcsTyped /\ KeysDrawn
BY DEF TypeInv, TypeOK, IntentTyped, RowsTyped, ProcsTyped

\* The first key and the null key are keys, a bound is a natural number.
LEMMA Constant ==
    /\ MaxKey \in Nat /\ MaxAttempts \in Nat
    /\ 0 \in KeyOrNull /\ 1 \in Keys /\ Keys \subseteq KeyOrNull /\ Keys \subseteq Ships
    /\ NoShip \in ShipOrNull /\ Ships \subseteq ShipOrNull
BY ConstantsAssumption DEF Keys, KeyOrNull, Ships, ShipOrNull

\* The rows of external labels and of the sync are not the rows of purchases.
LEMMA Distinct ==
    /\ \A k \in KeyOrNull : k \in Ships => k \in Keys
    /\ \A x \in External : x \notin KeyOrNull
    /\ NoShip \notin Ships
<1>1. \A k \in KeyOrNull : k \in Nat
  BY ConstantsAssumption DEF Keys, KeyOrNull
<1>2. QED
  BY <1>1, ConstantsAssumption DEF Ships, Keys, KeyOrNull

LEMMA TypeInit == Init => TypeInv
<1> SUFFICES ASSUME Init PROVE TypeInv
  OBVIOUS
<1>1. ret \in Returns
  BY Constant DEF Init, Returns, Statuses, Labelable
<1>2. IntentTyped
  BY Constant DEF Init, IntentTyped, Intents, IntentUsable, IntentStates
<1>3. RowsTyped
  BY Constant DEF Init, RowsTyped
<1>4. NoSnapshot \in Snapshot
  BY Constant DEF NoSnapshot, Snapshot
<1>5. ProcsTyped
  BY Constant, <1>4 DEF Init, ProcsTyped, Steps, RequestsUsable, Usable, LeaseSteps,
      KeySteps, TargetSteps
<1>6. KeysDrawn
  BY DEF Init, KeysDrawn, NoSnapshot
<1>7. QED
  BY <1>1, <1>2, <1>3, <1>5, <1>6, Parts

-----------------------------------------------------------------------------
(* The intent                                                               *)

\* The steps of a request that write the intent.
LEMMA IntentWriters ==
    ASSUME NEW r \in Requests, RequestStep(r), intent' # intent
    PROVE  \/ Claim(r) \/ AcquireRecover(r) \/ SaveRate(r) \/ Heartbeat(r)
           \/ MarkUnknown(r) \/ MarkFailed(r) \/ RecordReceipt(r) \/ RecordRecovered(r)
           \/ Complete(r) \/ CompleteExisting(r)
BY DEF RequestStep, ReadReturn, CheckLinked, ReadIntent, CheckActive, AcquireConflict,
   AcquireInProgress, AcquireCompleted, Quote, SendCreate, ReceiveReceipt, ReceiveRejection, ReceiveRepostRejection,
   AbandonCall, MarkReturnFailed, Lookup, PersistShipment, Freeze, WriteAlias, Link, Crash,
   rows

\* The others that do.
LEMMA OtherIntentWriters ==
    ASSUME (\E v \in Voiders : VoidStep(v)) \/ OtherStep, intent' # intent
    PROVE  (\E v \in Voiders : VoidFinalize(v)) \/ LeaseExpires \/ ResolveNoEffect
BY DEF VoidStep, OtherStep, VoidPreflight, VoidAtProvider, VoidAborts, ProviderSells,
   AssignExternal, SyncReads, SyncWrites, TrackingAdvances, Receive, rows

LEMMA RequestIntent ==
    ASSUME TypeInv, NEW r \in Requests, RequestStep(r)
    PROVE  IntentTyped'
<1>0. IntentTyped /\ ProcsTyped /\ RowsTyped
  BY Parts
<1>1. CASE intent' = intent
  BY <1>0, <1>1 DEF IntentTyped, IntentUsable
<1>2. CASE Claim(r)
  <2>1. attempt + 1 \in Attempts
    BY <1>0, <1>2, Constant DEF Claim, RowsTyped, Attempts
  <2>2. PICK k \in Keys : intent' = [intent EXCEPT !.state = "purchasing", !.key = k,
                                         !.lease = attempt + 1, !.expired = FALSE]
    BY <1>0, <1>2, Constant DEF Claim, IntentTyped, IntentUsable
  <2>3. QED
    BY <1>0, <2>1, <2>2, Constant DEF IntentTyped, Intents, IntentUsable, IntentStates
<1>3. CASE AcquireRecover(r)
  BY <1>0, <1>3 DEF AcquireRecover, Held, IntentTyped, Intents, IntentUsable, IntentStates
<1>4. CASE SaveRate(r)
  BY <1>0, <1>4 DEF SaveRate, IntentTyped, Intents, IntentUsable
<1>5. CASE Heartbeat(r)
  BY <1>0, <1>5 DEF Heartbeat, IntentTyped, Intents, IntentUsable
<1>6. CASE MarkUnknown(r)
  BY <1>0, <1>6 DEF MarkUnknown, Held, Owns, IntentTyped, Intents, IntentUsable, IntentStates
<1>7. CASE MarkFailed(r)
  BY <1>0, <1>7, Constant DEF MarkFailed, Owns, IntentTyped, Intents, IntentUsable,
     IntentStates
<1>8. CASE RecordReceipt(r)
  BY <1>0, <1>8 DEF RecordReceipt, Owns, IntentTyped, Intents, IntentUsable, IntentStates,
     ProcsTyped, Snapshot
<1>9. CASE RecordRecovered(r)
  BY <1>0, <1>9 DEF RecordRecovered, IntentTyped, Intents, IntentUsable, IntentStates,
     ProcsTyped, Snapshot
<1>10. CASE Complete(r) \/ CompleteExisting(r)
  <2>1. Completed(snap[r].target) /\ snap[r].target \in Keys
    BY <1>0, <1>10 DEF Complete, CompleteExisting, At, ProcsTyped, RequestsUsable, Usable,
       TargetSteps
  <2>2. PICK k \in Keys :
          intent' = [intent EXCEPT !.state = "completed", !.ship = k, !.lease = 0,
                                   !.expired = FALSE, !.rated = FALSE, !.receipt = 0]
    BY <2>1 DEF Completed
  <2>3. intent.key \in Keys
    BY <1>0, <2>1, Parts DEF IntentTyped, Intents, KeyOrNull, Keys, KeysDrawn
  <2>4. QED
    BY <1>0, <2>2, <2>3, Constant DEF IntentTyped, Intents, IntentUsable, IntentStates
<1>11. QED
  BY <1>1, <1>2, <1>3, <1>4, <1>5, <1>6, <1>7, <1>8, <1>9, <1>10, IntentWriters

LEMMA OtherIntent ==
    ASSUME TypeInv, (\E v \in Voiders : VoidStep(v)) \/ OtherStep
    PROVE  IntentTyped'
<1>0. IntentTyped
  BY Parts
<1>1. CASE intent' = intent
  BY <1>0, <1>1 DEF IntentTyped, IntentUsable
<1>2. ASSUME NEW v \in Voiders, VoidFinalize(v) PROVE IntentTyped'
  <2>1. intent'.key <= MaxKey /\ (intent' = intent \/
          /\ intent.state = "completed"
          /\ intent' = [intent EXCEPT !.state = "voided", !.key = @ + 1, !.lease = 0,
                                      !.expired = FALSE])
    BY <1>2 DEF VoidFinalize, Released
  <2>2. CASE intent' = intent
    BY <1>1, <2>2
  <2>3. CASE intent' # intent
    <3>1. intent.key + 1 <= MaxKey /\ intent.key \in Keys
      BY <1>0, <2>1, <2>3 DEF IntentTyped, Intents, IntentUsable
    <3>2. intent.key + 1 \in Keys
      BY <3>1, Constant DEF Keys
    <3>3. QED
      BY <1>0, <2>1, <2>3, <3>2, Constant DEF IntentTyped, Intents, IntentUsable, IntentStates
  <2>4. QED
    BY <2>2, <2>3
<1>3. CASE LeaseExpires
  BY <1>0, <1>3 DEF LeaseExpires, IntentTyped, Intents, IntentUsable
<1>4. CASE ResolveNoEffect
  BY <1>0, <1>4, Constant DEF ResolveNoEffect, IntentTyped, Intents, IntentUsable, IntentStates
<1>5. QED
  BY <1>1, <1>2, <1>3, <1>4, OtherIntentWriters

LEMMA IntentStep == TypeInv /\ [Next]_vars => IntentTyped'
<1> SUFFICES ASSUME TypeInv, [Next]_vars PROVE IntentTyped'
  OBVIOUS
<1>1. CASE UNCHANGED vars
  BY <1>1, Parts DEF vars, IntentTyped, IntentUsable
<1>2. QED
  BY <1>1, RequestIntent, OtherIntent DEF Next

\* The key of the intent is never taken back.
LEMMA KeyGrows == TypeInv /\ [Next]_vars => intent.key \in Nat /\ intent.key <= intent'.key
<1> SUFFICES ASSUME TypeInv, [Next]_vars PROVE intent.key \in Nat /\ intent.key <= intent'.key
  OBVIOUS
<1>0. intent \in Intents /\ intent.key \in Nat
  BY Parts, Constant DEF IntentTyped, Intents, KeyOrNull, Keys
<1>1. CASE intent' = intent
  BY <1>0, <1>1
<1>2. ASSUME NEW r \in Requests, Claim(r) PROVE intent.key <= intent'.key
  BY <1>0, <1>2, Parts DEF Claim, IntentTyped, IntentUsable, Intents
<1>3. ASSUME NEW v \in Voiders, VoidFinalize(v) PROVE intent.key <= intent'.key
  BY <1>0, <1>3 DEF VoidFinalize, Released, Intents
<1>4. ASSUME NEW r \in Requests,
             AcquireRecover(r) \/ SaveRate(r) \/ Heartbeat(r) \/ MarkUnknown(r) \/ MarkFailed(r)
      PROVE  intent'.key = intent.key
  <2>1. CASE AcquireRecover(r) \/ MarkUnknown(r)
    BY <1>0, <2>1 DEF AcquireRecover, MarkUnknown, Held, Intents
  <2>2. CASE SaveRate(r) \/ Heartbeat(r)
    BY <1>0, <2>2 DEF SaveRate, Heartbeat, Intents
  <2>3. CASE MarkFailed(r)
    BY <1>0, <2>3 DEF MarkFailed, Intents
  <2>4. QED
    BY <1>4, <2>1, <2>2, <2>3
<1>5. ASSUME NEW r \in Requests,
             RecordReceipt(r) \/ RecordRecovered(r) \/ Complete(r) \/ CompleteExisting(r)
      PROVE  intent'.key = intent.key
  <2>1. CASE RecordReceipt(r)
    BY <1>0, <2>1 DEF RecordReceipt, Intents
  <2>2. CASE RecordRecovered(r)
    BY <1>0, <2>2 DEF RecordRecovered, Intents
  <2>3. CASE Complete(r) \/ CompleteExisting(r)
    BY <1>0, <2>3 DEF Complete, CompleteExisting, Completed, Intents
  <2>4. QED
    BY <1>5, <2>1, <2>2, <2>3
<1>6. ASSUME LeaseExpires \/ ResolveNoEffect PROVE intent'.key = intent.key
  <2>1. CASE LeaseExpires
    BY <1>0, <2>1 DEF LeaseExpires, Intents
  <2>2. CASE ResolveNoEffect
    BY <1>0, <2>2 DEF ResolveNoEffect, Intents
  <2>3. QED
    BY <1>6, <2>1, <2>2
<1>7. QED
  BY <1>0, <1>1, <1>2, <1>3, <1>4, <1>5, <1>6, IntentWriters, OtherIntentWriters DEF Next, vars

-----------------------------------------------------------------------------
(* The return                                                               *)

LEMMA ReturnTyped == TypeInv /\ [Next]_vars => ret' \in Returns
<1> SUFFICES ASSUME TypeInv, [Next]_vars PROVE ret' \in Returns
  OBVIOUS
<1>0. ret \in Returns /\ ProcsTyped
  BY Parts
<1>1. CASE ret' = ret
  BY <1>0, <1>1
<1>2. ASSUME NEW r \in Requests, MarkReturnFailed(r) PROVE ret' \in Returns
  BY <1>0, <1>2 DEF MarkReturnFailed, Returns, Statuses, Labelable
<1>3. ASSUME NEW r \in Requests, WriteAlias(r) PROVE ret' \in Returns
  BY <1>0, <1>3 DEF WriteAlias, Returns, ProcsTyped, Snapshot
<1>4. ASSUME NEW r \in Requests, Link(r) PROVE ret' \in Returns
  <2>1. snap[r].target \in Keys
    BY <1>0, <1>4 DEF Link, At, ProcsTyped, RequestsUsable, Usable, TargetSteps
  <2>2. QED
    BY <1>0, <1>4, <2>1, Constant DEF Link, Returns, Statuses, Labelable
<1>5. CASE AssignExternal
  BY <1>0, <1>5, Constant DEF AssignExternal, Returns, Statuses, Labelable, Ships
<1>6. CASE TrackingAdvances
  BY <1>0, <1>6 DEF TrackingAdvances, Returns, Statuses
<1>7. CASE Receive
  BY <1>0, <1>7 DEF Receive, Returns, Statuses
<1>8. CASE \E r \in Requests : RequestStep(r)
  BY <1>1, <1>2, <1>3, <1>4, <1>8 DEF RequestStep, ReadReturn, CheckLinked, ReadIntent,
     CheckActive, AcquireConflict, Claim, AcquireRecover, AcquireInProgress, AcquireCompleted,
     Quote, SaveRate, SendCreate, ReceiveReceipt, ReceiveRejection, ReceiveRepostRejection, AbandonCall, Heartbeat,
     MarkUnknown, MarkFailed, RecordReceipt, Lookup, RecordRecovered, PersistShipment, Freeze,
     Complete, CompleteExisting, Crash, rows
<1>9. CASE \E v \in Voiders : VoidStep(v)
  BY <1>1, <1>9 DEF VoidStep, VoidPreflight, VoidAtProvider, VoidFinalize, VoidAborts, rows
<1>10. CASE OtherStep
  BY <1>1, <1>5, <1>6, <1>7, <1>10 DEF OtherStep, LeaseExpires, ProviderSells,
     ResolveNoEffect, SyncReads, SyncWrites, rows
<1>11. QED
  BY <1>1, <1>8, <1>9, <1>10 DEF Next, vars

-----------------------------------------------------------------------------
(* The other rows and the provider                                          *)

RowsUnchanged ==
    UNCHANGED <<ship, carries, page, frozen, attempt, label, calls, disowned, bypassed>>

LEMMA RowsStand == RowsTyped /\ RowsUnchanged => RowsTyped'
BY DEF RowsTyped, RowsUnchanged

LEMMA RequestRows ==
    ASSUME TypeInv, NEW r \in Requests, RequestStep(r)
    PROVE  RowsTyped'
<1>0. RowsTyped /\ IntentTyped /\ ProcsTyped
  BY Parts
<1>1. CASE RowsUnchanged
  BY <1>0, <1>1, RowsStand
<1>2. CASE Claim(r)
  <2>1. attempt' \in 0..MaxAttempts
    BY <1>0, <1>2, Constant DEF Claim, RowsTyped
  <2>2. QED
    BY <1>0, <1>2, <2>1 DEF Claim, RowsTyped, provider, history
<1>3. CASE SendCreate(r) \/ ReceiveRejection(r)
  <2>1. SendCreate(r) => snap[r].key \in Keys /\ snap[r].lease \in Attempts
    BY <1>0 DEF SendCreate, At, ProcsTyped, RequestsUsable, Usable, KeySteps, LeaseSteps
  <2>2. calls' \in SUBSET (Keys \X Attempts)
    BY <1>0, <1>3, <2>1 DEF SendCreate, ReceiveRejection, RowsTyped
  <2>3. QED
    BY <1>0, <1>3, <2>2 DEF SendCreate, ReceiveRejection, RowsTyped, rows, history
<1>8. CASE ReceiveRepostRejection(r)
  <2>1. snap[r].key \in Keys
    BY <1>0, <1>8 DEF ReceiveRepostRejection, At, ProcsTyped, RequestsUsable, Usable, KeySteps,
       LeaseSteps
  <2>2. disowned' \in SUBSET Keys
    BY <1>0, <1>8, <2>1 DEF ReceiveRepostRejection, RowsTyped
  <2>3. QED
    BY <1>0, <1>8, <2>2 DEF ReceiveRepostRejection, RowsTyped, rows, provider
<1>4. CASE RecordRecovered(r) \/ Complete(r) \/ CompleteExisting(r)
  <2>1. bypassed' \in SUBSET ({"stale_finalize", "stale_recovery"} \X Keys)
    <3>1. intent.state \in {"unknown_outcome", "purchased"} => intent.key \in Keys
      BY <1>0 DEF RecordRecovered, IntentTyped, IntentUsable
    <3>2. Complete(r) \/ CompleteExisting(r) => intent.key \in Keys
      <4>1. KeysDrawn /\ intent.key \in KeyOrNull
        BY <1>0 DEF TypeInv, IntentTyped, Intents
      <4>2. ASSUME Complete(r) \/ CompleteExisting(r) PROVE snap[r].target \in Keys
        BY <1>0, <4>2 DEF Complete, CompleteExisting, At, ProcsTyped, RequestsUsable, Usable,
           TargetSteps
      <4>3. QED
        BY <4>1, <4>2, Constant DEF KeysDrawn, KeyOrNull, Keys
    <3>3. \/ bypassed' = bypassed
          \/ intent.key \in Keys /\ bypassed' = bypassed \cup {<<"stale_recovery", intent.key>>}
          \/ intent.key \in Keys /\ bypassed' = bypassed \cup {<<"stale_finalize", intent.key>>}
      <4>1. CASE RecordRecovered(r)
        BY <3>1, <4>1 DEF RecordRecovered
      <4>2. CASE Complete(r) \/ CompleteExisting(r)
        BY <3>2, <4>2 DEF Complete, CompleteExisting, Completed
      <4>3. QED
        BY <1>4, <4>1, <4>2
    <3>4. QED
      BY <1>0, <3>3 DEF RowsTyped
  <2>2. QED
    BY <1>0, <1>4, <2>1 DEF RecordRecovered, Complete, CompleteExisting, RowsTyped, provider
<1>5. CASE PersistShipment(r)
  <2>1. snap[r].receipt \in KeyOrNull
    BY <1>0 DEF ProcsTyped, Snapshot
  <2>2. ship' \in [Ships -> {"absent", "active", "voided"}]
    BY <1>0, <1>5 DEF PersistShipment, RowsTyped
  <2>3. carries' \in [Keys \cup Mirrors -> KeyOrNull]
    BY <1>0, <1>5, <2>1 DEF PersistShipment, RowsTyped
  <2>4. QED
    BY <1>0, <1>5, <2>2, <2>3 DEF PersistShipment, RowsTyped, provider, history
<1>6. CASE Freeze(r)
  <2>1. snap[r].target \in Keys
    BY <1>0, <1>6 DEF Freeze, AfterFreeze, ProcsTyped, RequestsUsable, Usable, TargetSteps
  <2>2. QED
    BY <1>0, <1>6, <2>1 DEF Freeze, FreezesRow, RowsTyped, provider, history
<1>7. QED
  <2>1. RowsUnchanged \/ Claim(r) \/ SendCreate(r) \/ ReceiveRejection(r)
          \/ ReceiveRepostRejection(r)
          \/ RecordRecovered(r) \/ Complete(r) \/ CompleteExisting(r)
          \/ PersistShipment(r) \/ Freeze(r)
    BY DEF RequestStep, RowsUnchanged, ReadReturn, CheckLinked, ReadIntent, CheckActive,
       AcquireConflict, AcquireRecover, AcquireInProgress, AcquireCompleted, Quote, SaveRate,
       ReceiveReceipt, AbandonCall, Heartbeat, MarkUnknown, MarkFailed, MarkReturnFailed,
       RecordReceipt, Lookup, WriteAlias, Link, Crash, rows, provider, history
  <2>2. QED
    BY <2>1, <1>1, <1>2, <1>3, <1>4, <1>5, <1>6, <1>8

LEMMA OtherRows ==
    ASSUME TypeInv, (\E v \in Voiders : VoidStep(v)) \/ OtherStep
    PROVE  RowsTyped'
<1>0. RowsTyped /\ IntentTyped
  BY Parts
<1>1. CASE RowsUnchanged
  BY <1>0, <1>1, RowsStand
<1>2. ASSUME NEW v \in Voiders, VoidAtProvider(v) PROVE RowsTyped'
  BY <1>0, <1>2 DEF VoidAtProvider, RowsTyped, rows, history
<1>3. ASSUME NEW v \in Voiders, VoidFinalize(v) PROVE RowsTyped'
  BY <1>0, <1>3 DEF VoidFinalize, RowsTyped, provider, history
<1>4. CASE ProviderSells
  <2>1. label' \in [Keys -> {"none", "live", "voided"}]
    BY <1>0, <1>4 DEF ProviderSells, RowsTyped
  <2>2. calls' \in SUBSET (Keys \X Attempts)
    BY <1>0, <1>4 DEF ProviderSells, RowsTyped
  <2>3. QED
    BY <1>0, <1>4, <2>1, <2>2 DEF ProviderSells, RowsTyped, rows, history
<1>5. CASE AssignExternal
  BY <1>0, <1>5 DEF AssignExternal, RowsTyped, provider, history
<1>6. CASE ResolveNoEffect
  <2>1. disowned' \in SUBSET Keys
    BY <1>0, <1>6 DEF ResolveNoEffect, RowsTyped, IntentTyped, IntentUsable
  <2>2. QED
    BY <1>0, <1>6, <2>1 DEF ResolveNoEffect, RowsTyped, provider
<1>7. CASE SyncReads
  BY <1>0, <1>7 DEF SyncReads, RowsTyped, rows, history
<1>8. CASE SyncWrites
  <2>1. PICK k \in Keys, s \in Ships, f \in {"active", "voided"} :
          /\ ship' = [ship EXCEPT ![s] = f]
          /\ carries' = [carries EXCEPT ![s] = k]
          /\ page' = [page EXCEPT ![k] = "unread"]
    BY <1>8 DEF SyncWrites, Ships
  <2>2. carries' \in [Keys \cup Mirrors -> KeyOrNull]
    BY <1>0, <2>1, Constant DEF RowsTyped
  <2>3. QED
    BY <1>0, <1>8, <2>1, <2>2 DEF SyncWrites, RowsTyped, history
<1>9. QED
  <2>1. RowsUnchanged \/ (\E v \in Voiders : VoidAtProvider(v) \/ VoidFinalize(v))
          \/ ProviderSells \/ AssignExternal \/ ResolveNoEffect \/ SyncReads \/ SyncWrites
    BY DEF VoidStep, OtherStep, RowsUnchanged, VoidPreflight, VoidAborts, LeaseExpires,
       TrackingAdvances, Receive, rows, provider, history
  <2>2. QED
    BY <2>1, <1>1, <1>2, <1>3, <1>4, <1>5, <1>6, <1>7, <1>8

LEMMA RowsStep == TypeInv /\ [Next]_vars => RowsTyped'
<1>1. TypeInv /\ UNCHANGED vars => RowsTyped'
  BY Parts, RowsStand DEF vars, RowsUnchanged
<1>2. QED
  BY <1>1, RequestRows, OtherRows DEF Next

-----------------------------------------------------------------------------
(* The processes                                                            *)

\* A request that moves to a step it is fit for leaves the others as they were.
LEMMA Moves ==
    ASSUME ProcsTyped, NEW r \in Requests, NEW step \in Steps, NEW s \in Snapshot,
           Goto(r, step), Keeps(r, s), Usable(step, s), UNCHANGED goal
    PROVE  ProcsTyped'
<1>1. pc' \in [Requests \cup Voiders -> Steps \cup VoidSteps] /\ snap' \in [Requests -> Snapshot]
  BY DEF ProcsTyped, Goto, Keeps
<1>2. \A q \in Requests : Usable(pc'[q], snap'[q])
  BY DEF ProcsTyped, RequestsUsable, Goto, Keeps
<1>3. QED
  BY <1>1, <1>2 DEF ProcsTyped, RequestsUsable, Usable

LEMMA MovesKeeping ==
    ASSUME ProcsTyped, NEW r \in Requests, NEW step \in Steps,
           Goto(r, step), UNCHANGED snap, Usable(step, snap[r]), UNCHANGED goal
    PROVE  ProcsTyped'
<1>1. snap[r] \in Snapshot /\ Keeps(r, snap[r])
  BY DEF ProcsTyped, Keeps
<1>2. QED
  BY <1>1, Moves

LEMMA Finishes ==
    ASSUME ProcsTyped, NEW r \in Requests, Finish(r), UNCHANGED goal
    PROVE  ProcsTyped'
<1>1. NoSnapshot \in Snapshot /\ Usable("idle", NoSnapshot) /\ "idle" \in Steps
  BY Constant DEF NoSnapshot, Snapshot, Usable, LeaseSteps, KeySteps, TargetSteps, Steps
<1>2. QED
  BY <1>1, Moves DEF Finish

LEMMA Stands == ASSUME ProcsTyped, UNCHANGED <<pc, snap, goal>> PROVE ProcsTyped'
BY DEF ProcsTyped, RequestsUsable, Usable

\* Steps at which no field of the snapshot is needed.
FreeSteps == Steps \ (KeySteps \cup TargetSteps)

LEMMA FreeMoves ==
    ASSUME ProcsTyped, NEW r \in Requests, NEW step \in FreeSteps, NEW s \in Snapshot,
           Goto(r, step), Keeps(r, s), UNCHANGED goal
    PROVE  ProcsTyped'
BY Moves DEF FreeSteps, Usable, KeySteps

LEMMA ReadingProcs ==
    ASSUME TypeInv, NEW r \in Requests,
           ReadReturn(r) \/ CheckLinked(r) \/ ReadIntent(r) \/ CheckActive(r)
    PROVE  ProcsTyped'
<1>0. ProcsTyped /\ ret \in Returns /\ IntentTyped /\ RowsTyped
  BY Parts
<1> DEFINE s == snap[r]
<1>1. s \in Snapshot /\ NoSnapshot \in Snapshot
  BY <1>0, Constant DEF ProcsTyped, NoSnapshot, Snapshot
<1>2. CASE ReadReturn(r)
  <2>1. [NoSnapshot EXCEPT !.link = ret.ship, !.alias = ret.rate] \in Snapshot
    BY <1>0, Constant DEF NoSnapshot, Snapshot, Returns
  <2>2. "linked" \in FreeSteps
    BY DEF FreeSteps, Steps, LeaseSteps, KeySteps, TargetSteps
  <2>3. QED
    BY <1>0, <1>2, <2>1, <2>2, FreeMoves DEF ReadReturn
<1>3. CASE CheckLinked(r)
  <2>1. "readIntent" \in FreeSteps /\ [s EXCEPT !.link = NoShip] \in Snapshot
    BY <1>1, Constant DEF FreeSteps, Steps, LeaseSteps, KeySteps, TargetSteps, Snapshot
  <2>2. QED
    BY <1>0, <1>3, <2>1, FreeMoves, Finishes DEF CheckLinked
<1>4. CASE ReadIntent(r)
  <2>1. [s EXCEPT !.key = intent.key] \in Snapshot
    BY <1>0, <1>1 DEF Snapshot, IntentTyped, Intents
  <2>2. "readActive" \in FreeSteps
    BY DEF FreeSteps, Steps, LeaseSteps, KeySteps, TargetSteps
  <2>3. QED
    BY <1>0, <1>4, <2>1, <2>2, FreeMoves DEF ReadIntent
<1>5. CASE CheckActive(r)
  <2>1. ASSUME NEW k \in Ships, k = s.key, Goto(r, "completeExisting"), UNCHANGED goal,
               Keeps(r, [s EXCEPT !.target = k, !.wasFrozen = k \in frozen])
        PROVE  ProcsTyped'
    <3>0. s.key \in KeyOrNull
      BY <1>1 DEF Snapshot
    <3>1. k \in Keys
      BY <3>0, <2>1, Distinct
    <3> DEFINE b == k \in frozen
               t == [s EXCEPT !.target = k, !.wasFrozen = b]
    <3>2. t \in Snapshot
      <4>1. b \in BOOLEAN
        OBVIOUS
      <4> HIDE DEF b
      <4>2. QED
        BY <1>1, <3>1, <4>1, Constant DEF Snapshot
    <3>3. Usable("completeExisting", t)
      BY <1>1, <3>1 DEF Usable, LeaseSteps, KeySteps, TargetSteps, Snapshot
    <3>4. "completeExisting" \in Steps
      BY DEF Steps
    <3>5. QED
      BY <1>0, <2>1, <3>2, <3>3, <3>4, Moves
  <2>2. CASE Goto(r, "acquire") /\ Keeps(r, NoSnapshot)
    <3>1. "acquire" \in FreeSteps
      BY DEF FreeSteps, Steps, LeaseSteps, KeySteps, TargetSteps
    <3>2. QED
      BY <1>0, <1>1, <1>5, <2>2, <3>1, FreeMoves DEF CheckActive
  <2>3. QED
    BY <1>0, <1>5, <2>1, <2>2, Finishes DEF CheckActive
<1>6. QED
  BY <1>2, <1>3, <1>4, <1>5

LEMMA AcquiringProcs ==
    ASSUME TypeInv, NEW r \in Requests,
           \/ AcquireConflict(r) \/ Claim(r) \/ AcquireRecover(r) \/ AcquireInProgress(r)
           \/ AcquireCompleted(r)
    PROVE  ProcsTyped'
<1>0. ProcsTyped /\ IntentTyped /\ RowsTyped
  BY Parts
<1> DEFINE s == snap[r]
<1>1. s \in Snapshot
  BY <1>0 DEF ProcsTyped
<1>2. CASE AcquireConflict(r) \/ AcquireInProgress(r)
  BY <1>0, <1>2, Finishes DEF AcquireConflict, AcquireInProgress
<1>3. CASE Claim(r)
  <2>1. PICK k \in Keys : Keeps(r, [s EXCEPT !.key = k, !.lease = attempt + 1])
    BY <1>0, <1>3, Constant DEF Claim, IntentTyped, IntentUsable
  <2>2. attempt + 1 \in Attempts
    BY <1>0, <1>3, Constant DEF Claim, RowsTyped, Attempts
  <2>3. [s EXCEPT !.key = k, !.lease = attempt + 1] \in Snapshot
    BY <1>1, <2>2, Constant DEF Snapshot
  <2>4. Usable("quote", [s EXCEPT !.key = k, !.lease = attempt + 1])
    BY <1>1, <2>2 DEF Snapshot, Usable, LeaseSteps, KeySteps, TargetSteps
  <2>5. "quote" \in Steps
    BY DEF Steps
  <2>6. QED
    BY <1>0, <1>3, <2>1, <2>3, <2>4, <2>5, Moves DEF Claim
<1>4. CASE AcquireRecover(r)
  <2> DEFINE t == [s EXCEPT !.key = intent.key, !.receipt = intent.receipt]
  <2>1. CASE Finish(r)
    BY <1>0, <1>4, <2>1, Finishes DEF AcquireRecover
  <2>2. CASE ~Finish(r)
    <3>1. PICK step \in {"lookup", "recordRecovered"} : Goto(r, step) /\ Keeps(r, t)
      BY <1>4, <2>2 DEF AcquireRecover
    <3>2. intent.key \in Keys /\ intent.receipt \in KeyOrNull
      BY <1>0, <1>4 DEF AcquireRecover, IntentTyped, IntentUsable, Intents
    <3>3. t \in Snapshot
      BY <1>1, <3>2, Constant DEF Snapshot
    <3>4. Usable(step, t)
      BY <1>1, <3>2 DEF Snapshot, Usable, LeaseSteps, KeySteps, TargetSteps
    <3>5. step \in Steps
      BY DEF Steps
    <3>6. QED
      BY <1>0, <1>4, <3>1, <3>3, <3>4, <3>5, Moves DEF AcquireRecover
  <2>3. QED
    BY <2>1, <2>2
<1>5. CASE AcquireCompleted(r)
  <2> DEFINE t == [s EXCEPT !.target = intent.ship]
  <2>1. intent.ship \in Keys
    BY <1>0, <1>5 DEF AcquireCompleted, IntentTyped, IntentUsable
  <2>2. t \in Snapshot
    BY <1>1, <2>1, Constant DEF Snapshot
  <2>3. Usable("freezeCompleted", t)
    BY <1>1, <2>1 DEF Snapshot, Usable, LeaseSteps, KeySteps, TargetSteps
  <2>4. "freezeCompleted" \in Steps
    BY DEF Steps
  <2>5. QED
    BY <1>0, <1>5, <2>2, <2>3, <2>4, Moves DEF AcquireCompleted
<1>6. QED
  BY <1>2, <1>3, <1>4, <1>5

LEMMA BuyingProcs ==
    ASSUME TypeInv, NEW r \in Requests,
           \/ Quote(r) \/ SaveRate(r) \/ SendCreate(r) \/ ReceiveReceipt(r)
           \/ ReceiveRejection(r) \/ ReceiveRepostRejection(r) \/ AbandonCall(r)
           \/ Heartbeat(r) \/ MarkUnknown(r) \/ MarkFailed(r) \/ MarkReturnFailed(r) \/ RecordReceipt(r)
    PROVE  ProcsTyped'
<1>0. ProcsTyped
  BY Parts
<1> DEFINE s == snap[r]
<1>1. s \in Snapshot /\ Usable(pc[r], s)
  BY <1>0 DEF ProcsTyped, RequestsUsable
<1>7. CASE MarkFailed(r)
  <2>1. "returnFailed" \in FreeSteps /\ NoSnapshot \in Snapshot
    BY Constant DEF FreeSteps, Steps, LeaseSteps, KeySteps, TargetSteps, NoSnapshot, Snapshot
  <2>2. QED
    BY <1>0, <1>7, <2>1, FreeMoves DEF MarkFailed
<1>2. CASE \/ Quote(r) \/ SendCreate(r) \/ ReceiveRejection(r) \/ ReceiveRepostRejection(r)
          \/ AbandonCall(r)
  <2>1. PICK step \in {"saveRate", "calling", "markFailed", "markUnknown"} :
          /\ Goto(r, step) /\ UNCHANGED <<snap, goal>>
          /\ step \in LeaseSteps => pc[r] \in LeaseSteps
    BY <1>2 DEF Quote, SendCreate, ReceiveRejection, ReceiveRepostRejection, AbandonCall, At,
       LeaseSteps
  <2>2. step \in Steps /\ Usable(step, s)
    BY <1>1, <2>1 DEF Steps, Usable, LeaseSteps, KeySteps, TargetSteps
  <2>3. QED
    BY <1>0, <2>1, <2>2, MovesKeeping
<1>3. CASE SaveRate(r) \/ RecordReceipt(r)
  <2>1. CASE Finish(r)
    BY <1>0, <1>3, <2>1, Finishes DEF SaveRate, RecordReceipt
  <2>2. CASE ~Finish(r)
    <3>1. PICK step \in {"send", "persist"} :
            Goto(r, step) /\ UNCHANGED <<snap, goal>> /\ pc[r] \in {"saveRate", "record"}
      BY <1>3, <2>2 DEF SaveRate, RecordReceipt, At
    <3>2. step \in Steps /\ Usable(step, s)
      BY <1>1, <3>1 DEF Steps, Usable, LeaseSteps, KeySteps, TargetSteps
    <3>3. QED
      BY <1>0, <3>1, <3>2, MovesKeeping
  <2>3. QED
    BY <2>1, <2>2
<1>4. CASE ReceiveReceipt(r)
  <2> DEFINE t == [s EXCEPT !.receipt = s.key]
  <2>1. t \in Snapshot
    BY <1>1 DEF Snapshot
  <2>2. Usable("record", t) /\ "record" \in Steps
    BY <1>1, <1>4 DEF ReceiveReceipt, At, Snapshot, Usable, LeaseSteps, KeySteps, TargetSteps, Steps
  <2>3. QED
    BY <1>0, <1>4, <2>1, <2>2, Moves DEF ReceiveReceipt
<1>5. CASE Heartbeat(r)
  BY <1>0, <1>5, Stands DEF Heartbeat
<1>6. CASE MarkUnknown(r) \/ MarkReturnFailed(r)
  BY <1>0, <1>6, Finishes DEF MarkUnknown, MarkReturnFailed
<1>8. QED
  BY <1>2, <1>3, <1>4, <1>5, <1>6, <1>7

LEMMA FinalizingProcs ==
    ASSUME TypeInv, NEW r \in Requests,
           \/ Lookup(r) \/ RecordRecovered(r) \/ PersistShipment(r) \/ Freeze(r) \/ Complete(r)
           \/ CompleteExisting(r) \/ WriteAlias(r) \/ Link(r) \/ Crash(r)
    PROVE  ProcsTyped'
<1>0. ProcsTyped
  BY Parts
<1> DEFINE s == snap[r]
<1>1. s \in Snapshot /\ Usable(pc[r], s)
  BY <1>0 DEF ProcsTyped, RequestsUsable
<1>2. CASE Finish(r)
  BY <1>0, <1>2, Finishes DEF Lookup, RecordRecovered, PersistShipment, Freeze, Complete,
     CompleteExisting, WriteAlias, Link, Crash
<1>3. CASE Lookup(r) /\ ~Finish(r)
  <2> DEFINE t == [s EXCEPT !.receipt = s.key]
  <2>1. t \in Snapshot
    BY <1>1 DEF Snapshot
  <2>2. Usable("recordRecovered", t) /\ "recordRecovered" \in Steps
    BY <1>1, <1>3 DEF Lookup, At, Snapshot, Usable, LeaseSteps, KeySteps, TargetSteps, Steps
  <2>3. QED
    BY <1>0, <1>3, <2>1, <2>2, Moves DEF Lookup
<1>4. CASE RecordRecovered(r) /\ ~Finish(r)
  <2>1. Usable("persist", s) /\ "persist" \in Steps
    BY <1>1, <1>4 DEF RecordRecovered, At, Usable, LeaseSteps, KeySteps, TargetSteps, Steps
  <2>2. QED
    BY <1>0, <1>4, <2>1, MovesKeeping DEF RecordRecovered
<1>5. CASE PersistShipment(r)
  <2> DEFINE t == [NoSnapshot EXCEPT !.target = s.key]
  <2>1. s.key \in Keys
    BY <1>1, <1>5 DEF PersistShipment, At, Usable, KeySteps
  <2>2. t \in Snapshot
    BY <2>1, Constant DEF NoSnapshot, Snapshot
  <2>3. Usable("freeze", t) /\ "freeze" \in Steps
    BY <2>1 DEF NoSnapshot, Usable, LeaseSteps, KeySteps, TargetSteps, Steps
  <2>4. QED
    BY <1>0, <1>5, <2>2, <2>3, Moves DEF PersistShipment, PurchaseKey
<1>6. CASE Freeze(r) \/ Complete(r) \/ WriteAlias(r) \/ (CompleteExisting(r) /\ ~Finish(r))
  <2>1. PICK step \in {"complete", "writeAlias", "link", "freezeExisting"} :
          Goto(r, step) /\ UNCHANGED <<snap, goal>> /\ pc[r] \in TargetSteps
    BY <1>6 DEF Freeze, AfterFreeze, Complete, WriteAlias, CompleteExisting, At, TargetSteps
  <2>2. step \in Steps /\ Usable(step, s)
    BY <1>1, <2>1 DEF Steps, Usable, LeaseSteps, KeySteps, TargetSteps
  <2>3. QED
    BY <1>0, <2>1, <2>2, MovesKeeping
<1>7. QED
  BY <1>2, <1>3, <1>4, <1>5, <1>6 DEF Link, Crash

LEMMA VoidingProcs ==
    ASSUME TypeInv, NEW v \in Voiders, VoidStep(v)
    PROVE  ProcsTyped'
<1>0. ProcsTyped
  BY Parts
<1>1. goal' \in [Voiders -> ShipOrNull]
  BY <1>0, Constant DEF ProcsTyped, VoidStep, VoidPreflight, VoidAtProvider, VoidFinalize,
     VoidAborts
<1>2. PICK step \in VoidSteps : Goto(v, step) /\ UNCHANGED snap
  BY DEF VoidStep, VoidPreflight, VoidAtProvider, VoidFinalize, VoidAborts, VoidSteps
<1>3. pc' \in [Requests \cup Voiders -> Steps \cup VoidSteps]
  BY <1>0, <1>2 DEF ProcsTyped, Goto
<1>4. \A q \in Requests : pc'[q] = pc[q]
  BY <1>0, <1>2, ConstantsAssumption DEF ProcsTyped, Goto
<1>5. QED
  BY <1>0, <1>1, <1>2, <1>3, <1>4 DEF ProcsTyped, RequestsUsable, Usable

LEMMA ProcsStep == TypeInv /\ [Next]_vars => ProcsTyped'
<1> SUFFICES ASSUME TypeInv, [Next]_vars PROVE ProcsTyped'
  OBVIOUS
<1>1. CASE UNCHANGED <<pc, snap, goal>>
  BY <1>1, Parts, Stands
<1>2. CASE \E r \in Requests : RequestStep(r)
  BY <1>2, ReadingProcs, AcquiringProcs, BuyingProcs, FinalizingProcs DEF RequestStep
<1>3. CASE OtherStep
  BY <1>1, <1>3 DEF OtherStep, LeaseExpires, ProviderSells, AssignExternal, ResolveNoEffect,
     SyncReads, SyncWrites, TrackingAdvances, Receive
<1>4. QED
  BY <1>1, <1>2, <1>3, VoidingProcs DEF Next, vars

-----------------------------------------------------------------------------
(* The keys that are drawn                                                  *)

\* What a step leaves in a snapshot: an old value, or one read from the intent.
ReadsKeys(r) ==
    /\ snap'[r].key \in {0, snap[r].key, intent'.key}
    /\ snap'[r].target \in {0, snap[r].target, snap[r].key, intent.ship}

LEMMA SnapshotReads ==
    ASSUME TypeInv, NEW r \in Requests, RequestStep(r)
    PROVE  ReadsKeys(r)
<1>0. ProcsTyped /\ IntentTyped
  BY Parts
<1>1. snap \in [Requests -> Snapshot] /\ snap[r] \in Snapshot
  BY <1>0 DEF ProcsTyped
<1>2. CASE UNCHANGED snap
  BY <1>2 DEF ReadsKeys
<1>3. CASE Finish(r)
  BY <1>1, <1>3 DEF Finish, Keeps, NoSnapshot, ReadsKeys
<1>4. CASE ReadReturn(r)
  BY <1>1, <1>4 DEF ReadReturn, Keeps, NoSnapshot, ReadsKeys
<1>5. CASE ReadIntent(r)
  BY <1>1, <1>5 DEF ReadIntent, Keeps, Snapshot, ReadsKeys, rows
<1>6. CASE CheckActive(r)
  <2>1. ASSUME NEW k \in Ships, k = snap[r].key, NEW b,
               Keeps(r, [snap[r] EXCEPT !.target = k, !.wasFrozen = b])
        PROVE  ReadsKeys(r)
    BY <1>1, <2>1 DEF Keeps, Snapshot, ReadsKeys
  <2>2. CASE Keeps(r, NoSnapshot)
    BY <1>1, <2>2 DEF Keeps, NoSnapshot, ReadsKeys
  <2>3. QED
    BY <1>3, <1>6, <2>1, <2>2 DEF CheckActive
<1>13. CASE CheckLinked(r)
  <2>1. CASE Finish(r)
    BY <1>3, <2>1
  <2>2. CASE Keeps(r, [snap[r] EXCEPT !.link = NoShip])
    BY <1>1, <2>2 DEF Keeps, Snapshot, ReadsKeys
  <2>3. QED
    BY <1>13, <2>1, <2>2 DEF CheckLinked
<1>14. CASE MarkFailed(r)
  BY <1>1, <1>14 DEF MarkFailed, Keeps, NoSnapshot, ReadsKeys
<1>7. CASE Claim(r)
  BY <1>0, <1>1, <1>7 DEF Claim, Keeps, Snapshot, ReadsKeys, IntentTyped, Intents
<1>8. CASE AcquireRecover(r)
  <2>1. intent'.key = intent.key
    BY <1>0, <1>8 DEF AcquireRecover, Held, IntentTyped, Intents
  <2>2. Finish(r) \/ Keeps(r, [snap[r] EXCEPT !.key = intent.key, !.receipt = intent.receipt])
    BY <1>8 DEF AcquireRecover
  <2>3. QED
    BY <1>1, <1>3, <2>1, <2>2 DEF Keeps, Snapshot, ReadsKeys
<1>9. CASE AcquireCompleted(r)
  BY <1>1, <1>9 DEF AcquireCompleted, Keeps, Snapshot, ReadsKeys
<1>10. CASE ReceiveReceipt(r) \/ Lookup(r)
  BY <1>1, <1>3, <1>10 DEF ReceiveReceipt, Lookup, Keeps, Snapshot, ReadsKeys
<1>11. CASE PersistShipment(r)
  BY <1>1, <1>11 DEF PersistShipment, PurchaseKey, Keeps, Snapshot, NoSnapshot, ReadsKeys
<1>12. QED
  BY <1>2, <1>3, <1>4, <1>5, <1>6, <1>7, <1>8, <1>9, <1>10, <1>11, <1>13, <1>14 DEF RequestStep,
     AcquireConflict, AcquireInProgress, Quote, SaveRate, SendCreate,
     ReceiveRejection, ReceiveRepostRejection, AbandonCall, Heartbeat, MarkUnknown, MarkReturnFailed,
     RecordReceipt, RecordRecovered, Freeze, Complete, CompleteExisting, WriteAlias, Link,
     Crash

\* A step of one request reads nothing into the snapshot of another.
LEMMA SnapshotOwn ==
    ASSUME TypeInv, NEW r \in Requests, RequestStep(r), NEW q \in Requests, q # r
    PROVE  snap'[q] = snap[q] /\ pc'[q] = pc[q]
<1>0. ProcsTyped
  BY Parts
<1>1. UNCHANGED snap \/ \E s : Keeps(r, s)
  BY DEF RequestStep, ReadReturn, CheckLinked, ReadIntent, CheckActive, AcquireConflict, Claim,
     AcquireRecover, AcquireInProgress, AcquireCompleted, Quote, SaveRate, SendCreate,
     ReceiveReceipt, ReceiveRejection, ReceiveRepostRejection, AbandonCall, Heartbeat, MarkUnknown, MarkFailed,
     MarkReturnFailed, RecordReceipt, Lookup, RecordRecovered, PersistShipment, Freeze,
     Complete, CompleteExisting, WriteAlias, Link, Crash, Finish
<1>2. UNCHANGED pc \/ \E step : Goto(r, step)
  BY DEF RequestStep, ReadReturn, CheckLinked, ReadIntent, CheckActive, AcquireConflict, Claim,
     AcquireRecover, AcquireInProgress, AcquireCompleted, Quote, SaveRate, SendCreate,
     ReceiveReceipt, ReceiveRejection, ReceiveRepostRejection, AbandonCall, Heartbeat, MarkUnknown, MarkFailed,
     MarkReturnFailed, RecordReceipt, Lookup, RecordRecovered, PersistShipment, Freeze,
     Complete, CompleteExisting, WriteAlias, Link, Crash, Finish
<1>3. QED
  BY <1>0, <1>1, <1>2 DEF ProcsTyped, Keeps, Goto

\* The shipment of the intent is the one it had, or a request's target.
LEMMA IntentShips ==
    ASSUME TypeInv, [Next]_vars
    PROVE  intent'.ship = intent.ship \/ \E r \in Requests : intent'.ship = snap[r].target
<1>0. intent \in Intents
  BY Parts DEF IntentTyped
<1>1. CASE intent' = intent
  BY <1>1
<1>2. ASSUME NEW r \in Requests, Complete(r) \/ CompleteExisting(r)
      PROVE  intent'.ship = snap[r].target
  BY <1>0, <1>2 DEF Complete, CompleteExisting, Completed, Intents
<1>3. ASSUME NEW r \in Requests, Claim(r) PROVE intent'.ship = intent.ship
  BY <1>0, <1>3 DEF Claim, Intents
<1>4. ASSUME NEW r \in Requests, AcquireRecover(r) \/ MarkUnknown(r)
      PROVE  intent'.ship = intent.ship
  BY <1>0, <1>4 DEF AcquireRecover, MarkUnknown, Held, Intents
<1>5. ASSUME NEW r \in Requests, SaveRate(r) \/ Heartbeat(r) \/ MarkFailed(r)
      PROVE  intent'.ship = intent.ship
  BY <1>0, <1>5 DEF SaveRate, Heartbeat, MarkFailed, Intents
<1>6. ASSUME NEW r \in Requests, RecordReceipt(r) \/ RecordRecovered(r)
      PROVE  intent'.ship = intent.ship
  BY <1>0, <1>6 DEF RecordReceipt, RecordRecovered, Intents
<1>7. ASSUME NEW v \in Voiders, VoidFinalize(v) PROVE intent'.ship = intent.ship
  BY <1>0, <1>7 DEF VoidFinalize, Released, Intents
<1>8. CASE LeaseExpires \/ ResolveNoEffect
  BY <1>0, <1>8 DEF LeaseExpires, ResolveNoEffect, Intents
<1>9. QED
  BY <1>1, <1>2, <1>3, <1>4, <1>5, <1>6, <1>7, <1>8, IntentWriters, OtherIntentWriters
     DEF Next, vars

LEMMA KeysStep == TypeInv /\ [Next]_vars => KeysDrawn'
<1> SUFFICES ASSUME TypeInv, [Next]_vars PROVE KeysDrawn'
  OBVIOUS
<1>0. KeysDrawn /\ IntentTyped /\ IntentTyped' /\ ProcsTyped
  BY Parts, IntentStep
<1>1. \A k \in KeyOrNull : k \in Nat
  BY Constant DEF KeyOrNull, Keys
<1>2. intent.key \in Nat /\ intent.ship \in Nat /\ intent'.key \in Nat
  BY <1>0, <1>1 DEF IntentTyped, Intents
<1>3. \A r \in Requests : snap[r].key \in Nat /\ snap[r].target \in Nat
  BY <1>0, <1>1 DEF ProcsTyped, Snapshot
<1>4. intent.key <= intent'.key
  BY KeyGrows
<1>5. intent'.ship <= intent'.key
  BY <1>0, <1>2, <1>3, <1>4, IntentShips DEF KeysDrawn
<1>6. ASSUME NEW r \in Requests
      PROVE  snap'[r].key <= intent'.key /\ snap'[r].target <= intent'.key
  <2>1. CASE UNCHANGED snap
    BY <1>0, <1>2, <1>3, <1>4, <2>1 DEF KeysDrawn
  <2>2. CASE RequestStep(r)
    BY <1>0, <1>2, <1>3, <1>4, <2>2, SnapshotReads DEF KeysDrawn, ReadsKeys
  <2>3. ASSUME NEW q \in Requests, q # r, RequestStep(q)
        PROVE  snap'[r].key <= intent'.key /\ snap'[r].target <= intent'.key
    BY <1>0, <1>2, <1>3, <1>4, <2>3, SnapshotOwn DEF KeysDrawn
  <2>4. QED
    BY <2>1, <2>2, <2>3 DEF Next, vars, VoidStep, VoidPreflight, VoidAtProvider, VoidFinalize,
       VoidAborts, OtherStep, LeaseExpires, ProviderSells, AssignExternal, ResolveNoEffect,
       SyncReads, SyncWrites, TrackingAdvances, Receive
<1>7. QED
  BY <1>5, <1>6 DEF KeysDrawn

-----------------------------------------------------------------------------

LEMMA TypeStep == TypeInv /\ [Next]_vars => TypeInv'
<1> SUFFICES ASSUME TypeInv, [Next]_vars PROVE TypeInv'
  OBVIOUS
<1>1. /\ ret' \in Returns
      /\ IntentTyped'
      /\ RowsTyped'
      /\ ProcsTyped'
      /\ KeysDrawn'
  BY ReturnTyped, IntentStep, RowsStep, ProcsStep, KeysStep
<1>2. QED
  BY <1>1 DEF TypeInv, TypeOK, IntentTyped, RowsTyped, ProcsTyped

LEMMA TypeInvariant == Spec => []TypeInv
BY TypeInit, TypeStep, PTL DEF Spec

\* Every row, every snapshot and every step of every process keeps its type, for any
\* number of requests, voids, external labels, sync rows, keys and attempts: no write
\* of createReturnLabel, voidLabelV2 or the others leaves a row nobody can interpret.
THEOREM TypeCorrect == Spec => []TypeOK
<1>1. TypeInv => TypeOK
  BY DEF TypeInv
<1>2. QED
  BY <1>1, TypeInvariant, PTL

-----------------------------------------------------------------------------
(* Who writes the return                                                    *)

LEMMA ReturnWriters ==
    ASSUME [Next]_vars, ret' # ret
    PROVE  \/ \E r \in Requests : MarkReturnFailed(r) \/ WriteAlias(r) \/ Link(r)
           \/ AssignExternal \/ TrackingAdvances \/ Receive
<1>1. CASE \E r \in Requests : RequestStep(r)
  BY <1>1 DEF RequestStep, ReadReturn, CheckLinked, ReadIntent, CheckActive, AcquireConflict,
     Claim, AcquireRecover, AcquireInProgress, AcquireCompleted, Quote, SaveRate, SendCreate,
     ReceiveReceipt, ReceiveRejection, ReceiveRepostRejection, AbandonCall, Heartbeat, MarkUnknown, MarkFailed,
     RecordReceipt, Lookup, RecordRecovered, PersistShipment, Freeze, Complete,
     CompleteExisting, Crash, rows
<1>2. CASE \E v \in Voiders : VoidStep(v)
  BY <1>2 DEF VoidStep, VoidPreflight, VoidAtProvider, VoidFinalize, VoidAborts, rows
<1>3. CASE OtherStep
  BY <1>3 DEF OtherStep, LeaseExpires, ProviderSells, ResolveNoEffect, SyncReads, SyncWrites,
     rows
<1>4. QED
  BY <1>1, <1>2, <1>3 DEF Next, vars

\* No write of any of the five writers of the returns row, in any interleaving, takes
\* the place of a label that is still active: markReturnLabelCreated and
\* applyReturnExternalTracking both test the link they overwrite.
THEOREM LinkNeverDisplaced == Spec => ActiveLinkNeverDisplaced
<1>1. ASSUME TypeInv, [Next]_vars, ret'.ship # ret.ship
      PROVE  ret.ship = NoShip \/ Voided(ret.ship)
  <2>0. ret \in Returns
    BY <1>1, Parts
  <2>1. ASSUME NEW r \in Requests, Link(r)
        PROVE  ret.ship = NoShip \/ Voided(ret.ship)
    BY <1>1, <2>0, <2>1 DEF Link, CanLink, Returns
  <2>2. ASSUME NEW r \in Requests, MarkReturnFailed(r) \/ WriteAlias(r) PROVE FALSE
    BY <1>1, <2>0, <2>2 DEF MarkReturnFailed, WriteAlias, Returns
  <2>3. CASE AssignExternal
    BY <2>3 DEF AssignExternal
  <2>4. CASE TrackingAdvances \/ Receive
    BY <1>1, <2>0, <2>4 DEF TrackingAdvances, Receive, Returns
  <2>5. QED
    BY <1>1, <2>1, <2>2, <2>3, <2>4, ReturnWriters
<1>2. TypeInv /\ [Next]_vars =>
        [ret'.ship # ret.ship => ret.ship = NoShip \/ Voided(ret.ship)]_vars
  BY <1>1
<1>3. QED
  BY <1>2, TypeInvariant, PTL DEF Spec, ActiveLinkNeverDisplaced

\* Once the warehouse has a parcel, no late label request, no failed one and no
\* tracking event changes the status back.
THEOREM ReceivedStands == Spec => ReceivedNeverRegressed
<1>1. ASSUME TypeInv, [Next]_vars, ret.status \in {"received", "inspected"}
      PROVE  ret'.status \in {"received", "inspected"}
  <2>0. ret \in Returns
    BY <1>1, Parts
  <2>1. ASSUME NEW r \in Requests, Link(r) PROVE ret' = ret
    BY <1>1, <2>1 DEF Link, CanLink, Labelable
  <2>2. ASSUME NEW r \in Requests, MarkReturnFailed(r) \/ WriteAlias(r)
        PROVE  ret'.status = ret.status
    BY <1>1, <2>0, <2>2 DEF MarkReturnFailed, WriteAlias, Returns
  <2>3. ~AssignExternal /\ ~TrackingAdvances
    BY <1>1 DEF AssignExternal, TrackingAdvances
  <2>4. Receive => ret'.status \in {"received", "inspected"}
    BY <2>0 DEF Receive, Returns
  <2>5. QED
    BY <1>1, <2>1, <2>2, <2>3, <2>4, ReturnWriters
<1>2. TypeInv /\ [Next]_vars =>
        [ret.status \in {"received", "inspected"} =>
            ret'.status \in {"received", "inspected"}]_vars
  BY <1>1
<1>3. QED
  BY <1>2, TypeInvariant, PTL DEF Spec, ReceivedNeverRegressed

-----------------------------------------------------------------------------
(* One active label.  The slot is the link of the return, the key and the   *)
(* state of the intent, the shipment rows, and the requests about to        *)
(* persist a row; every step has one of nine effects on it.                 *)

NoNewPersist ==
    \A r \in Requests : pc'[r] = "persist" => pc[r] = "persist" /\ snap'[r].key = snap[r].key

KeyStands    == intent'.key = intent.key
IntentStands == KeyStands /\ intent'.state = intent.state
LinkStands   == ret'.ship = ret.ship

Quiet == IntentStands /\ LinkStands /\ ship' = ship /\ NoNewPersist

Claims ==
    /\ intent.state \in {"none", "failed", "voided"} /\ intent'.state = "purchasing"
    /\ intent'.key = IF intent.state = "none" THEN 1 ELSE intent.key
    /\ ~Active(ret.ship)
    /\ LinkStands /\ ship' = ship /\ NoNewPersist

Drops ==
    /\ intent.state \in {"purchasing", "unknown_outcome"}
    /\ intent'.state \in {"unknown_outcome", "failed"}
    /\ KeyStands /\ LinkStands /\ ship' = ship /\ NoNewPersist

Buys ==
    /\ intent.state \in {"purchasing", "unknown_outcome", "purchased"}
    /\ intent'.state = "purchased"
    /\ KeyStands /\ LinkStands /\ ship' = ship

Completes ==
    /\ intent'.state = "completed"
    /\ KeyStands /\ LinkStands /\ ship' = ship /\ NoNewPersist

Persists ==
    \E r \in Requests :
        /\ pc[r] = "persist" /\ pc'[r] # "persist"
        /\ ship[snap[r].key] = "absent"
        /\ ship' = [ship EXCEPT ![snap[r].key] = "active"]
        /\ IntentStands /\ LinkStands /\ NoNewPersist

Links ==
    /\ \E k \in Keys : CanLink(k) /\ ret'.ship = k
    /\ IntentStands /\ ship' = ship /\ NoNewPersist

Assigns ==
    \E x \in External :
        /\ ret.ship = NoShip \/ Voided(ret.ship)
        /\ intent.state \in {"none", "failed", "voided"}
        /\ ret'.ship = x
        /\ ship' = [ship EXCEPT ![x] = "active"]
        /\ IntentStands /\ NoNewPersist

Voids ==
    \E s \in Ships :
        /\ Active(s)
        /\ ship' = [ship EXCEPT ![s] = "voided"]
        /\ \/ IntentStands /\ (s = intent.key => intent.state \notin {"purchased", "completed"})
           \/ /\ intent.state = "completed" /\ intent.ship = s /\ ret.ship = s
              /\ intent'.state = "voided" /\ intent'.key = intent.key + 1
        /\ LinkStands /\ NoNewPersist

SlotEffect ==
    \/ Quiet \/ Claims \/ Drops \/ Buys \/ Completes \/ Persists \/ Links \/ Assigns \/ Voids

\* A request comes to persist a row only by recording a receipt.
LEMMA PersistEntered ==
    ASSUME TypeInv, NEW r \in Requests, RequestStep(r), ~RecordReceipt(r), ~RecordRecovered(r)
    PROVE  NoNewPersist
<1>0. ProcsTyped
  BY Parts
<1>1. pc'[r] = "persist" => pc[r] = "persist" /\ UNCHANGED snap
  <2>1. CASE UNCHANGED <<pc, snap>>
    BY <2>1
  <2>2. CASE Finish(r)
    BY <1>0, <2>2 DEF Finish, Goto, ProcsTyped
  <2>3. CASE \E step \in Steps \ {"persist"} : Goto(r, step)
    BY <1>0, <2>3 DEF Goto, ProcsTyped
  <2>4. CASE ReadReturn(r) \/ CheckLinked(r) \/ ReadIntent(r) \/ CheckActive(r)
    BY <2>2, <2>3, <2>4 DEF ReadReturn, CheckLinked, ReadIntent, CheckActive, Steps
  <2>5. CASE \/ AcquireConflict(r) \/ Claim(r) \/ AcquireRecover(r) \/ AcquireInProgress(r)
             \/ AcquireCompleted(r)
    BY <2>2, <2>3, <2>5 DEF AcquireConflict, Claim, AcquireRecover, AcquireInProgress,
       AcquireCompleted, Steps
  <2>6. CASE \/ Quote(r) \/ SaveRate(r) \/ SendCreate(r) \/ ReceiveReceipt(r)
             \/ ReceiveRejection(r) \/ ReceiveRepostRejection(r) \/ AbandonCall(r)
    BY <2>2, <2>3, <2>6 DEF Quote, SaveRate, SendCreate, ReceiveReceipt, ReceiveRejection, ReceiveRepostRejection,
       AbandonCall, Steps
  <2>7. CASE Heartbeat(r) \/ MarkUnknown(r) \/ MarkFailed(r) \/ MarkReturnFailed(r) \/ Lookup(r)
    BY <2>1, <2>2, <2>3, <2>7 DEF Heartbeat, MarkUnknown, MarkFailed, MarkReturnFailed, Lookup,
       Steps
  <2>8. CASE PersistShipment(r) \/ Freeze(r)
    BY <2>3, <2>8 DEF PersistShipment, Freeze, AfterFreeze, Steps
  <2>9. CASE Complete(r) \/ CompleteExisting(r) \/ WriteAlias(r) \/ Link(r) \/ Crash(r)
    BY <2>2, <2>3, <2>9 DEF Complete, CompleteExisting, WriteAlias, Link, Crash, Steps
  <2>10. QED
    BY <2>4, <2>5, <2>6, <2>7, <2>8, <2>9 DEF RequestStep
<1>2. QED
  BY <1>1, SnapshotOwn DEF NoNewPersist

\* No step of a void or of the others moves a request.
LEMMA OthersPersistNothing ==
    ASSUME TypeInv, (\E v \in Voiders : VoidStep(v)) \/ OtherStep
    PROVE  NoNewPersist
<1>0. ProcsTyped
  BY Parts
<1>1. CASE OtherStep
  BY <1>1 DEF OtherStep, LeaseExpires, ProviderSells, AssignExternal, ResolveNoEffect,
     SyncReads, SyncWrites, TrackingAdvances, Receive, NoNewPersist
<1>2. ASSUME NEW v \in Voiders, VoidStep(v) PROVE NoNewPersist
  <2>1. UNCHANGED snap /\ \E step \in VoidSteps : Goto(v, step)
    BY <1>2 DEF VoidStep, VoidPreflight, VoidAtProvider, VoidFinalize, VoidAborts, VoidSteps
  <2>2. QED
    BY <1>0, <2>1, ConstantsAssumption DEF Goto, ProcsTyped, NoNewPersist
<1>3. QED
  BY <1>1, <1>2

LEMMA RequestEffect ==
    ASSUME TypeInv, NEW r \in Requests, RequestStep(r)
    PROVE  SlotEffect
<1>0. /\ intent \in Intents /\ ret \in Returns /\ ProcsTyped
      /\ ~RecordReceipt(r) /\ ~RecordRecovered(r) => NoNewPersist
  BY Parts, PersistEntered DEF IntentTyped
<1> USE DEF KeyStands, IntentStands, LinkStands
<1>1. CASE Claim(r)
  <2>1. Claims
    BY <1>0, <1>1 DEF Claim, SlotOpen, Claims, Intents, RecordReceipt, RecordRecovered, At
  <2>2. QED
    BY <2>1 DEF SlotEffect
<1>2. CASE AcquireRecover(r) \/ MarkUnknown(r) \/ MarkFailed(r)
  <2>1. NoNewPersist
    BY <1>0, <1>2 DEF AcquireRecover, MarkUnknown, MarkFailed, RecordReceipt, RecordRecovered, At
  <2>2. UNCHANGED <<ret, ship>>
    BY <1>2 DEF AcquireRecover, MarkUnknown, MarkFailed
  <2>3. CASE intent' = intent
    BY <2>1, <2>2, <2>3 DEF Quiet, SlotEffect
  <2>4. CASE intent' # intent
    <3>1. intent.state = "purchasing" /\ intent'.state \in {"unknown_outcome", "failed"}
      BY <1>0, <1>2, <2>4 DEF AcquireRecover, MarkUnknown, MarkFailed, Owns, Held, Intents
    <3>2. intent'.key = intent.key
      BY <1>0, <1>2 DEF AcquireRecover, MarkUnknown, MarkFailed, Held, Intents
    <3>3. QED
      BY <2>1, <2>2, <3>1, <3>2 DEF Drops, SlotEffect
  <2>5. QED
    BY <2>3, <2>4
<1>3. CASE RecordReceipt(r) \/ RecordRecovered(r)
  <2>1. UNCHANGED <<ret, ship>>
    BY <1>3 DEF RecordReceipt, RecordRecovered
  <2>2. CASE Finish(r) /\ UNCHANGED intent
    <3>1. NoNewPersist
      <4>1. pc'[r] # "persist"
        BY <1>0, <2>2 DEF Finish, Goto, ProcsTyped
      <4>2. QED
        BY <4>1, SnapshotOwn DEF NoNewPersist
    <3>2. QED
      BY <2>1, <2>2, <3>1 DEF Quiet, SlotEffect
  <2>3. CASE ~(Finish(r) /\ UNCHANGED intent)
    <3>1. /\ intent.state \in {"purchasing", "unknown_outcome", "purchased"}
          /\ intent' = [intent EXCEPT !.state = "purchased", !.receipt = snap[r].receipt,
                                      !.lease = 0, !.expired = FALSE]
      BY <1>3, <2>3 DEF RecordReceipt, RecordRecovered, Owns
    <3>2. intent'.state = "purchased" /\ intent'.key = intent.key
      BY <1>0, <3>1 DEF Intents
    <3>3. QED
      BY <2>1, <3>1, <3>2 DEF Buys, SlotEffect
  <2>4. QED
    BY <2>2, <2>3
<1>4. CASE Complete(r) \/ CompleteExisting(r)
  <2>1. Completes
    BY <1>0, <1>4 DEF Complete, CompleteExisting, Completed, Completes, Intents, RecordReceipt,
       RecordRecovered, At
  <2>2. QED
    BY <2>1 DEF SlotEffect
<1>5. CASE PersistShipment(r)
  <2>1. NoNewPersist /\ pc[r] = "persist" /\ pc'[r] # "persist" /\ UNCHANGED <<ret, intent>>
    BY <1>0, <1>5 DEF PersistShipment, RecordReceipt, RecordRecovered, At, Goto, ProcsTyped
  <2>2. CASE ship' = ship
    BY <2>1, <2>2 DEF Quiet, SlotEffect
  <2>3. CASE ship' # ship
    BY <1>5, <2>1, <2>3 DEF PersistShipment, PurchaseKey, Persists, SlotEffect
  <2>4. QED
    BY <2>2, <2>3
<1>6. CASE Link(r)
  <2>1. NoNewPersist /\ UNCHANGED <<ship, intent>>
    BY <1>0, <1>6 DEF Link, RecordReceipt, RecordRecovered, At
  <2>2. snap[r].target \in Keys
    BY <1>0, <1>6 DEF Link, At, ProcsTyped, RequestsUsable, Usable, TargetSteps
  <2>3. CASE ret' = ret
    BY <2>1, <2>3 DEF Quiet, SlotEffect
  <2>4. CASE ret' # ret
    BY <1>6, <2>1, <2>2, <2>4 DEF Link, Links, SlotEffect
  <2>5. QED
    BY <2>3, <2>4
<1>7. CASE SaveRate(r) \/ Heartbeat(r) \/ MarkReturnFailed(r) \/ WriteAlias(r)
  <2>1. NoNewPersist /\ UNCHANGED ship
    BY <1>0, <1>7 DEF SaveRate, Heartbeat, MarkReturnFailed, WriteAlias, RecordReceipt,
       RecordRecovered, At
  <2>2. ret'.ship = ret.ship
    BY <1>0, <1>7 DEF SaveRate, Heartbeat, MarkReturnFailed, WriteAlias, Returns
  <2>3. intent'.key = intent.key /\ intent'.state = intent.state
    BY <1>0, <1>7 DEF SaveRate, Heartbeat, MarkReturnFailed, WriteAlias, Intents
  <2>4. QED
    BY <2>1, <2>2, <2>3 DEF Quiet, SlotEffect
<1>8. CASE UNCHANGED <<ret, intent, ship>> /\ NoNewPersist
  BY <1>8 DEF Quiet, SlotEffect
<1>9. QED
  <2>1. CASE \/ ReadReturn(r) \/ CheckLinked(r) \/ ReadIntent(r) \/ CheckActive(r)
             \/ AcquireConflict(r) \/ AcquireInProgress(r) \/ AcquireCompleted(r)
    BY <1>0, <1>8, <2>1 DEF ReadReturn, CheckLinked, ReadIntent, CheckActive, AcquireConflict,
       AcquireInProgress, AcquireCompleted, RecordReceipt, RecordRecovered, At, rows
  <2>2. CASE \/ Quote(r) \/ SendCreate(r) \/ ReceiveReceipt(r) \/ ReceiveRejection(r) \/ ReceiveRepostRejection(r)
             \/ AbandonCall(r) \/ Lookup(r)
    BY <1>0, <1>8, <2>2 DEF Quote, SendCreate, ReceiveReceipt, ReceiveRejection, ReceiveRepostRejection, AbandonCall,
       Lookup, RecordReceipt, RecordRecovered, At, rows
  <2>3. CASE Freeze(r)
    BY <1>0, <1>8, <2>3 DEF Freeze, AfterFreeze, RecordReceipt, RecordRecovered, At
  <2>4. CASE Crash(r)
    <3>1. NoNewPersist
      <4>1. pc'[r] # "persist"
        BY <1>0, <2>4 DEF Crash, Finish, Goto, ProcsTyped
      <4>2. QED
        BY <4>1, SnapshotOwn DEF NoNewPersist
    <3>2. QED
      BY <1>8, <2>4, <3>1 DEF Crash, rows
  <2>5. QED
    BY <1>1, <1>2, <1>3, <1>4, <1>5, <1>6, <1>7, <2>1, <2>2, <2>3, <2>4 DEF RequestStep

LEMMA OtherEffect ==
    ASSUME TypeInv, NothingRead, Mirrors = {}, (\E v \in Voiders : VoidStep(v)) \/ OtherStep
    PROVE  SlotEffect
<1>0. intent \in Intents /\ ret \in Returns /\ NoNewPersist
  BY Parts, OthersPersistNothing DEF IntentTyped
<1> USE DEF KeyStands, IntentStands, LinkStands
<1>1. ASSUME NEW v \in Voiders, VoidFinalize(v) PROVE SlotEffect
  <2> DEFINE s == goal[v]
  <2>1. s \in Ships /\ Active(s) /\ ship' = [ship EXCEPT ![s] = "voided"] /\ ret' = ret
    BY <1>1 DEF VoidFinalize, CanFinalize, Active
  <2>2. CASE intent' = intent
    <3>1. intent.state = "completed" => intent.ship # s
      BY <1>0, <1>1, <2>2 DEF VoidFinalize, Released, Intents
    <3>2. s = intent.key => intent.state \notin {"purchased", "completed"}
      BY <1>1, <3>1 DEF VoidFinalize, CanFinalize, VoidSlotOk, SlotOf
    <3>3. QED
      BY <1>0, <2>1, <2>2, <3>2 DEF Voids, SlotEffect
  <2>3. CASE intent' # intent
    <3>1. /\ intent.state = "completed" /\ intent.ship = s
          /\ intent' = [intent EXCEPT !.state = "voided", !.key = @ + 1, !.lease = 0,
                                      !.expired = FALSE]
      BY <1>1, <2>3 DEF VoidFinalize, Released
    <3>2. intent'.state = "voided" /\ intent'.key = intent.key + 1
      BY <1>0, <3>1 DEF Intents
    <3>3. ret.ship = s
      BY <1>1, <3>1 DEF VoidFinalize, CanFinalize, VoidSlotOk, SlotOf
    <3>4. QED
      BY <1>0, <2>1, <3>1, <3>2, <3>3 DEF Voids, SlotEffect
  <2>4. QED
    BY <2>2, <2>3
<1>2. CASE AssignExternal
  <2>1. intent.state \in {"none", "failed", "voided"}
    BY <1>2 DEF AssignExternal, OwnsSlot
  <2>2. QED
    BY <1>0, <1>2, <2>1 DEF AssignExternal, Assigns, SlotEffect, Returns
<1>3. CASE ResolveNoEffect
  BY <1>0, <1>3 DEF ResolveNoEffect, Drops, SlotEffect, Intents
<1>4. CASE LeaseExpires \/ TrackingAdvances \/ Receive
  <2>1. intent'.key = intent.key /\ intent'.state = intent.state /\ ship' = ship
    BY <1>0, <1>4 DEF LeaseExpires, TrackingAdvances, Receive, Intents
  <2>2. ret'.ship = ret.ship
    BY <1>0, <1>4 DEF LeaseExpires, TrackingAdvances, Receive, Returns
  <2>3. QED
    BY <1>0, <2>1, <2>2 DEF Quiet, SlotEffect
<1>5. ~SyncWrites
  BY DEF SyncWrites, NothingRead
<1>6. CASE UNCHANGED <<ret, intent, ship>>
  BY <1>0, <1>6 DEF Quiet, SlotEffect
<1>7. QED
  BY <1>1, <1>2, <1>3, <1>4, <1>5, <1>6 DEF VoidStep, OtherStep, VoidPreflight, VoidAtProvider,
     VoidAborts, ProviderSells, SyncReads, rows

\* What the effects need to know of the types.
SlotTyped ==
    /\ intent.key \in Nat
    /\ intent.state = "completed" => intent.ship \in Keys
    /\ intent.state = "none" => intent.key = 0
    /\ ship \in [Ships -> {"absent", "active", "voided"}]
    /\ \A r \in Requests :
          pc[r] = "persist" => snap[r].key \in Keys /\ snap[r].key <= intent.key
    /\ intent.ship \in Nat /\ intent.ship <= intent.key

LEMMA SlotTypes == TypeInv => SlotTyped
<1> SUFFICES ASSUME TypeInv PROVE SlotTyped
  OBVIOUS
<1>0. IntentTyped /\ RowsTyped /\ ProcsTyped /\ KeysDrawn
  BY Parts
<1>1. \A k \in KeyOrNull : k \in Nat
  BY Constant DEF KeyOrNull, Keys
<1>2. intent.key \in Nat /\ intent.ship \in Nat
  BY <1>0, <1>1 DEF IntentTyped, Intents
<1>3. intent.state = "completed" => intent.ship \in Keys
  BY <1>0 DEF IntentTyped, IntentUsable
<1>4. intent.state = "none" => intent.key = 0
  BY <1>0 DEF IntentTyped, IntentUsable
<1>5. \A r \in Requests : pc[r] = "persist" => snap[r].key \in Keys
  BY <1>0 DEF ProcsTyped, RequestsUsable, Usable, KeySteps
<1>6. QED
  BY <1>0, <1>2, <1>3, <1>4, <1>5 DEF RowsTyped, KeysDrawn, SlotTyped

SlotParts == KeyRotatesOncePerVoid /\ PurchaseOwnsSlot /\ ExternalExcludesPurchase

\* Only the row of the current key can be active or appear.
LEMMA CurrentRow ==
    ASSUME SlotTyped, KeyRotatesOncePerVoid
    PROVE  /\ \A k \in Keys : Active(k) => k = intent.key
           /\ \A k \in Keys : ship[k] = "absent" => k >= intent.key
           /\ \A r \in Requests : pc[r] = "persist" /\ ship[snap[r].key] = "absent" =>
                                     snap[r].key = intent.key
<1>0. \A k \in Keys : k \in Nat /\ k \in Ships
  BY Constant DEF Keys
<1>1. \A k \in Keys : Active(k) => k = intent.key
  BY <1>0 DEF SlotTyped, KeyRotatesOncePerVoid, Active, Voided
<1>2. \A k \in Keys : ship[k] = "absent" => k >= intent.key
  BY <1>0 DEF SlotTyped, KeyRotatesOncePerVoid, Voided
<1>3. QED
  BY <1>0, <1>1, <1>2 DEF SlotTyped

LEMMA RotationStep ==
    ASSUME SlotTyped, SlotParts, SlotEffect, Mirrors = {}
    PROVE  KeyRotatesOncePerVoid'
<1>0. \A k \in Keys : k \in Nat /\ k \in Ships /\ k \notin External /\ k >= 1
  BY ConstantsAssumption, Constant DEF Keys
<1>1. CASE KeyStands /\ ship' = ship
  BY <1>1 DEF SlotParts, KeyRotatesOncePerVoid, KeyStands, Voided
<1>2. CASE Claims
  BY <1>0, <1>2 DEF SlotTyped, Claims, SlotParts, KeyRotatesOncePerVoid, Voided
<1>3. CASE Persists
  <2>1. PICK r \in Requests :
          /\ pc[r] = "persist" /\ ship[snap[r].key] = "absent"
          /\ ship' = [ship EXCEPT ![snap[r].key] = "active"] /\ KeyStands
    BY <1>3 DEF Persists, IntentStands
  <2>2. snap[r].key = intent.key
    BY <2>1, CurrentRow DEF SlotParts
  <2>3. QED
    BY <1>0, <2>1, <2>2 DEF SlotTyped, SlotParts, KeyRotatesOncePerVoid, KeyStands, Voided
<1>4. CASE Assigns
  BY <1>0, <1>4 DEF Assigns, IntentStands, KeyStands, SlotTyped, SlotParts,
     KeyRotatesOncePerVoid, Voided
<1>5. CASE Voids
  <2>1. PICK s \in Ships :
          /\ Active(s) /\ ship' = [ship EXCEPT ![s] = "voided"]
          /\ \/ KeyStands /\ (s = intent.key => intent.state \notin {"purchased", "completed"})
             \/ /\ intent.state = "completed" /\ intent.ship = s
                /\ intent'.key = intent.key + 1
    BY <1>5 DEF Voids, IntentStands
  <2>2. s \in Keys => s = intent.key
    BY <2>1, CurrentRow DEF SlotParts
  <2>3. CASE KeyStands /\ (s = intent.key => intent.state \notin {"purchased", "completed"})
    <3>1. s \notin Keys
      BY <2>1, <2>2, <2>3 DEF SlotParts, PurchaseOwnsSlot
    <3>2. QED
      BY <1>0, <2>1, <2>3, <3>1 DEF SlotTyped, SlotParts, KeyRotatesOncePerVoid, KeyStands, Voided
  <2>4. CASE intent.state = "completed" /\ intent.ship = s /\ intent'.key = intent.key + 1
    <3>1. s = intent.key
      BY <2>2, <2>4 DEF SlotTyped
    <3>2. QED
      BY <1>0, <2>1, <2>4, <3>1 DEF SlotTyped, SlotParts, KeyRotatesOncePerVoid, Voided
  <2>5. QED
    BY <2>1, <2>3, <2>4
<1>6. QED
  BY <1>1, <1>2, <1>3, <1>4, <1>5 DEF SlotEffect, Quiet, Drops, Buys, Completes, Links,
     IntentStands

LEMMA OwnershipStep ==
    ASSUME SlotTyped, SlotParts, SlotEffect, Mirrors = {}
    PROVE  PurchaseOwnsSlot'
<1>0. \A k \in Keys : k \in Nat /\ k \in Ships /\ k \notin External /\ k >= 1
  BY ConstantsAssumption, Constant DEF Keys
<1>1. PurchaseOwnsSlot /\ KeyRotatesOncePerVoid
  BY DEF SlotParts
<1>2. CASE (Quiet \/ Links)
  BY <1>1, <1>2 DEF Quiet, Links, IntentStands, KeyStands, NoNewPersist, PurchaseOwnsSlot, Active
<1>3. CASE Claims
  <2>1. ~Active(intent.key) /\ \A r \in Requests : pc[r] = "persist" => snap[r].key # intent.key
    BY <1>1, <1>3 DEF Claims, PurchaseOwnsSlot
  <2>2. CASE intent.state = "none"
    <3>1. intent.key = 0 /\ intent'.key = 1 /\ ship' = ship
      BY <1>3, <2>2 DEF Claims, SlotTyped
    <3>2. ~Active(1)
      BY <1>0, <1>1, <3>1, Constant DEF KeyRotatesOncePerVoid, Active
    <3>3. \A r \in Requests : pc[r] # "persist"
      BY <1>0, <3>1 DEF SlotTyped
    <3>4. QED
      BY <1>3, <3>1, <3>2, <3>3 DEF Claims, NoNewPersist, PurchaseOwnsSlot, Active
  <2>3. CASE intent.state # "none"
    BY <1>3, <2>1, <2>3 DEF Claims, NoNewPersist, PurchaseOwnsSlot, Active
  <2>4. QED
    BY <2>2, <2>3
<1>4. CASE Drops
  BY <1>1, <1>4 DEF Drops, KeyStands, NoNewPersist, PurchaseOwnsSlot, Active
<1>5. CASE Buys \/ Completes
  BY <1>5 DEF Buys, Completes, PurchaseOwnsSlot
<1>6. CASE Persists
  <2>1. PICK r \in Requests :
          /\ pc[r] = "persist" /\ ship[snap[r].key] = "absent" /\ IntentStands /\ NoNewPersist
    BY <1>6 DEF Persists
  <2>2. snap[r].key = intent.key
    BY <1>1, <2>1, CurrentRow
  <2>3. intent.state \in {"purchased", "completed"}
    BY <1>1, <2>1, <2>2 DEF PurchaseOwnsSlot
  <2>4. QED
    BY <2>1, <2>3 DEF IntentStands, PurchaseOwnsSlot
<1>7. CASE Assigns
  <2>1. PICK x \in External :
          ship' = [ship EXCEPT ![x] = "active"] /\ IntentStands /\ NoNewPersist
    BY <1>7 DEF Assigns
  <2>2. intent.key # x
    BY <2>1, ConstantsAssumption DEF SlotTyped
  <2>3. QED
    BY <1>1, <2>1, <2>2 DEF SlotTyped, IntentStands, KeyStands, NoNewPersist, PurchaseOwnsSlot,
       Active
<1>8. CASE Voids
  <2>1. PICK s \in Ships :
          /\ Active(s) /\ ship' = [ship EXCEPT ![s] = "voided"] /\ NoNewPersist
          /\ IntentStands \/ (intent.state = "completed" /\ intent.ship = s
                                /\ intent'.key = intent.key + 1)
    BY <1>8 DEF Voids
  <2>2. CASE IntentStands
    BY <1>1, <2>1, <2>2 DEF SlotTyped, IntentStands, KeyStands, NoNewPersist, PurchaseOwnsSlot,
       Active
  <2>3. CASE intent'.key = intent.key + 1 /\ intent.state = "completed" /\ intent.ship = s
    <3>1. \A r \in Requests : pc'[r] = "persist" => snap'[r].key # intent'.key
      <4> SUFFICES ASSUME NEW r \in Requests, pc'[r] = "persist" PROVE snap'[r].key # intent'.key
        OBVIOUS
      <4>1. snap'[r].key = snap[r].key /\ snap[r].key <= intent.key /\ snap[r].key \in Nat
        BY <1>0, <2>1 DEF NoNewPersist, SlotTyped
      <4>2. QED
        BY <2>3, <4>1 DEF SlotTyped
    <3>2. ~Active(intent.key)'
      <4>1. CASE intent'.key \in Keys
        <5>1. ship[intent'.key] = "absent"
          BY <1>0, <1>1, <2>3, <4>1 DEF KeyRotatesOncePerVoid, SlotTyped
        <5>2. QED
          BY <1>0, <2>1, <4>1, <5>1 DEF Active, SlotTyped
      <4>2. CASE intent'.key \notin Keys
        <5>1. intent'.key \notin Ships
          BY <2>3, <4>2, ConstantsAssumption DEF SlotTyped, Ships
        <5>2. QED
          BY <5>1 DEF Active
      <4>3. QED
        BY <4>1, <4>2
    <3>3. QED
      BY <3>1, <3>2 DEF PurchaseOwnsSlot
  <2>4. QED
    BY <2>1, <2>2, <2>3
<1>9. QED
  BY <1>2, <1>3, <1>4, <1>5, <1>6, <1>7, <1>8 DEF SlotEffect

LEMMA ExclusionStep ==
    ASSUME SlotTyped, SlotParts, SlotEffect, Mirrors = {}
    PROVE  ExternalExcludesPurchase'
<1>0. \A x \in External : x \in Ships /\ x \notin Keys /\ x \notin Nat /\ x # NoShip
  BY ConstantsAssumption, Constant DEF Keys, Ships
<1>1. SUFFICES ASSUME NEW x \in External, ship'[x] = "active"
      PROVE  /\ ret'.ship = x
             /\ intent'.state \in {"none", "failed", "voided", "completed"}
             /\ ~Active(intent.key)'
             /\ \A r \in Requests : pc'[r] = "persist" => snap'[r].key # intent'.key
  BY DEF ExternalExcludesPurchase, Active
<1> DEFINE Excluded ==
             /\ ret.ship = x
             /\ intent.state \in {"none", "failed", "voided", "completed"}
             /\ ~Active(intent.key)
             /\ \A r \in Requests : pc[r] = "persist" => snap[r].key # intent.key
<1>2. ship[x] = "active" => Excluded /\ Active(ret.ship)
  BY <1>0 DEF SlotParts, ExternalExcludesPurchase, Active
<1>3. CASE Quiet \/ Completes
  BY <1>1, <1>2, <1>3 DEF Quiet, Completes, IntentStands, KeyStands, LinkStands, NoNewPersist,
     Active
<1>4. CASE Claims \/ Drops \/ Buys
  <2>1. ship[x] = "active"
    BY <1>1, <1>4 DEF Claims, Drops, Buys
  <2>2. QED
    BY <1>2, <1>4, <2>1 DEF Claims, Drops, Buys
<1>5. CASE Persists
  <2>1. PICK r \in Requests :
          /\ pc[r] = "persist" /\ ship[snap[r].key] = "absent"
          /\ ship' = [ship EXCEPT ![snap[r].key] = "active"]
    BY <1>5 DEF Persists
  <2>2. snap[r].key = intent.key /\ snap[r].key \in Keys
    BY <2>1, CurrentRow DEF SlotParts, SlotTyped
  <2>3. ship[x] = "active"
    BY <1>0, <1>1, <2>1, <2>2 DEF SlotTyped
  <2>4. QED
    BY <1>2, <2>1, <2>2, <2>3
<1>6. CASE Links
  <2>1. ship[x] = "active"
    BY <1>1, <1>6 DEF Links
  <2>2. ret.ship = x
    BY <1>2, <2>1
  <2>3. \A k \in Keys : ~CanLink(k)
    BY <1>0, <2>1, <2>2 DEF CanLink, Voided
  <2>4. QED
    BY <1>6, <2>3 DEF Links
<1>7. CASE Assigns
  <2>1. PICK y \in External :
          /\ ret.ship = NoShip \/ Voided(ret.ship)
          /\ intent.state \in {"none", "failed", "voided"}
          /\ ret'.ship = y /\ ship' = [ship EXCEPT ![y] = "active"]
          /\ IntentStands /\ NoNewPersist
    BY <1>7 DEF Assigns
  <2>2. x = y
    <3>1. CASE x # y
      <4>1. ship[x] = "active"
        BY <1>0, <1>1, <2>1, <3>1 DEF SlotTyped
      <4>2. QED
        BY <1>0, <1>2, <2>1, <4>1 DEF Voided
    <3>2. QED
      BY <3>1
  <2>3. ~Active(intent.key) /\ \A r \in Requests : pc[r] = "persist" => snap[r].key # intent.key
    BY <2>1 DEF SlotParts, PurchaseOwnsSlot
  <2>4. intent'.key = intent.key /\ intent.key # y
    BY <1>0, <2>1 DEF IntentStands, KeyStands, SlotTyped
  <2>5. ~Active(intent.key)'
    BY <2>1, <2>3, <2>4 DEF Active, SlotTyped
  <2>6. QED
    BY <2>1, <2>2, <2>3, <2>4, <2>5 DEF IntentStands, NoNewPersist
<1>8. CASE Voids
  <2>1. PICK s \in Ships :
          /\ Active(s) /\ ship' = [ship EXCEPT ![s] = "voided"] /\ NoNewPersist /\ LinkStands
          /\ IntentStands \/ ret.ship = s
    BY <1>8 DEF Voids
  <2>2. x # s /\ ship[x] = "active"
    BY <1>0, <1>1, <2>1 DEF SlotTyped
  <2>3. Excluded /\ IntentStands
    BY <1>2, <2>1, <2>2
  <2>4. ~Active(intent.key)'
    BY <2>1, <2>3 DEF IntentStands, KeyStands, Active, SlotTyped
  <2>5. QED
    BY <2>1, <2>3, <2>4 DEF IntentStands, KeyStands, LinkStands, NoNewPersist
<1>9. QED
  BY <1>3, <1>4, <1>5, <1>6, <1>7, <1>8 DEF SlotEffect

LEMMA NothingReadStep == NothingRead /\ [Next]_vars => NothingRead'
<1> SUFFICES ASSUME NothingRead, [Next]_vars, Mirrors = {} PROVE UNCHANGED page
  BY DEF NothingRead
<1>1. CASE \E r \in Requests : RequestStep(r)
  BY <1>1 DEF RequestStep, ReadReturn, CheckLinked, ReadIntent, CheckActive, AcquireConflict,
     Claim, AcquireRecover, AcquireInProgress, AcquireCompleted, Quote, SaveRate, SendCreate,
     ReceiveReceipt, ReceiveRejection, ReceiveRepostRejection, AbandonCall, Heartbeat, MarkUnknown, MarkFailed,
     MarkReturnFailed, RecordReceipt, Lookup, RecordRecovered, PersistShipment, Freeze,
     Complete, CompleteExisting, WriteAlias, Link, Crash, provider
<1>2. CASE \E v \in Voiders : VoidStep(v)
  BY <1>2 DEF VoidStep, VoidPreflight, VoidAtProvider, VoidFinalize, VoidAborts, provider
<1>3. CASE OtherStep
  BY <1>3 DEF OtherStep, LeaseExpires, ProviderSells, AssignExternal, ResolveNoEffect,
     SyncReads, SyncWrites, TrackingAdvances, Receive, NothingRead, provider
<1>4. QED
  BY <1>1, <1>2, <1>3 DEF Next, vars

LEMMA SlotInit == Init => SlotInv
<1> SUFFICES ASSUME Init PROVE SlotInv
  OBVIOUS
<1>1. NothingRead
  BY DEF Init, NothingRead
<1>2. \A s \in Ships : ship[s] = "absent"
  BY DEF Init
<1>3. KeyRotatesOncePerVoid
  <2>1. intent.key = 0 /\ \A k \in Keys : ~(k < 0)
    BY DEF Init, Keys
  <2>2. QED
    BY <1>2, <2>1, Constant DEF KeyRotatesOncePerVoid, Voided
<1>4. PurchaseOwnsSlot /\ ExternalExcludesPurchase
  BY <1>2 DEF Init, PurchaseOwnsSlot, ExternalExcludesPurchase, Active
<1>5. QED
  BY <1>1, <1>3, <1>4, TypeInit DEF SlotInv

LEMMA SlotStep == ASSUME Mirrors = {} PROVE SlotInv /\ [Next]_vars => SlotInv'
<1> SUFFICES ASSUME SlotInv, [Next]_vars PROVE SlotInv'
  OBVIOUS
<1>0. TypeInv /\ NothingRead /\ SlotParts /\ SlotTyped
  BY SlotTypes DEF SlotInv, SlotParts
<1>1. SlotEffect
  <2>1. CASE UNCHANGED vars
    BY <2>1 DEF vars, SlotEffect, Quiet, IntentStands, KeyStands, LinkStands, NoNewPersist
  <2>2. QED
    BY <1>0, <2>1, RequestEffect, OtherEffect DEF Next
<1>2. TypeInv' /\ NothingRead'
  BY <1>0, TypeStep, NothingReadStep
<1>3. KeyRotatesOncePerVoid' /\ PurchaseOwnsSlot' /\ ExternalExcludesPurchase'
  BY <1>0, <1>1, RotationStep, OwnershipStep, ExclusionStep
<1>4. QED
  BY <1>2, <1>3 DEF SlotInv

LEMMA SlotInvariant == ASSUME Mirrors = {} PROVE Spec => []SlotInv
<1>1. SlotInv /\ [Next]_vars => SlotInv'
  BY SlotStep
<1>2. QED
  BY SlotInit, <1>1, PTL DEF Spec

\* While the shipment sync leaves the order alone, no interleaving of requests, retries
\* and crashes, voids, external labels, lost leases and operator resolutions, whatever
\* their number, gives a return two labels that are not voided.
THEOREM OneActiveLabel == ASSUME Mirrors = {} PROVE Spec => []AtMostOneActiveLabel
<1>1. SlotInv => AtMostOneActiveLabel
  <2> SUFFICES ASSUME SlotInv, NEW s \in ActiveShips, NEW t \in ActiveShips PROVE s = t
    BY DEF AtMostOneActiveLabel
  <2>1. SlotTyped /\ KeyRotatesOncePerVoid /\ ExternalExcludesPurchase
    BY SlotTypes DEF SlotInv
  <2>2. Active(s) /\ Active(t) /\ s \in Keys \cup External /\ t \in Keys \cup External
    BY DEF ActiveShips, Ships
  <2>3. \A k \in Keys : Active(k) => k = intent.key
    BY <2>1, CurrentRow
  <2>4. QED
    BY <2>1, <2>2, <2>3 DEF ExternalExcludesPurchase
<1>2. QED
  BY <1>1, SlotInvariant, PTL

\* Under the same assumption a void draws one fresh key, also when two voids of the same
\* label run at once: the keys below the current one are voided, those above unused.
THEOREM OneKeyPerVoid == ASSUME Mirrors = {} PROVE Spec => []KeyRotatesOncePerVoid
<1>1. SlotInv => KeyRotatesOncePerVoid
  BY DEF SlotInv
<1>2. QED
  BY <1>1, SlotInvariant, PTL

-----------------------------------------------------------------------------
(* Who writes the shipment rows                                             *)

LEMMA ShipWriters ==
    ASSUME [Next]_vars, ship' # ship
    PROVE  \/ \E r \in Requests : PersistShipment(r)
           \/ \E v \in Voiders : VoidFinalize(v)
           \/ AssignExternal \/ SyncWrites
<1>1. CASE \E r \in Requests : RequestStep(r)
  BY <1>1 DEF RequestStep, ReadReturn, CheckLinked, ReadIntent, CheckActive, AcquireConflict,
     Claim, AcquireRecover, AcquireInProgress, AcquireCompleted, Quote, SaveRate, SendCreate,
     ReceiveReceipt, ReceiveRejection, ReceiveRepostRejection, AbandonCall, Heartbeat, MarkUnknown, MarkFailed,
     MarkReturnFailed, RecordReceipt, Lookup, RecordRecovered, Freeze, Complete,
     CompleteExisting, WriteAlias, Link, Crash, rows
<1>2. CASE \E v \in Voiders : VoidStep(v)
  BY <1>2 DEF VoidStep, VoidPreflight, VoidAtProvider, VoidAborts, rows
<1>3. CASE OtherStep
  BY <1>3 DEF OtherStep, LeaseExpires, ProviderSells, ResolveNoEffect, SyncReads,
     TrackingAdvances, Receive, rows
<1>4. QED
  BY <1>1, <1>2, <1>3 DEF Next, vars

\* A row that is there stays there.
LEMMA RowsStay ==
    ASSUME TypeInv, [Next]_vars, NEW s \in Ships, ship[s] # "absent"
    PROVE  ship'[s] # "absent"
<1>0. RowsTyped
  BY Parts
<1>1. CASE ship' = ship
  BY <1>1
<1>2. ASSUME NEW r \in Requests, PersistShipment(r) PROVE ship'[s] # "absent"
  BY <1>0, <1>2 DEF PersistShipment, RowsTyped
<1>3. ASSUME NEW v \in Voiders, VoidFinalize(v) PROVE ship'[s] # "absent"
  BY <1>0, <1>3 DEF VoidFinalize, RowsTyped
<1>4. CASE AssignExternal
  BY <1>0, <1>4 DEF AssignExternal, RowsTyped
<1>5. CASE SyncWrites
  <2>1. PICK k \in Keys : \E t : \/ ship' = [ship EXCEPT ![t] = "voided"]
                                \/ ship' = [ship EXCEPT ![t] = "active"]
    BY <1>5, Zenon DEF SyncWrites
  <2>2. QED
    BY <1>0, <2>1 DEF RowsTyped
<1>6. QED
  BY <1>1, <1>2, <1>3, <1>4, <1>5, ShipWriters

-----------------------------------------------------------------------------
(* The row of what is about to be linked                                    *)

\* What a request does to the target it acts on.
LEMMA TargetKept ==
    ASSUME TypeInv, TargetsPersisted, NEW r \in Requests, RequestStep(r),
           pc'[r] \in TargetSteps
    PROVE  ship'[snap'[r].target] # "absent"
<1>0. ProcsTyped /\ RowsTyped /\ IntentTyped /\ [Next]_vars
  BY Parts DEF Next
<1>1. pc[r] \in TargetSteps => snap[r].target \in Keys
  BY <1>0 DEF ProcsTyped, RequestsUsable, Usable
<1>2. CASE pc[r] \in TargetSteps /\ snap'[r].target = snap[r].target
  BY <1>0, <1>1, <1>2, RowsStay, Constant DEF TargetsPersisted
<1>3. CASE Finish(r)
  BY <1>0, <1>3 DEF Finish, Goto, ProcsTyped, TargetSteps
<1>4. CASE CheckActive(r)
  <2>1. PICK s \in Ships : /\ Active(s)
                          /\ Keeps(r, [snap[r] EXCEPT !.target = s, !.wasFrozen = s \in frozen])
    <3>1. pc'[r] # "acquire" /\ (Goto(r, "acquire") => pc'[r] = "acquire")
      BY <1>0 DEF Goto, ProcsTyped, TargetSteps
    <3>2. ~Finish(r) => \E s \in Ships :
            /\ Active(s)
            /\ Keeps(r, [snap[r] EXCEPT !.target = s, !.wasFrozen = s \in frozen])
      BY <1>4, <3>1, ZenonT(60) DEF CheckActive
    <3>3. ~Finish(r)
      BY <1>0 DEF Finish, Goto, ProcsTyped, TargetSteps
    <3>4. QED
      BY <3>2, <3>3
  <2>2. snap'[r].target = s
    BY <1>0, <2>1 DEF Keeps, ProcsTyped, Snapshot
  <2>3. QED
    BY <1>4, <2>1, <2>2 DEF CheckActive, Active, rows
<1>5. CASE AcquireCompleted(r)
  BY <1>0, <1>5 DEF AcquireCompleted, TargetsPersisted, Goto, Keeps, ProcsTyped, Snapshot, rows
<1>6. CASE PersistShipment(r)
  <2>1. snap[r].key \in Keys
    BY <1>0, <1>6 DEF PersistShipment, At, ProcsTyped, RequestsUsable, Usable, KeySteps
  <2>2. snap'[r].target = snap[r].key
    BY <1>0, <1>6 DEF PersistShipment, PurchaseKey, Keeps, ProcsTyped, Snapshot
  <2>3. ship'[snap[r].key] # "absent"
    BY <1>0, <1>6, <2>1, Constant DEF PersistShipment, PurchaseKey, RowsTyped
  <2>4. QED
    BY <2>2, <2>3
<1>7. CASE Freeze(r) \/ Complete(r) \/ CompleteExisting(r) \/ WriteAlias(r) \/ Link(r)
  BY <1>0, <1>2, <1>3, <1>7 DEF Freeze, Complete, CompleteExisting, WriteAlias, Link, AfterFreeze,
     At, TargetSteps
<1>8. CASE \/ ReadReturn(r) \/ CheckLinked(r) \/ ReadIntent(r) \/ AcquireConflict(r) \/ Claim(r)
           \/ AcquireRecover(r) \/ AcquireInProgress(r)
  BY <1>0, <1>3, <1>8 DEF ReadReturn, CheckLinked, ReadIntent, AcquireConflict, Claim,
     AcquireRecover, AcquireInProgress, Goto, ProcsTyped, TargetSteps
<1>9. CASE \/ Quote(r) \/ SaveRate(r) \/ SendCreate(r) \/ ReceiveReceipt(r)
           \/ ReceiveRejection(r) \/ ReceiveRepostRejection(r) \/ AbandonCall(r)
  BY <1>0, <1>3, <1>9 DEF Quote, SaveRate, SendCreate, ReceiveReceipt, ReceiveRejection, ReceiveRepostRejection,
     AbandonCall, Goto, ProcsTyped, TargetSteps
<1>10. CASE \/ Heartbeat(r) \/ MarkUnknown(r) \/ MarkFailed(r) \/ MarkReturnFailed(r)
            \/ RecordReceipt(r) \/ Lookup(r) \/ RecordRecovered(r) \/ Crash(r)
  BY <1>0, <1>3, <1>10 DEF Heartbeat, MarkUnknown, MarkFailed, MarkReturnFailed, RecordReceipt,
     Lookup, RecordRecovered, Crash, At, Goto, ProcsTyped, TargetSteps
<1>11. QED
  BY <1>4, <1>5, <1>6, <1>7, <1>8, <1>9, <1>10 DEF RequestStep

\* No step of a void or of the others moves a request.
LEMMA OthersMoveNoRequest ==
    ASSUME TypeInv, (\E v \in Voiders : VoidStep(v)) \/ OtherStep, NEW r \in Requests
    PROVE  pc'[r] = pc[r] /\ snap' = snap
<1>0. ProcsTyped
  BY Parts
<1>1. CASE OtherStep
  BY <1>1 DEF OtherStep, LeaseExpires, ProviderSells, AssignExternal, ResolveNoEffect,
     SyncReads, SyncWrites, TrackingAdvances, Receive
<1>2. ASSUME NEW v \in Voiders, VoidStep(v) PROVE pc'[r] = pc[r] /\ snap' = snap
  <2>1. UNCHANGED snap /\ \E step \in VoidSteps : Goto(v, step)
    BY <1>2 DEF VoidStep, VoidPreflight, VoidAtProvider, VoidFinalize, VoidAborts, VoidSteps
  <2>2. QED
    BY <1>0, <2>1, ConstantsAssumption DEF Goto, ProcsTyped
<1>3. QED
  BY <1>1, <1>2

LEMMA TargetsStep == TypeInv /\ TargetsPersisted /\ [Next]_vars => TargetsPersisted'
<1> SUFFICES ASSUME TypeInv, TargetsPersisted, [Next]_vars PROVE TargetsPersisted'
  OBVIOUS
<1>0. ProcsTyped /\ RowsTyped /\ IntentTyped
  BY Parts
<1>1. ASSUME NEW r \in Requests, pc'[r] \in TargetSteps
      PROVE  ship'[snap'[r].target] # "absent"
  <2>1. CASE pc'[r] = pc[r] /\ snap'[r] = snap[r]
    <3>1. snap[r].target \in Ships /\ ship[snap[r].target] # "absent"
      BY <1>0, <1>1, <2>1, Constant DEF TargetsPersisted, ProcsTyped, RequestsUsable, Usable
    <3>2. QED
      BY <2>1, <3>1, RowsStay
  <2>2. CASE RequestStep(r)
    BY <1>1, <2>2, TargetKept
  <2>3. ASSUME NEW q \in Requests, RequestStep(q), q # r PROVE pc'[r] = pc[r] /\ snap'[r] = snap[r]
    BY <1>0, <2>3, SnapshotOwn
  <2>4. CASE UNCHANGED vars
    BY <2>1, <2>4 DEF vars
  <2>5. QED
    BY <2>1, <2>2, <2>3, <2>4, OthersMoveNoRequest DEF Next
<1>2. ASSUME intent'.state = "completed" PROVE ship'[intent'.ship] # "absent"
  <2>1. CASE intent.state = "completed" /\ intent'.ship = intent.ship
    <3>1. intent.ship \in Ships
      BY <1>0, <2>1, Constant DEF IntentTyped, IntentUsable
    <3>2. QED
      BY <2>1, <3>1, RowsStay DEF TargetsPersisted
  <2>2. ASSUME NEW r \in Requests, Complete(r) \/ CompleteExisting(r)
        PROVE  ship'[intent'.ship] # "absent"
    <3>1. snap[r].target \in Ships /\ ship[snap[r].target] # "absent"
      BY <1>0, <2>2, Constant DEF TargetsPersisted, ProcsTyped, RequestsUsable, Usable, Complete,
         CompleteExisting, At, TargetSteps
    <3>2. intent'.ship = snap[r].target
      BY <1>0, <2>2 DEF Complete, CompleteExisting, Completed, IntentTyped, Intents
    <3>3. QED
      BY <3>1, <3>2, RowsStay
  <2>3. ASSUME NEW r \in Requests,
               \/ Claim(r) \/ AcquireRecover(r) \/ SaveRate(r) \/ Heartbeat(r)
               \/ MarkUnknown(r) \/ MarkFailed(r) \/ RecordReceipt(r) \/ RecordRecovered(r)
        PROVE  intent.state = "completed" /\ intent'.ship = intent.ship
    BY <1>0, <1>2, <2>3 DEF Claim, AcquireRecover, SaveRate, Heartbeat, MarkUnknown, MarkFailed,
       RecordReceipt, RecordRecovered, Held, IntentTyped, Intents
  <2>4. ASSUME (\E v \in Voiders : VoidFinalize(v)) \/ LeaseExpires \/ ResolveNoEffect
        PROVE  intent.state = "completed" /\ intent'.ship = intent.ship
    BY <1>0, <1>2, <2>4 DEF VoidFinalize, Released, LeaseExpires, ResolveNoEffect, IntentTyped,
       Intents
  <2>5. CASE intent' = intent
    BY <1>2, <2>1, <2>5
  <2>6. QED
    BY <2>1, <2>2, <2>3, <2>4, <2>5, IntentWriters, OtherIntentWriters DEF Next, vars
<1>3. QED
  BY <1>1, <1>2 DEF TargetsPersisted

LEMMA RefinementInvariant == ASSUME Mirrors = {} PROVE Spec => []RefinementInv
<1>1. Init => RefinementInv
  BY SlotInit DEF Init, RefinementInv, TargetsPersisted, TargetSteps
<1>2. RefinementInv /\ [Next]_vars => RefinementInv'
  BY SlotStep, TargetsStep DEF RefinementInv, SlotInv
<1>3. QED
  BY <1>1, <1>2, PTL DEF Spec

-----------------------------------------------------------------------------
(* Every step is a step of the promise                                      *)

LEMMA ActiveUnique == ASSUME Mirrors = {} PROVE SlotInv => AtMostOneActiveLabel
<1> SUFFICES ASSUME SlotInv, NEW s \in ActiveShips, NEW t \in ActiveShips PROVE s = t
  BY DEF AtMostOneActiveLabel
<1>1. SlotTyped /\ KeyRotatesOncePerVoid /\ ExternalExcludesPurchase
  BY SlotTypes DEF SlotInv
<1>2. Active(s) /\ Active(t)
  BY DEF ActiveShips
<1>3. QED
  <2>1. s \in Keys \cup External /\ t \in Keys \cup External
    BY DEF ActiveShips, Ships
  <2>2. \A k \in Keys : Active(k) => k = intent.key
    BY <1>1, CurrentRow
  <2>3. QED
    BY <1>1, <1>2, <2>1, <2>2 DEF ExternalExcludesPurchase

LEMMA StepImplements ==
    ASSUME Mirrors = {}, RefinementInv, [Next]_vars
    PROVE  [Slot!Move]_(Slot!slot)
<1> DEFINE Unseen == UNCHANGED <<ship, ret>>
           LinkStays == ret'.ship = ret.ship
<1>0. /\ TypeInv /\ SlotTyped /\ KeyRotatesOncePerVoid /\ ExternalExcludesPurchase
      /\ PurchaseOwnsSlot /\ ret \in Returns /\ ship \in [Ships -> {"absent", "active", "voided"}]
      /\ ProcsTyped
  BY SlotTypes, Parts DEF RefinementInv, SlotInv, SlotTyped
<1>1. CASE Unseen
  <2>1. UNCHANGED Slot!slot
    BY <1>1 DEF Slot!slot, ActiveShips, Active, Voided
  <2>2. QED
    BY <2>1
<1>2. ASSUME NEW r \in Requests, PersistShipment(r), ship' # ship PROVE Slot!Move
  <2> DEFINE k == snap[r].key
  <2>1. /\ k \in Keys /\ k \in Ships /\ pc[r] = "persist" /\ ship[k] = "absent"
        /\ ship' = [ship EXCEPT ![k] = "active"] /\ ret' = ret
    BY <1>0, <1>2, Constant DEF PersistShipment, PurchaseKey, At, SlotTyped
  <2>2. k = intent.key
    BY <1>0, <2>1, CurrentRow
  <2>3. ActiveShips = {}
    BY <1>0, <2>1, <2>2, CurrentRow DEF ActiveShips, Active, ExternalExcludesPurchase, Ships
  <2>4. ActiveShips' = {k} /\ {s \in Ships : Voided(s)}' = {s \in Ships : Voided(s)}
    BY <1>0, <2>1, <2>3 DEF ActiveShips, Active, Voided
  <2>5. Slot!Fill(k)
    BY <2>1, <2>3, <2>4 DEF Slot!Fill, Voided
  <2>6. QED
    BY <2>1, <2>5 DEF Slot!Move
<1>3. ASSUME NEW v \in Voiders, VoidFinalize(v) PROVE Slot!Move
  <2> DEFINE s == goal[v]
  <2>1. s \in Ships /\ Active(s) /\ ship' = [ship EXCEPT ![s] = "voided"] /\ ret' = ret
    BY <1>3 DEF VoidFinalize, CanFinalize, Active
  <2>2. ret.ship = s
    <3>1. CASE SlotOf(s)
      BY <1>3, <3>1 DEF VoidFinalize, CanFinalize, VoidSlotOk
    <3>2. CASE s \in Keys
      BY <1>0, <2>1, <3>1, <3>2, CurrentRow DEF SlotOf
    <3>3. CASE s \in External
      BY <1>0, <2>1, <3>3 DEF ExternalExcludesPurchase
    <3>4. QED
      BY <2>1, <3>2, <3>3 DEF Ships
  <2>3. \A t \in Ships : Active(t) => t = s
    <3>1. AtMostOneActiveLabel
      BY ActiveUnique DEF RefinementInv
    <3>2. QED
      BY <2>1, <3>1 DEF AtMostOneActiveLabel, ActiveShips
  <2>4. /\ ActiveShips = {s} /\ ActiveShips' = {}
        /\ {t \in Ships : Voided(t)}' = {t \in Ships : Voided(t)} \cup {s}
    BY <1>0, <2>1, <2>3 DEF ActiveShips, Active, Voided
  <2>5. Slot!Void
    BY <2>1, <2>2, <2>4 DEF Slot!Void
  <2>6. QED
    BY <2>5 DEF Slot!Move
<1>4. CASE AssignExternal
  <2>1. PICK x \in External :
          /\ ship[x] = "absent"
          /\ ret.ship = NoShip \/ Voided(ret.ship)
          /\ \/ ret.status \in {"requested", "label_failed"}
             \/ ret.status = "label_created"
          /\ ~OwnsSlot(intent.state)
          /\ ship' = [ship EXCEPT ![x] = "active"]
          /\ ret' = [ret EXCEPT !.status = "label_created", !.ship = x]
    BY <1>4 DEF AssignExternal
  <2>2. x \in Ships
    BY DEF Ships
  <2>3. ~Active(intent.key)
    BY <1>0, <2>1 DEF PurchaseOwnsSlot, OwnsSlot
  <2>4. ~Active(ret.ship)
    BY <2>1, Distinct DEF Active, Voided
  <2>5. ActiveShips = {}
    BY <1>0, <2>3, <2>4, CurrentRow DEF ActiveShips, Ships, ExternalExcludesPurchase
  <2>6. ActiveShips' = {x} /\ {s \in Ships : Voided(s)}' = {s \in Ships : Voided(s)}
    BY <1>0, <2>1, <2>2, <2>5 DEF ActiveShips, Active, Voided
  <2>7. ret'.ship = x /\ ret'.status = "label_created"
    BY <1>0, <2>1 DEF Returns
  <2>8. Slot!Assign(x)
    BY <2>1, <2>2, <2>5, <2>6, <2>7 DEF Slot!Assign, Slot!Labelable, Slot!Waiting, Voided
  <2>9. QED
    BY <2>2, <2>8 DEF Slot!Move
<1>5. ASSUME NEW r \in Requests, Link(r), ret' # ret PROVE Slot!Move
  <2> DEFINE k == snap[r].target
  <2>1. /\ k \in Keys /\ k \in Ships /\ ship[k] # "absent" /\ CanLink(k) /\ ship' = ship
        /\ ret' = [status |-> "label_created", ship |-> k, rate |-> k]
    BY <1>0, <1>5, Constant DEF Link, At, RefinementInv, TargetsPersisted, ProcsTyped,
       RequestsUsable, Usable, TargetSteps
  <2>2. k \in ActiveShips \cup {s \in Ships : Voided(s)}
    BY <1>0, <2>1 DEF ActiveShips, Active, Voided
  <2>3. UNCHANGED ActiveShips /\ {s \in Ships : Voided(s)}' = {s \in Ships : Voided(s)}
    BY <2>1 DEF ActiveShips, Active, Voided
  <2>4. Slot!MayShow(k) /\ ret.status \in Slot!Labelable
    BY <2>1 DEF CanLink, Slot!MayShow, Slot!Labelable, Slot!Waiting, Labelable, Voided
  <2>5. Slot!Show(k)
    BY <2>1, <2>2, <2>3, <2>4 DEF Slot!Show
  <2>6. QED
    BY <2>1, <2>5 DEF Slot!Move
<1>6. ASSUME NEW r \in Requests, MarkReturnFailed(r) \/ WriteAlias(r) PROVE [Slot!Move]_(Slot!slot)
  <2>1. ship' = ship /\ ret'.ship = ret.ship
    BY <1>0, <1>6 DEF MarkReturnFailed, WriteAlias, Returns
  <2>2. \/ ret'.status = ret.status
        \/ ret.status \in {"requested", "label_failed"} /\ ret'.status = "label_failed"
    BY <1>0, <1>6 DEF MarkReturnFailed, WriteAlias, Returns
  <2>3. UNCHANGED ActiveShips /\ {s \in Ships : Voided(s)}' = {s \in Ships : Voided(s)}
    BY <2>1 DEF ActiveShips, Active, Voided
  <2>4. QED
    BY <2>1, <2>2, <2>3 DEF Slot!Move, Slot!Fail, Slot!slot, Slot!Waiting
<1>7. CASE TrackingAdvances \/ Receive
  <2>1. ship' = ship /\ ret'.ship = ret.ship
    BY <1>0, <1>7 DEF TrackingAdvances, Receive, Returns
  <2>2. \/ ret.status = "label_created" /\ ret.ship # NoShip /\ ret'.status = "in_transit"
        \/ ret'.status \in {"received", "inspected"}
    BY <1>0, <1>7 DEF TrackingAdvances, Receive, Returns
  <2>3. UNCHANGED ActiveShips /\ {s \in Ships : Voided(s)}' = {s \in Ships : Voided(s)}
    BY <2>1 DEF ActiveShips, Active, Voided
  <2>4. QED
    BY <2>1, <2>2, <2>3 DEF Slot!Move, Slot!Ship
<1>8. ~SyncWrites
  BY DEF SyncWrites, RefinementInv, SlotInv, NothingRead
<1>9. CASE ship' # ship
  BY <1>2, <1>3, <1>4, <1>8, <1>9, ShipWriters
<1>10. CASE ret' # ret
  BY <1>4, <1>5, <1>6, <1>7, <1>10, ReturnWriters
<1>11. QED
  BY <1>1, <1>9, <1>10

\* While the shipment sync leaves the order alone, the label slot of a return, with any
\* number of concurrent requests, retries, crashes, voids and external labels, is the
\* ordinary slot ReturnSlot promises: every step of it fills, shows, voids, fails or
\* ships one label, or changes nothing the promise speaks of.
THEOREM SlotImplemented == ASSUME Mirrors = {} PROVE Spec => ImplementsReturnSlot
<1>1. Init => Slot!Init
  <2> SUFFICES ASSUME Init PROVE Slot!Init
    OBVIOUS
  <2>1. ActiveShips = {} /\ {s \in Ships : Voided(s)} = {}
    BY DEF Init, ActiveShips, Active, Voided
  <2>2. QED
    BY <2>1 DEF Init, Slot!Init
<1>2. RefinementInv /\ [Next]_vars => [Slot!Next]_(Slot!slot)
  BY StepImplements DEF Slot!Next
<1>3. QED
  BY <1>1, <1>2, RefinementInvariant, PTL DEF Spec, ImplementsReturnSlot, Slot!Spec
=============================================================================
