----------------------------- MODULE ReturnLabel -----------------------------
(***************************************************************************)
(* The label slot of ONE return: how a return gets exactly one label, and  *)
(* how postage is bought for it at a carrier that may lose an answer.      *)
(*                                                                         *)
(* Requests (createReturnLabel, src/src/services/returns.ts) run           *)
(* concurrently, each a sequence of separate database statements and       *)
(* remote calls; any of them may stop for good between two steps.  They    *)
(* meet on one return row, one purchase intent, and the shipment rows.     *)
(* Operators void labels (voidLabelV2), type in labels bought elsewhere    *)
(* (applyReturnExternalTracking), resolve purchases whose outcome is       *)
(* unknown, and receive parcels; the tracking sweep and the ShipStation    *)
(* shipment sync write the same rows.                                      *)
(*                                                                         *)
(* What is abstracted:                                                     *)
(*  - only the live path of a non-test client is modelled, without the     *)
(*    admin override, which the portal never sends;                        *)
(*  - a provider reference key is a number, rotated by adding one (the     *)
(*    code draws a random UUID);                                           *)
(*  - the partial unique index on shipments.labelProviderKey makes the key *)
(*    the identity of a purchased shipment row, so row k is the row of the *)
(*    label bought under key k; the other rows are External;               *)
(*  - every claim renews both intent.generation and intent.leaseToken and  *)
(*    every fenced write compares both: they are one fresh number, lease;  *)
(*  - time is a lease that may run out at any moment;                      *)
(*  - 'reserved' never outlives the transaction that inserts it;           *)
(*  - the order row (reset to awaiting_shipment by a void) is not here.    *)
(***************************************************************************)
EXTENDS Integers, FiniteSets

CONSTANTS
    Requests,     \* concurrent createReturnLabel calls (a slot is reused by retries)
    Voiders,      \* concurrent voidLabelV2 calls
    External,     \* labels bought elsewhere: ids of the shipment rows they get
    Mirrors,      \* ids of the rows the ShipStation shipment sync may insert; {} when
                  \* the order has an active PrepShip outbound label: the sync skips it
    NoShip,       \* a null shipment reference
    MaxKey,       \* BOUND: provider reference keys (one more than the label voids)
    MaxAttempts,  \* BOUND: purchase claims of the intent
    Amount        \* customer amount PrepShip freezes for the label of each key

Keys  == 1..MaxKey
Ships == Keys \cup External \cup Mirrors

ASSUME ConstantsAssumption ==
    /\ MaxKey \in Nat \ {0}
    /\ MaxAttempts \in Nat \ {0}
    /\ Amount \in [Keys -> Nat]
    /\ (External \cup Mirrors) \cap Nat = {}
    /\ External \cap Mirrors = {}
    /\ NoShip \notin Nat \cup External \cup Mirrors
    /\ Requests \cap Voiders = {}

VARIABLES
    ret,       \* the returns row: status, linked shipment, key whose amount is billed (0: null)
    intent,    \* the return_label_purchase_intents row (state "none": not inserted yet)
    ship,      \* shipments rows of this return: absent, active or voided
    carries,   \* which provider label a purchased row describes (0: no row)
    page,      \* per provider label: what a shipment sync has read and not yet written
    frozen,    \* keys whose shipment row has its customer money frozen
    attempt,   \* intent.attemptCount; also the last lease handed out
    label,     \* EXTERNAL provider: the label sold under each key
    calls,     \* EXTERNAL provider: create calls, by key and lease, of which a post has been
               \* sent and not yet acted on
    pc,        \* where each request and each void stands
    snap,      \* what a request has read and still acts on
    goal,      \* the shipment a void is about
    disowned,  \* history: keys taken to have bought nothing, by an operator who resolved
               \* the purchase so or by a request whose repost was rejected
    bypassed   \* history: writes that reached the intent without owning it, and its key then

rows     == <<ret, intent, ship, carries, frozen, attempt>>
provider == <<label, calls, page>>
history  == <<disowned, bypassed>>
vars == <<ret, intent, ship, carries, frozen, attempt, page, label, calls, pc, snap, goal,
          disowned, bypassed>>

-----------------------------------------------------------------------------
(* Types                                                                   *)

Labelable    == {"requested", "label_failed", "label_created"}
Statuses     == Labelable \cup {"in_transit", "received", "inspected"}
IntentStates == {"none", "purchasing", "purchased", "unknown_outcome", "failed",
                 "completed", "voided"}
Steps        == {"idle", "linked", "readIntent", "readActive", "acquire",
                 "quote", "saveRate", "send", "calling", "record",
                 "markFailed", "returnFailed", "markUnknown",
                 "lookup", "recordRecovered",
                 "persist", "freeze", "complete", "completeExisting",
                 "freezeExisting", "writeAlias", "freezeCompleted", "link"}
VoidSteps    == {"idle", "provider", "finalize"}
Attempts     == 1..MaxAttempts
KeyOrNull    == Keys \cup {0}
ShipOrNull   == Ships \cup {NoShip}

Snapshot == [link : ShipOrNull, alias : KeyOrNull, key : KeyOrNull,
             lease : Attempts \cup {0}, receipt : KeyOrNull,
             target : KeyOrNull, wasFrozen : BOOLEAN]
NoSnapshot == [link |-> NoShip, alias |-> 0, key |-> 0, lease |-> 0, receipt |-> 0,
               target |-> 0, wasFrozen |-> FALSE]

Returns == [status : Statuses, ship : ShipOrNull, rate : KeyOrNull]
Intents == [state : IntentStates, key : KeyOrNull, lease : Attempts \cup {0},
            expired : BOOLEAN, rated : BOOLEAN, receipt : KeyOrNull, ship : KeyOrNull]

TypeOK ==
    /\ ret \in Returns
    /\ intent \in Intents
    /\ ship \in [Ships -> {"absent", "active", "voided"}]
    /\ carries \in [Keys \cup Mirrors -> KeyOrNull]
    /\ page \in [Keys -> {"unread", "live", "voided"}]
    /\ frozen \in SUBSET Keys
    /\ attempt \in 0..MaxAttempts
    /\ label \in [Keys -> {"none", "live", "voided"}]
    /\ calls \in SUBSET (Keys \X Attempts)
    /\ pc \in [Requests \cup Voiders -> Steps \cup VoidSteps]
    /\ snap \in [Requests -> Snapshot]
    /\ goal \in [Voiders -> ShipOrNull]
    /\ disowned \in SUBSET Keys
    /\ bypassed \in SUBSET ({"stale_finalize", "stale_recovery"} \X Keys)

(* A return as createReturnRequest inserts it: requested, with no label.   *)
Init ==
    /\ ret = [status |-> "requested", ship |-> NoShip, rate |-> 0]
    /\ intent = [state |-> "none", key |-> 0, lease |-> 0, expired |-> FALSE,
                 rated |-> FALSE, receipt |-> 0, ship |-> 0]
    /\ ship = [s \in Ships |-> "absent"]
    /\ carries = [s \in Keys \cup Mirrors |-> 0]
    /\ page = [k \in Keys |-> "unread"]
    /\ frozen = {}
    /\ attempt = 0
    /\ label = [k \in Keys |-> "none"]
    /\ calls = {}
    /\ pc = [p \in Requests \cup Voiders |-> "idle"]
    /\ snap = [r \in Requests |-> NoSnapshot]
    /\ goal = [v \in Voiders |-> NoShip]
    /\ disowned = {}
    /\ bypassed = {}

-----------------------------------------------------------------------------
(* Reading and moving                                                      *)

Active(s) == s \in Ships /\ ship[s] = "active"
Voided(s) == s \in Ships /\ ship[s] = "voided"

At(p, step)   == pc[p] = step
Goto(p, step) == pc' = [pc EXCEPT ![p] = step]

Keeps(r, s)   == snap' = [snap EXCEPT ![r] = s]

\* A request ends: it answers, or it throws.  What it had read is gone.
Finish(r) == Goto(r, "idle") /\ Keeps(r, NoSnapshot)

\* The fence of every write made under a purchase lease.
Owns(r) == intent.state = "purchasing" /\ intent.lease = snap[r].lease

\* Mutant: a purchase is thought settled as soon as its receipt is on file.
OwnsSlotInFlight(state) == state \in {"purchasing", "unknown_outcome"}

\* purchaseIntentOwnsReturnLabelSlot
OwnsSlot(state) == state \notin {"none", "failed", "voided"}

-----------------------------------------------------------------------------
(* createReturnLabel: the unlocked reads before the claim                  *)

ReadReturn(r) ==
    /\ At(r, "idle")
    /\ ret.status \in Labelable
    /\ Goto(r, "linked")
    /\ Keeps(r, [NoSnapshot EXCEPT !.link = ret.ship, !.alias = ret.rate])
    /\ UNCHANGED <<rows, provider, goal, history>>

\* A linked label that is not voided answers the request without a new side
\* effect: an external one as a conflict, a purchased one as a completed retry
\* (its rate was written with the link, so the rate check only reads).
CheckLinked(r) ==
    /\ At(r, "linked")
    /\ \/ Active(snap[r].link) /\ Finish(r)
       \/ /\ ~Active(snap[r].link)
          /\ Goto(r, "readIntent")
          /\ Keeps(r, [snap[r] EXCEPT !.link = NoShip])
    /\ UNCHANGED <<rows, provider, goal, history>>

ReadIntent(r) ==
    /\ At(r, "readIntent")
    /\ Goto(r, "readActive")
    /\ Keeps(r, [snap[r] EXCEPT !.key = intent.key])
    /\ UNCHANGED <<rows, provider, goal, history>>

\* findActiveReturnForOrder and the duplicate guard: a label bought under the
\* key just read is this return's own and is completed; any other is an error.
CheckActive(r) ==
    /\ At(r, "readActive")
    /\ \/ \E s \in Ships :
            /\ Active(s)
            /\ \/ /\ s = snap[r].key
                  /\ Goto(r, "completeExisting")
                  /\ Keeps(r, [snap[r] EXCEPT !.target = s, !.wasFrozen = s \in frozen])
               \/ s # snap[r].key /\ Finish(r)
       \/ /\ \A s \in Ships : ~Active(s)
          /\ Goto(r, "acquire")
          /\ Keeps(r, NoSnapshot)
    /\ UNCHANGED <<rows, provider, goal, history>>

-----------------------------------------------------------------------------
(* acquireReturnLabelPurchase: one transaction under the return row's lock *)

\* Mutants: an unknown outcome treated as a rejection; held without its rate.
HeldAsFailed == [intent EXCEPT !.state = "failed", !.lease = 0, !.expired = FALSE,
                               !.rated = FALSE, !.receipt = 0]
HeldWithoutRate == [intent EXCEPT !.state = "unknown_outcome", !.lease = 0,
                                  !.expired = FALSE, !.rated = FALSE]

\* A purchase whose outcome nobody knows is held, with what recovery needs.
Held == [intent EXCEPT !.state = "unknown_outcome", !.lease = 0, !.expired = FALSE]

SlotOpen ==
    /\ ~Active(ret.ship)
    /\ ret.status \in Labelable

AcquireConflict(r) ==
    /\ At(r, "acquire")
    /\ ~SlotOpen
    /\ Finish(r)
    /\ UNCHANGED <<rows, provider, goal, history>>

\* tryClaim: the rate and receipt columns are left as they are.
Claim(r) ==
    LET key == IF intent.state = "none" THEN 1 ELSE intent.key IN
    /\ At(r, "acquire")
    /\ SlotOpen
    /\ intent.state \in {"none", "failed", "voided"}
    /\ attempt < MaxAttempts
    /\ attempt' = attempt + 1
    /\ intent' = [intent EXCEPT !.state = "purchasing", !.key = key,
                                !.lease = attempt + 1, !.expired = FALSE]
    /\ Goto(r, "quote")
    /\ Keeps(r, [snap[r] EXCEPT !.key = key, !.lease = attempt + 1])
    /\ UNCHANGED <<ret, ship, carries, frozen, provider, goal, history>>

\* A purchase whose lease ran out has an unknown outcome, which is recovered
\* like one already marked unknown or purchased: from the receipt on file, else
\* from the provider; without the rate it was bought at, not at all.
AcquireRecover(r) ==
    LET lost == intent.state = "purchasing" /\ intent.expired IN
    /\ At(r, "acquire")
    /\ SlotOpen
    /\ lost \/ intent.state \in {"purchased", "unknown_outcome"}
    /\ intent' = IF lost THEN Held ELSE intent
    /\ \/ ~intent.rated /\ Finish(r)
       \/ /\ intent.rated
          /\ Goto(r, IF intent.receipt = 0 THEN "lookup" ELSE "recordRecovered")
          /\ Keeps(r, [snap[r] EXCEPT !.key = intent.key, !.receipt = intent.receipt])
    /\ UNCHANGED <<ret, ship, carries, frozen, attempt, provider, goal, history>>

AcquireInProgress(r) ==
    /\ At(r, "acquire")
    /\ SlotOpen
    /\ intent.state = "purchasing" /\ ~intent.expired
    /\ Finish(r)
    /\ UNCHANGED <<rows, provider, goal, history>>

AcquireCompleted(r) ==
    /\ At(r, "acquire")
    /\ SlotOpen
    /\ intent.state = "completed"
    /\ Goto(r, "freezeCompleted")
    /\ Keeps(r, [snap[r] EXCEPT !.target = intent.ship])
    /\ UNCHANGED <<rows, provider, goal, history>>

-----------------------------------------------------------------------------
(* The purchase attempt of a claim                                         *)

\* Rates are shopped and the customer amount approved, or neither.
Quote(r) ==
    /\ At(r, "quote")
    /\ \/ Goto(r, "saveRate")
       \/ Goto(r, "markFailed")
    /\ UNCHANGED <<rows, provider, snap, goal, history>>

\* saveReturnLabelSelectedRate
SaveRate(r) ==
    /\ At(r, "saveRate")
    /\ \/ Owns(r) /\ intent' = [intent EXCEPT !.rated = TRUE]
          /\ Goto(r, "send") /\ UNCHANGED snap
       \/ ~Owns(r) /\ Finish(r) /\ UNCHANGED intent
    /\ UNCHANGED <<ret, ship, carries, frozen, attempt, provider, goal, history>>

\* createLabel under the intent's reference key; nothing is checked again here. The
\* client may post it up to five times, which is one call: the provider sells one
\* label per key, whichever post it acts on.
SendCreate(r) ==
    /\ At(r, "send")
    /\ calls' = calls \cup {<<snap[r].key, snap[r].lease>>}
    /\ Goto(r, "calling")
    /\ UNCHANGED <<rows, label, page, snap, goal, history>>

\* The provider's answer: the label sold under the key.
ReceiveReceipt(r) ==
    /\ At(r, "calling")
    /\ <<snap[r].key, snap[r].lease>> \notin calls
    /\ label[snap[r].key] # "none"
    /\ Goto(r, "record")
    /\ Keeps(r, [snap[r] EXCEPT !.receipt = snap[r].key])
    /\ UNCHANGED <<rows, provider, goal, history>>

\* A definite rejection, a 4xx other than 408, 409, 425 and 429, of the only post.
ReceiveRejection(r) ==
    LET call == <<snap[r].key, snap[r].lease>> IN
    /\ At(r, "calling")
    /\ call \in calls
    /\ calls' = calls \ {call}
    /\ Goto(r, "markFailed")
    /\ UNCHANGED <<rows, label, page, snap, goal, history>>

\* The client posts a purchase again after a 429 or a 5xx.  A definite rejection of
\* the repost is taken for that of the call, though a post before it may have sold
\* the label, or may yet.
ReceiveRepostRejection(r) ==
    /\ At(r, "calling")
    /\ disowned' = disowned \cup {snap[r].key}
    /\ Goto(r, "markFailed")
    /\ UNCHANGED <<rows, provider, snap, goal, bypassed>>

\* An ambiguous answer, the two-minute timeout, or a heartbeat that lost the
\* lease: the attempt is abandoned, the call is not.
AbandonCall(r) ==
    /\ At(r, "calling")
    /\ Goto(r, "markUnknown")
    /\ UNCHANGED <<rows, provider, snap, goal, history>>

Heartbeat(r) ==
    /\ At(r, "calling")
    /\ Owns(r)
    /\ intent.expired
    /\ intent' = [intent EXCEPT !.expired = FALSE]
    /\ UNCHANGED <<ret, ship, carries, frozen, attempt, provider, pc, snap, goal, history>>

LeaseExpires ==
    /\ intent.state = "purchasing" /\ ~intent.expired
    /\ intent' = [intent EXCEPT !.expired = TRUE]
    /\ UNCHANGED <<ret, ship, carries, frozen, attempt, provider, pc, snap, goal, history>>

\* markReturnLabelPurchaseUnknown: silent when the lease is gone.
MarkUnknown(r) ==
    /\ At(r, "markUnknown")
    /\ intent' = IF Owns(r) THEN Held ELSE intent
    /\ Finish(r)
    /\ UNCHANGED <<ret, ship, carries, frozen, attempt, provider, goal, history>>

\* markReturnLabelPurchaseFailed: silent when the lease is gone.
MarkFailed(r) ==
    /\ At(r, "markFailed")
    /\ intent' = IF Owns(r)
                 THEN [intent EXCEPT !.state = "failed", !.lease = 0, !.expired = FALSE,
                                     !.rated = FALSE, !.receipt = 0]
                 ELSE intent
    /\ Goto(r, "returnFailed")
    /\ Keeps(r, NoSnapshot)
    /\ UNCHANGED <<ret, ship, carries, frozen, attempt, provider, goal, history>>

\* markReturnLabelFailed
MarkReturnFailed(r) ==
    /\ At(r, "returnFailed")
    /\ ret' = IF ret.status \in {"requested", "label_failed"}
              THEN [ret EXCEPT !.status = "label_failed"]
              ELSE ret
    /\ Finish(r)
    /\ UNCHANGED <<intent, ship, carries, frozen, attempt, provider, goal, history>>

\* recordReturnLabelProviderReceipt: throws when the lease is gone.
RecordReceipt(r) ==
    /\ At(r, "record")
    /\ \/ /\ Owns(r)
          /\ intent' = [intent EXCEPT !.state = "purchased", !.receipt = snap[r].receipt,
                                      !.lease = 0, !.expired = FALSE]
          /\ Goto(r, "persist")
          /\ UNCHANGED snap
       \/ ~Owns(r) /\ Finish(r) /\ UNCHANGED intent
    /\ UNCHANGED <<ret, ship, carries, frozen, attempt, provider, goal, history>>

-----------------------------------------------------------------------------
(* Recovery of an unknown outcome                                          *)

\* ssGetLabelByExternalShipmentId: a miss or an error leaves the purchase held.
Lookup(r) ==
    /\ At(r, "lookup")
    /\ \/ /\ label[snap[r].key] # "none"
          /\ Goto(r, "recordRecovered")
          /\ Keeps(r, [snap[r] EXCEPT !.receipt = snap[r].key])
       \/ label[snap[r].key] = "none" /\ Finish(r)
    /\ UNCHANGED <<rows, provider, goal, history>>

\* recordRecoveredReturnLabelProviderReceipt matches the intent by id and state
\* only, so it may land on an intent whose key was rotated since it was read.
RecordRecovered(r) ==
    /\ At(r, "recordRecovered")
    /\ \/ /\ intent.state \in {"unknown_outcome", "purchased"}
          /\ intent' = [intent EXCEPT !.state = "purchased", !.receipt = snap[r].receipt,
                                      !.lease = 0, !.expired = FALSE]
          /\ bypassed' = IF snap[r].key = intent.key
                         THEN bypassed ELSE bypassed \cup {<<"stale_recovery", intent.key>>}
          /\ Goto(r, "persist")
          /\ UNCHANGED snap
       \/ /\ intent.state \notin {"unknown_outcome", "purchased"}
          /\ Finish(r)
          /\ UNCHANGED <<intent, bypassed>>
    /\ UNCHANGED <<ret, ship, carries, frozen, attempt, provider, goal, disowned>>

-----------------------------------------------------------------------------
(* finalizeLivePurchase and the other ways to a linked label               *)

\* Mutant: the row is keyed by what the intent says now.
CurrentKey(r) == intent.key

\* finalizeLivePurchase works for the key its request read, not the current one.
PurchaseKey(r) == snap[r].key

\* persistReturnShipment: the row of the key is found, voided or not, or inserted.
PersistShipment(r) ==
    LET k == PurchaseKey(r) IN
    /\ At(r, "persist")
    /\ \/ /\ ship[k] = "absent"
          /\ ship' = [ship EXCEPT ![k] = "active"]
          /\ carries' = [carries EXCEPT ![k] = snap[r].receipt]
       \/ ship[k] # "absent" /\ UNCHANGED <<ship, carries>>
    /\ Goto(r, "freeze")
    /\ Keeps(r, [NoSnapshot EXCEPT !.target = k])
    /\ UNCHANGED <<ret, intent, frozen, attempt, provider, goal, history>>

\* Mutant: the money is frozen on the shipment the return links, not the persisted one.
FreezesLinked(r) == ret.ship

FreezesRow(r) == snap[r].target

\* PrepShip freezes the customer money of the shipment row (a remote call).
AfterFreeze == [freeze |-> "complete", freezeExisting |-> "writeAlias",
                freezeCompleted |-> "link"]
Freeze(r) ==
    /\ pc[r] \in DOMAIN AfterFreeze
    /\ frozen' = frozen \cup {FreezesRow(r)}
    /\ Goto(r, AfterFreeze[pc[r]])
    /\ UNCHANGED <<ret, intent, ship, carries, attempt, provider, snap, goal, history>>

\* completeReturnLabelPurchase matches the intent by id alone.
Completed(k) ==
    /\ intent' = [intent EXCEPT !.state = "completed", !.ship = k, !.lease = 0,
                                !.expired = FALSE, !.rated = FALSE, !.receipt = 0]
    /\ bypassed' = IF k = intent.key
                   THEN bypassed ELSE bypassed \cup {<<"stale_finalize", intent.key>>}

Complete(r) ==
    /\ At(r, "complete")
    /\ Completed(snap[r].target)
    /\ Goto(r, "link")
    /\ UNCHANGED <<ret, ship, carries, frozen, attempt, provider, snap, goal, disowned>>

\* readFrozenCustomerShippingMoney proves the amount the return already carries.
RateProven(s) == s.alias # 0 /\ s.wasFrozen /\ Amount[s.alias] = Amount[s.target]

\* The return's own label was found active: complete its intent, then settle the
\* rate (ensureReturnCustomerRateSnapshot).  A rate already on the row is kept if
\* it equals the one frozen for this shipment; otherwise the request fails closed.
CompleteExisting(r) ==
    LET s == snap[r] IN
    /\ At(r, "completeExisting")
    /\ Completed(s.target)
    /\ \/ s.alias = 0 /\ Goto(r, "freezeExisting") /\ UNCHANGED snap
       \/ RateProven(s) /\ Goto(r, "link") /\ UNCHANGED snap
       \/ s.alias # 0 /\ ~RateProven(s) /\ Finish(r)
    /\ UNCHANGED <<ret, ship, carries, frozen, attempt, provider, goal, disowned>>

WriteAlias(r) ==
    /\ At(r, "writeAlias")
    /\ ret' = IF ret.rate = 0 THEN [ret EXCEPT !.rate = snap[r].target] ELSE ret
    /\ Goto(r, "link")
    /\ UNCHANGED <<intent, ship, carries, frozen, attempt, provider, snap, goal, history>>

\* Mutants: the link is written whatever is linked, or whatever the status.
CanLinkOver(k)   == ret.status \in Labelable
CanLinkAnyTime(k) == ret.ship = NoShip \/ ret.ship = k \/ Voided(ret.ship)

\* markReturnLabelCreated: one conditional statement; a request it refuses throws.
CanLink(k) ==
    /\ ret.ship = NoShip \/ ret.ship = k \/ Voided(ret.ship)
    /\ ret.status \in Labelable

Link(r) ==
    LET k == snap[r].target IN
    /\ At(r, "link")
    /\ ret' = IF CanLink(k) THEN [status |-> "label_created", ship |-> k, rate |-> k] ELSE ret
    /\ Finish(r)
    /\ UNCHANGED <<intent, ship, carries, frozen, attempt, provider, goal, history>>

\* A process dies, a statement fails, the remote freeze refuses: the request is
\* gone, what it wrote and sent stays.
Crash(r) ==
    /\ ~At(r, "idle")
    /\ Finish(r)
    /\ UNCHANGED <<rows, provider, goal, history>>

-----------------------------------------------------------------------------
(* The provider, EXTERNAL: sells one label per reference key, late or never; *)
(* a call it never acts on stays in calls.                                  *)

ProviderSells ==
    \E c \in calls :
        /\ calls' = calls \ {c}
        /\ label' = [label EXCEPT ![c[1]] = IF @ = "none" THEN "live" ELSE @]
        /\ UNCHANGED <<rows, page, pc, snap, goal, history>>

-----------------------------------------------------------------------------
(* voidLabelV2                                                             *)

\* lockReturnLabelSlotForShipment finds the return by any of three links, and
\* assertReturnLabelVoidSlot then checks it.
SlotOf(s) == intent.ship = s \/ intent.key = s \/ ret.ship = s

\* Mutant: a label the return does not show may be voided.
VoidUnshownOk(s) == SlotOf(s) => intent.state \in {"none", "completed", "voided"}

VoidSlotOk(s) ==
    SlotOf(s) => /\ intent.state \in {"none", "completed", "voided"}
                 /\ ret.ship = s

\* The unlocked read and the preflight; only a purchased label has a provider.
VoidPreflight(v) ==
    /\ At(v, "idle")
    /\ \E s \in Ships :
        /\ Active(s)
        /\ VoidSlotOk(s)
        /\ goal' = [goal EXCEPT ![v] = s]
        /\ Goto(v, IF s \notin External THEN "provider" ELSE "finalize")
    /\ UNCHANGED <<rows, provider, snap, history>>

\* Mutant: a provider that refuses to void is taken to have voided before.
VoidAtProviderAssumed(v) ==
    /\ At(v, "provider")
    /\ Goto(v, "finalize")
    /\ UNCHANGED <<rows, provider, snap, goal, history>>

\* Voided now, or readback shows it already was.
VoidAtProvider(v) ==
    /\ At(v, "provider")
    /\ label' = [label EXCEPT ![carries[goal[v]]] = "voided"]
    /\ Goto(v, "finalize")
    /\ UNCHANGED <<rows, calls, page, snap, goal, history>>

\* One transaction: slot checked again, shipment voided, intent released under a
\* rotated key (markReturnLabelPurchaseVoidedForShipment); it throws otherwise.
CanFinalize(s) ==
    /\ VoidSlotOk(s)
    /\ Active(s)
    /\ intent.ship = s => intent.state \in {"completed", "voided"}
    /\ SlotOf(s) /\ intent.state = "completed" => intent.ship = s

\* Mutants: the intent stays completed, as before CP-057; the voided label's key is
\* sent again for the replacement.
LeftCompleted(s) == intent
KeyReplayed(s) ==
    IF intent.ship = s /\ intent.state = "completed"
    THEN [intent EXCEPT !.state = "voided", !.lease = 0, !.expired = FALSE]
    ELSE intent

\* markReturnLabelPurchaseVoidedForShipment, which matches by intent.returnShipmentId.
Released(s) ==
    IF intent.ship = s /\ intent.state = "completed"
    THEN [intent EXCEPT !.state = "voided", !.key = @ + 1, !.lease = 0, !.expired = FALSE]
    ELSE intent

VoidFinalize(v) ==
    LET s == goal[v] IN
    /\ At(v, "finalize")
    /\ CanFinalize(s)
    /\ ship' = [ship EXCEPT ![s] = "voided"]
    /\ intent' = Released(s)
    /\ intent'.key <= MaxKey
    /\ Goto(v, "idle")
    /\ goal' = [goal EXCEPT ![v] = NoShip]
    /\ UNCHANGED <<ret, carries, frozen, attempt, provider, snap, history>>

\* The void throws: refused by the transaction, by the provider, or it died.
VoidAborts(v) ==
    /\ ~At(v, "idle")
    /\ Goto(v, "idle")
    /\ goal' = [goal EXCEPT ![v] = NoShip]
    /\ UNCHANGED <<rows, provider, snap, history>>

-----------------------------------------------------------------------------
(* Everyone else who writes the slot                                       *)

\* applyReturnExternalTracking, one transaction under the return row's lock.
AssignExternal ==
    \E x \in External :
        /\ ship[x] = "absent"
        /\ ret.ship = NoShip \/ Voided(ret.ship)
        /\ \/ ret.status \in {"requested", "label_failed"}
           \/ ret.status = "label_created" /\ Voided(ret.ship)
        /\ ~OwnsSlot(intent.state)
        /\ ship' = [ship EXCEPT ![x] = "active"]
        /\ ret' = [ret EXCEPT !.status = "label_created", !.ship = x]
        /\ UNCHANGED <<intent, carries, frozen, attempt, provider, pc, snap, goal, history>>

\* resolveReturnLabelPurchaseNoEffect, by an operator who looked the reference
\* key up at the provider and found no label there.
ResolveNoEffect ==
    /\ intent.state = "unknown_outcome"
    /\ label[intent.key] # "live"
    /\ intent' = [intent EXCEPT !.state = "failed", !.lease = 0, !.expired = FALSE,
                                !.receipt = 0]
    /\ disowned' = disowned \cup {intent.key}
    /\ UNCHANGED <<ret, ship, carries, frozen, attempt, provider, pc, snap, goal, bypassed>>

\* syncShipments reads a page of the provider's shipments, then upserts it.
SyncReads ==
    \E k \in Keys :
        /\ Mirrors # {}
        /\ label[k] # "none"
        /\ page' = [page EXCEPT ![k] = label[k]]
        /\ UNCHANGED <<rows, label, calls, pc, snap, goal, history>>

\* upsertShipmentsBatch: a row with the label's shipment id takes the voided flag
\* of the page, either way; without one, a row of no provider key is inserted.
SyncWrites ==
    \E k \in Keys :
        LET known   == {s \in Keys \cup Mirrors : ship[s] # "absent" /\ carries[s] = k}
            flag    == IF page[k] = "voided" THEN "voided" ELSE "active"
        IN
        /\ page[k] # "unread"
        /\ \E s \in IF known # {} THEN known ELSE {m \in Mirrors : ship[m] = "absent"} :
              /\ ship' = [ship EXCEPT ![s] = flag]
              /\ carries' = [carries EXCEPT ![s] = k]
        /\ page' = [page EXCEPT ![k] = "unread"]
        /\ UNCHANGED <<ret, intent, frozen, attempt, label, calls, pc, snap, goal, history>>

\* advanceReturnsFromTracking: the linked shipment moved.
TrackingAdvances ==
    /\ ret.status = "label_created"
    /\ ret.ship # NoShip
    /\ ret' = [ret EXCEPT !.status = "in_transit"]
    /\ UNCHANGED <<intent, ship, carries, frozen, attempt, provider, pc, snap, goal, history>>

\* The inspection route of the warehouse: received, or inspected with a condition.
Receive ==
    /\ \E s \in {"received", "inspected"} : ret' = [ret EXCEPT !.status = s]
    /\ UNCHANGED <<intent, ship, carries, frozen, attempt, provider, pc, snap, goal, history>>

-----------------------------------------------------------------------------

RequestStep(r) ==
    \/ ReadReturn(r) \/ CheckLinked(r) \/ ReadIntent(r) \/ CheckActive(r)
    \/ AcquireConflict(r) \/ Claim(r) \/ AcquireRecover(r) \/ AcquireInProgress(r)
    \/ AcquireCompleted(r)
    \/ Quote(r) \/ SaveRate(r) \/ SendCreate(r) \/ ReceiveReceipt(r)
    \/ ReceiveRejection(r) \/ ReceiveRepostRejection(r) \/ AbandonCall(r) \/ Heartbeat(r)
    \/ MarkUnknown(r) \/ MarkFailed(r) \/ MarkReturnFailed(r) \/ RecordReceipt(r)
    \/ Lookup(r) \/ RecordRecovered(r)
    \/ PersistShipment(r) \/ Freeze(r) \/ Complete(r) \/ CompleteExisting(r)
    \/ WriteAlias(r) \/ Link(r) \/ Crash(r)

VoidStep(v) ==
    \/ VoidPreflight(v) \/ VoidAtProvider(v) \/ VoidFinalize(v) \/ VoidAborts(v)

OtherStep ==
    \/ LeaseExpires \/ ProviderSells \/ AssignExternal
    \/ ResolveNoEffect \/ SyncReads \/ SyncWrites \/ TrackingAdvances \/ Receive

Next ==
    \/ \E r \in Requests : RequestStep(r)
    \/ \E v \in Voiders : VoidStep(v)
    \/ OtherStep

Spec == Init /\ [][Next]_vars

-----------------------------------------------------------------------------
(* What the slot promises                                                  *)

ActiveShips == {s \in Ships : Active(s)}
LiveLabels  == {k \in Keys : label[k] = "live"}

Recovered   == {k \in Keys : <<"stale_recovery", k>> \in bypassed}
Overwritten == Recovered \cup {k \in Keys : <<"stale_finalize", k>> \in bypassed}

\* A return never has two labels a parcel could travel under: of its shipment
\* rows, purchased or external, at most one is not voided.
AtMostOneActiveLabel == \A s, t \in ActiveShips : s = t

\* "Void it before assigning": the linked shipment changes only when none was
\* linked or the linked one is voided, whoever writes the link.
ActiveLinkNeverDisplaced ==
    [][ret'.ship # ret.ship => ret.ship = NoShip \/ Voided(ret.ship)]_vars

\* Receiving is the sole authority for received and inspected: no late label
\* writer and no tracking sweep takes a parcel back out of the warehouse.
ReceivedNeverRegressed ==
    [][ret.status \in {"received", "inspected"} =>
            ret'.status \in {"received", "inspected"}]_vars

\* Postage that was paid for and not voided is never forgotten: its shipment row
\* is active, or the intent still holds the purchase under its key, or stands failed
\* under it after an operator, or the rejection of a repost, said that nothing was
\* bought; unless a write the code does not fence reached the intent under that key.
PaidLabelAccounted ==
    \A k \in LiveLabels :
        \/ Active(k)
        \/ k = intent.key /\ intent.state \in {"purchasing", "unknown_outcome", "purchased"}
        \/ k = intent.key /\ intent.state = "failed" /\ k \in disowned
        \/ k \in Overwritten

\* A held purchase of a sold label can be recovered without an operator: the rate
\* it was bought at, which recovery requires, is still on the intent. The exceptions
\* are the keys that PaidLabelAccounted names.
HeldPurchaseRecoverable ==
    intent.state \in {"unknown_outcome", "purchased"} /\ label[intent.key] = "live" =>
        intent.rated \/ intent.key \in disowned \cup Overwritten

\* One return never pays two carriers: at most one label sold for it is live,
\* however its purchases time out, are posted again, resolved, voided and retried,
\* and completed late; a recovery of an older key is not fenced and may leave two.
AtMostOneLiveLabel ==
    Cardinality(LiveLabels) > 1 => Recovered # {}

\* A completed intent owns the active shipment bought under its current key.
CompletedOwnsActiveLabel ==
    intent.state = "completed" =>
        \/ intent.ship = intent.key /\ Active(intent.ship)
        \/ intent.key \in Overwritten

\* The purchased row of a key describes the label sold under that key, and a linked
\* one is billed at the amount frozen for that very label.
RowsMatchTheirLabel ==
    /\ \A k \in Keys : ship[k] # "absent" => carries[k] = k \/ k \in Recovered
    /\ ret.ship \in Keys => ret.ship \in frozen /\ ret.rate = ret.ship

\* A void rotates the reference key exactly once, also when it is repeated or runs
\* twice at the same time: the keys before the current one are those of the voided
\* labels, the current one is not, and none after it has a row.
KeyRotatesOncePerVoid ==
    \A k \in Keys : /\ k < intent.key <=> Voided(k)
                    /\ k > intent.key => ship[k] = "absent"
=============================================================================
