----------------------------- MODULE StoreSync -----------------------------
(***************************************************************************)
(* The Shopify order sync of one store account: syncShopifyOrders called   *)
(* by the scheduler and by the cron endpoints, the paged read of the       *)
(* orders changed since the account's cursor, the upsert of the batch, the *)
(* rebuild of its order_items and the bookkeeping of cursor and failures.  *)
(*                                                                         *)
(* An order's version is the second of its last change in the store, its   *)
(* updatedAt. What an order contains, and the status the upsert protects   *)
(* (OutboundLabel), are not state here.                                    *)
(***************************************************************************)
EXTENDS Naturals, FiniteSets

CONSTANTS
    Orders,     \* the store's orders: their ids, which break ties of the sort
    Skipped,    \* the orders never imported: older than the anchor, malformed
    Callers,    \* the callers of syncShopifyOrders, each with one run at a time
    ClientCredentials,  \* the account mints its tokens
    PageSize,   \* orders on a page (50 in the code)
    MaxPages,   \* pages a run reads at most (40 in the code)
    AuthPauseThreshold,
    Ties,       \* bound: orders that change in one second
    MaxStamp,   \* bound: the seconds in which orders change
    MaxFaults   \* bound: crashes and failing calls

ASSUME OrdersAssumption == Orders \subseteq Nat /\ Skipped \subseteq Orders
ASSUME BoundsAssumption ==
    /\ PageSize \in Nat \ {0} /\ MaxPages \in Nat \ {0}
    /\ AuthPauseThreshold \in Nat /\ Ties \in Nat
    /\ MaxStamp \in Nat /\ MaxFaults \in Nat

VARIABLES
    stamp,      \* the store: when an order last changed, 0 if not placed yet
    row,        \* the orders table: the version stored, 0 if none
    items,      \* order_items: the version they were rebuilt from
    cursor,     \* store_accounts.sync_cursor_at, 0 while it is the anchor
    error,      \* store_accounts.last_sync_error
    strikes,    \* store_accounts.sync_failure_count
    run,        \* the run of syncOneAccount each caller is in
    storage,    \* what each caller's process holds of ensureOrderItemsStorage
    faults      \* faults so far

tables == <<row, items>>
account == <<cursor, error, strikes>>
vars == <<stamp, row, items, cursor, error, strikes, run, storage, faults>>

Stamps == 0..MaxStamp
Pcs == {"idle", "fetching", "writing", "rebuilding", "saving", "failing"}
Reasons == {"auth", "network", "internal"}
Checks == {"unchecked", "ok", "failed"}
Nodes == [order : Orders, stamp : Stamps]

\* A place in the order of a page: sorted by updatedAt, then by id.
Places == Stamps \X Nat
Place(n) == <<n.stamp, n.order>>
Before(p, q) == p[1] < q[1] \/ (p[1] = q[1] /\ p[2] < q[2])

\* A run holds the cursor it loaded, how far it has read, and what it read.
Runs == [pc : Pcs, base : Stamps, pages : 0..MaxPages, after : Places,
         got : SUBSET Nodes, fresh : BOOLEAN, reason : Reasons]

Idle == [pc |-> "idle", base |-> 0, pages |-> 0, after |-> <<0, 0>>,
         got |-> {}, fresh |-> FALSE, reason |-> "internal"]

TypeOK ==
    /\ stamp \in [Orders -> Stamps]
    /\ row \in [Orders -> Stamps]
    /\ items \in [Orders -> Stamps]
    /\ cursor \in Stamps
    /\ error \in Reasons \cup {"none"}
    /\ strikes \in Nat
    /\ run \in [Callers -> Runs]
    /\ storage \in [Callers -> Checks]
    /\ faults \in 0..MaxFaults

Init ==
    /\ stamp = [o \in Orders |-> 0]
    /\ row = [o \in Orders |-> 0]
    /\ items = [o \in Orders |-> 0]
    /\ cursor = 0
    /\ error = "none"
    /\ strikes = 0
    /\ run = [c \in Callers |-> Idle]
    /\ storage = [c \in Callers |-> "unchecked"]
    /\ faults = 0

----------------------------------------------------------------------------
(* The store and the operator                                              *)

\* An order is placed, or changes. What a page has shown is of seconds past.
Change(o) ==
    /\ \E now \in Stamps \ {0} :
        /\ \A p \in Orders : stamp[p] <= now
        /\ \A c \in Callers : run[c].after[1] < now
        /\ Cardinality({p \in Orders \ {o} : stamp[p] = now}) < Ties
        /\ stamp[o] < now
        /\ stamp' = [stamp EXCEPT ![o] = now]
    /\ UNCHANGED <<tables, account, run, storage, faults>>

\* The credentials are entered again and accepted.
Reconnect ==
    /\ error' = "none"
    /\ strikes' = 0
    /\ UNCHANGED <<stamp, tables, cursor, run, storage, faults>>

----------------------------------------------------------------------------
(* A run                                                                   *)

At(c, pc) == run[c].pc = pc
Moves(c, pc) == run' = [run EXCEPT ![c].pc = pc]
Ends(c) == run' = [run EXCEPT ![c] = Idle]
Fails(c, reason) == run' = [run EXCEPT ![c].pc = "failing", ![c].reason = reason]

\* An account refused too often is not loaded until it is reconnected.
Paused == error = "auth" /\ strikes >= AuthPauseThreshold

Start(c) ==
    /\ At(c, "idle")
    /\ ~Paused
    /\ run' = [run EXCEPT ![c] = [Idle EXCEPT !.pc = "fetching", !.base = cursor]]
    /\ UNCHANGED <<stamp, tables, account, storage, faults>>

\* What the query has still to return, were it asked now.
Rest(r) == {n \in Nodes : /\ n.stamp = stamp[n.order]
                          /\ n.stamp # 0
                          /\ n.stamp >= r.base
                          /\ Before(r.after, Place(n))}

\* The first PageSize of them.
IsPage(page, rest) ==
    /\ \A n \in page, m \in rest \ page : Before(Place(n), Place(m))
    /\ Cardinality(page) <= PageSize
    /\ page = rest \/ Cardinality(page) = PageSize

\* endCursor: the place of a page's last order.
IsEnd(place, page) ==
    /\ \E n \in page : place = Place(n)
    /\ \A n \in page : ~Before(place, Place(n))

\* Mutant: a page is continued from where the run began.
NeverFurther(r, page, place) == place = r.after

Continues(r, page, place) ==
    IF page = {} THEN place = r.after ELSE IsEnd(place, page)

\* Mutant: one page more than the cap.
CapExceeded(r) == r.pages = MaxPages

CapReached(r) == r.pages + 1 = MaxPages

\* Reading stops at the last page, and at the cap.
FetchPage(c) ==
    /\ At(c, "fetching")
    /\ LET r == run[c]  rest == Rest(r) IN
        \E page \in SUBSET rest :
        \E place \in {r.after} \cup {Place(n) : n \in page} :
            /\ IsPage(page, rest)
            /\ Continues(r, page, place)
            /\ run' = [run EXCEPT ![c] =
                [r EXCEPT !.pages = @ + 1, !.after = place, !.got = @ \cup page,
                          !.pc = IF page = rest \/ CapReached(r) THEN "writing"
                                 ELSE "fetching"]]
    /\ UNCHANGED <<stamp, tables, account, storage, faults>>

\* Mutant: orders before the anchor are imported as well.
ImportsAll(r) == r.got

\* The orders of the batch that are not skipped.
Batch(r) == {n \in r.got : n.order \notin Skipped}

Batched(r) == {n.order : n \in Batch(r)}

\* One INSERT may not touch a row twice.
Clash(r) == \E n, m \in Batch(r) : n.order = m.order /\ n # m

Versions(r, o) == {n.stamp : n \in {m \in Batch(r) : m.order = o}}

\* The upsert overwrites what it finds.
Write(c) ==
    /\ At(c, "writing") /\ ~Clash(run[c])
    /\ Moves(c, "rebuilding")
    /\ row' = [o \in Orders |-> IF o \in Batched(run[c])
                                THEN CHOOSE v \in Versions(run[c], o) : TRUE ELSE row[o]]
    /\ UNCHANGED <<stamp, items, account, storage, faults>>

\* An order that changed between two pages is in the batch twice.
WriteClashes(c) ==
    /\ At(c, "writing") /\ Clash(run[c])
    /\ Fails(c, "internal")
    /\ UNCHANGED <<stamp, tables, account, storage, faults>>

\* The check that the tables of the items are there is made once in the life of
\* a process, by whoever needs it first, and its outcome is kept.
CheckStorage(c) ==
    /\ storage[c] = "unchecked"
    /\ storage' = [storage EXCEPT ![c] = "ok"]
    /\ UNCHANGED <<stamp, tables, account, run, faults>>

\* A run with orders to store waits for it.
Checked(c) == Batched(run[c]) = {} \/ storage[c] = "ok"

\* The items are read back from the orders table and replaced.
Rebuild(c) ==
    /\ At(c, "rebuilding") /\ Checked(c)
    /\ items' = [o \in Orders |-> IF o \in Batched(run[c]) THEN row[o] ELSE items[o]]
    /\ Moves(c, "saving")
    /\ UNCHANGED <<stamp, row, account, storage, faults>>

\* The check that failed once fails every run of the process.
RebuildRefused(c) ==
    /\ At(c, "rebuilding") /\ Batched(run[c]) # {}
    /\ storage[c] = "failed"
    /\ Fails(c, "internal")
    /\ UNCHANGED <<stamp, tables, account, storage, faults>>

Seen(r) == {n.stamp : n \in r.got}

\* The cursor moves to the newest change read, of skipped orders too.
Save(c) ==
    /\ At(c, "saving")
    /\ cursor' \in Seen(run[c]) \cup {run[c].base}
    /\ \A s \in Seen(run[c]) \cup {run[c].base} : s <= cursor'
    /\ error' = "none"
    /\ strikes' = 0
    /\ Ends(c)
    /\ UNCHANGED <<stamp, tables, storage, faults>>

\* Only refused credentials are counted.
RecordFailure(c) ==
    /\ At(c, "failing")
    /\ error' = run[c].reason
    /\ strikes' = IF run[c].reason = "auth" THEN strikes + 1 ELSE strikes
    /\ Ends(c)
    /\ UNCHANGED <<stamp, tables, cursor, storage, faults>>

----------------------------------------------------------------------------
(* Faults                                                                  *)

Fault == faults < MaxFaults /\ faults' = faults + 1

\* The store does not answer, throttles twice or answers with an error; or the
\* token is refused, or cannot be minted.
FetchFails(c) ==
    /\ At(c, "fetching")
    /\ Fault
    /\ \E reason \in {"network", "auth"} : Fails(c, reason)
    /\ UNCHANGED <<stamp, tables, account, storage>>

\* A token out of the cache is refused; with a fresh one the run reads again.
Refreshed(c) ==
    /\ At(c, "fetching")
    /\ ClientCredentials /\ ~run[c].fresh
    /\ Fault
    /\ run' = [run EXCEPT ![c] = [Idle EXCEPT !.pc = "fetching",
                                              !.base = run[c].base, !.fresh = TRUE]]
    /\ UNCHANGED <<stamp, tables, account, storage>>

\* Mutant: a batch that fails is taken as done.
SavedAnyway(c) ==
    /\ At(c, "writing") \/ At(c, "rebuilding")
    /\ Fault
    /\ Moves(c, "saving")
    /\ UNCHANGED <<stamp, tables, account, storage>>

\* The upsert, the rebuild or the save of the cursor throws.
DatabaseFails(c) ==
    /\ At(c, "writing") \/ (At(c, "rebuilding") /\ Checked(c)) \/ At(c, "saving")
    /\ Fault
    /\ Fails(c, "internal")
    /\ UNCHANGED <<stamp, tables, account, storage>>

\* One of the check's statements throws, or finds a relation missing.
StorageFails(c) ==
    /\ storage[c] = "unchecked"
    /\ Fault
    /\ storage' = [storage EXCEPT ![c] = "failed"]
    /\ UNCHANGED <<stamp, tables, account, run>>

\* A failure that cannot be recorded is recorded as internal, once.
RecordingFails(c) ==
    /\ At(c, "failing")
    /\ Fault
    /\ IF run[c].reason = "internal" THEN Ends(c) ELSE Fails(c, "internal")
    /\ UNCHANGED <<stamp, tables, account, storage>>

\* The process dies or is restarted: what it held is gone.
Crash(c) ==
    /\ ~At(c, "idle") \/ storage[c] # "unchecked"
    /\ Fault
    /\ Ends(c)
    /\ storage' = [storage EXCEPT ![c] = "unchecked"]
    /\ UNCHANGED <<stamp, tables, account>>

----------------------------------------------------------------------------
Step(c) ==
    \/ Start(c) \/ FetchPage(c) \/ Write(c) \/ WriteClashes(c)
    \/ CheckStorage(c) \/ Rebuild(c) \/ RebuildRefused(c)
    \/ Save(c) \/ RecordFailure(c)

FaultStep(c) ==
    \/ FetchFails(c) \/ Refreshed(c) \/ DatabaseFails(c) \/ StorageFails(c)
    \/ RecordingFails(c) \/ Crash(c)

Next ==
    \/ \E o \in Orders : Change(o)
    \/ Reconnect
    \/ \E c \in Callers : Step(c) \/ FaultStep(c)

Spec == Init /\ [][Next]_vars

\* The tick comes back for ever, and a run that meets no fault goes on.
FairSpec == Spec /\ \A c \in Callers : WF_vars(Step(c))

----------------------------------------------------------------------------
(* Properties                                                              *)

\* Whatever fails, crashes or changes while pages are read, an order last
\* changed before the cursor is stored as it is in the store, its items with
\* it: no later run would ask for it again (syncOneAccount,
\* fetchShopifyOrdersSince: "nothing is skipped").
NothingSkipped ==
    \A o \in Orders \ Skipped :
        stamp[o] # 0 /\ stamp[o] < cursor => row[o] = stamp[o] /\ items[o] = stamp[o]

\* A run never replaces a stored order by an older version of it
\* (upsertNormalizedStoreOrders overwrites whatever it finds).
NeverOlder == [][\A o \in Orders : row'[o] >= row[o] /\ items'[o] >= items[o]]_vars

\* No process can rebuild items any more, until one of them is restarted.
StorageRefused == \A c \in Callers : storage[c] = "failed"

\* Every order of the store is in the end stored as it is there, page cap,
\* clashes and failures notwithstanding ("the next tick continues"), unless the
\* account is paused, or the storage check has failed in every process: then the
\* cursor stands still, and what lies past the page cap is not read. More orders
\* than a run reads never change in one second: the cursor could not pass them.
EverythingImported ==
    \A o \in Orders \ Skipped :
        <>[](Paused \/ StorageRefused \/ (row[o] = stamp[o] /\ items[o] = stamp[o]))
=============================================================================
