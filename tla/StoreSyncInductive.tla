------------------------- MODULE StoreSyncInductive -------------------------
(* SyncInv, the invariant behind NothingSkipped: what one run at a time knows *)
(* of the store while orders change under it.                                *)
EXTENDS StoreSync

\* One caller: the scheduler's tick, with its flag and its lock.
OneCaller == \A c, d \in Callers : c = d

Running(c) == ~At(c, "idle")

\* The order in its current version.
Current(o) == [order |-> o, stamp |-> stamp[o]]

\* No run reads past its cap.
PagesInv == \A c \in Callers : At(c, "fetching") => run[c].pages < MaxPages

\* The tables are never ahead of the store, nor the items of the row; and the
\* cursor is not ahead of every order.
TablesInv ==
    /\ \A o \in Orders : items[o] <= row[o] /\ row[o] <= stamp[o]
    /\ cursor # 0 => \E o \in Orders : cursor <= stamp[o]

\* A run works from the account's cursor; what it read is not newer than the
\* store and not older than the tables, and lies between the cursor and where
\* it has got to.
ReadInv ==
    \A c \in Callers : Running(c) =>
        /\ run[c].base = cursor
        /\ \A n \in run[c].got :
            /\ n.stamp # 0 /\ cursor <= n.stamp
            /\ row[n.order] <= n.stamp /\ n.stamp <= stamp[n.order]
            /\ ~Before(run[c].after, Place(n))

\* Everything that changed since the cursor and lies before where the run has
\* got to was read in its current version.
CompleteInv ==
    \A c \in Callers : Running(c) =>
        \A o \in Orders :
            stamp[o] # 0 /\ cursor <= stamp[o] /\ ~Before(run[c].after, Place(Current(o)))
            => Current(o) \in run[c].got

\* What is written is what was read.
WrittenInv ==
    \A c \in Callers :
        /\ At(c, "rebuilding") \/ At(c, "saving") =>
              \A n \in Batch(run[c]) : row[n.order] = n.stamp
        /\ At(c, "saving") =>
              \A n \in Batch(run[c]) : items[n.order] = n.stamp

SyncInv ==
    /\ TypeOK
    /\ PagesInv
    /\ TablesInv
    /\ ReadInv
    /\ CompleteInv
    /\ WrittenInv
    /\ NothingSkipped
=============================================================================
