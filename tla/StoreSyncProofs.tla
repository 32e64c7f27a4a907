-------------------------- MODULE StoreSyncProofs --------------------------
(* SyncInv is inductive for one caller, whatever the orders, pages, bounds   *)
(* and faults: no run of the sync moves the cursor past a change it has not  *)
(* stored.                                                                   *)
EXTENDS StoreSyncRefinement, TLAPS

-----------------------------------------------------------------------------
(* What a step does to its run                                              *)

LEMMA IdleTyped == Idle \in Runs
<1>1. 0 \in Stamps /\ 0 \in 0..MaxPages /\ <<0, 0>> \in Places
  BY BoundsAssumption DEF Stamps, Places
<1>2. QED
  BY <1>1 DEF Idle, Runs, Pcs, Reasons

LEMMA MovesEffect ==
    ASSUME TypeOK, NEW c \in Callers, NEW pc \in Pcs, Moves(c, pc)
    PROVE  /\ run' \in [Callers -> Runs]
           /\ run'[c] = [run[c] EXCEPT !.pc = pc]
BY DEF TypeOK, Moves, Runs

LEMMA FailsEffect ==
    ASSUME TypeOK, NEW c \in Callers, NEW reason \in Reasons, Fails(c, reason)
    PROVE  /\ run' \in [Callers -> Runs]
           /\ run'[c] = [run[c] EXCEPT !.pc = "failing", !.reason = reason]
<1>1. "failing" \in Pcs
  BY DEF Pcs
<1>2. QED
  BY <1>1 DEF TypeOK, Fails, Runs

LEMMA EndsEffect ==
    ASSUME TypeOK, NEW c \in Callers, Ends(c)
    PROVE  run' \in [Callers -> Runs] /\ run'[c] = Idle
BY IdleTyped DEF TypeOK, Ends

LEMMA StartEffect ==
    ASSUME TypeOK, NEW c \in Callers, Start(c)
    PROVE  /\ run' \in [Callers -> Runs]
           /\ run'[c] = [Idle EXCEPT !.pc = "fetching", !.base = cursor]
<1>1. [Idle EXCEPT !.pc = "fetching", !.base = cursor] \in Runs
  BY IdleTyped DEF TypeOK, Runs, Pcs
<1>2. QED
  BY <1>1 DEF TypeOK, Start

LEMMA RefreshedEffect ==
    ASSUME TypeOK, NEW c \in Callers, Refreshed(c)
    PROVE  /\ run' \in [Callers -> Runs]
           /\ run'[c] = [Idle EXCEPT !.pc = "fetching", !.base = run[c].base, !.fresh = TRUE]
<1>1. run[c].base \in Stamps
  BY DEF TypeOK, Runs
<1>2. [Idle EXCEPT !.pc = "fetching", !.base = run[c].base, !.fresh = TRUE] \in Runs
  BY <1>1, IdleTyped DEF Runs, Pcs
<1>3. QED
  BY <1>2 DEF TypeOK, Refreshed

\* A page: what it holds, and where it ends.
LEMMA FetchEffect ==
    ASSUME TypeOK, PagesInv, NEW c \in Callers, FetchPage(c)
    PROVE  /\ run' \in [Callers -> Runs]
           /\ run'[c].pc = "fetching" => run'[c].pages < MaxPages
           /\ run'[c].pc \in {"writing", "fetching"}
           /\ run'[c].base = run[c].base
           /\ \E page \in SUBSET Rest(run[c]) :
                /\ run'[c].got = run[c].got \cup page
                /\ \A n \in page, m \in Rest(run[c]) \ page : Before(Place(n), Place(m))
                /\ Continues(run[c], page, run'[c].after)
<1> DEFINE r == run[c]
<1>1. r \in Runs /\ r.pages < MaxPages /\ r.pages \in Nat
  BY BoundsAssumption DEF TypeOK, PagesInv, FetchPage, Runs
<1>2. PICK page \in SUBSET Rest(r) : \E place \in {r.after} \cup {Place(n) : n \in page} :
        /\ IsPage(page, Rest(r))
        /\ Continues(r, page, place)
        /\ run' = [run EXCEPT ![c] =
            [r EXCEPT !.pages = @ + 1, !.after = place, !.got = @ \cup page,
                      !.pc = IF page = Rest(r) \/ CapReached(r) THEN "writing" ELSE "fetching"]]
  BY DEF FetchPage
<1>3. PICK place \in {r.after} \cup {Place(n) : n \in page} :
        /\ IsPage(page, Rest(r))
        /\ Continues(r, page, place)
        /\ run' = [run EXCEPT ![c] =
            [r EXCEPT !.pages = @ + 1, !.after = place, !.got = @ \cup page,
                      !.pc = IF page = Rest(r) \/ CapReached(r) THEN "writing" ELSE "fetching"]]
  BY <1>2
<1> DEFINE next == IF page = Rest(r) \/ CapReached(r) THEN "writing" ELSE "fetching"
           s == [r EXCEPT !.pages = @ + 1, !.after = place, !.got = @ \cup page, !.pc = next]
<1>4. page \subseteq Nodes
  BY <1>2 DEF Rest
<1>5. place \in Places
  <2>1. \A n \in page : Place(n) \in Places
    BY <1>4, OrdersAssumption DEF Place, Places, Nodes
  <2>2. r.after \in Places
    BY <1>1 DEF Runs
  <2>3. QED
    BY <1>3, <2>1, <2>2
<1>6. next \in Pcs
  BY DEF Pcs
<1>7. r.pages + 1 \in 0..MaxPages
  BY <1>1, BoundsAssumption
<1>8. s \in Runs
  <2>1. r.got \cup page \in SUBSET Nodes
    BY <1>1, <1>4 DEF Runs
  <2>2. QED
    BY <1>1, <1>5, <1>6, <1>7, <2>1 DEF Runs
<1>9. run' = [run EXCEPT ![c] = s]
  BY <1>3
<1>10. run' \in [Callers -> Runs] /\ run'[c] = s
  BY <1>8, <1>9 DEF TypeOK
<1>11. /\ s.pages = r.pages + 1 /\ s.after = place /\ s.got = r.got \cup page
       /\ s.pc = next /\ s.base = r.base
  BY <1>1 DEF Runs
<1>12. next = "fetching" => r.pages + 1 < MaxPages
  BY <1>1, BoundsAssumption DEF CapReached
<1>13. QED
  BY <1>2, <1>3, <1>10, <1>11, <1>12 DEF IsPage

-----------------------------------------------------------------------------
(* The batch                                                                *)

\* Of a batch without clash the upsert stores the version read.
LEMMA OneVersion ==
    ASSUME NEW r, ~Clash(r), NEW n \in Batch(r)
    PROVE  /\ n.order \in Batched(r)
           /\ (CHOOSE v \in Versions(r, n.order) : TRUE) = n.stamp
<1>1. n.order \in Batched(r)
  BY DEF Batched
<1>2. \A m \in Batch(r) : m.order = n.order => m = n
  BY DEF Clash
<1>3. Versions(r, n.order) = {n.stamp}
  BY <1>2 DEF Versions
<1>4. QED
  BY <1>1, <1>3

LEMMA BatchTyped ==
    ASSUME TypeOK, NEW c \in Callers
    PROVE  /\ run[c] \in Runs /\ run[c].got \subseteq Nodes
           /\ Batch(run[c]) \subseteq run[c].got
           /\ \A n \in run[c].got : n.order \in Orders /\ n.stamp \in Stamps
<1>1. run[c] \in Runs /\ run[c].got \subseteq Nodes
  BY DEF TypeOK, Runs
<1>2. QED
  BY <1>1 DEF Batch, Nodes

LEMMA StampsAreNat == \A s \in Stamps : s \in Nat
BY BoundsAssumption DEF Stamps

-----------------------------------------------------------------------------
(* Types                                                                    *)

LEMMA TypeStep == TypeOK /\ PagesInv /\ [Next]_vars => TypeOK'
<1> SUFFICES ASSUME TypeOK, PagesInv, [Next]_vars PROVE TypeOK'
  OBVIOUS
<1>0. MaxFaults \in Nat
  BY BoundsAssumption
<1>f. ASSUME Fault PROVE faults' \in 0..MaxFaults
  BY <1>0, <1>f DEF Fault, TypeOK
<1>1. ASSUME NEW o \in Orders, Change(o) PROVE TypeOK'
  BY <1>1 DEF Change, TypeOK, tables, account
<1>2. CASE Reconnect
  BY <1>2 DEF Reconnect, TypeOK, tables
<1>3. ASSUME NEW c \in Callers, Start(c) PROVE TypeOK'
  BY <1>3, StartEffect DEF Start, TypeOK, tables, account
<1>4. ASSUME NEW c \in Callers, FetchPage(c) PROVE TypeOK'
  BY <1>4, FetchEffect DEF FetchPage, TypeOK, tables, account
<1>5. ASSUME NEW c \in Callers, Write(c) PROVE TypeOK'
  <2>1. run' \in [Callers -> Runs]
    BY <1>5, MovesEffect DEF Write, Pcs
  <2>2. \A o \in Batched(run[c]) : (CHOOSE v \in Versions(run[c], o) : TRUE) \in Stamps
    <3>1. TAKE o \in Batched(run[c])
    <3>2. PICK n \in Batch(run[c]) : n.order = o
      BY <3>1 DEF Batched
    <3>3. n.stamp \in Stamps
      BY <3>2, BatchTyped
    <3>4. QED
      BY <1>5, <3>2, <3>3, OneVersion DEF Write
  <2>3. row' \in [Orders -> Stamps]
    BY <1>5, <2>2 DEF Write, TypeOK
  <2>4. QED
    BY <1>5, <2>1, <2>3 DEF Write, TypeOK, account
<1>6. ASSUME NEW c \in Callers, WriteClashes(c) PROVE TypeOK'
  BY <1>6, FailsEffect DEF WriteClashes, TypeOK, tables, account, Reasons
<1>7. ASSUME NEW c \in Callers, Rebuild(c) PROVE TypeOK'
  <2>1. run' \in [Callers -> Runs]
    BY <1>7, MovesEffect DEF Rebuild, Pcs
  <2>2. QED
    BY <1>7, <2>1 DEF Rebuild, TypeOK, account
<1>8. ASSUME NEW c \in Callers, Save(c) PROVE TypeOK'
  <2>1. run' \in [Callers -> Runs]
    BY <1>8, EndsEffect DEF Save
  <2>2. cursor' \in Stamps
    <3>1. run[c].base \in Stamps
      BY DEF TypeOK, Runs
    <3>2. QED
      BY <1>8, <3>1, BatchTyped DEF Save, Seen
  <2>3. QED
    BY <1>8, <2>1, <2>2 DEF Save, TypeOK, tables
<1>9. ASSUME NEW c \in Callers, RecordFailure(c) PROVE TypeOK'
  <2>1. run' \in [Callers -> Runs]
    BY <1>9, EndsEffect DEF RecordFailure
  <2>2. run[c].reason \in Reasons
    BY DEF TypeOK, Runs
  <2>3. QED
    BY <1>9, <2>1, <2>2 DEF RecordFailure, TypeOK, tables
<1>10. ASSUME NEW c \in Callers, FetchFails(c) PROVE TypeOK'
  BY <1>10, <1>f, FailsEffect DEF FetchFails, TypeOK, tables, account, Reasons
<1>11. ASSUME NEW c \in Callers, Refreshed(c) PROVE TypeOK'
  BY <1>11, <1>f, RefreshedEffect DEF Refreshed, TypeOK, tables, account
<1>12. ASSUME NEW c \in Callers, DatabaseFails(c) PROVE TypeOK'
  BY <1>12, <1>f, FailsEffect DEF DatabaseFails, TypeOK, tables, account, Reasons
<1>13. ASSUME NEW c \in Callers, RecordingFails(c) PROVE TypeOK'
  <2>1. run' \in [Callers -> Runs]
    BY <1>13, EndsEffect, FailsEffect DEF RecordingFails, Reasons
  <2>2. QED
    BY <1>13, <1>f, <2>1 DEF RecordingFails, TypeOK, tables, account
<1>14. ASSUME NEW c \in Callers, Crash(c) PROVE TypeOK'
  BY <1>14, <1>f, EndsEffect DEF Crash, TypeOK, Checks, tables, account
<1>15. ASSUME NEW c \in Callers, CheckStorage(c) PROVE TypeOK'
  BY <1>15 DEF CheckStorage, TypeOK, Checks, tables, account
<1>16. ASSUME NEW c \in Callers, RebuildRefused(c) PROVE TypeOK'
  BY <1>16, FailsEffect DEF RebuildRefused, TypeOK, tables, account, Reasons
<1>17. ASSUME NEW c \in Callers, StorageFails(c) PROVE TypeOK'
  BY <1>17, <1>f DEF StorageFails, TypeOK, Checks, tables, account
<1>18. CASE UNCHANGED vars
  BY <1>18 DEF vars, TypeOK
<1>19. QED
  BY <1>1, <1>2, <1>3, <1>4, <1>5, <1>6, <1>7, <1>8, <1>9, <1>10, <1>11, <1>12, <1>13, <1>14,
     <1>15, <1>16, <1>17, <1>18 DEF Next, Step, FaultStep

\* However many callers there are, none reads past the cap.
LEMMA PagesStep == TypeOK /\ PagesInv /\ [Next]_vars => PagesInv'
<1> SUFFICES ASSUME TypeOK, PagesInv, [Next]_vars, NEW d \in Callers, run'[d].pc = "fetching"
             PROVE  run'[d].pages < MaxPages
  BY DEF PagesInv, At
<1>1. CASE run'[d] = run[d]
  BY <1>1 DEF PagesInv, At
<1>2. CASE Start(d) \/ Refreshed(d)
  <2>1. ASSUME Start(d) PROVE run'[d].pages = 0
    BY <2>1, StartEffect DEF Idle
  <2>2. ASSUME Refreshed(d) PROVE run'[d].pages = 0
    BY <2>2, RefreshedEffect DEF Idle
  <2>3. run'[d].pages = 0
    BY <1>2, <2>1, <2>2
  <2>4. QED
    BY <2>3, BoundsAssumption
<1>3. CASE FetchPage(d)
  BY <1>3, FetchEffect
<1>4. CASE Write(d) \/ Rebuild(d)
  BY <1>4, MovesEffect, BatchTyped DEF Write, Rebuild, Pcs, Runs
<1>5. CASE Save(d) \/ RecordFailure(d) \/ Crash(d)
  BY <1>5, EndsEffect DEF Save, RecordFailure, Crash, Idle
<1>6. CASE WriteClashes(d) \/ RebuildRefused(d) \/ FetchFails(d) \/ DatabaseFails(d)
  <2>1. PICK reason \in Reasons : Fails(d, reason)
    BY <1>6 DEF WriteClashes, RebuildRefused, FetchFails, DatabaseFails, Reasons
  <2>2. QED
    BY <2>1, FailsEffect, BatchTyped DEF Runs
<1>7. CASE RecordingFails(d)
  <2>1. CASE Ends(d)
    BY <2>1, EndsEffect DEF Idle
  <2>2. CASE Fails(d, "internal")
    BY <2>2, FailsEffect, BatchTyped DEF Runs, Reasons
  <2>3. QED
    BY <1>7, <2>1, <2>2 DEF RecordingFails
<1>8. ASSUME NEW c \in Callers, c # d, Step(c) PROVE run'[d] = run[d]
  BY <1>8 DEF TypeOK, Step, Start, FetchPage, Write, WriteClashes, CheckStorage, Rebuild,
     RebuildRefused, Save, RecordFailure, Moves, Ends, Fails
<1>9. ASSUME NEW c \in Callers, c # d, FaultStep(c) PROVE run'[d] = run[d]
  BY <1>9 DEF TypeOK, FaultStep, FetchFails, Refreshed, DatabaseFails, StorageFails,
     RecordingFails, Crash, Moves, Ends, Fails
<1>10. CASE (\E o \in Orders : Change(o)) \/ Reconnect \/ UNCHANGED vars
            \/ CheckStorage(d) \/ StorageFails(d)
  BY <1>1, <1>10 DEF Change, Reconnect, CheckStorage, StorageFails, vars
<1>11. QED
  BY <1>1, <1>2, <1>3, <1>4, <1>5, <1>6, <1>7, <1>8, <1>9, <1>10 DEF Next, Step, FaultStep

-----------------------------------------------------------------------------
(* Steps that touch neither the tables nor the store                        *)

known == <<stamp, row, items, cursor>>

LEMMA SameRuns ==
    ASSUME SyncInv, TypeOK', UNCHANGED known, UNCHANGED run
    PROVE  SyncInv'
<1>1. PagesInv' /\ TablesInv' /\ ReadInv' /\ WrittenInv' /\ NothingSkipped'
  BY DEF SyncInv, known, PagesInv, TablesInv, ReadInv, WrittenInv, NothingSkipped, At, Running
<1>2. CompleteInv'
  BY DEF SyncInv, known, CompleteInv, At, Running, Current
<1>3. QED
  BY <1>1, <1>2 DEF SyncInv

\* A run that goes on with what it has read, to report a failure.
LEMMA KeptRun ==
    ASSUME OneCaller, SyncInv, TypeOK', UNCHANGED known, NEW c \in Callers, Running(c),
           run'[c].base = run[c].base, run'[c].after = run[c].after,
           run'[c].got = run[c].got, run'[c].pc = "failing"
    PROVE  SyncInv'
<1>1. \A d \in Callers : d = c
  BY DEF OneCaller
<1>2. PagesInv' /\ TablesInv' /\ NothingSkipped'
  BY <1>1 DEF SyncInv, known, PagesInv, TablesInv, NothingSkipped, At
<1>3. ReadInv'
  BY <1>1 DEF SyncInv, known, ReadInv
<1>4. CompleteInv'
  BY <1>1 DEF SyncInv, known, CompleteInv, Current
<1>5. WrittenInv'
  BY <1>1 DEF WrittenInv, At
<1>6. QED
  BY <1>2, <1>3, <1>4, <1>5 DEF SyncInv

\* A run that is over knows nothing.
LEMMA EndedRun ==
    ASSUME OneCaller, SyncInv, TypeOK', UNCHANGED known, NEW c \in Callers, run'[c] = Idle
    PROVE  SyncInv'
<1>1. \A d \in Callers : d = c
  BY DEF OneCaller
<1>2. run'[c].pc = "idle"
  BY DEF Idle
<1>3. TablesInv' /\ NothingSkipped'
  BY DEF SyncInv, known, TablesInv, NothingSkipped
<1>4. PagesInv' /\ ReadInv' /\ CompleteInv' /\ WrittenInv'
  BY <1>1, <1>2 DEF PagesInv, ReadInv, CompleteInv, WrittenInv, Running, At
<1>5. QED
  BY <1>3, <1>4 DEF SyncInv

\* A run that has just begun has read nothing, and nothing lies behind it.
LEMMA BegunRun ==
    ASSUME OneCaller, SyncInv, TypeOK', UNCHANGED known, NEW c \in Callers,
           run'[c].base = cursor, run'[c].after = <<0, 0>>, run'[c].got = {},
           run'[c].pages = 0, run'[c].pc = "fetching"
    PROVE  SyncInv'
<1>1. \A d \in Callers : d = c
  BY DEF OneCaller
<1>2. TablesInv' /\ NothingSkipped'
  BY DEF SyncInv, known, TablesInv, NothingSkipped
<1>3. PagesInv'
  BY <1>1, BoundsAssumption DEF PagesInv, At
<1>4. ReadInv' /\ WrittenInv'
  BY <1>1 DEF ReadInv, WrittenInv, Running, At, known
<1>5. CompleteInv'
  <2>1. \A o \in Orders : stamp[o] # 0 => Before(<<0, 0>>, <<stamp[o], o>>)
    BY StampsAreNat DEF SyncInv, TypeOK, Before
  <2>2. \A o \in Orders : Place(Current(o))' = <<stamp[o], o>>
    BY DEF Place, Current, known
  <2>3. \A o \in Orders : stamp'[o] # 0 => Before(run'[c].after, Place(Current(o))')
    BY <2>1, <2>2 DEF known
  <2>4. QED
    BY <1>1, <2>3 DEF CompleteInv, Before
<1>6. QED
  BY <1>2, <1>3, <1>4, <1>5 DEF SyncInv

-----------------------------------------------------------------------------
(* An order changes                                                         *)

LEMMA ChangeStep ==
    ASSUME SyncInv, TypeOK', NEW o \in Orders, Change(o)
    PROVE  SyncInv'
<1> DEFINE Past(c, n) == ~Before(run[c].after, Place(n))
<1>1. PICK now \in Stamps \ {0} :
        /\ \A p \in Orders : stamp[p] <= now
        /\ \A c \in Callers : run[c].after[1] < now
        /\ stamp[o] < now
        /\ stamp' = [stamp EXCEPT ![o] = now]
  BY DEF Change
<1>2. UNCHANGED <<row, items, cursor, run>>
  BY DEF Change, tables, account
<1>3. /\ \A p \in Orders : /\ stamp[p] \in Nat /\ row[p] \in Nat /\ items[p] \in Nat
                           /\ stamp[p] <= stamp'[p] /\ stamp'[p] \in Nat
      /\ stamp'[o] = now /\ now \in Nat /\ cursor \in Nat
      /\ \A p \in Orders \ {o} : stamp'[p] = stamp[p]
  BY <1>1, StampsAreNat DEF SyncInv, TypeOK
<1>4. PagesInv' /\ WrittenInv'
  BY <1>2 DEF SyncInv, PagesInv, WrittenInv, At
<1>5. TablesInv'
  <2>1. \A p \in Orders : items'[p] <= row'[p] /\ row'[p] <= stamp'[p]
    BY <1>2, <1>3 DEF SyncInv, TablesInv
  <2>2. cursor' # 0 => \E p \in Orders : cursor' <= stamp'[p]
    BY <1>2, <1>3 DEF SyncInv, TablesInv
  <2>3. QED
    BY <2>1, <2>2 DEF TablesInv
<1>6. ReadInv'
  <2> SUFFICES ASSUME NEW c \in Callers, Running(c),
                      NEW n \in run[c].got
               PROVE  /\ n.stamp # 0 /\ cursor <= n.stamp
                      /\ row[n.order] <= n.stamp /\ n.stamp <= stamp'[n.order]
                      /\ ~Before(run[c].after, Place(n))
    BY <1>2 DEF SyncInv, ReadInv, Running, At
  <2>1. n.order \in Orders /\ n.stamp \in Nat
    BY BatchTyped, StampsAreNat DEF SyncInv
  <2>2. /\ n.stamp # 0 /\ cursor <= n.stamp
        /\ row[n.order] <= n.stamp /\ n.stamp <= stamp[n.order]
        /\ ~Before(run[c].after, Place(n))
    BY DEF SyncInv, ReadInv
  <2>3. QED
    BY <1>3, <2>1, <2>2
<1>7. CompleteInv'
  <2> SUFFICES ASSUME NEW c \in Callers, Running(c), NEW p \in Orders,
                      stamp'[p] # 0, cursor <= stamp'[p],
                      ~Before(run[c].after, Place(Current(p)'))
               PROVE  Current(p)' \in run[c].got
    BY <1>2 DEF CompleteInv, Running, At, Before, Place
  <2>1. p # o
    <3>1. Place(Current(o)') = <<now, o>>
      BY <1>3 DEF Place, Current
    <3>2. Before(run[c].after, <<now, o>>)
      BY <1>1 DEF Before
    <3>3. QED
      BY <3>1, <3>2
  <2>2. Current(p)' = Current(p) /\ stamp'[p] = stamp[p]
    BY <1>3, <2>1 DEF Current
  <2>3. QED
    BY <2>2 DEF SyncInv, CompleteInv
<1>8. NothingSkipped'
  <2> SUFFICES ASSUME NEW p \in Orders \ Skipped, stamp'[p] # 0, stamp'[p] < cursor
               PROVE  row[p] = stamp'[p] /\ items[p] = stamp'[p]
    BY <1>2 DEF NothingSkipped
  <2>1. p # o
    <3>1. cursor <= now \/ cursor = 0
      BY <1>1, <1>3 DEF SyncInv, TablesInv
    <3>2. QED
      BY <1>3, <3>1
  <2>2. QED
    BY <1>3, <2>1 DEF SyncInv, NothingSkipped
<1>9. QED
  BY <1>4, <1>5, <1>6, <1>7, <1>8 DEF SyncInv

-----------------------------------------------------------------------------
(* A page is read                                                           *)

\* The places are in one line.
LEMMA BeforeOrder ==
    ASSUME NEW p \in Nat \X Nat, NEW q \in Nat \X Nat, NEW t \in Nat \X Nat
    PROVE  /\ Before(p, q) \/ p = q \/ Before(q, p)
           /\ Before(p, q) => ~Before(q, p) /\ p # q
           /\ Before(p, q) /\ Before(q, t) => Before(p, t)
<1>1. /\ p[1] \in Nat /\ p[2] \in Nat /\ q[1] \in Nat /\ q[2] \in Nat
      /\ t[1] \in Nat /\ t[2] \in Nat /\ p = <<p[1], p[2]>> /\ q = <<q[1], q[2]>>
  OBVIOUS
<1>2. Before(p, q) \/ p = q \/ Before(q, p)
  BY <1>1 DEF Before
<1>3. Before(p, q) => ~Before(q, p) /\ p # q
  BY <1>1 DEF Before
<1>4. Before(p, q) /\ Before(q, t) => Before(p, t)
  BY <1>1 DEF Before
<1>5. QED
  BY <1>2, <1>3, <1>4

LEMMA PlacesAreNat ==
    /\ \A p \in Places : p \in Nat \X Nat
    /\ \A n \in Nodes : Place(n) \in Nat \X Nat
<1>1. \A p \in Places : p \in Nat \X Nat
  BY StampsAreNat DEF Places
<1>2. \A n \in Nodes : Place(n) \in Nat \X Nat
  BY StampsAreNat, OrdersAssumption DEF Nodes, Place
<1>3. QED
  BY <1>1, <1>2

LEMMA FetchStep ==
    ASSUME OneCaller, SyncInv, TypeOK', NEW c \in Callers, FetchPage(c)
    PROVE  SyncInv'
<1> DEFINE r == run[c]
           s == run'[c]
<1>1. \A d \in Callers : d = c
  BY DEF OneCaller
<1>2. UNCHANGED known /\ Running(c) /\ r.pc = "fetching"
  BY DEF FetchPage, tables, account, known, Running, At
<1>3. /\ s.pc = "fetching" => s.pages < MaxPages
      /\ s.pc \in {"writing", "fetching"}
      /\ s.base = r.base
  BY FetchEffect DEF SyncInv
<1>4. PICK page \in SUBSET Rest(r) :
        /\ s.got = r.got \cup page
        /\ \A n \in page, m \in Rest(r) \ page : Before(Place(n), Place(m))
        /\ Continues(r, page, s.after)
  BY FetchEffect DEF SyncInv
<1>5. r \in Runs /\ s \in Runs /\ r.got \subseteq Nodes
  BY DEF SyncInv, TypeOK, Runs
<1>6. r.after \in Nat \X Nat /\ s.after \in Nat \X Nat
  BY <1>5, PlacesAreNat DEF Runs
<1>7. \A n \in Rest(r) : /\ n \in Nodes /\ n.stamp = stamp[n.order] /\ n.stamp # 0
                         /\ n.stamp >= cursor /\ Before(r.after, Place(n))
                         /\ Place(n) \in Nat \X Nat
  BY <1>2, PlacesAreNat DEF Rest, SyncInv, ReadInv
\* The run has moved on, and what it has passed is on the page or before it.
<1>8. ~Before(s.after, r.after)
  <2>1. CASE page = {}
    BY <1>4, <1>6, <2>1, BeforeOrder DEF Continues
  <2>2. CASE page # {}
    <3>1. PICK n \in page : s.after = Place(n)
      BY <1>4, <2>2 DEF Continues, IsEnd
    <3>2. QED
      BY <1>4, <1>6, <1>7, <3>1, BeforeOrder
  <2>3. QED
    BY <2>1, <2>2
<1>9. \A n \in page : ~Before(s.after, Place(n))
  BY <1>4 DEF Continues, IsEnd
<1>10. \A m \in Rest(r) : ~Before(s.after, Place(m)) => m \in page
  <2> SUFFICES ASSUME NEW m \in Rest(r), m \notin page
               PROVE  Before(s.after, Place(m))
    OBVIOUS
  <2>1. CASE page = {}
    BY <1>4, <1>7, <2>1 DEF Continues
  <2>2. CASE page # {}
    <3>1. PICK n \in page : s.after = Place(n)
      BY <1>4, <2>2 DEF Continues, IsEnd
    <3>2. QED
      BY <1>4, <3>1
  <2>3. QED
    BY <2>1, <2>2
<1>11. TablesInv' /\ NothingSkipped'
  BY <1>2 DEF SyncInv, known, TablesInv, NothingSkipped
<1>12. PagesInv'
  BY <1>1, <1>3 DEF PagesInv, At
<1>13. WrittenInv'
  BY <1>1, <1>3 DEF WrittenInv, At
<1>14. ReadInv'
  <2>1. s.base = cursor
    BY <1>2, <1>3 DEF SyncInv, ReadInv
  <2>2. ASSUME NEW n \in s.got
        PROVE  /\ n.stamp # 0 /\ cursor <= n.stamp
               /\ row[n.order] <= n.stamp /\ n.stamp <= stamp[n.order]
               /\ ~Before(s.after, Place(n))
    <3>1. CASE n \in r.got
      <4>1. /\ n.stamp # 0 /\ cursor <= n.stamp
            /\ row[n.order] <= n.stamp /\ n.stamp <= stamp[n.order]
            /\ ~Before(r.after, Place(n))
        BY <1>2, <3>1 DEF SyncInv, ReadInv
      <4>2. Place(n) \in Nat \X Nat
        BY <1>5, <3>1, PlacesAreNat
      <4>3. ~Before(s.after, Place(n))
        BY <1>6, <1>8, <4>1, <4>2, BeforeOrder
      <4>4. QED
        BY <4>1, <4>3
    <3>2. CASE n \in page
      <4>1. n \in Rest(r)
        BY <3>2
      <4>2. n.order \in Orders /\ n.stamp = stamp[n.order] /\ n.stamp # 0 /\ n.stamp >= cursor
        BY <1>7, <4>1 DEF Nodes
      <4>3. n.stamp \in Nat /\ cursor \in Nat
        BY <1>7, <4>1, StampsAreNat DEF Nodes, SyncInv, TypeOK
      <4>4. row[n.order] <= n.stamp
        BY <4>2 DEF SyncInv, TablesInv
      <4>5. QED
        BY <1>9, <3>2, <4>2, <4>3, <4>4
    <3>3. QED
      BY <1>4, <3>1, <3>2
  <2>3. QED
    BY <1>1, <1>2, <2>1, <2>2 DEF ReadInv, known
<1>15. CompleteInv'
  <2> SUFFICES ASSUME NEW o \in Orders, stamp[o] # 0, cursor <= stamp[o],
                      ~Before(s.after, Place(Current(o)))
               PROVE  Current(o) \in s.got
    <3>1. \A o \in Orders : Current(o)' = Current(o)
      BY <1>2 DEF known, Current
    <3>2. QED
      BY <1>1, <1>2, <3>1 DEF CompleteInv, known, Place, Before
  <2>1. Current(o) \in Nodes /\ Current(o).stamp = stamp[o] /\ Current(o).order = o
    BY DEF SyncInv, TypeOK, Nodes, Current
  <2>2. CASE Before(r.after, Place(Current(o)))
    <3>1. stamp[o] \in Nat /\ cursor \in Nat /\ r.base = cursor
      BY <1>2, StampsAreNat DEF SyncInv, TypeOK, ReadInv
    <3>2. Current(o) \in Rest(r)
      BY <2>1, <2>2, <3>1 DEF Rest
    <3>3. QED
      BY <1>4, <1>10, <3>2
  <2>3. CASE ~Before(r.after, Place(Current(o)))
    <3>1. Current(o) \in r.got
      BY <1>2, <2>3 DEF SyncInv, CompleteInv
    <3>2. QED
      BY <1>4, <3>1
  <2>4. QED
    BY <2>2, <2>3
<1>16. QED
  BY <1>11, <1>12, <1>13, <1>14, <1>15 DEF SyncInv

-----------------------------------------------------------------------------
(* The batch is stored                                                      *)

\* A run that goes on with what it has read.
LEMMA ReadKept ==
    ASSUME OneCaller, SyncInv, TypeOK', NEW c \in Callers, Running(c),
           UNCHANGED <<stamp, cursor>>,
           run'[c].base = run[c].base, run'[c].after = run[c].after,
           run'[c].got = run[c].got, run'[c].pc # "fetching",
           \A n \in run[c].got : row'[n.order] <= n.stamp
    PROVE  PagesInv' /\ ReadInv' /\ CompleteInv'
<1>1. \A d \in Callers : d = c
  BY DEF OneCaller
<1>2. PagesInv'
  BY <1>1 DEF PagesInv, At
<1>3. ReadInv'
  BY <1>1 DEF SyncInv, ReadInv
<1>4. CompleteInv'
  BY <1>1 DEF SyncInv, CompleteInv, Current
<1>5. QED
  BY <1>2, <1>3, <1>4

LEMMA WriteStep ==
    ASSUME OneCaller, SyncInv, TypeOK', NEW c \in Callers, Write(c)
    PROVE  SyncInv'
<1> DEFINE r == run[c]
<1>1. \A d \in Callers : d = c
  BY DEF OneCaller
<1>2. /\ run'[c] = [r EXCEPT !.pc = "rebuilding"] /\ ~Clash(r) /\ Running(c)
      /\ UNCHANGED <<stamp, items, cursor>>
  BY MovesEffect DEF SyncInv, Write, account, Running, At, Pcs
<1>3. /\ run'[c].pc = "rebuilding" /\ run'[c].base = r.base /\ run'[c].after = r.after
      /\ run'[c].got = r.got
  BY <1>2, BatchTyped DEF SyncInv, Runs
<1>4. \A n \in Batch(r) : row'[n.order] = n.stamp
  BY <1>2, BatchTyped, OneVersion DEF SyncInv, Write
<1>5. \A o \in Orders : o \notin Batched(r) => row'[o] = row[o]
  BY DEF Write
<1>6. \A o \in Orders : /\ row[o] <= row'[o] /\ row'[o] <= stamp[o]
                        /\ row[o] \in Nat /\ row'[o] \in Nat /\ items[o] \in Nat
  <2> SUFFICES ASSUME NEW o \in Orders
               PROVE  /\ row[o] <= row'[o] /\ row'[o] <= stamp[o]
                      /\ row[o] \in Nat /\ row'[o] \in Nat /\ items[o] \in Nat
    OBVIOUS
  <2>1. row[o] \in Nat /\ row'[o] \in Nat /\ items[o] \in Nat
    BY StampsAreNat DEF SyncInv, TypeOK
  <2>2. CASE o \in Batched(r)
    <3>1. PICK n \in Batch(r) : n.order = o
      BY <2>2 DEF Batched
    <3>2. row[o] <= n.stamp /\ n.stamp <= stamp[o]
      BY <1>2, <3>1, BatchTyped DEF SyncInv, ReadInv
    <3>3. QED
      BY <1>4, <2>1, <3>1, <3>2
  <2>3. CASE o \notin Batched(r)
    BY <1>5, <2>1, <2>3 DEF SyncInv, TablesInv
  <2>4. QED
    BY <2>2, <2>3
<1>7. TablesInv'
  BY <1>2, <1>6 DEF SyncInv, TablesInv
<1>8. \A n \in r.got : row'[n.order] <= n.stamp
  <2> SUFFICES ASSUME NEW n \in r.got PROVE row'[n.order] <= n.stamp
    OBVIOUS
  <2>1. n.order \in Orders /\ n.stamp \in Nat /\ row[n.order] <= n.stamp
    BY <1>2, BatchTyped, StampsAreNat DEF SyncInv, ReadInv
  <2>2. CASE n \in Batch(r)
    BY <1>4, <1>6, <2>1, <2>2
  <2>3. CASE n \notin Batch(r)
    <3>1. n.order \in Skipped
      BY <2>3 DEF Batch
    <3>2. n.order \notin Batched(r)
      BY <3>1 DEF Batched, Batch
    <3>3. QED
      BY <1>5, <2>1, <3>2
  <2>4. QED
    BY <2>2, <2>3
<1>9. PagesInv' /\ ReadInv' /\ CompleteInv'
  BY <1>2, <1>3, <1>8, ReadKept
<1>10. WrittenInv'
  BY <1>1, <1>3, <1>4 DEF WrittenInv, At, Batch
<1>11. NothingSkipped'
  <2> SUFFICES ASSUME NEW o \in Orders \ Skipped, stamp[o] # 0, stamp[o] < cursor
               PROVE  row'[o] = stamp[o] /\ items[o] = stamp[o]
    BY <1>2 DEF NothingSkipped
  <2>1. row[o] = stamp[o] /\ items[o] = stamp[o]
    BY DEF SyncInv, NothingSkipped
  <2>2. stamp[o] \in Nat
    BY StampsAreNat DEF SyncInv, TypeOK
  <2>3. QED
    BY <1>6, <2>1, <2>2
<1>12. QED
  BY <1>7, <1>9, <1>10, <1>11 DEF SyncInv

LEMMA RebuildStep ==
    ASSUME OneCaller, SyncInv, TypeOK', NEW c \in Callers, Rebuild(c)
    PROVE  SyncInv'
<1> DEFINE r == run[c]
<1>1. \A d \in Callers : d = c
  BY DEF OneCaller
<1>2. /\ run'[c] = [r EXCEPT !.pc = "saving"] /\ Running(c)
      /\ UNCHANGED <<stamp, row, cursor>>
  BY MovesEffect DEF SyncInv, Rebuild, account, Running, At, Pcs
<1>3. /\ run'[c].pc = "saving" /\ run'[c].base = r.base /\ run'[c].after = r.after
      /\ run'[c].got = r.got
  BY <1>2, BatchTyped DEF SyncInv, Runs
<1>4. \A o \in Orders : items'[o] = row[o] \/ (items'[o] = items[o] /\ o \notin Batched(r))
  BY DEF Rebuild
<1>5. \A o \in Orders : row[o] \in Nat /\ items[o] \in Nat
  BY StampsAreNat DEF SyncInv, TypeOK
<1>6. TablesInv'
  BY <1>2, <1>4, <1>5 DEF SyncInv, TablesInv
<1>7. \A n \in r.got : row'[n.order] <= n.stamp
  BY <1>2 DEF SyncInv, ReadInv
<1>8. PagesInv' /\ ReadInv' /\ CompleteInv'
  BY <1>2, <1>3, <1>7, ReadKept
<1>9. \A n \in Batch(r) : row[n.order] = n.stamp /\ items'[n.order] = row[n.order]
  <2>1. \A n \in Batch(r) : n.order \in Orders /\ n.order \in Batched(r)
    BY BatchTyped DEF SyncInv, Batched
  <2>2. QED
    BY <2>1 DEF SyncInv, WrittenInv, Rebuild
<1>10. WrittenInv'
  BY <1>1, <1>2, <1>3, <1>9 DEF WrittenInv, Batch
<1>11. NothingSkipped'
  BY <1>2, <1>4 DEF SyncInv, NothingSkipped
<1>12. QED
  BY <1>6, <1>8, <1>10, <1>11 DEF SyncInv

-----------------------------------------------------------------------------
(* The cursor moves                                                         *)

LEMMA SaveStep ==
    ASSUME OneCaller, SyncInv, TypeOK', NEW c \in Callers, Save(c)
    PROVE  SyncInv'
<1> DEFINE r == run[c]
<1>1. \A d \in Callers : d = c
  BY DEF OneCaller
<1>2. /\ run'[c] = Idle /\ Running(c) /\ r.pc = "saving"
      /\ UNCHANGED <<stamp, row, items>>
      /\ cursor' \in Seen(r) \cup {r.base}
  BY EndsEffect DEF SyncInv, Save, tables, Running, At
<1>3. PagesInv' /\ ReadInv' /\ CompleteInv' /\ WrittenInv'
  BY <1>1, <1>2 DEF PagesInv, ReadInv, CompleteInv, WrittenInv, Running, At, Idle
<1>4. cursor' = cursor \/ \E n \in r.got : cursor' = n.stamp
  BY <1>2 DEF SyncInv, ReadInv, Seen
<1>5. TablesInv'
  <2>1. ASSUME NEW n \in r.got PROVE n.order \in Orders /\ n.stamp <= stamp[n.order]
    BY <1>2, BatchTyped DEF SyncInv, ReadInv
  <2>2. cursor' # 0 => \E o \in Orders : cursor' <= stamp[o]
    BY <1>4, <2>1 DEF SyncInv, TablesInv
  <2>3. QED
    BY <1>2, <2>2 DEF SyncInv, TablesInv
<1>6. NothingSkipped'
  <2> SUFFICES ASSUME NEW o \in Orders \ Skipped, stamp[o] # 0, stamp[o] < cursor'
               PROVE  row[o] = stamp[o] /\ items[o] = stamp[o]
    BY <1>2 DEF NothingSkipped
  <2>1. stamp[o] \in Nat /\ cursor \in Nat /\ cursor' \in Nat
    BY StampsAreNat DEF SyncInv, TypeOK
  <2>2. CASE stamp[o] < cursor
    BY <2>2 DEF SyncInv, NothingSkipped
  <2>3. CASE cursor <= stamp[o]
    <3>1. PICK n \in r.got : cursor' = n.stamp
      BY <1>4, <2>1, <2>3
    <3>2. ~Before(r.after, Place(n)) /\ n \in Nodes /\ r.after \in Nat \X Nat
      BY <1>2, <3>1, BatchTyped, PlacesAreNat DEF SyncInv, ReadInv, Runs
    <3>3. Before(Place(Current(o)), Place(n))
      BY <3>1 DEF Before, Place, Current
    <3>4. Place(Current(o)) \in Nat \X Nat /\ Place(n) \in Nat \X Nat
      BY <2>1, <3>2, OrdersAssumption, PlacesAreNat DEF Place, Current
    <3>5. ~Before(r.after, Place(Current(o)))
      BY <3>2, <3>3, <3>4, BeforeOrder
    <3>6. Current(o) \in r.got
      BY <1>2, <2>3, <3>5 DEF SyncInv, CompleteInv
    <3>7. Current(o) \in Batch(r) /\ Current(o).order = o /\ Current(o).stamp = stamp[o]
      BY <3>6 DEF Batch, Current
    <3>8. QED
      BY <1>2, <3>7 DEF SyncInv, WrittenInv, At
  <2>4. QED
    BY <2>1, <2>2, <2>3
<1>7. QED
  BY <1>3, <1>5, <1>6 DEF SyncInv

-----------------------------------------------------------------------------
(* Every step                                                               *)

LEMMA InvInit == Init => SyncInv
<1> SUFFICES ASSUME Init PROVE SyncInv
  OBVIOUS
<1>1. TypeOK
  BY IdleTyped, BoundsAssumption DEF Init, TypeOK, Stamps, Checks
<1>2. \A c \in Callers : run[c].pc = "idle"
  BY DEF Init, Idle
<1>3. PagesInv /\ ReadInv /\ CompleteInv /\ WrittenInv
  BY <1>2 DEF PagesInv, ReadInv, CompleteInv, WrittenInv, Running, At
<1>4. TablesInv /\ NothingSkipped
  BY DEF Init, TablesInv, NothingSkipped
<1>5. QED
  BY <1>1, <1>3, <1>4 DEF SyncInv

LEMMA InvStep == OneCaller /\ SyncInv /\ [Next]_vars => SyncInv'
<1> SUFFICES ASSUME OneCaller, SyncInv, [Next]_vars PROVE SyncInv'
  OBVIOUS
<1>0. TypeOK'
  BY TypeStep DEF SyncInv
<1>1. ASSUME NEW o \in Orders, Change(o) PROVE SyncInv'
  BY <1>0, <1>1, ChangeStep
<1>2. CASE Reconnect
  BY <1>0, <1>2, SameRuns DEF Reconnect, tables, known
<1>3. ASSUME NEW c \in Callers, Start(c) PROVE SyncInv'
  <2>1. run'[c] = [Idle EXCEPT !.pc = "fetching", !.base = cursor]
    BY <1>3, StartEffect DEF SyncInv
  <2>2. UNCHANGED known
    BY <1>3 DEF Start, tables, account, known
  <2>3. QED
    BY <1>0, <2>1, <2>2, BegunRun DEF Idle
<1>4. ASSUME NEW c \in Callers, FetchPage(c) PROVE SyncInv'
  BY <1>0, <1>4, FetchStep
<1>5. ASSUME NEW c \in Callers, Write(c) PROVE SyncInv'
  BY <1>0, <1>5, WriteStep
<1>6. ASSUME NEW c \in Callers, WriteClashes(c) \/ RebuildRefused(c) PROVE SyncInv'
  <2>1. /\ run'[c] = [run[c] EXCEPT !.pc = "failing", !.reason = "internal"]
        /\ UNCHANGED known /\ Running(c)
    BY <1>6, FailsEffect DEF SyncInv, WriteClashes, RebuildRefused, tables, account, known,
       Running, At, Reasons
  <2>2. QED
    BY <1>0, <2>1, BatchTyped, KeptRun DEF SyncInv, Runs
<1>7. ASSUME NEW c \in Callers, Rebuild(c) PROVE SyncInv'
  BY <1>0, <1>7, RebuildStep
<1>8. ASSUME NEW c \in Callers, Save(c) PROVE SyncInv'
  BY <1>0, <1>8, SaveStep
<1>9. ASSUME NEW c \in Callers, RecordFailure(c) \/ Crash(c) PROVE SyncInv'
  <2>1. run'[c] = Idle /\ UNCHANGED known
    BY <1>9, EndsEffect DEF SyncInv, RecordFailure, Crash, tables, account, known
  <2>2. QED
    BY <1>0, <2>1, EndedRun
<1>10. ASSUME NEW c \in Callers, FetchFails(c) PROVE SyncInv'
  <2>1. PICK reason \in {"network", "auth"} : Fails(c, reason)
    BY <1>10 DEF FetchFails
  <2>2. /\ run'[c] = [run[c] EXCEPT !.pc = "failing", !.reason = reason]
        /\ UNCHANGED known /\ Running(c)
    BY <1>10, <2>1, FailsEffect DEF SyncInv, FetchFails, tables, account, known, Running, At,
       Reasons
  <2>3. QED
    BY <1>0, <2>2, BatchTyped, KeptRun DEF SyncInv, Runs
<1>11. ASSUME NEW c \in Callers, Refreshed(c) PROVE SyncInv'
  <2>1. run'[c] = [Idle EXCEPT !.pc = "fetching", !.base = run[c].base, !.fresh = TRUE]
    BY <1>11, RefreshedEffect DEF SyncInv
  <2>2. UNCHANGED known /\ run[c].base = cursor
    BY <1>11 DEF Refreshed, tables, account, known, SyncInv, ReadInv, Running, At
  <2>3. QED
    BY <1>0, <2>1, <2>2, BegunRun DEF Idle
<1>12. ASSUME NEW c \in Callers, DatabaseFails(c) PROVE SyncInv'
  <2>1. /\ run'[c] = [run[c] EXCEPT !.pc = "failing", !.reason = "internal"]
        /\ UNCHANGED known /\ Running(c)
    BY <1>12, FailsEffect DEF SyncInv, DatabaseFails, tables, account, known, Running, At, Reasons
  <2>2. QED
    BY <1>0, <2>1, BatchTyped, KeptRun DEF SyncInv, Runs
<1>13. ASSUME NEW c \in Callers, RecordingFails(c) PROVE SyncInv'
  <2>1. UNCHANGED known /\ Running(c)
    BY <1>13 DEF RecordingFails, tables, account, known, Running, At
  <2>2. CASE Ends(c)
    BY <1>0, <2>1, <2>2, EndsEffect, EndedRun DEF SyncInv
  <2>3. CASE Fails(c, "internal")
    <3>1. run'[c] = [run[c] EXCEPT !.pc = "failing", !.reason = "internal"]
      BY <2>3, FailsEffect DEF SyncInv, Reasons
    <3>2. QED
      BY <1>0, <2>1, <3>1, BatchTyped, KeptRun DEF SyncInv, Runs
  <2>4. QED
    BY <1>13, <2>2, <2>3 DEF RecordingFails
<1>14. ASSUME NEW c \in Callers, CheckStorage(c) \/ StorageFails(c) PROVE SyncInv'
  <2>1. UNCHANGED known /\ UNCHANGED run
    BY <1>14 DEF CheckStorage, StorageFails, tables, account, known
  <2>2. QED
    BY <1>0, <2>1, SameRuns
<1>15. CASE UNCHANGED vars
  BY <1>0, <1>15, SameRuns DEF vars, known
<1>16. QED
  BY <1>1, <1>2, <1>3, <1>4, <1>5, <1>6, <1>7, <1>8, <1>9, <1>10, <1>11, <1>12, <1>13, <1>14,
     <1>15 DEF Next, Step, FaultStep

LEMMA SyncInductive == ASSUME OneCaller PROVE Spec => []SyncInv
<1>1. Init => SyncInv
  BY InvInit
<1>2. SyncInv /\ [Next]_vars => SyncInv'
  BY InvStep
<1>3. QED
  BY <1>1, <1>2, PTL DEF Spec

-----------------------------------------------------------------------------
(* What it implies                                                          *)

\* The tables, the account and the runs keep their types, and no run reads
\* more pages than the cap: with any number of callers.
THEOREM TypeCorrect == Spec => []TypeOK
<1>1. Init => TypeOK /\ PagesInv
  BY InvInit DEF SyncInv
<1>2. TypeOK /\ PagesInv /\ [Next]_vars => (TypeOK /\ PagesInv)'
  BY TypeStep, PagesStep
<1>3. QED
  BY <1>1, <1>2, PTL DEF Spec

\* One run at a time never moves the cursor past a change it has not stored:
\* whatever fails, crashes or changes between two pages, for every page size
\* and cap (syncOneAccount, fetchShopifyOrdersSince).
THEOREM NothingIsSkipped == ASSUME OneCaller PROVE Spec => []NothingSkipped
<1>1. SyncInv => NothingSkipped
  BY DEF SyncInv
<1>2. QED
  BY <1>1, SyncInductive, PTL

\* One run at a time never puts an older version of an order over a newer one,
\* though the upsert overwrites what it finds (upsertNormalizedStoreOrders).
THEOREM VersionsOnlyGrow == ASSUME OneCaller PROVE Spec => NeverOlder
<1> DEFINE Grows == \A o \in Orders : row'[o] >= row[o] /\ items'[o] >= items[o]
<1>1. SyncInv /\ [Next]_vars => [Grows]_vars
  <2> SUFFICES ASSUME SyncInv, Next PROVE Grows
    OBVIOUS
  <2>1. \A o \in Orders : /\ row[o] \in Nat /\ items[o] \in Nat /\ items[o] <= row[o]
    BY StampsAreNat DEF SyncInv, TypeOK, TablesInv
  <2>2. ASSUME NEW c \in Callers, Write(c) PROVE Grows
    <3>1. \A o \in Orders : row'[o] = row[o] \/ o \in Batched(run[c])
      BY <2>2 DEF Write
    <3>2. \A n \in Batch(run[c]) : row'[n.order] = n.stamp /\ row[n.order] <= n.stamp
      BY <2>2, BatchTyped, OneVersion DEF SyncInv, Write, ReadInv, Running, At
    <3>3. \A n \in Batch(run[c]) : n.stamp \in Nat
      BY BatchTyped, StampsAreNat DEF SyncInv
    <3>4. UNCHANGED items
      BY <2>2 DEF Write
    <3>5. QED
      BY <2>1, <3>1, <3>2, <3>3, <3>4 DEF Batched
  <2>3. ASSUME NEW c \in Callers, Rebuild(c) PROVE Grows
    BY <2>1, <2>3 DEF Rebuild
  <2>4. CASE UNCHANGED tables
    BY <2>1, <2>4 DEF tables
  <2>5. QED
    BY <2>2, <2>3, <2>4 DEF Next, Step, FaultStep, Change, Reconnect, Start, FetchPage,
       WriteClashes, CheckStorage, RebuildRefused, Save, RecordFailure, FetchFails, Refreshed,
       DatabaseFails, StorageFails, RecordingFails, Crash
<1>2. QED
  BY <1>1, SyncInductive, PTL DEF Spec, NeverOlder
-----------------------------------------------------------------------------
(* The refinement of StoreMirror: of a run it sees the upsert, the rebuild   *)
(* and the cursor.                                                          *)

mirrored == <<stamp, row, items, cursor>>

LEMMA MirrorInit == Init => Mirror!Init
BY DEF Init, Mirror!Init

LEMMA ChangeMirrored ==
    ASSUME NEW o \in Orders, Change(o)
    PROVE  Mirror!Change(o)
BY DEF Change, Mirror!Change, tables, account

\* The upsert brings the rows of the batch forward, none past the store.
LEMMA WriteMirrored ==
    ASSUME SyncInv, TypeOK', NEW c \in Callers, Write(c)
    PROVE  Mirror!Copy
<1>1. At(c, "writing") /\ Running(c) /\ ~Clash(run[c]) /\ UNCHANGED <<stamp, items, cursor>>
  BY DEF Write, account, Running, At
<1>2. \A o \in Orders : o \notin Batched(run[c]) => row'[o] = row[o]
  BY DEF Write
<1>3. \A o \in Orders : row[o] <= row'[o] /\ row'[o] <= stamp[o]
  <2> SUFFICES ASSUME NEW o \in Orders PROVE row[o] <= row'[o] /\ row'[o] <= stamp[o]
    OBVIOUS
  <2>1. CASE o \in Batched(run[c])
    <3>1. PICK n \in Batch(run[c]) : n.order = o
      BY <2>1 DEF Batched
    <3>2. row'[o] = n.stamp
      BY <1>1, <2>1, <3>1, OneVersion DEF Write
    <3>3. row[o] <= n.stamp /\ n.stamp <= stamp[o]
      BY <1>1, <3>1, BatchTyped DEF SyncInv, ReadInv
    <3>4. QED
      BY <3>2, <3>3
  <2>2. CASE o \notin Batched(run[c])
    BY <1>2, <2>2, StampsAreNat DEF SyncInv, TypeOK, TablesInv
  <2>3. QED
    BY <2>1, <2>2
<1>4. \A o \in Skipped : row'[o] = row[o]
  <2>1. \A o \in Skipped : o \in Orders /\ o \notin Batched(run[c])
    BY OrdersAssumption DEF Batched, Batch
  <2>2. QED
    BY <1>2, <2>1
<1>5. QED
  BY <1>1, <1>3, <1>4 DEF Mirror!Copy, TypeOK

\* The items of the batch are those of its rows, whatever version these have.
LEMMA RebuildMirrored ==
    ASSUME TypeOK, NEW c \in Callers, Rebuild(c)
    PROVE  Mirror!Rebuild
<1>1. Batched(run[c]) \subseteq Orders \ Skipped
  BY BatchTyped DEF Batched, Batch
<1>2. items' = [o \in Orders |-> IF o \in Batched(run[c]) THEN row[o] ELSE items[o]]
  BY DEF Rebuild
<1>3. QED
  BY <1>1, <1>2 DEF Rebuild, account, Mirror!Rebuild, Mirror!Imported

\* The cursor moves on, or the save is not seen: that the tables have what it
\* passes is NothingSkipped after the step.
LEMMA SaveMirrored ==
    ASSUME SyncInv, SyncInv', NEW c \in Callers, Save(c)
    PROVE  Mirror!Pass \/ UNCHANGED mirrored
<1>1. UNCHANGED <<stamp, row, items>>
  BY DEF Save, tables
<1>2. cursor <= cursor'
  BY DEF SyncInv, ReadInv, Save, Running, At
<1>3. cursor \in Nat /\ cursor' \in Nat /\ cursor' \in Stamps
  BY StampsAreNat DEF SyncInv, TypeOK
<1>4. CASE cursor' = cursor
  BY <1>1, <1>4 DEF mirrored
<1>5. CASE cursor < cursor'
  <2>1. \E o \in Orders : cursor' <= stamp'[o]
    BY <1>3, <1>5 DEF SyncInv, TablesInv
  <2>2. Mirror!HasAllBefore(cursor')
    BY <1>1 DEF SyncInv, NothingSkipped, Mirror!HasAllBefore, Mirror!Imported
  <2>3. QED
    BY <1>1, <1>3, <1>5, <2>1, <2>2 DEF Mirror!Pass
<1>6. QED
  BY <1>2, <1>3, <1>4, <1>5

LEMMA MirrorStep == SyncInv /\ SyncInv' /\ [Next]_vars => [Mirror!Next]_mirrored
<1> SUFFICES ASSUME SyncInv, SyncInv', [Next]_vars PROVE Mirror!Next \/ UNCHANGED mirrored
  OBVIOUS
<1>0. TypeOK /\ TypeOK'
  BY DEF SyncInv
<1>1. ASSUME NEW o \in Orders, Change(o) PROVE Mirror!Next
  BY <1>1, ChangeMirrored DEF Mirror!Next
<1>2. ASSUME NEW c \in Callers, Write(c) PROVE Mirror!Next
  BY <1>0, <1>2, WriteMirrored DEF Mirror!Next
<1>3. ASSUME NEW c \in Callers, Rebuild(c) PROVE Mirror!Next
  BY <1>0, <1>3, RebuildMirrored DEF Mirror!Next
<1>4. ASSUME NEW c \in Callers, Save(c) PROVE Mirror!Next \/ UNCHANGED mirrored
  BY <1>4, SaveMirrored DEF Mirror!Next
<1>5. ASSUME NEW c \in Callers,
             \/ Start(c) \/ FetchPage(c) \/ WriteClashes(c) \/ CheckStorage(c)
             \/ RebuildRefused(c) \/ RecordFailure(c) \/ FaultStep(c)
      PROVE  UNCHANGED mirrored
  <2>1. UNCHANGED stamp /\ UNCHANGED tables /\ UNCHANGED account => UNCHANGED mirrored
    BY DEF tables, account, mirrored
  <2>2. UNCHANGED stamp /\ UNCHANGED tables /\ UNCHANGED cursor => UNCHANGED mirrored
    BY DEF tables, mirrored
  <2>3. CASE Start(c)
    BY <2>1, <2>3 DEF Start
  <2>4. CASE FetchPage(c)
    BY <2>1, <2>4 DEF FetchPage
  <2>5. CASE WriteClashes(c) \/ CheckStorage(c) \/ RebuildRefused(c) \/ RecordFailure(c)
    BY <2>1, <2>2, <2>5 DEF WriteClashes, CheckStorage, RebuildRefused, RecordFailure
  <2>6. CASE FaultStep(c)
    BY <2>1, <2>6 DEF FaultStep, FetchFails, Refreshed, DatabaseFails, StorageFails,
       RecordingFails, Crash
  <2>7. QED
    BY <1>5, <2>3, <2>4, <2>5, <2>6
<1>6. CASE Reconnect \/ UNCHANGED vars
  BY <1>6 DEF Reconnect, tables, vars, mirrored
<1>7. QED
  BY <1>1, <1>2, <1>3, <1>4, <1>5, <1>6 DEF Next, Step

\* One run at a time keeps the promise of StoreMirror, whatever the orders, the
\* page size, the cap and the faults (syncOneAccount).
THEOREM StoreMirrorImplemented == ASSUME OneCaller PROVE Spec => ImplementsStoreMirror
<1>1. Init => Mirror!Init
  BY MirrorInit
<1>2. SyncInv /\ SyncInv' /\ [Next]_vars => [Mirror!Next]_mirrored
  BY MirrorStep
<1>3. QED
  BY <1>1, <1>2, SyncInductive, PTL DEF Spec, ImplementsStoreMirror, Mirror!Spec,
     Mirror!mirror, mirrored

-----------------------------------------------------------------------------
(* What the promise is worth: StoreMirror alone implies what the readers of  *)
(* the tables rely on.                                                      *)

MirrorInv ==
    /\ stamp \in [Orders -> Stamps] /\ row \in [Orders -> Stamps]
    /\ items \in [Orders -> Stamps] /\ cursor \in Stamps
    /\ TablesInv
    /\ NothingSkipped

\* An order that changes is not one the cursor has passed.
LEMMA MirrorChangeKeeps ==
    ASSUME MirrorInv, NEW o \in Orders, Mirror!Change(o)
    PROVE  MirrorInv'
<1>1. PICK now \in Stamps :
        /\ stamp[o] < now
        /\ \A p \in Orders : stamp[p] <= now
        /\ stamp' = [stamp EXCEPT ![o] = now]
  BY DEF Mirror!Change
<1>2. UNCHANGED <<row, items, cursor>>
  BY DEF Mirror!Change
<1>3. /\ stamp' \in [Orders -> Stamps]
      /\ stamp'[o] = now /\ \A p \in Orders \ {o} : stamp'[p] = stamp[p]
  BY <1>1 DEF MirrorInv
<1>4. now \in Nat /\ cursor \in Nat /\ \A p \in Orders :
        stamp[p] \in Nat /\ row[p] \in Nat /\ items[p] \in Nat
  BY <1>1, StampsAreNat DEF MirrorInv
<1>5. cursor <= now
  BY <1>1, <1>4 DEF MirrorInv, TablesInv
<1>6. TablesInv'
  <2>1. \A p \in Orders : items[p] <= row[p] /\ row[p] <= stamp'[p]
    BY <1>1, <1>3, <1>4 DEF MirrorInv, TablesInv
  <2>2. QED
    BY <1>2, <1>3, <1>5, <2>1 DEF TablesInv
<1>7. NothingSkipped'
  BY <1>2, <1>3, <1>4, <1>5 DEF MirrorInv, NothingSkipped
<1>8. QED
  BY <1>2, <1>3, <1>6, <1>7 DEF MirrorInv

LEMMA MirrorKeeps == MirrorInv /\ [Mirror!Next]_mirrored => MirrorInv'
<1> SUFFICES ASSUME MirrorInv, [Mirror!Next]_mirrored PROVE MirrorInv'
  OBVIOUS
<1>0. cursor \in Nat /\ \A o \in Orders : stamp[o] \in Nat /\ row[o] \in Nat /\ items[o] \in Nat
  BY StampsAreNat DEF MirrorInv
<1>1. ASSUME NEW o \in Orders, Mirror!Change(o) PROVE MirrorInv'
  BY <1>1, MirrorChangeKeeps
<1>2. CASE Mirror!Copy
  <2>1. /\ row' \in [Orders -> Stamps] /\ UNCHANGED <<stamp, items, cursor>>
        /\ \A o \in Orders : row[o] <= row'[o] /\ row'[o] <= stamp[o] /\ row'[o] \in Nat
    BY <1>2, StampsAreNat DEF Mirror!Copy
  <2>2. TablesInv'
    BY <1>0, <2>1 DEF MirrorInv, TablesInv
  <2>3. NothingSkipped'
    BY <1>0, <2>1 DEF MirrorInv, NothingSkipped
  <2>4. QED
    BY <2>1, <2>2, <2>3 DEF MirrorInv
<1>3. CASE Mirror!Rebuild
  <2>1. /\ UNCHANGED <<stamp, row, cursor>>
        /\ items' \in [Orders -> Stamps]
        /\ \A o \in Orders : items'[o] = row[o] \/ items'[o] = items[o]
    BY <1>3 DEF Mirror!Rebuild, MirrorInv
  <2>2. TablesInv'
    BY <1>0, <2>1 DEF MirrorInv, TablesInv
  <2>3. NothingSkipped'
    BY <2>1 DEF MirrorInv, NothingSkipped
  <2>4. QED
    BY <2>1, <2>2, <2>3 DEF MirrorInv
<1>4. CASE Mirror!Pass
  BY <1>4 DEF Mirror!Pass, Mirror!HasAllBefore, Mirror!Imported, MirrorInv, TablesInv,
     NothingSkipped
<1>5. CASE UNCHANGED mirrored
  BY <1>5 DEF mirrored, MirrorInv, TablesInv, NothingSkipped
<1>6. QED
  BY <1>1, <1>2, <1>3, <1>4, <1>5 DEF Mirror!Next

\* Whoever follows the store as StoreMirror allows skips no change and puts no
\* older version over a newer one.
THEOREM MirrorIsFaithful == ImplementsStoreMirror => []NothingSkipped /\ NeverOlder
<1> DEFINE Grows == \A o \in Orders : row'[o] >= row[o] /\ items'[o] >= items[o]
<1>1. Mirror!Init => MirrorInv
  BY BoundsAssumption DEF Mirror!Init, MirrorInv, TablesInv, NothingSkipped, Stamps
<1>2. MirrorInv /\ [Mirror!Next]_mirrored => MirrorInv'
  BY MirrorKeeps
<1>3. MirrorInv => NothingSkipped
  BY DEF MirrorInv
<1>4. MirrorInv /\ [Mirror!Next]_mirrored => Grows \/ UNCHANGED vars
  <2> SUFFICES ASSUME MirrorInv, [Mirror!Next]_mirrored PROVE Grows
    OBVIOUS
  <2>1. \A o \in Orders : row[o] \in Nat /\ items[o] \in Nat /\ items[o] <= row[o]
    BY StampsAreNat DEF MirrorInv, TablesInv
  <2>2. CASE Mirror!Copy
    <3>1. \A o \in Orders : row'[o] \in Nat
      BY <2>2, StampsAreNat DEF Mirror!Copy
    <3>2. QED
      BY <2>1, <2>2, <3>1 DEF Mirror!Copy
  <2>3. CASE Mirror!Rebuild
    BY <2>1, <2>3 DEF Mirror!Rebuild
  <2>4. CASE UNCHANGED <<row, items>>
    BY <2>1, <2>4
  <2>5. QED
    BY <2>2, <2>3, <2>4 DEF Mirror!Next, Mirror!Change, Mirror!Pass, mirrored
<1>5. QED
  BY <1>1, <1>2, <1>3, <1>4, PTL DEF ImplementsStoreMirror, Mirror!Spec, Mirror!mirror,
     mirrored, NeverOlder
=============================================================================
