-------------------------- MODULE SnapshotStoreProofs --------------------------
(***************************************************************************)
(* Theorems about SnapshotStore for any number of runs, snapshots to keep, *)
(* crashes and clock steps: types, that every snapshot file is whole, and, *)
(* while the clock is steady, what rotation leaves.  Two layers, the first *)
(* inductive by itself, the second given the first:                        *)
(*   Inv      the types, and that a file is synced before it is a snapshot;*)
(*   Rotates  how names, ages, listings and removals relate.               *)
(***************************************************************************)
EXTENDS SnapshotStore, WellFoundedInduction, FiniteSetTheorems, TLAPS

USE DEF Times, Endings

\* A run that is at work has a name for its file.
Named == \A r \in Runs : pc[r] \notin Endings => name[r] \in Times

\* A file is whole before it is synced, and synced before it is renamed, so
\* there is nothing a power failure can take from a snapshot.
Durable ==
  /\ \A r \in DOMAIN temps :
       /\ pc[r] \in {"sync", "rename"} => temps[r].data = "whole"
       /\ pc[r] = "rename" => temps[r].synced
  /\ \A t \in DOMAIN files : files[t].data = "whole" /\ files[t].synced

Inv == TypeOK /\ Named /\ Durable

-----------------------------------------------------------------------------
\* What Without does to a function.
LEMMA WithoutFacts ==
  ASSUME NEW f, NEW k
  PROVE  /\ DOMAIN Without(f, k) = DOMAIN f \ {k}
         /\ \A x \in DOMAIN Without(f, k) : Without(f, k)[x] = f[x]
BY DEF Without

\* The empty function has no files.
LEMMA EmptyFacts == DOMAIN <<>> = {}
OBVIOUS

\* The invariant holds initially.
LEMMA InitInv == Init => Inv
BY EmptyFacts, BoundAssumption DEF Init, Inv, TypeOK, Named, Durable

-----------------------------------------------------------------------------
\* A run starts: it holds no temporary file, and gets a name.
LEMMA BeginInv == ASSUME Inv, NEW r \in Runs, Begin(r) PROVE Inv'
BY BoundAssumption DEF Begin, Goto, Inv, TypeOK, Named, Durable

\* The temporary file begins unfinished and unsynced, and its run is at "write".
LEMMA CreateTempInv == ASSUME Inv, NEW r \in Runs, CreateTemp(r) PROVE Inv'
<1> DEFINE new == [data |-> "partial", synced |-> FALSE, seq |-> 0]
<1>1. new \in File
  BY DEF File
<1>2. temps' = With(temps, r, new)
  BY DEF CreateTemp
<1> HIDE DEF new
<1>3. /\ DOMAIN temps' = DOMAIN temps \cup {r}
      /\ \A x \in DOMAIN temps' : temps'[x] = IF x = r THEN new ELSE temps[x]
  BY <1>2 DEF With
<1>4. \A x \in DOMAIN temps' : temps'[x] \in File
  BY <1>1, <1>3 DEF Inv, TypeOK
<1>5. pc' = [pc EXCEPT ![r] = "write"] /\ pc[r] = "temp"
  BY DEF CreateTemp, Goto
<1>6. UNCHANGED <<files, leaked, clock, name, listed, count, since, backs, crashes>>
  BY DEF CreateTemp
<1>7. TypeOK'
  <2>1. DOMAIN temps' = {q \in Runs : pc'[q] \in {"write", "sync", "rename"}}
    BY <1>3, <1>5 DEF Inv, TypeOK
  <2>2. QED
    BY <1>4, <1>5, <1>6, <2>1 DEF Inv, TypeOK
<1>8. Named'
  BY <1>5, <1>6 DEF Inv, TypeOK, Named
<1>9. Durable'
  BY <1>3, <1>5, <1>6 DEF Inv, TypeOK, Durable
<1>10. QED
  BY <1>7, <1>8, <1>9 DEF Inv

\* Dropping the temporary file on an error path.
LEMMA FailInv ==
  ASSUME Inv, NEW r \in Runs, pc[r] \notin Endings, Fail(r),
         UNCHANGED <<leaked, clock, name, count, since, backs, crashes, files>>
  PROVE  Inv'
<1>1. /\ DOMAIN temps' = DOMAIN temps \ {r}
      /\ \A x \in DOMAIN temps' : temps'[x] = temps[x]
  BY WithoutFacts DEF Fail
<1>2. QED
  BY <1>1 DEF Fail, Goto, Inv, TypeOK, Named, Durable

\* The file becomes whole before its run goes on to sync it.
LEMMA WriteInv == ASSUME Inv, NEW r \in Runs, Write(r) PROVE Inv'
<1>1. CASE temps' = [temps EXCEPT ![r].data = "whole"] /\ Goto(r, "sync") /\ UNCHANGED listed
  <2>1. r \in DOMAIN temps /\ temps[r] \in File
    BY DEF Write, Inv, TypeOK
  <2>2. /\ DOMAIN temps' = DOMAIN temps
        /\ \A x \in DOMAIN temps : x # r => temps'[x] = temps[x]
        /\ temps'[r] \in File /\ temps'[r].data = "whole"
    BY <1>1, <2>1 DEF File
  <2>3. QED
    BY <1>1, <2>1, <2>2 DEF Write, Goto, Inv, TypeOK, Named, Durable
<1>2. CASE Fail(r)
  BY <1>2, FailInv DEF Write
<1>3. QED
  BY <1>1, <1>2 DEF Write

\* The file is synced before its run goes on to rename it.
LEMMA SyncInv == ASSUME Inv, NEW r \in Runs, Sync(r) PROVE Inv'
<1>1. CASE temps' = [temps EXCEPT ![r].synced = TRUE] /\ Goto(r, "rename") /\ UNCHANGED listed
  <2>1. r \in DOMAIN temps /\ temps[r] \in File /\ temps[r].data = "whole"
    BY DEF Sync, Inv, TypeOK, Durable
  <2>2. /\ DOMAIN temps' = DOMAIN temps
        /\ \A x \in DOMAIN temps : x # r => temps'[x] = temps[x]
        /\ temps'[r] \in File /\ temps'[r].data = "whole" /\ temps'[r].synced
    BY <1>1, <2>1 DEF File
  <2>3. QED
    BY <1>1, <2>1, <2>2 DEF Sync, Goto, Inv, TypeOK, Named, Durable
<1>2. CASE Fail(r)
  BY <1>2, FailInv DEF Sync
<1>3. QED
  BY <1>1, <1>2 DEF Sync

\* What is renamed is whole and synced: the one step that adds a snapshot.
LEMMA RenameInv == ASSUME Inv, NEW r \in Runs, Rename(r) PROVE Inv'
<1>1. CASE Fail(r) /\ UNCHANGED <<files, count>>
  BY <1>1, FailInv DEF Rename
<1>2. CASE ~(Fail(r) /\ UNCHANGED <<files, count>>)
  <2> DEFINE new == [temps[r] EXCEPT !.seq = count + 1]
  <2>1. /\ r \in DOMAIN temps /\ temps[r] \in File
        /\ temps[r].data = "whole" /\ temps[r].synced
        /\ name[r] \in Times /\ count \in Nat
    BY DEF Rename, Inv, TypeOK, Named, Durable
  <2>2. new \in File /\ new.data = "whole" /\ new.synced
    BY <2>1 DEF File
  <2>3. files' = With(files, name[r], new) /\ temps' = Without(temps, r) /\ count' = count + 1
    BY <1>2 DEF Rename
  <2>4. pc[r] = "rename" /\ UNCHANGED <<leaked, clock, name, since, backs, crashes, listed>>
    BY <1>2 DEF Rename
  <2>5. pc' = [pc EXCEPT ![r] = IF Keep > 0 THEN "list" ELSE "writing"]
    BY <1>2 DEF Rename, Goto
  <2> HIDE DEF new
  <2>6. /\ DOMAIN files' = DOMAIN files \cup {name[r]}
        /\ \A t \in DOMAIN files' : files'[t] = IF t = name[r] THEN new ELSE files[t]
    BY <2>3 DEF With
  <2>7. /\ DOMAIN temps' = DOMAIN temps \ {r}
        /\ \A x \in DOMAIN temps' : temps'[x] = temps[x]
    BY <2>3 DEF Without
  <2>8. \A t \in DOMAIN files' : files'[t] \in File
    BY <2>2, <2>6 DEF Inv, TypeOK
  <2>9. TypeOK'
    BY <2>1, <2>3, <2>4, <2>5, <2>6, <2>7, <2>8 DEF Inv, TypeOK
  <2>10. Named'
    BY <2>4, <2>5 DEF Inv, TypeOK, Named
  <2>11. Durable'
    BY <2>2, <2>4, <2>5, <2>6, <2>7 DEF Inv, TypeOK, Durable
  <2>12. QED
    BY <2>9, <2>10, <2>11 DEF Inv
<1>3. QED
  BY <1>1, <1>2

-----------------------------------------------------------------------------
\* Listing the directory, and removing a name from it, make no file.
LEMMA ListDirInv == ASSUME Inv, NEW r \in Runs, ListDir(r) PROVE Inv'
BY DEF ListDir, Goto, Inv, TypeOK, Named, Durable

\* Rotation makes no file either; when the name is gone it only fails.
LEMMA RemoveOldestInv == ASSUME Inv, NEW r \in Runs, RemoveOldest(r) PROVE Inv'
<1> DEFINE old == Oldest(listed[r])
<1>1. CASE old \in DOMAIN files
  <2>1. files' = Without(files, old)
    BY <1>1 DEF RemoveOldest
  <2>2. listed' = [listed EXCEPT ![r] = @ \ {old}] /\ UNCHANGED <<pc, temps>>
    BY <1>1 DEF RemoveOldest
  <2> HIDE DEF old
  <2>3. /\ DOMAIN files' = DOMAIN files \ {old}
        /\ \A t \in DOMAIN files' : files'[t] = files[t]
    BY <2>1 DEF Without
  <2>4. QED
    BY <2>2, <2>3 DEF RemoveOldest, Inv, TypeOK, Named, Durable
<1>2. CASE old \notin DOMAIN files
  BY <1>2, FailInv DEF RemoveOldest
<1>3. QED
  BY <1>1, <1>2

\* A run that returns its path leaves the directory alone.
LEMMA ReturnInv == ASSUME Inv, NEW r \in Runs, Return(r) PROVE Inv'
BY DEF Return, Goto, Inv, TypeOK, Named, Durable

\* A killed run leaves at most its temporary file, under its own name.
LEMMA KillInv == ASSUME Inv, NEW r \in Runs, Kill(r) PROVE Inv'
<1>1. /\ DOMAIN temps' = DOMAIN temps \ {r}
      /\ \A x \in DOMAIN temps' : temps'[x] = temps[x]
  BY WithoutFacts DEF Kill
<1>2. leaked' \subseteq Times
  BY DEF Kill, Inv, TypeOK, Named
<1>3. crashes' \in 0..MaxCrashes
  BY BoundAssumption DEF Kill, Inv, TypeOK
<1>4. QED
  BY <1>1, <1>2, <1>3 DEF Kill, Goto, Inv, TypeOK, Named, Durable

\* Every snapshot is synced, so a power failure changes none.
LEMMA PowerFailureInv == ASSUME Inv, PowerFailure PROVE Inv'
<1>1. DOMAIN temps' = {}
  BY EmptyFacts DEF PowerFailure
<1>2. leaked' \subseteq Times
  BY DEF PowerFailure, Inv, TypeOK, Named
<1>3. crashes' \in 0..MaxCrashes
  BY BoundAssumption DEF PowerFailure, Inv, TypeOK
<1>4. DOMAIN files' = DOMAIN files /\ \A t \in DOMAIN files : files'[t] = files[t]
  BY DEF PowerFailure, Inv, Durable
<1>5. QED
  BY <1>1, <1>2, <1>3, <1>4 DEF PowerFailure, Inv, TypeOK, Named, Durable

\* The clock decides names only.
LEMMA SetClockBackInv == ASSUME Inv, SetClockBack PROVE Inv'
BY BoundAssumption DEF SetClockBack, runVars, Inv, TypeOK, Named, Durable

-----------------------------------------------------------------------------
\* Every step preserves the invariant.
LEMMA NextInv == Inv /\ [Next]_vars => Inv'
<1> SUFFICES ASSUME Inv, [Next]_vars PROVE Inv'
  OBVIOUS
<1>1. CASE PowerFailure \/ SetClockBack
  BY <1>1, PowerFailureInv, SetClockBackInv
<1>2. ASSUME NEW r \in Runs,
             \/ Begin(r) \/ CreateTemp(r) \/ Write(r) \/ Sync(r) \/ Rename(r)
             \/ ListDir(r) \/ RemoveOldest(r) \/ Return(r) \/ Kill(r)
      PROVE  Inv'
  BY <1>2, BeginInv, CreateTempInv, WriteInv, SyncInv, RenameInv, ListDirInv,
     RemoveOldestInv, ReturnInv, KillInv
<1>3. CASE UNCHANGED vars
  BY <1>3 DEF vars, runVars, Inv, TypeOK, Named, Durable
<1>4. QED
  BY <1>1, <1>2, <1>3 DEF Next

\* The invariant holds throughout.
LEMMA Invariance == Spec => []Inv
BY InitInv, NextInv, PTL DEF Spec

\* The snapshot directory is always well typed, and no temporary file of a run
\* that failed stays behind.
THEOREM StoreTypeCorrect == Spec => []TypeOK
<1>1. Inv => TypeOK
  BY DEF Inv
<1>2. QED
  BY Invariance, <1>1, PTL

\* With any number of runs sharing the directory, killed or losing power at any
\* step, a snapshot-*.json never holds part of an export (snapshot.go:62-81).
THEOREM AlwaysWhole == Spec => []SnapshotsAreWhole
<1>1. Inv => SnapshotsAreWhole
  BY DEF Inv, Durable, SnapshotsAreWhole
<1>2. QED
  BY Invariance, <1>1, PTL
-----------------------------------------------------------------------------
(* Rotation while the clock is steady                                      *)

\* The snapshots that were there when the run began, and those finished since.
Before(r) == {t \in DOMAIN files : files[t].seq <= since[r]}
After(r)  == {t \in DOMAIN files : files[t].seq > since[r]}

\* Ages and beginnings are counted, and a listing lasts as long as its loop.
Counted ==
  /\ \A t \in DOMAIN files : files[t].seq <= count
  /\ \A r \in Runs : since[r] <= count
  /\ \A r \in Runs : pc[r] # "rotate" => listed[r] = {}

\* Where a run is before its file is a snapshot, and while it rotates.
Unfiled == {"temp", "write", "sync", "rename"}
Filed   == {"list", "rotate"}

\* Names only grow: each run at work has one of its own, and one that is not in
\* the directory yet has never been listed.
Fresh ==
  /\ DOMAIN files \subseteq 0..clock
  /\ \A r \in Runs : listed[r] \subseteq 0..clock
  /\ \A r \in Runs : pc[r] \notin Endings => name[r] <= clock
  /\ \A r, q \in Runs : pc[r] \notin Endings /\ pc[q] \notin Endings /\ name[r] = name[q] => r = q
  /\ \A r, q \in Runs : pc[r] \in Unfiled =>
                           name[r] \notin DOMAIN files /\ name[r] \notin listed[q]

\* By name a run at work comes after what was there when it began.
Later == \A r \in Runs : pc[r] \notin Endings => \A t \in Before(r) : t < name[r]

\* A listing holds every file older than any file it holds.
ListedInOrder ==
  \A q \in Runs : \A t \in listed[q] \cap DOMAIN files :
    \A u \in DOMAIN files : files[u].seq <= files[t].seq => u \in listed[q]

\* What rotation goes by: the files there when the run began, and its own.
Complete ==
  \A r \in Runs :
    /\ pc[r] = "rotate" => Before(r) \subseteq listed[r]
    /\ pc[r] = "rotate" /\ name[r] \in DOMAIN files => name[r] \in listed[r]
    /\ pc[r] \in Filed =>
         \/ name[r] \in After(r)
         \/ name[r] \notin DOMAIN files /\ Before(r) = {}

\* The names that runs know of and that are gone from the directory.
Gone == {x \in 0..MaxTime :
           /\ x \notin DOMAIN files
           /\ \E q \in Runs : x \in listed[q] \/ (pc[q] \in Filed /\ x = name[q])}

\* Rotation removes a name only when Keep later ones are left.
Above(x) == {t \in DOMAIN files : t > x}
KeepLeft == \A x \in Gone : Cardinality(Above(x)) >= Keep

Steady == Fresh /\ Later /\ ListedInOrder /\ Complete /\ KeepLeft
Rotates == Counted /\ (backs = 0 => Steady)

\* It all holds in an empty directory.
LEMMA RotatesInit == Init => Rotates
<1> SUFFICES ASSUME Init PROVE Rotates
  OBVIOUS
<1>1. /\ DOMAIN files = {} /\ clock = 0 /\ count = 0
      /\ \A r \in Runs : pc[r] = "idle" /\ listed[r] = {} /\ since[r] = 0
  BY EmptyFacts DEF Init
<1>2. Counted
  BY <1>1 DEF Counted
<1>3. Gone = {}
  BY <1>1 DEF Gone, Filed
<1>4. Steady
  BY <1>1, <1>3 DEF Steady, Fresh, Later, Before, ListedInOrder, Complete, KeepLeft
<1> QED BY <1>2, <1>4 DEF Rotates

\* A step that changes neither the directory nor the clock, in which a run goes
\* on towards its rename, or ends.
LEMMA GoesOnOrEnds ==
  ASSUME Rotates, UNCHANGED <<clock, name, since, count, backs>>,
         DOMAIN files' = DOMAIN files, \A t \in DOMAIN files : files'[t] = files[t],
         \A q \in Runs :
           \/ pc'[q] = pc[q] /\ listed'[q] = listed[q]
           \/ pc[q] \in Unfiled /\ pc'[q] \in Unfiled /\ listed'[q] = listed[q]
           \/ pc'[q] \in Endings /\ listed'[q] = {}
  PROVE  Rotates'
<1> USE DEF Unfiled, Filed
<1>1. Counted'
  BY DEF Rotates, Counted
<1>2. ASSUME backs = 0 PROVE Steady'
  <2>1. Steady
    BY <1>2 DEF Rotates
  <2>2. Fresh'
    BY <2>1 DEF Steady, Fresh
  <2>3. \A r \in Runs : Before(r)' = Before(r) /\ After(r)' = After(r)
    BY DEF Before, After
  <2>4. Later'
    BY <2>1, <2>3 DEF Steady, Later
  <2>5. ListedInOrder'
    BY <2>1 DEF Steady, ListedInOrder
  <2>6. Complete'
    BY <2>1, <2>3 DEF Steady, Complete
  <2>7. Gone' \subseteq Gone
    BY DEF Gone
  <2>8. \A x : Above(x)' = Above(x)
    BY DEF Above
  <2>9. KeepLeft'
    BY <2>1, <2>7, <2>8 DEF Steady, KeepLeft
  <2> QED BY <2>2, <2>4, <2>5, <2>6, <2>9 DEF Steady
<1> QED BY <1>1, <1>2 DEF Rotates

\* A run that starts takes a name after every one there is, and everything in
\* the directory is older than it.
LEMMA BeginRotates ==
  ASSUME Inv, Inv', Rotates, NEW r \in Runs, Begin(r)
  PROVE  Rotates'
<1> USE DEF Unfiled, Filed
<1>1. /\ pc[r] \in Endings /\ since' = [since EXCEPT ![r] = count]
      /\ UNCHANGED <<files, temps, leaked, listed, count, backs, crashes>>
  BY DEF Begin
<1>2. listed[r] = {} /\ \A q \in Runs : q # r => since'[q] = since[q]
  BY <1>1 DEF Inv, TypeOK, Rotates, Counted
<1>3. Counted'
  BY <1>1, <1>2 DEF Begin, Goto, Inv, TypeOK, Rotates, Counted
<1>4. \A q \in Runs : q # r => Before(q)' = Before(q) /\ After(q)' = After(q)
  BY <1>1, <1>2 DEF Before, After
<1>5. \A x : Above(x)' = Above(x)
  BY <1>1 DEF Above
<1>6. ASSUME backs = 0, clock' \in (clock + 1)..MaxTime, name' = [name EXCEPT ![r] = clock'],
             Goto(r, "temp")
      PROVE  Steady'
  <2>1. Steady
    BY <1>6 DEF Rotates
  <2>2. /\ pc'[r] = "temp" /\ \A q \in Runs : q # r => pc'[q] = pc[q] /\ name'[q] = name[q]
        /\ name'[r] = clock' /\ clock' > clock /\ clock \in Int /\ clock' \in Int
    BY <1>6, BoundAssumption DEF Goto, Inv, TypeOK
  <2>3. /\ DOMAIN files \subseteq Int /\ \A q \in Runs : listed[q] \subseteq Int /\ name[q] \in Int
    BY DEF Inv, TypeOK
  <2>4. Fresh'
    <3>1. /\ DOMAIN files \subseteq 0..clock /\ \A q \in Runs : listed[q] \subseteq 0..clock
          /\ \A q \in Runs : pc[q] \notin Endings => name[q] <= clock
      BY <2>1 DEF Steady, Fresh
    <3>2. DOMAIN files' \subseteq 0..clock' /\ \A q \in Runs : listed'[q] \subseteq 0..clock'
      BY <1>1, <2>2, <3>1
    <3>3. \A q \in Runs : pc'[q] \notin Endings => name'[q] <= clock'
      BY <2>2, <2>3, <3>1
    <3>4. \A p, q \in Runs : pc'[p] \notin Endings /\ pc'[q] \notin Endings /\ name'[p] = name'[q]
                               => p = q
      <4>1. \A q \in Runs : q # r /\ pc'[q] \notin Endings => name'[q] # name'[r]
        BY <2>2, <2>3, <3>1
      <4> QED BY <2>1, <2>2, <4>1 DEF Steady, Fresh
    <3>5. \A p, q \in Runs : pc'[p] \in Unfiled =>
                               name'[p] \notin DOMAIN files' /\ name'[p] \notin listed'[q]
      <4>1. name'[r] \notin DOMAIN files /\ \A q \in Runs : name'[r] \notin listed[q]
        BY <2>2, <3>1
      <4> QED BY <1>1, <2>1, <2>2, <4>1 DEF Steady, Fresh
    <3> QED BY <3>2, <3>3, <3>4, <3>5 DEF Fresh
  <2>5. Later'
    <3>1. \A t \in DOMAIN files' : t < name'[r]
      BY <1>1, <2>1, <2>2 DEF Steady, Fresh
    <3> QED BY <1>4, <2>1, <2>2, <3>1 DEF Steady, Later, Before
  <2>6. ListedInOrder'
    BY <1>1, <2>1 DEF Steady, ListedInOrder
  <2>7. Complete'
    BY <1>1, <1>4, <2>1, <2>2 DEF Steady, Complete
  <2>8. Gone' \subseteq Gone
    BY <1>1, <2>2 DEF Gone
  <2>9. KeepLeft'
    BY <1>5, <2>1, <2>8 DEF Steady, KeepLeft
  <2> QED BY <2>4, <2>5, <2>6, <2>7, <2>9 DEF Steady
<1>7. ASSUME backs = 0, Goto(r, "failed"), UNCHANGED <<clock, name>>
      PROVE  Steady'
  <2>1. Steady
    BY <1>7 DEF Rotates
  <2>2. pc'[r] \in Endings /\ \A q \in Runs : q # r => pc'[q] = pc[q]
    BY <1>7 DEF Goto, Inv, TypeOK
  <2>3. Fresh'
    BY <1>1, <1>7, <2>1, <2>2 DEF Steady, Fresh
  <2>4. Later'
    BY <1>4, <1>7, <2>1, <2>2 DEF Steady, Later
  <2>5. ListedInOrder'
    BY <1>1, <2>1 DEF Steady, ListedInOrder
  <2>6. Complete'
    BY <1>1, <1>4, <1>7, <2>1, <2>2 DEF Steady, Complete
  <2>7. Gone' \subseteq Gone
    BY <1>1, <1>7, <2>2 DEF Gone
  <2>8. KeepLeft'
    BY <1>5, <2>1, <2>7 DEF Steady, KeepLeft
  <2> QED BY <2>3, <2>4, <2>5, <2>6, <2>8 DEF Steady
<1> QED BY <1>1, <1>3, <1>6, <1>7 DEF Begin, Rotates

\* A listing holds everything there is.
LEMMA ListDirRotates ==
  ASSUME Inv, Inv', Rotates, NEW r \in Runs, ListDir(r)
  PROVE  Rotates'
<1> USE DEF Unfiled, Filed
<1>1. /\ pc[r] = "list" /\ pc'[r] = "rotate" /\ listed'[r] = DOMAIN files /\ listed[r] = {}
      /\ \A q \in Runs : q # r => pc'[q] = pc[q] /\ listed'[q] = listed[q]
      /\ UNCHANGED <<files, clock, name, count, since, backs>>
  BY DEF ListDir, Goto, Inv, TypeOK, Rotates, Counted
<1>2. Counted'
  BY <1>1 DEF Rotates, Counted
<1>3. ASSUME backs = 0 PROVE Steady'
  <2>1. Steady
    BY <1>3 DEF Rotates
  <2>2. Fresh'
    BY <1>1, <2>1 DEF Steady, Fresh
  <2>3. \A q \in Runs : Before(q)' = Before(q) /\ After(q)' = After(q)
    BY <1>1 DEF Before, After
  <2>4. Later'
    BY <1>1, <2>1, <2>3 DEF Steady, Later
  <2>5. ListedInOrder'
    BY <1>1, <2>1 DEF Steady, ListedInOrder
  <2>6. Complete'
    <3>1. Before(r) \subseteq DOMAIN files
      BY DEF Before
    <3> QED BY <1>1, <2>1, <2>3, <3>1 DEF Steady, Complete
  <2>7. Gone' \subseteq Gone
    BY <1>1 DEF Gone
  <2>8. \A x : Above(x)' = Above(x)
    BY <1>1 DEF Above
  <2>9. KeepLeft'
    BY <2>1, <2>7, <2>8 DEF Steady, KeepLeft
  <2> QED BY <2>2, <2>4, <2>5, <2>6, <2>9 DEF Steady
<1> QED BY <1>1, <1>2, <1>3 DEF Rotates

\* Oldest is well defined, and what it says.
LEMMA OldestFacts ==
  ASSUME NEW s \in SUBSET Nat, s # {}
  PROVE  Oldest(s) \in s /\ \A u \in s : Oldest(s) <= u
<1>1. PICK t \in s : \A u \in s : ~(<<u, t>> \in OpToRel(<, Nat))
  BY WFMin, NatLessThanWellFounded, Zenon
<1>2. s \subseteq Nat /\ t \in Nat
  OBVIOUS
<1>3. \A u \in s : ~(u < t)
  BY <1>1, <1>2 DEF OpToRel
<1>4. \A u \in s : t <= u
  BY <1>2, <1>3
<1> QED BY <1>4 DEF Oldest

\* There are as many times as there are, so as many names.
LEMMA TimesAreFinite ==
  ASSUME NEW S \in SUBSET Times
  PROVE  /\ S \subseteq Nat /\ IsFiniteSet(S) /\ Cardinality(S) \in Nat
         /\ \A T \in SUBSET S : IsFiniteSet(T) /\ Cardinality(T) \in Nat
                                  /\ Cardinality(T) <= Cardinality(S)
<1>1. IsFiniteSet(Times) /\ S \subseteq Nat
  BY BoundAssumption, FS_Interval
<1>2. IsFiniteSet(S)
  <2> HIDE DEF Times
  <2> QED BY <1>1, FS_Subset
<1>3. ASSUME NEW T \in SUBSET S
      PROVE  IsFiniteSet(T) /\ Cardinality(T) <= Cardinality(S)
  BY <1>2, FS_Subset
<1> QED BY <1>1, <1>2, <1>3, FS_CardinalityType

\* The file that appears is the youngest, and nobody had listed its name.
LEMMA RenameRotates ==
  ASSUME Inv, Inv', Rotates, NEW r \in Runs, Rename(r), ~(Fail(r) /\ UNCHANGED <<files, count>>)
  PROVE  Rotates'
<1> USE DEF Unfiled, Filed
<1> SUFFICES ASSUME NEW x, x = name[r] PROVE Rotates'
  OBVIOUS
<1>1. /\ pc[r] = "rename" /\ count' = count + 1 /\ count \in Nat /\ r \in DOMAIN temps
      /\ files' = With(files, x, [temps[r] EXCEPT !.seq = count + 1])
      /\ pc' = [pc EXCEPT ![r] = IF Keep > 0 THEN "list" ELSE "writing"]
      /\ UNCHANGED <<listed, clock, name, since, backs>>
  BY DEF Rename, Goto, Inv, TypeOK
<1>2. /\ pc'[r] \in {"list", "writing"} /\ \A q \in Runs : q # r => pc'[q] = pc[q]
  BY <1>1 DEF Inv, TypeOK
<1>3. /\ DOMAIN files' = DOMAIN files \cup {x}
      /\ files'[x].seq = count + 1
      /\ \A t \in DOMAIN files : t # x => files'[t] = files[t]
  BY <1>1 DEF With, Inv, TypeOK, File
<1>4. /\ \A t \in DOMAIN files : files[t].seq \in Nat /\ files[t].seq <= count
      /\ \A q \in Runs : since[q] \in Nat /\ since[q] <= count
  BY DEF Inv, TypeOK, File, Rotates, Counted
<1>5. Counted'
  <2>1. \A t \in DOMAIN files' : files'[t].seq <= count'
    BY <1>1, <1>3, <1>4
  <2> QED BY <1>1, <1>2, <1>4, <2>1 DEF Rotates, Counted
<1>6. ASSUME backs = 0 PROVE Steady'
  <2>1. Steady
    BY <1>6 DEF Rotates
  <2>2. x \notin DOMAIN files /\ \A q \in Runs : x \notin listed[q]
    BY <1>1, <2>1 DEF Steady, Fresh
  <2>3. \A q \in Runs : q # r /\ pc[q] \notin Endings => name[q] # x
    BY <1>1, <2>1 DEF Steady, Fresh
  <2>4. \A q \in Runs : Before(q)' = Before(q) /\ After(q)' = After(q) \cup {x}
    <3> SUFFICES ASSUME NEW q \in Runs PROVE Before(q)' = Before(q) /\ After(q)' = After(q) \cup {x}
      OBVIOUS
    <3>1. count + 1 > since[q] /\ since'[q] = since[q]
      BY <1>1, <1>4
    <3>2. \A t : t \in Before(q)' <=> t \in Before(q)
      BY <1>1, <1>3, <1>4, <2>2, <3>1 DEF Before
    <3>3. \A t : t \in After(q)' <=> t \in After(q) \cup {x}
      BY <1>1, <1>3, <1>4, <2>2, <3>1 DEF After
    <3> QED BY <3>2, <3>3
  <2>5. Fresh'
    <3>1. x \in 0..clock
      BY <1>1, <2>1, BoundAssumption DEF Steady, Fresh, Inv, TypeOK, Named
    <3> QED BY <1>1, <1>2, <1>3, <2>1, <2>3, <3>1 DEF Steady, Fresh
  <2>6. Later'
    BY <1>1, <1>2, <2>1, <2>4 DEF Steady, Later
  <2>7. ListedInOrder'
    BY <1>1, <1>3, <1>4, <2>1, <2>2 DEF Steady, ListedInOrder
  <2>8. Complete'
    BY <1>1, <1>2, <1>3, <2>1, <2>3, <2>4 DEF Steady, Complete
  <2>9. Gone' \subseteq Gone
    BY <1>1, <1>2, <1>3 DEF Gone
  <2>10. KeepLeft'
    <3> SUFFICES ASSUME NEW y \in Gone' PROVE Cardinality(Above(y)') >= Keep
      BY DEF KeepLeft
    <3>1. Cardinality(Above(y)) >= Keep
      BY <2>1, <2>9 DEF Steady, KeepLeft
    <3>2. Above(y) \subseteq Above(y)' /\ Above(y)' \in SUBSET Times
      BY <1>3 DEF Above, Inv, TypeOK
    <3>3. Cardinality(Above(y)) <= Cardinality(Above(y)') /\ Cardinality(Above(y)) \in Nat
          /\ Cardinality(Above(y)') \in Nat
      BY <3>2, TimesAreFinite
    <3> QED BY <3>1, <3>3, KeepAssumption
  <2> QED BY <2>5, <2>6, <2>7, <2>8, <2>10 DEF Steady
<1> QED BY <1>1, <1>5, <1>6 DEF Rotates

\* The name that goes has Keep later ones left behind it, and if it was that of
\* a run which still rotates, everything that run found is gone already.
LEMMA RemoveRotates ==
  ASSUME Inv, Inv', Rotates, NEW r \in Runs, RemoveOldest(r), Oldest(listed[r]) \in DOMAIN files
  PROVE  Rotates'
<1> USE DEF Unfiled, Filed
<1> SUFFICES ASSUME NEW x, x = Oldest(listed[r]) PROVE Rotates'
  OBVIOUS
<1>1. /\ pc[r] = "rotate" /\ TooMany(r) /\ files' = Without(files, x)
      /\ listed' = [listed EXCEPT ![r] = @ \ {x}]
      /\ UNCHANGED <<pc, clock, name, count, since, backs>>
  BY DEF RemoveOldest
<1>2. listed[r] \in SUBSET Times /\ x \in DOMAIN files
  BY DEF Inv, TypeOK
<1>3. x \in listed[r] /\ x \in Nat /\ \A u \in listed[r] : x <= u
  <2>1. listed[r] \in SUBSET Nat
    BY <1>2, TimesAreFinite
  <2>2. listed[r] # {}
    BY <1>1, FS_EmptySet, KeepAssumption DEF TooMany
  <2> QED BY <2>1, <2>2, OldestFacts
<1>4. /\ DOMAIN files' = DOMAIN files \ {x} /\ \A t \in DOMAIN files' : files'[t] = files[t]
      /\ listed'[r] = listed[r] \ {x} /\ \A q \in Runs : q # r => listed'[q] = listed[q]
      /\ DOMAIN files' \subseteq Times
  <2>1. DOMAIN files' = DOMAIN files \ {x} /\ \A t \in DOMAIN files' : files'[t] = files[t]
    BY <1>1 DEF Without
  <2>2. DOMAIN files \subseteq Times /\ listed \in [Runs -> SUBSET Times]
    BY DEF Inv, TypeOK
  <2> QED BY <1>1, <2>1, <2>2
<1>5. DOMAIN files \subseteq Nat /\ \A q \in Runs : listed[q] \subseteq Nat
  BY BoundAssumption DEF Inv, TypeOK
<1>6. Counted'
  BY <1>1, <1>4 DEF Rotates, Counted
<1>7. ASSUME backs = 0 PROVE Steady'
  <2>1. Steady
    BY <1>7 DEF Rotates
  <2>2. Fresh'
    BY <1>1, <1>4, <2>1 DEF Steady, Fresh
  <2>3. \A q \in Runs : Before(q)' = Before(q) \ {x} /\ After(q)' = After(q) \ {x}
    BY <1>1, <1>4 DEF Before, After
  <2>4. Later'
    BY <1>1, <2>1, <2>3 DEF Steady, Later
  <2>5. ListedInOrder'
    BY <1>4, <2>1 DEF Steady, ListedInOrder
  <2>6. \A q \in Runs : pc[q] \in Filed /\ name[q] = x => Before(q) = {}
    <3> SUFFICES ASSUME NEW q \in Runs, pc[q] \in Filed, name[q] = x, NEW u \in Before(q)
                 PROVE  FALSE
      OBVIOUS
    <3>1. u \in DOMAIN files /\ files[u].seq <= since[q] /\ u < x
      BY <2>1 DEF Steady, Later, Before
    <3>2. files[x].seq > since[q]
      BY <1>2, <2>1 DEF Steady, Complete, After
    <3>3. files[u].seq <= files[x].seq
      BY <1>2, <3>1, <3>2 DEF Inv, TypeOK, File
    <3>4. u \in listed[r]
      BY <1>2, <1>3, <2>1, <3>1, <3>3 DEF Steady, ListedInOrder
    <3> QED BY <1>3, <1>5, <3>1, <3>4
  <2>7. Complete'
    BY <1>1, <1>4, <2>1, <2>3, <2>6 DEF Steady, Complete
  <2>8. Gone' \subseteq Gone \cup {x}
    BY <1>1, <1>4 DEF Gone
  <2>9. Cardinality(Above(x)') >= Keep
    <3> DEFINE L == listed[r] \ {x}
    <3>1. Cardinality(L) >= Keep /\ Cardinality(L) \in Nat
      <4>1. IsFiniteSet(listed[r]) /\ Cardinality(listed[r]) \in Nat /\ Cardinality(L) \in Nat
        BY <1>2, TimesAreFinite
      <4>2. Cardinality(L) = Cardinality(listed[r]) - 1
        BY <1>3, <4>1, FS_RemoveElement
      <4> QED BY <1>1, <4>1, <4>2, KeepAssumption DEF TooMany
    <3>2. \A u \in L : u > x
      BY <1>3, <1>5
    <3>3. Above(x)' \in SUBSET Times /\ Above(x)' = {t \in DOMAIN files : t # x /\ t > x}
      BY <1>4 DEF Above
    <3>4. CASE L \subseteq DOMAIN files
      <4>1. L \subseteq Above(x)'
        BY <3>2, <3>3, <3>4
      <4>2. Cardinality(L) <= Cardinality(Above(x)') /\ Cardinality(Above(x)') \in Nat
        BY <3>3, <4>1, TimesAreFinite
      <4> QED BY <3>1, <4>2, KeepAssumption
    <3>5. CASE ~(L \subseteq DOMAIN files)
      <4>1. PICK y \in L : y \notin DOMAIN files
        BY <3>5
      <4>2. y \in Gone
        BY <1>2, <4>1 DEF Gone
      <4>3. Cardinality(Above(y)) >= Keep
        BY <2>1, <4>2 DEF Steady, KeepLeft
      <4>4. Above(y) \subseteq Above(x)'
        BY <1>3, <1>5, <3>2, <3>3, <4>1 DEF Above
      <4>5. Cardinality(Above(y)) <= Cardinality(Above(x)') /\ Cardinality(Above(y)) \in Nat
            /\ Cardinality(Above(x)') \in Nat
        BY <3>3, <4>4, TimesAreFinite
      <4> QED BY <4>3, <4>5, KeepAssumption
    <3> QED BY <3>4, <3>5
  <2>10. KeepLeft'
    <3> SUFFICES ASSUME NEW y \in Gone' PROVE Cardinality(Above(y)') >= Keep
      BY DEF KeepLeft
    <3>1. CASE y = x
      BY <2>9, <3>1
    <3>2. CASE y # x
      <4>1. y \in Gone /\ Cardinality(Above(y)) >= Keep
        BY <2>1, <2>8, <3>2 DEF Steady, KeepLeft
      <4>2. y \in Nat
        BY <4>1, BoundAssumption DEF Gone
      <4>3. CASE y < x
        <5>1. Above(x)' \subseteq Above(y)' /\ Above(y)' \in SUBSET Times
          BY <1>3, <1>4, <1>5, <4>2, <4>3 DEF Above
        <5>2. Cardinality(Above(x)') <= Cardinality(Above(y)') /\ Cardinality(Above(x)') \in Nat
              /\ Cardinality(Above(y)') \in Nat
          BY <5>1, TimesAreFinite
        <5> QED BY <2>9, <5>2, KeepAssumption
      <4>4. CASE y > x
        <5>1. Above(y)' = Above(y)
          BY <1>3, <1>4, <1>5, <4>2, <4>4 DEF Above
        <5> QED BY <4>1, <5>1
      <4> QED BY <1>3, <3>2, <4>2, <4>3, <4>4
    <3> QED BY <3>1, <3>2
  <2> QED BY <2>2, <2>4, <2>5, <2>7, <2>10 DEF Steady
<1> QED BY <1>1, <1>6, <1>7 DEF Rotates

-----------------------------------------------------------------------------
\* Every step preserves what rotation relies on.
LEMMA NextRotates == Inv /\ Inv' /\ Rotates /\ [Next]_vars => Rotates'
<1> SUFFICES ASSUME Inv, Inv', Rotates, [Next]_vars PROVE Rotates'
  OBVIOUS
<1>1. CASE PowerFailure
  <2>1. DOMAIN files' = DOMAIN files /\ \A t \in DOMAIN files : files'[t] = files[t]
    BY <1>1 DEF PowerFailure, Inv, Durable
  <2> QED BY <1>1, <2>1, GoesOnOrEnds DEF PowerFailure
<1>2. CASE SetClockBack
  <2>1. backs' # 0 /\ UNCHANGED <<files, pc, name, listed, since, count>>
    BY <1>2 DEF SetClockBack, runVars, Inv, TypeOK
  <2> QED BY <2>1 DEF Rotates, Counted
<1>3. CASE UNCHANGED vars
  BY <1>3, GoesOnOrEnds DEF vars, runVars
<1>4. ASSUME NEW r \in Runs,
             \/ Begin(r) \/ CreateTemp(r) \/ Write(r) \/ Sync(r) \/ Rename(r)
             \/ ListDir(r) \/ RemoveOldest(r) \/ Return(r) \/ Kill(r)
      PROVE  Rotates'
  <2> DEFINE Stays == UNCHANGED <<files, clock, name, since, count, backs>>
  <2>1. ASSUME Fail(r), Stays PROVE Rotates'
    BY <2>1, GoesOnOrEnds DEF Fail, Goto, Inv, TypeOK
  <2>2. CASE CreateTemp(r)
    BY <2>2, GoesOnOrEnds DEF CreateTemp, Goto, Unfiled, Inv, TypeOK
  <2>3. CASE Write(r) /\ ~Fail(r)
    BY <2>3, GoesOnOrEnds DEF Write, Goto, Unfiled, Inv, TypeOK
  <2>4. CASE Sync(r) /\ ~Fail(r)
    BY <2>4, GoesOnOrEnds DEF Sync, Goto, Unfiled, Inv, TypeOK
  <2>5. CASE Return(r) \/ Kill(r)
    BY <2>5, GoesOnOrEnds DEF Return, Kill, Goto, Inv, TypeOK
  <2>6. CASE (Write(r) \/ Sync(r)) /\ Fail(r)
    BY <2>1, <2>6 DEF Write, Sync
  <2>7. CASE Rename(r)
    BY <2>1, <2>7, RenameRotates DEF Rename
  <2>8. CASE RemoveOldest(r)
    BY <2>1, <2>8, RemoveRotates DEF RemoveOldest
  <2> QED BY <1>4, <2>2, <2>3, <2>4, <2>5, <2>6, <2>7, <2>8, BeginRotates, ListDirRotates
<1> QED BY <1>1, <1>2, <1>3, <1>4 DEF Next

\* What rotation relies on holds throughout.
LEMMA RotatesThroughout == Spec => []Rotates
BY Invariance, RotatesInit, NextRotates, PTL DEF Spec

\* The two ways a run returns its path.
LEMMA ReturnsBy ==
  ASSUME Inv, Next, NEW r \in Runs, Returns(r)
  PROVE  Return(r) \/ Keep = 0
<1>1. pc[r] # "writing" /\ pc'[r] = "writing"
  BY DEF Returns
<1>2. ~PowerFailure /\ ~SetClockBack
  BY <1>1 DEF PowerFailure, SetClockBack, runVars
<1>3. PICK q \in Runs :
             \/ Begin(q) \/ CreateTemp(q) \/ Write(q) \/ Sync(q) \/ Rename(q)
             \/ ListDir(q) \/ RemoveOldest(q) \/ Return(q) \/ Kill(q)
  BY <1>2 DEF Next
<1>4. Rename(q) => Keep = 0
  BY <1>1, KeepAssumption DEF Rename, Fail, Goto, Inv, TypeOK
<1>5. Return(q) => q = r
  BY <1>1 DEF Return, Goto, Inv, TypeOK
<1>6. ~Begin(q) /\ ~CreateTemp(q) /\ ~Write(q) /\ ~Sync(q) /\ ~ListDir(q) /\ ~RemoveOldest(q) /\ ~Kill(q)
  BY <1>1 DEF Begin, CreateTemp, Write, Sync, ListDir, RemoveOldest, Kill, Fail, Goto, Inv, TypeOK
<1> QED BY <1>3, <1>4, <1>5, <1>6

\* With any number of runs sharing the directory, failing or killed at any
\* step, a run on a steady clock writes to the console only with its snapshot in
\* the directory, or with Keep snapshots there that were finished after it began
\* (snapshot.go:14-16).
THEOREM WritersHaveSnapshots == Spec => SteadyWritesHaveSnapshot
<1>1. ASSUME Inv, Rotates, [Next]_vars, NEW r \in Runs, Returns(r), backs = 0
      PROVE  \/ name[r] \in DOMAIN files
             \/ Cardinality({t \in DOMAIN files : files[t].seq > since[r]}) >= Keep
  <2> SUFFICES ASSUME name[r] \notin DOMAIN files PROVE Cardinality(After(r)) >= Keep
    BY DEF After
  <2>1. After(r) \in SUBSET Times
    BY <1>1 DEF After, Inv, TypeOK
  <2>2. Next
    BY <1>1 DEF Returns, vars, runVars
  <2>3. CASE Keep = 0
    BY <2>1, <2>3, TimesAreFinite
  <2>4. CASE Return(r)
    <3>1. pc[r] = "rotate" /\ Steady
      BY <1>1, <2>4 DEF Return, Rotates
    <3>2. Cardinality(Above(name[r])) >= Keep
      <4>1. name[r] \in Gone
        BY <1>1, <3>1 DEF Gone, Filed, Inv, TypeOK
      <4> QED BY <3>1, <4>1 DEF Steady, KeepLeft
    <3>3. Above(name[r]) \subseteq After(r)
      <4> SUFFICES ASSUME NEW t \in DOMAIN files, t > name[r] PROVE files[t].seq > since[r]
        BY DEF Above, After
      <4>1. t \in Nat /\ name[r] \in Nat /\ files[t].seq \in Nat /\ since[r] \in Nat
        BY <1>1, BoundAssumption DEF Inv, TypeOK, File
      <4>2. files[t].seq <= since[r] => t < name[r]
        BY <3>1 DEF Steady, Later, Before
      <4> QED BY <4>1, <4>2
    <3>4. Cardinality(Above(name[r])) <= Cardinality(After(r)) /\ Cardinality(Above(name[r])) \in Nat
          /\ Cardinality(After(r)) \in Nat
      BY <2>1, <3>3, TimesAreFinite
    <3> QED BY <3>2, <3>4, KeepAssumption
  <2> QED BY <1>1, <2>2, <2>3, <2>4, ReturnsBy
<1>2. Inv /\ Rotates /\ [Next]_vars =>
        [\A r \in Runs : Returns(r) /\ backs = 0 =>
           \/ name[r] \in DOMAIN files
           \/ Cardinality({t \in DOMAIN files : files[t].seq > since[r]}) >= Keep]_vars
  BY <1>1
<1> QED BY Invariance, RotatesThroughout, <1>2, PTL DEF Spec, SteadyWritesHaveSnapshot

\* With any number of runs sharing the directory, a run on a steady clock that
\* returns its path leaves fewer than Keep of what was there when it began, also
\* of what killed and failed runs left over (snapshot.go, pruneSnapshots).
THEOREM DirectoryStaysSmall == Spec => RotationCatchesUp
<1>1. ASSUME Inv, Rotates, [Next]_vars, NEW r \in Runs, Returns(r), backs = 0, Keep > 0
      PROVE  Cardinality({t \in DOMAIN files : files[t].seq <= since[r]}) < Keep
  <2> SUFFICES Cardinality(Before(r)) < Keep
    BY DEF Before
  <2>1. Next
    BY <1>1 DEF Returns, vars, runVars
  <2>2. Return(r)
    BY <1>1, <2>1, ReturnsBy, KeepAssumption
  <2>3. pc[r] = "rotate" /\ ~TooMany(r) /\ Steady
    BY <1>1, <2>2 DEF Return, Rotates
  <2>4. listed[r] \in SUBSET Times
    BY <1>1 DEF Inv, TypeOK
  <2>5. Before(r) \subseteq listed[r]
    BY <2>3 DEF Steady, Complete
  <2>6. CASE Before(r) = {}
    BY <1>1, <2>6, FS_EmptySet, KeepAssumption
  <2>7. CASE Before(r) # {}
    <3>1. name[r] \in After(r)
      BY <2>3, <2>7 DEF Steady, Complete, Filed
    <3>2. name[r] \in listed[r]
      BY <2>3, <3>1 DEF Steady, Complete, After
    <3>3. name[r] \notin Before(r)
      BY <1>1, <3>1 DEF After, Before, Inv, TypeOK, File
    <3>4. Before(r) \subseteq listed[r] \ {name[r]}
      BY <2>5, <3>3
    <3>5. /\ IsFiniteSet(listed[r]) /\ Cardinality(listed[r]) \in Nat
          /\ Cardinality(listed[r]) <= Keep
      BY <2>3, <2>4, TimesAreFinite, KeepAssumption DEF TooMany
    <3>6. Cardinality(listed[r] \ {name[r]}) = Cardinality(listed[r]) - 1
      BY <3>2, <3>5, FS_RemoveElement
    <3>7. /\ Cardinality(Before(r)) \in Nat
          /\ Cardinality(Before(r)) <= Cardinality(listed[r] \ {name[r]})
      BY <2>4, <3>4, TimesAreFinite
    <3> QED BY <3>5, <3>6, <3>7, KeepAssumption
  <2> QED BY <2>6, <2>7
<1>2. Inv /\ Rotates /\ [Next]_vars =>
        [\A r \in Runs : Returns(r) /\ backs = 0 /\ Keep > 0 =>
           Cardinality({t \in DOMAIN files : files[t].seq <= since[r]}) < Keep]_vars
  BY <1>1
<1> QED BY Invariance, RotatesThroughout, <1>2, PTL DEF Spec, RotationCatchesUp
=============================================================================
