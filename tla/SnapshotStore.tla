----------------------------- MODULE SnapshotStore -----------------------------
(***************************************************************************)
(* The snapshot directory (cmd/unifi/snapshot.go, writeSnapshot and        *)
(* pruneSnapshots).  Each writing run saves the live site to a temporary   *)
(* file, syncs it, renames it to a name made of the time, and then removes *)
(* all but the last names.  The timer's run and one started by hand may    *)
(* share the directory; a run may be killed, the power may fail, and the   *)
(* clock may be set back.                                                  *)
(*                                                                         *)
(* What a snapshot holds, and that restoring it undoes a run, is in        *)
(* ReconcileRun.                                                           *)
(***************************************************************************)
EXTENDS Integers, FiniteSets

CONSTANTS
  Runs,       \* runs that may go on at the same time
  Keep,       \* --snapshot-keep; 0 keeps all
  MaxTime,    \* bound: readings of the clock
  MaxBack,    \* bound: times the clock is set back
  MaxCrashes  \* bound: kills and power failures

Times == 1..MaxTime
File  == [data : {"partial", "whole"}, synced : BOOLEAN, seq : Nat]

ASSUME KeepAssumption  == Keep \in Nat
ASSUME BoundAssumption == MaxTime \in Nat /\ MaxBack \in Nat /\ MaxCrashes \in Nat

VARIABLES
  files,   \* snapshot-<time>.json: by time, those that exist
  temps,   \* temporary files of running runs
  leaked,  \* temporary files nobody removes any more
  clock,
  pc,      \* per run: where it is, or how it ended
  name,    \* per run: the time in its snapshot's name
  listed,  \* per run: the names ReadDir returned and rotation has not passed
  count,   \* renames so far: the true age of a file
  since,   \* per run: count when it began (history, for the properties)
  backs, crashes

runVars == <<pc, name, listed, since>>
vars == <<files, temps, leaked, clock, runVars, count, backs, crashes>>

-----------------------------------------------------------------------------
\* Mutant: the names are sorted the other way round.
NewestName(s) == CHOOSE t \in s : \A u \in s : t >= u

Oldest(s) == CHOOSE t \in s : \A u \in s : t <= u
Without(f, k) == [x \in DOMAIN f \ {k} |-> f[x]]
With(f, k, v) == [x \in DOMAIN f \cup {k} |-> IF x = k THEN v ELSE f[x]]

Endings == {"idle", "writing", "failed", "killed"}
Goto(r, where) == pc' = [pc EXCEPT ![r] = where]

\* Mutant: no deferred Remove.
FailLeavingTemp(r) ==
  /\ Goto(r, "failed")
  /\ UNCHANGED temps
  /\ listed' = [listed EXCEPT ![r] = {}]

\* An error path: the deferred Remove drops the temporary file.
Fail(r) ==
  /\ Goto(r, "failed")
  /\ temps' = Without(temps, r)
  /\ listed' = [listed EXCEPT ![r] = {}]

-----------------------------------------------------------------------------
(* writeSnapshot *)

\* The live site is read (or cannot be), and the name fixed: the clock never
\* reads the same nanosecond twice.
Begin(r) ==
  /\ pc[r] \in Endings
  /\ since' = [since EXCEPT ![r] = count]
  /\ \/ /\ clock' \in (clock + 1)..MaxTime \ DOMAIN files
        /\ name' = [name EXCEPT ![r] = clock']
        /\ Goto(r, "temp")
     \/ Goto(r, "failed") /\ UNCHANGED <<clock, name>>
  /\ UNCHANGED <<files, temps, leaked, listed, count, backs, crashes>>

CreateTemp(r) ==
  /\ pc[r] = "temp"
  /\ temps' = With(temps, r, [data |-> "partial", synced |-> FALSE, seq |-> 0])
  /\ Goto(r, "write")
  /\ UNCHANGED <<files, leaked, clock, name, listed, count, since, backs, crashes>>

Write(r) ==
  /\ pc[r] = "write"
  /\ \/ temps' = [temps EXCEPT ![r].data = "whole"] /\ Goto(r, "sync") /\ UNCHANGED listed
     \/ Fail(r)
  /\ UNCHANGED <<files, leaked, clock, name, count, since, backs, crashes>>

\* Mutant: the file is not synced before it is renamed.
SyncSkipped(r) ==
  /\ pc[r] = "sync"
  /\ Goto(r, "rename")
  /\ UNCHANGED <<files, temps, leaked, clock, name, listed, count, since, backs, crashes>>

Sync(r) ==
  /\ pc[r] = "sync"
  /\ \/ temps' = [temps EXCEPT ![r].synced = TRUE] /\ Goto(r, "rename") /\ UNCHANGED listed
     \/ Fail(r)
  /\ UNCHANGED <<files, leaked, clock, name, count, since, backs, crashes>>

\* From here on the file is a snapshot, whatever becomes of the run.
Rename(r) ==
  /\ pc[r] = "rename"
  /\ \/ /\ files' = With(files, name[r], [temps[r] EXCEPT !.seq = count + 1])
        /\ count' = count + 1
        /\ temps' = Without(temps, r)
        /\ Goto(r, IF Keep > 0 THEN "list" ELSE "writing")
        /\ UNCHANGED listed
     \/ Fail(r) /\ UNCHANGED <<files, count>>
  /\ UNCHANGED <<leaked, clock, name, since, backs, crashes>>

-----------------------------------------------------------------------------
(* pruneSnapshots *)

ListDir(r) ==
  /\ pc[r] = "list"
  /\ listed' = [listed EXCEPT ![r] = DOMAIN files]
  /\ Goto(r, "rotate")
  /\ UNCHANGED <<files, temps, leaked, clock, name, count, since, backs, crashes>>

\* Mutant: the new file is not counted.
TooManyOld(r) == Cardinality(listed[r]) > Keep + 1

TooMany(r) == Cardinality(listed[r]) > Keep

\* The first name goes; if another run has removed it meanwhile, this one
\* fails, before it has written anything to the console.
RemoveOldest(r) ==
  /\ pc[r] = "rotate" /\ TooMany(r)
  /\ LET t == Oldest(listed[r])
     IN  IF t \in DOMAIN files
         THEN /\ files' = Without(files, t)
              /\ listed' = [listed EXCEPT ![r] = @ \ {t}]
              /\ UNCHANGED <<pc, temps>>
         ELSE Fail(r) /\ UNCHANGED files
  /\ UNCHANGED <<leaked, clock, name, count, since, backs, crashes>>

\* writeSnapshot returns the path, and the run begins to write to the console.
Return(r) ==
  /\ pc[r] = "rotate" /\ ~TooMany(r)
  /\ Goto(r, "writing")
  /\ listed' = [listed EXCEPT ![r] = {}]
  /\ UNCHANGED <<files, temps, leaked, clock, name, count, since, backs, crashes>>

-----------------------------------------------------------------------------
(* The machine *)

\* A signal runs no deferred Remove: the temporary file stays.
Kill(r) ==
  /\ pc[r] \notin Endings
  /\ crashes < MaxCrashes /\ crashes' = crashes + 1
  /\ Goto(r, "killed")
  /\ leaked' = leaked \cup (IF r \in DOMAIN temps THEN {name[r]} ELSE {})
  /\ temps' = Without(temps, r)
  /\ listed' = [listed EXCEPT ![r] = {}]
  /\ UNCHANGED <<files, clock, name, count, since, backs>>

\* Every run is gone, and what was not synced may be too.
PowerFailure ==
  /\ crashes < MaxCrashes /\ crashes' = crashes + 1
  /\ pc' = [r \in Runs |-> "killed"]
  /\ files' = [t \in DOMAIN files |-> IF files[t].synced THEN files[t]
                                      ELSE [files[t] EXCEPT !.data = "partial"]]
  /\ leaked' = leaked \cup {name[r] : r \in DOMAIN temps}
  /\ temps' = <<>>
  /\ listed' = [r \in Runs |-> {}]
  /\ UNCHANGED <<clock, name, count, since, backs>>

SetClockBack ==
  /\ backs < MaxBack /\ backs' = backs + 1
  /\ clock' \in 0..(clock - 1)
  /\ UNCHANGED <<files, temps, leaked, runVars, count, crashes>>

-----------------------------------------------------------------------------
Init ==
  /\ files = <<>> /\ temps = <<>> /\ leaked = {}
  /\ clock = 0 /\ count = 0
  /\ pc = [r \in Runs |-> "idle"]
  /\ name = [r \in Runs |-> 0]
  /\ listed = [r \in Runs |-> {}]
  /\ since = [r \in Runs |-> 0]
  /\ backs = 0 /\ crashes = 0

Next ==
  \/ \E r \in Runs : \/ Begin(r) \/ CreateTemp(r) \/ Write(r) \/ Sync(r) \/ Rename(r)
                     \/ ListDir(r) \/ RemoveOldest(r) \/ Return(r) \/ Kill(r)
  \/ PowerFailure \/ SetClockBack

Spec == Init /\ [][Next]_vars

-----------------------------------------------------------------------------
(* Properties *)

\* Every variable has its type, and the temporary files are those of runs that
\* are writing one: none stays behind a run that failed.
TypeOK ==
  /\ DOMAIN files \subseteq Times /\ \A t \in DOMAIN files : files[t] \in File
  /\ DOMAIN temps = {r \in Runs : pc[r] \in {"write", "sync", "rename"}}
  /\ \A r \in DOMAIN temps : temps[r] \in File
  /\ leaked \subseteq Times /\ clock \in 0..MaxTime /\ count \in Nat
  /\ pc \in [Runs -> Endings \cup {"temp", "write", "sync", "rename", "list", "rotate"}]
  /\ since \in [Runs -> Nat] /\ name \in [Runs -> 0..MaxTime] /\ listed \in [Runs -> SUBSET Times]
  /\ backs \in 0..MaxBack /\ crashes \in 0..MaxCrashes

\* Whatever `unifi restore` is pointed at is a whole export: no file is ever
\* named snapshot-*.json with part of one, not even after a power failure.
SnapshotsAreWhole == \A t \in DOMAIN files : files[t].data = "whole"

Returns(r) == pc[r] # "writing" /\ pc'[r] = "writing"

\* A run writes to the console only with the snapshot it took in the directory,
\* or pushed out by Keep snapshots other runs have finished since it began
\* (snapshot.go:14-16), as long as the clock has never been set back: rotation
\* goes by names made of the time.
SteadyWritesHaveSnapshot ==
  [][\A r \in Runs : Returns(r) /\ backs = 0 =>
       \/ name[r] \in DOMAIN files
       \/ Cardinality({t \in DOMAIN files : files[t].seq > since[r]}) >= Keep]_vars

\* The directory does not grow: while the clock is steady, a run that returns a
\* path leaves fewer than Keep of the snapshots that were there when it began,
\* also those that runs killed or failing in their rotation had left over.
RotationCatchesUp ==
  [][\A r \in Runs : Returns(r) /\ backs = 0 /\ Keep > 0 =>
       Cardinality({t \in DOMAIN files : files[t].seq <= since[r]}) < Keep]_vars
=============================================================================
