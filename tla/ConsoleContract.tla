--------------------------- MODULE ConsoleContract ---------------------------
(***************************************************************************)
(* What a run of `unifi` promises to whoever else works on the console:    *)
(* nothing happens to it before the run has made up its mind, and from     *)
(* then on one object at a time, by three kinds of change only.  How the   *)
(* run reads lists, plans, counts, saves and fails is no part of it:       *)
(* ReconcileRun implements this specification.                             *)
(***************************************************************************)
CONSTANTS
  Types,      \* the resource types
  Names,      \* identities within a type
  Values,     \* configurations
  Ids,        \* ids of objects on the console
  NoObject,   \* live[i] when no object has id i
  Unset       \* want[k] when nothing declares k

Keys     == Types \X Names
Owners   == {"USER_DEFINED", "SYSTEM_DEFINED"}
Object   == [kind : Types, name : Names, value : Values, origin : Owners]
KeyOf(o) == <<o.kind, o.name>>

VARIABLES
  live,     \* the console
  doc,      \* what the run was asked for: a document,
  opts,     \* and the options
  phase,    \* "idle" | "planning" | "writing"
  touched   \* objects somebody else changed since the run started

vars == <<live, doc, opts, phase, touched>>

Wanted(k) == doc.want[k] # Unset

\* No two objects have one name.
Free(k, i) == \A j \in Ids \ {i} : live[j] # NoObject => KeyOf(live[j]) # k

-----------------------------------------------------------------------------
Init == phase = "idle" /\ touched = {}

Start ==
  /\ phase = "idle" /\ phase' = "planning"
  /\ touched' = {} /\ UNCHANGED live   \* of any document and options

\* The plan is made and found good. A run asked for a preview gets no further.
Accept ==
  /\ phase = "planning" /\ ~opts.dryRun /\ phase' = "writing"
  /\ UNCHANGED <<live, doc, opts, touched>>

\* Done, refused, failed or killed.
Stop ==
  /\ phase # "idle" /\ phase' = "idle"
  /\ UNCHANGED <<live, doc, opts, touched>>

\* An object that is declared and was not there.
Add(i, after) ==
  /\ live[i] = NoObject
  /\ after \in Object /\ after.origin = "USER_DEFINED"
  /\ Wanted(KeyOf(after)) /\ after.value = doc.want[KeyOf(after)] /\ Free(KeyOf(after), i)

\* An object gets the declared value, and keeps its owner. Its name changes
\* only if somebody else has changed it meanwhile.
Alter(i, after) ==
  /\ live[i] # NoObject
  /\ after \in Object
  /\ after.kind = live[i].kind /\ after.origin = live[i].origin
  /\ i \notin touched => after.name = live[i].name
  /\ Wanted(KeyOf(after)) /\ after.value = doc.want[KeyOf(after)] /\ Free(KeyOf(after), i)

\* An object the user made, of a declared section, goes if pruning was asked
\* for: with approval, unless somebody else has just changed it.
Remove(i, after) ==
  /\ live[i] # NoObject /\ after = NoObject
  /\ live[i].origin = "USER_DEFINED"
  /\ opts.prune /\ live[i].kind \in doc.sections
  /\ i \notin touched =>
       /\ ~Wanted(KeyOf(live[i]))
       /\ KeyOf(live[i]) \in doc.deletions \/ opts.force

\* The answer to a request may get lost, and the run end with it.
Write(i) ==
  /\ phase = "writing" /\ phase' \in {"writing", "idle"}
  /\ \E after \in Object \cup {NoObject} :
       /\ Add(i, after) \/ Alter(i, after) \/ Remove(i, after)
       /\ live' = [live EXCEPT ![i] = after]
  /\ UNCHANGED <<doc, opts, touched>>

\* Somebody else makes, changes or deletes an object, run or no run.
Edit(i) ==
  /\ \E after \in Object \cup {NoObject} : live' = [live EXCEPT ![i] = after]
  /\ touched' = touched \cup {i}
  /\ UNCHANGED <<doc, opts, phase>>

Next == Start \/ Accept \/ Stop \/ \E i \in Ids : Write(i) \/ Edit(i)

Spec == Init /\ [][Next]_vars
=============================================================================
