----------------------------- MODULE ReconcileRun -----------------------------
(***************************************************************************)
(* The life of one `unifi` run (cmd/unifi/main.go, reconcile; plan.go, the *)
(* reconciler): a planning pass that writes nothing, the two guards, the   *)
(* snapshot, and the pass that writes, one console request at a time,      *)
(* while somebody edits the console in its UI, requests fail or lose their *)
(* answer, and the process is killed.                                      *)
(*                                                                         *)
(* The resource types (wifi, firewall policies, ...) share one shape: read *)
(* the list, walk the declared entries, prune the rest.  Here they are the *)
(* elements of the sequence Kinds, and an object is a name and a value.    *)
(***************************************************************************)
EXTENDS Integers, FiniteSets, Sequences

CONSTANTS
  Kinds,        \* the resource types, in the order run() reconciles them
  Names,        \* identities of objects within a kind
  Values,       \* what an object's configuration can be
  Opaque,       \* the <<kind, value>> pairs the schema cannot express
  Ids,          \* ids the console assigns; a gone id is not assigned again
                \* while a run still remembers it
  NoObject,     \* live[i] when no object has id i; saved when there is no file
  Unset,        \* want[k] when no entry declares key k
  Sites,        \* the consoles a behaviour may start from
  Commands,     \* the instance documents, and the options `diff` or `sync`
                \* may be started on each with
  RestoreOptions, \* those of `restore`, or of `diff` fed the snapshot
  MaxEdits,     \* bound: edits made in the console UI
  MaxFaults     \* bound: failed or unanswered requests, and kills

KindSet == {Kinds[s] : s \in DOMAIN Kinds}
Keys    == KindSet \X Names
Origins == {"USER_DEFINED", "SYSTEM_DEFINED"}
Object  == [kind : KindSet, name : Names, value : Values, origin : Origins]
Console == [Ids -> Object \cup {NoObject}]
Content == [Keys -> Values \cup {Unset}]

\* A #Site document: the sections it has, its entries, the approved deletions.
Document == [sections : SUBSET KindSet, want : Content, deletions : SUBSET Keys]

\* options: what the command line asked reconcile to do; diff says that the
\* command is `diff`, not `sync` or `restore`.
Option == [diff : BOOLEAN, prune : BOOLEAN, dryRun : BOOLEAN, force : BOOLEAN,
           maxChanges : Nat, snapshotDir : BOOLEAN]

\* run() lists each type once; a console does not hold two objects of a kind
\* under one name.
ASSUME KindsAssumption ==
  /\ Kinds \in Seq(STRING) /\ Kinds # <<>>
  /\ \A s, t \in DOMAIN Kinds : Kinds[s] = Kinds[t] => s = t
ASSUME ValuesAssumption == Opaque \subseteq KindSet \X Values /\ Unset \notin Values
ASSUME ObjectAssumption == NoObject \notin Object /\ NoObject \notin Content
ASSUME SitesAssumption ==
  /\ Sites \subseteq Console
  /\ \A c \in Sites : \A i, j \in Ids :
       c[i] # NoObject /\ c[j] # NoObject /\ c[i].kind = c[j].kind /\ c[i].name = c[j].name
       => i = j
\* `diff` is a dry run, and has no --force and no --snapshot-dir.
ASSUME InputsAssumption ==
  /\ Commands \subseteq [doc : Document, opts : Option]
  /\ RestoreOptions \subseteq Option
  /\ \A o \in RestoreOptions \cup {c.opts : c \in Commands} :
       o.diff => o.dryRun /\ ~o.force /\ ~o.snapshotDir
ASSUME BoundsAssumption == MaxEdits \in Nat /\ MaxFaults \in Nat

VARIABLES
  live,       \* the console: what each id holds
  doc,        \* want: the document of the current run
  opts,       \* its options
  pass,       \* "dry" | "plan" | "write": which reconciler is running
  pc,         \* where in the pass the run is, or how it ended
  step,       \* position in Kinds
  existing,   \* the list the current step read, never read again
  todo,       \* declared names the step has not handled yet
  victims,    \* ids pruneList has not handled yet
  lines,      \* plan lines of this pass, other than OK
  unlisted,   \* prune candidates `deletions` does not approve
  draft,      \* the export being read for the snapshot
  saved,      \* the document in the newest snapshot file
  edits,      \* edits made so far
  faults      \* faults so far

\* History: what the properties remember about the current run.
VARIABLES
  source,     \* "instance" | "snapshot": where doc came from
  planned,    \* the lines of the planning pass
  applied,    \* requests the console carried out for the run
  touched,    \* ids edited in the UI since the run started
  disturbed,  \* number of UI edits since the run started
  before,     \* what the site held when saved was written
  quiet       \* no UI edit since the run that wrote saved started

passVars == <<pass, pc, step, existing, todo, victims, lines, unlisted>>
fileVars == <<draft, saved, before>>
inputVars == <<doc, opts, source>>
editVars == <<edits, touched, disturbed, quiet>>
vars == <<live, inputVars, passVars, fileVars, editVars, faults, planned, applied>>

-----------------------------------------------------------------------------
(* Reading the console *)

KeyOf(o)      == <<o.kind, o.name>>

\* policyUnmodelledFields: only firewall policies are checked for it.
IsOpaque(o) == <<o.kind, o.value>> \in Opaque

Present(c)    == {i \in Ids : c[i] # NoObject}
Holders(c, k) == {i \in Present(c) : KeyOf(c[i]) = k}

\* What a console holds, by key. Names are unique within a kind.
ContentOf(c) == [k \in Keys |-> IF Holders(c, k) = {} THEN Unset
                                ELSE c[CHOOSE i \in Holders(c, k) : TRUE].value]

Nothing  == [i \in Ids |-> NoObject]
NoEntry  == [k \in Keys |-> Unset]
Kind     == Kinds[step]

\* Mutant: only a run started with --dry-run is kept from writing.
DryRunOfDiff == pass = "dry"

DryRun   == pass # "write"
Declared == {n \in Names : doc.want[<<Kind, n>>] # Unset}

Endings == {"idle", "clean", "drift", "refused", "applied", "failed", "stopped", "killed"}
Running == pc \notin Endings

End(how) ==
  /\ pc' = how /\ step' = 1
  /\ existing' = Nothing /\ todo' = {} /\ victims' = {}

BeginPass(p) ==
  /\ pass' = p /\ pc' = "list" /\ step' = 1
  /\ existing' = Nothing /\ todo' = {} /\ victims' = {}
  /\ lines' = {} /\ unlisted' = {}

-----------------------------------------------------------------------------
(* One console write *)

\* A POST needs a free name; PUT and DELETE address an id that still exists,
\* and a PUT writes the declared name back.
Acceptable(verb, i, after) ==
  /\ verb # "CREATE" => live[i] # NoObject
  /\ verb # "DELETE" => Holders(live, KeyOf(after)) \subseteq {i}

\* client.do. "done": carried out and answered; "lost": carried out, but the
\* answer never arrives; "rejected": an error, and nothing changed.
Send(verb, i, after, answer) ==
  /\ answer \in {"done", "lost"} => Acceptable(verb, i, after)
  /\ IF answer = "done" \/ ~Acceptable(verb, i, after)
     THEN UNCHANGED faults
     ELSE faults < MaxFaults /\ faults' = faults + 1
  /\ IF answer = "rejected"
     THEN UNCHANGED <<live, applied>>
     ELSE /\ live' = [live EXCEPT ![i] = after]
          /\ applied' = applied \cup {[verb |-> verb, id |-> i, pre |-> live[i]]}

\* reconciler.mutate: a dry run sends nothing.
Mutate(verb, i, after, answer) ==
  IF DryRun THEN answer = "done" /\ UNCHANGED <<live, applied, faults>>
            ELSE Send(verb, i, after, answer)

\* Mutant: creates are counted only once they are sent.
LogSentCreates(verb, n) ==
  lines' = lines \cup (IF DryRun /\ verb = "CREATE" THEN {} ELSE {<<verb, <<Kind, n>>>>})

\* reconciler.logf: one plan line.
Log(verb, n) == lines' = lines \cup {<<verb, <<Kind, n>>>>}

-----------------------------------------------------------------------------
(* Starting a run *)

Launch(d, o, from) ==
  /\ ~Running
  /\ doc' = d /\ opts' = o /\ source' = from
  /\ BeginPass(IF o.dryRun THEN "dry" ELSE "plan")
  /\ planned' = {} /\ applied' = {}
  /\ touched' = {} /\ disturbed' = 0
  /\ UNCHANGED <<live, fileVars, edits, quiet, faults>>

\* `unifi diff` or `unifi sync` with an instance document.
StartSync == \E c \in Commands : Launch(c.doc, c.opts, "instance")

\* `unifi restore`, or `unifi diff`: the newest snapshot is the document. It has every section
\* (export writes an empty one as []) and lists no deletions.
StartRestore ==
  /\ saved # NoObject
  /\ \E o \in RestoreOptions :
       Launch([sections |-> KindSet, want |-> saved, deletions |-> {}], o, "snapshot")

-----------------------------------------------------------------------------
(* One resource type of a pass: list, declared entries, prune *)

\* GET the list. Everything below uses this copy.
List ==
  /\ pc = "list"
  /\ pc' = "declared"
  /\ existing' = [i \in Ids |-> IF live[i] # NoObject /\ live[i].kind = Kind
                                THEN live[i] ELSE NoObject]
  /\ todo' = Declared
  /\ UNCHANGED <<live, inputVars, pass, step, victims, lines, unlisted, fileVars,
                 editVars, faults, planned, applied>>

\* The declared entry n is on the list and equal.
EntryOK(n) ==
  /\ pc = "declared" /\ n \in todo
  /\ \E i \in Holders(existing, <<Kind, n>>) :
       /\ ~IsOpaque(existing[i])
       /\ existing[i].value = doc.want[<<Kind, n>>]
  /\ todo' = todo \ {n}
  /\ UNCHANGED <<live, inputVars, pass, pc, step, existing, victims, lines, unlisted,
                 fileVars, editVars, faults, planned, applied>>

\* The live object holds what the schema cannot express: a PUT would drop it.
EntryOpaque(n) ==
  /\ pc = "declared" /\ n \in todo
  /\ \E i \in Holders(existing, <<Kind, n>>) : IsOpaque(existing[i])
  /\ End("failed")
  /\ UNCHANGED <<live, inputVars, pass, lines, unlisted, fileVars, editVars, faults,
                 planned, applied>>

\* After a write: go on with the rest, or stop the run at the first error.
Continue(n, answer) ==
  IF answer = "done"
  THEN /\ todo' = todo \ {n}
       /\ UNCHANGED <<pc, step, existing, victims>>
  ELSE End("failed")

CreateEntry(n) ==
  /\ pc = "declared" /\ n \in todo
  /\ Holders(existing, <<Kind, n>>) = {}
  /\ Log("CREATE", n)
  /\ \E i \in Ids, answer \in {"done", "lost", "rejected"} :
       /\ live[i] = NoObject /\ existing[i] = NoObject
       /\ Mutate("CREATE", i, [kind |-> Kind, name |-> n, value |-> doc.want[<<Kind, n>>],
                               origin |-> "USER_DEFINED"], answer)
       /\ Continue(n, answer)
  /\ UNCHANGED <<inputVars, pass, unlisted, fileVars, editVars, planned>>

UpdateEntry(n) ==
  /\ pc = "declared" /\ n \in todo
  /\ \E i \in Holders(existing, <<Kind, n>>), answer \in {"done", "lost", "rejected"} :
       /\ ~IsOpaque(existing[i])
       /\ existing[i].value # doc.want[<<Kind, n>>]
       /\ Log("UPDATE", n)
       /\ Mutate("UPDATE", i, [existing[i] EXCEPT !.value = doc.want[<<Kind, n>>]], answer)
       /\ Continue(n, answer)
  /\ UNCHANGED <<inputVars, pass, unlisted, fileVars, editVars, planned>>

\* Mutant: the origin is not looked at.
PrunableOfAnyOrigin(i) ==
  opts.prune /\ Kind \in doc.sections /\ existing[i].name \notin Declared

\* Mutant: an empty section is taken for an absent one.
PrunableUnlessEmpty(i) ==
  /\ opts.prune /\ Declared # {}
  /\ existing[i].origin # "SYSTEM_DEFINED" /\ existing[i].name \notin Declared

\* pruneList: with --prune, every undeclared object of a declared section that
\* is not the console's own.
Prunable(i) ==
  /\ opts.prune /\ Kind \in doc.sections
  /\ existing[i].origin # "SYSTEM_DEFINED"
  /\ existing[i].name \notin Declared

BeginPrune ==
  /\ pc = "declared" /\ todo = {}
  /\ pc' = "prune"
  /\ victims' = {i \in Present(existing) : Prunable(i)}
  /\ UNCHANGED <<live, inputVars, pass, step, existing, todo, lines, unlisted, fileVars,
                 editVars, faults, planned, applied>>

\* approveDeletion: listed, or forced.
Approved(k) == k \in doc.deletions \/ opts.force

DeleteVictim(i) ==
  /\ pc = "prune" /\ i \in victims
  /\ Approved(KeyOf(existing[i]))
  /\ Log("DELETE", existing[i].name)
  /\ \E answer \in {"done", "lost", "rejected"} :
       /\ Mutate("DELETE", i, NoObject, answer)
       /\ IF answer = "done"
          THEN victims' = victims \ {i} /\ UNCHANGED <<pc, step, existing, todo>>
          ELSE End("failed")
  /\ UNCHANGED <<inputVars, pass, unlisted, fileVars, editVars, planned>>

\* Planning: an unapproved candidate is recorded and skipped. Writing: the
\* console changed after the plan, and the run stops rather than delete it.
RefuseVictim(i) ==
  /\ pc = "prune" /\ i \in victims
  /\ ~Approved(KeyOf(existing[i]))
  /\ \/ /\ DryRun
        /\ unlisted' = unlisted \cup {KeyOf(existing[i])}
        /\ Log("DELETE", existing[i].name)
        /\ victims' = victims \ {i}
        /\ UNCHANGED <<pc, step, existing, todo>>
     \/ /\ ~DryRun
        /\ End("stopped")
        /\ UNCHANGED <<lines, unlisted>>
  /\ UNCHANGED <<live, inputVars, pass, fileVars, editVars, faults, planned, applied>>

PassDone == pc = "prune" /\ victims = {} /\ step = Len(Kinds)

\* Mutant: one type too many.
NextKindOffByOne ==
  /\ pc = "prune" /\ victims = {} /\ step <= Len(Kinds)
  /\ pc' = "list" /\ step' = step + 1
  /\ existing' = Nothing
  /\ UNCHANGED <<live, inputVars, pass, todo, victims, lines, unlisted, fileVars,
                 editVars, faults, planned, applied>>

NextKind ==
  /\ pc = "prune" /\ victims = {} /\ step < Len(Kinds)
  /\ pc' = "list" /\ step' = step + 1
  /\ existing' = Nothing
  /\ UNCHANGED <<live, inputVars, pass, todo, victims, lines, unlisted, fileVars,
                 editVars, faults, planned, applied>>

-----------------------------------------------------------------------------
(* reconcile: between and after the passes *)

\* Mutant: updates are not counted.
DestructiveDeletes(ls) == {l \in ls : l[1] = "DELETE"}

\* deletes + updates, as logf counts them.
Destructive(ls) == {l \in ls : l[1] \in {"DELETE", "UPDATE"}}

MassChange(ls) == Cardinality(Destructive(ls)) > opts.maxChanges

\* Mutant: the list of deletions is not enforced.
RefusedByCount == ~opts.force /\ MassChange(lines)

\* refusals: unlisted candidates, or more changes than --max-changes.
Refused ==
  /\ ~opts.force
  /\ unlisted # {} \/ MassChange(lines)

\* Mutant: a plan of creates is taken for an empty one.
NothingDestructive == Destructive(lines) = {}

\* No creates, updates or deletes to write.
NothingToDo == lines = {}

RunEnds ==
  UNCHANGED <<live, inputVars, pass, lines, unlisted, fileVars, editVars, faults, applied>>

\* A dry run returns whether it printed a change (reconciler.changed).
FinishDry ==
  /\ pass = "dry" /\ PassDone
  /\ End(IF lines = {} THEN "clean" ELSE "drift")
  /\ RunEnds /\ UNCHANGED planned

\* After planning: refused, or nothing to write.
FinishPlan ==
  /\ pass = "plan" /\ PassDone
  /\ Refused \/ NothingToDo
  /\ End(IF Refused THEN "refused" ELSE "clean")
  /\ planned' = lines
  /\ RunEnds

\* Mutant: only a plan that deletes is worth a snapshot.
TakesSnapshotToDelete == opts.snapshotDir /\ \E l \in lines : l[1] = "DELETE"

TakesSnapshot == opts.snapshotDir

\* After planning: on to the snapshot, or to the writing pass without one.
AcceptPlan ==
  /\ pass = "plan" /\ PassDone
  /\ ~Refused /\ ~NothingToDo
  /\ planned' = lines
  /\ IF TakesSnapshot
     THEN /\ pc' = "snapshot" /\ step' = 1
          /\ existing' = Nothing
          /\ draft' = NoEntry
          /\ UNCHANGED <<pass, todo, victims, lines, unlisted>>
     ELSE /\ BeginPass("write")
          /\ UNCHANGED draft
  /\ UNCHANGED <<live, inputVars, saved, before, editVars, faults, applied>>

\* Mutant: the snapshot holds the declared objects only.
ExportedManaged(k) ==
  k[1] = Kind /\ doc.want[k] # Unset /\ <<Kind, ContentOf(live)[k]>> \notin Opaque

\* What the export takes from the list it is reading.
Exported(k) == k[1] = Kind /\ <<Kind, ContentOf(live)[k]>> \notin Opaque

\* buildExport reads one list after the other; what the schema cannot express
\* is left out.
SnapshotKind ==
  /\ pc = "snapshot"
  /\ draft' = [k \in Keys |->
                 IF Exported(k) THEN ContentOf(live)[k] ELSE draft[k]]
  /\ IF step < Len(Kinds) THEN step' = step + 1 /\ UNCHANGED pc
                          ELSE step' = 1 /\ pc' = "commit"
  /\ UNCHANGED <<live, inputVars, pass, existing, todo, victims, lines, unlisted, saved,
                 before, editVars, faults, planned, applied>>

\* The temporary file is synced, closed and renamed; old files are rotated
\* out. The writing pass follows, or the rotation fails and the run stops.
CommitSnapshot ==
  /\ pc = "commit"
  /\ saved' = draft /\ draft' = NoEntry
  /\ before' = ContentOf(live) /\ quiet' = (disturbed = 0)
  /\ \/ BeginPass("write") /\ UNCHANGED faults
     \/ /\ faults < MaxFaults /\ faults' = faults + 1
        /\ End("failed")
        /\ UNCHANGED <<pass, lines, unlisted>>
  /\ UNCHANGED <<live, inputVars, edits, touched, disturbed, planned, applied>>

FinishWrite ==
  /\ pass = "write" /\ PassDone
  /\ End("applied")
  /\ RunEnds /\ UNCHANGED planned

\* main and the commands: `diff` turns a printed change into a status of its
\* own, a dry run of `sync` or `restore` drops it; any other end is an error.
ExitStatus ==
  CASE pc \in {"clean", "applied"} -> 0
    [] pc = "drift" -> IF opts.diff THEN 2 ELSE 0
    [] OTHER -> 1

\* A GET that fails, or a snapshot file that cannot be written.
Fail ==
  /\ pc \in {"list", "snapshot", "commit"}
  /\ faults < MaxFaults /\ faults' = faults + 1
  /\ End("failed")
  /\ draft' = NoEntry
  /\ UNCHANGED <<live, inputVars, pass, lines, unlisted, saved, before, editVars,
                 planned, applied>>

\* SIGTERM at the unit's TimeoutStartSec, a reboot, ^C.
Kill ==
  /\ Running
  /\ faults < MaxFaults /\ faults' = faults + 1
  /\ End("killed")
  /\ draft' = NoEntry
  /\ UNCHANGED <<live, inputVars, pass, lines, unlisted, saved, before, editVars,
                 planned, applied>>

-----------------------------------------------------------------------------
(* Somebody in the console UI, or another run *)

Edit(i, after) ==
  /\ edits < MaxEdits /\ edits' = edits + 1
  /\ after # NoObject => Holders(live, KeyOf(after)) \subseteq {i}
  /\ live' = [live EXCEPT ![i] = after]
  /\ touched' = touched \cup {i}
  /\ disturbed' = disturbed + 1
  /\ quiet' = FALSE
  /\ UNCHANGED <<inputVars, passVars, fileVars, faults, planned, applied>>

EditCreate ==
  \E i \in Ids, k \in Keys, v \in Values :
    /\ live[i] = NoObject /\ existing[i] = NoObject
    /\ Edit(i, [kind |-> k[1], name |-> k[2], value |-> v, origin |-> "USER_DEFINED"])

EditChange ==
  \E i \in Present(live), n \in Names, v \in Values :
    /\ live[i].name # n \/ live[i].value # v
    /\ live[i].origin = "SYSTEM_DEFINED" => live[i].name = n
    /\ Edit(i, [live[i] EXCEPT !.name = n, !.value = v])

EditDelete ==
  \E i \in Present(live) :
    /\ live[i].origin = "USER_DEFINED"
    /\ Edit(i, NoObject)

-----------------------------------------------------------------------------
Init ==
  /\ live \in Sites
  /\ doc = [sections |-> {}, want |-> NoEntry, deletions |-> {}]
  /\ opts = [diff |-> FALSE, prune |-> FALSE, dryRun |-> TRUE, force |-> FALSE,
             maxChanges |-> 0, snapshotDir |-> FALSE]
  /\ source = "instance"
  /\ pass = "dry" /\ pc = "idle" /\ step = 1
  /\ existing = Nothing /\ todo = {} /\ victims = {}
  /\ lines = {} /\ unlisted = {} /\ planned = {} /\ applied = {}
  /\ draft = NoEntry /\ saved = NoObject /\ before = NoEntry
  /\ edits = 0 /\ touched = {} /\ disturbed = 0 /\ quiet = FALSE
  /\ faults = 0

\* The steps of a pass over one resource type.
PassStep ==
  \/ List \/ BeginPrune \/ NextKind
  \/ \E n \in Names : EntryOK(n) \/ EntryOpaque(n) \/ CreateEntry(n) \/ UpdateEntry(n)
  \/ \E i \in Ids : DeleteVictim(i) \/ RefuseVictim(i)

RunStep ==
  \/ PassStep
  \/ FinishDry \/ FinishPlan \/ AcceptPlan \/ SnapshotKind \/ CommitSnapshot \/ FinishWrite

Outside == EditCreate \/ EditChange \/ EditDelete

Next == StartSync \/ StartRestore \/ RunStep \/ Fail \/ Kill \/ Outside

Spec == Init /\ [][Next]_vars

\* A run in progress goes on, and the timer starts the next one.
FairSpec == Spec /\ WF_vars(RunStep) /\ WF_vars(StartSync)

-----------------------------------------------------------------------------
(* Properties *)

Request == [verb : {"CREATE", "UPDATE", "DELETE"}, id : Ids, pre : Object \cup {NoObject}]
Line    == {"CREATE", "UPDATE", "DELETE"} \X Keys

\* Every variable has its type.
TypeOK ==
  /\ live \in Console /\ existing \in Console
  /\ doc \in Document /\ opts \in Option /\ source \in {"instance", "snapshot"}
  /\ pass \in {"dry", "plan", "write"}
  /\ pc \in Endings \cup {"list", "declared", "prune", "snapshot", "commit"}
  /\ step \in 1..Len(Kinds)
  /\ todo \subseteq Names /\ victims \subseteq Ids
  /\ lines \subseteq Line /\ planned \subseteq Line /\ unlisted \subseteq Keys
  /\ applied \subseteq Request
  /\ draft \in Content /\ before \in Content /\ saved \in Content \cup {NoObject}
  /\ edits \in Nat /\ faults \in Nat /\ disturbed \in Nat
  /\ touched \subseteq Ids /\ quiet \in BOOLEAN

\* Fail closed (main.go:238-244): a request reaches the console only in the
\* writing pass of a run whose whole plan passed both guards, or was forced.
WritesPassedGuards ==
  applied # {} =>
    /\ pass = "write" /\ ~opts.dryRun
    /\ \/ opts.force
       \/ /\ \A l \in planned : l[1] = "DELETE" => l[2] \in doc.deletions
          /\ ~MassChange(planned)

\* Whatever happens on the console between the list and the request, a run
\* never deletes one of the console's own objects, and deletes only under
\* --prune, from a declared section; unless somebody edited that very object
\* during the run, it is undeclared and its key is listed (or forced).
SafeDeletions ==
  \A a \in applied :
    a.verb = "DELETE" =>
      /\ a.pre # NoObject /\ a.pre.origin = "USER_DEFINED"
      /\ opts.prune /\ a.pre.kind \in doc.sections
      /\ a.id \notin touched =>
           /\ doc.want[KeyOf(a.pre)] = Unset
           /\ Approved(KeyOf(a.pre))

\* With --snapshot-dir, everything a run overwrote or deleted is in the newest
\* snapshot as it was, unless somebody edited that object during the run or
\* the schema cannot express it.
SnapshotHoldsOverwritten ==
  opts.snapshotDir =>
    \A a \in applied :
      /\ a.verb # "CREATE" /\ a.id \notin touched
      /\ ~IsOpaque(a.pre)
      => saved # NoObject /\ saved[KeyOf(a.pre)] = a.pre.value

\* The writing pass never asks the guards again, so what bounds it is the plan
\* and the edits made since: each edit adds at most one change.
BlastRadius ==
  opts.force \/
    Cardinality({a \in applied : a.verb # "CREATE"}) <= opts.maxChanges + disturbed

\* docs/unifi.md: a dry run prints exactly what sync would do. While nobody
\* edits the console, the writing pass does nothing that was not planned, is
\* never stopped by a deletion, and if it ends it has done all of it.
PlanIsExact ==
  pass = "write" /\ disturbed = 0 =>
    /\ lines \subseteq planned
    /\ pc # "stopped"
    /\ pc = "applied" => lines = planned

\* c is what document d asks for under options o.
Settled(c, d, o) ==
  \A k \in Keys :
    IF d.want[k] # Unset THEN ContentOf(c)[k] = d.want[k]
    ELSE o.prune /\ k[1] \in d.sections =>
           \A i \in Holders(c, k) : c[i].origin = "SYSTEM_DEFINED"

\* The exit status means what main.go:15-17 and the help of `diff` say. On a
\* console nobody edits: 2 comes of `diff` alone and means that the console is
\* not what the document asks for; 0 of `diff`, and of a `sync` or `restore`
\* that may write, means that it is, if need be because the run made it so. The
\* 0 of `sync --dry-run` and `restore --dry-run` says nothing of the console.
ExitStatusIsTrue ==
  disturbed = 0 =>
    /\ ExitStatus = 2 => opts.diff /\ ~Settled(live, doc, opts)
    /\ ExitStatus = 0 /\ (opts.diff \/ ~opts.dryRun) => Settled(live, doc, opts)

\* The snapshot was taken of a site the schema can express.
Expressible == \A k \in Keys : <<k[1], before[k]>> \notin Opaque

\* Undo (README, "Restoring"): after a run that took a snapshot, however it
\* ended, `restore --prune --force` run to its end puts the site back as it
\* was, provided nobody edits the console meanwhile and the schema can express
\* the site. Where there is nothing to put back, the snapshot fed straight into
\* `diff` (export.go:12-13) or `restore --dry-run` makes it print no change.
UndoRestores ==
  source = "snapshot" /\ quiet /\ Expressible =>
    /\ pc \in {"applied", "clean"} /\ opts.prune /\ opts.force /\ ~opts.snapshotDir
       => ContentOf(live) = before
    /\ pc = "drift" => ContentOf(live) # before

\* Once edits and faults cease, the timer's runs bring the console to the
\* document and it stays there: a partial, killed or unanswered run is made
\* good by the next.
EventuallySettled ==
  \A c \in Commands : <>[]Settled(live, c.doc, c.opts)

-----------------------------------------------------------------------------
(* The abstract specification *)

Phase == IF ~Running THEN "idle" ELSE IF pass = "write" THEN "writing" ELSE "planning"

Contract == INSTANCE ConsoleContract WITH Types <- KindSet, phase <- Phase

\* The promise to whoever else works on the console (main.go:238-244, README
\* "Guards, snapshots and restore"): whatever fails, gets lost or is edited at
\* whatever moment, each step of a run is nothing to the console, or one
\* declared object made or brought to its declared value, or one approved
\* deletion, and none before the plan is accepted.
ImplementsContract == Contract!Spec
=============================================================================
