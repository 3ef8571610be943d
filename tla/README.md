# Specifications of armstrong

TLA+ models of the programs in this repository, checked by TLC on small
instances, with TLAPS proofs of what holds on every instance. `PROJECT.json`
lists the components, the runs, the source lines of every definition, the
findings and the hazards. File names are relative to the repository root.

    tlc -workers 2 -config Reconcile.cfg MCReconcileRun    # one run
    tlapm ReconcileRunProofs.tla                           # one module of proofs

## The system

Two command-line programs bring a remote service to a declared state.

* `cmd/unifi` reads a `#Site` document (CUE, exported to JSON) and reconciles a
  UniFi console over HTTP: `diff`, `sync`, `restore`, `export`, `lint`.
* `cmd/dns` reads a list of zones and reconciles Porkbun: `sync`, and
  `preview create|delete` for pull requests.

Neither keeps state between runs, save the snapshot files of `unifi`. Each run
is one sequential process. What makes them hard is that everything they read
can change before they act on it, that a run is dozens of independent requests
with no transaction around them, and that it may stop after any one of them.

### Inventory

| Component | State | Operations | Meets | Hard about it | What makes it correct | Module |
|---|---|---|---|---|---|---|
| `unifi` run (`main.go` `reconcile`, `plan.go` `reconciler`) | document, options, counters, prune candidates of a pass | planning pass, guards, snapshot, writing pass | the console, the snapshot directory, the timer | the writing pass reads everything again; no transaction; kill at any request | nothing is written unless the guards passed; deletions are approved; the plan is what is written; exit status; the next run repairs | `ReconcileRun` |
| wifi, DNS policies (`plan.go`) | the list just read | create, update, prune | `reconciler` | list read once, used for many writes | the above | `ReconcileRun` |
| networks and zones (`plan.go` `syncNetworks`, `createZones`, `syncZones`) | `networkIDs`, `createdZones`, `placed`, `homes` | create zones, write networks, set membership, prune | each other: a network is born into a zone, a zone lists networks | the dry run must predict what its own creates would change | plan = write; no network detached or stranded; moves are counted | `ZonePass` |
| firewall policies (`syncFirewallPolicies`, `prunePolicies`, `reorderPolicies`) | list, clashes, policies per zone pair | create, update, prune, reorder | zones, networks by name | position matters; no id, two of one identity, inexpressible, not configurable | order as declared; refused before the first write; moves are counted | `PolicyOrder` |
| snapshots and export (`snapshot.go`, `export.go`) | `snapshot-<time>.json`, temporary files | write, sync, rename, rotate | the run, other runs, the file system | kill and power failure; two runs rotating at once; the clock | whole files only; what a run overwrites is in one; restore undoes the run | `SnapshotStore`, `ReconcileRun`, `LegacySections` |
| `dns sync` (`sync.go`, `porkbun.go`) | plan of the current zone | validate, plan, three phases of writes | Porkbun, previews | CNAME exclusivity; an edit addresses a set of records | a name keeps answering; no write fails for the CNAME rule; converges | `DnsSync` |
| `dns preview` (`preview.go`) | none | create, delete a CNAME | `dns sync` | runs concurrently with it | survives `sync --prune` | `DnsSync` |
| client (`client.go`) | the page being read, secrets to redact | request, paged list | console | an answer may be lost after the write; the list changes between two pages | a list nothing changes is read whole and once; otherwise the error is bounded | requests in all, `PagedList` |
| legacy sections (`legacy.go`) | clients, their networks, mDNS scope as read | write the scope, networks in between, set and clear reservations, their part of snapshot and restore | the legacy API, networks, clients that roam | addresses trade places; network ids that die; a setting partly readable; the scope comes first | approved clears only; scope before participation; one client per address; plan = write; restore undoes | `LegacySections` |
| lint, canonical form (`lint.go`, `canonical.go`) | none | predicates and sorts on one document | `reconcile` | — | — | assumption of `ZonePass` |
| NixOS module (`nix/modules/unifi-sync`) | the unit, the timer | start, retry, time out | `unifi` | kills a run at 300 s; timer and a manual start | a run per tick repairs what the last left | starts and kills in the models |
| preview apps (`.github/workflows/*-fly.yml`) | apps on Fly | create, deploy, destroy per pull request | Fly, `dns preview` | a late cleanup against a deploy | — | — |
| schemas (`schema/*.cue`) | none | validation | both programs | — | — | exclude inputs |

## The modules

Each module has the state of its component as variables, one action per step
the code takes between two things others can observe (one console request, one
file operation), and its properties at the end. `MC…` modules hold the small
instances. `\* Mutant:` operators are faulty variants of the operator that
follows each of them; nothing uses them, and replacing the operator by its
mutant makes TLC report the property `PROJECT.json` pairs it with.

**ReconcileRun** – one run after another against one console. `pass` and `pc`
are the position in `reconcile` (`main.go:245-306`): a `dry` run, or a `plan`
pass followed by the guards (`Refused`, `NothingToDo`), the snapshot
(`SnapshotKind` per list read by `buildExport`, `CommitSnapshot`) and the
`write` pass. Within a pass `List` reads one resource type, `EntryOK`,
`EntryOpaque`, `CreateEntry`, `UpdateEntry` walk the declared entries and
`DeleteVictim`, `RefuseVictim` the prune candidates, all from that one list
(`existing`). `Mutate` is the point every write passes: it sends nothing in a
planning pass. `Send` gives each request three fates: carried out and answered;
carried out, answer lost; refused or never arrived. `EditCreate/Change/Delete`
are somebody in the console UI, at any moment. Resource types are elements of
the sequence `Kinds`; a configuration is one value. `diff` is a dry run whose
command turns printed changes into exit status 2; a dry run of `sync` or `restore`
exits with 0 either way (`ExitStatus`, `main.go:129-195`). `Opaque` has the pairs the
schema cannot express; only firewall policies are examined for that
(`policyUnmodelledFields`).

**ConsoleContract** – what a run promises to whoever else works on the console,
in five variables: nothing is written before a plan was accepted, then one
object at a time, by adding a declared object, giving one its declared value, or
removing one that may be removed. `ReconcileRun` INSTANCEs it as `Contract`: its
`Phase` is worked out from `pass` and `pc`, `touched` is its history variable,
the other variables are its own. Lists, plans, counts, guards, snapshots and
errors are all stutters or parts of a step.

**ZonePass** – networks and zones in one run, where `ReconcileRun`'s shape does
not fit: two lists of zones, ids that do not exist yet in the dry run
(`pendingID`), creates that move other objects.

**PolicyOrder** – firewall policies in one run: clashes, missing ids, the
per-pair order worked out from the list read before the creates, and the console
placing a new policy anywhere.

**DnsSync** – `dns sync` over several zones, with previews and manual deletes
between its writes.

**SnapshotStore** – the snapshot directory at the grain of file operations,
shared by the timer's run and one started by hand.

**LegacySections** – a run seen from the legacy API: `syncMDNS` first, then the
networks as far as the other two depend on them (do they take part in mDNS, do
they exist), `syncReservations` last; guards reduced to the list of deletions;
a snapshot with its rule which sections it holds, and `restore --prune --force`
of it. `read` has what the GETs returned; `ReadClients` and `ReadPlaces` are
apart, since a client or a network may go between them. A record's network id is
the network's name, or `Gone`; `stale` has the clients and networks that went
since the run read their ids. A service scope is one value, `Unreadable` whatever
`project` refuses. `Roam`, `Appear`, `Forget` and the edits are the network and the
UI at work meanwhile.

**PagedList** – `client.list`: one action per page, with objects created,
deleted and moved in the list in between, and a server that may serve fewer
than asked for. The other modules read a list in one step: `QuietReadIsExact` says
that this is right as long as nothing changes during the read, and
`ErrorsAreBounded` how far a list read through changes can be off.

The code walks declared entries in document order. `ReconcileRun`, `ZonePass` and
`LegacySections` take them in any order, so what holds there does not depend on it; `PolicyOrder`
and `DnsSync` keep the order where the code reads it.

`ZonePass` and `PolicyOrder` assume the guards let the plan through and that
nobody edits the console: those are `ReconcileRun`'s questions, and a plan can
only be compared with what is written while the console is left alone.

### History variables

`planned`, `applied`, `touched`, `disturbed`, `before`, `quiet`, `source`
(ReconcileRun), `planned`, `start` (ZonePass, PolicyOrder), `start`,
`disturbed` (DnsSync), `restoring`, `planned`, `disturbed`, `before`
(LegacySections), `kept`, `came`, `gone` (PagedList), `count`, `since`, a file's `seq` (SnapshotStore) remember
what the properties compare. No guard of the code's actions reads them, with
one exception: in DnsSync an id in `start` is not handed out again, see below.

### What is assumed of the other side

* The console keeps names unique within a type, keeps a network in at most one
  zone, and takes a deleted network out of its zone; a PUT or DELETE of an id
  that is gone is an error.
* The console and Porkbun do not hand out an id again while a run that has seen
  the old object is going on.
* `editByNameType` edits every record of that type and name: it takes no id,
  and the repository's own fake does the same (`sync_cname_test.go:55-63`).
* Porkbun refuses a record that breaks the CNAME rule.
* On the legacy API a PUT or POST of a reservation stores the network id it is
  given, even of a network deleted since; clearing one keeps the record.
* A page is a stretch of one list in a stable order, as the repository's fake
  console serves it (`fake_test.go:1032-1052`).
* A rename is atomic and survives a power failure; data that was not synced
  need not.

## What the runs show

| Run | Instance | Question |
|---|---|---|
| Reconcile | 2 types × 2 names × 3 values (one inexpressible for policies), 4 ids, 2 sites, 5 commands (one a `diff`), 3 uses of a snapshot (restore, dry-run restore, diff), 1 edit, 1 fault | guards, deletions, plan, exit status, snapshot, undo; the contract |
| Settles | same, a command whose guards do not trip | does a console end up as declared, however runs are cut short |
| Zones | 3 networks, 3 zones, 2 consoles (one without zones), 12 documents (3 that list in a zone a network the same run deletes or does not know), 1 fault | creates, moves and deletes of both, in one run |
| PrunedMember | same, 2 documents that delete a member of a zone | is the plan exact there (no) |
| Policies | 2 zone pairs, 3 consoles, 6 documents, 1 fault | plan, order, count of moves, convergence |
| OmittedOrder | same, one document | does an omitted `order` leave a policy alone (no) |
| Dns | 2 zones, 4 record types, 5 inputs, 1 fault, 1 outside change | phases, prune, convergence |
| DnsTwoTexts | one zone with two texts | does a successful run always converge (no) |
| Rotation | 2 runs, keep 1, 4 readings of the clock, 1 crash, 1 clock step | whole files, rotation |
| Legacy | 2 clients, 2 addresses, 2 networks (one the console's own), 2 scopes and an unreadable one, 5 commands, restores, 1 trouble | order of the sections, clears, addresses, plan, undo, convergence |
| LegacyStranded | same, a document that reserves on a network it prunes | is the whole plan worked out before anything is written (no) |
| Paging | 5 objects, lists of 0, 3 and 4, pages of 2 where 3 are asked for, 3 changes | what a list read page by page can miss or repeat |

The properties, by the question they answer (each is stated in words in its
module):

* *Fail closed.* `WritesPassedGuards`: no request is carried out unless the
  whole plan passed both guards. `BlastRadius`: the writing pass does not ask
  again, so what it overwrites or deletes is bounded by `--max-changes` plus the
  edits made since; no better bound holds. `MovesAreCounted`: moves that a zone
  create or a reorder causes are in the count.
* *Deletions.* `SafeDeletions` (ReconcileRun), `WritesAreSafe` (PolicyOrder),
  `DeletesAreSafe` (DnsSync), `NoNetworkIsStranded` (ZonePass),
  `ClearsAreApproved` (LegacySections). `ImplementsContract`: every write of a run
  is one that somebody who knows only the document and the options could expect.
* *The plan is the truth.* `PlanIsExact` (ReconcileRun) and `PlanIsCarriedOut` in
  four modules: the writing pass writes the lines of the planning pass; what can
  be refused is refused before the first write (`NoHalfwayFailure`); and what
  ends with success has done it (`AppliedIsSettled`, `FinishedIsConverged`).
  `ExitStatusIsTrue`: exit status 2 is `diff`'s alone and means that the console
  differs; a 0 means that it matches, except from a dry run of `sync` or `restore`,
  whose status says nothing of drift.
* *Undo.* `SnapshotHoldsOverwritten`, `UndoRestores` (ReconcileRun for the plain
  types, LegacySections for networks, scope and reservations),
  `SnapshotsAreWhole`, `SteadyWritesHaveSnapshot`, `RotationCatchesUp`.
* *Order of writes.* `NoNetworkIsStranded` (an update does not move a network
  back, a zone is not deleted around one), `KeepsAnswering`, `ScopeFirst`,
  `AddressesEndUnique`.
* *Lists.* `QuietReadIsExact`, `ErrorsAreBounded`, `EventuallyReturns`.
* *Convergence.* `EventuallySettled`, `EventuallyConverged`: runs cut
  short are made good by the next. For `dns sync`, which nothing in the repository
  starts again, this supposes that people do. Where Porkbun refuses a zone for good,
  the zones before it still become as declared, and stay so.

### Bounds

One fault and one edit are enough for every interleaving the properties speak
of: each relates one disturbed step to the rest of a run, and they may fall at
any request of any of the unboundedly many runs of a behaviour. Two resource types separate
"read again" from "read earlier", two names per type separate declared from
undeclared, four ids leave room for every create. `MaxEdits`, `MaxFaults`,
`MaxOutside`, `MaxTroubles` (edits and faults together), `MaxChanges`, `MaxTime`,
`MaxBack`, `MaxCrashes` are the only counters capped; `Ids` and `Uids` are the objects
a console can ever hold, and a create waits for a free one.
The documents of an instance are chosen so that each
branch of the code is taken; the passing runs together take every action.
`Ids` is a symmetry set in Reconcile, `Runs` in Rotation; neither run has a
liveness property. Paging has more objects than fit on a page, so that every
boundary is met with a change before, on and after it, and pages shorter than
what was asked for; one change can fall between any two pages, three make up
for each other.

### Fairness

`WF_vars(RunStep)`: a run in progress goes on – it is one process, its requests
have time-outs, and systemd kills it after 300 s. For the console's modules,
`WF_vars(StartSync)` (`StartRun`): the timer of `nix/modules/unifi-sync` starts the
next run. `DnsSync` has no such conjunct: `dns-sync.yml` is called by other
workflows and has neither timer nor retry, so its `EventuallyConverged` supposes
in its premise that a run is in progress again and again (`[]<>Running`).
`WF_vars(GetPage)` of PagedList is the loop of `client.list`; each list is read with
finitely many changes, for otherwise objects created faster than they are read
keep it going. Faults, kills, edits and outside changes have no fairness and are finitely many,
so convergence is claimed only after they cease. Where commands differ between
runs, it is claimed once they stay the same. No liveness is claimed of
SnapshotStore: a run there may fail every time.

## What is proved

`ReconcileRunProofs` proves, for all sets of kinds, names, values, ids and
documents and for any number of edits and faults:

* `TypeCorrect` – `Spec => []TypeOK`
* `FailClosed` – `Spec => []WritesPassedGuards`
* `DeletionsAreSafe` – `Spec => []SafeDeletions`

None is inductive alone. The invariant `Inv` adds to `TypeOK` and
`SafeDeletions`:

* `Pending` – the entries not yet handled are declared ones of the current type,
  and the prune candidates are on the list that was read, undeclared, of a
  declared section, not the console's own, and only there with `--prune`.
  Without it nothing is known of the object a DELETE names.
* `Stale` – the list may be out of date, but an id that is still taken has kept
  its kind and its owner, and its name unless somebody edited it during the run.
  This connects what the run read with what the console holds when the request
  arrives; it is what lets a deletion be judged by a list that is old.
* `Guarded` – nothing is applied outside the writing pass, a planned DELETE is
  approved or on `unlisted`, and from the snapshot on the plan has passed the
  guards. Without it the writing pass would not know that it was allowed.

`Refinement` – `Spec => ImplementsContract`, in the same module: every step of
ReconcileRun is a step or a stutter of ConsoleContract under the mapping above.
`Inv` does the work for `Write`: `Pending` and `Stale` say what the object behind
an old id is, `Guarded` that the phase is right.

`NextInv` has one lemma per action; `EndInv` covers everything that only stops
the run. The assumptions used are those named in `ReconcileRun`; TLC evaluates
them in every run of it. The code lists a type once (`main.go`), the console keeps
names unique within a type, and the values that stand for "nothing" are none
of the others.

`ReconcilePlanProofs` goes on from there, for the properties that compare the
writing pass with the plan and with the snapshot:

* `OverwrittenIsSaved` – `Spec => []SnapshotHoldsOverwritten`
* `BlastIsBounded` – `Spec => []BlastRadius`
* `PlanIsWhatHappens` – `Spec => []PlanIsExact`
* `ExitIsTrue` – `Spec => []ExitStatusIsTrue`
* `RestoreUndoes` – `Spec => []UndoRestores`

Everything is said of the plan line of an object (`LineOf`), and of the lines a
pass has behind it (`Handled`). The invariant `Promised` adds to `Inv`:

* `Listing` – names stay unique, on the console and on the list that was read;
* `Fresh` – of what is still waiting for its decision, the list has what the
  console has, unless somebody edited that object;
* `Foreseen` – what nobody edited and the document wants changed has a line as
  soon as the planning pass is past it, and the draft of the snapshot has its
  value. `Ready` – so whatever the writing pass still comes to is in the plan and
  in the snapshot. The two are what the single pass of each kind cannot know of
  the other;
* `Counted`, `Charged` – each change was logged as a line of its own; the lines
  beside the plan, with the edited objects that are still to come, are no more
  than the edits. An edit is charged when it is made and spent when the run comes
  to the object, which is why the bound is the limit plus the edits and not more.

`Exact` is about runs nobody edits: the planning pass has logged `Due \cap
Handled`, and the writing pass has `Due` before it and the rest of the plan behind
it, where `Due` is worked out from the console and the document alone. For undo,
`Copied` (the draft is what the console holds of the types it has read) and
`Kept` (while nobody edits, the snapshot is what the site was, and a restore goes
by it to the end) come on top.

`SnapshotStoreProofs` proves, for any number of runs sharing the directory, of
snapshots to keep, crashes and clock steps:

* `StoreTypeCorrect` – `Spec => []TypeOK`
* `AlwaysWhole` – `Spec => []SnapshotsAreWhole`
* `WritersHaveSnapshots` – `Spec => SteadyWritesHaveSnapshot`
* `DirectoryStaysSmall` – `Spec => RotationCatchesUp`

Here the invariant adds `Named` (a run at work has a name for its file) and
`Durable`: a temporary file is whole once its run is past the write, synced once
past the sync, and every snapshot is both. That a file is whole says nothing of
what a power failure leaves of it; that it is also synced does.

For the two action properties a second layer, `Rotates`, says what holds while the
clock has not been set back. `Fresh`: names only grow, and no two runs at work share
one. `Later`: what was there when a run began has an earlier name than its own.
`ListedInOrder`: with a file a listing has every older one (runs may rename in
another order than they took their names, so this is about `seq`, not names).
`Complete`: a run that rotates has listed all it found, and its own file is there
or nothing of what it found is – the run that removed the file saw it as the oldest
name. `KeepLeft`: of every name a run still knows and that is gone, `Keep` later
ones are in the directory; when the list behind a removal holds a name that is gone
itself, the removal of that one has left `Keep` later ones already.
That the layers hold was checked with TLC first, with two runs that share a
directory and with three.

`PagedListProofs` proves, for any page size, server cap, list and number of
changes:

* `TypeCorrect` – `Spec => []TypeOK`
* `QuietReads` – `Spec => []QuietReadIsExact`
* `BoundedErrors` – `Spec => []ErrorsAreBounded`

The invariant adds `Distinct` (the console's list repeats nothing), `Exact` (what
was read of a list nothing changed is its beginning) and `Accounted`: of the
objects that stayed in place, those in front of the offset and not read are at
most as many as were taken away, and what was read twice or is
still ahead although read is at most as many as were put in. The lemmas say how
insertion and removal shift the part of the list in front of the offset.

`LegacySectionsProofs` proves, for any clients, networks, addresses and documents
and any number of failures and changes on the console:

* `TypeCorrect` – `Spec => []TypeOK`
* `ScopeComesFirst` – `Spec => ScopeFirst`
* `ClearsApproved` – `Spec => ClearsAreApproved`
* `AddressesUnique` – `Spec => []AddressesEndUnique`
* `PlanCarriedOut` – `Spec => []PlanIsCarriedOut`
* `RestoreUndoes` – `Spec => []UndoRestores`

`TypeOK` includes `SiteOK`: every reservation has an address, and the network id of
a record is none, that of an existing network, or that of one that is gone – a run
may leave the last, by pruning a network a client's record points to. A snapshot of
such a console is a document again (`SnapshotTyped`). The invariant adds

* `Pending` – what is left to do belongs to the section the run is in, and what is
  to be cleared is undeclared, under `--prune`, in a declared section;
* `Dated` – a network that was read still exists, or its id is among the `stale`
  ones. It is why the id a reservation stores is a good one or that of nothing;
* `InForce` – in the writing pass of an undisturbed run the declared scope holds
  from `networks` on;
* `Whole` – in an undisturbed pruning run the reservations become the declared ones
  step by step (`Progress`): before a client's turn its record is as it was read
  (`Like`), after it as declared (`Held`), and a planning pass without a line has
  found every one held. Addresses are unique only at the end, so nothing weaker
  carries the property through the requests that trade them.

The last two theorems compare the writing pass with the plan. What a document asks
for is taken apart by key (`Off`: the scope, a network or a client is not as
declared), and a lemma for each kind of request says that it mends its own key and
changes no other (`Mended`): a network that comes leaves every client's network
the one it was, and one that goes is the network of no declared reservation.
Beyond `Inv` stand

* `Sited` – the console's own networks stay, also when people edit it, and clients
  are seen on networks that exist;
* `Vetted` – every DELETE in the plan is approved once the writing pass begins, so
  it never stops for one;
* `Works`, of runs that nothing disturbs and that do not prune a network they
  reserve on (`Calm`). `Current`: of what is still to be handled, the lists read say
  what the console says; `Checked`: what the planning pass did not refuse cannot
  fail the writing pass either, which takes the network of every reservation to be
  there or declared (`Nameable`); `Exact`: the planning pass has logged what is off
  and behind it, the writing pass has nothing off behind it (`Open`) and
  its lines and what is still due make up the plan. Finding 4 is where `Checked`
  fails: the network is named, and then pruned;
* `Kept` – while only runs touch the console, the snapshot says what it was, and a
  restore goes by it to the end. A snapshot keeps the networks it reserves
  on, so a restore is always `Calm`; that the console's own networks are in it is
  `Sited`, and without that a restore could not tell their flags.

The assumptions are that the consoles a behaviour starts from are sound
(`SitesAssumption`), have the networks the console owns, and report clients on
networks they have (`PlacesAssumption`).

`DnsSyncProofs` proves, for any domains, names, contents, TTLs and inputs, any
finite set of record ids, and any number of faults and outside changes:

* `TypesAreKept` – `Spec => []TypeOK`
* `DeletesSafe` – `Spec => DeletesAreSafe`
* `NamesKeepAnswering` – `Spec => []KeepsAnswering`
* `PlanCarriedOut` – `Spec => []PlanIsCarriedOut`

Its layers, each inductive given those before it:

* `Inv` – holds whoever else touches the zone: what is doomed is unprotected, known
  by its id, deleted only with `--prune`, and not of a wanted name and type if it
  goes before the upserts, CNAMEs excepted; the upserts still to do are those of
  the last entries;
* `Intact` – while nobody else touches the zone, Porkbun accepts every write that
  is planned (which is `NoHalfwayFailure`), and whatever is doomed although it
  matches an entry leaves another match that is not;
* `Answering` – an entry whose turn has passed has a record that stays, and the
  names of the others have theirs until then;
* `Carried` – what is behind the run is as the input says, zone by zone.

That the record `matchExisting` keeps exists, the last one with that key, needs the
ids to be finitely many naturals; that a create finds no conflict needs
the deletions of the first phase to be done, hence the order of the phases. The
lemmas on `Porkbun`'s side say what each call leaves of a zone. The theorems
carry the exceptions of the properties: `KeepsAnswering` does not speak of a
CNAME that makes way for other records, nor `PlanIsCarriedOut` of two wanted
records of one name and type (finding 3), and both suppose the run undisturbed.

`ZonePassProofs` proves, for any finite set of networks, any zones, consoles and
documents, and any number of faults:

* `TypeCorrect` – `Spec => []TypeOK`
* `NobodyStranded` – `Spec => NoNetworkIsStranded`
* `MovesCounted` – `Spec => []MovesAreCounted`
* `PlanCarriedOut` – `Spec => []PlanIsCarriedOut`

Both passes read the same console, so they take the same course; the proof works
out from `start` what that course is. Its layers:

* `Inv` – `Course`: what was read, created, remembered as placed, and is left to do
  follows from where the pass is; `Housed`: a network is in a zone that exists;
  `Unwritten`, `Effects`: the console is untouched before the writing pass, and
  then changed by exactly what that pass is through with;
* `Settling` – declared zones the writing pass is through with hold what they
  declare, and of the others it has read at least what is in them. This decides
  what a full-list update takes out of a zone;
* `Tally` – the count of moves and the lines so far, as sets worked out from
  `start` (`Counting`, `Logging`). The lines of the two passes agree unless the run
  deletes a network out of a zone that stays (`Odd`, finding 1);
* `Moving` – a network that is not where it was is accounted for by the create of its
  zone or by a planned line;
* `Checked` – what the planning pass has checked of a zone, it has checked for
  the writing pass: so the latter fails by a fault only (`Whole`), and one that
  succeeds leaves the console as declared (`Applied`).

The assumptions are that consoles are `Housed`, that documents pass the lint of
one zone per network, and that the marks for "absent" are none of the values.

`PolicyOrderProofs` proves, for any zone pairs, names, policies and documents, and
any number of faults:

* `TypeCorrect` – `Spec => []TypeOK`
* `SafeWrites` – `Spec => WritesAreSafe`
* `PlanCarriedOut` – `Spec => []PlanIsCarriedOut`
* `MovesCounted` – `Spec => []MovesAreCounted`

Nothing is written before the writing pass has its list, so both passes read the
list the run started from, and everything they decide is worked out from `start`
and the document (`Like`, `Doomed`, `Want`, `Fits`, `Faulty`). The layers:

* `Inv` – `Course`: where the pass is and what it has yet to do; `Live`: what is
  on the console by then. Each policy is one from the start, changed at most by an
  entry that has had its turn, or one this run has made, and what was to go and
  had its turn is gone. `Live` holds while the pass is `Faithful`: one that writes,
  or a planning pass that has found nothing to write. The latter is what makes a
  run that ends as `clean` a true statement about the console;
* `Vetted` – what the planning pass has checked of entries, victims and pairs. It
  covers the whole document once the writing pass begins, which reads the same
  list, so that pass fails by a fault only;
* `Tally` – lines and moves so far are sets worked out from `start`, which gives
  `PlanIsExact`;
* `Order` (`Arranged`) – which policies are ahead of which: those that were there
  stay in the order they had until their pair is reordered, wherever the console
  puts new ones, and in a pair that was reordered the movable ones are as wanted.
  Pairs do not disturb each other, since a reorder keeps the slots of a pair
  (`ReorderedFacts`).

The rest is about lists: `Places` numbers the elements of a finite set by those
below them, and `AtFacts`, `WantFacts` and `RankIsPlace` say with it what
filtering, sorting and ranking return. The filters of the model are written with
such numbers (`Nth`, `At`), not with recursion, to be open to this. `MovesCounted`
compares ranks with the indices that `movedPolicies` compares: among the policies
that were there, a rank is an index in `currentKeys` before the run and in the kept
part of `wantKeys` after it. The assumptions are that
no two policies of a console are one object and that the mark of an omitted order
is no number; the console hands out a fresh id on a create (bound: `Uids`).

Liveness (`EventuallySettled`, `EventuallyConverged`, `EventuallyReturns`) is
checked by TLC only: the prover does not treat fairness. Every other property of
a passing run is a theorem.

## Findings

1. **Deleting a network out of a zone that stays** (PrunedMember). The planning
   pass compares the zone with the network still in it, the writing pass without
   it: they print different lines. `docs/unifi.md:41`, `zones_test.go:109-111`.
2. **An omitted `order` does not leave a policy where it is** (OmittedOrder):
   it is sorted last as soon as another entry of the pair gives one
   (`plan.go:893`; `model.go:108-109`, `docs/unifi.md:233-234`).
3. **Two TXT records at one name** (DnsTwoTexts). Changing the TTL of one gives
   both its content, and the run reports success (`sync.go:221`).
4. **A reservation on a network the same document prunes** (LegacyStranded). The
   network still exists when the planning pass looks it up, so the plan is
   accepted; the writing pass deletes the network and stops at the reservation,
   half-way (`legacy.go:253`; `README.md:442-445`, `main.go:243-244`). Later
   runs fail in the planning pass, the network being gone, until the document is
   corrected.

The passing runs state the same properties outside these cases
(`PlanIsCarriedOut` of ZonePass and LegacySections name them), or on instances
without them (Policies, Dns). In ZonePass there are two such cases: the plan is
exact unless the run deletes a member of a zone that stays (`DeletesMember`), and
it is carried to the end unless a declared zone lists a network the same run
deletes (`NamesPruned`): the planning pass still finds its id, the writing pass
stops half-way.

Limits the code states or implies, and the properties respect:

* `export` leaves out, with a warning, a user's policy the schema cannot express
  (`export.go:168`) and a reservation without a nameable network (`legacy.go:183`).
  A snapshot lacks them, so `restore --prune --force` deletes the one and clears
  the other. `UndoRestores` is about everything else.
* Rotation goes by the names of the files: after the clock is set back it removes
  the snapshot just written (`snapshot.go:103`). `SteadyWritesHaveSnapshot` is
  about clocks that are not set back.
* A document without a client's name leaves the one it has: undo does not take a
  name away again.

## Not modelled

Field contents, text, redaction of secrets and flag parsing: data without
control. `DnsSync` has one protected type (`NS`) for NS and SOA, lets the TTL stand
for the priority too, and takes names and domains as `stripDomain` and
`normalizeDomain` leave them. References
between types (a wifi names a network, a policy names zones) fail in the
planning pass and are left out. The passphrase environment is left out of snapshots, and so are the zones `export`
cannot render. `LegacySections` takes its part of a snapshot in one step; that a
snapshot is read list by list is ReconcileRun's. A declared scope is taken to be
well formed (`checkMDNS`). CUE schemas only exclude inputs. The
workflows that deploy and clean up preview apps are shell around `flyctl`, whose
order GitHub decides: the repository says nothing that a model could be held to.

## Plan

1. *Lint*: `lintPolicy` as predicates, and that the policies `export` prints pass
   it – what `restore` depends on (`lint.go:85-87`).
2. *Lists in runs*: `ReconcileRun` with `List` as the pages of `PagedList`.
