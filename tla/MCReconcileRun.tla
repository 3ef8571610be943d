--------------------------- MODULE MCReconcileRun ---------------------------
(* Instances of ReconcileRun for TLC. *)
EXTENDS ReconcileRun, TLC

CONSTANTS a, b, v1, v2, w, i1, i2, i3, i4

MCKinds     == <<"wifi", "firewall policy">>
MCOpaque    == {<<"firewall policy", w>>}
MCSymmetry  == Permutations(Ids)

Wifi(n) == <<"wifi", n>>
Rule(n) == <<"firewall policy", n>>

Obj(k, v, o) == [kind |-> k[1], name |-> k[2], value |-> v, origin |-> o]
Holding(o1, o2, o3) ==
  [i \in Ids |-> IF i = i1 THEN o1 ELSE IF i = i2 THEN o2 ELSE IF i = i3 THEN o3 ELSE NoObject]
Doc(sections, entries, deletions) ==
  [sections |-> sections, deletions |-> deletions,
   want |-> [k \in Keys |-> IF \E e \in entries : e[1] = k
                            THEN (CHOOSE e \in entries : e[1] = k)[2] ELSE Unset]]
Opt(prune, dry, force, max, snap) ==
  [diff |-> FALSE, prune |-> prune, dryRun |-> dry, force |-> force, maxChanges |-> max, snapshotDir |-> snap]
Diff(prune, max) == [Opt(prune, TRUE, FALSE, max, FALSE) EXCEPT !.diff = TRUE]

\* A user's wifi next to a firewall policy of the user's, or one of the console's
\* own. (A policy the schema cannot express appears by an edit.)
MCPlainSite  == Holding(Obj(Wifi(a), v1, "USER_DEFINED"), Obj(Rule(a), v1, "USER_DEFINED"), NoObject)
MCSystemSite == Holding(Obj(Wifi(a), v1, "USER_DEFINED"), Obj(Rule(b), v1, "SYSTEM_DEFINED"), NoObject)

MCSites == {MCPlainSite, MCSystemSite}

\* Change one and remove one; manage one section only; empty two sections
\* without listing all that deletes.
Change  == Doc(KindSet, {<<Wifi(a), v2>>, <<Rule(b), v1>>}, {Rule(a)})
OneKind == Doc({"firewall policy"}, {<<Rule(a), v2>>}, {Rule(b)})
Empty   == Doc(KindSet, {}, {Wifi(a)})

Command(d, o) == [doc |-> d, opts |-> o]

\* A limit the change keeps to, with a snapshot, and one it trips; a forced
\* run, and one whose list of deletions is too short; `diff`.
MCCommands ==
  { Command(Change, Opt(TRUE, FALSE, FALSE, 2, TRUE)),
    Command(Change, Opt(TRUE, FALSE, FALSE, 1, FALSE)),
    Command(OneKind, Opt(TRUE, FALSE, TRUE, 0, FALSE)),
    Command(Empty, Opt(TRUE, FALSE, FALSE, 2, FALSE)),
    Command(Change, Diff(TRUE, 2)) }

\* A restore, forced or dry, and `diff` of the snapshot.
MCRestoreOptions ==
  { Opt(TRUE, FALSE, TRUE, 1, FALSE), Opt(TRUE, TRUE, FALSE, 1, FALSE), Diff(TRUE, 1) }

\* Liveness: options whose guards do not trip, everything that could be pruned
\* is listed.
MCLiveCommands ==
  { Command([Change EXCEPT !.deletions = Keys], Opt(TRUE, FALSE, FALSE, 10, TRUE)) }
=============================================================================
