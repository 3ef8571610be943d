----------------------------- MODULE PolicyOrder -----------------------------
(***************************************************************************)
(* Firewall policies in one `unifi` run (cmd/unifi/plan.go:                *)
(* syncFirewallPolicies, prunePolicies, reorderPolicies).  Unlike other    *)
(* types their position matters: the console evaluates them in order, per  *)
(* zone pair.  They are listed once, and the order is worked out from that *)
(* list after the creates, updates and deletes.  Some live policies cannot *)
(* be addressed (no id), told apart (two with one identity), expressed, or *)
(* changed (the console's own).                                            *)
(*                                                                         *)
(* Guards, snapshots and edits in the console UI are in ReconcileRun.      *)
(***************************************************************************)
EXTENDS Integers, FiniteSets, SequencesExt

CONSTANTS
  Pairs,        \* zone pairs
  Names,        \* policy names, not unique across pairs
  Confs,        \* a policy's configuration, its position aside
  Opaque,       \* configurations the schema cannot express
  NotCreatable, \* configurations a new policy may not have
  Uids,         \* the console's objects
  NoOrder,      \* the order of an entry that omits it
  Consoles,     \* the consoles a behaviour may start from
  Documents,    \* the instance documents a run may be given
  MaxFaults     \* bound: failed or unanswered requests, and kills

\* key(): zone pair and name.
Keys == Pairs \X Names

\* A live policy. hasId: the console returned an id; fixed: not configurable.
Policy == [uid : Uids, key : Keys, conf : Confs, system : BOOLEAN,
           fixed : BOOLEAN, hasId : BOOLEAN]

Entry == [key : Keys, conf : Confs, order : {NoOrder} \cup Nat]

ASSUME ConfAssumption  == Opaque \cup NotCreatable \subseteq Confs
ASSUME OrderAssumption == NoOrder \notin Nat
ASSUME InputAssumption ==
  /\ \A c \in Consoles : /\ c \in Seq(Policy)
                         /\ \A i, j \in DOMAIN c : c[i].uid = c[j].uid => i = j
  /\ \A d \in Documents : d.prune \in BOOLEAN /\ d.entries \in Seq(Entry)
ASSUME BoundAssumption == MaxFaults \in Nat

VARIABLES
  policies,  \* the console: its policies in evaluation order
  doc,       \* want
  pass,      \* "plan" | "write"
  pc,        \* where in the pass the run is, or how it ended
  existing,  \* the list the pass read, never read again
  next,      \* position of the next entry of doc
  victims,   \* policies prunePolicies has not handled yet
  pairs,     \* zone pairs reorderPolicies has not handled yet
  made,      \* the policy each create made, by key
  lines,     \* plan lines of this pass, other than OK
  moved,     \* policies this pass moved
  planned,   \* history: lines and moves of the planning pass
  start,     \* history: the console when the run started
  faults

passVars == <<existing, next, victims, pairs, made>>
vars == <<policies, doc, pass, pc, passVars, lines, moved, planned, start, faults>>

-----------------------------------------------------------------------------
\* What s holds at the positions is, in order.
Nth(is, n) == CHOOSE i \in is : Cardinality({j \in is : j < i}) = n - 1
At(s, is)  == [n \in 1..Cardinality(is) |-> s[Nth(is, n)]]

DryRun  == pass = "plan"
Entries == DOMAIN doc.entries
Declares(k) == \E e \in Entries : doc.entries[e].key = k

\* The live policies with identity k, as read.
Matching(k)  == {p \in ToSet(existing) : p.key = k}
Ambiguous(k) == Cardinality(Matching(k)) > 1
Got(k)       == CHOOSE p \in Matching(k) : TRUE

Unused(s) == Uids \ {s[i].uid : i \in DOMAIN s}

Endings == {"idle", "clean", "applied", "failed", "killed"}
Running == pc \notin Endings

Forget == existing' = <<>> /\ next' = 1 /\ victims' = {} /\ pairs' = {} /\ made' = <<>>

BeginPass(p) == pass' = p /\ pc' = "list" /\ Forget /\ lines' = {} /\ moved' = 0
End(how)     == pc' = how /\ Forget

-----------------------------------------------------------------------------
(* Order within a zone pair *)

\* orderOf: entries without an order come after those with one; the sort is
\* stable.
Before(e, f) ==
  LET oe == doc.entries[e].order
      of == doc.entries[f].order
  IN  IF oe = NoOrder \/ of = NoOrder
      THEN IF oe = of THEN e < f ELSE of = NoOrder
      ELSE oe < of \/ (oe = of /\ e < f)

\* Only the user's policies move; the console pins its own.
Movable(pair) ==
  {e \in Entries : LET k == doc.entries[e].key
                   IN  k[1] = pair /\ ~\E p \in Matching(k) : p.system}

\* Mutant: one entry without an order and the pair is left alone.
OrderedThroughout(pair) ==
  /\ \A e \in Movable(pair) : doc.entries[e].order # NoOrder
  /\ Cardinality(Movable(pair)) >= 2

\* A pair with no order given, or with one policy, is left alone.
Ordered(pair) ==
  /\ \E e \in Movable(pair) : doc.entries[e].order # NoOrder
  /\ Cardinality(Movable(pair)) >= 2

KeysOf(s) == [i \in DOMAIN s |-> s[i].key]

KeysIn(es) == {doc.entries[e].key : e \in es}

\* The keys of the movable entries, sorted.
WantKeys(pair) ==
  LET es == Movable(pair)
      Pick(n) == CHOOSE e \in es : Cardinality({f \in es : Before(f, e)}) = n - 1
  IN  [n \in 1..Cardinality(es) |-> doc.entries[Pick(n)].key]

\* Mutant: the list is read again, with this pass's creates in it.
CurrentKeysReread(ks) == KeysOf(At(policies, {i \in DOMAIN policies : policies[i].key \in ks}))

\* Those of them that are live, in the order read.
CurrentKeys(ks) == KeysOf(At(existing, {i \in DOMAIN existing : existing[i].key \in ks}))

\* Mutant: the last position is not looked at.
MovedPoliciesButLast(current, want) ==
  LET kept == At(want, {i \in DOMAIN want : want[i] \in ToSet(current)})
  IN  Cardinality({i \in 1..(Len(current) - 1) : current[i] # kept[i]})

\* How many existing policies stand elsewhere among the existing ones.
MovedPolicies(current, want) ==
  LET kept == At(want, {i \in DOMAIN want : want[i] \in ToSet(current)})
  IN  Cardinality({i \in DOMAIN current : current[i] # kept[i]})

-----------------------------------------------------------------------------
(* The console, as the code uses it (external) *)

\* The policies listed take the first slots of their pair, in that order; the
\* pair's others follow.
Reordered(s, pair, uids) ==
  LET slots   == {i \in DOMAIN s : s[i].key[1] = pair}
      others  == {i \in slots : s[i].uid \notin ToSet(uids)}
      Of(u)   == CHOOSE i \in slots : s[i].uid = u
      rank(i) == Cardinality({j \in slots : j <= i})
      From(n) == IF n <= Len(uids) THEN Of(uids[n]) ELSE Nth(others, n - Len(uids))
  IN  [i \in DOMAIN s |-> IF i \in slots THEN s[From(rank(i))] ELSE s[i]]

Update(s, uid, conf) ==
  [i \in DOMAIN s |-> IF s[i].uid = uid THEN [s[i] EXCEPT !.conf = conf] ELSE s[i]]

Holds(s, uid) == \E i \in DOMAIN s : s[i].uid = uid

Answers == {"done", "lost", "rejected"}

\* mutate: nothing in a dry run; otherwise carried out and answered, carried
\* out but not answered, or rejected.
Mutate(after, answer) ==
  IF DryRun THEN answer = "done" /\ UNCHANGED <<policies, faults>>
  ELSE /\ policies' = IF answer = "rejected" THEN policies ELSE after
       /\ IF answer = "done" THEN UNCHANGED faults
          ELSE faults < MaxFaults /\ faults' = faults + 1

-----------------------------------------------------------------------------
StartRun ==
  /\ ~Running
  /\ doc' \in Documents
  /\ BeginPass("plan")
  /\ planned' = [lines |-> {}, moved |-> 0] /\ start' = policies
  /\ UNCHANGED <<policies, faults>>

\* Mutant: only entries equal throughout are duplicates.
DuplicateEntries == \E e, f \in Entries : e # f /\ doc.entries[e] = doc.entries[f]

\* checkDuplicatePolicyKeys.
Duplicates == \E e, f \in Entries : e # f /\ doc.entries[e].key = doc.entries[f].key

List ==
  /\ pc = "list" /\ ~Duplicates
  /\ existing' = policies
  /\ pc' = "entries"
  /\ UNCHANGED <<policies, doc, pass, next, victims, pairs, made, lines, moved,
                 planned, start, faults>>

RefuseDuplicates ==
  /\ pc = "list" /\ Duplicates
  /\ End("failed")
  /\ UNCHANGED <<policies, doc, pass, lines, moved, planned, start, faults>>

Current   == doc.entries[next]
HasEntry  == pc = "entries" /\ next \in Entries

\* Mutant: a policy the schema cannot express is updated like any other.
EntryFaultLossy(e) ==
  \/ Ambiguous(e.key)
  \/ Matching(e.key) = {} /\ e.conf \in NotCreatable
  \/ /\ Matching(e.key) # {} /\ Got(e.key).conf # e.conf
     /\ (Got(e.key).system /\ Got(e.key).fixed) \/ ~Got(e.key).hasId

\* Why the entry cannot be carried out.
EntryFault(e) ==
  \/ Ambiguous(e.key)
  \/ Matching(e.key) = {} /\ e.conf \in NotCreatable
  \/ /\ Matching(e.key) # {}
     /\ \/ Got(e.key).conf \in Opaque
        \/ /\ Got(e.key).conf # e.conf
           /\ (Got(e.key).system /\ Got(e.key).fixed) \/ ~Got(e.key).hasId

FailEntry ==
  /\ HasEntry /\ EntryFault(Current)
  /\ End("failed")
  /\ UNCHANGED <<policies, doc, pass, lines, moved, planned, start, faults>>

EntryOK ==
  /\ HasEntry /\ ~EntryFault(Current)
  /\ Matching(Current.key) # {} /\ Got(Current.key).conf = Current.conf
  /\ next' = next + 1
  /\ UNCHANGED <<policies, doc, pass, pc, existing, victims, pairs, made, lines,
                 moved, planned, start, faults>>

UpdatePolicy ==
  /\ HasEntry /\ ~EntryFault(Current)
  /\ Matching(Current.key) # {} /\ Got(Current.key).conf # Current.conf
  /\ lines' = lines \cup {<<"UPDATE", Current.key>>}
  /\ \E answer \in Answers :
       /\ Mutate(Update(policies, Got(Current.key).uid, Current.conf), answer)
       /\ IF answer = "done"
          THEN next' = next + 1 /\ UNCHANGED <<pc, existing, victims, pairs, made>>
          ELSE End("failed")
  /\ UNCHANGED <<doc, pass, moved, planned, start>>

\* The console puts a new policy anywhere among the others. Bound: Uids.
CreatePolicy ==
  /\ HasEntry /\ ~EntryFault(Current)
  /\ Matching(Current.key) = {} /\ Unused(policies) # {}
  /\ lines' = lines \cup {<<"CREATE", Current.key>>}
  /\ \E answer \in Answers, place \in 1..(Len(policies) + 1) :
       LET uid == CHOOSE u \in Unused(policies) : TRUE
           new == [uid |-> uid, key |-> Current.key, conf |-> Current.conf,
                   system |-> FALSE, fixed |-> FALSE, hasId |-> TRUE]
       IN  /\ Mutate(InsertAt(policies, place, new), answer)
           /\ IF answer = "done"
              THEN /\ next' = next + 1
                   /\ made' = [k \in DOMAIN made \cup {Current.key} |->
                                 IF k = Current.key THEN uid ELSE made[k]]
                   /\ UNCHANGED <<pc, existing, victims, pairs>>
              ELSE End("failed")
  /\ UNCHANGED <<doc, pass, moved, planned, start>>

\* prunePolicies: undeclared policies of the user's.
BeginPrune ==
  /\ pc = "entries" /\ next \notin Entries
  /\ pc' = "prune"
  /\ victims' = {p \in ToSet(existing) : doc.prune /\ ~p.system /\ ~Declares(p.key)}
  /\ UNCHANGED <<policies, doc, pass, existing, next, pairs, made, lines, moved,
                 planned, start, faults>>

FailVictim(p) ==
  /\ pc = "prune" /\ p \in victims
  /\ Ambiguous(p.key) \/ ~p.hasId
  /\ End("failed")
  /\ UNCHANGED <<policies, doc, pass, lines, moved, planned, start, faults>>

DeletePolicy(p) ==
  /\ pc = "prune" /\ p \in victims
  /\ ~Ambiguous(p.key) /\ p.hasId
  /\ lines' = lines \cup {<<"DELETE", p.key>>}
  /\ \E answer \in Answers :
       /\ Mutate(At(policies, {i \in DOMAIN policies : policies[i].uid # p.uid}), answer)
       /\ IF answer = "done"
          THEN victims' = victims \ {p} /\ UNCHANGED <<pc, existing, next, pairs, made>>
          ELSE End("failed")
  /\ UNCHANGED <<doc, pass, moved, planned, start>>

BeginOrder ==
  /\ pc = "prune" /\ victims = {}
  /\ pc' = "order"
  /\ pairs' = {doc.entries[e].key[1] : e \in Entries}
  /\ UNCHANGED <<policies, doc, pass, existing, next, victims, made, lines, moved,
                 planned, start, faults>>

InOrder(pair) ==
  ~Ordered(pair) \/ CurrentKeys(KeysIn(Movable(pair))) = WantKeys(pair)

OrderOK(pair) ==
  /\ pc = "order" /\ pair \in pairs /\ InOrder(pair)
  /\ pairs' = pairs \ {pair}
  /\ UNCHANGED <<policies, doc, pass, pc, existing, next, victims, made, lines,
                 moved, planned, start, faults>>

\* A policy without an id cannot be named in the ordering call.
Unaddressable(pair) ==
  \E p \in ToSet(existing) : ~p.hasId /\ p.key \in KeysIn(Movable(pair))

FailOrder(pair) ==
  /\ pc = "order" /\ pair \in pairs /\ ~InOrder(pair) /\ Unaddressable(pair)
  /\ End("failed")
  /\ UNCHANGED <<policies, doc, pass, lines, moved, planned, start, faults>>

Reorder(pair) ==
  /\ pc = "order" /\ pair \in pairs /\ ~InOrder(pair) /\ ~Unaddressable(pair)
  /\ moved' = moved + MovedPolicies(CurrentKeys(KeysIn(Movable(pair))), WantKeys(pair))
  /\ lines' = lines \cup {<<"ORDER", pair>>}
  /\ \E answer \in Answers :
       LET want == WantKeys(pair)
           uids == [i \in DOMAIN want |-> IF want[i] \in DOMAIN made THEN made[want[i]]
                                          ELSE Got(want[i]).uid]
       IN  /\ Mutate(IF DryRun THEN policies ELSE Reordered(policies, pair, uids), answer)
           /\ IF answer = "done"
              THEN pairs' = pairs \ {pair} /\ UNCHANGED <<pc, existing, next, victims, made>>
              ELSE End("failed")
  /\ UNCHANGED <<doc, pass, planned, start>>

PassDone == pc = "order" /\ pairs = {}

\* The guards let the plan through (ReconcileRun has the runs they refuse).
FinishPlan ==
  /\ pass = "plan" /\ PassDone
  /\ planned' = [lines |-> lines, moved |-> moved]
  /\ IF lines = {} THEN End("clean") /\ UNCHANGED <<pass, lines, moved>>
                   ELSE BeginPass("write")
  /\ UNCHANGED <<policies, doc, start, faults>>

FinishWrite ==
  /\ pass = "write" /\ PassDone
  /\ End("applied")
  /\ UNCHANGED <<policies, doc, pass, lines, moved, planned, start, faults>>

Kill ==
  /\ Running /\ faults < MaxFaults /\ faults' = faults + 1
  /\ End("killed")
  /\ UNCHANGED <<policies, doc, pass, lines, moved, planned, start>>

-----------------------------------------------------------------------------
Init ==
  /\ policies \in Consoles
  /\ doc \in Documents
  /\ pass = "plan" /\ pc = "idle"
  /\ existing = <<>> /\ next = 1 /\ victims = {} /\ pairs = {} /\ made = <<>>
  /\ lines = {} /\ moved = 0
  /\ planned = [lines |-> {}, moved |-> 0] /\ start = policies
  /\ faults = 0

RunStep ==
  \/ List \/ RefuseDuplicates
  \/ FailEntry \/ EntryOK \/ UpdatePolicy \/ CreatePolicy
  \/ BeginPrune \/ \E p \in victims : FailVictim(p) \/ DeletePolicy(p)
  \/ BeginOrder \/ \E pair \in Pairs : OrderOK(pair) \/ FailOrder(pair) \/ Reorder(pair)
  \/ FinishPlan \/ FinishWrite

Next == StartRun \/ RunStep \/ Kill

Spec == Init /\ [][Next]_vars

\* A run in progress goes on, and the timer starts the next one.
FairSpec == Spec /\ WF_vars(RunStep) /\ WF_vars(StartRun)

-----------------------------------------------------------------------------
(* Properties *)

Line == ({"CREATE", "UPDATE", "DELETE"} \X Keys) \cup ({"ORDER"} \X Pairs)

\* Every variable has its type, and no two policies are one object.
TypeOK ==
  /\ policies \in Seq(Policy) /\ existing \in Seq(Policy) /\ start \in Seq(Policy)
  /\ \A i, j \in DOMAIN policies : policies[i].uid = policies[j].uid => i = j
  /\ doc \in Documents /\ pass \in {"plan", "write"}
  /\ pc \in Endings \cup {"list", "entries", "prune", "order"}
  /\ next \in Nat /\ victims \subseteq Policy /\ pairs \subseteq Pairs
  /\ DOMAIN made \subseteq Keys /\ \A k \in DOMAIN made : made[k] \in Uids
  /\ lines \subseteq Line /\ moved \in Nat
  /\ planned \in [lines : SUBSET Line, moved : Nat]
  /\ faults \in 0..MaxFaults

\* docs/unifi.md: a dry run prints exactly what sync would do, the number of
\* moves --max-changes bounds included.
PlanIsExact ==
  pass = "write" =>
    /\ lines \subseteq planned.lines /\ moved <= planned.moved
    /\ pc = "applied" => lines = planned.lines /\ moved = planned.moved

\* A policy that cannot be addressed, told apart or expressed stops the run in
\* the planning pass, also when only its position is wrong: without a fault, a
\* run that has started to write does not fail.
NoHalfwayFailure == pass = "write" /\ pc = "failed" => faults > 0

Rank(s, k, ks) ==
  Cardinality({i \in DOMAIN s : s[i].key \in ks /\ \E j \in DOMAIN s : s[j].key = k /\ i <= j})

\* What document d asks of a console s. Where an entry of a pair gives an
\* order, its entries for the user's policies are evaluated in that order,
\* those without one last, as listed.
Settled(s, d) ==
  LET holders(k) == {p \in ToSet(s) : p.key = k}
      entries    == DOMAIN d.entries
      users      == {e \in entries : \A p \in holders(d.entries[e].key) : ~p.system}
      ks         == {d.entries[e].key : e \in users}
      ordered(pair) == \E e \in users : d.entries[e].key[1] = pair /\ d.entries[e].order # NoOrder
  IN  /\ \A e \in entries :
           \E p \in holders(d.entries[e].key) : p.conf = d.entries[e].conf
      /\ d.prune => \A p \in ToSet(s) :
                      p.system \/ \E e \in entries : d.entries[e].key = p.key
      /\ \A e, f \in users :
           LET one == d.entries[e]
               two == d.entries[f]
           IN  /\ one.key[1] = two.key[1] /\ ordered(one.key[1])
               /\ \/ one.order # NoOrder /\ (two.order = NoOrder \/ one.order < two.order)
                  \/ one.order = two.order /\ e < f
               => Rank(s, one.key, ks) < Rank(s, two.key, ks)

\* A run that reports success leaves the declared policies as declared and
\* evaluated in the declared order, wherever the console put the new ones.
AppliedIsSettled == pc \in {"clean", "applied"} => Settled(policies, doc)

\* The plan is the truth about the run: what is written is what was planned,
\* nothing planned is refused after the first write, and success means that the
\* policies are as declared, in the declared order (docs/unifi.md:41).
PlanIsCarriedOut == PlanIsExact /\ NoHalfwayFailure /\ AppliedIsSettled

\* --max-changes bounds moves: every policy whose place among the declared
\* ones that were there before is another after the run was counted.
MovesAreCounted ==
  pc = "applied" =>
    LET kept == {k \in Keys : Declares(k) /\ \E p \in ToSet(start) : p.key = k /\ ~p.system}
    IN  Cardinality({k \in kept : Rank(policies, k, {j \in kept : j[1] = k[1]})
                                  # Rank(start, k, {j \in kept : j[1] = k[1]})})
        <= planned.moved

\* A write addresses a policy by the id the console gave it and is certain which
\* one it is; an update overwrites nothing that the schema cannot express or the
\* console does not let change; a delete needs --prune, and takes nothing
\* declared and nothing of the console's own.
WritesAreSafe ==
  [][\A p \in ToSet(policies) \ ToSet(policies') :
       /\ p.hasId
       /\ \A q \in ToSet(policies) : q.key = p.key => q = p
       /\ IF Holds(policies', p.uid)
          THEN p.conf \notin Opaque /\ ~(p.system /\ p.fixed)
          ELSE doc.prune /\ ~p.system /\ ~Declares(p.key)]_vars

\* model.go: without an order a policy is left where it is. A reorder leaves
\* the policies that give none in the places they had.
OmittedOrderStays ==
  [][\A pair \in Pairs, i \in DOMAIN policies :
       /\ Reorder(pair) /\ policies[i].key[1] = pair
       /\ \E e \in Entries : doc.entries[e].key = policies[i].key /\ doc.entries[e].order = NoOrder
       => policies'[i] = policies[i]]_vars

\* However runs are cut short, even between a create and the reorder that puts
\* the new policy in its place, and whatever documents came before: once the
\* document stays the same the console becomes what it says, or the planning
\* pass refuses it for ever.
EventuallySettled ==
  <>[][doc' = doc]_doc => <>[]Settled(policies, doc) \/ []<>(pass = "plan" /\ pc = "failed")
=============================================================================
