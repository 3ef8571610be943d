------------------------------- MODULE DnsSync -------------------------------
(***************************************************************************)
(* `dns sync` (cmd/dns/sync.go): the zones of the input are converged one  *)
(* after the other.  Each zone is read once and planned whole, then the    *)
(* plan is carried out in three phases, so that no create ever meets a     *)
(* record the CNAME rule forbids next to it, and an ordinary change keeps  *)
(* the old record until the new one is there.  Meanwhile the preview       *)
(* deploys create and delete their own records (cmd/dns/preview.go),       *)
(* somebody uses Porkbun's web page, requests fail, and runs are killed.   *)
(***************************************************************************)
EXTENDS Integers, SequencesExt

CONSTANTS
  Domains,
  Names,        \* record names within a domain
  PreviewNames, \* those that begin with preview-
  Contents,
  TTLs,         \* stands for the TTL and the priority
  Ids,          \* record ids, increasing; Porkbun lists records by id. Bound: when
                \* none is free, nothing can be created
  InitialZones, \* what Porkbun may hold at first
  Inputs,       \* the inputs `dns sync` may be given
  Prunes,       \* values of --prune
  DryRuns,      \* values of --dry-run
  MaxFaults,    \* bound: failed or unanswered requests, and kills
  MaxOutside    \* bound: changes made by others

\* "NS" stands for SOA too: prunable treats the two alike. Names are as
\* stripDomain and normalizeDomain leave them.
Types   == {"A", "TXT", "CNAME", "NS"}
Desired == [type : Types, name : Names, content : Contents, ttl : TTLs]
Record  == [id : Ids, type : Types, name : Names, content : Contents, ttl : TTLs]
Porkbun == [Domains -> SUBSET Record]

ASSUME NamesAssumption == PreviewNames \subseteq Names
ASSUME IdsAssumption   == Ids \subseteq Nat /\ IsFiniteSet(Ids)
ASSUME InputAssumption ==
  /\ InitialZones \subseteq Porkbun
  /\ \A z \in InitialZones : \A d \in Domains : \A r, s \in z[d] : r.id = s.id => r = s
  /\ \A in \in Inputs : in \in Seq([domain : Domains, records : Seq(Desired)])
  /\ Prunes \subseteq BOOLEAN /\ DryRuns \subseteq BOOLEAN
ASSUME TTLsAssumption == TTLs # {}
ASSUME BoundAssumption == MaxFaults \in Nat /\ MaxOutside \in Nat

VARIABLES
  zones,    \* Porkbun's records
  input,    \* the zones to sync, in order
  prune, dryRun,
  pc,       \* "zone" | "writing", or how the run ended
  at,       \* the zone of input being synced
  first,    \* records to delete before the upserts
  upserts,  \* operations still to be carried out, in input order
  last,     \* records to delete after the upserts
  faults,
  outside,  \* changes made by others so far
  \* history
  disturbed, \* others changed something since the run started
  start      \* Porkbun's records when the run started

runVars == <<input, prune, dryRun, at, start>>
vars == <<zones, runVars, pc, first, upserts, last, faults, outside, disturbed>>

-----------------------------------------------------------------------------
Endings == {"idle", "finished", "refused", "failed", "killed"}
Running == pc \notin Endings
Domain  == input[at].domain

SameName(r, s)  == r.name = s.name
SameKey(r, s)   == r.type = s.type /\ r.name = s.name /\ r.content = s.content
SameNameType(r, s) == r.type = s.type /\ r.name = s.name

\* cnameConflict.
Conflicts(r, s) == SameName(r, s) /\ (r.type = "CNAME" \/ s.type = "CNAME")

\* Mutant: only an entry repeated as a whole is taken for a duplicate.
CoherentEntries(in) == \A i, j \in DOMAIN in : in[i] = in[j] => i = j

\* validateZones: no domain twice.
Coherent(in) == \A i, j \in DOMAIN in : in[i].domain = in[j].domain => i = j

\* checkDesiredCNAMEs.
DesiredClash(ws) == \E i, j \in DOMAIN ws : i < j /\ Conflicts(ws[i], ws[j])

\* existingByKey: of equal records, the one listed last.
Matches(existing, w) == {r \in existing : SameKey(r, w)}
LastMatch(existing, w) ==
  CHOOSE r \in Matches(existing, w) : \A s \in Matches(existing, w) : s.id <= r.id

\* Mutant: the TTL is not compared.
VerbByKey(existing, w) == IF Matches(existing, w) = {} THEN "CREATE" ELSE "OK"

\* CREATE, UPDATE or OK.
Verb(existing, w) ==
  IF Matches(existing, w) = {} THEN "CREATE"
  ELSE IF LastMatch(existing, w).ttl # w.ttl THEN "UPDATE" ELSE "OK"

Creates(existing, ws) == {w \in ToSet(ws) : Matches(existing, w) = {}}

Protected(r) == r.type = "NS" \/ r.name \in PreviewNames

\* prunable, and --prune given.
Pruned(existing, ws) ==
  {r \in existing :
     /\ prune /\ ~Protected(r)
     /\ \A w \in ToSet(ws) : SameKey(r, w) => r # LastMatch(existing, w)}

\* Mutant: everything pruned goes first.
InTheWayPruned(existing, ws) == Pruned(existing, ws)

\* Mutant: only an existing CNAME stands in the way.
InTheWayCNAMEs(existing, ws) ==
  {r \in existing : r.type = "CNAME" /\ \E w \in Creates(existing, ws) : SameName(w, r)}

\* Records that stand in the way of a create.
InTheWay(existing, ws) ==
  {r \in existing : \E w \in Creates(existing, ws) : Conflicts(w, r)}

\* Mutant: the early deletes are not taken out of the late ones.
DeferredPruned(existing, ws) == Pruned(existing, ws)

\* Every other delete.
Deferred(existing, ws) == Pruned(existing, ws) \ InTheWay(existing, ws)

NoPlan == first' = {} /\ upserts' = <<>> /\ last' = {}
End(how) == pc' = how /\ NoPlan

-----------------------------------------------------------------------------
(* Porkbun, as the code uses it (external) *)

\* An id is not given again while a run remembers it.
FreeIds(d) == Ids \ {r.id : r \in zones[d] \cup start[d] \cup first \cup last}

NewId(d) == CHOOSE i \in FreeIds(d) : TRUE

Create(d, w) ==
  zones[d] \cup {[id |-> NewId(d), type |-> w.type, name |-> w.name, content |-> w.content, ttl |-> w.ttl]}

\* RECORD_CONFLICT: Porkbun keeps the CNAME rule.
MayCreate(d, w) == ~\E r \in zones[d] : Conflicts(w, r)

\* editByNameType names no record: it edits every record of the name and type.
EditByNameType(rs, w) ==
  {IF SameNameType(r, w) THEN [r EXCEPT !.content = w.content, !.ttl = w.ttl] ELSE r : r \in rs}

DeleteById(rs, r) == {s \in rs : s.id # r.id}

Answers == {"done", "lost", "rejected"}

\* One write: carried out and answered, carried out but not answered, or
\* rejected; the first error ends the run.
Send(acceptable, after, answer) ==
  /\ answer # "rejected" => acceptable
  /\ zones' = IF answer = "rejected" THEN zones ELSE [zones EXCEPT ![Domain] = after]
  /\ IF answer = "done" \/ ~acceptable THEN UNCHANGED faults
     ELSE faults < MaxFaults /\ faults' = faults + 1

-----------------------------------------------------------------------------
StartSync ==
  /\ ~Running
  /\ input' \in Inputs /\ prune' \in Prunes /\ dryRun' \in DryRuns
  /\ at' = 1
  /\ pc' = IF Coherent(input') THEN "zone" ELSE "refused"
  /\ NoPlan
  /\ start' = zones /\ disturbed' = FALSE
  /\ UNCHANGED <<zones, faults, outside>>

\* syncRecords: read the zone and plan it, or refuse it. A dry run prints the
\* plan and goes on to the next zone.
PlanZone ==
  /\ pc = "zone" /\ at \in DOMAIN input
  /\ LET ws       == input[at].records
         existing == zones[Domain]
         inTheWay == InTheWay(existing, ws)
     IN  IF DesiredClash(ws) \/ ~(inTheWay \subseteq Pruned(existing, ws))
         THEN End("refused") /\ UNCHANGED at
         ELSE IF dryRun
         THEN at' = at + 1 /\ UNCHANGED <<pc, first, upserts, last>>
         ELSE /\ pc' = "writing"
              /\ first' = inTheWay
              /\ upserts' = [i \in DOMAIN ws |-> [verb |-> Verb(existing, ws[i]), want |-> ws[i]]]
              /\ last' = Deferred(existing, ws)
              /\ UNCHANGED at
  /\ UNCHANGED <<zones, input, prune, dryRun, start, faults, outside, disturbed>>

DeleteFirst(r) ==
  /\ pc = "writing" /\ r \in first
  /\ \E answer \in Answers :
       /\ Send(\E s \in zones[Domain] : s.id = r.id, DeleteById(zones[Domain], r), answer)
       /\ IF answer = "done" THEN first' = first \ {r} /\ UNCHANGED <<pc, upserts, last>>
                             ELSE End("failed")
  /\ UNCHANGED <<runVars, outside, disturbed>>

Upsert ==
  /\ pc = "writing" /\ first = {} /\ upserts # <<>>
  /\ LET op == Head(upserts)
         w  == op.want
         rs == zones[Domain]
     IN  \E answer \in Answers :
           /\ CASE op.verb = "OK"     -> answer = "done" /\ UNCHANGED <<zones, faults>>
                [] op.verb = "CREATE" -> FreeIds(Domain) # {} /\ Send(MayCreate(Domain, w), Create(Domain, w), answer)
                [] op.verb = "UPDATE" -> Send(\E r \in rs : SameNameType(r, w),
                                              EditByNameType(rs, w), answer)
           /\ IF answer = "done" THEN upserts' = Tail(upserts) /\ UNCHANGED <<pc, first, last>>
                                 ELSE End("failed")
  /\ UNCHANGED <<runVars, outside, disturbed>>

DeleteLast(r) ==
  /\ pc = "writing" /\ first = {} /\ upserts = <<>> /\ r \in last
  /\ \E answer \in Answers :
       /\ Send(\E s \in zones[Domain] : s.id = r.id, DeleteById(zones[Domain], r), answer)
       /\ IF answer = "done" THEN last' = last \ {r} /\ UNCHANGED <<pc, first, upserts>>
                             ELSE End("failed")
  /\ UNCHANGED <<runVars, outside, disturbed>>

\* syncZones: the next zone, or the end.
ZoneDone ==
  /\ pc = "writing" /\ first = {} /\ upserts = <<>> /\ last = {}
  /\ pc' = "zone" /\ at' = at + 1
  /\ UNCHANGED <<zones, input, prune, dryRun, start, first, upserts, last, faults, outside,
                 disturbed>>

Finish ==
  /\ pc = "zone" /\ at \notin DOMAIN input
  /\ End("finished")
  /\ UNCHANGED <<zones, runVars, faults, outside, disturbed>>

\* retrieve fails.
FailRetrieve ==
  /\ pc = "zone" /\ at \in DOMAIN input
  /\ faults < MaxFaults /\ faults' = faults + 1
  /\ End("failed")
  /\ UNCHANGED <<zones, runVars, outside, disturbed>>

\* The job is cancelled or its runner lost.
Kill ==
  /\ Running /\ faults < MaxFaults /\ faults' = faults + 1
  /\ End("killed")
  /\ UNCHANGED <<zones, runVars, outside, disturbed>>

-----------------------------------------------------------------------------
(* Others *)

Outside ==
  /\ outside < MaxOutside /\ outside' = outside + 1
  /\ disturbed' = TRUE
  /\ UNCHANGED <<runVars, pc, first, upserts, last, faults>>

\* `dns preview create` and `dns preview delete`.
PreviewCreate(d, n, c) ==
  LET w == [type |-> "CNAME", name |-> n, content |-> c, ttl |-> CHOOSE t \in TTLs : TRUE]
  IN  /\ FreeIds(d) # {} /\ MayCreate(d, w)
      /\ zones' = [zones EXCEPT ![d] = Create(d, w)]
      /\ Outside

PreviewDelete(d, n) ==
  /\ \E r \in zones[d] : r.type = "CNAME" /\ r.name = n
  /\ zones' = [zones EXCEPT ![d] = {r \in @ : ~(r.type = "CNAME" /\ r.name = n)}]
  /\ Outside

\* Somebody on Porkbun's web page.
WebDelete(d, r) ==
  /\ zones' = [zones EXCEPT ![d] = @ \ {r}]
  /\ Outside

-----------------------------------------------------------------------------
Init ==
  /\ zones \in InitialZones /\ start = zones
  /\ input = <<>> /\ prune = FALSE /\ dryRun = TRUE
  /\ pc = "idle" /\ at = 1
  /\ first = {} /\ upserts = <<>> /\ last = {}
  /\ faults = 0 /\ outside = 0 /\ disturbed = FALSE

RunStep ==
  \/ PlanZone \/ Upsert \/ ZoneDone \/ Finish
  \/ \E r \in first \cup last : DeleteFirst(r) \/ DeleteLast(r)

Others ==
  \E d \in Domains :
    \/ \E n \in PreviewNames : PreviewDelete(d, n) \/ \E c \in Contents : PreviewCreate(d, n, c)
    \/ \E r \in zones[d] : WebDelete(d, r)

Next == StartSync \/ RunStep \/ FailRetrieve \/ Kill \/ Others

Spec == Init /\ [][Next]_vars

\* A run goes on. Nothing starts another: dns-sync.yml is called by other
\* workflows and has no timer and no retry.
FairSpec == Spec /\ WF_vars(RunStep)

-----------------------------------------------------------------------------
(* Properties *)

\* Every variable has its type, ids are unique within a zone, the zone being
\* written is one of the input, and no record is in both phases of deletes.
TypeOK ==
  /\ zones \in Porkbun /\ start \in Porkbun
  /\ \A d \in Domains : \A r, s \in zones[d] : r.id = s.id => r = s
  /\ input \in Inputs \cup {<<>>} /\ prune \in BOOLEAN /\ dryRun \in BOOLEAN
  /\ pc \in Endings \cup {"zone", "writing"}
  /\ at \in 1..(Len(input) + 1) /\ (pc = "writing" => at \in DOMAIN input)
  /\ first \subseteq Record /\ last \subseteq Record /\ first \cap last = {}
  /\ \A i \in DOMAIN upserts : upserts[i].verb \in {"OK", "CREATE", "UPDATE"}
                               /\ upserts[i].want \in Desired
  /\ faults \in 0..MaxFaults /\ outside \in 0..MaxOutside /\ disturbed \in BOOLEAN

\* README: NS, SOA and preview-* records are never pruned. Unless others change
\* the zone too, neither is the last record that satisfies an entry of the
\* input, in whatever zone entry.
DeletesAreSafe ==
  [][\A r \in first \cup last : (DeleteFirst(r) \/ DeleteLast(r)) =>
       \A s \in zones[Domain] \ zones'[Domain] :
         /\ prune /\ ~Protected(s)
         /\ \A i \in DOMAIN input : \A w \in ToSet(input[i].records) :
              ~disturbed /\ input[i].domain = Domain /\ SameKey(s, w)
              => \E t \in zones'[Domain] : SameKey(t, w)]_vars

\* The phases (sync.go:165): while a run is changing a zone nobody else
\* touches, a name that had a record of a type, and is to have one, has one at
\* every moment. Only a CNAME that gets another target must go first.
KeepsAnswering ==
  pc = "writing" /\ ~disturbed =>
    \A r \in start[Domain] :
      r.type # "CNAME" /\ (\E w \in ToSet(input[at].records) : SameNameType(r, w))
      => \E s \in zones[Domain] : SameNameType(r, s)

\* The whole zone is planned before its first write: unless a request is lost
\* or somebody else changes the zone, no write fails, in particular none for
\* the CNAME rule.
NoHalfwayFailure == pc = "failed" => faults > 0 \/ disturbed

\* What the i-th entry of in asks of Porkbun.
Converged(in, i, pruning) ==
  LET rs == zones[in[i].domain]
      ws == ToSet(in[i].records)
  IN  /\ \A w \in ws : \E r \in rs : SameKey(r, w) /\ r.ttl = w.ttl
      /\ pruning => \A r \in rs : Protected(r) \/ \E w \in ws : SameKey(r, w)

\* README: sync converges Porkbun records to match. A run that nobody
\* disturbed and that reports success has done so for every zone.
FinishedIsConverged ==
  pc = "finished" /\ ~dryRun /\ ~disturbed =>
    \A i \in DOMAIN input : Converged(input, i, prune)

\* Without --prune nothing is lost: each record that was there stays, content
\* included, however the run ends.
UnprunedStays ==
  ~prune /\ ~disturbed /\ pc # "idle" =>
    \A d \in Domains : \A r \in start[d] :
      \E s \in zones[d] : s.id = r.id /\ SameKey(s, r)

\* No update addresses more than one record: what is there under its name and
\* type has its content, and no other entry shares them.
UpdatesNameOneRecord ==
  \A i \in DOMAIN input :
    LET ws       == ToSet(input[i].records)
        existing == start[input[i].domain]
    IN  \A w \in ws : Verb(existing, w) = "UPDATE" =>
          /\ \A v \in ws : SameNameType(v, w) => v = w
          /\ \A r \in existing : SameNameType(r, w) => SameKey(r, w)

\* The plan of a zone is the truth about it: none of its writes is refused,
\* success means that every zone is as the input says, and what is not to be
\* pruned stays (README.md:269), unless an update hits more than its record.
PlanIsCarriedOut ==
  NoHalfwayFailure /\ (UpdatesNameOneRecord => FinishedIsConverged /\ UnprunedStays)

\* However many runs are cut short, and whatever was synced before: if people
\* start the same sync again and again, the zones become what the input says
\* and stay so. Or the runs are refused at one zone for ever; then that is true
\* of the zones before it.
EventuallyConverged ==
  /\ <>[][UNCHANGED <<input, prune, dryRun>>]_<<input, prune, dryRun>>
  /\ []<>Running
  => \/ <>[]dryRun
     \/ <>[](\A i \in DOMAIN input : Converged(input, i, prune))
     \/ \E k \in 1..Cardinality(Domains) :
          /\ []<>(pc = "refused" /\ at = k)
          /\ <>[](\A i \in DOMAIN input : i < k => Converged(input, i, prune))
=============================================================================
