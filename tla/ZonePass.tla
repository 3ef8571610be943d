------------------------------- MODULE ZonePass -------------------------------
(***************************************************************************)
(* Networks and firewall zones in one `unifi` run (cmd/unifi/plan.go:      *)
(* syncNetworks, createZones, syncZones).  The two types are entangled: a  *)
(* network is created into a zone, so missing zones come first; creating a *)
(* zone takes its existing members from the zones they are in; and zones   *)
(* are read a second time after the networks are written.  The planning    *)
(* pass walks the same code without writing, so it must foresee what the   *)
(* writing pass will read.                                                 *)
(*                                                                         *)
(* Networks and zones are known by name; a name stands for its id too.     *)
(* Guards, snapshots and edits in the console UI are in ReconcileRun.      *)
(***************************************************************************)
EXTENDS Integers, FiniteSets

CONSTANTS
  Nets,       \* network names
  Zones,      \* zone names
  Confs,      \* a network's configuration, the zone aside
  Builtin,    \* networks and zones the console owns: never pruned
  Fixed,      \* zones with WAN members, or not configurable
  NoZone,     \* the zone of a network in none
  Absent,     \* no such network, no such zone, not declared
  Consoles,   \* the consoles a behaviour may start from
  Documents,  \* the instance documents a run may be given
  MaxFaults   \* bound: failed or unanswered requests, and kills

Network == [conf : Confs, zone : Zones \cup {NoZone}]

\* A console: its networks, its zones, and whether the zone-based firewall is
\* configured.  A network is in at most one zone.
Console == [nets : [Nets -> {Absent} \cup Network], zones : SUBSET Zones, zbf : BOOLEAN]

\* A #Site document. prune also stands for every deletion being listed.
Document == [nets : [Nets -> Confs \cup {Absent}],
             zones : [Zones -> {Absent} \cup SUBSET Nets],
             prune : BOOLEAN]

ASSUME NamesAssumption  == Nets \cap Zones = {} /\ NoZone \notin Zones
ASSUME FixedAssumption  == Fixed \subseteq Builtin /\ Builtin \subseteq Nets \cup Zones
ASSUME AbsentAssumption ==
  Absent \notin Confs /\ Absent \notin Network /\ \A ns \in SUBSET Nets : ns # Absent
ASSUME FiniteAssumption == IsFiniteSet(Nets)
ASSUME InputAssumption  == Consoles \subseteq Console /\ Documents \subseteq Document
ASSUME BoundAssumption  == MaxFaults \in Nat

\* The zone a console says a network is in exists.
ASSUME ZonesAssumption ==
  \A c \in Consoles, n \in Nets :
    c.nets[n] # Absent => c.nets[n].zone \in c.zones \cup {NoZone}

\* lintZones: no network is declared in two zones.
ASSUME LintAssumption ==
  \A d \in Documents, z1, z2 \in Zones :
    z1 # z2 /\ d.zones[z1] # Absent /\ d.zones[z2] # Absent
    => d.zones[z1] \cap d.zones[z2] = {}

VARIABLES
  nets,     \* the console's networks
  zones,    \* the console's zones
  zbf,      \* the zone-based firewall is configured
  doc,      \* want
  pass,     \* "plan" | "write"
  pc,       \* where in the pass the run is, or how it ended
  read,     \* byName of syncNetworks
  known,    \* the keys of networkIDs: what resolveNetworks finds
  members,  \* the zones the current step read, and their networks
  created,  \* createdZones
  placed,   \* networks a zone create or a network create put in its zone
  todo,     \* names the current step has not handled yet
  lines,    \* plan lines of this pass, other than OK
  updates,  \* moves this pass counted, on top of its UPDATE lines
  planned,  \* history: lines and moves of the planning pass
  start,    \* history: the console's networks and zones when the run started
  faults

console == <<nets, zones, zbf>>
reading == <<read, known, members>>
placing == <<created, placed>>
vars == <<console, doc, pass, pc, reading, placing, todo, lines, updates,
          planned, start, faults>>

-----------------------------------------------------------------------------
LiveNets     == {n \in Nets : nets[n] # Absent}
ReadNets     == {n \in Nets : read[n] # Absent}
DeclaredNets == {n \in Nets : doc.nets[n] # Absent}
DeclaredZones == {z \in Zones : doc.zones[z] # Absent}
ReadZones    == {z \in Zones : members[z] # Absent}
DryRun       == pass = "plan"

NoNets  == [n \in Nets |-> Absent]
NoZones == [z \in Zones |-> Absent]

Endings == {"idle", "clean", "applied", "failed", "killed"}
Running == pc \notin Endings

\* GET zones: every zone with the networks in it.
ListZones ==
  [z \in Zones |-> IF z \in zones THEN {n \in LiveNets : nets[n].zone = z} ELSE Absent]

\* zoneOf in createZones: the declared zone of n.
DeclaredZone(n) ==
  IF \E z \in DeclaredZones : n \in doc.zones[z]
  THEN CHOOSE z \in DeclaredZones : n \in doc.zones[z]
  ELSE NoZone

\* homes: the zone a network create joins, and the zone an update must name
\* when a zone create moved the network.
HasHome(n) == zbf /\ (n \notin ReadNets \/ n \in placed)

BeginPass(p) ==
  /\ pass' = p /\ pc' = "readNets"
  /\ read' = NoNets /\ known' = {} /\ members' = NoZones
  /\ created' = {} /\ placed' = {} /\ todo' = {}
  /\ lines' = {} /\ updates' = 0

End(how) ==
  /\ pc' = how
  /\ read' = NoNets /\ known' = {} /\ members' = NoZones
  /\ created' = {} /\ placed' = {} /\ todo' = {}

-----------------------------------------------------------------------------
(* The console, as the code uses it (external) *)

\* A network write joins the network to its zoneId.
PutNetwork(n, conf, zone) == nets' = [nets EXCEPT ![n] = [conf |-> conf, zone |-> zone]]

\* A zone write claims the networks it lists; those it drops are in no zone.
PutZone(z, ns) ==
  /\ zones' = zones \cup {z}
  /\ nets' = [n \in Nets |->
       IF n \in ns THEN [nets[n] EXCEPT !.zone = z]
       ELSE IF n \in LiveNets /\ nets[n].zone = z THEN [nets[n] EXCEPT !.zone = NoZone]
       ELSE nets[n]]

DropNetwork(n) == nets' = [nets EXCEPT ![n] = Absent]

DropZone(z) ==
  /\ zones' = zones \ {z}
  /\ nets' = [n \in Nets |-> IF n \in LiveNets /\ nets[n].zone = z
                             THEN [nets[n] EXCEPT !.zone = NoZone] ELSE nets[n]]

\* mutate: nothing in a dry run; otherwise the request is carried out and
\* answered, carried out but not answered, or rejected. acceptable is FALSE
\* for a request naming a network that is gone.
Mutate(acceptable, write, answer) ==
  IF DryRun THEN answer = "done" /\ UNCHANGED <<nets, zones, faults>>
  ELSE /\ answer # "rejected" => acceptable
       /\ IF answer = "rejected" THEN UNCHANGED <<nets, zones>> ELSE write
       /\ IF answer = "done" \/ ~acceptable THEN UNCHANGED faults
          ELSE faults < MaxFaults /\ faults' = faults + 1

Answers == {"done", "lost", "rejected"}

-----------------------------------------------------------------------------
StartRun ==
  /\ ~Running
  /\ doc' \in Documents
  /\ BeginPass("plan")
  /\ planned' = [lines |-> {}, moves |-> 0]
  /\ start' = [nets |-> nets, zones |-> zones]
  /\ UNCHANGED <<console, faults>>

\* syncNetworks begins: list the networks.
ReadNetworks ==
  /\ pc = "readNets"
  /\ read' = nets /\ known' = LiveNets
  /\ pc' = "createZones"
  /\ UNCHANGED <<console, doc, pass, members, placing, todo, lines, updates,
                 planned, start, faults>>

\* A new network the document puts in no zone cannot be created.
Homeless == \E n \in DeclaredNets \ ReadNets : DeclaredZone(n) = NoZone

\* createZones begins: without the zone-based firewall there is nothing to do.
ListForCreate ==
  /\ pc = "createZones"
  /\ \/ /\ ~zbf
        /\ pc' = "networks" /\ todo' = DeclaredNets
        /\ UNCHANGED reading
     \/ /\ zbf /\ ~Homeless
        /\ pc' = "creating" /\ members' = ListZones
        /\ todo' = {z \in DeclaredZones : z \notin zones}
        /\ UNCHANGED <<read, known>>
  /\ UNCHANGED <<console, doc, pass, placing, lines, updates, planned, start, faults>>

RefuseHomeless ==
  /\ pc = "createZones" /\ zbf /\ Homeless
  /\ End("failed")
  /\ UNCHANGED <<console, doc, pass, lines, updates, planned, start, faults>>

\* A missing zone lists a network that neither exists nor will be created.
Unresolvable(z) == ~(doc.zones[z] \subseteq ReadNets \cup DeclaredNets)

RefuseZone(z) ==
  /\ pc = "creating" /\ z \in todo /\ Unresolvable(z)
  /\ End("failed")
  /\ UNCHANGED <<console, doc, pass, lines, updates, planned, start, faults>>

\* Mutant: the members a zone create takes are not counted.
MoversUncounted(z) == {}

\* The live members of the new zone that leave another zone for it.
Movers(z) == {n \in doc.zones[z] \cap ReadNets : \E y \in ReadZones : n \in members[y]}

CreateZone(z) ==
  /\ pc = "creating" /\ z \in todo /\ ~Unresolvable(z)
  /\ updates' = updates + Cardinality(Movers(z))
  /\ lines' = lines \cup {<<"CREATE", z>>}
  /\ \E answer \in Answers :
       /\ Mutate(TRUE, PutZone(z, doc.zones[z] \cap ReadNets), answer)
       /\ IF answer = "done"
          THEN /\ created' = created \cup {z}
               /\ placed' = placed \cup (doc.zones[z] \cap ReadNets)
               /\ todo' = todo \ {z}
               /\ UNCHANGED <<pc, reading>>
          ELSE End("failed")
  /\ UNCHANGED <<zbf, doc, pass, planned, start>>

StartNetworks ==
  /\ pc = "creating" /\ todo = {}
  /\ pc' = "networks" /\ todo' = DeclaredNets
  /\ UNCHANGED <<console, doc, pass, reading, placing, lines, updates, planned,
                 start, faults>>

\* Mutant: only a network the console has created can be resolved.
RegisteredOnWrite(n) == known' = IF DryRun THEN known ELSE known \cup {n}

\* newID: a network of a dry run gets a stand-in id, so that zones resolve it.
Registered(n) == known' = known \cup {n}

CreateNetwork(n) ==
  /\ pc = "networks" /\ n \in todo /\ n \notin ReadNets
  /\ lines' = lines \cup {<<"CREATE", n>>}
  /\ \E answer \in Answers :
       /\ Mutate(TRUE, /\ PutNetwork(n, doc.nets[n], IF HasHome(n) THEN DeclaredZone(n) ELSE NoZone)
                       /\ UNCHANGED zones, answer)
       /\ IF answer = "done"
          THEN /\ placed' = IF zbf THEN placed \cup {n} ELSE placed
               /\ Registered(n)
               /\ todo' = todo \ {n}
               /\ UNCHANGED <<pc, read, members, created>>
          ELSE End("failed")
  /\ UNCHANGED <<zbf, doc, pass, updates, planned, start>>

NetworkOK(n) ==
  /\ pc = "networks" /\ n \in todo /\ n \in ReadNets
  /\ read[n].conf = doc.nets[n]
  /\ todo' = todo \ {n}
  /\ UNCHANGED <<console, doc, pass, pc, reading, placing, lines, updates, planned,
                 start, faults>>

\* Mutant: the zone the network was read in is sent back.
ZoneSentAsRead(n) == read[n].zone

\* updateBody: the PUT carries the zone the network was read in, unless a zone
\* create has moved it since.
ZoneSent(n) == IF HasHome(n) THEN DeclaredZone(n) ELSE read[n].zone

UpdateNetwork(n) ==
  /\ pc = "networks" /\ n \in todo /\ n \in ReadNets
  /\ read[n].conf # doc.nets[n]
  /\ lines' = lines \cup {<<"UPDATE", n>>}
  /\ \E answer \in Answers :
       /\ Mutate(n \in LiveNets, PutNetwork(n, doc.nets[n], ZoneSent(n)) /\ UNCHANGED zones, answer)
       /\ IF answer = "done"
          THEN todo' = todo \ {n} /\ UNCHANGED <<pc, reading, placing>>
          ELSE End("failed")
  /\ UNCHANGED <<zbf, doc, pass, updates, planned, start>>

\* pruneList, for networks. networkIDs keeps the deleted ones.
PruneNetworks ==
  /\ pc = "networks" /\ todo = {}
  /\ pc' = "pruneNets"
  /\ todo' = IF doc.prune THEN ReadNets \ (DeclaredNets \cup Builtin) ELSE {}
  /\ UNCHANGED <<console, doc, pass, reading, placing, lines, updates, planned,
                 start, faults>>

DeleteNetwork(n) ==
  /\ pc = "pruneNets" /\ n \in todo
  /\ lines' = lines \cup {<<"DELETE", n>>}
  /\ \E answer \in Answers :
       /\ Mutate(n \in LiveNets, DropNetwork(n) /\ UNCHANGED zones, answer)
       /\ IF answer = "done"
          THEN todo' = todo \ {n} /\ UNCHANGED <<pc, reading, placing>>
          ELSE End("failed")
  /\ UNCHANGED <<zbf, doc, pass, updates, planned, start>>

\* syncZones begins: the zones are read again.
ReadZonesAgain ==
  /\ pc = "pruneNets" /\ todo = {}
  /\ IF zbf THEN pc' = "zones" /\ members' = ListZones /\ todo' = DeclaredZones
            ELSE pc' = "done" /\ UNCHANGED <<members, todo>>
  /\ UNCHANGED <<console, doc, pass, read, known, placing, lines, updates, planned,
                 start, faults>>

\* Mutant: placed networks are compared as well.
SameMembersPlaced(z) == members[z] = doc.zones[z]

\* Mutant: a network too many in the zone is let be.
SameMembersSubset(z) == doc.zones[z] \ placed \subseteq members[z]

\* Placed networks are members by construction; neither pass compares them.
SameMembers(z) == members[z] \ placed = doc.zones[z] \ placed

\* The entry cannot be carried out: it names an unknown network, the zone is
\* gone, or it differs and cannot be written.
ZoneFault(z) ==
  \/ ~(doc.zones[z] \subseteq known)
  \/ z \notin ReadZones /\ z \notin created
  \/ z \in ReadZones /\ ~SameMembers(z) /\ z \in Fixed

FailZone(z) ==
  /\ pc = "zones" /\ z \in todo /\ ZoneFault(z)
  /\ End("failed")
  /\ UNCHANGED <<console, doc, pass, lines, updates, planned, start, faults>>

\* Equal, or created by this dry run and so not readable yet.
ZoneOK(z) ==
  /\ pc = "zones" /\ z \in todo /\ ~ZoneFault(z)
  /\ z \in ReadZones => SameMembers(z)
  /\ todo' = todo \ {z}
  /\ UNCHANGED <<console, doc, pass, pc, reading, placing, lines, updates, planned,
                 start, faults>>

UpdateZone(z) ==
  /\ pc = "zones" /\ z \in todo /\ ~ZoneFault(z)
  /\ z \in ReadZones /\ ~SameMembers(z)
  /\ lines' = lines \cup {<<"UPDATE", z>>}
  /\ \E answer \in Answers :
       /\ Mutate(z \in zones /\ doc.zones[z] \subseteq LiveNets, PutZone(z, doc.zones[z]), answer)
       /\ IF answer = "done"
          THEN todo' = todo \ {z} /\ UNCHANGED <<pc, reading, placing>>
          ELSE End("failed")
  /\ UNCHANGED <<zbf, doc, pass, updates, planned, start>>

\* pruneList, for zones: after every declared zone has taken its members.
PruneZones ==
  /\ pc = "zones" /\ todo = {}
  /\ pc' = "pruneZones"
  /\ todo' = IF doc.prune THEN ReadZones \ (DeclaredZones \cup Builtin) ELSE {}
  /\ UNCHANGED <<console, doc, pass, reading, placing, lines, updates, planned,
                 start, faults>>

DeleteZone(z) ==
  /\ pc = "pruneZones" /\ z \in todo
  /\ lines' = lines \cup {<<"DELETE", z>>}
  /\ \E answer \in Answers :
       /\ Mutate(z \in zones, DropZone(z), answer)
       /\ IF answer = "done"
          THEN todo' = todo \ {z} /\ UNCHANGED <<pc, reading, placing>>
          ELSE End("failed")
  /\ UNCHANGED <<zbf, doc, pass, updates, planned, start>>

PassDone == pc = "done" \/ (pc = "pruneZones" /\ todo = {})

\* The guards let the plan through (ReconcileRun has the runs they refuse).
FinishPlan ==
  /\ pass = "plan" /\ PassDone
  /\ planned' = [lines |-> lines, moves |-> updates]
  /\ IF lines = {} THEN End("clean") /\ UNCHANGED <<pass, lines, updates>>
                   ELSE BeginPass("write")
  /\ UNCHANGED <<console, doc, start, faults>>

FinishWrite ==
  /\ pass = "write" /\ PassDone
  /\ End("applied")
  /\ UNCHANGED <<console, doc, pass, lines, updates, planned, start, faults>>

\* A failed GET, ^C, a reboot: at any moment the run is gone.
Kill ==
  /\ Running /\ faults < MaxFaults /\ faults' = faults + 1
  /\ End("killed")
  /\ UNCHANGED <<console, doc, pass, lines, updates, planned, start>>

-----------------------------------------------------------------------------
Init ==
  /\ \E c \in Consoles : nets = c.nets /\ zones = c.zones /\ zbf = c.zbf
  /\ doc \in Documents
  /\ pass = "plan" /\ pc = "idle"
  /\ read = NoNets /\ known = {} /\ members = NoZones
  /\ created = {} /\ placed = {} /\ todo = {}
  /\ lines = {} /\ updates = 0
  /\ planned = [lines |-> {}, moves |-> 0]
  /\ start = [nets |-> nets, zones |-> zones]
  /\ faults = 0

RunStep ==
  \/ ReadNetworks \/ ListForCreate \/ RefuseHomeless \/ StartNetworks
  \/ PruneNetworks \/ ReadZonesAgain \/ PruneZones \/ FinishPlan \/ FinishWrite
  \/ \E n \in Nets : CreateNetwork(n) \/ NetworkOK(n) \/ UpdateNetwork(n) \/ DeleteNetwork(n)
  \/ \E z \in Zones : RefuseZone(z) \/ CreateZone(z) \/ FailZone(z) \/ ZoneOK(z)
                      \/ UpdateZone(z) \/ DeleteZone(z)

Next == StartRun \/ RunStep \/ Kill

Spec == Init /\ [][Next]_vars

\* A run in progress goes on, and the timer starts the next one.
FairSpec == Spec /\ WF_vars(RunStep) /\ WF_vars(StartRun)

-----------------------------------------------------------------------------
(* Properties *)

Line == {"CREATE", "UPDATE", "DELETE"} \X (Nets \cup Zones)

\* Every variable has its type, and a network put in a zone can be resolved.
TypeOK ==
  /\ [nets |-> nets, zones |-> zones, zbf |-> zbf] \in Console
  /\ doc \in Document /\ pass \in {"plan", "write"}
  /\ pc \in Endings \cup {"readNets", "createZones", "creating", "networks",
                          "pruneNets", "zones", "pruneZones", "done"}
  /\ read \in [Nets -> {Absent} \cup Network] /\ known \subseteq Nets
  /\ members \in [Zones -> {Absent} \cup SUBSET Nets]
  /\ created \subseteq Zones /\ placed \subseteq known /\ todo \subseteq Nets \cup Zones
  /\ lines \subseteq Line /\ updates \in Nat
  /\ planned \in [lines : SUBSET Line, moves : Nat]
  /\ start \in [nets : [Nets -> {Absent} \cup Network], zones : SUBSET Zones]
  /\ faults \in 0..MaxFaults

\* A plan that deletes a network out of a declared zone: the plan still reads
\* the network as a member, the writing pass no longer does.
DeletesMember ==
  \E n \in Nets : <<"DELETE", n>> \in planned.lines /\ start.nets[n].zone \in DeclaredZones

\* zones_test.go: the writing pass prints the plan it carries out, and it is
\* the same: no line the plan lacks, none it promised left out, no other count
\* of moves.
WritesThePlan ==
  pass = "write" =>
    /\ lines \subseteq planned.lines /\ updates <= planned.moves
    /\ pc = "applied" => lines = planned.lines /\ updates = planned.moves

\* The same, of plans that delete no network out of a declared zone.
PlanIsExact == WritesThePlan \/ DeletesMember

\* What can be refused is refused by the planning pass: without a fault, a run
\* that has started to write ends by having applied the document.
NoHalfwayFailure == pass = "write" /\ pc = "failed" => faults > 0

\* What the document asks of the console.
Settled(d) ==
  /\ \A n \in Nets : d.nets[n] # Absent => n \in LiveNets /\ nets[n].conf = d.nets[n]
  /\ d.prune => \A n \in LiveNets \ Builtin : d.nets[n] # Absent
  /\ zbf =>
       /\ \A z \in Zones : d.zones[z] # Absent =>
            z \in zones /\ {n \in LiveNets : nets[n].zone = z} = d.zones[z]
       /\ d.prune => \A z \in zones \ Builtin : d.zones[z] # Absent

\* A run that reports success leaves networks and membership as declared,
\* although a created zone's members are never compared.
AppliedIsSettled == pc \in {"clean", "applied"} => Settled(doc)

\* A declared zone lists a network that the same run deletes.
NamesPruned ==
  doc.prune /\ \E z \in DeclaredZones : \E n \in doc.zones[z] :
                 start.nets[n] # Absent /\ n \notin DeclaredNets \cup Builtin

\* The plan is the truth about the run: what is written is what was planned,
\* nothing planned is refused after the first write, and success means that the
\* console is as declared (docs/unifi.md:41, zones_test.go). A document that
\* contradicts itself passes the planning pass, which still finds the network:
\* of it only the first is claimed.
PlanIsCarriedOut ==
  PlanIsExact /\ (NamesPruned \/ (NoHalfwayFailure /\ AppliedIsSettled))

\* --max-changes bounds moves too: every network the writing pass takes out of
\* a zone is in a planned UPDATE of that zone or of the one it goes to, goes
\* with its zone's DELETE, or was counted one by one.
MovesAreCounted ==
  pass = "write" =>
    Cardinality({n \in LiveNets :
      LET from == start.nets[n].zone
      IN  /\ start.nets[n] # Absent /\ from # NoZone /\ nets[n].zone # from
          /\ <<"UPDATE", nets[n].zone>> \notin planned.lines
          /\ <<"UPDATE", from>> \notin planned.lines
          /\ <<"DELETE", from>> \notin planned.lines})
    <= planned.moves

\* updateBody: an update never detaches a network from its firewall zone, nor
\* undoes the move a zone create has just made.
UpdateKeepsZone ==
  [][\A n \in Nets : UpdateNetwork(n) =>
       \A m \in LiveNets : nets'[m].zone = nets[m].zone]_vars

\* A zone is deleted only after the networks the document puts elsewhere have
\* left it.
DeleteStrandsNobody ==
  [][\A z \in Zones : DeleteZone(z) =>
       \A n \in LiveNets : nets[n].zone = z /\ pass = "write" => DeclaredZone(n) = NoZone]_vars

\* No network is left without the zone it is to be in: neither by an update of
\* it (plan.go:283) nor by the end of its zone (plan.go:505).
NoNetworkIsStranded == UpdateKeepsZone /\ DeleteStrandsNobody

\* However runs are cut short, and whatever documents came before, once the
\* document stays the same the console becomes what it says, or the planning
\* pass refuses it for ever.
EventuallySettled ==
  <>[][doc' = doc]_doc => <>[]Settled(doc) \/ []<>(pass = "plan" /\ pc = "failed")
=============================================================================
