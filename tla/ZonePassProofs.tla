---------------------------- MODULE ZonePassProofs ----------------------------
(***************************************************************************)
(* Theorems about ZonePass for every value of its constants: types, no     *)
(* network is stranded, moves are counted, and the plan is carried out.    *)
(*                                                                         *)
(* The arguments all compare a pass with the console the run started from: *)
(* both passes read that console, so they take the same course, and what   *)
(* the writing pass has changed by then is known step by step.             *)
(***************************************************************************)
EXTENDS ZonePass, FiniteSetTheorems, TLAPS

USE DEF DryRun, Running, Endings

(***************************************************************************)
(* What the run has to do, worked out from the console it started from.    *)
(***************************************************************************)

Old == {n \in Nets : start.nets[n] # Absent}
New == DeclaredNets \ Old

NewZones == IF zbf THEN DeclaredZones \ start.zones ELSE {}

PrunedNets  == IF doc.prune THEN Old \ (DeclaredNets \cup Builtin) ELSE {}
PrunedZones == IF doc.prune /\ zbf THEN start.zones \ (DeclaredZones \cup Builtin) ELSE {}

\* The networks that the creates of the zones cs take.
Joined(cs) == {n \in Old : \E z \in cs : n \in doc.zones[z]}

\* The zones as the first GET returns them, and as the second one does.
Listed ==
  [z \in Zones |-> IF z \in start.zones THEN {n \in Old : start.nets[n].zone = z} ELSE Absent]

HomeNow(n) == IF n \in placed THEN DeclaredZone(n) ELSE start.nets[n].zone

Relisted ==
  [z \in Zones |-> IF z \in start.zones \cup NewZones
                   THEN {n \in (Old \cup DeclaredNets) \ PrunedNets : HomeNow(n) = z}
                   ELSE Absent]

(***************************************************************************)
(* What a pass has still to do: zones to create, networks to write, to     *)
(* delete, zones to compare, to delete.                                    *)
(***************************************************************************)

Beginning == {"readNets", "createZones"}

ToCreate == IF pc \in Beginning THEN NewZones ELSE IF pc = "creating" THEN todo ELSE {}
ToWrite  == IF pc \in Beginning \cup {"creating"} THEN DeclaredNets
            ELSE IF pc = "networks" THEN todo ELSE {}
ToDrop   == IF pc \in Beginning \cup {"creating", "networks"} THEN PrunedNets
            ELSE IF pc = "pruneNets" THEN todo ELSE {}
ToSettle == IF pc \in Beginning \cup {"creating", "networks", "pruneNets"}
            THEN IF zbf THEN DeclaredZones ELSE {}
            ELSE IF pc = "zones" THEN todo ELSE {}
ToRemove == IF pc \in Beginning \cup {"creating", "networks", "pruneNets", "zones"}
            THEN PrunedZones ELSE IF pc = "pruneZones" THEN todo ELSE {}

(***************************************************************************)
(* The first layer of the invariant.                                       *)
(***************************************************************************)

\* A pass takes its course: what the run has read, remembers and has left to
\* do follows from where it is.
Course ==
  Running =>
    /\ read = IF pc = "readNets" THEN NoNets ELSE start.nets
    /\ known = IF pc = "readNets" THEN {} ELSE Old \cup (DeclaredNets \ ToWrite)
    /\ created = NewZones \ ToCreate
    /\ placed = IF zbf THEN Joined(created) \cup (New \ ToWrite) ELSE {}
    /\ ToCreate \subseteq NewZones /\ ToWrite \subseteq DeclaredNets /\ ToDrop \subseteq PrunedNets
    /\ ToSettle \subseteq DeclaredZones /\ ToRemove \subseteq PrunedZones
    /\ pc \in Beginning \cup {"done"} => todo = {}
    /\ pc \in {"creating", "zones", "pruneZones"} => zbf
    /\ pc = "done" => ~zbf
    /\ pc = "creating" => members = Listed
    /\ pc \in {"zones", "pruneZones"} => members = IF DryRun THEN Listed ELSE Relisted
    /\ zbf /\ pc \notin Beginning => \A n \in New : DeclaredZone(n) # NoZone

\* A network is in a zone that exists.
Housed ==
  /\ \A n \in LiveNets : nets[n].zone \in zones \cup {NoZone}
  /\ \A n \in Old : start.nets[n].zone \in start.zones \cup {NoZone}

\* Nothing is written by the planning pass, nor before the zones are read.
Unwritten == pass = "plan" \/ pc \in Beginning => nets = start.nets /\ zones = start.zones

\* What the writing pass has done to the console so far.
Effects ==
  pass = "write" /\ (Running \/ pc = "applied") =>
    /\ zones = (start.zones \cup (NewZones \ ToCreate)) \ (PrunedZones \ ToRemove)
    /\ LiveNets = (Old \cup (DeclaredNets \ ToWrite)) \ (PrunedNets \ ToDrop)
    /\ \A n \in LiveNets :
         /\ nets[n].conf = IF n \in DeclaredNets \ ToWrite THEN doc.nets[n] ELSE start.nets[n].conf
         /\ Running /\ n \in placed => nets[n].zone = DeclaredZone(n)
         /\ Running /\ n \in Old \ placed /\ pc \notin {"zones", "pruneZones"}
            => nets[n].zone = start.nets[n].zone

Inv == doc \in Documents /\ TypeOK /\ Course /\ Housed /\ Unwritten /\ Effects

-----------------------------------------------------------------------------
(* Facts about the state functions *)

\* The declared zone of a network is the one zone that lists it.
LEMMA DeclaredZoneFacts ==
  ASSUME doc \in Documents
  PROVE  /\ \A n \in Nets : DeclaredZone(n) \in DeclaredZones \cup {NoZone}
         /\ \A n \in Nets, z \in DeclaredZones : n \in doc.zones[z] <=> DeclaredZone(n) = z
<1>1. ASSUME NEW n \in Nets, NEW z \in DeclaredZones, n \in doc.zones[z]
      PROVE  DeclaredZone(n) = z
  <2>1. (CHOOSE y \in DeclaredZones : n \in doc.zones[y]) \in DeclaredZones
        /\ n \in doc.zones[CHOOSE y \in DeclaredZones : n \in doc.zones[y]]
    BY <1>1
  <2>2. PICK y \in DeclaredZones : y = DeclaredZone(n) /\ n \in doc.zones[y]
    BY <1>1, <2>1 DEF DeclaredZone
  <2>3. y \in Zones /\ z \in Zones /\ doc.zones[y] # Absent /\ doc.zones[z] # Absent
    BY DEF DeclaredZones
  <2>4. QED
    BY <1>1, <2>2, <2>3, LintAssumption
<1>2. ASSUME NEW n \in Nets
      PROVE  /\ DeclaredZone(n) \in DeclaredZones \cup {NoZone}
             /\ DeclaredZone(n) \in DeclaredZones => n \in doc.zones[DeclaredZone(n)]
  <2>1. CASE \E z \in DeclaredZones : n \in doc.zones[z]
    BY <1>1, <2>1
  <2>2. CASE ~ \E z \in DeclaredZones : n \in doc.zones[z]
    BY <2>2, NamesAssumption DEF DeclaredZone, DeclaredZones
  <2>3. QED
    BY <2>1, <2>2
<1>3. QED
  BY <1>1, <1>2

\* The run's task does not change while it goes on.
LEMMA TaskKept ==
  ASSUME UNCHANGED <<doc, start, zbf>>
  PROVE  /\ Old' = Old /\ New' = New /\ NewZones' = NewZones
         /\ PrunedNets' = PrunedNets /\ PrunedZones' = PrunedZones
         /\ DeclaredNets' = DeclaredNets /\ DeclaredZones' = DeclaredZones
         /\ Listed' = Listed
         /\ \A n : DeclaredZone(n)' = DeclaredZone(n)
<1>1. /\ Old' = Old /\ DeclaredNets' = DeclaredNets /\ DeclaredZones' = DeclaredZones
      /\ doc' = doc /\ start' = start /\ zbf' = zbf
  BY DEF Old, DeclaredNets, DeclaredZones
<1>2. /\ New' = New /\ NewZones' = NewZones
      /\ PrunedNets' = PrunedNets /\ PrunedZones' = PrunedZones
  BY <1>1 DEF New, NewZones, PrunedNets, PrunedZones
<1>3. Listed' = Listed
  BY <1>1 DEF Listed
<1>4. \A n : DeclaredZone(n)' = DeclaredZone(n)
  BY <1>1, Zenon DEF DeclaredZone
<1>5. QED
  BY <1>1, <1>2, <1>3, <1>4

\* The parts of the task are sets of networks and of zones.
LEMMA TaskTypes ==
  ASSUME Inv
  PROVE  /\ Old \subseteq Nets /\ DeclaredNets \subseteq Nets /\ PrunedNets \subseteq Old
         /\ NewZones \subseteq DeclaredZones /\ DeclaredZones \subseteq Zones
         /\ PrunedZones \subseteq start.zones /\ start.zones \subseteq Zones /\ zones \subseteq Zones
         /\ PrunedNets \cap DeclaredNets = {} /\ PrunedZones \cap DeclaredZones = {}
         /\ \A n \in Old : start.nets[n] \in Network
         /\ \A n \in LiveNets : nets[n] \in Network
         /\ \A n \in DeclaredNets : doc.nets[n] \in Confs
         /\ \A z \in DeclaredZones : doc.zones[z] \subseteq Nets
         /\ start.nets \in [Nets -> {Absent} \cup Network] /\ nets \in [Nets -> {Absent} \cup Network]
         /\ zbf \in BOOLEAN /\ doc.prune \in BOOLEAN
<1>1. /\ start.nets \in [Nets -> {Absent} \cup Network] /\ nets \in [Nets -> {Absent} \cup Network]
      /\ start.zones \subseteq Zones /\ zones \subseteq Zones /\ zbf \in BOOLEAN
      /\ doc \in Document
  BY DEF Inv, TypeOK, Console
<1>2. /\ doc.nets \in [Nets -> Confs \cup {Absent}] /\ doc.prune \in BOOLEAN
      /\ doc.zones \in [Zones -> {Absent} \cup SUBSET Nets]
  BY <1>1 DEF Document
<1>3. QED
  BY <1>1, <1>2 DEF Old, DeclaredNets, PrunedNets, NewZones, DeclaredZones, PrunedZones, LiveNets

\* Networks and zones typed one by one make a console.
LEMMA ConsoleTyped ==
  ASSUME NEW ns, NEW zs, NEW b, ns \in [Nets -> {Absent} \cup Network], zs \subseteq Zones, b \in BOOLEAN
  PROVE  [nets |-> ns, zones |-> zs, zbf |-> b] \in Console
BY DEF Console

-----------------------------------------------------------------------------
(* Actions that leave the console alone preserve the first layer. *)

Still == UNCHANGED <<console, doc, pass, planned, start, faults>>

LEMMA StillKeeps ==
  ASSUME Inv, Still, pc' \in Beginning => pc \in Beginning
  PROVE  doc' \in Documents /\ Housed' /\ Unwritten' /\ LiveNets' = LiveNets
<1>1. UNCHANGED <<nets, zones, zbf, doc, pass, start>>
  BY DEF Still, console
<1>2. LiveNets' = LiveNets /\ Old' = Old
  BY <1>1, TaskKept DEF LiveNets
<1>3. QED
  BY <1>1, <1>2 DEF Inv, Housed, Unwritten

\* A step that does no more than move the run on.
LEMMA EffectsKept ==
  ASSUME Inv, Still, Running,
         pc' \in Beginning => pc \in Beginning,
         ToCreate' = ToCreate, ToWrite' = ToWrite, ToDrop' = ToDrop, ToRemove' = ToRemove,
         Running' => placed' = placed,
         pc \in {"zones", "pruneZones"} /\ Running' => pc' \in {"zones", "pruneZones"}
  PROVE  Effects'
<1>1. UNCHANGED <<nets, zones, zbf, doc, pass, start>>
  BY DEF Still, console
<1>2. /\ LiveNets' = LiveNets /\ Old' = Old /\ NewZones' = NewZones
      /\ PrunedNets' = PrunedNets /\ PrunedZones' = PrunedZones /\ DeclaredNets' = DeclaredNets
      /\ \A n : DeclaredZone(n)' = DeclaredZone(n)
  BY <1>1, TaskKept, StillKeeps
<1> SUFFICES ASSUME pass = "write"
             PROVE  Effects'
  BY <1>1 DEF Effects
<1>3. /\ zones = (start.zones \cup (NewZones \ ToCreate)) \ (PrunedZones \ ToRemove)
      /\ LiveNets = (Old \cup (DeclaredNets \ ToWrite)) \ (PrunedNets \ ToDrop)
      /\ \A n \in LiveNets :
           /\ nets[n].conf = IF n \in DeclaredNets \ ToWrite THEN doc.nets[n]
                             ELSE start.nets[n].conf
           /\ Running /\ n \in placed => nets[n].zone = DeclaredZone(n)
           /\ Running /\ n \in Old \ placed /\ pc \notin {"zones", "pruneZones"}
              => nets[n].zone = start.nets[n].zone
  BY DEF Inv, Effects
<1>4. /\ zones' = (start.zones' \cup (NewZones' \ ToCreate')) \ (PrunedZones' \ ToRemove')
      /\ LiveNets' = (Old' \cup (DeclaredNets' \ ToWrite')) \ (PrunedNets' \ ToDrop')
  BY <1>1, <1>2, <1>3
<1>5. ASSUME NEW n \in LiveNets'
      PROVE  /\ nets'[n].conf = IF n \in DeclaredNets' \ ToWrite' THEN doc'.nets[n]
                                ELSE start'.nets[n].conf
             /\ Running' /\ n \in placed' => nets'[n].zone = DeclaredZone(n)'
             /\ Running' /\ n \in Old' \ placed' /\ pc' \notin {"zones", "pruneZones"}
                => nets'[n].zone = start'.nets[n].zone
  BY <1>1, <1>2, <1>3, <1>5
<1>6. QED
  BY <1>4, <1>5 DEF Effects

\* The run ends, other than by success of a writing pass.
LEMMA EndKeeps ==
  ASSUME Inv, NEW how \in Endings, End(how), how = "applied" => pass = "plan",
         UNCHANGED <<doc, pass, zbf, planned, start>>,
         nets' \in [Nets -> {Absent} \cup Network], zones' \subseteq Zones, Housed',
         pass = "plan" => UNCHANGED <<nets, zones>>,
         lines' \subseteq Line, updates' \in Nat, faults' \in 0..MaxFaults
  PROVE  Inv'
<1>1. /\ pc' = how /\ read' = NoNets /\ known' = {} /\ members' = NoZones
      /\ created' = {} /\ placed' = {} /\ todo' = {}
  BY DEF End
<1>2. [nets |-> nets, zones |-> zones, zbf |-> zbf]' \in Console
  BY DEF Inv, TypeOK, Console
<1>3. NoNets \in [Nets -> {Absent} \cup Network] /\ NoZones \in [Zones -> {Absent} \cup SUBSET Nets]
  BY DEF NoNets, NoZones
<1>4. TypeOK'
  BY <1>1, <1>2, <1>3 DEF Inv, TypeOK
<1>5. Course' /\ Effects' /\ Unwritten'
  BY <1>1 DEF Course, Effects, Unwritten, Inv, Beginning
<1>6. QED
  BY <1>4, <1>5 DEF Inv

LEMMA InvHalt ==
  ASSUME Inv, NEW how \in {"failed", "killed", "clean"}, End(how),
         UNCHANGED <<console, doc, pass, lines, updates, start>>,
         planned' = planned, faults' \in 0..MaxFaults
  PROVE  Inv'
<1>1. UNCHANGED <<nets, zones, zbf, doc, pass, start, lines, updates, planned>>
  BY DEF console
<1>2. Housed'
  BY <1>1 DEF Inv, Housed, LiveNets, Old
<1>3. QED
  BY <1>1, <1>2, EndKeeps, TaskTypes DEF Inv, TypeOK

\* A step that leaves the console alone: what remains to be shown.
LEMMA MovesOn ==
  ASSUME Inv, Still, Course', Effects', pc' \in Beginning => pc \in Beginning,
         pc' \in Endings \cup {"readNets", "createZones", "creating", "networks",
                                "pruneNets", "zones", "pruneZones", "done"},
         read' \in [Nets -> {Absent} \cup Network], known' \subseteq Nets,
         members' \in [Zones -> {Absent} \cup SUBSET Nets],
         created' \subseteq Zones, placed' \subseteq known', todo' \subseteq Nets \cup Zones,
         UNCHANGED <<lines, updates>>
  PROVE  Inv'
<1>1. UNCHANGED <<nets, zones, zbf, doc, pass, start, planned, faults>>
  BY DEF Still, console
<1>2. TypeOK'
  BY <1>1 DEF Inv, TypeOK
<1>3. QED
  BY <1>2, StillKeeps DEF Inv

LEMMA InvReadNetworks == ASSUME Inv, ReadNetworks PROVE Inv'
<1>1. Still /\ UNCHANGED <<nets, zones, zbf, doc, pass, start, members, created, placed, todo>>
  BY DEF ReadNetworks, Still, console, placing
<1>2. nets = start.nets /\ pc = "readNets" /\ pc' = "createZones" /\ read' = nets /\ known' = LiveNets
  BY DEF ReadNetworks, Inv, Unwritten, Beginning
<1>3. /\ ToCreate' = ToCreate /\ ToWrite' = ToWrite /\ ToDrop' = ToDrop
      /\ ToSettle' = ToSettle /\ ToRemove' = ToRemove /\ ToWrite = DeclaredNets /\ ToCreate = NewZones
  BY <1>1, <1>2, TaskKept DEF ToCreate, ToWrite, ToDrop, ToSettle, ToRemove, Beginning
<1>4. Effects'
  BY <1>1, <1>2, <1>3, EffectsKept DEF Beginning
<1>5. LiveNets = Old
  BY <1>2 DEF LiveNets, Old
<1>6. created = {} /\ placed = {} /\ todo = {}
  BY <1>2, <1>3 DEF Inv, Course, Joined, New, Beginning
<1>7. Course'
  BY <1>1, <1>2, <1>3, <1>5, <1>6, TaskKept DEF Inv, Course, Joined, New, Beginning
<1>8. QED
  BY <1>1, <1>2, <1>4, <1>5, <1>6, <1>7, MovesOn, TaskTypes DEF ReadNetworks, Beginning, Inv, TypeOK

LEMMA ListZonesTyped ==
  /\ ListZones \in [Zones -> {Absent} \cup SUBSET Nets]
  /\ \A z \in Zones : ListZones[z] # Absent <=> z \in zones
  /\ \A z \in zones \cap Zones : ListZones[z] = {n \in LiveNets : nets[n].zone = z}
<1>1. \A z \in Zones : {n \in LiveNets : nets[n].zone = z} \in SUBSET Nets
  BY DEF LiveNets
<1>2. QED
  BY <1>1, AbsentAssumption DEF ListZones

LEMMA InvListForCreate == ASSUME Inv, ListForCreate PROVE Inv'
<1>1. /\ Still /\ UNCHANGED <<nets, zones, zbf, doc, pass, start, read, known, created, placed,
                              lines, updates>>
      /\ pc = "createZones"
  BY DEF ListForCreate, Still, console, placing, reading
<1>2. nets = start.nets /\ zones = start.zones
  BY <1>1 DEF Inv, Unwritten, Beginning
<1>3. ToWrite = DeclaredNets /\ ToCreate = NewZones /\ created = {} /\ placed = {}
  BY <1>1 DEF Inv, Course, Joined, New, ToWrite, ToCreate, Beginning
<1>4. CASE ~zbf /\ pc' = "networks" /\ todo' = DeclaredNets /\ UNCHANGED members
  <2>1. /\ ToCreate' = ToCreate /\ ToWrite' = ToWrite /\ ToDrop' = ToDrop
        /\ ToSettle' = ToSettle /\ ToRemove' = ToRemove /\ NewZones = {}
    BY <1>1, <1>4, TaskKept DEF ToCreate, ToWrite, ToDrop, ToSettle, ToRemove, Beginning, NewZones
  <2>2. Effects'
    BY <1>1, <1>4, <2>1, EffectsKept DEF Beginning
  <2>3. Course'
    BY <1>1, <1>3, <1>4, <2>1, TaskKept DEF Inv, Course, Joined, Beginning
  <2>4. QED
    BY <1>1, <1>4, <2>2, <2>3, MovesOn, TaskTypes DEF Inv, TypeOK, Beginning
<1>5. CASE /\ zbf /\ ~Homeless /\ pc' = "creating" /\ members' = ListZones
           /\ todo' = {z \in DeclaredZones : z \notin zones}
  <2>1. todo' = NewZones
    BY <1>2, <1>5 DEF NewZones
  <2>2. /\ ToCreate' = ToCreate /\ ToWrite' = ToWrite /\ ToDrop' = ToDrop
        /\ ToSettle' = ToSettle /\ ToRemove' = ToRemove
    BY <1>1, <1>3, <1>5, <2>1, TaskKept DEF ToCreate, ToWrite, ToDrop, ToSettle, ToRemove, Beginning
  <2>3. Effects'
    BY <1>1, <1>5, <2>2, EffectsKept DEF Beginning
  <2>4. ListZones = Listed
    BY <1>2 DEF ListZones, Listed, LiveNets, Old
  <2>5. \A n \in New : DeclaredZone(n) # NoZone
    BY <1>1, <1>5 DEF Homeless, New, ReadNets, Old, Inv, Course
  <2>6. Course'
    BY <1>1, <1>3, <1>5, <2>2, <2>4, <2>5, TaskKept DEF Inv, Course, Joined, Beginning
  <2>7. QED
    BY <1>1, <1>5, <2>1, <2>3, <2>6, MovesOn, TaskTypes, ListZonesTyped DEF Inv, TypeOK, Beginning
<1>6. QED
  BY <1>1, <1>4, <1>5 DEF ListForCreate, reading

LEMMA InvStartNetworks == ASSUME Inv, StartNetworks PROVE Inv'
<1>1. /\ Still /\ UNCHANGED <<nets, zones, zbf, doc, pass, start, read, known, members, created,
                              placed, lines, updates>>
      /\ pc = "creating" /\ todo = {} /\ pc' = "networks" /\ todo' = DeclaredNets
  BY DEF StartNetworks, Still, console, placing, reading
<1>2. /\ ToCreate' = ToCreate /\ ToWrite' = ToWrite /\ ToDrop' = ToDrop
      /\ ToSettle' = ToSettle /\ ToRemove' = ToRemove
  BY <1>1, TaskKept DEF ToCreate, ToWrite, ToDrop, ToSettle, ToRemove, Beginning
<1>3. Effects'
  BY <1>1, <1>2, EffectsKept DEF Beginning
<1>4. Course'
  BY <1>1, <1>2, TaskKept DEF Inv, Course, Joined, Beginning
<1>5. QED
  BY <1>1, <1>3, <1>4, MovesOn, TaskTypes DEF Inv, TypeOK, Beginning

\* What the run reads and knows while it writes networks.
LEMMA NetworksCourse ==
  ASSUME Inv, pc = "networks"
  PROVE  /\ read = start.nets /\ ReadNets = Old /\ created = NewZones
         /\ known = Old \cup (DeclaredNets \ todo)
         /\ placed = IF zbf THEN Joined(NewZones) \cup (New \ todo) ELSE {}
         /\ todo \subseteq DeclaredNets
         /\ ToCreate = {} /\ ToWrite = todo /\ ToDrop = PrunedNets /\ ToRemove = PrunedZones
         /\ zbf => \A n \in New : DeclaredZone(n) # NoZone
<1>1. /\ ToCreate = {} /\ ToWrite = todo /\ ToDrop = PrunedNets /\ ToRemove = PrunedZones
  BY DEF ToCreate, ToWrite, ToDrop, ToRemove, Beginning
<1>2. read = start.nets
  BY DEF Inv, Course
<1>3. QED
  BY <1>1, <1>2 DEF Inv, Course, Beginning, ReadNets, Old

LEMMA InvNetworkOK == ASSUME Inv, NEW n \in Nets, NetworkOK(n) PROVE Inv'
<1>1. /\ Still /\ UNCHANGED <<nets, zones, zbf, doc, pass, start, read, known, members, created,
                              placed, lines, updates>>
      /\ pc = "networks" /\ n \in todo /\ pc' = "networks" /\ todo' = todo \ {n}
      /\ n \in Old /\ start.nets[n].conf = doc.nets[n]
  BY NetworksCourse DEF NetworkOK, Still, console, placing, reading
<1>2. /\ ToCreate' = ToCreate /\ ToWrite = todo /\ ToWrite' = todo \ {n} /\ ToDrop' = ToDrop
      /\ ToSettle' = ToSettle /\ ToRemove' = ToRemove
  BY <1>1, TaskKept DEF ToCreate, ToWrite, ToDrop, ToSettle, ToRemove, Beginning
<1>3. Course'
  BY <1>1, <1>2, NetworksCourse, TaskKept DEF Inv, Course, Joined, Beginning, New
<1>4. Effects'
  <2> SUFFICES ASSUME pass = "write" PROVE Effects'
    BY <1>1 DEF Effects
  <2>1. /\ LiveNets' = LiveNets /\ Old' = Old /\ NewZones' = NewZones
        /\ PrunedNets' = PrunedNets /\ PrunedZones' = PrunedZones /\ DeclaredNets' = DeclaredNets
        /\ \A m : DeclaredZone(m)' = DeclaredZone(m)
    BY <1>1, TaskKept, StillKeeps
  <2>2. n \in LiveNets => nets[n].conf = doc.nets[n]
    BY <1>1, <1>2 DEF Inv, Effects
  <2>3. QED
    BY <1>1, <1>2, <2>1, <2>2, TaskTypes DEF Inv, Effects
<1>5. QED
  BY <1>1, <1>3, <1>4, MovesOn, TaskTypes DEF Inv, TypeOK, Beginning

LEMMA InvPruneNetworks == ASSUME Inv, PruneNetworks PROVE Inv'
<1>1. /\ Still /\ UNCHANGED <<nets, zones, zbf, doc, pass, start, read, known, members, created,
                              placed, lines, updates>>
      /\ pc = "networks" /\ todo = {} /\ pc' = "pruneNets" /\ todo' = PrunedNets
  BY NetworksCourse DEF PruneNetworks, Still, console, placing, reading, PrunedNets
<1>2. /\ ToCreate' = ToCreate /\ ToWrite' = ToWrite /\ ToDrop' = ToDrop
      /\ ToSettle' = ToSettle /\ ToRemove' = ToRemove
  BY <1>1, TaskKept DEF ToCreate, ToWrite, ToDrop, ToSettle, ToRemove, Beginning
<1>3. Effects'
  BY <1>1, <1>2, EffectsKept DEF Beginning
<1>4. Course'
  BY <1>1, <1>2, TaskKept DEF Inv, Course, Joined, Beginning
<1>5. QED
  BY <1>1, <1>3, <1>4, MovesOn, TaskTypes DEF Inv, TypeOK, Beginning

LEMMA RelistedKept ==
  ASSUME UNCHANGED <<doc, start, zbf, placed>>
  PROVE  Relisted' = Relisted
<1>1. /\ Old' = Old /\ NewZones' = NewZones /\ PrunedNets' = PrunedNets
      /\ DeclaredNets' = DeclaredNets /\ start' = start
  BY TaskKept
<1>2. \A n : HomeNow(n)' = HomeNow(n)
  BY TaskKept DEF HomeNow
<1>3. QED
  BY <1>1, <1>2 DEF Relisted

LEMMA RelistedTyped ==
  ASSUME Inv
  PROVE  /\ Relisted \in [Zones -> {Absent} \cup SUBSET Nets]
         /\ \A z \in Zones : Relisted[z] # Absent <=> z \in start.zones \cup NewZones
         /\ \A z \in (start.zones \cup NewZones) \cap Zones :
              Relisted[z] = {n \in (Old \cup DeclaredNets) \ PrunedNets : HomeNow(n) = z}
<1>1. \A z \in Zones : {n \in (Old \cup DeclaredNets) \ PrunedNets : HomeNow(n) = z} \in SUBSET Nets
  BY DEF Old, DeclaredNets
<1>2. QED
  BY <1>1, AbsentAssumption DEF Relisted

\* The second GET of the zones returns what the writes so far have made of them.
LEMMA RelistedRead ==
  ASSUME Inv, pass = "write", pc = "pruneNets", todo = {}, zbf
  PROVE  ListZones = Relisted
<1>1. /\ ToCreate = {} /\ ToWrite = {} /\ ToDrop = {} /\ ToRemove = PrunedZones
  BY DEF ToCreate, ToWrite, ToDrop, ToRemove, Beginning
<1>2. /\ zones = start.zones \cup NewZones
      /\ LiveNets = (Old \cup DeclaredNets) \ PrunedNets
      /\ \A n \in LiveNets : /\ n \in placed => nets[n].zone = DeclaredZone(n)
                             /\ n \in Old \ placed => nets[n].zone = start.nets[n].zone
  BY <1>1 DEF Inv, Effects
<1>3. New \subseteq placed
  BY <1>1 DEF Inv, Course
<1>4. \A n \in LiveNets : nets[n].zone = HomeNow(n)
  BY <1>2, <1>3 DEF HomeNow, New
<1>5. QED
  BY <1>2, <1>4 DEF ListZones, Relisted

LEMMA InvReadZonesAgain == ASSUME Inv, ReadZonesAgain PROVE Inv'
<1>1. /\ Still /\ UNCHANGED <<nets, zones, zbf, doc, pass, start, read, known, created,
                              placed, lines, updates>>
      /\ pc = "pruneNets" /\ todo = {}
  BY DEF ReadZonesAgain, Still, console, placing
<1>2. CASE zbf /\ pc' = "zones" /\ members' = ListZones /\ todo' = DeclaredZones
  <2>1. /\ ToCreate' = ToCreate /\ ToWrite' = ToWrite /\ ToDrop' = ToDrop
        /\ ToSettle' = ToSettle /\ ToRemove' = ToRemove
    BY <1>1, <1>2, TaskKept DEF ToCreate, ToWrite, ToDrop, ToSettle, ToRemove, Beginning
  <2>2. Effects'
    BY <1>1, <1>2, <2>1, EffectsKept DEF Beginning
  <2>3. members' = IF DryRun THEN Listed ELSE Relisted
    <3>1. CASE pass = "plan"
      <4>1. ListZones = Listed
        BY <3>1 DEF Inv, Unwritten, ListZones, Listed, LiveNets, Old
      <4>2. QED
        BY <3>1, <4>1, <1>2
    <3>2. CASE pass = "write"
      BY <3>2, <1>1, <1>2, RelistedRead
    <3>3. QED
      BY <3>1, <3>2 DEF Inv, TypeOK
  <2>4. Course'
    BY <1>1, <1>2, <2>1, <2>3, RelistedKept, TaskKept DEF Inv, Course, Joined, Beginning
  <2>5. QED
    BY <1>1, <1>2, <2>2, <2>4, MovesOn, TaskTypes, ListZonesTyped DEF Inv, TypeOK, Beginning
<1>3. CASE ~zbf /\ pc' = "done" /\ UNCHANGED <<members, todo>>
  <2>1. /\ ToCreate' = ToCreate /\ ToWrite' = ToWrite /\ ToDrop' = ToDrop
        /\ ToSettle' = ToSettle /\ ToRemove' = ToRemove
    BY <1>1, <1>3, TaskKept DEF ToCreate, ToWrite, ToDrop, ToSettle, ToRemove, Beginning, PrunedZones
  <2>2. Effects'
    BY <1>1, <1>3, <2>1, EffectsKept DEF Beginning
  <2>3. Course'
    BY <1>1, <1>3, <2>1, TaskKept DEF Inv, Course, Joined, Beginning
  <2>4. QED
    BY <1>1, <1>3, <2>2, <2>3, MovesOn, TaskTypes DEF Inv, TypeOK, Beginning
<1>4. QED
  BY <1>1, <1>2, <1>3 DEF ReadZonesAgain

LEMMA InvZoneOK == ASSUME Inv, NEW z \in Zones, ZoneOK(z) PROVE Inv'
<1>1. /\ Still /\ UNCHANGED <<nets, zones, zbf, doc, pass, start, read, known, members, created,
                              placed, lines, updates>>
      /\ pc = "zones" /\ z \in todo /\ pc' = "zones" /\ todo' = todo \ {z}
  BY DEF ZoneOK, Still, console, placing, reading
<1>2. /\ ToCreate' = ToCreate /\ ToWrite' = ToWrite /\ ToDrop' = ToDrop
      /\ ToSettle = todo /\ ToSettle' = todo \ {z} /\ ToRemove' = ToRemove
  BY <1>1, TaskKept DEF ToCreate, ToWrite, ToDrop, ToSettle, ToRemove, Beginning
<1>3. Effects'
  BY <1>1, <1>2, EffectsKept DEF Beginning
<1>4. Course'
  BY <1>1, <1>2, RelistedKept, TaskKept DEF Inv, Course, Joined, Beginning
<1>5. QED
  BY <1>1, <1>3, <1>4, MovesOn, TaskTypes DEF Inv, TypeOK, Beginning

\* The zones the second GET returned.
LEMMA ReadZonesFacts ==
  ASSUME Inv, pc \in {"zones", "pruneZones"}
  PROVE  ReadZones = IF DryRun THEN start.zones ELSE start.zones \cup NewZones
<1>1. members = IF DryRun THEN Listed ELSE Relisted
  BY DEF Inv, Course, Beginning
<1>2. CASE DryRun
  <2>1. \A z \in Zones : Listed[z] # Absent <=> z \in start.zones
    <3>1. \A z \in Zones : {n \in Old : start.nets[n].zone = z} \in SUBSET Nets
      BY DEF Old
    <3>2. QED
      BY <3>1, AbsentAssumption DEF Listed
  <2>2. QED
    BY <1>1, <1>2, <2>1, TaskTypes DEF ReadZones
<1>3. CASE ~DryRun
  BY <1>1, <1>3, RelistedTyped, TaskTypes DEF ReadZones
<1>4. QED
  BY <1>2, <1>3

LEMMA InvPruneZones == ASSUME Inv, PruneZones PROVE Inv'
<1>1. /\ Still /\ UNCHANGED <<nets, zones, zbf, doc, pass, start, read, known, members, created,
                              placed, lines, updates>>
      /\ pc = "zones" /\ todo = {} /\ pc' = "pruneZones"
      /\ todo' = IF doc.prune THEN ReadZones \ (DeclaredZones \cup Builtin) ELSE {}
  BY DEF PruneZones, Still, console, placing, reading
<1>2. todo' = PrunedZones /\ zbf
  BY <1>1, ReadZonesFacts, TaskTypes DEF PrunedZones, Inv, Course, Beginning
<1>3. /\ ToCreate' = ToCreate /\ ToWrite' = ToWrite /\ ToDrop' = ToDrop
      /\ ToSettle' = ToSettle /\ ToRemove' = ToRemove
  BY <1>1, <1>2, TaskKept DEF ToCreate, ToWrite, ToDrop, ToSettle, ToRemove, Beginning
<1>4. Effects'
  BY <1>1, <1>3, EffectsKept DEF Beginning
<1>5. Course'
  BY <1>1, <1>2, <1>3, RelistedKept, TaskKept DEF Inv, Course, Joined, Beginning
<1>6. QED
  BY <1>1, <1>2, <1>4, <1>5, MovesOn, TaskTypes DEF Inv, TypeOK, Beginning

-----------------------------------------------------------------------------
(* A pass begins, a run ends. *)

\* A pass that has not read anything yet, on the console it compares with.
LEMMA InvBeginPass ==
  ASSUME NEW p \in {"plan", "write"}, BeginPass(p), doc' \in Documents, zbf' \in BOOLEAN,
         nets' \in [Nets -> {Absent} \cup Network], zones' \subseteq Zones,
         start' = [nets |-> nets', zones |-> zones'], Housed',
         planned' \in [lines : SUBSET Line, moves : Nat], faults' \in 0..MaxFaults
  PROVE  Inv'
<1>1. /\ pass' = p /\ pc' = "readNets" /\ read' = NoNets /\ known' = {} /\ members' = NoZones
      /\ created' = {} /\ placed' = {} /\ todo' = {} /\ lines' = {} /\ updates' = 0
  BY DEF BeginPass
<1>2. [nets |-> nets, zones |-> zones, zbf |-> zbf]' \in Console
  BY DEF Console
<1>3. NoNets \in [Nets -> {Absent} \cup Network] /\ NoZones \in [Zones -> {Absent} \cup SUBSET Nets]
  BY DEF NoNets, NoZones
<1>4. TypeOK'
  BY <1>1, <1>2, <1>3, InputAssumption DEF TypeOK, Line
<1>5. /\ ToCreate' = NewZones' /\ ToWrite' = DeclaredNets' /\ ToDrop' = PrunedNets'
      /\ ToSettle' \subseteq DeclaredZones' /\ ToRemove' = PrunedZones'
  BY <1>1 DEF ToCreate, ToWrite, ToDrop, ToSettle, ToRemove, Beginning
<1>6. Joined({})' = {}
  BY DEF Joined
<1>7. Course'
  BY <1>1, <1>5, <1>6 DEF Course, Beginning, New, Joined
<1>8. Unwritten'
  BY DEF Unwritten
<1>9. LiveNets' = Old' /\ PrunedNets' \subseteq Old' /\ nets' = start'.nets /\ zones' = start'.zones
  BY DEF LiveNets, Old, PrunedNets
<1>10. Effects'
  BY <1>1, <1>5, <1>9 DEF Effects, Beginning
<1>11. QED
  BY <1>4, <1>7, <1>8, <1>10 DEF Inv

LEMMA InitInv == Init => Inv
<1> SUFFICES ASSUME Init PROVE Inv
  OBVIOUS
<1>1. PICK c \in Consoles : nets = c.nets /\ zones = c.zones /\ zbf = c.zbf
  BY DEF Init
<1>2. /\ pass = "plan" /\ pc = "idle" /\ read = NoNets /\ known = {} /\ members = NoZones
      /\ created = {} /\ placed = {} /\ todo = {} /\ lines = {} /\ updates = 0 /\ faults = 0
      /\ start.nets = nets /\ start.zones = zones
      /\ start = [nets |-> nets, zones |-> zones]
      /\ planned = [lines |-> {}, moves |-> 0] /\ doc \in Documents
  BY DEF Init
<1>3. /\ nets \in [Nets -> {Absent} \cup Network] /\ zones \subseteq Zones /\ zbf \in BOOLEAN
      /\ \A n \in Nets : nets[n] # Absent => nets[n].zone \in zones \cup {NoZone}
  BY <1>1, InputAssumption, ZonesAssumption DEF Console
<1>4. [nets |-> nets, zones |-> zones, zbf |-> zbf] \in Console
  BY <1>3 DEF Console
<1>5. NoNets \in [Nets -> {Absent} \cup Network] /\ NoZones \in [Zones -> {Absent} \cup SUBSET Nets]
  BY DEF NoNets, NoZones
<1>6. TypeOK
  BY <1>2, <1>3, <1>4, <1>5, InputAssumption, BoundAssumption DEF TypeOK, Line
<1>7. Housed
  BY <1>2, <1>3 DEF Housed, LiveNets, Old
<1>8. Course /\ Unwritten /\ Effects
  BY <1>2 DEF Course, Unwritten, Effects
<1>9. QED
  BY <1>2, <1>6, <1>7, <1>8 DEF Inv

LEMMA InvStartRun == ASSUME Inv, StartRun PROVE Inv'
<1>1. /\ BeginPass("plan") /\ doc' \in Documents /\ UNCHANGED <<nets, zones, zbf, faults>>
      /\ start' = [nets |-> nets', zones |-> zones'] /\ planned' = [lines |-> {}, moves |-> 0]
  BY DEF StartRun, console
<1>2. LiveNets' = LiveNets /\ Old' = LiveNets'
  BY <1>1 DEF LiveNets, Old
<1>3. Housed'
  BY <1>1, <1>2 DEF Inv, Housed
<1>4. QED
  BY <1>1, <1>3, InvBeginPass, TaskTypes DEF Inv, TypeOK

LEMMA InvFinishPlan == ASSUME Inv, FinishPlan PROVE Inv'
<1>1. /\ UNCHANGED <<nets, zones, zbf, doc, start, faults>> /\ pass = "plan"
      /\ planned' = [lines |-> lines, moves |-> updates] /\ planned' \in [lines : SUBSET Line, moves : Nat]
  BY DEF FinishPlan, console, Inv, TypeOK
<1>2. Housed'
  BY <1>1 DEF Inv, Housed, LiveNets, Old
<1>3. start' = [nets |-> nets', zones |-> zones']
  BY <1>1 DEF Inv, Unwritten, TypeOK
<1>4. CASE BeginPass("write")
  BY <1>1, <1>2, <1>3, <1>4, InvBeginPass, TaskTypes DEF Inv, TypeOK
<1>5. CASE End("clean") /\ UNCHANGED <<pass, lines, updates>>
  <2>1. [nets |-> nets, zones |-> zones, zbf |-> zbf]' \in Console
    BY <1>1 DEF Inv, TypeOK
  <2>2. /\ pc' = "clean" /\ read' = NoNets /\ known' = {} /\ members' = NoZones
        /\ created' = {} /\ placed' = {} /\ todo' = {}
    BY <1>5 DEF End
  <2>3. NoNets \in [Nets -> {Absent} \cup Network] /\ NoZones \in [Zones -> {Absent} \cup SUBSET Nets]
    BY DEF NoNets, NoZones
  <2>4. TypeOK'
    BY <1>1, <1>5, <2>1, <2>2, <2>3 DEF Inv, TypeOK
  <2>5. Course' /\ Effects' /\ Unwritten'
    BY <1>1, <1>5, <2>2 DEF Course, Effects, Unwritten, Inv, Beginning
  <2>6. QED
    BY <1>1, <1>2, <2>4, <2>5 DEF Inv
<1>6. QED
  BY <1>4, <1>5 DEF FinishPlan

\* A pass that is done has nothing left to do.
LEMMA NothingLeft ==
  ASSUME Inv, PassDone
  PROVE  ToCreate = {} /\ ToWrite = {} /\ ToDrop = {} /\ ToSettle = {} /\ ToRemove = {}
BY DEF PassDone, ToCreate, ToWrite, ToDrop, ToSettle, ToRemove, Beginning

LEMMA InvFinishWrite == ASSUME Inv, FinishWrite PROVE Inv'
<1>1. /\ UNCHANGED <<nets, zones, zbf, doc, pass, start, faults, planned, lines, updates>>
      /\ pass = "write" /\ Running /\ PassDone
      /\ pc' = "applied" /\ read' = NoNets /\ known' = {} /\ members' = NoZones
      /\ created' = {} /\ placed' = {} /\ todo' = {}
  BY DEF FinishWrite, console, End, PassDone
<1>2. LiveNets' = LiveNets /\ Old' = Old
  BY <1>1 DEF LiveNets, Old
<1>3. Housed'
  BY <1>1, <1>2 DEF Inv, Housed
<1>4. [nets |-> nets, zones |-> zones, zbf |-> zbf]' \in Console
  BY <1>1 DEF Inv, TypeOK
<1>5. NoNets \in [Nets -> {Absent} \cup Network] /\ NoZones \in [Zones -> {Absent} \cup SUBSET Nets]
  BY DEF NoNets, NoZones
<1>6. TypeOK'
  BY <1>1, <1>4, <1>5 DEF Inv, TypeOK
<1>7. Course' /\ Unwritten'
  BY <1>1 DEF Course, Unwritten, Beginning
<1>8. /\ ToCreate' = {} /\ ToWrite' = {} /\ ToDrop' = {} /\ ToRemove' = {}
      /\ ToCreate = {} /\ ToWrite = {} /\ ToDrop = {} /\ ToRemove = {}
  BY <1>1, NothingLeft DEF ToCreate, ToWrite, ToDrop, ToRemove, Beginning
<1>9. Effects'
  BY <1>1, <1>2, <1>8, TaskKept DEF Inv, Effects
<1>10. QED
  BY <1>1, <1>3, <1>6, <1>7, <1>9 DEF Inv

-----------------------------------------------------------------------------
(* Writes *)

\* The three ways a request can go: not sent in a dry run; carried out and
\* answered; the run fails, whether or not it was carried out.
Dry     == DryRun /\ UNCHANGED <<nets, zones, faults>>
Failed  == ~DryRun /\ End("failed") /\ faults' \in 0..MaxFaults /\ faults' >= faults

LEMMA MutateFacts ==
  ASSUME Inv, NEW STATE acceptable, NEW ACTION write, NEW answer \in Answers,
         Mutate(acceptable, write, answer)
  PROVE  \/ answer = "done" /\ Dry
         \/ answer = "done" /\ ~DryRun /\ acceptable /\ write /\ faults' = faults
         \/ /\ answer # "done" /\ ~DryRun /\ faults' \in 0..MaxFaults /\ faults' >= faults
            /\ acceptable => faults' > 0
            /\ UNCHANGED <<nets, zones>> \/ (acceptable /\ write)
<1>1. faults \in 0..MaxFaults /\ MaxFaults \in Nat
  BY BoundAssumption DEF Inv, TypeOK
<1>2. CASE DryRun
  BY <1>2, <1>1 DEF Mutate, Dry
<1>3. CASE ~DryRun
  <2>1. /\ answer # "rejected" => acceptable
        /\ IF answer = "rejected" THEN UNCHANGED <<nets, zones>> ELSE write
        /\ IF answer = "done" \/ ~acceptable THEN UNCHANGED faults
           ELSE faults < MaxFaults /\ faults' = faults + 1
    BY <1>3 DEF Mutate
  <2>2. faults' \in 0..MaxFaults /\ faults' >= faults
        /\ (answer # "done" /\ acceptable => faults' > 0)
    <3>1. CASE answer = "done" \/ ~acceptable
      BY <3>1, <2>1, <1>1
    <3>2. CASE ~(answer = "done" \/ ~acceptable)
      BY <3>2, <2>1, <1>1
    <3>3. QED
      BY <3>1, <3>2
  <2>3. CASE answer = "done"
    BY <1>3, <2>1, <2>3
  <2>4. CASE answer = "lost"
    BY <1>3, <2>1, <2>2, <2>4
  <2>5. CASE answer = "rejected"
    BY <1>3, <2>1, <2>2, <2>5
  <2>6. QED
    BY <2>3, <2>4, <2>5 DEF Answers
<1>4. QED
  BY <1>2, <1>3

\* What the four kinds of request do to the console.
LEMMA PutZoneFacts ==
  ASSUME Inv, NEW z \in Zones, NEW ns \in SUBSET LiveNets, PutZone(z, ns), start' = start
  PROVE  /\ nets' \in [Nets -> {Absent} \cup Network] /\ zones' = zones \cup {z} /\ zones' \subseteq Zones
         /\ LiveNets' = LiveNets /\ Housed'
         /\ \A n \in LiveNets :
              /\ nets'[n].conf = nets[n].conf
              /\ nets'[n].zone = IF n \in ns THEN z
                                 ELSE IF nets[n].zone = z THEN NoZone ELSE nets[n].zone
<1>1. nets \in [Nets -> {Absent} \cup Network] /\ (\A n \in LiveNets : nets[n] \in Network)
  BY TaskTypes
<1>2. ASSUME NEW n \in Nets
      PROVE  /\ n \notin LiveNets => nets'[n] = Absent
             /\ n \in LiveNets => /\ nets'[n] \in Network /\ nets'[n] # Absent
                                  /\ nets'[n].conf = nets[n].conf
                                  /\ nets'[n].zone = IF n \in ns THEN z
                                       ELSE IF nets[n].zone = z THEN NoZone ELSE nets[n].zone
  <2>1. nets'[n] = IF n \in ns THEN [nets[n] EXCEPT !.zone = z]
                   ELSE IF n \in LiveNets /\ nets[n].zone = z THEN [nets[n] EXCEPT !.zone = NoZone]
                   ELSE nets[n]
    BY DEF PutZone
  <2>2. CASE n \in LiveNets
    <3>1. nets[n] \in [conf : Confs, zone : Zones \cup {NoZone}]
      BY <1>1, <2>2 DEF Network
    <3>2. \A y \in Zones \cup {NoZone} :
            /\ [nets[n] EXCEPT !.zone = y] \in [conf : Confs, zone : Zones \cup {NoZone}]
            /\ [nets[n] EXCEPT !.zone = y].conf = nets[n].conf
            /\ [nets[n] EXCEPT !.zone = y].zone = y
      BY <3>1
    <3>3. QED
      BY <2>1, <2>2, <3>1, <3>2, AbsentAssumption DEF Network
  <2>3. CASE n \notin LiveNets
    BY <2>1, <2>3 DEF LiveNets
  <2>4. QED
    BY <2>2, <2>3
<1>3. nets' = [n \in Nets |-> nets'[n]]
  BY DEF PutZone
<1>4. nets' \in [Nets -> {Absent} \cup Network] /\ LiveNets' = LiveNets
  BY <1>2, <1>3 DEF LiveNets
<1>5. zones' = zones \cup {z} /\ zones' \subseteq Zones /\ LiveNets \subseteq Nets
  BY TaskTypes DEF PutZone, LiveNets
<1>6. Old' = Old
  BY DEF Old
<1>7. Housed'
  BY <1>2, <1>4, <1>5, <1>6 DEF Inv, Housed
<1>8. QED
  BY <1>2, <1>4, <1>5, <1>7

LEMMA PutNetworkFacts ==
  ASSUME Inv, NEW n \in Nets, NEW conf \in Confs, NEW y \in (zones \cap Zones) \cup {NoZone},
         PutNetwork(n, conf, y), zones' = zones, start' = start
  PROVE  /\ nets' \in [Nets -> {Absent} \cup Network]
         /\ LiveNets' = LiveNets \cup {n} /\ Housed'
         /\ nets'[n].conf = conf /\ nets'[n].zone = y
         /\ \A m \in LiveNets \ {n} : nets'[m] = nets[m]
<1>1. nets \in [Nets -> {Absent} \cup Network] /\ [conf |-> conf, zone |-> y] \in Network
  BY TaskTypes DEF Network
<1>2. /\ nets' \in [Nets -> {Absent} \cup Network] /\ nets'[n] = [conf |-> conf, zone |-> y]
      /\ \A m \in Nets \ {n} : nets'[m] = nets[m]
  BY <1>1 DEF PutNetwork
<1>3. LiveNets' = LiveNets \cup {n}
  BY <1>1, <1>2, AbsentAssumption DEF LiveNets
<1>4. Old' = Old /\ LiveNets \subseteq Nets
  BY DEF Old, LiveNets
<1>5. Housed'
  BY <1>2, <1>3, <1>4 DEF Inv, Housed
<1>6. QED
  BY <1>2, <1>3, <1>4, <1>5

LEMMA DropNetworkFacts ==
  ASSUME Inv, NEW n \in Nets, DropNetwork(n), zones' = zones, start' = start
  PROVE  /\ nets' \in [Nets -> {Absent} \cup Network]
         /\ LiveNets' = LiveNets \ {n} /\ Housed'
         /\ \A m \in LiveNets \ {n} : nets'[m] = nets[m]
<1>1. nets \in [Nets -> {Absent} \cup Network]
  BY TaskTypes
<1>2. /\ nets' \in [Nets -> {Absent} \cup Network] /\ nets'[n] = Absent
      /\ \A m \in Nets \ {n} : nets'[m] = nets[m]
  BY <1>1 DEF DropNetwork
<1>3. LiveNets' = LiveNets \ {n} /\ Old' = Old /\ LiveNets \subseteq Nets
  BY <1>2 DEF LiveNets, Old
<1>4. Housed'
  BY <1>2, <1>3 DEF Inv, Housed
<1>5. QED
  BY <1>2, <1>3, <1>4

LEMMA DropZoneFacts ==
  ASSUME Inv, NEW z \in Zones, DropZone(z), start' = start
  PROVE  /\ nets' \in [Nets -> {Absent} \cup Network] /\ zones' = zones \ {z} /\ zones' \subseteq Zones
         /\ LiveNets' = LiveNets /\ Housed'
         /\ \A n \in LiveNets :
              /\ nets'[n].conf = nets[n].conf
              /\ nets'[n].zone = IF nets[n].zone = z THEN NoZone ELSE nets[n].zone
<1>1. nets \in [Nets -> {Absent} \cup Network] /\ (\A n \in LiveNets : nets[n] \in Network)
  BY TaskTypes
<1>2. ASSUME NEW n \in Nets
      PROVE  /\ n \notin LiveNets => nets'[n] = Absent
             /\ n \in LiveNets => /\ nets'[n] \in Network /\ nets'[n] # Absent
                                  /\ nets'[n].conf = nets[n].conf
                                  /\ nets'[n].zone = IF nets[n].zone = z THEN NoZone ELSE nets[n].zone
  <2>1. nets'[n] = IF n \in LiveNets /\ nets[n].zone = z THEN [nets[n] EXCEPT !.zone = NoZone]
                   ELSE nets[n]
    BY DEF DropZone
  <2>2. CASE n \in LiveNets
    <3>1. nets[n] \in [conf : Confs, zone : Zones \cup {NoZone}]
      BY <1>1, <2>2 DEF Network
    <3>2. /\ [nets[n] EXCEPT !.zone = NoZone] \in [conf : Confs, zone : Zones \cup {NoZone}]
          /\ [nets[n] EXCEPT !.zone = NoZone].conf = nets[n].conf
          /\ [nets[n] EXCEPT !.zone = NoZone].zone = NoZone
      BY <3>1
    <3>3. QED
      BY <2>1, <2>2, <3>1, <3>2, AbsentAssumption DEF Network
  <2>3. CASE n \notin LiveNets
    BY <2>1, <2>3 DEF LiveNets
  <2>4. QED
    BY <2>2, <2>3
<1>3. nets' = [n \in Nets |-> nets'[n]]
  BY DEF DropZone
<1>4. nets' \in [Nets -> {Absent} \cup Network] /\ LiveNets' = LiveNets
  BY <1>2, <1>3 DEF LiveNets
<1>5. zones' = zones \ {z} /\ zones' \subseteq Zones /\ LiveNets \subseteq Nets
  BY TaskTypes DEF DropZone, LiveNets
<1>6. Old' = Old
  BY DEF Old
<1>7. Housed'
  BY <1>2, <1>4, <1>5, <1>6, NamesAssumption DEF Inv, Housed
<1>8. QED
  BY <1>2, <1>4, <1>5, <1>7

-----------------------------------------------------------------------------
(* The actions that write *)

Frame == UNCHANGED <<zbf, doc, pass, planned, start>>

\* While zones are created the networks are as they were read.
LEMMA CreatingCourse ==
  ASSUME Inv, pc = "creating"
  PROVE  /\ read = start.nets /\ ReadNets = Old /\ known = Old
         /\ todo \subseteq NewZones /\ created = NewZones \ todo /\ placed = Joined(created)
         /\ ToCreate = todo /\ ToWrite = DeclaredNets /\ ToDrop = PrunedNets /\ ToRemove = PrunedZones
         /\ members = Listed /\ zbf
         /\ pass = "write" => LiveNets = Old /\ zones = start.zones \cup created
<1>1. /\ ToCreate = todo /\ ToWrite = DeclaredNets /\ ToDrop = PrunedNets /\ ToRemove = PrunedZones
  BY DEF ToCreate, ToWrite, ToDrop, ToRemove, Beginning
<1>2. /\ read = start.nets /\ known = Old /\ todo \subseteq NewZones /\ created = NewZones \ todo
      /\ zbf /\ placed = Joined(created) /\ members = Listed
  BY <1>1 DEF Inv, Course, Beginning, New
<1>3. pass = "write" => LiveNets = Old /\ zones = start.zones \cup created
  BY <1>1, <1>2 DEF Inv, Effects
<1>4. QED
  BY <1>1, <1>2, <1>3 DEF ReadNets, Old

ZoneCreated(z) ==
  /\ created' = created \cup {z} /\ placed' = placed \cup (doc.zones[z] \cap Old)
  /\ todo' = todo \ {z} /\ pc' = pc /\ read' = read /\ known' = known /\ members' = members

LEMMA CreateZoneCases ==
  ASSUME Inv, NEW z \in Zones, CreateZone(z)
  PROVE  /\ pc = "creating" /\ z \in todo /\ z \in NewZones /\ Frame
         /\ doc.zones[z] \subseteq Old \cup DeclaredNets
         /\ lines' = lines \cup {<<"CREATE", z>>}
         /\ updates' = updates + Cardinality(Movers(z))
         /\ \/ Dry /\ ZoneCreated(z)
            \/ /\ ~DryRun /\ PutZone(z, doc.zones[z] \cap Old) /\ doc.zones[z] \cap Old \subseteq LiveNets
               /\ faults' = faults /\ ZoneCreated(z)
            \/ /\ Failed /\ faults' > 0 /\ doc.zones[z] \cap Old \subseteq LiveNets
               /\ UNCHANGED <<nets, zones>> \/ PutZone(z, doc.zones[z] \cap Old)
<1>1. /\ pc = "creating" /\ z \in todo /\ Frame /\ ~Unresolvable(z)
      /\ lines' = lines \cup {<<"CREATE", z>>}
      /\ updates' = updates + Cardinality(Movers(z))
  BY DEF CreateZone, Frame
<1>2. ReadNets = Old /\ todo \subseteq NewZones /\ (pass = "write" => LiveNets = Old)
  BY <1>1, CreatingCourse
<1>3. pass = "plan" \/ pass = "write"
  BY DEF Inv, TypeOK
<1>4. PICK answer \in Answers :
        /\ Mutate(TRUE, PutZone(z, doc.zones[z] \cap ReadNets), answer)
        /\ IF answer = "done"
           THEN /\ created' = created \cup {z}
                /\ placed' = placed \cup (doc.zones[z] \cap ReadNets)
                /\ todo' = todo \ {z}
                /\ UNCHANGED <<pc, reading>>
           ELSE End("failed")
  BY DEF CreateZone
<1>5. CASE answer = "done"
  <2>1. ZoneCreated(z)
    BY <1>2, <1>4, <1>5 DEF ZoneCreated, reading
  <2>2. \/ Dry
        \/ ~DryRun /\ PutZone(z, doc.zones[z] \cap ReadNets) /\ faults' = faults
    BY <1>4, <1>5, MutateFacts
  <2>3. QED
    BY <1>1, <1>2, <1>3, <2>1, <2>2 DEF Unresolvable
<1>6. CASE answer # "done"
  <2>1. /\ ~DryRun /\ faults' \in 0..MaxFaults /\ faults' >= faults /\ faults' > 0
        /\ UNCHANGED <<nets, zones>> \/ PutZone(z, doc.zones[z] \cap ReadNets)
    <3>1. Mutate(TRUE, PutZone(z, doc.zones[z] \cap ReadNets), answer)
      BY <1>4
    <3>2. UNCHANGED <<nets, zones>> \/ PutZone(z, doc.zones[z] \cap ReadNets)
      BY <3>1 DEF Mutate
    <3>3. ~DryRun /\ faults' \in 0..MaxFaults /\ faults' >= faults
      BY <3>1, <1>6, MutateFacts
    <3>4. faults' > 0
      BY <3>1, <1>6, MutateFacts
    <3>5. QED
      BY <3>2, <3>3, <3>4
  <2>2. Failed
    BY <1>4, <1>6, <2>1 DEF Failed
  <2>3. QED
    BY <1>1, <1>2, <1>3, <2>1, <2>2 DEF Unresolvable
<1>7. QED
  BY <1>5, <1>6

\* A run that fails on a write, whatever became of the request.
LEMMA InvFailed ==
  ASSUME Inv, Failed, Frame, lines' \subseteq Line, updates' \in Nat,
         \/ UNCHANGED <<nets, zones>>
         \/ nets' \in [Nets -> {Absent} \cup Network] /\ zones' \subseteq Zones /\ Housed'
  PROVE  Inv'
<1>1. UNCHANGED <<zbf, doc, pass, planned, start>>
  BY DEF Frame
<1>2. /\ nets' \in [Nets -> {Absent} \cup Network] /\ zones' \subseteq Zones /\ Housed'
  <2>1. CASE UNCHANGED <<nets, zones>>
    <3>1. LiveNets' = LiveNets /\ Old' = Old
      BY <1>1, <2>1 DEF LiveNets, Old
    <3>2. QED
      BY <1>1, <2>1, <3>1, TaskTypes DEF Inv, Housed
  <2>2. QED
    BY <2>1
<1>3. QED
  BY <1>1, <1>2, EndKeeps DEF Failed

LEMMA LineTypes ==
  ASSUME Inv, NEW verb \in {"CREATE", "UPDATE", "DELETE"}, NEW x \in Nets \cup Zones
  PROVE  lines \cup {<<verb, x>>} \subseteq Line
BY DEF Inv, TypeOK, Line

\* A pass goes on after a write, sent or not.
LEMMA InvGoesOn ==
  ASSUME Inv, Frame, lines' \subseteq Line, updates' \in Nat, faults' = faults,
         nets' \in [Nets -> {Absent} \cup Network], zones' \subseteq Zones, Housed',
         pass = "plan" => UNCHANGED <<nets, zones>>,
         UNCHANGED <<pc, read, members>>, pc \notin Beginning, Course', Effects',
         known' \subseteq Nets, created' \subseteq Zones, placed' \subseteq known',
         todo' \subseteq Nets \cup Zones
  PROVE  Inv'
<1>1. UNCHANGED <<zbf, doc, pass, planned, start>>
  BY DEF Frame
<1>2. [nets |-> nets, zones |-> zones, zbf |-> zbf]' \in Console
  BY <1>1, TaskTypes DEF Console
<1>3. TypeOK'
  BY <1>1, <1>2 DEF Inv, TypeOK
<1>4. Unwritten'
  BY <1>1 DEF Inv, Unwritten
<1>5. QED
  BY <1>1, <1>3, <1>4 DEF Inv

LEMMA MoversFinite == ASSUME Inv, NEW z \in Zones PROVE Cardinality(Movers(z)) \in Nat
<1>1. Movers(z) \in SUBSET Nets
  BY DEF Movers, ReadNets
<1>2. QED
  BY <1>1, FiniteAssumption, FS_Subset, FS_CardinalityType

LEMMA InvCreateZone == ASSUME Inv, NEW z \in Zones, CreateZone(z) PROVE Inv'
<1>1. /\ pc = "creating" /\ z \in todo /\ z \in NewZones /\ Frame
      /\ lines' = lines \cup {<<"CREATE", z>>}
      /\ updates' = updates + Cardinality(Movers(z))
  BY CreateZoneCases
<1>2. lines' \subseteq Line /\ updates' \in Nat
  BY <1>1, LineTypes, MoversFinite DEF Inv, TypeOK
<1>3. UNCHANGED <<zbf, doc, pass, planned, start>>
  BY <1>1 DEF Frame
<1>4. ASSUME PutZone(z, doc.zones[z] \cap Old), doc.zones[z] \cap Old \subseteq LiveNets
      PROVE  /\ nets' \in [Nets -> {Absent} \cup Network] /\ zones' = zones \cup {z} /\ zones' \subseteq Zones
             /\ LiveNets' = LiveNets /\ Housed'
             /\ \A n \in LiveNets :
                  /\ nets'[n].conf = nets[n].conf
                  /\ nets'[n].zone = IF n \in doc.zones[z] \cap Old THEN z
                                     ELSE IF nets[n].zone = z THEN NoZone ELSE nets[n].zone
  <2>1. doc.zones[z] \cap Old \in SUBSET LiveNets
    BY <1>4
  <2>2. QED
    BY <1>3, <1>4, <2>1, PutZoneFacts
<1>5. CASE Failed /\ (\/ UNCHANGED <<nets, zones>>
                      \/ PutZone(z, doc.zones[z] \cap Old) /\ doc.zones[z] \cap Old \subseteq LiveNets)
  BY <1>1, <1>2, <1>4, <1>5, InvFailed
<1>6. ASSUME ZoneCreated(z), faults' = faults,
             \/ Dry
             \/ /\ ~DryRun /\ PutZone(z, doc.zones[z] \cap Old)
                /\ doc.zones[z] \cap Old \subseteq LiveNets
      PROVE  Inv'
  <2>1. /\ ToCreate' = todo \ {z} /\ ToWrite' = DeclaredNets /\ ToDrop' = PrunedNets
        /\ ToSettle' = ToSettle /\ ToRemove' = PrunedZones
    BY <1>1, <1>3, <1>6, TaskKept
       DEF ZoneCreated, ToCreate, ToWrite, ToDrop, ToSettle, ToRemove, Beginning
  <2>2. /\ created' = created \cup {z} /\ placed' = placed \cup (doc.zones[z] \cap Old)
        /\ todo' = todo \ {z} /\ pc' = pc /\ read' = read /\ known' = known /\ members' = members
    BY <1>6 DEF ZoneCreated
  <2>3. /\ created' = NewZones \ (todo \ {z}) /\ placed' \subseteq Old
        /\ placed' = Joined(created)'
    <3>1. created' = NewZones \ (todo \ {z})
      BY <1>1, <2>2, CreatingCourse
    <3>2. placed = {n \in Old : \E y \in created : n \in doc.zones[y]}
      BY <1>1, CreatingCourse DEF Joined
    <3>3. placed' = {n \in Old : \E y \in created' : n \in doc.zones[y]}
      BY <2>2, <3>2
    <3>4. Joined(created)' = {n \in Old : \E y \in created' : n \in doc.zones[y]}
      BY <1>3, TaskKept DEF Joined
    <3>5. QED
      BY <3>1, <3>3, <3>4
  <2>4. Course'
    <3>1. /\ read' = start'.nets /\ known' = Old' \cup (DeclaredNets' \ ToWrite')
          /\ created' = NewZones' \ ToCreate' /\ New' \ ToWrite' = {} /\ zbf' /\ pc' = "creating"
          /\ ToCreate' \subseteq NewZones' /\ members' = Listed'
      BY <1>1, <1>3, <2>1, <2>2, <2>3, CreatingCourse, TaskKept DEF New
    <3>2. /\ ToWrite' \subseteq DeclaredNets' /\ ToDrop' \subseteq PrunedNets'
          /\ ToSettle' \subseteq DeclaredZones' /\ ToRemove' \subseteq PrunedZones'
          /\ \A n \in New' : DeclaredZone(n)' # NoZone
      BY <1>1, <1>3, <2>1, TaskKept DEF Inv, Course, Beginning
    <3>3. placed' = Joined(created)' \cup (New' \ ToWrite')
      BY <2>3, <3>1
    <3>4. QED
      BY <3>1, <3>2, <3>3 DEF Course, Beginning
  <2>5. /\ nets' \in [Nets -> {Absent} \cup Network] /\ zones' \subseteq Zones /\ Housed'
        /\ pass = "plan" => UNCHANGED <<nets, zones>>
    <3>1. CASE Dry
      <4>1. LiveNets' = LiveNets /\ Old' = Old
        BY <1>3, <3>1 DEF LiveNets, Old, Dry
      <4>2. QED
        BY <1>3, <3>1, <4>1, TaskTypes DEF Inv, Housed, Dry
    <3>2. QED
      BY <1>4, <1>6, <3>1
  <2>6. Effects'
    <3> SUFFICES ASSUME pass = "write" PROVE Effects'
      BY <1>3 DEF Effects
    <3>1. /\ zones' = zones \cup {z} /\ LiveNets' = LiveNets
          /\ \A n \in LiveNets :
               /\ nets'[n].conf = nets[n].conf
               /\ nets'[n].zone = IF n \in doc.zones[z] \cap Old THEN z
                                  ELSE IF nets[n].zone = z THEN NoZone ELSE nets[n].zone
      BY <1>4, <1>6 DEF Dry
    <3>2. LiveNets = Old /\ zones = start.zones \cup created
      BY <1>1, CreatingCourse
    <3>3. z \notin zones
      BY <1>1, <3>2, CreatingCourse DEF NewZones
    <3>4. \A n \in LiveNets : nets[n].zone # z
      BY <3>3, <1>1, TaskTypes, NamesAssumption DEF Inv, Housed
    <3>5. zones' = (start.zones \cup (NewZones \ (todo \ {z}))) \ (PrunedZones \ PrunedZones)
      BY <1>1, <3>1, <3>2, CreatingCourse
    <3>6. ASSUME NEW n \in LiveNets
          PROVE  /\ nets'[n].conf = start.nets[n].conf
                 /\ n \in placed' => nets'[n].zone = DeclaredZone(n)
                 /\ n \in Old \ placed' => nets'[n].zone = start.nets[n].zone
      <4>1. /\ nets[n].conf = start.nets[n].conf
            /\ n \in placed => nets[n].zone = DeclaredZone(n)
            /\ n \in Old \ placed => nets[n].zone = start.nets[n].zone
        BY <1>1, CreatingCourse DEF Inv, Effects
      <4>2. n \in Nets /\ z \in DeclaredZones /\ (n \in doc.zones[z] <=> DeclaredZone(n) = z)
        BY <1>1, TaskTypes, DeclaredZoneFacts DEF LiveNets, Inv
      <4>3. QED
        BY <2>2, <3>1, <3>2, <3>4, <4>1, <4>2
    <3>7. QED
      BY <1>1, <1>3, <2>1, <2>2, <3>1, <3>2, <3>5, <3>6, TaskKept DEF Effects
  <2>7. QED
    BY <1>1, <1>2, <1>6, <2>2, <2>3, <2>4, <2>5, <2>6, CreatingCourse, TaskTypes, InvGoesOn
       DEF Inv, TypeOK, Beginning, Joined
<1>7. QED
  BY <1>5, <1>6, CreateZoneCases DEF Dry

\* The console while networks are written.
LEMMA NetworksWritten ==
  ASSUME Inv, pc = "networks", pass = "write"
  PROVE  /\ zones = start.zones \cup NewZones
         /\ LiveNets = Old \cup (DeclaredNets \ todo)
         /\ \A n \in LiveNets :
              /\ nets[n].conf = IF n \in DeclaredNets \ todo THEN doc.nets[n] ELSE start.nets[n].conf
              /\ n \in placed => nets[n].zone = DeclaredZone(n)
              /\ n \in Old \ placed => nets[n].zone = start.nets[n].zone
<1>1. /\ ToCreate = {} /\ ToWrite = todo /\ ToDrop = PrunedNets /\ ToRemove = PrunedZones
  BY NetworksCourse
<1>2. QED
  BY <1>1 DEF Inv, Effects

Birthplace(n) == IF zbf THEN DeclaredZone(n) ELSE NoZone

NetworkCreated(n) ==
  /\ placed' = IF zbf THEN placed \cup {n} ELSE placed
  /\ known' = known \cup {n} /\ todo' = todo \ {n}
  /\ pc' = pc /\ read' = read /\ members' = members /\ created' = created

LEMMA CreateNetworkCases ==
  ASSUME Inv, NEW n \in Nets, CreateNetwork(n)
  PROVE  /\ pc = "networks" /\ n \in todo /\ n \in New /\ Frame
         /\ lines' = lines \cup {<<"CREATE", n>>} /\ updates' = updates
         /\ \/ Dry /\ NetworkCreated(n)
            \/ /\ ~DryRun /\ PutNetwork(n, doc.nets[n], Birthplace(n)) /\ zones' = zones
               /\ faults' = faults /\ NetworkCreated(n)
            \/ /\ Failed /\ faults' > 0
               /\ \/ UNCHANGED <<nets, zones>>
                  \/ PutNetwork(n, doc.nets[n], Birthplace(n)) /\ zones' = zones
<1> DEFINE W == PutNetwork(n, doc.nets[n], IF HasHome(n) THEN DeclaredZone(n) ELSE NoZone)
                /\ UNCHANGED zones
<1>1. /\ pc = "networks" /\ n \in todo /\ n \notin ReadNets /\ Frame
      /\ lines' = lines \cup {<<"CREATE", n>>} /\ updates' = updates
  BY DEF CreateNetwork, Frame
<1>2. n \in New
  BY <1>1, NetworksCourse DEF New
<1>3. PICK answer \in Answers :
        /\ Mutate(TRUE, W, answer)
        /\ IF answer = "done"
           THEN /\ placed' = IF zbf THEN placed \cup {n} ELSE placed
                /\ Registered(n)
                /\ todo' = todo \ {n}
                /\ UNCHANGED <<pc, read, members, created>>
           ELSE End("failed")
  BY DEF CreateNetwork
<1>4. W => PutNetwork(n, doc.nets[n], Birthplace(n)) /\ zones' = zones
  BY <1>1 DEF HasHome, Birthplace
<1>5. CASE answer = "done"
  <2>1. NetworkCreated(n)
    BY <1>3, <1>5 DEF NetworkCreated, Registered
  <2>2. Dry \/ (~DryRun /\ W /\ faults' = faults)
    <3> HIDE DEF W
    <3>1. QED
      BY <1>3, <1>5, MutateFacts
  <2>3. QED
    BY <1>1, <1>2, <1>4, <2>1, <2>2
<1>6. CASE answer # "done"
  <2>1. ~DryRun /\ faults' \in 0..MaxFaults /\ faults' >= faults /\ faults' > 0
    <3> HIDE DEF W
    <3>1. ~DryRun /\ faults' \in 0..MaxFaults /\ faults' >= faults
      BY <1>3, <1>6, MutateFacts
    <3>2. faults' > 0
      BY <1>3, <1>6, MutateFacts
    <3>3. QED
      BY <3>1, <3>2
  <2>2. UNCHANGED <<nets, zones>> \/ W
    BY <1>3, <2>1 DEF Mutate
  <2>3. QED
    BY <1>1, <1>2, <1>3, <1>4, <1>6, <2>1, <2>2 DEF Failed
<1>7. QED
  BY <1>5, <1>6

Passed(n) ==
  /\ todo' = todo \ {n} /\ pc' = pc /\ read' = read /\ known' = known /\ members' = members
  /\ created' = created /\ placed' = placed

LEMMA UpdateNetworkCases ==
  ASSUME Inv, NEW n \in Nets, UpdateNetwork(n)
  PROVE  /\ pc = "networks" /\ n \in todo /\ n \in Old /\ n \in DeclaredNets /\ Frame
         /\ start.nets[n].conf # doc.nets[n]
         /\ lines' = lines \cup {<<"UPDATE", n>>} /\ updates' = updates
         /\ pass = "write" => n \in LiveNets
         /\ \/ Dry /\ Passed(n)
            \/ /\ ~DryRun /\ PutNetwork(n, doc.nets[n], nets[n].zone) /\ zones' = zones
               /\ faults' = faults /\ Passed(n)
            \/ /\ Failed /\ faults' > 0
               /\ \/ UNCHANGED <<nets, zones>>
                  \/ PutNetwork(n, doc.nets[n], nets[n].zone) /\ zones' = zones
<1> DEFINE W == PutNetwork(n, doc.nets[n], ZoneSent(n)) /\ UNCHANGED zones
<1>1. /\ pc = "networks" /\ n \in todo /\ n \in ReadNets /\ Frame /\ read[n].conf # doc.nets[n]
      /\ lines' = lines \cup {<<"UPDATE", n>>} /\ updates' = updates
  BY DEF UpdateNetwork, Frame
<1>2. n \in Old /\ start.nets[n].conf # doc.nets[n] /\ n \in DeclaredNets
  BY <1>1, NetworksCourse
<1>3. PICK answer \in Answers :
        /\ Mutate(n \in LiveNets, W, answer)
        /\ IF answer = "done" THEN todo' = todo \ {n} /\ UNCHANGED <<pc, reading, placing>>
           ELSE End("failed")
  BY DEF UpdateNetwork
<1>4. pass = "write" => n \in LiveNets
  BY <1>1, <1>2, NetworksWritten
<1>5. pass = "write" => ZoneSent(n) = nets[n].zone
  <2> SUFFICES ASSUME pass = "write" PROVE ZoneSent(n) = nets[n].zone
    OBVIOUS
  <2>1. /\ n \in placed => nets[n].zone = DeclaredZone(n)
        /\ n \notin placed => nets[n].zone = start.nets[n].zone
    BY <1>1, <1>2, <1>4, NetworksWritten
  <2>2. read = start.nets /\ (n \in placed => zbf)
    BY <1>1, NetworksCourse
  <2>3. QED
    BY <1>1, <2>1, <2>2 DEF ZoneSent, HasHome
<1>6. pass = "plan" \/ pass = "write"
  BY DEF Inv, TypeOK
<1>7. W /\ pass = "write" => PutNetwork(n, doc.nets[n], nets[n].zone) /\ zones' = zones
  BY <1>5
<1>8. CASE answer = "done"
  <2>1. Passed(n)
    BY <1>3, <1>8 DEF Passed, reading, placing
  <2>2. Dry \/ (~DryRun /\ W /\ faults' = faults)
    <3> HIDE DEF W
    <3>1. QED
      BY <1>3, <1>8, MutateFacts
  <2>3. QED
    BY <1>1, <1>2, <1>4, <1>6, <1>7, <2>1, <2>2
<1>9. CASE answer # "done"
  <2>1. ~DryRun /\ faults' \in 0..MaxFaults /\ faults' >= faults /\ faults' > 0
    <3> HIDE DEF W
    <3>1. ~DryRun /\ faults' \in 0..MaxFaults /\ faults' >= faults
      BY <1>3, <1>9, MutateFacts
    <3>2. n \in LiveNets
      BY <3>1, <1>4, <1>6
    <3>3. faults' > 0
      BY <1>3, <1>9, <3>2, MutateFacts
    <3>4. QED
      BY <3>1, <3>3
  <2>2. UNCHANGED <<nets, zones>> \/ W
    BY <1>3, <2>1 DEF Mutate
  <2>3. QED
    BY <1>1, <1>2, <1>3, <1>4, <1>6, <1>7, <1>9, <2>1, <2>2 DEF Failed
<1>10. QED
  BY <1>8, <1>9

LEMMA DeleteNetworkCases ==
  ASSUME Inv, NEW n \in Nets, DeleteNetwork(n)
  PROVE  /\ pc = "pruneNets" /\ n \in todo /\ n \in PrunedNets /\ Frame
         /\ lines' = lines \cup {<<"DELETE", n>>} /\ updates' = updates
         /\ pass = "write" => n \in LiveNets
         /\ \/ Dry /\ Passed(n)
            \/ /\ ~DryRun /\ DropNetwork(n) /\ zones' = zones
               /\ faults' = faults /\ Passed(n)
            \/ /\ Failed /\ faults' > 0
               /\ UNCHANGED <<nets, zones>> \/ (DropNetwork(n) /\ zones' = zones)
<1> DEFINE W == DropNetwork(n) /\ UNCHANGED zones
<1>1. /\ pc = "pruneNets" /\ n \in todo /\ Frame
      /\ lines' = lines \cup {<<"DELETE", n>>} /\ updates' = updates
  BY DEF DeleteNetwork, Frame
<1>2. ToDrop = todo /\ ToWrite = {} /\ todo \subseteq PrunedNets
  BY <1>1 DEF Inv, Course, ToDrop, ToWrite, Beginning
<1>3. PICK answer \in Answers :
        /\ Mutate(n \in LiveNets, W, answer)
        /\ IF answer = "done" THEN todo' = todo \ {n} /\ UNCHANGED <<pc, reading, placing>>
           ELSE End("failed")
  BY DEF DeleteNetwork
<1>4. pass = "write" => n \in LiveNets
  BY <1>1, <1>2, TaskTypes DEF Inv, Effects
<1>6. pass = "plan" \/ pass = "write"
  BY DEF Inv, TypeOK
<1>8. CASE answer = "done"
  <2>1. Passed(n)
    BY <1>3, <1>8 DEF Passed, reading, placing
  <2>2. Dry \/ (~DryRun /\ W /\ faults' = faults)
    <3> HIDE DEF W
    <3>1. QED
      BY <1>3, <1>8, MutateFacts
  <2>3. QED
    BY <1>1, <1>2, <1>4, <1>6, <2>1, <2>2
<1>9. CASE answer # "done"
  <2>1. ~DryRun /\ faults' \in 0..MaxFaults /\ faults' >= faults /\ faults' > 0
    <3> HIDE DEF W
    <3>1. ~DryRun /\ faults' \in 0..MaxFaults /\ faults' >= faults
      BY <1>3, <1>9, MutateFacts
    <3>2. n \in LiveNets
      BY <3>1, <1>4, <1>6
    <3>3. faults' > 0
      BY <1>3, <1>9, <3>2, MutateFacts
    <3>4. QED
      BY <3>1, <3>3
  <2>2. UNCHANGED <<nets, zones>> \/ W
    BY <1>3, <2>1 DEF Mutate
  <2>3. QED
    BY <1>1, <1>2, <1>3, <1>4, <1>6, <1>9, <2>1, <2>2 DEF Failed
<1>10. QED
  BY <1>8, <1>9

\* The console is as it was after a step of a dry run.
LEMMA DryKeeps ==
  ASSUME Inv, Dry, Frame
  PROVE  /\ nets' \in [Nets -> {Absent} \cup Network] /\ zones' \subseteq Zones /\ Housed'
         /\ pass' # "write" /\ UNCHANGED <<nets, zones, faults>>
<1>1. UNCHANGED <<nets, zones, start, pass, faults>> /\ pass = "plan"
  BY DEF Dry, Frame
<1>2. LiveNets' = LiveNets /\ Old' = Old
  BY <1>1 DEF LiveNets, Old
<1>3. QED
  BY <1>1, <1>2, TaskTypes DEF Inv, Housed

LEMMA InvCreateNetwork == ASSUME Inv, NEW n \in Nets, CreateNetwork(n) PROVE Inv'
<1> DEFINE W == PutNetwork(n, doc.nets[n], Birthplace(n)) /\ zones' = zones
<1>1. /\ pc = "networks" /\ n \in todo /\ n \in New /\ Frame
      /\ lines' = lines \cup {<<"CREATE", n>>} /\ updates' = updates
  BY CreateNetworkCases
<1>2. lines' \subseteq Line /\ updates' \in Nat
  BY <1>1, LineTypes DEF Inv, TypeOK
<1>3. UNCHANGED <<zbf, doc, pass, planned, start>>
  BY <1>1 DEF Frame
<1>4. ASSUME pass = "write", W
      PROVE  /\ nets' \in [Nets -> {Absent} \cup Network] /\ zones' \subseteq Zones
             /\ LiveNets' = LiveNets \cup {n} /\ Housed'
             /\ nets'[n].conf = doc.nets[n] /\ nets'[n].zone = Birthplace(n)
             /\ \A m \in LiveNets \ {n} : nets'[m] = nets[m]
  <2>1. doc.nets[n] \in Confs
    BY <1>1, TaskTypes DEF New
  <2>2. Birthplace(n) \in (zones \cap Zones) \cup {NoZone}
    <3>1. zones = start.zones \cup NewZones
      BY <1>1, <1>4, NetworksWritten
    <3>2. DeclaredZone(n) \in DeclaredZones \cup {NoZone}
      BY DeclaredZoneFacts DEF Inv
    <3>3. QED
      BY <3>1, <3>2, TaskTypes DEF Birthplace, NewZones
  <2>3. QED
    BY <1>3, <1>4, <2>1, <2>2, PutNetworkFacts, TaskTypes
<1>5. pass = "plan" \/ pass = "write"
  BY DEF Inv, TypeOK
<1>6. CASE Failed /\ (UNCHANGED <<nets, zones>> \/ W)
  BY <1>1, <1>2, <1>4, <1>5, <1>6, InvFailed DEF Failed
<1>7. ASSUME NetworkCreated(n), faults' = faults, Dry \/ (~DryRun /\ W)
      PROVE  Inv'
  <2>1. /\ ToCreate' = {} /\ ToWrite' = todo \ {n} /\ ToDrop' = PrunedNets
        /\ ToSettle' = ToSettle /\ ToRemove' = PrunedZones
    BY <1>1, <1>3, <1>7, TaskKept
       DEF NetworkCreated, ToCreate, ToWrite, ToDrop, ToSettle, ToRemove, Beginning
  <2>2. /\ placed' = IF zbf THEN placed \cup {n} ELSE placed
        /\ known' = known \cup {n} /\ todo' = todo \ {n}
        /\ pc' = pc /\ read' = read /\ members' = members /\ created' = created
    BY <1>7 DEF NetworkCreated
  <2>3. Joined(created)' = Joined(created)
    BY <1>3, <2>2, TaskKept DEF Joined
  <2>4. n \in DeclaredNets
    BY <1>1 DEF New
  <2>5. Course'
    <3>1. /\ read' = start'.nets /\ known' = Old' \cup (DeclaredNets' \ ToWrite')
          /\ created' = NewZones' \ ToCreate'
          /\ placed' = IF zbf' THEN Joined(created)' \cup (New' \ ToWrite') ELSE {}
      BY <1>1, <1>3, <2>1, <2>2, <2>3, <2>4, NetworksCourse, TaskKept
    <3>2. /\ ToCreate' \subseteq NewZones'
          /\ ToWrite' \subseteq DeclaredNets' /\ ToDrop' \subseteq PrunedNets'
          /\ ToSettle' \subseteq DeclaredZones' /\ ToRemove' \subseteq PrunedZones'
          /\ zbf' => \A m \in New' : DeclaredZone(m)' # NoZone
      BY <1>1, <1>3, <2>1, NetworksCourse, TaskKept DEF Inv, Course, Beginning
    <3>3. QED
      BY <1>1, <2>2, <3>1, <3>2 DEF Course, Beginning
  <2>6. /\ nets' \in [Nets -> {Absent} \cup Network] /\ zones' \subseteq Zones /\ Housed'
        /\ pass = "plan" => UNCHANGED <<nets, zones>>
    BY <1>1, <1>4, <1>5, <1>7, DryKeeps
  <2>7. Effects'
    <3> SUFFICES ASSUME pass = "write" PROVE Effects'
      BY <1>3 DEF Effects
    <3>1. W
      BY <1>7 DEF Dry
    <3>2. LiveNets' = Old \cup (DeclaredNets \ (todo \ {n}))
      BY <1>1, <1>4, <2>4, <3>1, NetworksWritten
    <3>3. ASSUME NEW m \in LiveNets'
          PROVE  /\ nets'[m].conf = IF m \in DeclaredNets \ (todo \ {n}) THEN doc.nets[m]
                                    ELSE start.nets[m].conf
                 /\ m \in placed' => nets'[m].zone = DeclaredZone(m)
                 /\ m \in Old \ placed' => nets'[m].zone = start.nets[m].zone
      <4>1. CASE m = n
        <5>1. n \notin Old
          BY <1>1 DEF New
        <5>2. n \in placed' => zbf
          BY <1>1, <2>2, NetworksCourse
        <5>3. QED
          BY <1>4, <2>4, <3>1, <4>1, <5>1, <5>2 DEF Birthplace
      <4>2. CASE m # n
        BY <1>1, <1>4, <2>2, <3>1, <3>3, <4>2, NetworksWritten
      <4>3. QED
        BY <4>1, <4>2
    <3>4. zones' = (start.zones \cup (NewZones \ {})) \ (PrunedZones \ PrunedZones)
      BY <1>1, <3>1, NetworksWritten
    <3>5. LiveNets' = (Old \cup (DeclaredNets \ (todo \ {n}))) \ (PrunedNets \ PrunedNets)
      BY <3>2
    <3>6. QED
      BY <1>1, <1>3, <2>1, <2>2, <3>3, <3>4, <3>5, TaskKept DEF Effects
  <2>8. known' \subseteq Nets /\ created' \subseteq Zones /\ placed' \subseteq known'
        /\ todo' \subseteq Nets \cup Zones
    BY <2>2 DEF Inv, TypeOK
  <2>9. QED
    BY <1>1, <1>2, <1>7, <2>2, <2>5, <2>6, <2>7, <2>8, InvGoesOn DEF Beginning
<1>8. QED
  BY <1>6, <1>7, CreateNetworkCases DEF Dry

LEMMA InvUpdateNetwork == ASSUME Inv, NEW n \in Nets, UpdateNetwork(n) PROVE Inv'
<1> DEFINE W == PutNetwork(n, doc.nets[n], nets[n].zone) /\ zones' = zones
<1>1. /\ pc = "networks" /\ n \in todo /\ n \in Old /\ n \in DeclaredNets /\ Frame
      /\ lines' = lines \cup {<<"UPDATE", n>>} /\ updates' = updates
      /\ pass = "write" => n \in LiveNets
  BY UpdateNetworkCases
<1>2. lines' \subseteq Line /\ updates' \in Nat
  BY <1>1, LineTypes DEF Inv, TypeOK
<1>3. UNCHANGED <<zbf, doc, pass, planned, start>>
  BY <1>1 DEF Frame
<1>4. ASSUME pass = "write", W
      PROVE  /\ nets' \in [Nets -> {Absent} \cup Network] /\ zones' \subseteq Zones
             /\ LiveNets' = LiveNets /\ Housed'
             /\ nets'[n].conf = doc.nets[n] /\ nets'[n].zone = nets[n].zone
             /\ \A m \in LiveNets \ {n} : nets'[m] = nets[m]
  <2>1. doc.nets[n] \in Confs
    BY <1>1, TaskTypes
  <2>2. nets[n].zone \in (zones \cap Zones) \cup {NoZone}
    BY <1>1, <1>4, TaskTypes DEF Inv, Housed
  <2>3. QED
    BY <1>1, <1>3, <1>4, <2>1, <2>2, PutNetworkFacts, TaskTypes, SMTT(40)
<1>5. pass = "plan" \/ pass = "write"
  BY DEF Inv, TypeOK
<1>6. CASE Failed /\ (UNCHANGED <<nets, zones>> \/ W)
  BY <1>1, <1>2, <1>4, <1>5, <1>6, InvFailed DEF Failed
<1>7. ASSUME Passed(n), faults' = faults, Dry \/ (~DryRun /\ W)
      PROVE  Inv'
  <2>1. /\ ToCreate' = {} /\ ToWrite' = todo \ {n} /\ ToDrop' = PrunedNets
        /\ ToSettle' = ToSettle /\ ToRemove' = PrunedZones
    BY <1>1, <1>3, <1>7, TaskKept
       DEF Passed, ToCreate, ToWrite, ToDrop, ToSettle, ToRemove, Beginning
  <2>2. /\ todo' = todo \ {n} /\ pc' = pc /\ read' = read /\ known' = known /\ members' = members
        /\ created' = created /\ placed' = placed
    BY <1>7 DEF Passed
  <2>3. Joined(created)' = Joined(created)
    BY <1>3, <2>2, TaskKept DEF Joined
  <2>5. Course'
    <3>1. /\ read' = start'.nets /\ known' = Old' \cup (DeclaredNets' \ ToWrite')
          /\ created' = NewZones' \ ToCreate'
          /\ placed' = IF zbf' THEN Joined(created)' \cup (New' \ ToWrite') ELSE {}
      BY <1>1, <1>3, <2>1, <2>2, <2>3, NetworksCourse, TaskKept DEF New
    <3>2. /\ ToCreate' \subseteq NewZones'
          /\ ToWrite' \subseteq DeclaredNets' /\ ToDrop' \subseteq PrunedNets'
          /\ ToSettle' \subseteq DeclaredZones' /\ ToRemove' \subseteq PrunedZones'
          /\ zbf' => \A m \in New' : DeclaredZone(m)' # NoZone
      BY <1>1, <1>3, <2>1, NetworksCourse, TaskKept DEF Inv, Course, Beginning
    <3>3. QED
      BY <1>1, <2>2, <3>1, <3>2 DEF Course, Beginning
  <2>6. /\ nets' \in [Nets -> {Absent} \cup Network] /\ zones' \subseteq Zones /\ Housed'
        /\ pass = "plan" => UNCHANGED <<nets, zones>>
    BY <1>1, <1>4, <1>5, <1>7, DryKeeps
  <2>7. Effects'
    <3> SUFFICES ASSUME pass = "write" PROVE Effects'
      BY <1>3 DEF Effects
    <3>1. W
      BY <1>7 DEF Dry
    <3>2. LiveNets' = Old \cup (DeclaredNets \ (todo \ {n}))
      BY <1>1, <1>4, <3>1, NetworksWritten
    <3>3. ASSUME NEW m \in LiveNets'
          PROVE  /\ nets'[m].conf = IF m \in DeclaredNets \ (todo \ {n}) THEN doc.nets[m]
                                    ELSE start.nets[m].conf
                 /\ m \in placed' => nets'[m].zone = DeclaredZone(m)
                 /\ m \in Old \ placed' => nets'[m].zone = start.nets[m].zone
      BY <1>1, <1>4, <2>2, <3>1, <3>3, NetworksWritten
    <3>4. zones' = (start.zones \cup (NewZones \ {})) \ (PrunedZones \ PrunedZones)
      BY <1>1, <3>1, NetworksWritten
    <3>5. LiveNets' = (Old \cup (DeclaredNets \ (todo \ {n}))) \ (PrunedNets \ PrunedNets)
      BY <3>2
    <3>6. QED
      BY <1>1, <1>3, <2>1, <2>2, <3>3, <3>4, <3>5, TaskKept DEF Effects
  <2>8. known' \subseteq Nets /\ created' \subseteq Zones /\ placed' \subseteq known'
        /\ todo' \subseteq Nets \cup Zones
    BY <2>2 DEF Inv, TypeOK
  <2>9. QED
    BY <1>1, <1>2, <1>7, <2>2, <2>5, <2>6, <2>7, <2>8, InvGoesOn DEF Beginning
<1>8. QED
  BY <1>6, <1>7, UpdateNetworkCases DEF Dry

LEMMA InvDeleteNetwork == ASSUME Inv, NEW n \in Nets, DeleteNetwork(n) PROVE Inv'
<1> DEFINE W == DropNetwork(n) /\ zones' = zones
<1>1. /\ pc = "pruneNets" /\ n \in todo /\ n \in PrunedNets /\ Frame
      /\ lines' = lines \cup {<<"DELETE", n>>} /\ updates' = updates
  BY DeleteNetworkCases
<1>2. lines' \subseteq Line /\ updates' \in Nat
  BY <1>1, LineTypes DEF Inv, TypeOK
<1>3. UNCHANGED <<zbf, doc, pass, planned, start>>
  BY <1>1 DEF Frame
<1>4. ASSUME W
      PROVE  /\ nets' \in [Nets -> {Absent} \cup Network] /\ zones' \subseteq Zones
             /\ LiveNets' = LiveNets \ {n} /\ Housed'
             /\ \A m \in LiveNets \ {n} : nets'[m] = nets[m]
  BY <1>3, <1>4, DropNetworkFacts, TaskTypes
<1>6. CASE Failed /\ (UNCHANGED <<nets, zones>> \/ W)
  BY <1>1, <1>2, <1>4, <1>6, InvFailed
<1>7. ASSUME Passed(n), faults' = faults, Dry \/ (~DryRun /\ W)
      PROVE  Inv'
  <2>1. /\ ToCreate' = {} /\ ToWrite' = {} /\ ToDrop' = todo \ {n}
        /\ ToSettle' = ToSettle /\ ToRemove' = PrunedZones
        /\ ToCreate = {} /\ ToWrite = {} /\ ToDrop = todo /\ ToRemove = PrunedZones
    BY <1>1, <1>3, <1>7, TaskKept
       DEF Passed, ToCreate, ToWrite, ToDrop, ToSettle, ToRemove, Beginning
  <2>2. /\ todo' = todo \ {n} /\ pc' = pc /\ read' = read /\ known' = known /\ members' = members
        /\ created' = created /\ placed' = placed
    BY <1>7 DEF Passed
  <2>3. Joined(created)' = Joined(created)
    BY <1>3, <2>2, TaskKept DEF Joined
  <2>5. Course'
    BY <1>1, <1>3, <2>1, <2>2, <2>3, TaskKept DEF Inv, Course, Beginning
  <2>6. /\ nets' \in [Nets -> {Absent} \cup Network] /\ zones' \subseteq Zones /\ Housed'
        /\ pass = "plan" => UNCHANGED <<nets, zones>>
    BY <1>1, <1>4, <1>7, DryKeeps
  <2>7. Effects'
    <3> SUFFICES ASSUME pass = "write" PROVE Effects'
      BY <1>3 DEF Effects
    <3>1. W
      BY <1>7 DEF Dry
    <3>2. /\ zones = (start.zones \cup (NewZones \ {})) \ (PrunedZones \ PrunedZones)
          /\ LiveNets = (Old \cup (DeclaredNets \ {})) \ (PrunedNets \ todo)
          /\ \A m \in LiveNets :
               /\ nets[m].conf = IF m \in DeclaredNets \ {} THEN doc.nets[m] ELSE start.nets[m].conf
               /\ m \in placed => nets[m].zone = DeclaredZone(m)
               /\ m \in Old \ placed => nets[m].zone = start.nets[m].zone
      BY <1>1, <2>1 DEF Inv, Effects
    <3>3. LiveNets' = (Old \cup (DeclaredNets \ {})) \ (PrunedNets \ (todo \ {n}))
      BY <1>1, <1>4, <3>1, <3>2
    <3>4. \A m \in LiveNets' : m \in LiveNets /\ nets'[m] = nets[m]
      BY <1>4, <3>1
    <3>5. QED
      BY <1>1, <1>3, <2>1, <2>2, <3>1, <3>2, <3>3, <3>4, TaskKept DEF Effects
  <2>8. known' \subseteq Nets /\ created' \subseteq Zones /\ placed' \subseteq known'
        /\ todo' \subseteq Nets \cup Zones
    BY <2>2 DEF Inv, TypeOK
  <2>9. QED
    BY <1>1, <1>2, <1>7, <2>2, <2>5, <2>6, <2>7, <2>8, InvGoesOn DEF Beginning
<1>8. QED
  BY <1>6, <1>7, DeleteNetworkCases DEF Dry

LEMMA UpdateZoneCases ==
  ASSUME Inv, NEW z \in Zones, UpdateZone(z)
  PROVE  /\ pc = "zones" /\ z \in todo /\ z \in DeclaredZones /\ Frame
         /\ ~ZoneFault(z) /\ z \in ReadZones /\ ~SameMembers(z)
         /\ lines' = lines \cup {<<"UPDATE", z>>} /\ updates' = updates
         /\ \/ Dry /\ Passed(z)
            \/ /\ ~DryRun /\ z \in zones /\ doc.zones[z] \subseteq LiveNets /\ PutZone(z, doc.zones[z])
               /\ faults' = faults /\ Passed(z)
            \/ /\ Failed /\ (z \in zones /\ doc.zones[z] \subseteq LiveNets => faults' > 0)
               /\ \/ UNCHANGED <<nets, zones>>
                  \/ z \in zones /\ doc.zones[z] \subseteq LiveNets /\ PutZone(z, doc.zones[z])
<1>1. /\ pc = "zones" /\ z \in todo /\ Frame
      /\ ~ZoneFault(z) /\ z \in ReadZones /\ ~SameMembers(z)
      /\ lines' = lines \cup {<<"UPDATE", z>>} /\ updates' = updates
  BY DEF UpdateZone, Frame
<1>2. z \in DeclaredZones
  BY <1>1 DEF Inv, Course, ToSettle, Beginning
<1>3. PICK answer \in Answers :
        /\ Mutate(z \in zones /\ doc.zones[z] \subseteq LiveNets, PutZone(z, doc.zones[z]), answer)
        /\ IF answer = "done" THEN todo' = todo \ {z} /\ UNCHANGED <<pc, reading, placing>>
           ELSE End("failed")
  BY DEF UpdateZone
<1> DEFINE Acceptable == z \in zones /\ doc.zones[z] \subseteq LiveNets
<1>4. Mutate(Acceptable, PutZone(z, doc.zones[z]), answer)
  BY <1>3
<1>5. Acceptable \in BOOLEAN
  OBVIOUS
<1>8. CASE answer = "done"
  <2>1. Passed(z)
    BY <1>3, <1>8 DEF Passed, reading, placing
  <2>2. Dry \/ (~DryRun /\ Acceptable /\ PutZone(z, doc.zones[z]) /\ faults' = faults)
    <3> HIDE DEF Acceptable
    <3>1. QED
      BY <1>4, <1>8, MutateFacts
  <2>3. QED
    BY <1>1, <1>2, <2>1, <2>2
<1>9. CASE answer # "done"
  <2>1. ~DryRun /\ faults' \in 0..MaxFaults /\ faults' >= faults /\ (Acceptable => faults' > 0)
    <3> HIDE DEF Acceptable
    <3>1. ~DryRun /\ faults' \in 0..MaxFaults /\ faults' >= faults
      BY <1>4, <1>9, MutateFacts
    <3>2. Acceptable => faults' > 0
      BY <1>4, <1>9, MutateFacts
    <3>3. QED
      BY <3>1, <3>2
  <2>2. UNCHANGED <<nets, zones>> \/ (Acceptable /\ PutZone(z, doc.zones[z]))
    <3> HIDE DEF Acceptable
    <3>1. QED
      BY <1>4, <2>1, <1>9 DEF Mutate
  <2>3. Failed
    BY <1>3, <1>9, <2>1 DEF Failed
  <2>4. QED
    BY <1>1, <1>2, <2>1, <2>2, <2>3
<1>10. QED
  BY <1>8, <1>9

LEMMA DeleteZoneCases ==
  ASSUME Inv, NEW z \in Zones, DeleteZone(z)
  PROVE  /\ pc = "pruneZones" /\ z \in todo /\ z \in PrunedZones /\ Frame
         /\ lines' = lines \cup {<<"DELETE", z>>} /\ updates' = updates
         /\ \/ Dry /\ Passed(z)
            \/ ~DryRun /\ DropZone(z) /\ faults' = faults /\ Passed(z)
            \/ Failed /\ faults' > 0 /\ (UNCHANGED <<nets, zones>> \/ DropZone(z))
<1>1. /\ pc = "pruneZones" /\ z \in todo /\ Frame
      /\ lines' = lines \cup {<<"DELETE", z>>} /\ updates' = updates
  BY DEF DeleteZone, Frame
<1>2. ToRemove = todo /\ todo \subseteq PrunedZones
  BY <1>1 DEF Inv, Course, ToRemove, Beginning
<1>3. PICK answer \in Answers :
        /\ Mutate(z \in zones, DropZone(z), answer)
        /\ IF answer = "done" THEN todo' = todo \ {z} /\ UNCHANGED <<pc, reading, placing>>
           ELSE End("failed")
  BY DEF DeleteZone
<1>4. pass = "write" => z \in zones
  BY <1>1, <1>2, TaskTypes DEF Inv, Effects
<1>6. pass = "plan" \/ pass = "write"
  BY DEF Inv, TypeOK
<1>8. CASE answer = "done"
  <2>1. Passed(z)
    BY <1>3, <1>8 DEF Passed, reading, placing
  <2>2. Dry \/ (~DryRun /\ DropZone(z) /\ faults' = faults)
    BY <1>3, <1>8, MutateFacts
  <2>3. QED
    BY <1>1, <1>2, <2>1, <2>2
<1>9. CASE answer # "done"
  <2>1. ~DryRun /\ faults' \in 0..MaxFaults /\ faults' >= faults
    BY <1>3, <1>9, MutateFacts
  <2>2. z \in zones
    BY <2>1, <1>4, <1>6
  <2>3. faults' > 0
    BY <1>3, <1>9, <2>2, MutateFacts
  <2>4. UNCHANGED <<nets, zones>> \/ DropZone(z)
    BY <1>3, <2>1 DEF Mutate
  <2>5. Failed
    BY <1>3, <1>9, <2>1 DEF Failed
  <2>6. QED
    BY <1>1, <1>2, <2>3, <2>4, <2>5
<1>10. QED
  BY <1>8, <1>9

\* What has been done to the console once the zones are read again.
LEMMA ZonesWritten ==
  ASSUME Inv, pc \in {"zones", "pruneZones"}, pass = "write"
  PROVE  /\ zones = (start.zones \cup NewZones) \ (PrunedZones \ ToRemove)
         /\ LiveNets = (Old \cup DeclaredNets) \ PrunedNets
         /\ \A n \in LiveNets :
              /\ nets[n].conf = IF n \in DeclaredNets THEN doc.nets[n] ELSE start.nets[n].conf
              /\ n \in placed => nets[n].zone = DeclaredZone(n)
<1>1. ToCreate = {} /\ ToWrite = {} /\ ToDrop = {}
  BY DEF ToCreate, ToWrite, ToDrop, Beginning
<1>2. QED
  BY <1>1 DEF Inv, Effects

\* Writing a zone as declared leaves placed networks where they are.
LEMMA PlacedStays ==
  ASSUME Inv, NEW z \in DeclaredZones, NEW n \in LiveNets, nets[n].zone = DeclaredZone(n)
  PROVE  (IF n \in doc.zones[z] THEN z
          ELSE IF nets[n].zone = z THEN NoZone ELSE nets[n].zone) = DeclaredZone(n)
<1>1. n \in Nets
  BY DEF LiveNets
<1>2. QED
  BY <1>1, DeclaredZoneFacts DEF Inv

\* What a pass knows at its zones stays.
LEMMA ZonesCourse ==
  ASSUME Inv, Frame, pc \in {"zones", "pruneZones"}, pc' = pc,
         UNCHANGED <<read, known, members, created, placed>>, todo' \subseteq todo
  PROVE  Course'
<1>1. UNCHANGED <<zbf, doc, pass, start>>
  BY DEF Frame
<1>2. /\ ToCreate' = {} /\ ToWrite' = {} /\ ToDrop' = {}
      /\ ToCreate = {} /\ ToWrite = {} /\ ToDrop = {}
      /\ ToSettle' \subseteq ToSettle /\ ToRemove' \subseteq ToRemove
  BY <1>1, TaskKept DEF ToCreate, ToWrite, ToDrop, ToSettle, ToRemove, Beginning
<1>3. Joined(created)' = Joined(created) /\ Relisted' = Relisted
  BY <1>1, TaskKept, RelistedKept DEF Joined
<1>4. /\ read = start.nets /\ known = Old \cup (DeclaredNets \ {}) /\ created = NewZones \ {} /\ zbf
      /\ placed = Joined(created) \cup (New \ {})
      /\ ToSettle \subseteq DeclaredZones /\ ToRemove \subseteq PrunedZones
      /\ members = IF DryRun THEN Listed ELSE Relisted
      /\ \A n \in New : DeclaredZone(n) # NoZone
  BY <1>2 DEF Inv, Course, Beginning
<1>5. QED
  BY <1>1, <1>2, <1>3, <1>4, TaskKept DEF Course, Beginning

LEMMA InvUpdateZone == ASSUME Inv, NEW z \in Zones, UpdateZone(z) PROVE Inv'
<1> DEFINE W == z \in zones /\ doc.zones[z] \subseteq LiveNets /\ PutZone(z, doc.zones[z])
<1>1. /\ pc = "zones" /\ z \in todo /\ z \in DeclaredZones /\ Frame
      /\ lines' = lines \cup {<<"UPDATE", z>>} /\ updates' = updates
  BY UpdateZoneCases
<1>2. lines' \subseteq Line /\ updates' \in Nat
  BY <1>1, LineTypes DEF Inv, TypeOK
<1>3. UNCHANGED <<zbf, doc, pass, planned, start>>
  BY <1>1 DEF Frame
<1>4. ASSUME W
      PROVE  /\ nets' \in [Nets -> {Absent} \cup Network] /\ zones' = zones /\ zones' \subseteq Zones
             /\ LiveNets' = LiveNets /\ Housed'
             /\ \A n \in LiveNets :
                  /\ nets'[n].conf = nets[n].conf
                  /\ nets'[n].zone = IF n \in doc.zones[z] THEN z
                                     ELSE IF nets[n].zone = z THEN NoZone ELSE nets[n].zone
  <2>1. doc.zones[z] \in SUBSET LiveNets
    BY <1>4
  <2>2. /\ nets' \in [Nets -> {Absent} \cup Network] /\ zones' = zones \cup {z}
        /\ LiveNets' = LiveNets /\ Housed' /\ zones' \subseteq Zones
        /\ \A n \in LiveNets :
             /\ nets'[n].conf = nets[n].conf
             /\ nets'[n].zone = IF n \in doc.zones[z] THEN z
                                ELSE IF nets[n].zone = z THEN NoZone ELSE nets[n].zone
    BY <1>3, <1>4, <2>1, PutZoneFacts
  <2>3. QED
    BY <1>4, <2>2
<1>6. CASE Failed /\ (UNCHANGED <<nets, zones>> \/ W)
  BY <1>1, <1>2, <1>4, <1>6, InvFailed
<1>7. ASSUME Passed(z), faults' = faults, Dry \/ (~DryRun /\ W)
      PROVE  Inv'
  <2>1. /\ ToCreate' = {} /\ ToWrite' = {} /\ ToDrop' = {} /\ ToRemove' = PrunedZones
        /\ ToRemove = PrunedZones
    BY <1>1, <1>3, <1>7, TaskKept DEF Passed, ToCreate, ToWrite, ToDrop, ToRemove, Beginning
  <2>2. /\ todo' = todo \ {z} /\ pc' = pc /\ read' = read /\ known' = known /\ members' = members
        /\ created' = created /\ placed' = placed
    BY <1>7 DEF Passed
  <2>5. Course'
    BY <1>1, <2>2, ZonesCourse
  <2>6. /\ nets' \in [Nets -> {Absent} \cup Network] /\ zones' \subseteq Zones /\ Housed'
        /\ pass = "plan" => UNCHANGED <<nets, zones>>
    BY <1>1, <1>4, <1>7, DryKeeps
  <2>7. Effects'
    <3> SUFFICES ASSUME pass = "write" PROVE Effects'
      BY <1>3 DEF Effects
    <3>1. W
      BY <1>7 DEF Dry
    <3>2. /\ zones' = (start.zones \cup (NewZones \ {})) \ (PrunedZones \ PrunedZones)
          /\ LiveNets' = (Old \cup (DeclaredNets \ {})) \ (PrunedNets \ {})
      BY <1>1, <1>4, <2>1, <3>1, ZonesWritten
    <3>3. ASSUME NEW m \in LiveNets'
          PROVE  /\ nets'[m].conf = IF m \in DeclaredNets \ {} THEN doc.nets[m]
                                    ELSE start.nets[m].conf
                 /\ m \in placed => nets'[m].zone = DeclaredZone(m)
      BY <1>1, <1>4, <3>1, <3>3, ZonesWritten, PlacedStays
    <3>4. QED
      BY <1>1, <1>3, <2>1, <2>2, <3>2, <3>3, TaskKept DEF Effects
  <2>8. known' \subseteq Nets /\ created' \subseteq Zones /\ placed' \subseteq known'
        /\ todo' \subseteq Nets \cup Zones
    BY <2>2 DEF Inv, TypeOK
  <2>9. QED
    BY <1>1, <1>2, <1>7, <2>2, <2>5, <2>6, <2>7, <2>8, InvGoesOn DEF Beginning
<1>8. QED
  BY <1>6, <1>7, UpdateZoneCases DEF Dry

LEMMA InvDeleteZone == ASSUME Inv, NEW z \in Zones, DeleteZone(z) PROVE Inv'
<1>1. /\ pc = "pruneZones" /\ z \in todo /\ z \in PrunedZones /\ Frame
      /\ lines' = lines \cup {<<"DELETE", z>>} /\ updates' = updates
  BY DeleteZoneCases
<1>2. lines' \subseteq Line /\ updates' \in Nat
  BY <1>1, LineTypes DEF Inv, TypeOK
<1>3. UNCHANGED <<zbf, doc, pass, planned, start>>
  BY <1>1 DEF Frame
<1>4. ASSUME DropZone(z)
      PROVE  /\ nets' \in [Nets -> {Absent} \cup Network] /\ zones' = zones \ {z} /\ zones' \subseteq Zones
             /\ LiveNets' = LiveNets /\ Housed'
             /\ \A n \in LiveNets :
                  /\ nets'[n].conf = nets[n].conf
                  /\ nets'[n].zone = IF nets[n].zone = z THEN NoZone ELSE nets[n].zone
  BY <1>3, <1>4, DropZoneFacts
<1>6. CASE Failed /\ (UNCHANGED <<nets, zones>> \/ DropZone(z))
  BY <1>1, <1>2, <1>4, <1>6, InvFailed
<1>7. ASSUME Passed(z), faults' = faults, Dry \/ (~DryRun /\ DropZone(z))
      PROVE  Inv'
  <2>1. /\ ToCreate' = {} /\ ToWrite' = {} /\ ToDrop' = {} /\ ToRemove' = todo \ {z}
        /\ ToRemove = todo
    BY <1>1, <1>3, <1>7, TaskKept DEF Passed, ToCreate, ToWrite, ToDrop, ToRemove, Beginning
  <2>2. /\ todo' = todo \ {z} /\ pc' = pc /\ read' = read /\ known' = known /\ members' = members
        /\ created' = created /\ placed' = placed
    BY <1>7 DEF Passed
  <2>5. Course'
    BY <1>1, <2>2, ZonesCourse
  <2>6. /\ nets' \in [Nets -> {Absent} \cup Network] /\ zones' \subseteq Zones /\ Housed'
        /\ pass = "plan" => UNCHANGED <<nets, zones>>
    BY <1>1, <1>4, <1>7, DryKeeps
  <2>7. Effects'
    <3> SUFFICES ASSUME pass = "write" PROVE Effects'
      BY <1>3 DEF Effects
    <3>1. DropZone(z)
      BY <1>7 DEF Dry
    <3>2. /\ zones' = (start.zones \cup (NewZones \ {})) \ (PrunedZones \ (todo \ {z}))
          /\ LiveNets' = (Old \cup (DeclaredNets \ {})) \ (PrunedNets \ {})
      BY <1>1, <1>4, <2>1, <3>1, ZonesWritten
    <3>3. ASSUME NEW m \in LiveNets'
          PROVE  /\ nets'[m].conf = IF m \in DeclaredNets \ {} THEN doc.nets[m]
                                    ELSE start.nets[m].conf
                 /\ m \in placed => nets'[m].zone = DeclaredZone(m)
      <4>1. m \in Nets /\ z \notin DeclaredZones /\ z # NoZone
        BY <1>1, <1>4, <3>1, <3>3, TaskTypes, NamesAssumption DEF LiveNets
      <4>2. DeclaredZone(m) # z
        BY <4>1, DeclaredZoneFacts DEF Inv
      <4>3. QED
        BY <1>1, <1>4, <3>1, <3>3, <4>2, ZonesWritten
    <3>4. QED
      BY <1>1, <1>3, <2>1, <2>2, <3>2, <3>3, TaskKept DEF Effects
  <2>8. known' \subseteq Nets /\ created' \subseteq Zones /\ placed' \subseteq known'
        /\ todo' \subseteq Nets \cup Zones
    BY <2>2 DEF Inv, TypeOK
  <2>9. QED
    BY <1>1, <1>2, <1>7, <2>2, <2>5, <2>6, <2>7, <2>8, InvGoesOn DEF Beginning
<1>8. QED
  BY <1>6, <1>7, DeleteZoneCases DEF Dry

-----------------------------------------------------------------------------
\* The steps that end a run before its time: a refusal, or a kill.
Halts == RefuseHomeless \/ Kill \/ \E z \in Zones : RefuseZone(z) \/ FailZone(z)

LEMMA InvHalts == ASSUME Inv, Halts PROVE Inv'
<1>1. faults' \in 0..MaxFaults
  BY BoundAssumption DEF Halts, RefuseHomeless, Kill, RefuseZone, FailZone, Inv, TypeOK
<1>2. \E how \in {"failed", "killed", "clean"} : End(how)
  BY DEF Halts, RefuseHomeless, Kill, RefuseZone, FailZone
<1>3. UNCHANGED <<console, doc, pass, lines, updates, start>> /\ planned' = planned
  BY DEF Halts, RefuseHomeless, Kill, RefuseZone, FailZone
<1>4. QED
  BY <1>1, <1>2, <1>3, InvHalt

\* Every step, by what it does.
LEMMA StepCases ==
  ASSUME [Next]_vars
  PROVE  \/ StartRun \/ ReadNetworks \/ ListForCreate \/ StartNetworks \/ PruneNetworks
         \/ ReadZonesAgain \/ PruneZones \/ FinishPlan \/ FinishWrite \/ Halts
         \/ \E n \in Nets : CreateNetwork(n) \/ NetworkOK(n) \/ UpdateNetwork(n) \/ DeleteNetwork(n)
         \/ \E z \in Zones : CreateZone(z) \/ ZoneOK(z) \/ UpdateZone(z) \/ DeleteZone(z)
         \/ UNCHANGED vars
BY DEF Next, RunStep, Halts

LEMMA InvStutter == ASSUME Inv, UNCHANGED vars PROVE Inv'
<1>1. UNCHANGED <<nets, zones, zbf, doc, pass, pc, read, known, members, created, placed, todo,
                  lines, updates, planned, start, faults>>
  BY DEF vars, console, reading, placing
<1>2. /\ ToCreate' = ToCreate /\ ToWrite' = ToWrite /\ ToDrop' = ToDrop
      /\ ToSettle' = ToSettle /\ ToRemove' = ToRemove /\ LiveNets' = LiveNets
      /\ Joined(created)' = Joined(created) /\ Relisted' = Relisted
  BY <1>1, TaskKept, RelistedKept
     DEF ToCreate, ToWrite, ToDrop, ToSettle, ToRemove, LiveNets, Joined
<1>3. TypeOK' /\ Housed' /\ Unwritten'
  BY <1>1, <1>2, TaskKept DEF Inv, TypeOK, Housed, Unwritten
<1>4. Course' /\ Effects'
  BY <1>1, <1>2, TaskKept DEF Inv, Course, Effects
<1>5. QED
  BY <1>1, <1>3, <1>4 DEF Inv

LEMMA NextInv == ASSUME Inv, [Next]_vars PROVE Inv'
BY StepCases, InvStartRun, InvReadNetworks, InvListForCreate, InvStartNetworks, InvPruneNetworks,
   InvReadZonesAgain, InvPruneZones, InvFinishPlan, InvFinishWrite, InvHalts, InvCreateNetwork,
   InvNetworkOK, InvUpdateNetwork, InvDeleteNetwork, InvCreateZone, InvZoneOK, InvUpdateZone,
   InvDeleteZone, InvStutter

LEMMA Invariance == Spec => []Inv
BY InitInv, NextInv, PTL DEF Spec

\* Every variable has its type, and a network put in a zone can be resolved.
THEOREM TypeCorrect == Spec => []TypeOK
<1>1. Inv => TypeOK
  BY DEF Inv
<1>2. QED
  BY <1>1, Invariance, PTL

-----------------------------------------------------------------------------
(***************************************************************************)
(* No network is stranded.                                                 *)
(***************************************************************************)

In(z) == {n \in LiveNets : nets[n].zone = z}

\* The declared zones a writing pass is through with hold what they declare;
\* of the others it has read a superset of what is in them, and no network they
\* declare has been taken out since.
Settling ==
  pass = "write" /\ zbf /\ pc \in {"zones", "pruneZones", "applied"} =>
    /\ \A z \in DeclaredZones \ ToSettle : In(z) = doc.zones[z] \cap LiveNets
    /\ pc = "zones" => \A z \in ToSettle : /\ In(z) \subseteq members[z]
                                           /\ members[z] \cap doc.zones[z] \subseteq In(z)

\* A step that leaves the console, and what is settled, alone.
LEMMA SettlingKept ==
  ASSUME Settling, UNCHANGED <<nets, zbf, doc, pass, start>>, ToSettle' = ToSettle,
         pc \in {"zones", "pruneZones", "applied"},
         pc' = "zones" => pc = "zones" /\ members' = members
  PROVE  Settling'
<1>1. DeclaredZones' = DeclaredZones /\ LiveNets' = LiveNets
  BY DEF DeclaredZones, LiveNets
<1>2. \A z : In(z)' = In(z)
  BY <1>1 DEF In
<1>3. QED
  BY <1>1, <1>2 DEF Settling

LEMMA SettlingReadZonesAgain == ASSUME Inv, ReadZonesAgain, pc' = "zones" PROVE Settling'
<1>1. /\ UNCHANGED <<nets, zones, zbf, doc, pass, start>> /\ pc = "pruneNets" /\ todo = {}
      /\ members' = ListZones /\ todo' = DeclaredZones /\ zbf
  BY DEF ReadZonesAgain, console
<1>2. DeclaredZones' = DeclaredZones /\ LiveNets' = LiveNets /\ ToSettle' = DeclaredZones
  BY <1>1, TaskKept DEF LiveNets, ToSettle, Beginning
<1>3. \A z : In(z)' = In(z)
  BY <1>1, <1>2 DEF In
<1>4. ASSUME pass = "write", NEW z \in DeclaredZones
      PROVE  members'[z] = In(z)
  <2>1. ToCreate = {} /\ ToRemove = PrunedZones
    BY <1>1 DEF ToCreate, ToRemove, Beginning
  <2>2. zones = start.zones \cup NewZones
    BY <1>1, <1>4, <2>1 DEF Inv, Effects
  <2>3. z \in zones /\ z \in Zones
    BY <1>1, <2>2, TaskTypes DEF NewZones
  <2>4. QED
    BY <1>1, <2>3, ListZonesTyped DEF In
<1>5. QED
  BY <1>1, <1>2, <1>3, <1>4 DEF Settling

LEMMA SettlingZoneOK ==
  ASSUME Inv, Settling, NEW z \in Zones, ZoneOK(z)
  PROVE  Settling'
<1>1. /\ UNCHANGED <<nets, zones, zbf, doc, pass, start, members>> /\ pc = "zones" /\ pc' = "zones"
      /\ z \in todo /\ todo' = todo \ {z} /\ (z \in ReadZones => SameMembers(z))
  BY DEF ZoneOK, console, reading
<1>2. /\ DeclaredZones' = DeclaredZones /\ LiveNets' = LiveNets /\ ToSettle = todo
      /\ ToSettle' = todo \ {z} /\ todo \subseteq DeclaredZones
  BY <1>1, TaskKept DEF LiveNets, ToSettle, Beginning, Inv, Course
<1>3. \A y : In(y)' = In(y)
  BY <1>1, <1>2 DEF In
<1>4. ASSUME pass = "write", zbf
      PROVE  In(z) = doc.zones[z] \cap LiveNets
  <2>1. z \in DeclaredZones /\ z \in ReadZones
    BY <1>1, <1>2, <1>4, ReadZonesFacts, TaskTypes DEF NewZones
  <2>2. members[z] \ placed = doc.zones[z] \ placed
    BY <1>1, <2>1 DEF SameMembers
  <2>3. In(z) \subseteq members[z] /\ members[z] \cap doc.zones[z] \subseteq In(z)
    BY <1>1, <1>2, <1>4 DEF Settling
  <2>4. ASSUME NEW n \in LiveNets
        PROVE  n \in In(z) <=> n \in doc.zones[z]
    <3>1. CASE n \in placed
      <4>1. nets[n].zone = DeclaredZone(n) /\ n \in Nets
        BY <1>1, <1>4, <3>1, ZonesWritten DEF LiveNets
      <4>2. QED
        BY <2>1, <4>1, DeclaredZoneFacts DEF In, Inv
    <3>2. CASE n \notin placed
      BY <2>2, <2>3, <3>2
    <3>3. QED
      BY <3>1, <3>2
  <2>5. QED
    BY <2>4 DEF In
<1>5. QED
  BY <1>1, <1>2, <1>3, <1>4 DEF Settling

LEMMA SettlingUpdateZone ==
  ASSUME Inv, Settling, NEW z \in Zones, UpdateZone(z), pass = "write", Running'
  PROVE  Settling'
<1>1. /\ pc = "zones" /\ z \in todo /\ z \in DeclaredZones /\ Frame /\ Passed(z)
      /\ doc.zones[z] \subseteq LiveNets /\ PutZone(z, doc.zones[z])
  <2>1. ~Failed /\ ~Dry
    BY DEF Failed, Dry, End
  <2>2. QED
    BY <2>1, UpdateZoneCases
<1>2. UNCHANGED <<zbf, doc, pass, start, pc, members>> /\ todo' = todo \ {z}
  BY <1>1 DEF Frame, Passed
<1>3. /\ DeclaredZones' = DeclaredZones /\ ToSettle = todo
      /\ ToSettle' = todo \ {z} /\ todo \subseteq DeclaredZones /\ zbf
  BY <1>1, <1>2, TaskKept DEF ToSettle, Beginning, Inv, Course
<1>4. /\ LiveNets' = LiveNets
      /\ \A n \in LiveNets :
           nets'[n].zone = IF n \in doc.zones[z] THEN z
                           ELSE IF nets[n].zone = z THEN NoZone ELSE nets[n].zone
  <2>1. doc.zones[z] \in SUBSET LiveNets
    BY <1>1
  <2>2. QED
    BY <1>1, <1>2, <2>1, PutZoneFacts
<1>5. z # NoZone /\ \A y \in DeclaredZones : y \in Zones /\ y # NoZone
  BY NamesAssumption DEF DeclaredZones
<1>6. In(z)' = doc.zones[z]
  BY <1>1, <1>4, <1>5 DEF In
<1>7. ASSUME NEW y \in DeclaredZones, y # z
      PROVE  In(y)' = In(y) \ doc.zones[z] /\ doc.zones[y] \cap doc.zones[z] = {}
  <2>1. In(y)' = In(y) \ doc.zones[z]
    BY <1>4, <1>5, <1>7 DEF In
  <2>2. doc.zones[y] \cap doc.zones[z] = {}
    BY <1>1, <1>7, LintAssumption DEF Inv, DeclaredZones
  <2>3. QED
    BY <2>1, <2>2
<1>8. ASSUME NEW y \in DeclaredZones \ ToSettle'
      PROVE  In(y)' = doc'.zones[y] \cap LiveNets'
  <2>1. CASE y = z
    BY <1>1, <1>2, <1>4, <1>6, <2>1
  <2>2. CASE y # z
    <3>1. In(y) = doc.zones[y] \cap LiveNets
      BY <1>1, <1>3, <1>8, <2>2 DEF Settling
    <3>2. QED
      BY <1>2, <1>4, <1>7, <2>2, <3>1
  <2>3. QED
    BY <2>1, <2>2
<1>9. ASSUME NEW y \in ToSettle'
      PROVE  In(y)' \subseteq members'[y] /\ members'[y] \cap doc'.zones[y] \subseteq In(y)'
  <2>1. y \in ToSettle /\ y \in DeclaredZones /\ y # z
    BY <1>3, <1>9
  <2>2. In(y) \subseteq members[y] /\ members[y] \cap doc.zones[y] \subseteq In(y)
    BY <1>1, <1>3, <2>1 DEF Settling
  <2>3. QED
    BY <1>2, <1>7, <2>1, <2>2
<1>10. QED
  BY <1>3, <1>8, <1>9 DEF Settling

LEMMA SettlingDeleteZone ==
  ASSUME Inv, Settling, NEW z \in Zones, DeleteZone(z), pass = "write", Running'
  PROVE  Settling'
<1>1. /\ pc = "pruneZones" /\ z \in PrunedZones /\ Frame /\ Passed(z) /\ DropZone(z)
  <2>1. ~Failed /\ ~Dry
    BY DEF Failed, Dry, End
  <2>2. QED
    BY <2>1, DeleteZoneCases
<1>2. UNCHANGED <<zbf, doc, pass, start, pc>>
  BY <1>1 DEF Frame, Passed
<1>3. /\ DeclaredZones' = DeclaredZones /\ ToSettle = {} /\ ToSettle' = {}
      /\ z \notin DeclaredZones /\ zbf
  BY <1>1, <1>2, TaskKept, TaskTypes DEF ToSettle, Beginning, Inv, Course
<1>4. /\ LiveNets' = LiveNets
      /\ \A n \in LiveNets : nets'[n].zone = IF nets[n].zone = z THEN NoZone ELSE nets[n].zone
  BY <1>1, <1>2, DropZoneFacts
<1>5. \A y \in DeclaredZones : y # NoZone /\ y # z
  BY <1>3, NamesAssumption DEF DeclaredZones
<1>6. \A y \in DeclaredZones : In(y)' = In(y)
  BY <1>4, <1>5 DEF In
<1>7. QED
  BY <1>1, <1>2, <1>3, <1>4, <1>6 DEF Settling

LEMMA SettlingNext == ASSUME Inv, Settling, [Next]_vars PROVE Settling'
<1>1. CASE StartRun \/ ReadNetworks \/ ListForCreate \/ StartNetworks \/ PruneNetworks
  BY <1>1 DEF StartRun, ReadNetworks, ListForCreate, StartNetworks, PruneNetworks, BeginPass, Settling
<1>2. CASE ReadZonesAgain
  <2>1. pc' = "zones" \/ pc' = "done"
    BY <1>2 DEF ReadZonesAgain
  <2>2. QED
    BY <1>2, <2>1, SettlingReadZonesAgain DEF Settling
<1>3. CASE PruneZones
  <2>1. UNCHANGED <<nets, zbf, doc, pass, start>> /\ pc = "zones" /\ todo = {} /\ pc' = "pruneZones"
    BY <1>3 DEF PruneZones, console
  <2>2. QED
    BY <2>1, SettlingKept DEF ToSettle, Beginning
<1>4. CASE FinishPlan
  BY <1>4 DEF FinishPlan, BeginPass, End, Settling
<1>5. CASE FinishWrite
  <2>1. UNCHANGED <<nets, zbf, doc, pass, start>> /\ pc' = "applied" /\ PassDone
    BY <1>5 DEF FinishWrite, console, End
  <2>2. ToSettle = {} /\ ToSettle' = {}
    BY <2>1, NothingLeft DEF ToSettle, Beginning
  <2>3. CASE pc = "pruneZones"
    BY <2>1, <2>2, <2>3, SettlingKept
  <2>4. CASE pc = "done"
    BY <2>1, <2>4 DEF Inv, Course, Settling
  <2>5. QED
    BY <2>1, <2>3, <2>4 DEF PassDone
<1>6. CASE Halts
  BY <1>6 DEF Halts, RefuseHomeless, Kill, RefuseZone, FailZone, End, Settling
<1>7. ASSUME NEW n \in Nets, CreateNetwork(n) \/ NetworkOK(n) \/ UpdateNetwork(n) \/ DeleteNetwork(n)
      PROVE  Settling'
  <2>1. pc' \notin {"zones", "pruneZones", "applied"}
    BY <1>7 DEF CreateNetwork, NetworkOK, UpdateNetwork, DeleteNetwork, End
  <2>2. QED
    BY <2>1 DEF Settling
<1>8. ASSUME NEW z \in Zones, CreateZone(z)
      PROVE  Settling'
  <2>1. pc' \notin {"zones", "pruneZones", "applied"}
    BY <1>8 DEF CreateZone, End
  <2>2. QED
    BY <2>1 DEF Settling
<1>9. ASSUME NEW z \in Zones, ZoneOK(z)
      PROVE  Settling'
  BY <1>9, SettlingZoneOK
<1>10. ASSUME NEW z \in Zones, UpdateZone(z) \/ DeleteZone(z)
       PROVE  Settling'
  <2>1. pass' = pass /\ (pc' = pc \/ pc' = "failed") /\ pc \in {"zones", "pruneZones"}
    BY <1>10 DEF UpdateZone, DeleteZone, End
  <2>2. CASE pass = "write" /\ Running'
    BY <1>10, <2>2, SettlingUpdateZone, SettlingDeleteZone
  <2>3. CASE ~(pass = "write" /\ Running')
    BY <2>1, <2>3 DEF Settling
  <2>4. QED
    BY <2>2, <2>3
<1>11. CASE UNCHANGED vars
  <2>1. UNCHANGED <<nets, zbf, doc, pass, start, pc, members, todo>>
    BY <1>11 DEF vars, console, reading
  <2>2. ToSettle' = ToSettle
    BY <2>1, TaskKept DEF ToSettle, Beginning
  <2>3. CASE pc \in {"zones", "pruneZones", "applied"}
    BY <2>1, <2>2, <2>3, SettlingKept
  <2>4. CASE pc \notin {"zones", "pruneZones", "applied"}
    BY <2>1, <2>4 DEF Settling
  <2>5. QED
    BY <2>3, <2>4
<1>12. QED
  BY <1>1, <1>2, <1>3, <1>4, <1>5, <1>6, <1>7, <1>8, <1>9, <1>10, <1>11, StepCases

LEMMA SettlingInvariant == Spec => []Settling
<1>1. Init => Settling
  BY DEF Init, Settling
<1>2. QED
  BY <1>1, SettlingNext, Invariance, PTL DEF Spec

\* The PUT of a network names the zone it is in by then.
LEMMA UpdateMovesNothing ==
  ASSUME Inv, NEW n \in Nets, UpdateNetwork(n), NEW m \in LiveNets
  PROVE  nets'[m].zone = nets[m].zone
<1>1. UNCHANGED <<nets, zones>> \/ PutNetwork(n, doc.nets[n], nets[n].zone)
  BY UpdateNetworkCases DEF Dry
<1>2. nets \in [Nets -> {Absent} \cup Network] /\ m \in Nets
  BY TaskTypes DEF LiveNets
<1>3. CASE PutNetwork(n, doc.nets[n], nets[n].zone)
  BY <1>2, <1>3 DEF PutNetwork
<1>4. QED
  BY <1>1, <1>3

\* Whatever is in a zone that is deleted is declared in none.
LEMMA DeleteMovesNothingDeclared ==
  ASSUME Inv, Settling, NEW z \in Zones, DeleteZone(z), pass = "write",
         NEW n \in LiveNets, nets[n].zone = z
  PROVE  DeclaredZone(n) = NoZone
<1>1. pc = "pruneZones" /\ z \notin DeclaredZones /\ n \in Nets
  BY DeleteZoneCases, TaskTypes DEF LiveNets
<1>2. ToSettle = {} /\ zbf
  BY <1>1 DEF ToSettle, Beginning, Inv, Course
<1>3. ASSUME DeclaredZone(n) \in DeclaredZones
      PROVE  FALSE
  <2>1. n \in doc.zones[DeclaredZone(n)]
    BY <1>1, <1>3, DeclaredZoneFacts DEF Inv
  <2>2. In(DeclaredZone(n)) = doc.zones[DeclaredZone(n)] \cap LiveNets
    BY <1>1, <1>2, <1>3 DEF Settling
  <2>3. nets[n].zone = DeclaredZone(n)
    BY <2>1, <2>2 DEF In
  <2>4. QED
    BY <1>1, <1>3, <2>3
<1>4. QED
  BY <1>1, <1>3, DeclaredZoneFacts DEF Inv

\* No network is left without the zone it is to be in: neither by an update of
\* it (updateBody) nor by the end of its zone (zones are pruned last).
THEOREM NobodyStranded == Spec => NoNetworkIsStranded
<1> DEFINE KeepsZone == \A n \in Nets : UpdateNetwork(n) => \A m \in LiveNets : nets'[m].zone = nets[m].zone
           StrandsNobody == \A z \in Zones : DeleteZone(z) =>
             \A n \in LiveNets : nets[n].zone = z /\ pass = "write" => DeclaredZone(n) = NoZone
<1>1. Inv => KeepsZone
  BY UpdateMovesNothing
<1>2. Inv /\ Settling => StrandsNobody
  BY DeleteMovesNothingDeclared
<1>3. [](Inv /\ Settling) => [][KeepsZone]_vars /\ [][StrandsNobody]_vars
  BY <1>1, <1>2, PTL
<1>4. QED
  BY <1>3, Invariance, SettlingInvariant, PTL DEF NoNetworkIsStranded, UpdateKeepsZone, DeleteStrandsNobody

-----------------------------------------------------------------------------
(***************************************************************************)
(* The plan is what is written: lines and moves.                           *)
(***************************************************************************)

\* The networks that creating the zones cs takes out of another zone.
MoversOf(cs) == {n \in Old : /\ start.nets[n].zone \in start.zones
                             /\ \E z \in cs : n \in doc.zones[z]}

\* The networks the zones step does not compare, and what differs otherwise.
Placed == Joined(NewZones) \cup New
Diff   == {n \in DeclaredNets \cap Old : start.nets[n].conf # doc.nets[n]}
Unlike == {z \in DeclaredZones \cap start.zones :
             zbf /\ {n \in Old : start.nets[n].zone = z} \ Placed # doc.zones[z] \ Placed}

Lines(cs, us, ds) == ({"CREATE"} \X cs) \cup ({"UPDATE"} \X us) \cup ({"DELETE"} \X ds)

\* The lines of a whole pass, and those of what it is through with.
Due == Lines(NewZones \cup New, Diff \cup Unlike, PrunedNets \cup PrunedZones)

Creates == (NewZones \ ToCreate) \cup (New \ ToWrite)
Updates == (Diff \ ToWrite) \cup (Unlike \ ToSettle)
Deletes == (PrunedNets \ ToDrop) \cup (PrunedZones \ ToRemove)
Logged  == Lines(Creates, Updates, Deletes)

\* The run deletes a network out of a declared zone.
Odd == \E n \in PrunedNets : start.nets[n].zone \in DeclaredZones

Counting ==
  /\ Running => updates = Cardinality(MoversOf(NewZones \ ToCreate))
  /\ pass = "write" => /\ planned.moves = Cardinality(MoversOf(NewZones))
                       /\ updates <= planned.moves
                       /\ pc = "applied" => updates = planned.moves

Logging ==
  /\ Running /\ (DryRun \/ ~Odd) => lines = Logged
  /\ pass = "write" => /\ planned.lines = Due
                       /\ ~Odd => lines \subseteq Due /\ (pc = "applied" => lines = Due)
  /\ pc = "clean" => pass = "plan" /\ Due = {}
  /\ pc = "applied" => pass = "write"

Tally == Counting /\ Logging

LEMMA DueKept ==
  ASSUME UNCHANGED <<doc, start, zbf>>
  PROVE  /\ Placed' = Placed /\ Diff' = Diff /\ Unlike' = Unlike /\ Due' = Due
         /\ Odd' = Odd /\ MoversOf(NewZones)' = MoversOf(NewZones)
<1>1. /\ Old' = Old /\ New' = New /\ NewZones' = NewZones /\ DeclaredNets' = DeclaredNets
      /\ DeclaredZones' = DeclaredZones /\ PrunedNets' = PrunedNets /\ PrunedZones' = PrunedZones
      /\ start' = start /\ doc' = doc /\ zbf' = zbf
  BY TaskKept
<1>2. Placed' = Placed
  BY <1>1 DEF Placed, Joined
<1>3. Diff' = Diff /\ Unlike' = Unlike /\ Odd' = Odd
  BY <1>1, <1>2 DEF Diff, Unlike, Odd
<1>4. MoversOf(NewZones)' = MoversOf(NewZones)
  BY <1>1 DEF MoversOf
<1>5. QED
  BY <1>1, <1>2, <1>3, <1>4 DEF Due, Lines

\* A step that handles the next name of its list.
LEMMA OneLess ==
  ASSUME UNCHANGED <<doc, start, zbf, pc>>, NEW x, todo' = todo \ {x}
  PROVE  /\ ToCreate' = IF pc = "creating"   THEN ToCreate \ {x} ELSE ToCreate
         /\ ToWrite'  = IF pc = "networks"   THEN ToWrite \ {x}  ELSE ToWrite
         /\ ToDrop'   = IF pc = "pruneNets"  THEN ToDrop \ {x}   ELSE ToDrop
         /\ ToSettle' = IF pc = "zones"      THEN ToSettle \ {x} ELSE ToSettle
         /\ ToRemove' = IF pc = "pruneZones" THEN ToRemove \ {x} ELSE ToRemove
BY TaskKept DEF ToCreate, ToWrite, ToDrop, ToSettle, ToRemove, Beginning

\* From one step of a pass to the next.
Turns == \/ ReadNetworks \/ ListForCreate \/ StartNetworks \/ PruneNetworks
         \/ ReadZonesAgain \/ PruneZones

\* A pass turns to its next step with that step's work, all of it, ahead.
LEMMA TurnsKeep ==
  ASSUME Inv, Turns
  PROVE  /\ UNCHANGED <<console, doc, pass, start, planned, faults, lines, updates>>
         /\ Running /\ Running'
         /\ ToCreate' = ToCreate /\ ToWrite' = ToWrite /\ ToDrop' = ToDrop
         /\ ToSettle' = ToSettle /\ ToRemove' = ToRemove
<1> DEFINE Same == /\ ToCreate' = ToCreate /\ ToWrite' = ToWrite /\ ToDrop' = ToDrop
                   /\ ToSettle' = ToSettle /\ ToRemove' = ToRemove
<1>1. /\ UNCHANGED <<console, doc, pass, start, planned, faults, lines, updates>>
      /\ Running /\ Running'
  BY DEF Turns, ReadNetworks, ListForCreate, StartNetworks, PruneNetworks, ReadZonesAgain, PruneZones
<1>2. UNCHANGED <<doc, start, zbf>>
  BY <1>1 DEF console
<1> SUFFICES Same
  BY <1>1
<1>3. CASE ReadNetworks
  BY <1>2, <1>3, TaskKept
     DEF ReadNetworks, ToCreate, ToWrite, ToDrop, ToSettle, ToRemove, Beginning
<1>4. CASE ListForCreate
  <2>1. pc = "createZones" /\ zones = start.zones
    BY <1>4 DEF ListForCreate, Inv, Unwritten, Beginning
  <2>2. CASE ~zbf /\ pc' = "networks" /\ todo' = DeclaredNets
    BY <1>2, <2>1, <2>2, TaskKept
       DEF ToCreate, ToWrite, ToDrop, ToSettle, ToRemove, Beginning, NewZones
  <2>3. CASE zbf /\ pc' = "creating" /\ todo' = {z \in DeclaredZones : z \notin zones}
    <3>1. todo' = NewZones
      BY <2>1, <2>3 DEF NewZones
    <3>2. QED
      BY <1>2, <2>1, <2>3, <3>1, TaskKept
         DEF ToCreate, ToWrite, ToDrop, ToSettle, ToRemove, Beginning
  <2>4. QED
    BY <1>4, <2>2, <2>3 DEF ListForCreate
<1>5. CASE StartNetworks
  BY <1>2, <1>5, TaskKept
     DEF StartNetworks, ToCreate, ToWrite, ToDrop, ToSettle, ToRemove, Beginning
<1>6. CASE PruneNetworks
  <2>1. pc = "networks" /\ todo = {} /\ pc' = "pruneNets" /\ todo' = PrunedNets
    BY <1>6, NetworksCourse DEF PruneNetworks, PrunedNets
  <2>2. QED
    BY <1>2, <2>1, TaskKept DEF ToCreate, ToWrite, ToDrop, ToSettle, ToRemove, Beginning
<1>7. CASE ReadZonesAgain
  BY <1>2, <1>7, TaskKept
     DEF ReadZonesAgain, ToCreate, ToWrite, ToDrop, ToSettle, ToRemove, Beginning, PrunedZones
<1>8. CASE PruneZones
  <2>1. pc = "zones" /\ todo = {} /\ pc' = "pruneZones" /\ todo' = PrunedZones
    BY <1>8, ReadZonesFacts, TaskTypes DEF PruneZones, PrunedZones, Inv, Course, Beginning
  <2>2. QED
    BY <1>2, <2>1, TaskKept DEF ToCreate, ToWrite, ToDrop, ToSettle, ToRemove, Beginning
<1>9. QED
  BY <1>1, <1>3, <1>4, <1>5, <1>6, <1>7, <1>8 DEF Turns

-----------------------------------------------------------------------------
(* Counting *)

LEMMA MoversOfFinite ==
  ASSUME NEW cs
  PROVE  /\ IsFiniteSet(MoversOf(cs)) /\ Cardinality(MoversOf(cs)) \in Nat
<1>1. MoversOf(cs) \in SUBSET Nets
  BY DEF MoversOf, Old
<1>2. QED
  BY <1>1, FiniteAssumption, FS_Subset, FS_CardinalityType

\* The moves of some of the creates are no more than those of all of them.
LEMMA MoversOfGrow ==
  ASSUME NEW cs, NEW ds, cs \subseteq ds
  PROVE  Cardinality(MoversOf(cs)) <= Cardinality(MoversOf(ds))
<1>1. MoversOf(cs) \in SUBSET MoversOf(ds)
  BY DEF MoversOf
<1>2. QED
  BY <1>1, MoversOfFinite, FS_Subset

\* No network is moved twice, so creates count apart.
LEMMA MoversOfOneMore ==
  ASSUME Inv, NEW cs, cs \subseteq DeclaredZones, NEW z \in DeclaredZones, z \notin cs
  PROVE  Cardinality(MoversOf(cs \cup {z})) = Cardinality(MoversOf(cs)) + Cardinality(MoversOf({z}))
<1>1. MoversOf(cs \cup {z}) = MoversOf(cs) \cup MoversOf({z})
  BY DEF MoversOf
<1>2. MoversOf(cs) \cap MoversOf({z}) = {}
  <2>1. ASSUME NEW n \in MoversOf(cs), n \in MoversOf({z})
        PROVE  FALSE
    <3>1. n \in Nets /\ n \in doc.zones[z] /\ \E y \in cs : n \in doc.zones[y]
      BY <2>1 DEF MoversOf, Old
    <3>2. PICK y \in cs : n \in doc.zones[y]
      BY <3>1
    <3>3. y \in DeclaredZones /\ y # z
      BY <3>2
    <3>4. QED
      BY <3>1, <3>2, <3>3, DeclaredZoneFacts DEF Inv
  <2>2. QED
    BY <2>1
<1>3. /\ Cardinality(MoversOf(cs)) \in Nat /\ Cardinality(MoversOf({z})) \in Nat
      /\ IsFiniteSet(MoversOf(cs)) /\ IsFiniteSet(MoversOf({z}))
  BY MoversOfFinite
<1>4. /\ IsFiniteSet(MoversOf(cs) \cup MoversOf({z}))
      /\ Cardinality(MoversOf(cs) \cup MoversOf({z})) =
         Cardinality(MoversOf(cs)) + Cardinality(MoversOf({z}))
         - Cardinality(MoversOf(cs) \cap MoversOf({z}))
  BY <1>3, FS_Union
<1>5. Cardinality({}) = 0
  BY FS_EmptySet
<1>6. Cardinality(MoversOf(cs) \cap MoversOf({z})) = 0
  BY <1>2, <1>5
<1>7. Cardinality(MoversOf(cs) \cup MoversOf({z})) =
      Cardinality(MoversOf(cs)) + Cardinality(MoversOf({z}))
  BY <1>3, <1>4, <1>6
<1>8. QED
  BY <1>1, <1>7

LEMMA MoversRead ==
  ASSUME Inv, pc = "creating", NEW z \in DeclaredZones
  PROVE  Movers(z) = MoversOf({z})
<1>1. /\ members = Listed /\ ReadNets = Old /\ doc.zones[z] \subseteq Nets
      /\ \A n \in Old : n \in Nets
  BY CreatingCourse, TaskTypes DEF Old
<1>2. \A y \in Zones : {n \in Old : start.nets[n].zone = y} \in SUBSET Nets
  BY <1>1
<1>3. ReadZones = start.zones
  BY <1>1, <1>2, AbsentAssumption, TaskTypes DEF ReadZones, Listed
<1>4. \A y \in start.zones : members[y] = {n \in Old : start.nets[n].zone = y}
  BY <1>1, TaskTypes DEF Listed
<1>5. QED
  BY <1>1, <1>3, <1>4 DEF Movers, MoversOf

\* A step that creates no zone.
LEMMA CountingKept ==
  ASSUME Counting, UNCHANGED <<doc, start, zbf, pass, planned, updates>>,
         Running' => Running /\ ToCreate' = ToCreate, pc' = "applied" => pc = "applied"
  PROVE  Counting'
<1>1. Old' = Old /\ NewZones' = NewZones /\ MoversOf(NewZones)' = MoversOf(NewZones)
  BY TaskKept, DueKept
<1>2. Running' => MoversOf(NewZones \ ToCreate)' = MoversOf(NewZones \ ToCreate)
  BY <1>1 DEF MoversOf
<1>3. QED
  BY <1>1, <1>2 DEF Counting

LEMMA CountingCreateZone == ASSUME Inv, Counting, NEW z \in Zones, CreateZone(z) PROVE Counting'
<1>1. /\ pc = "creating" /\ z \in todo /\ z \in NewZones /\ Frame
      /\ updates' = updates + Cardinality(Movers(z))
      /\ pc' = "failed" \/ (pc' = pc /\ todo' = todo \ {z})
  BY CreateZoneCases DEF ZoneCreated, Failed, End
<1>2. UNCHANGED <<doc, start, zbf, pass, planned>>
  BY <1>1 DEF Frame
<1>3. ToCreate = todo /\ todo \subseteq NewZones /\ NewZones \subseteq DeclaredZones
  BY <1>1, CreatingCourse, TaskTypes
<1>4. updates' = Cardinality(MoversOf((NewZones \ todo) \cup {z}))
  <2>1. updates = Cardinality(MoversOf(NewZones \ todo))
    BY <1>1, <1>3 DEF Counting
  <2>2. Cardinality(Movers(z)) = Cardinality(MoversOf({z}))
    BY <1>1, <1>3, MoversRead
  <2>3. Cardinality(MoversOf((NewZones \ todo) \cup {z}))
        = Cardinality(MoversOf(NewZones \ todo)) + Cardinality(MoversOf({z}))
    BY <1>1, <1>3, MoversOfOneMore
  <2>4. QED
    BY <1>1, <2>1, <2>2, <2>3
<1>5. (NewZones \ todo) \cup {z} = NewZones \ (todo \ {z})
  BY <1>1
<1>6. updates' <= Cardinality(MoversOf(NewZones))
  BY <1>4, <1>5, MoversOfGrow
<1>7. /\ NewZones' = NewZones /\ Old' = Old /\ MoversOf(NewZones)' = MoversOf(NewZones)
  BY <1>2, TaskKept, DueKept
<1>8. Running' => updates' = Cardinality(MoversOf(NewZones \ ToCreate)')
  <2>1. Running' => ToCreate' = todo \ {z}
    BY <1>1, <1>2, <1>3, OneLess
  <2>2. Running' => MoversOf(NewZones \ ToCreate)' = MoversOf(NewZones \ (todo \ {z}))
    BY <1>2, <1>7, <2>1 DEF MoversOf
  <2>3. QED
    BY <1>4, <1>5, <2>2
<1>9. QED
  BY <1>1, <1>2, <1>6, <1>7, <1>8 DEF Counting

\* A pass that begins has counted nothing.
LEMMA CountingNone ==
  ASSUME pc' = "readNets", updates' = 0
  PROVE  Running' => updates' = Cardinality(MoversOf(NewZones \ ToCreate))'
<1>1. ToCreate' = NewZones'
  BY DEF ToCreate, Beginning
<1>2. MoversOf(NewZones \ ToCreate)' = {}
  BY <1>1 DEF MoversOf
<1>3. QED
  BY <1>2, FS_EmptySet

LEMMA CountingFinishPlan == ASSUME Inv, Counting, FinishPlan PROVE Counting'
<1>1. /\ UNCHANGED <<doc, start, zbf>> /\ planned'.moves = updates /\ Running /\ pass = "plan"
      /\ PassDone
  BY DEF FinishPlan, console, PassDone
<1>2. updates = Cardinality(MoversOf(NewZones))
  <2>1. NewZones \ ToCreate = NewZones
    BY <1>1, NothingLeft
  <2>2. QED
    BY <1>1, <2>1 DEF Counting
<1>3. MoversOf(NewZones)' = MoversOf(NewZones)
  BY <1>1, DueKept
<1>4. CASE BeginPass("write")
  <2>1. pc' = "readNets" /\ updates' = 0 /\ pass' = "write"
    BY <1>4 DEF BeginPass
  <2>2. updates' <= planned'.moves
    BY <1>1, <1>2, <2>1, MoversOfFinite
  <2>3. QED
    BY <1>1, <1>2, <1>3, <2>1, <2>2, CountingNone DEF Counting
<1>5. CASE End("clean") /\ pass' = pass
  BY <1>1, <1>5 DEF End, Counting
<1>6. QED
  BY <1>4, <1>5 DEF FinishPlan

LEMMA CountingNext == ASSUME Inv, Counting, [Next]_vars PROVE Counting'
<1>1. CASE StartRun
  <2>1. pc' = "readNets" /\ updates' = 0 /\ pass' = "plan"
    BY <1>1 DEF StartRun, BeginPass
  <2>2. QED
    BY <2>1, CountingNone DEF Counting
<1>2. CASE Turns
  BY <1>2, TurnsKeep, CountingKept DEF console
<1>3. CASE FinishPlan
  BY <1>3, CountingFinishPlan
<1>4. CASE FinishWrite
  <2>1. /\ UNCHANGED <<doc, start, zbf, pass, planned, updates>> /\ PassDone /\ Running
        /\ pc' = "applied" /\ pass = "write"
    BY <1>4 DEF FinishWrite, console, End, PassDone
  <2>2. NewZones \ ToCreate = NewZones
    BY <2>1, NothingLeft
  <2>3. updates = Cardinality(MoversOf(NewZones)) /\ MoversOf(NewZones)' = MoversOf(NewZones)
    BY <2>1, <2>2, DueKept DEF Counting
  <2>4. QED
    BY <2>1, <2>3 DEF Counting
<1>5. CASE Halts
  <2>1. UNCHANGED <<doc, start, zbf, pass, planned, updates>> /\ pc' \in {"failed", "killed"}
    BY <1>5 DEF Halts, RefuseHomeless, Kill, RefuseZone, FailZone, End, console
  <2>2. QED
    BY <2>1, CountingKept
<1>6. ASSUME NEW z \in Zones, CreateZone(z) PROVE Counting'
  BY <1>6, CountingCreateZone
<1>7. ASSUME NEW x \in Nets \cup Zones,
             \/ x \in Nets /\ (CreateNetwork(x) \/ NetworkOK(x) \/ UpdateNetwork(x) \/ DeleteNetwork(x))
             \/ x \in Zones /\ (ZoneOK(x) \/ UpdateZone(x) \/ DeleteZone(x))
      PROVE  Counting'
  <2>1. /\ UNCHANGED <<doc, start, zbf, pass, planned, updates>> /\ Running /\ pc # "creating"
        /\ pc' = "failed" \/ (pc' = pc /\ todo' = todo \ {x})
    BY <1>7 DEF CreateNetwork, NetworkOK, UpdateNetwork, DeleteNetwork, ZoneOK, UpdateZone, DeleteZone,
                console, End
  <2>2. Running' => ToCreate' = ToCreate
    BY <2>1, OneLess
  <2>3. QED
    BY <2>1, <2>2, CountingKept
<1>8. CASE UNCHANGED vars
  <2>1. UNCHANGED <<doc, start, zbf, pass, planned, updates, pc, todo>>
    BY <1>8 DEF vars, console, reading
  <2>2. ToCreate' = ToCreate
    BY <2>1, TaskKept DEF ToCreate, Beginning
  <2>3. QED
    BY <2>1, <2>2, CountingKept
<1>9. QED
  BY <1>1, <1>2, <1>3, <1>4, <1>5, <1>6, <1>7, <1>8, StepCases DEF Turns

-----------------------------------------------------------------------------
(* Logging *)

\* What is logged is due; at the end of a pass, all of it.
LEMMA LoggedDue ==
  /\ Logged \subseteq Due
  /\ Inv /\ PassDone => Logged = Due
<1>1. Logged \subseteq Due
  BY DEF Logged, Due, Lines, Creates, Updates, Deletes
<1>2. ASSUME Inv, PassDone PROVE Logged = Due
  <2>1. ToCreate = {} /\ ToWrite = {} /\ ToDrop = {} /\ ToSettle = {} /\ ToRemove = {}
    BY <1>2, NothingLeft
  <2>2. /\ Creates = NewZones \cup New /\ Updates = Diff \cup Unlike
        /\ Deletes = PrunedNets \cup PrunedZones
    BY <2>1 DEF Creates, Updates, Deletes
  <2>3. QED
    BY <2>2 DEF Logged, Due
<1>3. QED
  BY <1>1, <1>2

\* A pass that begins has logged nothing.
LEMMA LoggedNone == ASSUME pc' = "readNets" PROVE Logged' = {}
<1>1. /\ ToCreate' = NewZones' /\ ToWrite' = DeclaredNets' /\ ToDrop' = PrunedNets'
      /\ ToSettle' = (IF zbf' THEN DeclaredZones' ELSE {}) /\ ToRemove' = PrunedZones'
  BY DEF ToCreate, ToWrite, ToDrop, ToSettle, ToRemove, Beginning
<1>2. New' \subseteq DeclaredNets' /\ Diff' \subseteq DeclaredNets' /\ Unlike' \subseteq ToSettle'
  BY <1>1 DEF New, Diff, Unlike
<1>3. Creates' = {} /\ Updates' = {} /\ Deletes' = {}
  BY <1>1, <1>2 DEF Creates, Updates, Deletes
<1>4. QED
  BY <1>3 DEF Logged, Lines

LEMMA CreatesKept ==
  ASSUME UNCHANGED <<doc, start, zbf>>
  PROVE  /\ ToCreate' = ToCreate /\ ToWrite' = ToWrite => Creates' = Creates
         /\ ToWrite' = ToWrite /\ ToSettle' = ToSettle => Updates' = Updates
         /\ ToDrop' = ToDrop /\ ToRemove' = ToRemove => Deletes' = Deletes
BY TaskKept, DueKept DEF Creates, Updates, Deletes

\* A step that logs nothing, and is right not to.
LEMMA LoggingKept ==
  ASSUME Logging, Running, UNCHANGED <<doc, start, zbf, pass, planned, lines>>,
         pc' \notin {"clean", "applied"},
         Running' /\ (DryRun \/ ~Odd) => Logged' = Logged
  PROVE  Logging'
<1>1. Due' = Due /\ Odd' = Odd
  BY DueKept
<1>2. QED
  BY <1>1 DEF Logging

\* A step that logs a line, and is right to.
LEMMA LoggingWrites ==
  ASSUME Logging, Running, Frame, NEW line, lines' = lines \cup {line},
         pc' \notin {"clean", "applied"},
         DryRun \/ ~Odd => line \in Due /\ (Running' => Logged' = Logged \cup {line})
  PROVE  Logging'
<1>1. Due' = Due /\ Odd' = Odd /\ UNCHANGED <<pass, planned>>
  BY DueKept DEF Frame
<1>2. QED
  BY <1>1 DEF Logging

LEMMA LoggingCreateZone == ASSUME Inv, Logging, NEW z \in Zones, CreateZone(z) PROVE Logging'
<1>1. /\ pc = "creating" /\ z \in todo /\ z \in NewZones /\ Frame /\ lines' = lines \cup {<<"CREATE", z>>}
      /\ pc' = "failed" \/ (pc' = pc /\ todo' = todo \ {z})
  BY CreateZoneCases DEF ZoneCreated, Failed, End
<1>2. <<"CREATE", z>> \in Due
  BY <1>1 DEF Due, Lines
<1>3. ASSUME Running' PROVE Logged' = Logged \cup {<<"CREATE", z>>}
  <2>1. UNCHANGED <<doc, start, zbf, pc>> /\ todo' = todo \ {z}
    BY <1>1, <1>3 DEF Frame
  <2>2. /\ ToCreate' = ToCreate \ {z} /\ ToWrite' = ToWrite /\ ToDrop' = ToDrop
        /\ ToSettle' = ToSettle /\ ToRemove' = ToRemove
    BY <1>1, <2>1, OneLess
  <2>3. Updates' = Updates /\ Deletes' = Deletes
    BY <2>1, <2>2, CreatesKept
  <2>4. Creates' = Creates \cup {z}
    BY <1>1, <2>1, <2>2, TaskKept DEF Creates
  <2>5. QED
    BY <2>3, <2>4 DEF Logged, Lines
<1>4. QED
  BY <1>1, <1>2, <1>3, LoggingWrites

LEMMA LoggingCreateNetwork == ASSUME Inv, Logging, NEW n \in Nets, CreateNetwork(n) PROVE Logging'
<1>1. /\ pc = "networks" /\ n \in todo /\ n \in New /\ Frame /\ lines' = lines \cup {<<"CREATE", n>>}
      /\ pc' = "failed" \/ (pc' = pc /\ todo' = todo \ {n})
  BY CreateNetworkCases DEF NetworkCreated, Failed, End
<1>2. <<"CREATE", n>> \in Due
  BY <1>1 DEF Due, Lines
<1>3. ASSUME Running' PROVE Logged' = Logged \cup {<<"CREATE", n>>}
  <2>1. UNCHANGED <<doc, start, zbf, pc>> /\ todo' = todo \ {n}
    BY <1>1, <1>3 DEF Frame
  <2>2. /\ ToCreate' = ToCreate /\ ToWrite' = ToWrite \ {n} /\ ToDrop' = ToDrop
        /\ ToSettle' = ToSettle /\ ToRemove' = ToRemove
    BY <1>1, <2>1, OneLess
  <2>3. Deletes' = Deletes
    BY <2>1, <2>2, CreatesKept
  <2>4. Creates' = Creates \cup {n}
    BY <1>1, <2>1, <2>2, TaskKept DEF Creates
  <2>5. n \notin Diff
    BY <1>1 DEF New, Diff
  <2>6. Updates' = Updates
    BY <2>1, <2>2, <2>5, DueKept DEF Updates
  <2>7. QED
    BY <2>3, <2>4, <2>6 DEF Logged, Lines
<1>4. QED
  BY <1>1, <1>2, <1>3, LoggingWrites

LEMMA LoggingUpdateNetwork == ASSUME Inv, Logging, NEW n \in Nets, UpdateNetwork(n) PROVE Logging'
<1>1. /\ pc = "networks" /\ n \in todo /\ n \in Old /\ n \in DeclaredNets
      /\ start.nets[n].conf # doc.nets[n] /\ Frame /\ lines' = lines \cup {<<"UPDATE", n>>}
      /\ pc' = "failed" \/ (pc' = pc /\ todo' = todo \ {n})
  BY UpdateNetworkCases DEF Passed, Failed, End
<1>2. n \in Diff /\ n \notin New
  BY <1>1 DEF Diff, New
<1>3. <<"UPDATE", n>> \in Due
  BY <1>2 DEF Due, Lines
<1>4. ASSUME Running' PROVE Logged' = Logged \cup {<<"UPDATE", n>>}
  <2>1. UNCHANGED <<doc, start, zbf, pc>> /\ todo' = todo \ {n}
    BY <1>1, <1>4 DEF Frame
  <2>2. /\ ToCreate' = ToCreate /\ ToWrite' = ToWrite \ {n} /\ ToDrop' = ToDrop
        /\ ToSettle' = ToSettle /\ ToRemove' = ToRemove
    BY <1>1, <2>1, OneLess
  <2>3. Deletes' = Deletes
    BY <2>1, <2>2, CreatesKept
  <2>4. Creates' = Creates
    BY <1>2, <2>1, <2>2, TaskKept DEF Creates
  <2>5. Updates' = Updates \cup {n}
    BY <1>2, <2>1, <2>2, DueKept DEF Updates
  <2>6. QED
    BY <2>3, <2>4, <2>5 DEF Logged, Lines
<1>5. QED
  BY <1>1, <1>3, <1>4, LoggingWrites

LEMMA LoggingNetworkOK == ASSUME Inv, Logging, NEW n \in Nets, NetworkOK(n) PROVE Logging'
<1>1. /\ pc = "networks" /\ n \in todo /\ pc' = pc /\ todo' = todo \ {n}
      /\ UNCHANGED <<doc, start, zbf, pass, planned, lines>>
      /\ n \in Old /\ start.nets[n].conf = doc.nets[n]
  BY NetworksCourse DEF NetworkOK, console
<1>2. n \notin Diff /\ n \notin New
  BY <1>1 DEF Diff, New
<1>3. /\ ToCreate' = ToCreate /\ ToWrite' = ToWrite \ {n} /\ ToDrop' = ToDrop
      /\ ToSettle' = ToSettle /\ ToRemove' = ToRemove
  BY <1>1, OneLess
<1>4. Creates' = Creates /\ Updates' = Updates /\ Deletes' = Deletes
  BY <1>1, <1>2, <1>3, CreatesKept, TaskKept, DueKept DEF Creates, Updates
<1>5. QED
  BY <1>1, <1>4, LoggingKept DEF Logged

LEMMA LoggingDeleteNetwork == ASSUME Inv, Logging, NEW n \in Nets, DeleteNetwork(n) PROVE Logging'
<1>1. /\ pc = "pruneNets" /\ n \in todo /\ n \in PrunedNets /\ Frame
      /\ lines' = lines \cup {<<"DELETE", n>>}
      /\ pc' = "failed" \/ (pc' = pc /\ todo' = todo \ {n})
  BY DeleteNetworkCases DEF Passed, Failed, End
<1>2. <<"DELETE", n>> \in Due
  BY <1>1 DEF Due, Lines
<1>3. ASSUME Running' PROVE Logged' = Logged \cup {<<"DELETE", n>>}
  <2>1. UNCHANGED <<doc, start, zbf, pc>> /\ todo' = todo \ {n}
    BY <1>1, <1>3 DEF Frame
  <2>2. /\ ToCreate' = ToCreate /\ ToWrite' = ToWrite /\ ToDrop' = ToDrop \ {n}
        /\ ToSettle' = ToSettle /\ ToRemove' = ToRemove
    BY <1>1, <2>1, OneLess
  <2>3. Creates' = Creates /\ Updates' = Updates
    BY <2>1, <2>2, CreatesKept
  <2>4. Deletes' = Deletes \cup {n}
    BY <1>1, <2>1, <2>2, TaskKept DEF Deletes
  <2>5. QED
    BY <2>3, <2>4 DEF Logged, Lines
<1>4. QED
  BY <1>1, <1>2, <1>3, LoggingWrites

LEMMA LoggingDeleteZone == ASSUME Inv, Logging, NEW z \in Zones, DeleteZone(z) PROVE Logging'
<1>1. /\ pc = "pruneZones" /\ z \in todo /\ z \in PrunedZones /\ Frame
      /\ lines' = lines \cup {<<"DELETE", z>>}
      /\ pc' = "failed" \/ (pc' = pc /\ todo' = todo \ {z})
  BY DeleteZoneCases DEF Passed, Failed, End
<1>2. <<"DELETE", z>> \in Due
  BY <1>1 DEF Due, Lines
<1>3. ASSUME Running' PROVE Logged' = Logged \cup {<<"DELETE", z>>}
  <2>1. UNCHANGED <<doc, start, zbf, pc>> /\ todo' = todo \ {z}
    BY <1>1, <1>3 DEF Frame
  <2>2. /\ ToCreate' = ToCreate /\ ToWrite' = ToWrite /\ ToDrop' = ToDrop
        /\ ToSettle' = ToSettle /\ ToRemove' = ToRemove \ {z}
    BY <1>1, <2>1, OneLess
  <2>3. Creates' = Creates /\ Updates' = Updates
    BY <2>1, <2>2, CreatesKept
  <2>4. Deletes' = Deletes \cup {z}
    BY <1>1, <2>1, <2>2, TaskKept DEF Deletes
  <2>5. QED
    BY <2>3, <2>4 DEF Logged, Lines
<1>4. QED
  BY <1>1, <1>2, <1>3, LoggingWrites

\* What a pass knows when it compares zones.
LEMMA ComparingCourse ==
  ASSUME Inv, pc = "zones"
  PROVE  /\ zbf /\ ToSettle = todo /\ todo \subseteq DeclaredZones
         /\ known = Old \cup DeclaredNets /\ placed = Placed /\ created = NewZones
         /\ \A z \in start.zones \cap Zones :
              /\ DryRun => members[z] = {n \in Old : start.nets[n].zone = z}
              /\ ~DryRun => members[z] \ placed = {n \in Old \ PrunedNets : start.nets[n].zone = z} \ placed
         /\ ~DryRun => \A z \in NewZones : members[z] \ placed = {}
<1>1. ToCreate = {} /\ ToWrite = {} /\ ToSettle = todo
  BY DEF ToCreate, ToWrite, ToSettle, Beginning
<1>2. /\ zbf /\ todo \subseteq DeclaredZones /\ known = Old \cup DeclaredNets
      /\ created = NewZones /\ placed = Joined(created) \cup New
      /\ members = IF DryRun THEN Listed ELSE Relisted
  BY <1>1 DEF Inv, Course, Beginning
<1>3. placed = Placed
  BY <1>2 DEF Placed
<1>4. ASSUME DryRun, NEW z \in start.zones \cap Zones
      PROVE  members[z] = {n \in Old : start.nets[n].zone = z}
  BY <1>2, <1>4 DEF Listed
<1>5. ASSUME ~DryRun, NEW z \in (start.zones \cup NewZones) \cap Zones
      PROVE  members[z] \ placed = {n \in Old \ PrunedNets : start.nets[n].zone = z} \ placed
  <2>1. members[z] = {n \in (Old \cup DeclaredNets) \ PrunedNets : HomeNow(n) = z}
    BY <1>2, <1>5 DEF Relisted
  <2>2. \A n \in DeclaredNets \ placed : n \in Old
    BY <1>2 DEF New
  <2>3. \A n \in Old \ placed : HomeNow(n) = start.nets[n].zone
    BY DEF HomeNow
  <2>4. QED
    BY <2>1, <2>2, <2>3
<1>6. \A z \in NewZones, n \in Old : start.nets[n].zone # z
  BY TaskTypes, NamesAssumption DEF NewZones, Inv, Housed
<1>7. NewZones \subseteq Zones
  BY TaskTypes
<1>8. ~DryRun => \A z \in NewZones : members[z] \ placed = {}
  BY <1>5, <1>6, <1>7
<1>9. QED
  BY <1>1, <1>2, <1>3, <1>4, <1>5, <1>8

\* A new zone is as declared once its networks are in it.
LEMMA NewZoneLike ==
  ASSUME Inv, pc = "zones", ~DryRun, NEW z \in NewZones, doc.zones[z] \subseteq known
  PROVE  SameMembers(z)
<1>1. members[z] \ placed = {} /\ known = Old \cup DeclaredNets /\ placed = Placed
  BY ComparingCourse
<1>2. doc.zones[z] \subseteq Placed
  BY <1>1 DEF Placed, Joined, New
<1>3. QED
  BY <1>1, <1>2 DEF SameMembers

\* Both passes compare what the console had before the run.
LEMMA ComparesAlike ==
  ASSUME Inv, pc = "zones", DryRun \/ ~Odd, NEW z \in DeclaredZones, doc.zones[z] \subseteq known
  PROVE  z \in Unlike <=> z \in ReadZones /\ ~SameMembers(z)
<1>1. z \in Zones /\ zbf /\ placed = Placed
  BY ComparingCourse, TaskTypes
<1>2. CASE z \in start.zones
  <2>1. members[z] \ placed = {n \in Old : start.nets[n].zone = z} \ placed
    <3>1. CASE DryRun
      BY <1>1, <1>2, <3>1, ComparingCourse
    <3>2. CASE ~DryRun
      <4>1. members[z] \ placed = {n \in Old \ PrunedNets : start.nets[n].zone = z} \ placed
        BY <1>1, <1>2, <3>2, ComparingCourse
      <4>2. \A n \in PrunedNets : start.nets[n].zone # z
        BY <3>2 DEF Odd
      <4>3. QED
        BY <4>1, <4>2
    <3>3. QED
      BY <3>1, <3>2
  <2>2. z \in ReadZones
    BY <1>1, <1>2, ReadZonesFacts, TaskTypes
  <2>3. QED
    BY <1>1, <1>2, <2>1, <2>2 DEF Unlike, SameMembers
<1>3. CASE z \notin start.zones
  <2>1. z \in NewZones /\ z \notin Unlike
    BY <1>1, <1>3 DEF NewZones, Unlike
  <2>2. CASE DryRun
    BY <1>3, <2>1, <2>2, ReadZonesFacts
  <2>3. CASE ~DryRun
    BY <2>1, <2>3, NewZoneLike
  <2>4. QED
    BY <2>2, <2>3
<1>4. QED
  BY <1>2, <1>3

LEMMA LoggingUpdateZone == ASSUME Inv, Logging, NEW z \in Zones, UpdateZone(z) PROVE Logging'
<1>1. /\ pc = "zones" /\ z \in todo /\ z \in DeclaredZones /\ Frame
      /\ ~ZoneFault(z) /\ z \in ReadZones /\ ~SameMembers(z)
      /\ lines' = lines \cup {<<"UPDATE", z>>}
      /\ pc' = "failed" \/ (pc' = pc /\ todo' = todo \ {z})
  BY UpdateZoneCases DEF Passed, Failed, End
<1>2. ASSUME DryRun \/ ~Odd PROVE z \in Unlike
  BY <1>1, <1>2, ComparesAlike DEF ZoneFault
<1>3. ASSUME DryRun \/ ~Odd PROVE <<"UPDATE", z>> \in Due
  BY <1>2, <1>3 DEF Due, Lines
<1>4. ASSUME DryRun \/ ~Odd, Running' PROVE Logged' = Logged \cup {<<"UPDATE", z>>}
  <2>1. UNCHANGED <<doc, start, zbf, pc>> /\ todo' = todo \ {z}
    BY <1>1, <1>4 DEF Frame
  <2>2. /\ ToCreate' = ToCreate /\ ToWrite' = ToWrite /\ ToDrop' = ToDrop
        /\ ToSettle' = ToSettle \ {z} /\ ToRemove' = ToRemove
    BY <1>1, <2>1, OneLess
  <2>3. Creates' = Creates /\ Deletes' = Deletes
    BY <2>1, <2>2, CreatesKept
  <2>4. Updates' = Updates \cup {z}
    BY <1>2, <1>4, <2>1, <2>2, DueKept DEF Updates
  <2>5. QED
    BY <2>3, <2>4 DEF Logged, Lines
<1>5. QED
  BY <1>1, <1>3, <1>4, LoggingWrites

LEMMA LoggingZoneOK == ASSUME Inv, Logging, NEW z \in Zones, ZoneOK(z) PROVE Logging'
<1>1. /\ pc = "zones" /\ z \in todo /\ pc' = pc /\ todo' = todo \ {z} /\ ~ZoneFault(z)
      /\ z \in ReadZones => SameMembers(z)
      /\ UNCHANGED <<doc, start, zbf, pass, planned, lines>>
  BY DEF ZoneOK, console
<1>2. ASSUME DryRun \/ ~Odd PROVE z \notin Unlike
  BY <1>1, <1>2, ComparesAlike, ComparingCourse DEF ZoneFault
<1>3. /\ ToCreate' = ToCreate /\ ToWrite' = ToWrite /\ ToDrop' = ToDrop
      /\ ToSettle' = ToSettle \ {z} /\ ToRemove' = ToRemove
  BY <1>1, OneLess
<1>4. Creates' = Creates /\ Deletes' = Deletes
  BY <1>1, <1>3, CreatesKept
<1>5. DryRun \/ ~Odd => Updates' = Updates
  BY <1>1, <1>2, <1>3, DueKept DEF Updates
<1>6. QED
  BY <1>1, <1>4, <1>5, LoggingKept DEF Logged

LEMMA LoggingFinishPlan == ASSUME Inv, Logging, FinishPlan PROVE Logging'
<1>1. /\ UNCHANGED <<doc, start, zbf>> /\ planned'.lines = lines /\ Running /\ pass = "plan"
      /\ PassDone
  BY DEF FinishPlan, console, PassDone
<1>2. lines = Due /\ Due' = Due
  BY <1>1, LoggedDue, DueKept DEF Logging
<1>3. CASE BeginPass("write")
  <2>1. pc' = "readNets" /\ lines' = {} /\ pass' = "write"
    BY <1>3 DEF BeginPass
  <2>2. QED
    BY <1>1, <1>2, <2>1, LoggedNone DEF Logging
<1>4. CASE lines = {} /\ End("clean") /\ pass' = pass
  BY <1>1, <1>2, <1>4 DEF End, Logging
<1>5. QED
  BY <1>3, <1>4 DEF FinishPlan

LEMMA LoggingFinishWrite == ASSUME Inv, Logging, FinishWrite PROVE Logging'
<1>1. /\ UNCHANGED <<doc, start, zbf, pass, planned, lines>> /\ Running /\ pass = "write"
      /\ PassDone /\ pc' = "applied"
  BY DEF FinishWrite, console, End, PassDone
<1>2. Due' = Due /\ Odd' = Odd /\ (~Odd => lines = Due) /\ planned.lines = Due
  BY <1>1, LoggedDue, DueKept DEF Logging
<1>3. QED
  BY <1>1, <1>2 DEF Logging

LEMMA LoggingNext == ASSUME Inv, Logging, [Next]_vars PROVE Logging'
<1>1. CASE StartRun
  <2>1. pc' = "readNets" /\ lines' = {} /\ pass' = "plan"
    BY <1>1 DEF StartRun, BeginPass
  <2>2. QED
    BY <2>1, LoggedNone DEF Logging
<1>2. CASE Turns
  <2>1. /\ UNCHANGED <<doc, start, zbf, pass, planned, lines>> /\ Running /\ Running'
        /\ ToCreate' = ToCreate /\ ToWrite' = ToWrite /\ ToDrop' = ToDrop
        /\ ToSettle' = ToSettle /\ ToRemove' = ToRemove
    BY <1>2, TurnsKeep DEF console
  <2>2. Logged' = Logged
    BY <2>1, CreatesKept DEF Logged
  <2>3. QED
    BY <2>1, <2>2, LoggingKept
<1>3. CASE Halts
  <2>1. UNCHANGED <<doc, start, zbf, pass, planned, lines>> /\ pc' \in {"failed", "killed"} /\ Running
    BY <1>3 DEF Halts, RefuseHomeless, Kill, RefuseZone, FailZone, End, console
  <2>2. QED
    BY <2>1, LoggingKept
<1>4. CASE UNCHANGED vars
  <2>1. UNCHANGED <<doc, start, zbf, pass, planned, lines, pc, todo>>
    BY <1>4 DEF vars, console, reading
  <2>2. /\ ToCreate' = ToCreate /\ ToWrite' = ToWrite /\ ToDrop' = ToDrop
        /\ ToSettle' = ToSettle /\ ToRemove' = ToRemove
    BY <2>1, TaskKept DEF ToCreate, ToWrite, ToDrop, ToSettle, ToRemove, Beginning
  <2>3. Logged' = Logged /\ Due' = Due /\ Odd' = Odd
    BY <2>1, <2>2, CreatesKept, DueKept DEF Logged
  <2>4. QED
    BY <2>1, <2>3 DEF Logging
<1>5. QED
  BY <1>1, <1>2, <1>3, <1>4, StepCases, LoggingFinishPlan, LoggingFinishWrite, LoggingCreateNetwork,
     LoggingNetworkOK, LoggingUpdateNetwork, LoggingDeleteNetwork, LoggingCreateZone, LoggingZoneOK,
     LoggingUpdateZone, LoggingDeleteZone DEF Turns

LEMMA TallyInvariant == Spec => []Tally
<1>1. Init => Counting /\ Logging
  BY DEF Init, Counting, Logging
<1>2. QED
  BY <1>1, CountingNext, LoggingNext, Invariance, PTL DEF Spec, Tally

-----------------------------------------------------------------------------
(* Moves *)

Excused(n) ==
  \/ <<"UPDATE", nets[n].zone>> \in planned.lines
  \/ <<"UPDATE", start.nets[n].zone>> \in planned.lines
  \/ <<"DELETE", start.nets[n].zone>> \in planned.lines

\* A network that has left its zone was moved by the create of its new zone, or
\* a planned line of one of the two zones says so.
MoveOf(n) ==
  /\ nets[n].zone \in {start.nets[n].zone, DeclaredZone(n), NoZone}
  /\ nets[n].zone # start.nets[n].zone /\ start.nets[n].zone # NoZone
     => n \in MoversOf(NewZones) \/ Excused(n)

Moving == pass = "write" => \A n \in LiveNets \cap Old : MoveOf(n)

\* A zone that the writing pass has carried out an update of was planned to be.
LEMMA WrittenIsUnlike ==
  ASSUME Inv, pc = "zones", pass = "write", NEW z \in DeclaredZones,
         ~SameMembers(z), doc.zones[z] \subseteq LiveNets
  PROVE  z \in Unlike
<1>1. z \in Zones /\ zbf /\ placed = Placed /\ known = Old \cup DeclaredNets
  BY ComparingCourse, TaskTypes
<1>2. LiveNets = (Old \cup DeclaredNets) \ PrunedNets
  BY ZonesWritten
<1>3. z \in start.zones
  BY <1>1, <1>2, NewZoneLike DEF NewZones
<1>4. members[z] \ placed = {n \in Old \ PrunedNets : start.nets[n].zone = z} \ placed
  BY <1>1, <1>3, ComparingCourse
<1>5. ASSUME {n \in Old : start.nets[n].zone = z} \ Placed = doc.zones[z] \ Placed
      PROVE  SameMembers(z)
  <2>1. \A n \in PrunedNets : n \notin doc.zones[z]
    BY <1>2
  <2>2. PrunedNets \subseteq Old
    BY TaskTypes
  <2>3. {n \in Old \ PrunedNets : start.nets[n].zone = z} \ placed = doc.zones[z] \ placed
    BY <1>1, <1>5, <2>1, <2>2
  <2>4. QED
    BY <1>4, <2>3 DEF SameMembers
<1>6. QED
  BY <1>1, <1>3, <1>5 DEF Unlike

\* A network that stays where it is.
LEMMA MoveOfKept ==
  ASSUME UNCHANGED <<doc, start, zbf, planned>>, NEW n, nets'[n].zone = nets[n].zone, MoveOf(n)
  PROVE  MoveOf(n)'
<1>1. DeclaredZone(n)' = DeclaredZone(n) /\ MoversOf(NewZones)' = MoversOf(NewZones)
  BY TaskKept, DueKept
<1>2. QED
  BY <1>1 DEF MoveOf, Excused

\* A step of the writing pass that moves no network.
LEMMA MovingKept ==
  ASSUME Moving, UNCHANGED <<doc, start, zbf, pass, planned>>,
         \A n \in LiveNets' \cap Old : n \in LiveNets /\ nets'[n].zone = nets[n].zone
  PROVE  Moving'
<1>1. Old' = Old
  BY TaskKept
<1>2. QED
  BY <1>1, MoveOfKept DEF Moving

LEMMA MovingCreateZone ==
  ASSUME Inv, Moving, NEW z \in Zones, CreateZone(z), pass = "write",
         PutZone(z, doc.zones[z] \cap Old), doc.zones[z] \cap Old \subseteq LiveNets
  PROVE  Moving'
<1>1. /\ pc = "creating" /\ z \in todo /\ z \in NewZones /\ z \in DeclaredZones /\ z \notin start.zones
      /\ UNCHANGED <<doc, start, zbf, pass, planned>>
  BY CreateZoneCases, TaskTypes DEF Frame, NewZones
<1>2. LiveNets = Old /\ zones = start.zones \cup (NewZones \ todo)
  BY <1>1, CreatingCourse
<1>3. \A n \in LiveNets : nets[n].zone # z
  BY <1>1, <1>2, TaskTypes, NamesAssumption DEF Inv, Housed
<1>4. /\ LiveNets' = LiveNets
      /\ \A n \in LiveNets :
           nets'[n].zone = IF n \in doc.zones[z] \cap Old THEN z ELSE nets[n].zone
  <2>1. doc.zones[z] \cap Old \in SUBSET LiveNets
    OBVIOUS
  <2>2. QED
    BY <1>1, <1>3, <2>1, PutZoneFacts
<1>5. ASSUME NEW n \in LiveNets \cap Old
      PROVE  MoveOf(n)'
  <2>1. CASE n \in doc.zones[z]
    <3>1. n \in Nets /\ DeclaredZone(n) = z
      BY <1>1, <1>5, <2>1, DeclaredZoneFacts DEF Old, Inv
    <3>2. start.nets[n].zone # NoZone => n \in MoversOf(NewZones)
      BY <1>1, <1>5, <2>1 DEF Inv, Housed, MoversOf
    <3>3. nets'[n].zone = z /\ DeclaredZone(n)' = z /\ MoversOf(NewZones)' = MoversOf(NewZones)
      BY <1>1, <1>4, <1>5, <2>1, <3>1, TaskKept, DueKept
    <3>4. QED
      BY <1>1, <3>2, <3>3 DEF MoveOf
  <2>2. CASE n \notin doc.zones[z]
    BY <1>1, <1>4, <1>5, <2>2, MoveOfKept DEF Moving
  <2>3. QED
    BY <2>1, <2>2
<1>6. QED
  BY <1>1, <1>4, <1>5, TaskKept DEF Moving

LEMMA MovingUpdateZone ==
  ASSUME Inv, Logging, Moving, NEW z \in Zones, UpdateZone(z), pass = "write",
         PutZone(z, doc.zones[z]), doc.zones[z] \subseteq LiveNets
  PROVE  Moving'
<1>1. /\ pc = "zones" /\ z \in DeclaredZones /\ z # NoZone /\ ~SameMembers(z)
      /\ UNCHANGED <<doc, start, zbf, pass, planned>>
  BY UpdateZoneCases, NamesAssumption DEF Frame
<1>2. <<"UPDATE", z>> \in planned.lines
  <2>1. z \in Unlike
    BY <1>1, WrittenIsUnlike
  <2>2. QED
    BY <2>1 DEF Logging, Due, Lines
<1>3. /\ LiveNets' = LiveNets
      /\ \A n \in LiveNets :
           nets'[n].zone = IF n \in doc.zones[z] THEN z
                           ELSE IF nets[n].zone = z THEN NoZone ELSE nets[n].zone
  <2>1. doc.zones[z] \in SUBSET LiveNets
    OBVIOUS
  <2>2. QED
    BY <1>1, <2>1, PutZoneFacts
<1>4. ASSUME NEW n \in LiveNets \cap Old
      PROVE  MoveOf(n)'
  <2>1. n \in Nets /\ (n \in doc.zones[z] <=> DeclaredZone(n) = z) /\ DeclaredZone(n)' = DeclaredZone(n)
    BY <1>1, DeclaredZoneFacts, TaskKept DEF Old, Inv
  <2>2. CASE n \in doc.zones[z]
    <3>1. nets'[n].zone = z
      BY <1>3, <2>2
    <3>2. QED
      BY <1>1, <1>2, <2>1, <2>2, <3>1 DEF MoveOf, Excused
  <2>3. CASE n \notin doc.zones[z] /\ nets[n].zone = z
    <3>1. nets'[n].zone = NoZone /\ start.nets[n].zone = z
      BY <1>1, <1>3, <2>1, <2>3 DEF Moving, MoveOf
    <3>2. QED
      BY <1>1, <1>2, <3>1 DEF MoveOf, Excused
  <2>4. CASE n \notin doc.zones[z] /\ nets[n].zone # z
    BY <1>1, <1>3, <2>4, MoveOfKept DEF Moving
  <2>5. QED
    BY <2>2, <2>3, <2>4
<1>5. QED
  BY <1>1, <1>3, <1>4, TaskKept DEF Moving

LEMMA MovingDeleteZone ==
  ASSUME Inv, Logging, Moving, NEW z \in Zones, DeleteZone(z), pass = "write", DropZone(z)
  PROVE  Moving'
<1>1. /\ pc = "pruneZones" /\ z \in PrunedZones /\ z \notin DeclaredZones /\ z # NoZone
      /\ UNCHANGED <<doc, start, zbf, pass, planned>>
  BY DeleteZoneCases, TaskTypes, NamesAssumption DEF Frame
<1>2. <<"DELETE", z>> \in planned.lines
  BY <1>1 DEF Logging, Due, Lines
<1>3. /\ LiveNets' = LiveNets
      /\ \A n \in LiveNets : nets'[n].zone = IF nets[n].zone = z THEN NoZone ELSE nets[n].zone
  BY <1>1, DropZoneFacts
<1>4. ASSUME NEW n \in LiveNets \cap Old
      PROVE  MoveOf(n)'
  <2>1. CASE nets[n].zone = z
    <3>1. DeclaredZone(n) # z
      BY <1>1, DeclaredZoneFacts DEF Old, Inv
    <3>2. nets'[n].zone = NoZone /\ start.nets[n].zone = z
      BY <1>1, <1>3, <2>1, <3>1 DEF Moving, MoveOf
    <3>3. QED
      BY <1>1, <1>2, <3>2 DEF MoveOf, Excused
  <2>2. CASE nets[n].zone # z
    BY <1>1, <1>3, <2>2, MoveOfKept DEF Moving
  <2>3. QED
    BY <2>1, <2>2
<1>5. QED
  BY <1>1, <1>3, <1>4, TaskKept DEF Moving

LEMMA MovingNetworks ==
  ASSUME Inv, Moving, pass = "write", NEW n \in Nets,
         CreateNetwork(n) \/ UpdateNetwork(n) \/ DeleteNetwork(n)
  PROVE  Moving'
<1>1. UNCHANGED <<doc, start, zbf, pass, planned>>
  BY DEF CreateNetwork, UpdateNetwork, DeleteNetwork
<1>2. nets \in [Nets -> {Absent} \cup Network] /\ LiveNets \subseteq Nets
  BY TaskTypes DEF LiveNets
<1>3. CASE UNCHANGED nets
  <2>1. LiveNets' = LiveNets
    BY <1>3 DEF LiveNets
  <2>2. QED
    BY <1>1, <1>3, <2>1, MovingKept
<1>4. CASE CreateNetwork(n) /\ PutNetwork(n, doc.nets[n], Birthplace(n))
  <2>1. n \notin Old
    BY <1>4, CreateNetworkCases DEF New
  <2>2. \A m \in Nets \ {n} : nets'[m] = nets[m]
    BY <1>2, <1>4 DEF PutNetwork
  <2>3. \A m \in LiveNets' \cap Old : m \in LiveNets /\ nets'[m].zone = nets[m].zone
    BY <2>1, <2>2 DEF LiveNets
  <2>4. QED
    BY <1>1, <2>3, MovingKept
<1>5. CASE UpdateNetwork(n) /\ PutNetwork(n, doc.nets[n], nets[n].zone)
  <2>1. n \in LiveNets
    BY <1>5, UpdateNetworkCases
  <2>2. \A m \in LiveNets : nets'[m].zone = nets[m].zone
    BY <1>5, UpdateMovesNothing
  <2>3. \A m \in Nets \ {n} : nets'[m] = nets[m]
    BY <1>2, <1>5 DEF PutNetwork
  <2>4. LiveNets' \subseteq LiveNets
    BY <2>1, <2>3 DEF LiveNets
  <2>5. QED
    BY <1>1, <2>2, <2>4, MovingKept
<1>6. CASE DeleteNetwork(n) /\ DropNetwork(n)
  <2>1. nets'[n] = Absent /\ \A m \in Nets \ {n} : nets'[m] = nets[m]
    BY <1>2, <1>6 DEF DropNetwork
  <2>2. \A m \in LiveNets' \cap Old : m \in LiveNets /\ nets'[m].zone = nets[m].zone
    BY <2>1 DEF LiveNets
  <2>3. QED
    BY <1>1, <2>2, MovingKept
<1>7. QED
  BY <1>3, <1>4, <1>5, <1>6, CreateNetworkCases, UpdateNetworkCases, DeleteNetworkCases DEF Dry

LEMMA MovingZones ==
  ASSUME Inv, Logging, Moving, pass = "write", NEW z \in Zones,
         CreateZone(z) \/ UpdateZone(z) \/ DeleteZone(z)
  PROVE  Moving'
<1>1. CASE UNCHANGED nets
  <2>1. UNCHANGED <<doc, start, zbf, pass, planned>>
    BY DEF CreateZone, UpdateZone, DeleteZone
  <2>2. LiveNets' = LiveNets
    BY <1>1 DEF LiveNets
  <2>3. QED
    BY <1>1, <2>1, <2>2, MovingKept
<1>2. CASE CreateZone(z) /\ ~UNCHANGED nets
  BY <1>2, CreateZoneCases, MovingCreateZone DEF Dry
<1>3. CASE UpdateZone(z) /\ ~UNCHANGED nets
  BY <1>3, UpdateZoneCases, MovingUpdateZone DEF Dry
<1>4. CASE DeleteZone(z) /\ ~UNCHANGED nets
  BY <1>4, DeleteZoneCases, MovingDeleteZone DEF Dry
<1>5. QED
  BY <1>1, <1>2, <1>3, <1>4

LEMMA MovingNext == ASSUME Inv, Logging, Moving, [Next]_vars PROVE Moving'
<1>1. CASE StartRun
  BY <1>1 DEF StartRun, BeginPass, Moving
<1>2. CASE FinishPlan
  <2>1. CASE pass' = "write"
    <3>1. nets' = start'.nets
      BY <1>2 DEF FinishPlan, console, Inv, Unwritten
    <3>2. QED
      BY <3>1 DEF Moving, MoveOf
  <2>2. CASE pass' # "write"
    BY <2>2 DEF Moving
  <2>3. QED
    BY <2>1, <2>2
<1>3. CASE \/ Turns \/ FinishWrite \/ Halts \/ UNCHANGED vars
           \/ \E n \in Nets : NetworkOK(n)
           \/ \E z \in Zones : ZoneOK(z)
  <2>1. UNCHANGED <<console, doc, start, pass, planned>>
    <3>1. CASE Turns
      BY <3>1, TurnsKeep
    <3>2. CASE FinishWrite
      BY <3>2 DEF FinishWrite
    <3>3. CASE Halts
      BY <3>3 DEF Halts, RefuseHomeless, Kill, RefuseZone, FailZone
    <3>4. CASE UNCHANGED vars
      BY <3>4 DEF vars
    <3>5. CASE (\E n \in Nets : NetworkOK(n)) \/ (\E z \in Zones : ZoneOK(z))
      BY <3>5 DEF NetworkOK, ZoneOK
    <3>6. QED
      BY <1>3, <3>1, <3>2, <3>3, <3>4, <3>5
  <2>2. UNCHANGED <<nets, zbf, doc, start, pass, planned>> /\ LiveNets' = LiveNets
    BY <2>1 DEF console, LiveNets
  <2>3. QED
    BY <2>2, MovingKept
<1>4. ASSUME NEW n \in Nets, CreateNetwork(n) \/ UpdateNetwork(n) \/ DeleteNetwork(n)
      PROVE  Moving'
  <2>1. pass' = pass
    BY <1>4 DEF CreateNetwork, UpdateNetwork, DeleteNetwork
  <2>2. QED
    BY <1>4, <2>1, MovingNetworks DEF Moving
<1>5. ASSUME NEW z \in Zones, CreateZone(z) \/ UpdateZone(z) \/ DeleteZone(z)
      PROVE  Moving'
  <2>1. pass' = pass
    BY <1>5 DEF CreateZone, UpdateZone, DeleteZone
  <2>2. QED
    BY <1>5, <2>1, MovingZones DEF Moving
<1>6. QED
  BY <1>1, <1>2, <1>3, <1>4, <1>5, StepCases DEF Turns

LEMMA MovingInvariant == Spec => []Moving
<1>1. Init => Moving
  BY DEF Init, Moving
<1>2. Tally => Logging
  BY DEF Tally
<1>3. QED
  BY <1>1, <1>2, MovingNext, Invariance, TallyInvariant, PTL DEF Spec

\* --max-changes bounds moves too: every network the writing pass takes out of
\* a zone is in a planned UPDATE of that zone or of the one it goes to, goes
\* with its zone's DELETE, or was counted one by one (createZones).
THEOREM MovesCounted == Spec => []MovesAreCounted
<1>1. Inv /\ Tally /\ Moving => MovesAreCounted
  <2> SUFFICES ASSUME Inv, Tally, Moving, pass = "write"
               PROVE  MovesAreCounted
    BY DEF MovesAreCounted
  <2> DEFINE Unexcused == {n \in LiveNets :
               LET from == start.nets[n].zone
               IN  /\ start.nets[n] # Absent /\ from # NoZone /\ nets[n].zone # from
                   /\ <<"UPDATE", nets[n].zone>> \notin planned.lines
                   /\ <<"UPDATE", from>> \notin planned.lines
                   /\ <<"DELETE", from>> \notin planned.lines}
  <2>1. Unexcused \in SUBSET MoversOf(NewZones)
    BY DEF Moving, MoveOf, Excused, Old, LiveNets
  <2>2. Cardinality(Unexcused) <= Cardinality(MoversOf(NewZones))
    BY <2>1, MoversOfFinite, FS_Subset
  <2>3. planned.moves = Cardinality(MoversOf(NewZones))
    BY DEF Tally, Counting
  <2>4. Cardinality(Unexcused) <= planned.moves
    BY <2>2, <2>3
  <2>5. QED
    BY <2>4 DEF MovesAreCounted
<1>2. QED
  BY <1>1, Invariance, TallyInvariant, MovingInvariant, PTL

\* What the writing pass prints is the plan, unless the plan deletes a network
\* out of a declared zone.
THEOREM PlanExact == Spec => []PlanIsExact
<1>1. Inv /\ Tally => PlanIsExact
  <2> SUFFICES ASSUME Inv, Tally, pass = "write"
               PROVE  PlanIsExact
    BY DEF PlanIsExact, WritesThePlan
  <2>1. CASE Odd
    <3>1. PICK n \in PrunedNets : start.nets[n].zone \in DeclaredZones
      BY <2>1 DEF Odd
    <3>2. n \in Nets /\ <<"DELETE", n>> \in Due
      BY TaskTypes DEF Due, Lines
    <3>3. QED
      BY <3>1, <3>2 DEF Tally, Logging, PlanIsExact, DeletesMember
  <2>2. CASE ~Odd
    BY <2>2 DEF Tally, Counting, Logging, PlanIsExact, WritesThePlan
  <2>3. QED
    BY <2>1, <2>2
<1>2. QED
  BY <1>1, Invariance, TallyInvariant, PTL

-----------------------------------------------------------------------------
(***************************************************************************)
(* What is planned is carried out.                                         *)
(***************************************************************************)

\* What the planning pass has checked, it has checked for the writing pass.
Checked ==
  zbf /\ Running =>
    /\ pass = "write" => \A n \in New : DeclaredZone(n) # NoZone
    /\ \A z \in DeclaredZones :
         pass = "write" \/ z \notin ToSettle =>
           doc.zones[z] \subseteq Old \cup DeclaredNets /\ (z \in Unlike => z \notin Fixed)

LEMMA CheckedKept ==
  ASSUME Inv, Checked, UNCHANGED <<doc, start, zbf, pass>>, Running' => Running,
         Running' /\ pass = "plan" => ToSettle' = ToSettle
  PROVE  Checked'
<1>1. /\ New' = New /\ Old' = Old /\ DeclaredNets' = DeclaredNets /\ DeclaredZones' = DeclaredZones
      /\ Unlike' = Unlike /\ \A n : DeclaredZone(n)' = DeclaredZone(n)
  BY TaskKept, DueKept
<1>2. pass = "plan" \/ pass = "write"
  BY DEF Inv, TypeOK
<1>3. QED
  BY <1>1, <1>2 DEF Checked

LEMMA CheckedZone ==
  ASSUME Inv, Checked, NEW z \in Zones, ZoneOK(z) \/ UpdateZone(z)
  PROVE  Checked'
<1>1. /\ UNCHANGED <<doc, start, zbf, pass>> /\ pc = "zones" /\ z \in todo /\ ~ZoneFault(z)
      /\ pc' = "failed" \/ (pc' = pc /\ todo' = todo \ {z})
      /\ z \in ReadZones /\ ~SameMembers(z) => z \notin Fixed
  BY DEF ZoneOK, UpdateZone, console, End, ZoneFault
<1>2. CASE pass = "plan" /\ Running'
  <2>1. z \in DeclaredZones /\ doc.zones[z] \subseteq known /\ known = Old \cup DeclaredNets
    BY <1>1, ComparingCourse DEF ZoneFault
  <2>2. z \in Unlike => z \notin Fixed
    BY <1>1, <1>2, <2>1, ComparesAlike
  <2>3. ToSettle' = ToSettle \ {z}
    BY <1>1, <1>2, OneLess
  <2>4. /\ Old' = Old /\ DeclaredNets' = DeclaredNets /\ DeclaredZones' = DeclaredZones
        /\ Unlike' = Unlike
    BY <1>1, TaskKept, DueKept
  <2>5. QED
    BY <1>1, <1>2, <2>1, <2>2, <2>3, <2>4 DEF Checked
<1>3. CASE pass # "plan" \/ ~Running'
  BY <1>1, <1>3, CheckedKept
<1>4. QED
  BY <1>2, <1>3

LEMMA CheckedFinishPlan == ASSUME Inv, Checked, FinishPlan PROVE Checked'
<1>1. UNCHANGED <<doc, start, zbf>> /\ Running /\ PassDone
  BY DEF FinishPlan, console, PassDone
<1>2. /\ New' = New /\ Old' = Old /\ DeclaredNets' = DeclaredNets /\ DeclaredZones' = DeclaredZones
      /\ Unlike' = Unlike /\ \A n : DeclaredZone(n)' = DeclaredZone(n)
  BY <1>1, TaskKept, DueKept
<1>3. zbf => \A n \in New : DeclaredZone(n) # NoZone
  BY <1>1 DEF Inv, Course, PassDone, Beginning
<1>4. ToSettle = {}
  BY <1>1, NothingLeft
<1>5. QED
  BY <1>1, <1>2, <1>3, <1>4 DEF Checked

LEMMA CheckedNext == ASSUME Inv, Checked, [Next]_vars PROVE Checked'
<1>1. CASE StartRun
  <2>1. pc' = "readNets" /\ pass' = "plan"
    BY <1>1 DEF StartRun, BeginPass
  <2>2. zbf' => ToSettle' = DeclaredZones'
    BY <2>1 DEF ToSettle, Beginning
  <2>3. QED
    BY <2>1, <2>2 DEF Checked
<1>2. CASE Turns
  <2>1. UNCHANGED <<doc, start, zbf, pass>> /\ Running /\ ToSettle' = ToSettle
    BY <1>2, TurnsKeep DEF console
  <2>2. QED
    BY <2>1, CheckedKept
<1>3. CASE Halts \/ FinishWrite
  <2>1. UNCHANGED <<doc, start, zbf, pass>> /\ ~Running'
    BY <1>3 DEF Halts, RefuseHomeless, Kill, RefuseZone, FailZone, FinishWrite, End, console
  <2>2. QED
    BY <2>1, CheckedKept
<1>4. ASSUME NEW x \in Nets \cup Zones,
             \/ x \in Nets /\ (CreateNetwork(x) \/ NetworkOK(x) \/ UpdateNetwork(x) \/ DeleteNetwork(x))
             \/ x \in Zones /\ (CreateZone(x) \/ DeleteZone(x))
      PROVE  Checked'
  <2>1. /\ UNCHANGED <<doc, start, zbf, pass>> /\ Running /\ pc # "zones"
        /\ pc' = "failed" \/ (pc' = pc /\ todo' = todo \ {x})
    BY <1>4 DEF CreateNetwork, NetworkOK, UpdateNetwork, DeleteNetwork, CreateZone, DeleteZone,
                console, End
  <2>2. Running' => ToSettle' = ToSettle
    BY <2>1, OneLess
  <2>3. QED
    BY <2>1, <2>2, CheckedKept
<1>5. CASE UNCHANGED vars
  <2>1. UNCHANGED <<doc, start, zbf, pass, pc, todo>>
    BY <1>5 DEF vars, console, reading
  <2>2. ToSettle' = ToSettle
    BY <2>1, TaskKept DEF ToSettle, Beginning
  <2>3. QED
    BY <2>1, <2>2, CheckedKept
<1>6. QED
  BY <1>1, <1>2, <1>3, <1>4, <1>5, CheckedFinishPlan, CheckedZone, StepCases DEF Turns

LEMMA CheckedInvariant == Spec => []Checked
<1>1. Init => Checked
  BY DEF Init, Checked
<1>2. QED
  BY <1>1, CheckedNext, Invariance, PTL DEF Spec

\* Unless the document contradicts itself, the networks a declared zone lists
\* are there when the writing pass comes to it.
LEMMA MembersLive ==
  ASSUME Inv, Checked, ~NamesPruned, zbf, Running, pass = "write", NEW z \in DeclaredZones
  PROVE  doc.zones[z] \subseteq (Old \cup DeclaredNets) \ PrunedNets
<1>1. doc.zones[z] \subseteq Old \cup DeclaredNets
  BY DEF Checked
<1>2. ASSUME NEW n \in doc.zones[z], n \in PrunedNets PROVE FALSE
  <2>1. doc.prune /\ n \in Old /\ n \notin DeclaredNets \cup Builtin
    BY <1>2 DEF PrunedNets
  <2>2. start.nets[n] # Absent
    BY <2>1 DEF Old
  <2>3. QED
    BY <1>2, <2>1, <2>2 DEF NamesPruned
<1>3. QED
  BY <1>1, <1>2

\* The zones of the document are there, and listed, when they are compared.
LEMMA ZonesThere ==
  ASSUME Inv, pc = "zones", pass = "write"
  PROVE  DeclaredZones \subseteq ReadZones /\ DeclaredZones \subseteq zones
<1>1. zbf /\ ToRemove = PrunedZones
  BY ComparingCourse DEF ToRemove, Beginning
<1>2. ReadZones = start.zones \cup NewZones /\ zones = start.zones \cup NewZones
  BY <1>1, ReadZonesFacts, ZonesWritten
<1>3. QED
  BY <1>1, <1>2, TaskTypes DEF NewZones

LEMMA NamesPrunedKept == ASSUME UNCHANGED <<doc, start, zbf>> PROVE NamesPruned' = NamesPruned
<1>1. DeclaredZones' = DeclaredZones /\ DeclaredNets' = DeclaredNets /\ doc' = doc /\ start' = start
  BY TaskKept
<1>2. QED
  BY <1>1 DEF NamesPruned

\* The writing pass refuses nothing.
LEMMA NothingRefused ==
  ASSUME Inv, Checked, ~NamesPruned, pass = "write"
  PROVE  /\ ~RefuseHomeless
         /\ \A z \in Zones : ~RefuseZone(z) /\ ~FailZone(z)
<1>1. ASSUME RefuseHomeless PROVE FALSE
  <2>1. pc = "createZones" /\ zbf /\ Homeless
    BY <1>1 DEF RefuseHomeless
  <2>2. ReadNets = Old
    BY <2>1 DEF ReadNets, Old, Inv, Course
  <2>3. QED
    BY <2>1, <2>2 DEF Homeless, New, Checked
<1>2. ASSUME NEW z \in Zones, RefuseZone(z) PROVE FALSE
  <2>1. pc = "creating" /\ z \in todo /\ ~(doc.zones[z] \subseteq ReadNets \cup DeclaredNets)
    BY <1>2 DEF RefuseZone, Unresolvable
  <2>2. ReadNets = Old /\ z \in DeclaredZones /\ zbf
    BY <2>1, CreatingCourse, TaskTypes
  <2>3. QED
    BY <2>1, <2>2 DEF Checked
<1>3. ASSUME NEW z \in Zones, FailZone(z) PROVE FALSE
  <2>1. pc = "zones" /\ z \in todo /\ ZoneFault(z)
    BY <1>3 DEF FailZone
  <2>2. z \in DeclaredZones /\ zbf /\ known = Old \cup DeclaredNets
    BY <2>1, ComparingCourse
  <2>3. doc.zones[z] \subseteq known /\ z \in ReadZones
    BY <2>1, <2>2, MembersLive, ZonesThere
  <2>4. ~SameMembers(z) /\ z \in Fixed
    BY <2>1, <2>3 DEF ZoneFault
  <2>5. doc.zones[z] \subseteq LiveNets
    BY <2>1, <2>2, MembersLive, ZonesWritten
  <2>6. z \in Unlike
    BY <2>1, <2>2, <2>4, <2>5, WrittenIsUnlike
  <2>7. QED
    BY <2>1, <2>2, <2>4, <2>6 DEF Checked
<1>4. QED
  BY <1>1, <1>2, <1>3

\* What the writing pass sends can be carried out: it fails by a fault.
LEMMA FailedByFault ==
  ASSUME Inv, Checked, ~NamesPruned, pass = "write", Running, pc' = "failed",
         \/ \E n \in Nets : CreateNetwork(n) \/ UpdateNetwork(n) \/ DeleteNetwork(n)
         \/ \E z \in Zones : CreateZone(z) \/ UpdateZone(z) \/ DeleteZone(z)
  PROVE  faults' > 0
<1>1. ASSUME NEW z \in Zones, UpdateZone(z) PROVE faults' > 0
  <2>1. pc = "zones" /\ z \in DeclaredZones
    BY <1>1, UpdateZoneCases
  <2>2. z \in zones
    BY <2>1, ZonesThere
  <2>3. zbf
    BY <2>1, ComparingCourse
  <2>4. doc.zones[z] \subseteq LiveNets
    BY <2>1, <2>3, MembersLive, ZonesWritten
  <2>5. ~Dry /\ ~Passed(z)
    BY DEF Dry, Passed
  <2>6. QED
    BY <1>1, <2>2, <2>4, <2>5, UpdateZoneCases
<1>2. ASSUME NEW n \in Nets, CreateNetwork(n) \/ UpdateNetwork(n) \/ DeleteNetwork(n)
      PROVE  faults' > 0
  <2>1. ~NetworkCreated(n) /\ ~Passed(n)
    BY DEF NetworkCreated, Passed
  <2>2. QED
    BY <1>2, <2>1, CreateNetworkCases, UpdateNetworkCases, DeleteNetworkCases
<1>3. ASSUME NEW z \in Zones, CreateZone(z) \/ DeleteZone(z) PROVE faults' > 0
  <2>1. ~ZoneCreated(z) /\ ~Passed(z)
    BY DEF ZoneCreated, Passed
  <2>2. QED
    BY <1>3, <2>1, CreateZoneCases, DeleteZoneCases
<1>4. QED
  BY <1>1, <1>2, <1>3

Whole == NamesPruned \/ NoHalfwayFailure

LEMMA WholeNext == ASSUME Inv, Checked, Whole, [Next]_vars PROVE Whole'
<1> SUFFICES ASSUME ~NamesPruned', pass' = "write", pc' = "failed" PROVE faults' > 0
  BY DEF Whole, NoHalfwayFailure
<1>1. ~StartRun /\ ~FinishPlan /\ ~FinishWrite /\ ~Turns
  BY TurnsKeep DEF StartRun, FinishPlan, FinishWrite, BeginPass, End
<1>2. CASE UNCHANGED vars
  <2>1. UNCHANGED <<doc, start, zbf, pass, pc, faults>>
    BY <1>2 DEF vars, console
  <2>2. QED
    BY <2>1, NamesPrunedKept DEF Whole, NoHalfwayFailure
<1>3. CASE Halts
  <2>1. UNCHANGED <<doc, start, zbf, pass>> /\ ~Kill
    BY <1>3 DEF Halts, RefuseHomeless, Kill, RefuseZone, FailZone, console, End
  <2>2. QED
    BY <1>3, <2>1, NamesPrunedKept, NothingRefused DEF Halts
<1>4. CASE \/ \E n \in Nets : CreateNetwork(n) \/ UpdateNetwork(n) \/ DeleteNetwork(n)
           \/ \E z \in Zones : CreateZone(z) \/ UpdateZone(z) \/ DeleteZone(z)
  <2>1. UNCHANGED <<doc, start, zbf, pass>> /\ Running
    BY <1>4 DEF CreateNetwork, UpdateNetwork, DeleteNetwork, CreateZone, UpdateZone, DeleteZone
  <2>2. QED
    BY <1>4, <2>1, NamesPrunedKept, FailedByFault
<1>5. CASE (\E n \in Nets : NetworkOK(n)) \/ (\E z \in Zones : ZoneOK(z))
  BY <1>5 DEF NetworkOK, ZoneOK
<1>6. QED
  BY <1>1, <1>2, <1>3, <1>4, <1>5, StepCases DEF Turns

-----------------------------------------------------------------------------
(* Success *)

\* A plan without a line: the console is as declared.
LEMMA CleanIsSettled == ASSUME Inv, Logging, pc = "clean" PROVE Settled(doc)
<1>1. nets = start.nets /\ zones = start.zones /\ Due = {}
  BY DEF Logging, Inv, Unwritten
<1>2. /\ NewZones = {} /\ New = {} /\ Diff = {} /\ Unlike = {}
      /\ PrunedNets = {} /\ PrunedZones = {}
  <2>1. /\ \A x \in NewZones \cup New : <<"CREATE", x>> \in Due
        /\ \A x \in Diff \cup Unlike : <<"UPDATE", x>> \in Due
        /\ \A x \in PrunedNets \cup PrunedZones : <<"DELETE", x>> \in Due
    BY DEF Due, Lines
  <2>2. QED
    BY <1>1, <2>1
<1>3. LiveNets = Old /\ Placed = {}
  BY <1>1, <1>2 DEF LiveNets, Old, Placed, Joined
<1>4. ASSUME NEW n \in Nets, doc.nets[n] # Absent
      PROVE  n \in LiveNets /\ nets[n].conf = doc.nets[n]
  BY <1>1, <1>2, <1>3, <1>4 DEF New, Diff, DeclaredNets
<1>5. doc.prune => \A n \in LiveNets \ Builtin : doc.nets[n] # Absent
  BY <1>2, <1>3 DEF PrunedNets, DeclaredNets
<1>6. ASSUME zbf, NEW z \in Zones, doc.zones[z] # Absent
      PROVE  z \in zones /\ {n \in LiveNets : nets[n].zone = z} = doc.zones[z]
  <2>1. z \in DeclaredZones /\ z \in start.zones
    BY <1>2, <1>6 DEF DeclaredZones, NewZones
  <2>2. {n \in Old : start.nets[n].zone = z} \ Placed = doc.zones[z] \ Placed
    BY <1>2, <1>6, <2>1 DEF Unlike
  <2>3. QED
    BY <1>1, <1>3, <2>1, <2>2
<1>7. zbf /\ doc.prune => \A z \in zones \ Builtin : doc.zones[z] # Absent
  BY <1>1, <1>2, TaskTypes DEF PrunedZones, DeclaredZones
<1>8. QED
  BY <1>4, <1>5, <1>6, <1>7 DEF Settled

\* A writing pass that is through with everything has settled the console.
LEMMA DoneIsSettled ==
  ASSUME Inv, Settling, Checked, ~NamesPruned, pass = "write", PassDone
  PROVE  Settled(doc)
<1>1. /\ ToCreate = {} /\ ToWrite = {} /\ ToDrop = {} /\ ToSettle = {} /\ ToRemove = {}
      /\ Running
  BY NothingLeft DEF PassDone
<1>2. /\ zones = (start.zones \cup NewZones) \ PrunedZones
      /\ LiveNets = (Old \cup DeclaredNets) \ PrunedNets
      /\ \A n \in LiveNets \cap DeclaredNets : nets[n].conf = doc.nets[n]
  BY <1>1 DEF Inv, Effects
<1>3. ASSUME NEW n \in Nets, doc.nets[n] # Absent
      PROVE  n \in LiveNets /\ nets[n].conf = doc.nets[n]
  BY <1>2, <1>3, TaskTypes DEF DeclaredNets
<1>4. doc.prune => \A n \in LiveNets \ Builtin : doc.nets[n] # Absent
  BY <1>2 DEF PrunedNets, DeclaredNets
<1>5. ASSUME zbf, NEW z \in Zones, doc.zones[z] # Absent
      PROVE  z \in zones /\ {n \in LiveNets : nets[n].zone = z} = doc.zones[z]
  <2>1. z \in DeclaredZones /\ pc = "pruneZones"
    BY <1>5 DEF DeclaredZones, PassDone, Inv, Course
  <2>2. z \in zones
    BY <1>2, <1>5, <2>1, TaskTypes DEF NewZones
  <2>3. In(z) = doc.zones[z] \cap LiveNets
    BY <1>1, <1>5, <2>1 DEF Settling
  <2>4. doc.zones[z] \subseteq LiveNets
    BY <1>1, <1>2, <1>5, <2>1, MembersLive
  <2>5. QED
    BY <2>2, <2>3, <2>4 DEF In
<1>6. zbf /\ doc.prune => \A z \in zones \ Builtin : doc.zones[z] # Absent
  BY <1>2, TaskTypes DEF PrunedZones, DeclaredZones, NewZones
<1>7. QED
  BY <1>3, <1>4, <1>5, <1>6 DEF Settled

Applied == pc = "applied" => NamesPruned \/ Settled(doc)

LEMMA AppliedNext ==
  ASSUME Inv, Settling, Checked, Applied, [Next]_vars
  PROVE  Applied'
<1> SUFFICES ASSUME pc' = "applied", ~NamesPruned' PROVE Settled(doc)'
  BY DEF Applied
<1>1. /\ UNCHANGED <<nets, zones, zbf, doc, start>>
      /\ pc = "applied" \/ (pass = "write" /\ PassDone)
  <2>1. CASE UNCHANGED vars
    BY <2>1 DEF vars, console
  <2>2. CASE FinishWrite
    BY <2>2 DEF FinishWrite, console
  <2>3. ~StartRun /\ ~FinishPlan /\ ~Halts /\ ~Turns
    BY TurnsKeep DEF StartRun, FinishPlan, BeginPass, End, Halts, RefuseHomeless, Kill, RefuseZone,
                     FailZone
  <2>4. \A n \in Nets : ~CreateNetwork(n) /\ ~NetworkOK(n) /\ ~UpdateNetwork(n) /\ ~DeleteNetwork(n)
    BY DEF CreateNetwork, NetworkOK, UpdateNetwork, DeleteNetwork, End
  <2>5. \A z \in Zones : ~CreateZone(z) /\ ~ZoneOK(z) /\ ~UpdateZone(z) /\ ~DeleteZone(z)
    BY DEF CreateZone, ZoneOK, UpdateZone, DeleteZone, End
  <2>6. QED
    BY <2>1, <2>2, <2>3, <2>4, <2>5, StepCases DEF Turns
<1>2. ~NamesPruned
  BY <1>1, NamesPrunedKept
<1>3. Settled(doc)
  BY <1>1, <1>2, DoneIsSettled DEF Applied
<1>4. LiveNets' = LiveNets
  BY <1>1 DEF LiveNets
<1>5. QED
  BY <1>1, <1>3, <1>4 DEF Settled

\* The plan is the truth about the run: what is written is what was planned,
\* nothing planned is refused after the first write, and success means that the
\* console is as declared (docs/unifi.md:41, zones_test.go).
THEOREM PlanCarriedOut == Spec => []PlanIsCarriedOut
<1>1. Spec => []Whole
  <2>1. Init => Whole
    BY DEF Init, Whole, NoHalfwayFailure
  <2>2. QED
    BY <2>1, WholeNext, Invariance, CheckedInvariant, PTL DEF Spec
<1>2. Spec => []Applied
  <2>1. Init => Applied
    BY DEF Init, Applied
  <2>2. QED
    BY <2>1, AppliedNext, Invariance, SettlingInvariant, CheckedInvariant, PTL DEF Spec
<1>3. Inv /\ Tally /\ PlanIsExact /\ Whole /\ Applied => PlanIsCarriedOut
  <2> SUFFICES ASSUME Inv, Tally, PlanIsExact, Whole, Applied, ~NamesPruned
               PROVE  NoHalfwayFailure /\ AppliedIsSettled
    BY DEF PlanIsCarriedOut
  <2>1. NoHalfwayFailure
    BY DEF Whole
  <2>2. AppliedIsSettled
    BY CleanIsSettled DEF AppliedIsSettled, Applied, Tally
  <2>3. QED
    BY <2>1, <2>2
<1>4. QED
  BY <1>1, <1>2, <1>3, Invariance, TallyInvariant, PlanExact, PTL
=============================================================================
