------------------------- MODULE LegacySectionsProofs -------------------------
(***************************************************************************)
(* Theorems about LegacySections for all clients, networks and documents,  *)
(* and any number of failures and changes on the console.                  *)
(***************************************************************************)
EXTENDS LegacySections, TLAPS

-----------------------------------------------------------------------------
(* The invariant *)

Lists == [nets : [Nets -> Flags \cup {None}], clients : [Macs -> Client \cup {None}],
          seen : [Macs -> Nets \cup {None, Gone}]]

\* What is left to do is of the section the run is in, and a section that is
\* not declared is not entered.
Pending ==
  /\ pc = "writeScope" => doc.mdns # None
  /\ pc = "writeNets"  => todo \subseteq DeclaredNets
  /\ pc = "pruneNets"  => todo \subseteq Nets
  /\ pc = "reserve"    => todo \subseteq DeclaredMacs
  /\ pc = "clear"      => todo \subseteq Macs \ DeclaredMacs /\ (todo # {} => opts.prune)
  /\ pc \in {"places", "reserve", "clear"} => "reservations" \in doc.sections /\ ~Malformed

\* A network the run has read and thinks to be there is there, or went since.
Dated == pc = "reserve" => NetsOf(read) \subseteq NetsOf(site) \cup stale

\* When networks are written, the declared scope is in force.
InForce ==
  doc.mdns # None /\ ~disturbed /\ pass = "write" /\ pc \in {"networks", "writeNets"}
    => site.scope = doc.mdns

\* What was read of m's reservation is still so.
Like(m) ==
  /\ m \in Reserved(read) <=> m \in Reserved(site)
  /\ m \in Reserved(read) => site.clients[m].ip = read.clients[m].ip

Held(m) == m \in Reserved(site) /\ site.clients[m].ip = doc.res[m].ip

\* The pass has written what it found missing, or found nothing missing.
Made == pass = "write" \/ lines = {}

AllHeld ==
  /\ ~Malformed
  /\ \A m \in Reserved(site) : m \in DeclaredMacs /\ Held(m)

\* Section by section, the reservations become those that are declared.
Progress ==
  /\ pc = "places"  => \A m \in Macs : Like(m)
  /\ pc = "reserve" => \A m \in Macs : m \in todo \/ m \notin DeclaredMacs => Like(m)
  /\ pc = "reserve" /\ Made => \A m \in DeclaredMacs \ todo : Held(m)
  /\ pc = "clear" /\ Made =>
       \A m \in Macs : IF m \in DeclaredMacs THEN Held(m) ELSE m \in todo \/ m \notin Reserved(site)
  /\ pc = "done" /\ Made => AllHeld
  /\ pc \in {"clean", "applied"} => AllHeld

Whole == ~disturbed /\ opts.prune /\ "reservations" \in doc.sections => Progress

Inv == TypeOK /\ Pending /\ Dated /\ InForce /\ Whole

-----------------------------------------------------------------------------
(* The console *)

LEMMA SetScope ==
  ASSUME NEW s, SiteOK(s), NEW x \in Scopes \cup {Unreadable}
  PROVE  SiteOK([s EXCEPT !.scope = x])
BY DEF SiteOK, Site, Known, Reserved, NetsOf

LEMMA SetFlag ==
  ASSUME NEW s, SiteOK(s), NEW n \in Nets, NEW f \in Flags
  PROVE  SiteOK([s EXCEPT !.nets[n] = f])
<1> DEFINE t == [s EXCEPT !.nets[n] = f]
<1>1. /\ t \in Site /\ t.clients = s.clients
      /\ t.nets[n] = f /\ \A x \in Nets \ {n} : t.nets[x] = s.nets[x]
  BY DEF SiteOK, Site
<1>2. f # None
  BY AbsentAssumption
<1>3. NetsOf(s) \subseteq NetsOf(t)
  BY <1>1, <1>2 DEF NetsOf
<1> HIDE DEF t
<1>4. Known(t) = Known(s) /\ Reserved(t) = Reserved(s)
  BY <1>1 DEF Known, Reserved
<1>5. QED
  BY <1>1, <1>3, <1>4 DEF SiteOK, t

LEMMA SetClient ==
  ASSUME NEW s, SiteOK(s), NEW m \in Macs, NEW c \in Client \cup {None},
         c # None => /\ c.net \in NetsOf(s) \cup {None, Gone}
                     /\ c.fixed => c.ip # None
  PROVE  SiteOK([s EXCEPT !.clients[m] = c])
<1> DEFINE t == [s EXCEPT !.clients[m] = c]
<1>1. /\ t \in Site /\ t.nets = s.nets
      /\ t.clients[m] = c /\ \A x \in Macs \ {m} : t.clients[x] = s.clients[x]
  BY DEF SiteOK, Site
<1> HIDE DEF t
<1>2. NetsOf(t) = NetsOf(s)
  BY <1>1 DEF NetsOf
<1>3. ASSUME NEW x \in Known(t) PROVE t.clients[x].net \in NetsOf(t) \cup {None, Gone}
  BY <1>1, <1>2 DEF Known, SiteOK
<1>4. ASSUME NEW x \in Reserved(t) PROVE t.clients[x].ip # None
  BY <1>1 DEF Known, Reserved, SiteOK
<1>5. QED
  BY <1>1, <1>3, <1>4 DEF SiteOK, t

LEMMA SetSeen ==
  ASSUME NEW s, SiteOK(s), NEW m \in Macs, NEW x \in Nets \cup {None, Gone}
  PROVE  SiteOK([s EXCEPT !.seen[m] = x])
BY DEF SiteOK, Site, Known, Reserved, NetsOf

\* A record that has its network cut off is still a record, and otherwise the same.
LEMMA CutOff ==
  ASSUME NEW c \in Client
  PROVE  LET d == [c EXCEPT !.net = Gone]
         IN  d \in Client /\ d # None /\ d.net = Gone /\ d.fixed = c.fixed /\ d.ip = c.ip
BY AbsentAssumption DEF Client

LEMMA DropFacts ==
  ASSUME NEW s, SiteOK(s), NEW n \in Nets
  PROVE  LET t == DropNetwork(s, n)
         IN  /\ SiteOK(t) /\ t.scope = s.scope
             /\ t.nets[n] = None /\ \A x \in Nets \ {n} : t.nets[x] = s.nets[x]
             /\ NetsOf(t) = NetsOf(s) \ {n}
             /\ Known(t) = Known(s) /\ Reserved(t) = Reserved(s)
             /\ \A m \in Known(s) : t.clients[m].ip = s.clients[m].ip
<1> DEFINE t == DropNetwork(s, n)
<1>1. /\ s.nets \in [Nets -> Flags \cup {None}] /\ s.clients \in [Macs -> Client \cup {None}]
      /\ s.seen \in [Macs -> Nets \cup {None, Gone}] /\ s.scope \in Scopes \cup {Unreadable}
      /\ s = [scope |-> s.scope, nets |-> s.nets, clients |-> s.clients, seen |-> s.seen]
  BY DEF SiteOK, Site
<1> DEFINE ns == [s.nets EXCEPT ![n] = None]
           cs == [m \in Macs |-> IF m \in Known(s) /\ s.clients[m].net = n
                                 THEN [s.clients[m] EXCEPT !.net = Gone] ELSE s.clients[m]]
           ss == [m \in Macs |-> IF s.seen[m] = n THEN Gone ELSE s.seen[m]]
<1>12. t = [[[s EXCEPT !.nets = ns] EXCEPT !.clients = cs] EXCEPT !.seen = ss]
  BY DEF DropNetwork
<1>13. t = [scope |-> s.scope, nets |-> ns, clients |-> cs, seen |-> ss]
  <2> HIDE DEF ns, cs, ss, t
  <2>1. QED
    BY <1>1, <1>12
<1>2. /\ t.scope = s.scope /\ t.nets = ns /\ t.clients = cs /\ t.seen = ss
      /\ t = [scope |-> t.scope, nets |-> t.nets, clients |-> t.clients, seen |-> t.seen]
  <2> HIDE DEF ns, cs, ss, t
  <2>1. QED
    BY <1>13
<1> HIDE DEF t
<1>3. ASSUME NEW m \in Macs
      PROVE  /\ t.clients[m] \in Client \cup {None}
             /\ t.clients[m] = None <=> s.clients[m] = None
             /\ s.clients[m] # None =>
                  /\ t.clients[m].fixed = s.clients[m].fixed /\ t.clients[m].ip = s.clients[m].ip
                  /\ t.clients[m].net = IF s.clients[m].net = n THEN Gone ELSE s.clients[m].net
  <2>1. CASE m \in Known(s) /\ s.clients[m].net = n
    <3>1. s.clients[m] \in Client /\ t.clients[m] = [s.clients[m] EXCEPT !.net = Gone]
      BY <1>1, <1>2, <2>1 DEF Known
    <3>2. QED
      BY <2>1, <3>1, CutOff DEF Known
  <2>2. CASE ~(m \in Known(s) /\ s.clients[m].net = n)
    BY <1>1, <1>2, <2>2 DEF Known
  <2>3. QED
    BY <2>1, <2>2
<1>4. t \in Site
  <2>1. t.clients \in [Macs -> Client \cup {None}]
    BY <1>2, <1>3
  <2>2. t.seen \in [Macs -> Nets \cup {None, Gone}]
    BY <1>1, <1>2
  <2>3. t.nets \in [Nets -> Flags \cup {None}]
    BY <1>1, <1>2
  <2>4. QED
    BY <1>1, <1>2, <2>1, <2>2, <2>3 DEF Site
<1>5. Known(t) = Known(s) /\ Reserved(t) = Reserved(s)
  BY <1>3 DEF Known, Reserved
<1>6. /\ t.nets[n] = None /\ \A x \in Nets \ {n} : t.nets[x] = s.nets[x]
      /\ NetsOf(t) = NetsOf(s) \ {n}
  BY <1>1, <1>2 DEF NetsOf
<1>7. ASSUME NEW m \in Known(t) PROVE t.clients[m].net \in NetsOf(t) \cup {None, Gone}
  BY <1>3, <1>5, <1>6 DEF Known, SiteOK
<1>8. ASSUME NEW m \in Reserved(t) PROVE t.clients[m].ip # None
  BY <1>3, <1>5 DEF Known, Reserved, SiteOK
<1>9. \A m \in Known(s) : t.clients[m].ip = s.clients[m].ip
  BY <1>3 DEF Known
<1>10. SiteOK(t)
  BY <1>4, <1>7, <1>8 DEF SiteOK
<1>11. QED
  BY <1>2, <1>5, <1>6, <1>9, <1>10 DEF t

-----------------------------------------------------------------------------
(* What steps have in common *)

\* Where the invariant says no more than the types.
LEMMA QuietInv ==
  ASSUME TypeOK',
         pc' \in {"idle", "refused", "failed", "stopped", "killed", "start", "mdns",
                  "snapshot", "reservations"}
  PROVE  Inv'
<1>1. Pending' /\ Dated' /\ InForce'
  BY DEF Pending, Dated, InForce
<1>2. Whole'
  BY DEF Whole, Progress
<1>3. QED
  BY <1>1, <1>2 DEF Inv

LEMMA NothingReadTyped == NothingRead \in Lists
BY DEF NothingRead, Lists

LEMMA EndFacts ==
  ASSUME NEW how, End(how)
  PROVE  pc' = how /\ read' \in Lists /\ todo' = {}
BY NothingReadTyped DEF End

LEMMA BeginPassFacts ==
  ASSUME NEW p, BeginPass(p)
  PROVE  pass' = p /\ pc' = "start" /\ read' \in Lists /\ todo' = {} /\ lines' = {} /\ unlisted' = {}
BY NothingReadTyped DEF BeginPass

\* A request in the planning pass does nothing; in the writing pass the console
\* carries it out, if it can, or not.
LEMMA MutateFacts ==
  ASSUME TypeOK, NEW acceptable \in BOOLEAN, NEW after, NEW answer \in Answers,
         Mutate(acceptable, after, answer)
  PROVE  /\ faults' \in 0..MaxTroubles
         /\ site' = site \/ (pass = "write" /\ acceptable /\ site' = after)
         /\ pass = "plan" => site' = site
         /\ pass = "write" /\ answer = "done" => acceptable /\ site' = after
<1>1. faults \in 0..MaxTroubles /\ edits \in 0..MaxTroubles /\ pass \in {"plan", "write"}
  BY DEF TypeOK
<1>2. CASE DryRun
  BY <1>1, <1>2 DEF Mutate, DryRun
<1>3. CASE ~DryRun
  <2>1. /\ answer # "rejected" => acceptable
        /\ site' = IF answer = "rejected" THEN site ELSE after
        /\ faults' = faults \/ (edits + faults < MaxTroubles /\ faults' = faults + 1)
    BY <1>3 DEF Mutate
  <2>2. faults' \in 0..MaxTroubles
    BY <1>1, <2>1, BoundAssumption
  <2>3. QED
    BY <1>1, <1>3, <2>1, <2>2 DEF DryRun
<1>4. QED
  BY <1>2, <1>3

LEMMA ContinueFacts ==
  ASSUME TypeOK, NEW key, NEW answer, Continue(key, answer)
  PROVE  /\ read' \in Lists /\ todo' \subseteq todo
         /\ \/ answer = "done" /\ pc' = pc /\ read' = read /\ todo' = todo \ {key}
            \/ answer # "done" /\ pc' = "failed"
<1>1. read \in Lists
  BY DEF TypeOK, Lists
<1>2. QED
  BY <1>1, NothingReadTyped DEF Continue, End

\* The types of the variables the steps of a run do not touch.
LEMMA StepTyped ==
  ASSUME TypeOK, Step, SiteOK(site'), faults' \in 0..MaxTroubles, lines' \subseteq Line,
         read' \in Lists, todo' \subseteq Nets \cup Macs,
         pc' \in Endings \cup {"start", "mdns", "writeScope", "networks", "writeNets", "pruneNets",
                               "reservations", "places", "reserve", "clear", "done", "snapshot"}
  PROVE  TypeOK'
BY DEF TypeOK, Step, input, files, Lists

LEMMA QuickTyped ==
  ASSUME TypeOK, Quick, read' \in Lists, todo' \subseteq Nets \cup Macs,
         pc' \in Endings \cup {"start", "mdns", "writeScope", "networks", "writeNets", "pruneNets",
                               "reservations", "places", "reserve", "clear", "done", "snapshot"}
  PROVE  TypeOK'
BY StepTyped DEF TypeOK, Quick

LEMMA LogTyped ==
  ASSUME TypeOK, NEW verb \in {"CREATE", "UPDATE", "DELETE"},
         NEW key \in Nets \cup Macs \cup {"mdns"}, Log(verb, key)
  PROVE  lines' \subseteq Line /\ lines' # {}
<1>1. <<verb, key>> \in Line /\ lines \subseteq Line /\ lines' = lines \cup {<<verb, key>>}
  BY DEF Log, Line, TypeOK
<1>2. QED
  BY <1>1

\* A pass that has written a line has made something, if it is the writing pass.
LEMMA MadeFacts ==
  ASSUME TypeOK
  PROVE  /\ pass' = pass /\ lines' = lines => (Made' <=> Made)
         /\ pass' = pass /\ lines' # {} => (Made' <=> pass = "write")
         /\ pass = "write" => Made
BY DEF Made

-----------------------------------------------------------------------------
(* A run starts; the scope *)

LEMMA InitInv == Init => Inv
<1> SUFFICES ASSUME Init PROVE Inv
  OBVIOUS
<1>1. PICK c \in Commands : doc = c.doc /\ opts = c.opts
  BY DEF Init
<1>2. doc \in Document /\ opts \in Option
  BY <1>1, InputAssumption
<1>3. SiteOK(site)
  BY SitesAssumption DEF Init
<1>4. TypeOK
  <2>1. /\ pass = "plan" /\ pc = "idle" /\ read \in Lists /\ todo = {} /\ lines = {}
        /\ unlisted = {} /\ saved = None /\ before = None /\ stale = {}
        /\ restoring = FALSE /\ planned = {} /\ disturbed = FALSE
    BY NothingReadTyped DEF Init
  <2>2. edits \in 0..MaxTroubles /\ faults \in 0..MaxTroubles
    BY BoundAssumption DEF Init
  <2>3. QED
    BY <1>2, <1>3, <2>1, <2>2 DEF TypeOK, Endings, Lists
<1>5. Pending /\ Dated /\ InForce /\ Whole
  BY DEF Init, Pending, Dated, InForce, Whole, Progress
<1>6. QED
  BY <1>4, <1>5 DEF Inv

LEMMA LaunchInv ==
  ASSUME TypeOK, NEW d \in Document, NEW o \in Option, NEW b \in BOOLEAN, Launch(d, o, b)
  PROVE  Inv'
<1>1. /\ pass' = "plan" /\ pc' = "start" /\ read' \in Lists /\ todo' = {}
      /\ lines' = {} /\ unlisted' = {}
  BY BeginPassFacts DEF Launch
<1>2. TypeOK'
  BY <1>1 DEF Launch, TypeOK, files, Lists
<1>3. QED
  BY <1>1, <1>2, QuietInv

LEMMA StartSyncInv == ASSUME TypeOK, StartSync PROVE Inv'
<1>1. PICK c \in Commands : Launch(c.doc, c.opts, FALSE)
  BY DEF StartSync
<1>2. c.doc \in Document /\ c.opts \in Option
  BY InputAssumption
<1>3. QED
  BY <1>1, <1>2, LaunchInv

LEMMA StartRestoreInv == ASSUME TypeOK, StartRestore PROVE Inv'
<1> DEFINE o == [prune |-> TRUE, force |-> TRUE, snapshotDir |-> FALSE]
<1>1. saved \in Document /\ o \in Option /\ Launch(saved, o, TRUE)
  BY DEF StartRestore, TypeOK, Option
<1> HIDE DEF o
<1>2. QED
  BY <1>1, LaunchInv

LEMMA StartStepsInv == ASSUME TypeOK, StartSteps PROVE Inv'
<1>1. pc' = "mdns" /\ read' \in Lists /\ todo' \subseteq Nets \cup Macs /\ Quick
  BY DEF StartSteps, After, reading, TypeOK, Lists
<1>2. QED
  BY <1>1, QuickTyped, QuietInv

\* On to the networks with the scope in force.
LEMMA ToNetworks ==
  ASSUME TypeOK', pc' = "networks", (doc.mdns # None /\ pass = "write" => site.scope = doc.mdns)'
  PROVE  Inv'
<1>1. Pending' /\ Dated' /\ InForce'
  BY DEF Pending, Dated, InForce
<1>2. Whole'
  BY DEF Whole, Progress
<1>3. QED
  BY <1>1, <1>2 DEF Inv

LEMMA SkipMDNSInv == ASSUME TypeOK, SkipMDNS PROVE Inv'
<1>1. /\ pc' = "networks" /\ read' \in Lists /\ todo' \subseteq Nets \cup Macs /\ Quick
      /\ doc' = doc /\ doc.mdns = None
  BY DEF SkipMDNS, After, reading, TypeOK, Lists, Quick, Step, input
<1>2. QED
  BY <1>1, QuickTyped, ToNetworks

LEMMA ScopeUnreadableInv == ASSUME TypeOK, ScopeUnreadable PROVE Inv'
<1>1. pc' = "failed" /\ read' \in Lists /\ todo' = {} /\ Quick
  BY EndFacts DEF ScopeUnreadable
<1>2. TypeOK'
  BY <1>1, QuickTyped DEF Endings
<1>3. QED
  BY <1>1, <1>2, QuietInv

LEMMA ScopeReadInv == ASSUME TypeOK, ScopeRead PROVE Inv'
<1>1. /\ pc' = IF site.scope = doc.mdns THEN "networks" ELSE "writeScope"
      /\ read' \in Lists /\ todo' \subseteq Nets \cup Macs /\ Quick
      /\ doc' = doc /\ site' = site /\ doc.mdns # None
  BY DEF ScopeRead, After, reading, TypeOK, Lists, Quick, Step, input
<1>2. TypeOK'
  BY <1>1, QuickTyped
<1>3. CASE pc' = "networks"
  BY <1>1, <1>2, <1>3, ToNetworks
<1>4. CASE pc' = "writeScope"
  <2>1. Pending' /\ Dated' /\ InForce' /\ Whole'
    BY <1>1, <1>4 DEF Pending, Dated, InForce, Whole, Progress
  <2>2. QED
    BY <1>2, <2>1 DEF Inv
<1>5. QED
  BY <1>1, <1>3, <1>4

LEMMA WriteScopeFacts ==
  ASSUME Inv, WriteScope
  PROVE  /\ TypeOK' /\ pc' \in {"failed", "networks"} /\ doc' = doc /\ edits' = edits
         /\ site'.nets = site.nets /\ site'.clients = site.clients
         /\ pc' = "networks" /\ pass' = "write" => site'.scope = doc.mdns
<1> DEFINE after == [site EXCEPT !.scope = doc.mdns]
<1>1. PICK answer \in Answers :
        /\ Mutate(TRUE, after, answer)
        /\ IF answer = "done" THEN pc' = After("mdns") /\ UNCHANGED reading ELSE End("failed")
  BY DEF WriteScope
<1>2. pc = "writeScope" /\ Log("UPDATE", "mdns") /\ Step /\ TypeOK
  BY DEF WriteScope, Inv
<1>3. doc.mdns \in Scopes
  BY <1>2 DEF Inv, Pending, TypeOK, Document
<1>4. SiteOK(site) /\ site \in Site
  BY <1>2 DEF TypeOK, SiteOK
<1>5. SiteOK(after) /\ after.nets = site.nets /\ after.clients = site.clients /\ after.scope = doc.mdns
  BY <1>3, <1>4, SetScope DEF Site
<1> HIDE DEF after
<1>6. /\ faults' \in 0..MaxTroubles /\ (site' = site \/ site' = after)
      /\ pass = "write" /\ answer = "done" => site' = after
  BY <1>1, <1>2, MutateFacts
<1>7. /\ pc' = IF answer = "done" THEN "networks" ELSE "failed"
      /\ read' \in Lists /\ todo' \subseteq Nets \cup Macs
  <2>1. CASE answer = "done"
    BY <1>1, <1>2, <2>1 DEF After, reading, TypeOK, Lists
  <2>2. CASE answer # "done"
    BY <1>1, <2>2, EndFacts
  <2>3. QED
    BY <2>1, <2>2
<1>8. lines' \subseteq Line
  BY <1>2, LogTyped
<1>9. TypeOK'
  BY <1>2, <1>4, <1>5, <1>6, <1>7, <1>8, StepTyped DEF Endings
<1>10. QED
  BY <1>2, <1>5, <1>6, <1>7, <1>9 DEF Step, input

LEMMA WriteScopeInv == ASSUME Inv, WriteScope PROVE Inv'
<1>1. CASE pc' = "failed"
  BY <1>1, WriteScopeFacts, QuietInv
<1>2. CASE pc' = "networks"
  BY <1>2, WriteScopeFacts, ToNetworks
<1>3. QED
  BY <1>1, <1>2, WriteScopeFacts

-----------------------------------------------------------------------------
(* Networks *)

\* In the networks section the invariant says what is left and which scope holds.
LEMMA NetworksInv ==
  ASSUME TypeOK', pc' \in {"writeNets", "pruneNets"},
         pc' = "writeNets" => todo' \subseteq DeclaredNets',
         pc' = "pruneNets" => todo' \subseteq Nets,
         (pc = "writeNets" => InForce)'
  PROVE  Inv'
<1>1. Pending' /\ Dated' /\ InForce'
  BY DEF Pending, Dated, InForce
<1>2. Whole'
  BY DEF Whole, Progress
<1>3. QED
  BY <1>1, <1>2 DEF Inv

\* Steps of the section leave the scope in force.
LEMMA KeepsInForce ==
  ASSUME InForce, pc \in {"networks", "writeNets"}, pc' = "writeNets",
         UNCHANGED <<doc, disturbed, pass>>, site'.scope = site.scope
  PROVE  InForce'
BY DEF InForce

LEMMA ReadNetworksInv == ASSUME Inv, ReadNetworks PROVE Inv'
<1>1. TypeOK /\ InForce /\ pc = "networks" /\ pc' = "writeNets" /\ todo' = DeclaredNets /\ Get
  BY DEF Inv, ReadNetworks
<1>2. read' \in Lists
  <2>1. read' = [read EXCEPT !.nets = site.nets] /\ read \in Lists /\ site \in Site
    BY <1>1 DEF ReadNetworks, TypeOK, Lists, SiteOK
  <2>2. QED
    BY <2>1 DEF Lists, Site
<1>3. stale' = {} /\ DeclaredNets \subseteq Nets /\ DeclaredNets' = DeclaredNets
  BY <1>1 DEF ReadNetworks, DeclaredNets, Get, input
<1>4. TypeOK'
  BY <1>1, <1>2, <1>3 DEF TypeOK, Get, input, plan, files, Lists
<1>5. InForce'
  BY <1>1, KeepsInForce DEF Get, input
<1>6. QED
  BY <1>1, <1>3, <1>4, <1>5, NetworksInv

LEMMA NetworkOKInv == ASSUME Inv, NEW n \in Nets, NetworkOK(n) PROVE Inv'
<1>1. /\ TypeOK /\ InForce /\ pc = "writeNets" /\ pc' = "writeNets" /\ Quick
      /\ todo \subseteq DeclaredNets /\ todo' \subseteq todo
      /\ read' = read
  BY DEF Inv, NetworkOK, Pending
<1>2. TypeOK'
  BY <1>1, QuickTyped DEF TypeOK, Lists
<1>3. DeclaredNets' = DeclaredNets /\ InForce'
  BY <1>1, KeepsInForce DEF Quick, Step, input, DeclaredNets
<1>4. QED
  BY <1>1, <1>2, <1>3, NetworksInv

LEMMA WriteNetworkFacts ==
  ASSUME Inv, NEW n \in Nets, WriteNetwork(n)
  PROVE  /\ Inv' /\ edits' = edits /\ doc' = doc /\ disturbed' = disturbed
         /\ site'.clients = site.clients
         /\ site'.nets # site.nets => pass = "write" /\ pc = "writeNets"
<1> DEFINE after == [site EXCEPT !.nets[n] = doc.nets[n]]
           can == IF read.nets[n] = None THEN site.nets[n] = None ELSE Alive(n)
<1>1. PICK answer \in Answers : Mutate(can, after, answer) /\ Continue(n, answer)
  BY DEF WriteNetwork
<1>2. /\ TypeOK /\ InForce /\ pc = "writeNets" /\ Step
      /\ n \in todo /\ todo \subseteq DeclaredNets
      /\ Log(IF read.nets[n] = None THEN "CREATE" ELSE "UPDATE", n)
  BY DEF WriteNetwork, Inv, Pending
<1>3. doc.nets[n] \in Flags /\ SiteOK(site) /\ site \in Site
  BY <1>2 DEF TypeOK, Document, DeclaredNets, SiteOK
<1>4. SiteOK(after) /\ after.scope = site.scope /\ after.clients = site.clients
  BY <1>3, SetFlag DEF Site
<1>5. can \in BOOLEAN
  BY DEF Alive
<1> HIDE DEF after, can
<1>6. /\ faults' \in 0..MaxTroubles
      /\ site' = site \/ (pass = "write" /\ site' = after)
  BY <1>1, <1>2, <1>5, MutateFacts
<1>7. /\ read' \in Lists /\ todo' \subseteq todo
      /\ pc' \in {"writeNets", "failed"}
  BY <1>1, <1>2, ContinueFacts
<1>8. lines' \subseteq Line
  <2>1. CASE read.nets[n] = None
    BY <1>2, <2>1, LogTyped
  <2>2. CASE read.nets[n] # None
    BY <1>2, <2>2, LogTyped
  <2>3. QED
    BY <2>1, <2>2
<1>9. TypeOK'
  <2>1. todo' \subseteq Nets \cup Macs
    BY <1>2, <1>7 DEF TypeOK
  <2>2. QED
    BY <1>2, <1>3, <1>4, <1>6, <1>7, <1>8, <2>1, StepTyped DEF Endings
<1>10. Inv'
  <2>1. CASE pc' = "failed"
    BY <1>9, <2>1, QuietInv
  <2>2. CASE pc' = "writeNets"
    <3>1. InForce' /\ DeclaredNets' = DeclaredNets
      BY <1>2, <1>4, <1>6, <2>2, KeepsInForce DEF Step, input, DeclaredNets
    <3>2. QED
      BY <1>2, <1>7, <1>9, <2>2, <3>1, NetworksInv
  <2>3. QED
    BY <1>7, <2>1, <2>2
<1>11. QED
  BY <1>2, <1>4, <1>6, <1>10 DEF Step, input

LEMMA PruneNetworksInv == ASSUME Inv, PruneNetworks PROVE Inv'
<1>1. /\ TypeOK /\ pc' = "pruneNets" /\ Quick /\ todo' \subseteq Nets /\ read' = read
  BY DEF Inv, PruneNetworks
<1>2. TypeOK'
  BY <1>1, QuickTyped DEF TypeOK, Lists
<1>3. QED
  BY <1>1, <1>2, NetworksInv

LEMMA DeleteNetworkFacts ==
  ASSUME Inv, NEW n \in Nets, DeleteNetwork(n)
  PROVE  /\ Inv' /\ edits' = edits /\ doc' = doc /\ disturbed' = disturbed
         /\ Known(site') = Known(site) /\ Reserved(site') = Reserved(site)
         /\ \A x \in Nets : site'.nets[x] \in {site.nets[x], None}
<1> DEFINE after == DropNetwork(site, n)
<1>1. PICK answer \in Answers : Mutate(Alive(n), after, answer) /\ Continue(n, answer)
  BY DEF DeleteNetwork
<1>2. /\ TypeOK /\ pc = "pruneNets" /\ Step /\ todo \subseteq Nets /\ Log("DELETE", n)
  BY DEF DeleteNetwork, Inv, Pending
<1>3. SiteOK(site)
  BY <1>2 DEF TypeOK
<1>4. /\ SiteOK(after) /\ Known(after) = Known(site) /\ Reserved(after) = Reserved(site)
      /\ after.nets[n] = None /\ \A x \in Nets \ {n} : after.nets[x] = site.nets[x]
  BY <1>3, DropFacts
<1>5. Alive(n) \in BOOLEAN
  BY DEF Alive
<1> HIDE DEF after
<1>6. faults' \in 0..MaxTroubles /\ (site' = site \/ site' = after)
  BY <1>1, <1>2, <1>5, MutateFacts
<1>7. /\ read' \in Lists /\ todo' \subseteq todo /\ pc' \in {"pruneNets", "failed"}
  BY <1>1, <1>2, ContinueFacts
<1>8. TypeOK'
  <2>1. lines' \subseteq Line
    BY <1>2, LogTyped
  <2>2. todo' \subseteq Nets \cup Macs
    BY <1>2, <1>7
  <2>3. QED
    BY <1>2, <1>3, <1>4, <1>6, <1>7, <2>1, <2>2, StepTyped DEF Endings
<1>9. Inv'
  <2>1. CASE pc' = "failed"
    BY <1>8, <2>1, QuietInv
  <2>2. CASE pc' = "pruneNets"
    BY <1>2, <1>7, <1>8, <2>2, NetworksInv
  <2>3. QED
    BY <1>7, <2>1, <2>2
<1>10. QED
  BY <1>2, <1>4, <1>6, <1>9 DEF Step, input

LEMMA UnapprovedFacts ==
  ASSUME TypeOK, NEW key \in Nets \cup Macs, Unapproved(key),
         pc \in {"pruneNets", "clear"}
  PROVE  /\ TypeOK' /\ site' = site /\ edits' = edits
         /\ UNCHANGED <<doc, opts, pass, disturbed, stale>>
         /\ \/ pc' = "stopped"
            \/ pc' = pc /\ read' = read /\ todo' = todo \ {key} /\ pass = "plan" /\ lines' # {}
<1>1. /\ UNCHANGED <<site, input, pass, files, stale, edits, faults, planned, disturbed>>
      /\ read \in Lists
  BY DEF Unapproved, TypeOK, Lists
<1>2. CASE DryRun
  <2>1. /\ unlisted' = unlisted \cup {key} /\ Log("DELETE", key)
        /\ todo' = todo \ {key} /\ pc' = pc /\ read' = read
    BY <1>2 DEF Unapproved
  <2>2. lines' \subseteq Line /\ lines' # {}
    BY <2>1, LogTyped
  <2>3. TypeOK'
    BY <1>1, <1>2, <2>1, <2>2 DEF TypeOK, input, files, Lists
  <2>4. QED
    BY <1>1, <1>2, <2>1, <2>2, <2>3 DEF DryRun, input
<1>3. CASE ~DryRun
  <2>1. pc' = "stopped" /\ read' \in Lists /\ todo' = {} /\ UNCHANGED plan
    BY <1>3, EndFacts DEF Unapproved
  <2>2. TypeOK'
    BY <1>1, <2>1 DEF TypeOK, input, files, plan, Lists, Endings
  <2>3. QED
    BY <1>1, <2>1, <2>2 DEF input
<1>4. QED
  BY <1>2, <1>3

LEMMA RefuseNetworkInv == ASSUME Inv, NEW n \in Nets, RefuseNetwork(n) PROVE Inv'
<1>1. TypeOK /\ pc = "pruneNets" /\ todo \subseteq Nets /\ Unapproved(n)
  BY DEF RefuseNetwork, Inv, Pending
<1>2. TypeOK' /\ (pc' = "stopped" \/ (pc' = pc /\ todo' = todo \ {n}))
  BY <1>1, UnapprovedFacts
<1>3. CASE pc' = "stopped"
  BY <1>2, <1>3, QuietInv
<1>4. CASE pc' = pc /\ todo' = todo \ {n}
  BY <1>1, <1>2, <1>4, NetworksInv
<1>5. QED
  BY <1>2, <1>3, <1>4

LEMMA EndNetworksInv == ASSUME TypeOK, EndNetworks PROVE Inv'
<1>1. pc' = "reservations" /\ read' \in Lists /\ todo' \subseteq Nets \cup Macs /\ Quick
  BY DEF EndNetworks, After, reading, TypeOK, Lists
<1>2. QED
  BY <1>1, QuickTyped, QuietInv

-----------------------------------------------------------------------------
(* Reservations *)

\* A step that ends the run, and does nothing else.
LEMMA FailsInv ==
  ASSUME TypeOK, Quick, End("failed")
  PROVE  Inv'
<1>1. pc' = "failed" /\ read' \in Lists /\ todo' = {}
  BY EndFacts
<1>2. TypeOK'
  BY <1>1, QuickTyped DEF Endings
<1>3. QED
  BY <1>1, <1>2, QuietInv

\* At the end of the sections.
LEMMA DoneInv ==
  ASSUME TypeOK', pc' = "done",
         (~disturbed /\ opts.prune /\ "reservations" \in doc.sections /\ Made => AllHeld)'
  PROVE  Inv'
<1>1. Pending' /\ Dated' /\ InForce'
  BY DEF Pending, Dated, InForce
<1>2. Whole'
  BY DEF Whole, Progress
<1>3. QED
  BY <1>1, <1>2 DEF Inv

LEMMA SkipReservationsInv == ASSUME TypeOK, SkipReservations PROVE Inv'
<1>1. /\ pc' = "done" /\ read' \in Lists /\ todo' \subseteq Nets \cup Macs /\ Quick
      /\ doc' = doc /\ "reservations" \notin doc.sections
  BY DEF SkipReservations, After, reading, TypeOK, Lists, Quick, Step, input
<1>2. QED
  BY <1>1, QuickTyped, DoneInv

LEMMA ReadClientsInv == ASSUME Inv, ReadClients PROVE Inv'
<1>1. /\ TypeOK /\ pc' = "places" /\ Get /\ todo' = todo /\ stale' = {}
      /\ "reservations" \in doc.sections /\ ~Malformed
      /\ read' = [read EXCEPT !.clients = site.clients] /\ read \in Lists /\ SiteOK(site)
  BY DEF Inv, ReadClients, TypeOK, Lists
<1>2. read' \in Lists /\ read'.clients = site.clients
  BY <1>1 DEF Lists, SiteOK, Site
<1>3. TypeOK'
  BY <1>1, <1>2 DEF TypeOK, Get, input, plan, files, Lists
<1>4. doc' = doc /\ site' = site
  BY <1>1 DEF Get, input
<1>5. Malformed' <=> Malformed
  BY <1>4 DEF Malformed, DeclaredMacs
<1>6. Pending' /\ Dated' /\ InForce'
  BY <1>1, <1>4, <1>5 DEF Pending, Dated, InForce
<1>7. \A m \in Macs : Like(m)'
  BY <1>2, <1>4 DEF Like, Reserved, Known
<1>8. Whole'
  BY <1>1, <1>7 DEF Whole, Progress
<1>9. QED
  BY <1>3, <1>6, <1>8 DEF Inv

LEMMA ReadPlacesInv == ASSUME Inv, ReadPlaces PROVE Inv'
<1> DEFINE cs == [m \in Macs |-> IF m \in Known(read) /\ read.clients[m].net \in stale
                                 THEN [read.clients[m] EXCEPT !.net = Gone]
                                 ELSE read.clients[m]]
<1>1. /\ TypeOK /\ pc = "places" /\ pc' = "reserve" /\ Get /\ todo' = DeclaredMacs
      /\ "reservations" \in doc.sections /\ ~Malformed
      /\ stale' = stale \ Nets /\ read \in Lists /\ site \in Site
      /\ read' = [nets |-> site.nets, seen |-> site.seen, clients |-> cs]
  BY DEF Inv, ReadPlaces, Pending, TypeOK, Lists, SiteOK
<1>2. read'.nets = site.nets /\ read'.seen = site.seen /\ read'.clients = cs
  <2> HIDE DEF cs
  <2>1. QED
    BY <1>1
<1>3. ASSUME NEW m \in Macs
      PROVE  /\ read'.clients[m] \in Client \cup {None}
             /\ m \in Known(read)' <=> m \in Known(read)
             /\ m \in Known(read) => /\ read'.clients[m].fixed = read.clients[m].fixed
                                     /\ read'.clients[m].ip = read.clients[m].ip
  <2>1. read.clients[m] \in Client \cup {None}
    BY <1>1 DEF Lists
  <2>2. CASE m \in Known(read) /\ read.clients[m].net \in stale
    <3>1. read.clients[m] \in Client /\ read'.clients[m] = [read.clients[m] EXCEPT !.net = Gone]
      BY <1>2, <2>1, <2>2 DEF Known
    <3>2. QED
      BY <2>2, <3>1, CutOff DEF Known
  <2>3. CASE ~(m \in Known(read) /\ read.clients[m].net \in stale)
    BY <1>2, <2>1, <2>3 DEF Known
  <2>4. QED
    BY <2>2, <2>3
<1>4. read' \in Lists
  <2>1. read'.clients \in [Macs -> Client \cup {None}]
    BY <1>2, <1>3
  <2> HIDE DEF cs
  <2>2. QED
    BY <1>1, <1>2, <2>1 DEF Lists, Site
<1> HIDE DEF cs
<1>5. doc' = doc /\ site' = site /\ disturbed' = disturbed /\ opts' = opts
      /\ lines' = lines /\ pass' = pass
  BY <1>1 DEF Get, input, plan
<1>6. DeclaredMacs' = DeclaredMacs /\ (Malformed' <=> Malformed) /\ DeclaredMacs \subseteq Macs
  BY <1>5 DEF Malformed, DeclaredMacs
<1>7. TypeOK'
  BY <1>1, <1>4, <1>6 DEF TypeOK, Get, input, plan, files, Lists
<1>8. Pending' /\ InForce'
  BY <1>1, <1>5, <1>6 DEF Pending, InForce
<1>9. Dated'
  BY <1>2, <1>5 DEF Dated, NetsOf
<1>10. Whole'
  <2> SUFFICES ASSUME Whole /\ ~disturbed /\ opts.prune /\ "reservations" \in doc.sections
               PROVE  Progress'
    BY <1>5 DEF Inv, Whole
  <2>1. ASSUME NEW m \in Macs PROVE Like(m)'
    <3>1. Like(m)
      BY <1>1 DEF Whole, Progress
    <3>2. QED
      BY <1>3, <1>5, <3>1 DEF Like, Reserved
  <2>2. DeclaredMacs' \ todo' = {}
    BY <1>1, <1>6
  <2>3. QED
    BY <1>1, <2>1, <2>2 DEF Progress
<1>11. QED
  BY <1>7, <1>8, <1>9, <1>10 DEF Inv

LEMMA ReservationOKInv == ASSUME Inv, NEW m \in Macs, ReservationOK(m) PROVE Inv'
<1>1. /\ TypeOK /\ pc = "reserve" /\ pc' = "reserve" /\ Quick /\ Same(m) /\ m \in todo
      /\ todo \subseteq DeclaredMacs /\ todo' = todo \ {m} /\ read' = read
      /\ "reservations" \in doc.sections /\ ~Malformed
  BY DEF Inv, ReservationOK, Pending
<1>2. TypeOK'
  <2>1. DeclaredMacs \subseteq Macs /\ read \in Lists
    BY <1>1 DEF DeclaredMacs, TypeOK, Lists
  <2>2. QED
    BY <1>1, <2>1, QuickTyped
<1>3. UNCHANGED <<site, doc, opts, pass, lines, stale, disturbed>>
  BY <1>1 DEF Quick, Step, input
<1>4. DeclaredMacs' = DeclaredMacs /\ (Malformed' <=> Malformed)
  BY <1>3 DEF Malformed, DeclaredMacs
<1>5. Pending' /\ InForce' /\ Dated'
  BY <1>1, <1>3, <1>4 DEF Inv, Pending, InForce, Dated, NetsOf
<1>6. Whole'
  <2> SUFFICES ASSUME Progress, Whole PROVE Progress'
    BY <1>3 DEF Inv, Whole
  <2>1. Held(m)
    BY <1>1 DEF Progress, Like, Held, Same
  <2>2. \A x \in Macs : (Like(x)' <=> Like(x)) /\ (Held(x)' <=> Held(x))
    BY <1>1, <1>3 DEF Like, Held, Reserved, Known
  <2>3. Made' <=> Made
    BY <1>3 DEF Made
  <2>4. DeclaredMacs \subseteq Macs
    BY DEF DeclaredMacs
  <2>5. QED
    BY <1>1, <1>4, <2>1, <2>2, <2>3, <2>4 DEF Progress
<1>7. QED
  BY <1>2, <1>5, <1>6 DEF Inv

LEMMA BeginClearInv == ASSUME Inv, BeginClear PROVE Inv'
<1>1. /\ TypeOK /\ pc = "reserve" /\ pc' = "clear" /\ Quick /\ todo = {}
      /\ todo' = (IF opts.prune THEN Clearable ELSE {}) /\ read' = read
      /\ "reservations" \in doc.sections /\ ~Malformed
  BY DEF Inv, BeginClear, Pending
<1>2. Clearable \subseteq Macs \ DeclaredMacs
  BY DEF Clearable, Reserved, Known
<1>3. TypeOK'
  BY <1>1, <1>2, QuickTyped DEF TypeOK, Lists
<1>4. UNCHANGED <<site, doc, opts, pass, lines, stale, disturbed>>
  BY <1>1 DEF Quick, Step, input
<1>5. DeclaredMacs' = DeclaredMacs /\ (Malformed' <=> Malformed)
  BY <1>4 DEF Malformed, DeclaredMacs
<1>6. Pending' /\ InForce' /\ Dated'
  BY <1>1, <1>2, <1>4, <1>5 DEF Pending, InForce, Dated
<1>7. Whole'
  <2> SUFFICES ASSUME Progress, opts.prune PROVE Progress'
    BY <1>4 DEF Inv, Whole
  <2>1. \A x \in Macs : Held(x)' <=> Held(x)
    BY <1>4 DEF Held, Reserved, Known
  <2>2. Made' <=> Made
    BY <1>4 DEF Made
  <2>3. ASSUME NEW x \in Macs \ DeclaredMacs PROVE x \in todo' \/ x \notin Reserved(site)'
    BY <1>1, <1>4, <2>3 DEF Progress, Like, Clearable, Reserved, Known
  <2>4. DeclaredMacs \subseteq Macs
    BY DEF DeclaredMacs
  <2>5. QED
    BY <1>1, <1>5, <2>1, <2>2, <2>3, <2>4 DEF Progress
<1>8. QED
  BY <1>3, <1>6, <1>7 DEF Inv

LEMMA EndReservationsInv == ASSUME Inv, EndReservations PROVE Inv'
<1>1. /\ TypeOK /\ pc = "clear" /\ pc' = "done" /\ Quick /\ todo = {} /\ UNCHANGED reading
      /\ ~Malformed
  BY DEF Inv, EndReservations, Pending, After
<1>2. TypeOK'
  BY <1>1, QuickTyped DEF TypeOK, Lists, reading
<1>3. UNCHANGED <<site, doc, opts, pass, lines, disturbed>>
  BY <1>1 DEF Quick, Step, input
<1>4. ASSUME ~disturbed, opts.prune, "reservations" \in doc.sections, Made
      PROVE  AllHeld
  <2>1. \A x \in Macs : IF x \in DeclaredMacs THEN Held(x) ELSE x \notin Reserved(site)
    BY <1>1, <1>4 DEF Inv, Whole, Progress
  <2>2. Reserved(site) \subseteq Macs
    BY DEF Reserved, Known
  <2>3. QED
    BY <1>1, <2>1, <2>2 DEF AllHeld
<1>5. (Made' <=> Made) /\ (AllHeld' <=> AllHeld)
  BY <1>3 DEF Made, AllHeld, Malformed, DeclaredMacs, Held, Reserved, Known
<1>6. QED
  BY <1>1, <1>2, <1>3, <1>4, <1>5, DoneInv

\* What writing one client's record leaves as it was.
LEMMA SetClientFacts ==
  ASSUME NEW s, SiteOK(s), NEW m \in Macs, NEW c \in Client,
         c.net \in NetsOf(s) \cup {None, Gone}, c.fixed => c.ip # None
  PROVE  LET t == [s EXCEPT !.clients[m] = c]
         IN  /\ SiteOK(t) /\ t.nets = s.nets /\ t.scope = s.scope /\ t.clients[m] = c
             /\ \A x \in Macs \ {m} : t.clients[x] = s.clients[x]
             /\ Known(s) \subseteq Known(t)
             /\ \A x \in Macs \ {m} : x \in Reserved(t) <=> x \in Reserved(s)
             /\ m \in Reserved(t) <=> c.fixed
<1> DEFINE t == [s EXCEPT !.clients[m] = c]
<1>1. SiteOK(t)
  BY SetClient
<1>2. /\ t.nets = s.nets /\ t.scope = s.scope
      /\ t.clients[m] = c /\ \A x \in Macs \ {m} : t.clients[x] = s.clients[x]
  BY DEF SiteOK, Site
<1>3. c # None
  BY AbsentAssumption
<1> HIDE DEF t
<1>4. Known(s) \subseteq Known(t)
  BY <1>2, <1>3 DEF Known
<1>5. ASSUME NEW x \in Macs \ {m} PROVE x \in Reserved(t) <=> x \in Reserved(s)
  BY <1>2 DEF Known, Reserved
<1>6. m \in Reserved(t) <=> c.fixed
  BY <1>2, <1>3 DEF Known, Reserved
<1>7. QED
  BY <1>1, <1>2, <1>4, <1>5, <1>6 DEF t

LEMMA ReserveFacts ==
  ASSUME Inv, NEW m \in Macs, Reserve(m)
  PROVE  /\ Inv' /\ edits' = edits /\ site'.nets = site.nets
         /\ Known(site) \subseteq Known(site') /\ Reserved(site) \subseteq Reserved(site')
<1> DEFINE c == ReservedAs(m, site.clients[m])
           after == [site EXCEPT !.clients[m] = c]
           can == IF m \in Known(read) THEN PutTaken(m) ELSE site.clients[m] = None
<1>1. PICK answer \in Answers : Mutate(can, after, answer) /\ Continue(m, answer)
  <2>1. after = [site EXCEPT !.clients[m] = ReservedAs(m, @)]
    OBVIOUS
  <2>2. QED
    BY <2>1 DEF Reserve
<1>2. /\ TypeOK /\ pc = "reserve" /\ Step /\ m \in todo /\ Resolvable(m) /\ SiteOK(site)
      /\ todo \subseteq DeclaredMacs /\ "reservations" \in doc.sections /\ ~Malformed
      /\ Log(IF m \in Reserved(read) THEN "UPDATE" ELSE "CREATE", m)
  BY DEF Reserve, Inv, Pending, TypeOK
<1>3. can \in BOOLEAN
  BY DEF PutTaken
<1>4. /\ doc.res[m] \in Entry /\ doc.res[m].ip \in IPs /\ doc.res[m].net \in Nets
      /\ doc.res[m].name \in Labels \cup {None} /\ doc.res[m].ip # None
      /\ site.clients[m] \in Client \cup {None}
  BY <1>2, AbsentAssumption DEF TypeOK, Document, DeclaredMacs, Entry, SiteOK, Site
<1>5. c \in Client /\ c.fixed /\ c.ip = doc.res[m].ip /\ c.ip # None
  BY <1>4 DEF ReservedAs, Client
<1>6. c.net \in {doc.res[m].net, Gone} /\ (c.net = doc.res[m].net => doc.res[m].net \notin stale)
  <2>1. doc.res[m].net # Gone
    BY <1>4, AbsentAssumption
  <2>2. QED
    BY <2>1 DEF ReservedAs
<1>7. pass = "write" => c.net \in NetsOf(site) \cup {None, Gone}
  BY <1>2, <1>6 DEF Resolvable, DryRun, Inv, Dated
<1> HIDE DEF c
<1>8. pass = "write" =>
        /\ SiteOK(after) /\ after.nets = site.nets /\ after.scope = site.scope
        /\ after.clients[m] = c
        /\ \A x \in Macs \ {m} : after.clients[x] = site.clients[x]
        /\ Known(site) \subseteq Known(after)
        /\ \A x \in Macs \ {m} : x \in Reserved(after) <=> x \in Reserved(site)
        /\ m \in Reserved(after)
  <2> SUFFICES ASSUME pass = "write"
               PROVE  /\ SiteOK(after) /\ after.nets = site.nets /\ after.scope = site.scope
                      /\ after.clients[m] = c
                      /\ \A x \in Macs \ {m} : after.clients[x] = site.clients[x]
                      /\ Known(site) \subseteq Known(after)
                      /\ \A x \in Macs \ {m} : x \in Reserved(after) <=> x \in Reserved(site)
                      /\ m \in Reserved(after)
    OBVIOUS
  <2>1. c.net \in NetsOf(site) \cup {None, Gone} /\ SiteOK(site)
    BY <1>2, <1>7
  <2>2. QED
    BY <1>5, <2>1, SetClientFacts
<1> HIDE DEF after, can
<1>9. /\ faults' \in 0..MaxTroubles
      /\ site' = site \/ (pass = "write" /\ site' = after)
      /\ pass = "write" /\ answer = "done" => site' = after
  BY <1>1, <1>2, <1>3, MutateFacts
<1>10. /\ read' \in Lists /\ todo' \subseteq todo
       /\ \/ answer = "done" /\ pc' = pc /\ read' = read /\ todo' = todo \ {m}
          \/ pc' = "failed"
  BY <1>1, <1>2, ContinueFacts
<1>11. lines' \subseteq Line /\ lines' # {}
  <2>1. CASE m \in Reserved(read)
    BY <1>2, <2>1, LogTyped
  <2>2. CASE m \notin Reserved(read)
    BY <1>2, <2>2, LogTyped
  <2>3. QED
    BY <2>1, <2>2
<1>12. TypeOK'
  <2>1. todo' \subseteq Nets \cup Macs /\ SiteOK(site')
    BY <1>2, <1>8, <1>9, <1>10 DEF TypeOK
  <2>2. pc' \in {"failed", "reserve"}
    BY <1>2, <1>10
  <2>3. QED
    BY <1>2, <1>9, <1>10, <1>11, <2>1, <2>2, StepTyped DEF Endings
<1>13. /\ UNCHANGED <<doc, opts, pass, stale, disturbed, edits>>
       /\ site'.nets = site.nets /\ site'.scope = site.scope
       /\ Known(site) \subseteq Known(site') /\ Reserved(site) \subseteq Reserved(site')
       /\ \A x \in Macs \ {m} : /\ x \in Reserved(site') <=> x \in Reserved(site)
                                /\ site'.clients[x] = site.clients[x]
  <2>1. Reserved(site) \subseteq Macs
    BY DEF Reserved, Known
  <2>2. QED
    BY <1>2, <1>8, <1>9, <2>1 DEF Step, input
<1>14. Inv'
  <2>1. CASE pc' = "failed"
    BY <1>12, <2>1, QuietInv
  <2>2. CASE answer = "done" /\ pc' = pc /\ read' = read /\ todo' = todo \ {m}
    <3>1. DeclaredMacs' = DeclaredMacs /\ (Malformed' <=> Malformed) /\ DeclaredMacs \subseteq Macs
      BY <1>13 DEF Malformed, DeclaredMacs
    <3>2. Pending' /\ InForce' /\ Dated'
      BY <1>2, <1>13, <2>2, <3>1 DEF Inv, Pending, InForce, Dated, NetsOf
    <3>3. ASSUME Progress PROVE Progress'
      <4>1. \A x \in Macs \ {m} : (Like(x)' <=> Like(x)) /\ (Held(x)' <=> Held(x))
        BY <1>13, <2>2 DEF Like, Held
      <4>2. pass = "write" => Held(m)'
        BY <1>5, <1>8, <1>9, <1>13, <2>2 DEF Held
      <4>3. (Made' <=> pass = "write") /\ (pass = "write" => Made)
        BY <1>2, <1>11, <1>13, MadeFacts
      <4>4. \A x \in Macs : x \in todo' \/ x \notin DeclaredMacs => Like(x)'
        BY <1>2, <2>2, <3>3, <4>1 DEF Progress
      <4>5. Made' => \A x \in DeclaredMacs \ todo' : Held(x)'
        BY <1>2, <2>2, <3>1, <3>3, <4>1, <4>2, <4>3 DEF Progress
      <4>6. QED
        BY <1>2, <2>2, <3>1, <4>4, <4>5 DEF Progress
    <3>4. Whole'
      BY <1>13, <3>3 DEF Inv, Whole
    <3>5. QED
      BY <1>12, <3>2, <3>4 DEF Inv
  <2>3. QED
    BY <1>10, <2>1, <2>2
<1>15. QED
  BY <1>13, <1>14

\* In the step that clears, a line written in the planning pass, or a
\* reservation given up, takes m off what is left.
LEMMA ClearProgress ==
  ASSUME Progress, pc = "clear", pc' = "clear", UNCHANGED <<doc, pass>>, TypeOK,
         NEW m \in Macs \ DeclaredMacs, todo' = todo \ {m}, lines' # {},
         pass = "write" => m \notin Reserved(site'),
         \A x \in Macs \ {m} : /\ x \in Reserved(site') <=> x \in Reserved(site)
                               /\ site'.clients[x] = site.clients[x]
  PROVE  Progress'
<1>1. (Made' <=> pass = "write") /\ (pass = "write" => Made)
  BY MadeFacts
<1>2. DeclaredMacs' = DeclaredMacs
  BY DEF DeclaredMacs
<1>3. \A x \in Macs \ {m} : Held(x)' <=> Held(x)
  BY DEF Held
<1>4. ASSUME Made', NEW x \in Macs
      PROVE  IF x \in DeclaredMacs' THEN Held(x)' ELSE x \in todo' \/ x \notin Reserved(site)'
  BY <1>1, <1>2, <1>3, <1>4 DEF Progress
<1>5. QED
  BY <1>4 DEF Progress

LEMMA ClearFacts ==
  ASSUME Inv, NEW m \in Macs, ClearReservation(m)
  PROVE  /\ Inv' /\ edits' = edits /\ site'.nets = site.nets
         /\ Known(site) \subseteq Known(site')
         /\ m \notin DeclaredMacs /\ Approved(m) /\ opts.prune /\ "reservations" \in doc.sections
         /\ \A x \in Macs \ {m} : x \in Reserved(site') <=> x \in Reserved(site)
         /\ site' # site => pass = "write"
<1> DEFINE c == [site.clients[m] EXCEPT !.fixed = FALSE]
           cleared == [site EXCEPT !.clients[m] = c]
           after == IF site.clients[m] = None THEN site ELSE Cleared(site, m)
<1>1. PICK answer \in Answers : Mutate(PutTaken(m), after, answer) /\ Continue(m, answer)
  BY DEF ClearReservation
<1>2. /\ TypeOK /\ pc = "clear" /\ Step /\ m \in todo /\ Approved(m) /\ SiteOK(site)
      /\ m \in Macs \ DeclaredMacs /\ opts.prune /\ "reservations" \in doc.sections /\ ~Malformed
      /\ todo \subseteq Macs \ DeclaredMacs /\ Log("DELETE", m)
  BY DEF ClearReservation, Inv, Pending, TypeOK
<1>3. PutTaken(m) \in BOOLEAN /\ (PutTaken(m) => site.clients[m] # None)
  BY DEF PutTaken
<1>4. PutTaken(m) =>
        /\ after = cleared /\ SiteOK(after) /\ after.nets = site.nets /\ after.scope = site.scope
        /\ \A x \in Macs \ {m} : after.clients[x] = site.clients[x]
        /\ Known(site) \subseteq Known(after)
        /\ \A x \in Macs \ {m} : x \in Reserved(after) <=> x \in Reserved(site)
        /\ m \notin Reserved(after)
  <2> SUFFICES ASSUME PutTaken(m)
               PROVE  /\ after = cleared /\ SiteOK(cleared) /\ cleared.nets = site.nets
                      /\ cleared.scope = site.scope
                      /\ \A x \in Macs \ {m} : cleared.clients[x] = site.clients[x]
                      /\ Known(site) \subseteq Known(cleared)
                      /\ \A x \in Macs \ {m} : x \in Reserved(cleared) <=> x \in Reserved(site)
                      /\ m \notin Reserved(cleared)
    OBVIOUS
  <2>1. site.clients[m] \in Client /\ m \in Known(site)
    BY <1>2, <1>3 DEF SiteOK, Site, Known
  <2>2. c \in Client /\ c.net = site.clients[m].net /\ c.fixed = FALSE
    BY <2>1 DEF Client
  <2>3. c.net \in NetsOf(site) \cup {None, Gone}
    BY <1>2, <2>1, <2>2 DEF SiteOK
  <2>4. after = cleared
    BY <1>3 DEF Cleared
  <2> HIDE DEF c, after
  <2>5. QED
    BY <1>2, <2>2, <2>3, <2>4, SetClientFacts
<1> HIDE DEF after, cleared
<1>5. /\ faults' \in 0..MaxTroubles
      /\ site' = site \/ (pass = "write" /\ PutTaken(m) /\ site' = after)
      /\ pass = "write" /\ answer = "done" => PutTaken(m) /\ site' = after
  BY <1>1, <1>2, <1>3, MutateFacts
<1>6. /\ read' \in Lists /\ todo' \subseteq todo
      /\ \/ answer = "done" /\ pc' = pc /\ read' = read /\ todo' = todo \ {m}
         \/ pc' = "failed"
  BY <1>1, <1>2, ContinueFacts
<1>7. lines' \subseteq Line /\ lines' # {}
  BY <1>2, LogTyped
<1>8. TypeOK'
  <2>1. todo' \subseteq Nets \cup Macs /\ SiteOK(site')
    BY <1>2, <1>4, <1>5, <1>6
  <2>2. pc' \in {"failed", "clear"}
    BY <1>2, <1>6
  <2>3. QED
    BY <1>2, <1>5, <1>6, <1>7, <2>1, <2>2, StepTyped DEF Endings
<1>9. /\ UNCHANGED <<doc, opts, pass, stale, disturbed, edits>>
      /\ site'.nets = site.nets /\ site'.scope = site.scope
      /\ Known(site) \subseteq Known(site')
      /\ \A x \in Macs \ {m} : /\ x \in Reserved(site') <=> x \in Reserved(site)
                               /\ site'.clients[x] = site.clients[x]
  BY <1>2, <1>4, <1>5 DEF Step, input
<1>10. Inv'
  <2>1. CASE pc' = "failed"
    BY <1>8, <2>1, QuietInv
  <2>2. CASE answer = "done" /\ pc' = pc /\ read' = read /\ todo' = todo \ {m}
    <3>1. DeclaredMacs' = DeclaredMacs /\ (Malformed' <=> Malformed)
      BY <1>9 DEF Malformed, DeclaredMacs
    <3>2. Pending' /\ InForce' /\ Dated'
      BY <1>2, <1>9, <2>2, <3>1 DEF Pending, InForce, Dated
    <3>3. pass = "write" => m \notin Reserved(site')
      BY <1>4, <1>5, <2>2
    <3>4. ASSUME Progress PROVE Progress'
      BY <1>2, <1>7, <1>9, <2>2, <3>3, <3>4, ClearProgress
    <3>5. Whole'
      BY <1>9, <3>4 DEF Inv, Whole
    <3>6. QED
      BY <1>8, <3>2, <3>5 DEF Inv
  <2>3. QED
    BY <1>6, <2>1, <2>2
<1>11. QED
  BY <1>2, <1>5, <1>9, <1>10

LEMMA RefuseClearInv == ASSUME Inv, NEW m \in Macs, RefuseClear(m) PROVE Inv'
<1>1. /\ TypeOK /\ pc = "clear" /\ Unapproved(m) /\ m \in todo
      /\ todo \subseteq Macs \ DeclaredMacs /\ opts.prune /\ "reservations" \in doc.sections
      /\ ~Malformed
  BY DEF RefuseClear, Unapproved, Inv, Pending
<1>2. /\ TypeOK' /\ UNCHANGED <<site, doc, opts, pass, disturbed, stale>>
      /\ \/ pc' = "stopped"
         \/ pc' = pc /\ read' = read /\ todo' = todo \ {m} /\ pass = "plan" /\ lines' # {}
  BY <1>1, UnapprovedFacts
<1>3. CASE pc' = "stopped"
  BY <1>2, <1>3, QuietInv
<1>4. CASE pc' = pc /\ read' = read /\ todo' = todo \ {m} /\ pass = "plan" /\ lines' # {}
  <2>1. DeclaredMacs' = DeclaredMacs /\ (Malformed' <=> Malformed)
    BY <1>2 DEF Malformed, DeclaredMacs
  <2>2. Pending' /\ InForce' /\ Dated'
    BY <1>1, <1>2, <1>4, <2>1 DEF Pending, InForce, Dated
  <2>3. ASSUME Progress PROVE Progress'
    BY <1>1, <1>2, <1>4, <2>3, ClearProgress
  <2>4. Whole'
    BY <1>2, <2>3 DEF Inv, Whole
  <2>5. QED
    BY <1>2, <2>2, <2>4 DEF Inv
<1>5. QED
  BY <1>2, <1>3, <1>4

-----------------------------------------------------------------------------
(* Between and after the passes *)

LEMMA AppliedInv ==
  ASSUME TypeOK', pc' \in {"clean", "applied"},
         (~disturbed /\ opts.prune /\ "reservations" \in doc.sections => AllHeld)'
  PROVE  Inv'
<1>1. Pending' /\ Dated' /\ InForce'
  BY DEF Pending, Dated, InForce
<1>2. Whole'
  BY DEF Whole, Progress
<1>3. QED
  BY <1>1, <1>2 DEF Inv

LEMMA AllHeldStays ==
  ASSUME UNCHANGED <<site, doc>>
  PROVE  AllHeld' <=> AllHeld
BY DEF AllHeld, Malformed, DeclaredMacs, Held, Reserved, Known

LEMMA FinishPlanInv == ASSUME Inv, FinishPlan PROVE Inv'
<1>1. /\ TypeOK /\ pc = "done" /\ pass = "plan" /\ planned' = lines
      /\ UNCHANGED <<site, input, files, stale, edits, faults, disturbed>>
  BY DEF FinishPlan, Inv, TypeOK, DryRun
<1>2. CASE Refused \/ lines = {}
  <2>1. /\ pc' = (IF Refused THEN "refused" ELSE "clean") /\ read' \in Lists /\ todo' = {}
        /\ UNCHANGED <<pass, plan>>
    BY <1>2, EndFacts DEF FinishPlan
  <2>2. TypeOK'
    BY <1>1, <2>1 DEF TypeOK, input, files, plan, Lists, Endings
  <2>3. CASE Refused
    BY <2>1, <2>2, <2>3, QuietInv
  <2>4. CASE ~Refused
    <3>1. lines = {} /\ Made
      BY <1>2, <2>4 DEF Made
    <3>2. ~disturbed /\ opts.prune /\ "reservations" \in doc.sections => AllHeld
      BY <1>1, <3>1 DEF Inv, Whole, Progress
    <3>3. QED
      BY <1>1, <2>1, <2>2, <2>4, <3>2, AllHeldStays, AppliedInv DEF input
  <2>5. QED
    BY <2>3, <2>4
<1>3. CASE ~(Refused \/ lines = {}) /\ opts.snapshotDir
  <2>1. pc' = "snapshot" /\ UNCHANGED <<pass, reading, plan>>
    BY <1>3 DEF FinishPlan
  <2>2. TypeOK'
    BY <1>1, <2>1 DEF TypeOK, input, files, plan, reading
  <2>3. QED
    BY <2>1, <2>2, QuietInv
<1>4. CASE ~(Refused \/ lines = {}) /\ ~opts.snapshotDir
  <2>1. /\ pass' = "write" /\ pc' = "start" /\ read' \in Lists /\ todo' = {}
        /\ lines' = {} /\ unlisted' = {}
    BY <1>4, BeginPassFacts DEF FinishPlan
  <2>2. TypeOK'
    BY <1>1, <2>1 DEF TypeOK, input, files, Lists
  <2>3. QED
    BY <2>1, <2>2, QuietInv
<1>5. QED
  BY <1>2, <1>3, <1>4

\* A snapshot of a sound console is a document.
LEMMA SnapshotTyped ==
  ASSUME TypeOK, doc.mdns = None \/ site.scope # Unreadable
  PROVE  Snapshot \in Document
<1>1. SiteOK(site) /\ site \in Site /\ doc \in Document
  BY DEF TypeOK, SiteOK
<1>2. ASSUME NEW m \in Macs PROVE Exported(site)[m] \in Entry \cup {None}
  <2>1. CASE m \in Reserved(site) /\ NetworkName(site, m) # None
    <3>1. site.clients[m] \in Client /\ site.clients[m].ip \in IPs
      BY <1>1, <2>1 DEF SiteOK, Site, Reserved, Known, Client
    <3>2. NetworkName(site, m) \in Nets
      BY <2>1 DEF NetworkName, NetsOf
    <3>3. Exported(site)[m] = [ip |-> site.clients[m].ip, net |-> NetworkName(site, m),
                               name |-> site.clients[m].name]
      BY <2>1 DEF Exported
    <3>4. QED
      BY <3>1, <3>2, <3>3 DEF Client, Entry
  <2>2. CASE ~(m \in Reserved(site) /\ NetworkName(site, m) # None)
    BY <2>2 DEF Exported
  <2>3. QED
    BY <2>1, <2>2
<1>3. Exported(site) \in [Macs -> Entry \cup {None}]
  <2>1. Exported(site) = [m \in Macs |-> Exported(site)[m]]
    BY DEF Exported
  <2>2. QED
    BY <1>2, <2>1
<1>4. (IF doc.mdns = None THEN None ELSE site.scope) \in Scopes \cup {None}
  BY <1>1 DEF Site
<1>5. site.nets \in [Nets -> Flags \cup {None}]
  BY <1>1 DEF Site
<1>6. (IF "reservations" \in doc.sections THEN Exported(site) ELSE [m \in Macs |-> None])
        \in [Macs -> Entry \cup {None}]
  BY <1>3
<1>7. {"networks"} \cup (doc.sections \cap {"reservations"}) \in SUBSET {"networks", "reservations"}
  OBVIOUS
<1>8. QED
  BY <1>4, <1>5, <1>6, <1>7 DEF Snapshot, Document

LEMMA TakeSnapshotInv == ASSUME TypeOK, TakeSnapshot PROVE Inv'
<1>1. UNCHANGED <<site, input, stale, edits, faults, planned, disturbed>>
  BY DEF TakeSnapshot
<1>2. CASE doc.mdns # None /\ site.scope = Unreadable
  <2>1. pc' = "failed" /\ read' \in Lists /\ todo' = {} /\ UNCHANGED <<pass, plan, files>>
    BY <1>2, EndFacts DEF TakeSnapshot
  <2>2. TypeOK'
    BY <1>1, <2>1 DEF TypeOK, input, files, plan, Lists, Endings
  <2>3. QED
    BY <2>1, <2>2, QuietInv
<1>3. CASE ~(doc.mdns # None /\ site.scope = Unreadable)
  <2>1. /\ saved' = Snapshot /\ before' \in {None, site}
        /\ pass' = "write" /\ pc' = "start" /\ read' \in Lists /\ todo' = {}
        /\ lines' = {} /\ unlisted' = {}
    BY <1>3, BeginPassFacts DEF TakeSnapshot
  <2>2. saved' \in Document /\ before' \in Site \cup {None}
    BY <1>3, <2>1, SnapshotTyped DEF TypeOK, SiteOK
  <2>3. TypeOK'
    BY <1>1, <2>1, <2>2 DEF TypeOK, input, Lists
  <2>4. QED
    BY <2>1, <2>3, QuietInv
<1>4. QED
  BY <1>2, <1>3

LEMMA FinishWriteInv == ASSUME Inv, FinishWrite PROVE Inv'
<1>1. /\ TypeOK /\ pc = "done" /\ pass = "write" /\ Quick
      /\ pc' = "applied" /\ read' \in Lists /\ todo' = {}
  BY EndFacts DEF FinishWrite, Inv, TypeOK, DryRun
<1>2. TypeOK' /\ UNCHANGED <<site, doc, opts, disturbed>>
  BY <1>1, QuickTyped DEF Endings, Quick, Step, input
<1>3. ~disturbed /\ opts.prune /\ "reservations" \in doc.sections => AllHeld
  BY <1>1 DEF Inv, Whole, Progress, Made
<1>4. QED
  BY <1>1, <1>2, <1>3, AllHeldStays, AppliedInv

LEMMA KillInv == ASSUME TypeOK, Kill PROVE Inv'
<1>1. /\ pc' = "killed" /\ read' \in Lists /\ todo' = {}
      /\ UNCHANGED <<site, input, pass, plan, files, stale, edits, planned, disturbed>>
  BY EndFacts DEF Kill
<1>2. faults' \in 0..MaxTroubles
  BY BoundAssumption DEF Kill, TypeOK
<1>3. TypeOK'
  BY <1>1, <1>2 DEF TypeOK, input, files, plan, Lists, Endings
<1>4. QED
  BY <1>1, <1>3, QuietInv

-----------------------------------------------------------------------------
(* What happens on the console *)

LEMMA HappenInv ==
  ASSUME Inv, NEW after, SiteOK(after), Happen(after),
         stale' \subseteq Macs \cup Nets, stale \subseteq stale',
         NetsOf(site) \subseteq NetsOf(after) \cup stale'
  PROVE  Inv' /\ edits' # edits /\ disturbed'
<1>1. /\ TypeOK /\ site' = after /\ disturbed' = TRUE /\ before' = None
      /\ UNCHANGED <<input, pass, pc, reading, plan, saved, faults, planned>>
  BY DEF Inv, Happen
<1>2. edits' \in 0..MaxTroubles /\ edits' # edits
  BY <1>1, BoundAssumption DEF Happen, TypeOK
<1>3. TypeOK'
  BY <1>1, <1>2 DEF TypeOK, input, plan, reading
<1>4. DeclaredMacs' = DeclaredMacs /\ DeclaredNets' = DeclaredNets /\ (Malformed' <=> Malformed)
  BY <1>1 DEF input, DeclaredMacs, DeclaredNets, Malformed
<1>5. Pending'
  BY <1>1, <1>4 DEF Inv, Pending, input, reading
<1>6. Dated'
  BY <1>1 DEF Inv, Dated, reading, NetsOf
<1>7. InForce' /\ Whole'
  BY <1>1 DEF InForce, Whole
<1>8. QED
  BY <1>1, <1>2, <1>3, <1>5, <1>6, <1>7 DEF Inv

LEMMA RoamInv ==
  ASSUME Inv, NEW m \in Macs, Roam(m) PROVE Inv' /\ edits' # edits /\ disturbed'
<1>1. PICK n \in NetsOf(site) : Happen([site EXCEPT !.seen[m] = n])
  BY DEF Roam
<1> DEFINE after == [site EXCEPT !.seen[m] = n]
<1>2. /\ SiteOK(site) /\ site \in Site /\ n \in Nets \cup {None, Gone} /\ stale \subseteq Macs \cup Nets
  BY DEF Inv, TypeOK, SiteOK, NetsOf
<1>3. SiteOK(after) /\ NetsOf(after) = NetsOf(site)
  BY <1>2, SetSeen DEF NetsOf, Site
<1>4. stale' = stale
  BY DEF Roam
<1> HIDE DEF after
<1>5. Happen(after)
  BY <1>1 DEF after
<1>6. QED
  BY <1>2, <1>3, <1>4, <1>5, HappenInv

LEMMA AppearInv ==
  ASSUME Inv, NEW m \in Macs, Appear(m) PROVE Inv' /\ edits' # edits /\ disturbed'
<1> DEFINE c == [fixed |-> FALSE, ip |-> None, net |-> None, name |-> None]
<1>1. PICK n \in NetsOf(site) : Happen([site EXCEPT !.seen[m] = n, !.clients[m] = c])
  BY DEF Appear
<1> DEFINE moved == [site EXCEPT !.seen[m] = n]
           after == [moved EXCEPT !.clients[m] = c]
<1>2. /\ SiteOK(site) /\ site \in Site /\ n \in Nets \cup {None, Gone} /\ stale \subseteq Macs \cup Nets
  BY DEF Inv, TypeOK, SiteOK, NetsOf
<1>3. SiteOK(moved) /\ moved.nets = site.nets
  BY <1>2, SetSeen DEF Site
<1>4. c \in Client /\ c.net = None /\ c.fixed = FALSE
  BY DEF Client
<1>5. Happen(after)
  BY <1>1
<1> HIDE DEF c, moved
<1>6. SiteOK(after) /\ after.nets = moved.nets
  BY <1>3, <1>4, SetClientFacts
<1>7. stale' = stale
  BY DEF Appear
<1> HIDE DEF after
<1>8. NetsOf(site) = NetsOf(after)
  BY <1>3, <1>6 DEF NetsOf
<1>9. QED
  BY <1>2, <1>5, <1>6, <1>7, <1>8, HappenInv

LEMMA ForgetInv ==
  ASSUME Inv, NEW m \in Macs, Forget(m) PROVE Inv' /\ edits' # edits /\ disturbed'
<1> DEFINE moved == [site EXCEPT !.clients[m] = None]
           after == [moved EXCEPT !.seen[m] = None]
<1>1. SiteOK(site) /\ site \in Site /\ stale \subseteq Macs \cup Nets
  BY DEF Inv, TypeOK, SiteOK
<1>2. SiteOK(moved) /\ moved.nets = site.nets
  BY <1>1, SetClient DEF Site
<1>3. Happen(after) /\ stale' = stale \cup {m}
  BY DEF Forget
<1> HIDE DEF moved
<1>4. SiteOK(after) /\ after.nets = moved.nets
  <2>1. moved \in Site
    BY <1>2 DEF SiteOK
  <2>2. QED
    BY <1>2, <2>1, SetSeen DEF Site
<1> HIDE DEF after
<1>5. NetsOf(site) = NetsOf(after)
  BY <1>2, <1>4 DEF NetsOf
<1>6. QED
  BY <1>1, <1>3, <1>4, <1>5, HappenInv

LEMMA EditReservationInv ==
  ASSUME Inv, NEW m \in Macs, EditReservation(m) PROVE Inv' /\ edits' # edits /\ disturbed'
<1>1. /\ SiteOK(site) /\ site \in Site /\ stale \subseteq Macs \cup Nets /\ stale' = stale
      /\ m \in Known(site) /\ site.clients[m] \in Client
  BY DEF Inv, TypeOK, SiteOK, Site, EditReservation, Known
<1>2. ASSUME NEW c \in Client, c.net = site.clients[m].net, c.fixed => c.ip # None,
             Happen([site EXCEPT !.clients[m] = c])
      PROVE  Inv' /\ edits' # edits /\ disturbed'
  <2> DEFINE after == [site EXCEPT !.clients[m] = c]
  <2>1. c.net \in NetsOf(site) \cup {None, Gone}
    BY <1>1, <1>2 DEF SiteOK
  <2>2. SiteOK(after) /\ after.nets = site.nets /\ Happen(after)
    BY <1>1, <1>2, <2>1, SetClientFacts
  <2> HIDE DEF after
  <2>3. NetsOf(site) = NetsOf(after)
    BY <2>2 DEF NetsOf
  <2>4. QED
    BY <1>1, <2>2, <2>3, HappenInv
<1>3. ASSUME NEW i \in IPs, Happen([site EXCEPT !.clients[m].fixed = TRUE, !.clients[m].ip = i])
      PROVE  Inv' /\ edits' # edits /\ disturbed'
  <2> DEFINE c == [[site.clients[m] EXCEPT !.fixed = TRUE] EXCEPT !.ip = i]
  <2>1. c \in Client /\ c.net = site.clients[m].net /\ c.ip # None
    BY <1>1, AbsentAssumption DEF Client
  <2>2. [site EXCEPT !.clients[m].fixed = TRUE, !.clients[m].ip = i] = [site EXCEPT !.clients[m] = c]
    <3>1. /\ site.clients \in [Macs -> Client \cup {None}]
          /\ site = [scope |-> site.scope, nets |-> site.nets, clients |-> site.clients,
                     seen |-> site.seen]
      BY <1>1 DEF Site
    <3>2. [[site.clients EXCEPT ![m].fixed = TRUE] EXCEPT ![m].ip = i] = [site.clients EXCEPT ![m] = c]
      BY <3>1
    <3>3. QED
      BY <3>1, <3>2
  <2>3. Happen([site EXCEPT !.clients[m] = c])
    BY <1>3, <2>2
  <2> HIDE DEF c
  <2>4. QED
    BY <1>2, <2>1, <2>3
<1>4. ASSUME Happen([site EXCEPT !.clients[m].fixed = FALSE])
      PROVE  Inv' /\ edits' # edits /\ disturbed'
  <2> DEFINE c == [site.clients[m] EXCEPT !.fixed = FALSE]
  <2>1. c \in Client /\ c.net = site.clients[m].net /\ c.fixed = FALSE
    BY <1>1 DEF Client
  <2>2. Happen([site EXCEPT !.clients[m] = c])
    BY <1>4
  <2> HIDE DEF c
  <2>3. QED
    BY <1>2, <2>1, <2>2
<1>5. QED
  BY <1>3, <1>4 DEF EditReservation

LEMMA EditScopeInv == ASSUME Inv, EditScope PROVE Inv' /\ edits' # edits /\ disturbed'
<1>1. PICK x \in Scopes \cup {Unreadable} : Happen([site EXCEPT !.scope = x])
  BY DEF EditScope
<1> DEFINE after == [site EXCEPT !.scope = x]
<1>2. SiteOK(site) /\ site \in Site /\ stale \subseteq Macs \cup Nets /\ stale' = stale
  BY DEF Inv, TypeOK, SiteOK, EditScope
<1>3. SiteOK(after) /\ NetsOf(after) = NetsOf(site) /\ Happen(after)
  BY <1>1, <1>2, SetScope DEF NetsOf, Site
<1> HIDE DEF after
<1>4. QED
  BY <1>2, <1>3, HappenInv

LEMMA EditNetworkInv ==
  ASSUME Inv, NEW n \in Nets, EditNetwork(n) PROVE Inv' /\ edits' # edits /\ disturbed'
<1>1. SiteOK(site) /\ site \in Site /\ stale \subseteq Macs \cup Nets
  BY DEF Inv, TypeOK, SiteOK
<1>2. ASSUME NEW f \in Flags, Happen([site EXCEPT !.nets[n] = f]), stale' = stale
      PROVE  Inv' /\ edits' # edits /\ disturbed'
  <2> DEFINE after == [site EXCEPT !.nets[n] = f]
  <2>1. SiteOK(after) /\ Happen(after)
    BY <1>1, <1>2, SetFlag
  <2>2. NetsOf(site) \subseteq NetsOf(after)
    <3>1. /\ after.nets[n] = f /\ f # None
          /\ \A x \in Nets \ {n} : after.nets[x] = site.nets[x]
      BY <1>1, AbsentAssumption DEF Site
    <3> HIDE DEF after
    <3>2. QED
      BY <3>1 DEF NetsOf
  <2> HIDE DEF after
  <2>3. QED
    BY <1>1, <1>2, <2>1, <2>2, HappenInv
<1>3. ASSUME Happen(DropNetwork(site, n)), stale' = stale \cup {n}
      PROVE  Inv' /\ edits' # edits /\ disturbed'
  <2>1. SiteOK(DropNetwork(site, n)) /\ NetsOf(DropNetwork(site, n)) = NetsOf(site) \ {n}
    BY <1>1, DropFacts
  <2>2. QED
    BY <1>1, <1>3, <2>1, HappenInv
<1>4. QED
  BY <1>2, <1>3 DEF EditNetwork

LEMMA OutsideInv == ASSUME Inv, Outside PROVE Inv' /\ edits' # edits /\ disturbed'
BY RoamInv, AppearInv, ForgetInv, EditReservationInv, EditScopeInv, EditNetworkInv DEF Outside

-----------------------------------------------------------------------------
(* The invariant, and what follows from it *)

LEMMA RunStepInv == ASSUME Inv, RunStep PROVE Inv'
<1>1. TypeOK
  BY DEF Inv
<1>2. CASE StartSteps \/ SkipMDNS \/ ScopeUnreadable \/ ScopeRead \/ WriteScope
  BY <1>1, <1>2, StartStepsInv, SkipMDNSInv, ScopeUnreadableInv, ScopeReadInv, WriteScopeInv
<1>3. CASE ReadNetworks \/ PruneNetworks \/ EndNetworks
  BY <1>1, <1>3, ReadNetworksInv, PruneNetworksInv, EndNetworksInv
<1>4. CASE \E n \in Nets : NetworkOK(n) \/ WriteNetwork(n) \/ DeleteNetwork(n) \/ RefuseNetwork(n)
  BY <1>4, NetworkOKInv, WriteNetworkFacts, DeleteNetworkFacts, RefuseNetworkInv
<1>5. CASE SkipReservations \/ RefuseReservations \/ ReadClients \/ ReadPlaces
             \/ BeginClear \/ EndReservations
  BY <1>1, <1>5, SkipReservationsInv, FailsInv, ReadClientsInv, ReadPlacesInv, BeginClearInv,
     EndReservationsInv DEF RefuseReservations
<1>6. CASE \E m \in Macs : \/ UnknownNetwork(m) \/ ReservationOK(m) \/ Reserve(m)
                           \/ ClearReservation(m) \/ RefuseClear(m)
  BY <1>1, <1>6, FailsInv, ReservationOKInv, ReserveFacts, ClearFacts, RefuseClearInv
     DEF UnknownNetwork
<1>7. CASE FinishPlan \/ TakeSnapshot \/ FinishWrite
  BY <1>1, <1>7, FinishPlanInv, TakeSnapshotInv, FinishWriteInv
<1>8. QED
  BY <1>2, <1>3, <1>4, <1>5, <1>6, <1>7 DEF RunStep

LEMMA NextInv == Inv /\ [Next]_vars => Inv'
<1> SUFFICES ASSUME Inv, [Next]_vars PROVE Inv'
  OBVIOUS
<1>1. TypeOK
  BY DEF Inv
<1>2. CASE StartSync \/ StartRestore \/ Kill
  BY <1>1, <1>2, StartSyncInv, StartRestoreInv, KillInv
<1>3. CASE RunStep
  BY <1>3, RunStepInv
<1>4. CASE Outside
  BY <1>4, OutsideInv
<1>5. CASE UNCHANGED vars
  <2>1. UNCHANGED <<site, doc, opts, restoring, pass, pc, read, todo, lines, unlisted, saved,
                    before, stale, edits, faults, planned, disturbed>>
    BY <1>5 DEF vars, input, reading, plan, files
  <2>2. TypeOK'
    BY <1>1, <2>1 DEF TypeOK
  <2>3. DeclaredMacs' = DeclaredMacs /\ DeclaredNets' = DeclaredNets /\ (Malformed' <=> Malformed)
    BY <2>1 DEF DeclaredMacs, DeclaredNets, Malformed
  <2>4. Pending' /\ Dated' /\ InForce'
    BY <2>1, <2>3 DEF Inv, Pending, Dated, InForce, NetsOf
  <2>5. \A m \in Macs : (Like(m)' <=> Like(m)) /\ (Held(m)' <=> Held(m))
    BY <2>1 DEF Like, Held, Reserved, Known
  <2>6. Reserved(site)' = Reserved(site) /\ (Made' <=> Made) /\ (AllHeld' <=> AllHeld)
    BY <2>1, AllHeldStays DEF Reserved, Known, Made
  <2>7. DeclaredMacs \subseteq Macs
    BY DEF DeclaredMacs
  <2>8. Progress => Progress'
    BY <2>1, <2>3, <2>5, <2>6, <2>7 DEF Progress
  <2>9. Whole'
    BY <2>1, <2>8 DEF Inv, Whole
  <2>10. QED
    BY <2>2, <2>4, <2>9 DEF Inv
<1>6. QED
  BY <1>2, <1>3, <1>4, <1>5 DEF Next

\* The invariant holds in every state of every behaviour.
THEOREM Invariance == Spec => []Inv
BY InitInv, NextInv, PTL DEF Spec

\* Every variable has its type: in particular every reservation has an address,
\* and the network id of a record is none, that of a network that exists, or
\* known as one whose network was deleted.
THEOREM TypeCorrect == Spec => []TypeOK
<1>1. Inv => TypeOK
  BY DEF Inv
<1>2. QED
  BY <1>1, Invariance, PTL

\* A run that ends well and prunes leaves no address reserved for two clients,
\* also when clients trade addresses request by request (legacy.go:168-219).
THEOREM AddressesUnique == Spec => []AddressesEndUnique
<1>1. ASSUME Inv PROVE AddressesEndUnique
  <2> SUFFICES ASSUME AllHeld, NEW m1 \in Reserved(site), NEW m2 \in Reserved(site), m1 # m2
               PROVE  site.clients[m1].ip # site.clients[m2].ip
    BY <1>1 DEF AddressesEndUnique, Inv, Whole, Progress
  <2>1. QED
    BY DEF AllHeld, Held, Malformed
<1>2. QED
  BY <1>1, Invariance, PTL

-----------------------------------------------------------------------------
(* What a step may do *)

\* One step of a run, of its beginning or of its end, as far as networks and
\* clients are concerned.
LEMMA RunStepEffect ==
  ASSUME Inv, RunStep \/ StartSync \/ StartRestore \/ Kill
  PROVE  /\ \/ site'.nets = site.nets
            \/ pc = "writeNets" /\ pass = "write" /\ doc' = doc /\ disturbed' = disturbed
            \/ \A n \in Nets : site'.nets[n] \in {site.nets[n], None}
         /\ Known(site) \subseteq Known(site')
         /\ \A m \in Reserved(site) \ Reserved(site') :
              /\ pass = "write" /\ m \notin DeclaredMacs /\ Approved(m)
              /\ opts.prune /\ "reservations" \in doc.sections
<1>1. ASSUME site' = site
      PROVE  site'.nets = site.nets /\ Known(site') = Known(site) /\ Reserved(site') = Reserved(site)
  BY <1>1
<1>2. CASE StartSync \/ StartRestore \/ Kill
  BY <1>1, <1>2 DEF StartSync, StartRestore, Kill, Launch
<1>3. CASE StartSteps \/ SkipMDNS \/ ScopeUnreadable \/ ScopeRead
  BY <1>1, <1>3 DEF StartSteps, SkipMDNS, ScopeUnreadable, ScopeRead, Quick
<1>4. CASE WriteScope
  BY <1>4, WriteScopeFacts DEF Known, Reserved
<1>5. CASE ReadNetworks \/ PruneNetworks \/ EndNetworks
  BY <1>1, <1>5 DEF ReadNetworks, PruneNetworks, EndNetworks, Get, Quick
<1>6. ASSUME NEW n \in Nets, NetworkOK(n) \/ RefuseNetwork(n) PROVE site' = site
  BY <1>6 DEF NetworkOK, RefuseNetwork, Unapproved, Quick
<1>7. ASSUME NEW n \in Nets, WriteNetwork(n)
      PROVE  /\ site'.nets = site.nets
                \/ (pc = "writeNets" /\ pass = "write" /\ doc' = doc /\ disturbed' = disturbed)
             /\ Known(site') = Known(site) /\ Reserved(site') = Reserved(site)
  BY <1>7, WriteNetworkFacts DEF Known, Reserved
<1>8. CASE \E n \in Nets : NetworkOK(n) \/ WriteNetwork(n) \/ DeleteNetwork(n) \/ RefuseNetwork(n)
  BY <1>1, <1>6, <1>7, <1>8, DeleteNetworkFacts
<1>9. CASE SkipReservations \/ RefuseReservations \/ ReadClients \/ ReadPlaces
             \/ BeginClear \/ EndReservations
  BY <1>1, <1>9 DEF SkipReservations, RefuseReservations, ReadClients, ReadPlaces, BeginClear,
                    EndReservations, Get, Quick
<1>10. ASSUME NEW m \in Macs, UnknownNetwork(m) \/ ReservationOK(m) \/ RefuseClear(m)
       PROVE  site' = site
  BY <1>10 DEF UnknownNetwork, ReservationOK, RefuseClear, Unapproved, Quick
<1>11. ASSUME NEW m \in Macs, ClearReservation(m)
       PROVE  /\ site'.nets = site.nets /\ Known(site) \subseteq Known(site')
              /\ \A x \in Reserved(site) \ Reserved(site') :
                   /\ pass = "write" /\ x \notin DeclaredMacs /\ Approved(x)
                   /\ opts.prune /\ "reservations" \in doc.sections
  <2>1. /\ site'.nets = site.nets /\ Known(site) \subseteq Known(site')
        /\ m \notin DeclaredMacs /\ Approved(m) /\ opts.prune /\ "reservations" \in doc.sections
        /\ \A x \in Macs \ {m} : x \in Reserved(site') <=> x \in Reserved(site)
        /\ site' # site => pass = "write"
    BY <1>11, ClearFacts
  <2>2. ASSUME NEW x \in Reserved(site) \ Reserved(site') PROVE x = m /\ site' # site
    BY <2>1 DEF Reserved, Known
  <2>3. QED
    BY <2>1, <2>2
<1>12. CASE \E m \in Macs : \/ UnknownNetwork(m) \/ ReservationOK(m) \/ Reserve(m)
                            \/ ClearReservation(m) \/ RefuseClear(m)
  BY <1>1, <1>10, <1>11, <1>12, ReserveFacts
<1>13. CASE FinishPlan \/ TakeSnapshot \/ FinishWrite
  BY <1>1, <1>13 DEF FinishPlan, TakeSnapshot, FinishWrite, Quick
<1>14. QED
  BY <1>2, <1>3, <1>4, <1>5, <1>8, <1>9, <1>12, <1>13 DEF RunStep

LEMMA VarsStay ==
  ASSUME UNCHANGED vars
  PROVE  site' = site
BY DEF vars

\* The declared scope is in force before a network starts to take part, in any
\* run that nothing disturbs (plan.go:112-114), wherever it is cut short.
THEOREM ScopeComesFirst == Spec => ScopeFirst
<1> DEFINE A == doc.mdns # None /\ ~disturbed' =>
                  \A n \in Nets : site.nets[n] # "on" /\ site'.nets[n] = "on"
                                    => site.scope = doc.mdns
<1>1. ASSUME Inv, [Next]_vars PROVE A
  <2> SUFFICES ASSUME doc.mdns # None, ~disturbed', NEW n \in Nets,
                      site.nets[n] # "on", site'.nets[n] = "on"
               PROVE  site.scope = doc.mdns
    OBVIOUS
  <2>1. "on" # None
    BY AbsentAssumption DEF Flags
  <2>2. ~Outside /\ ~UNCHANGED vars
    BY <1>1, OutsideInv, VarsStay
  <2>3. RunStep \/ StartSync \/ StartRestore \/ Kill
    BY <1>1, <2>2 DEF Next
  <2>4. pc = "writeNets" /\ pass = "write" /\ disturbed' = disturbed
    BY <1>1, <2>1, <2>3, RunStepEffect
  <2>5. QED
    BY <1>1, <2>4 DEF Inv, InForce
<1>2. QED
  BY <1>1, Invariance, PTL DEF Spec, ScopeFirst

\* A run gives up a reservation only with --prune, in a declared section,
\* undeclared and approved, and it never forgets a client (legacy.go:207-213).
THEOREM ClearsApproved == Spec => ClearsAreApproved
<1> DEFINE A == edits' = edits =>
                  /\ Known(site) \subseteq Known(site')
                  /\ \A m \in Reserved(site) \ Reserved(site') :
                       /\ pass = "write" /\ opts.prune /\ "reservations" \in doc.sections
                       /\ doc.res[m] = None /\ Approved(m)
<1>1. ASSUME Inv, [Next]_vars PROVE A
  <2> SUFFICES ASSUME edits' = edits
               PROVE  /\ Known(site) \subseteq Known(site')
                      /\ \A m \in Reserved(site) \ Reserved(site') :
                           /\ pass = "write" /\ opts.prune /\ "reservations" \in doc.sections
                           /\ doc.res[m] = None /\ Approved(m)
    OBVIOUS
  <2>1. CASE UNCHANGED vars
    <3>1. site' = site
      BY <2>1, VarsStay
    <3>2. QED
      BY <3>1
  <2>2. CASE RunStep \/ StartSync \/ StartRestore \/ Kill
    BY <1>1, <2>2, RunStepEffect DEF DeclaredMacs, Reserved, Known
  <2>3. QED
    BY <1>1, <2>1, <2>2, OutsideInv DEF Next
<1>2. QED
  BY <1>1, Invariance, PTL DEF Spec, ClearsAreApproved
-----------------------------------------------------------------------------
(***************************************************************************)
(* What is planned is carried out.                                         *)
(***************************************************************************)

\* The networks the console owns stay, and a client is seen on one that exists.
PlacesOK(s) ==
  /\ Builtin \subseteq NetsOf(s)
  /\ \A m \in Macs : s.seen[m] \in NetsOf(s) \cup {None, Gone}

Keys == Nets \cup Macs \cup {"mdns"}

\* What document d asks of console s for client m is so.
SameIn(s, d, m) ==
  /\ m \in Reserved(s)
  /\ s.clients[m].ip = d.res[m].ip /\ NetworkName(s, m) = d.res[m].net
  /\ d.res[m].name # None => s.clients[m].name = d.res[m].name

\* Console s has to be changed at k, for document d under options o.
WrongScope(s, d) == d.mdns # None /\ s.scope # d.mdns

WrongNet(s, d, o, n) ==
  IF d.nets[n] # None THEN s.nets[n] # d.nets[n]
  ELSE o.prune /\ "networks" \in d.sections /\ n \notin Builtin /\ s.nets[n] # None

WrongClient(s, d, o, m) ==
  /\ "reservations" \in d.sections
  /\ IF d.res[m] # None THEN ~SameIn(s, d, m) ELSE o.prune /\ m \in Reserved(s)

Wrong(s, d, o, k) ==
  \/ k = "mdns" /\ WrongScope(s, d)
  \/ k \in Nets /\ WrongNet(s, d, o, k)
  \/ k \in Macs /\ WrongClient(s, d, o, k)

\* The plan line of k.
Verb(s, d, k) ==
  IF k \in Nets THEN IF d.nets[k] = None THEN "DELETE"
                     ELSE IF s.nets[k] = None THEN "CREATE" ELSE "UPDATE"
  ELSE IF k \in Macs THEN IF d.res[k] = None THEN "DELETE"
                          ELSE IF k \in Reserved(s) THEN "UPDATE" ELSE "CREATE"
  ELSE "UPDATE"

LineOf(s, d, k) == <<Verb(s, d, k), k>>

Due(s, d, o) == {LineOf(s, d, k) : k \in {x \in Keys : Wrong(s, d, o, x)}}

Off(k) == Wrong(site, doc, opts, k)

\* The networks the run may delete are not the console's own.
Sited == PlacesOK(site) /\ (pc = "pruneNets" => todo \cap Builtin = {})

\* What the pass is not through with.
Open ==
  {k \in Keys :
     \/ pc \in {"start", "mdns", "writeScope"}
     \/ pc = "networks" /\ k # "mdns"
     \/ pc = "writeNets" /\ (k \in todo \/ k \in Nets \ DeclaredNets \/ k \in Macs)
     \/ pc = "pruneNets" /\ (k \in todo \/ k \in Macs)
     \/ pc \in {"reservations", "places"} /\ k \in Macs
     \/ pc = "reserve" /\ (k \in todo \/ k \in Macs \ DeclaredMacs)
     \/ pc = "clear" /\ k \in todo}

Calm == ~disturbed /\ ~OnPrunedNetwork

\* What was read of the things still to do is still so.
Current ==
  /\ stale = {}
  /\ pc = "writeNets" => \A n \in todo \cup (Nets \ DeclaredNets) : read.nets[n] = site.nets[n]
  /\ pc = "places" => read.clients = site.clients
  /\ pc = "reserve" =>
       /\ read.nets = site.nets /\ read.seen = site.seen
       /\ \A m \in todo \cup (Macs \ DeclaredMacs) : read.clients[m] = site.clients[m]
  /\ pc \in {"pruneNets", "clear"} => \A k \in todo : Off(k) /\ k \notin DeclaredNets
  /\ pc = "writeScope" => Off("mdns")

\* A network that exists, or will when the declared ones do.
Nameable(n) == n \in NetsOf(site) \cup DeclaredNets

\* What the planning pass has checked holds for the writing pass.
Readable == doc.mdns # None => site.scope # Unreadable
Resolved == "reservations" \in doc.sections
            => ~Malformed /\ \A m \in DeclaredMacs : Nameable(doc.res[m].net)

Checked ==
  Running =>
    /\ pass = "write" \/ pc \notin {"start", "mdns"} => Readable
    /\ pass = "write" \/ pc \in {"clear", "done", "snapshot"} => Resolved
    /\ pc = "reserve" => \A m \in DeclaredMacs \ todo : Nameable(doc.res[m].net)

\* The planning pass logs what is wrong; the writing pass has done what it
\* logged, and has the rest of the plan before it.
Exact ==
  /\ pass = "plan" /\ Running =>
       lines \subseteq Due(site, doc, opts)
       /\ \A k \in Keys \ Open : Off(k) => LineOf(site, doc, k) \in lines
  /\ pc = "snapshot" => planned = Due(site, doc, opts)
  /\ pass = "write" =>
       /\ lines \subseteq planned
       /\ Running => planned = lines \cup Due(site, doc, opts) /\ \A k \in Keys : Off(k) => k \in Open
       /\ pc = "applied" => lines = planned
  /\ pc \in {"clean", "applied"} => \A k \in Keys : ~Off(k)

\* No pass but a faulty one is cut short after its first write.
Smooth == pass = "write" => pc # "stopped" /\ (pc = "failed" => faults > 0)

\* Every deletion that is planned is approved, or the run is refused.
Vetted ==
  /\ pass = "plan" =>
       \A k \in Keys : <<"DELETE", k>> \in lines => Approved(k) \/ k \in unlisted
  /\ pass = "write" \/ pc = "snapshot" =>
       \A k \in Keys : <<"DELETE", k>> \in planned => Approved(k)
  /\ pc = "snapshot" => pass = "plan"

Works == Current /\ Checked /\ Exact /\ Smooth

Faithful == Calm => Works

-----------------------------------------------------------------------------
(* What one write changes *)

LEMMA KeysApart ==
  /\ Nets \cap Macs = {} /\ "mdns" \notin Nets /\ "mdns" \notin Macs
  /\ None \notin Nets /\ Gone \notin Nets /\ Gone # None
  /\ None \notin Flags /\ None \notin Entry /\ None \notin Client
BY AbsentAssumption

LEMMA SiteParts ==
  ASSUME NEW s, SiteOK(s)
  PROVE  /\ s.nets \in [Nets -> Flags \cup {None}] /\ s.clients \in [Macs -> Client \cup {None}]
         /\ s.seen \in [Macs -> Nets \cup {None, Gone}] /\ s.scope \in Scopes \cup {Unreadable}
         /\ s = [scope |-> s.scope, nets |-> s.nets, clients |-> s.clients, seen |-> s.seen]
BY DEF SiteOK, Site

\* Two consoles that agree on k are wrong there alike.
LEMMA WrongAlike ==
  ASSUME NEW s, NEW t, NEW d, NEW o, NEW k \in Keys,
         k = "mdns" => t.scope = s.scope,
         k \in Nets => t.nets[k] = s.nets[k],
         k \in Macs => /\ k \in Reserved(t) <=> k \in Reserved(s)
                       /\ k \in Reserved(s) /\ d.res[k] # None /\ "reservations" \in d.sections
                          => (SameIn(t, d, k) <=> SameIn(s, d, k))
  PROVE  /\ Wrong(t, d, o, k) <=> Wrong(s, d, o, k)
         /\ LineOf(t, d, k) = LineOf(s, d, k)
<1>1. k \in Macs /\ d.res[k] # None /\ "reservations" \in d.sections
      => (SameIn(t, d, k) <=> SameIn(s, d, k))
  BY DEF SameIn
<1>2. k \in Macs => (WrongClient(t, d, o, k) <=> WrongClient(s, d, o, k))
  BY <1>1 DEF WrongClient
<1>3. k \in Nets => (WrongNet(t, d, o, k) <=> WrongNet(s, d, o, k))
  BY DEF WrongNet
<1>4. k = "mdns" => (WrongScope(t, d) <=> WrongScope(s, d))
  BY DEF WrongScope
<1>5. Wrong(t, d, o, k) <=> Wrong(s, d, o, k)
  BY <1>2, <1>3, <1>4 DEF Wrong
<1>6. Verb(t, d, k) = Verb(s, d, k)
  BY DEF Verb
<1>7. QED
  BY <1>5, <1>6 DEF LineOf

\* A client whose record stays keeps its network while networks are only added.
LEMMA NameKept ==
  ASSUME NEW s, NEW t, SiteOK(s), PlacesOK(s), NEW m \in Known(s),
         t.clients[m] = s.clients[m], t.seen[m] = s.seen[m], NetsOf(s) \subseteq NetsOf(t)
  PROVE  NetworkName(t, m) = NetworkName(s, m)
<1> DEFINE id == IF s.clients[m].net = None THEN s.seen[m] ELSE s.clients[m].net
<1>1. m \in Macs /\ id \in NetsOf(s) \cup {None, Gone}
  BY DEF SiteOK, PlacesOK, Known
<1>2. NetsOf(t) \subseteq Nets
  BY DEF NetsOf
<1>3. id \in NetsOf(t) <=> id \in NetsOf(s)
  BY <1>1, <1>2, KeysApart
<1>4. QED
  BY <1>3 DEF NetworkName

LEMMA SameKept ==
  ASSUME NEW s, NEW t, SiteOK(s), PlacesOK(s), NEW d, NEW m \in Macs,
         t.clients[m] = s.clients[m], t.seen[m] = s.seen[m], NetsOf(s) \subseteq NetsOf(t)
  PROVE  /\ m \in Reserved(t) <=> m \in Reserved(s)
         /\ SameIn(t, d, m) <=> SameIn(s, d, m)
<1>1. m \in Known(t) <=> m \in Known(s)
  BY DEF Known
<1>2. m \in Reserved(t) <=> m \in Reserved(s)
  BY <1>1 DEF Reserved
<1>3. m \in Known(s) => NetworkName(t, m) = NetworkName(s, m)
  BY NameKept
<1>4. QED
  BY <1>1, <1>2, <1>3 DEF SameIn, Reserved

\* A step changes console s into t, and only what is wrong at k.
Mended(s, t, d, o, k) ==
  /\ ~Wrong(t, d, o, k) /\ PlacesOK(t)
  /\ \A x \in Keys \ {k} : /\ Wrong(t, d, o, x) <=> Wrong(s, d, o, x)
                           /\ LineOf(t, d, x) = LineOf(s, d, x)

LEMMA ScopeMended ==
  ASSUME NEW s, SiteOK(s), PlacesOK(s), NEW d \in Document, NEW o, d.mdns # None
  PROVE  Mended(s, [s EXCEPT !.scope = d.mdns], d, o, "mdns")
<1> DEFINE t == [s EXCEPT !.scope = d.mdns]
<1>1. t.nets = s.nets /\ t.clients = s.clients /\ t.seen = s.seen /\ t.scope = d.mdns
  BY SiteParts
<1> HIDE DEF t
<1>2. NetsOf(t) = NetsOf(s)
  BY <1>1 DEF NetsOf
<1>3. PlacesOK(t)
  BY <1>1, <1>2 DEF PlacesOK
<1>4. ~Wrong(t, d, o, "mdns")
  BY <1>1, KeysApart DEF Wrong, WrongScope
<1>5. ASSUME NEW x \in Keys \ {"mdns"}
      PROVE  /\ Wrong(t, d, o, x) <=> Wrong(s, d, o, x)
             /\ LineOf(t, d, x) = LineOf(s, d, x)
  <2>1. x \in Macs => /\ x \in Reserved(t) <=> x \in Reserved(s)
                      /\ SameIn(t, d, x) <=> SameIn(s, d, x)
    BY <1>1, <1>2, SameKept
  <2>2. QED
    BY <1>1, <2>1, WrongAlike
<1>6. QED
  BY <1>3, <1>4, <1>5 DEF Mended, t

LEMMA FlagMended ==
  ASSUME NEW s, SiteOK(s), PlacesOK(s), NEW d \in Document, NEW o, NEW n \in Nets,
         d.nets[n] # None
  PROVE  Mended(s, [s EXCEPT !.nets[n] = d.nets[n]], d, o, n)
<1> DEFINE t == [s EXCEPT !.nets[n] = d.nets[n]]
<1>1. /\ t.nets[n] = d.nets[n] /\ \A x \in Nets \ {n} : t.nets[x] = s.nets[x]
      /\ t.clients = s.clients /\ t.seen = s.seen /\ t.scope = s.scope
  <2> DEFINE ns == [s.nets EXCEPT ![n] = d.nets[n]]
  <2>1. ns[n] = d.nets[n] /\ \A x \in Nets \ {n} : ns[x] = s.nets[x]
    BY SiteParts
  <2>2. t = [s EXCEPT !.nets = ns]
    OBVIOUS
  <2> HIDE DEF ns, t
  <2>3. t = [scope |-> s.scope, nets |-> ns, clients |-> s.clients, seen |-> s.seen]
    BY <2>2, SiteParts
  <2>4. QED
    BY <2>1, <2>3
<1> HIDE DEF t
<1>2. NetsOf(s) \subseteq NetsOf(t)
  BY <1>1 DEF NetsOf
<1>3. PlacesOK(t)
  BY <1>1, <1>2 DEF PlacesOK
<1>4. ~Wrong(t, d, o, n)
  BY <1>1, KeysApart DEF Wrong, WrongNet
<1>5. ASSUME NEW x \in Keys \ {n}
      PROVE  /\ Wrong(t, d, o, x) <=> Wrong(s, d, o, x)
             /\ LineOf(t, d, x) = LineOf(s, d, x)
  <2>1. x \in Macs => /\ x \in Reserved(t) <=> x \in Reserved(s)
                      /\ SameIn(t, d, x) <=> SameIn(s, d, x)
    BY <1>1, <1>2, SameKept
  <2>2. QED
    BY <1>1, <2>1, WrongAlike
<1>6. QED
  BY <1>3, <1>4, <1>5 DEF Mended, t

\* What a deleted network leaves of a client's record.
LEMMA DropClients ==
  ASSUME NEW s, SiteOK(s), NEW n \in Nets, NEW m \in Macs
  PROVE  LET t == DropNetwork(s, n)
         IN  /\ t.seen[m] = IF s.seen[m] = n THEN Gone ELSE s.seen[m]
             /\ m \in Known(s) =>
                  /\ t.clients[m].ip = s.clients[m].ip /\ t.clients[m].name = s.clients[m].name
                  /\ t.clients[m].net = IF s.clients[m].net = n THEN Gone ELSE s.clients[m].net
<1> DEFINE t == DropNetwork(s, n)
           ns == [s.nets EXCEPT ![n] = None]
           cs == [x \in Macs |-> IF x \in Known(s) /\ s.clients[x].net = n
                                 THEN [s.clients[x] EXCEPT !.net = Gone] ELSE s.clients[x]]
           ss == [x \in Macs |-> IF s.seen[x] = n THEN Gone ELSE s.seen[x]]
<1>1. t = [[[s EXCEPT !.nets = ns] EXCEPT !.clients = cs] EXCEPT !.seen = ss]
  BY DEF DropNetwork
<1>2. t.clients = cs /\ t.seen = ss
  <2> HIDE DEF ns, cs, ss, t
  <2>1. s = [scope |-> s.scope, nets |-> s.nets, clients |-> s.clients, seen |-> s.seen]
    BY SiteParts
  <2> DEFINE a == [s EXCEPT !.nets = ns]
             b == [a EXCEPT !.clients = cs]
  <2>2. a = [scope |-> s.scope, nets |-> ns, clients |-> s.clients, seen |-> s.seen]
    BY <2>1
  <2>3. t = [b EXCEPT !.seen = ss]
    BY <1>1
  <2> HIDE DEF a
  <2>4. b = [scope |-> s.scope, nets |-> ns, clients |-> cs, seen |-> s.seen]
    BY <2>2
  <2> HIDE DEF b
  <2>5. t = [scope |-> s.scope, nets |-> ns, clients |-> cs, seen |-> ss]
    BY <2>3, <2>4
  <2>6. QED
    BY <2>5
<1> HIDE DEF t
<1>3. t.seen[m] = IF s.seen[m] = n THEN Gone ELSE s.seen[m]
  BY <1>2
<1>4. ASSUME m \in Known(s)
      PROVE  /\ t.clients[m].ip = s.clients[m].ip /\ t.clients[m].name = s.clients[m].name
             /\ t.clients[m].net = IF s.clients[m].net = n THEN Gone ELSE s.clients[m].net
  <2>1. s.clients[m] \in Client
    BY <1>4, SiteParts DEF Known
  <2>2. CASE s.clients[m].net = n
    <3>1. t.clients[m] = [s.clients[m] EXCEPT !.net = Gone]
      BY <1>2, <1>4, <2>2
    <3>2. QED
      BY <2>1, <2>2, <3>1 DEF Client
  <2>3. CASE s.clients[m].net # n
    BY <1>2, <2>3
  <2>4. QED
    BY <2>2, <2>3
<1>5. QED
  BY <1>3, <1>4 DEF t

\* A network that goes takes nobody's reservation with it who is declared
\* to have another.
LEMMA DropMended ==
  ASSUME NEW s, SiteOK(s), PlacesOK(s), NEW d \in Document, NEW o, NEW n \in Nets \ Builtin,
         d.nets[n] = None,
         "reservations" \in d.sections =>
           \A m \in Macs : d.res[m] # None => d.res[m].net # n
  PROVE  Mended(s, DropNetwork(s, n), d, o, n)
<1> DEFINE t == DropNetwork(s, n)
<1>1. /\ SiteOK(t) /\ t.scope = s.scope
      /\ t.nets[n] = None /\ \A x \in Nets \ {n} : t.nets[x] = s.nets[x]
      /\ NetsOf(t) = NetsOf(s) \ {n}
      /\ Known(t) = Known(s) /\ Reserved(t) = Reserved(s)
  BY DropFacts
<1>2. \A m \in Macs :
        /\ t.seen[m] = IF s.seen[m] = n THEN Gone ELSE s.seen[m]
        /\ m \in Known(s) =>
             /\ t.clients[m].ip = s.clients[m].ip /\ t.clients[m].name = s.clients[m].name
             /\ t.clients[m].net = IF s.clients[m].net = n THEN Gone ELSE s.clients[m].net
  BY DropClients
<1> HIDE DEF t
<1>3. PlacesOK(t)
  BY <1>1, <1>2 DEF PlacesOK
<1>4. ~Wrong(t, d, o, n)
  BY <1>1, KeysApart DEF Wrong, WrongNet
<1>5. ASSUME NEW x \in Reserved(s), d.res[x] # None, "reservations" \in d.sections
      PROVE  SameIn(t, d, x) <=> SameIn(s, d, x)
  <2> DEFINE ids == IF s.clients[x].net = None THEN s.seen[x] ELSE s.clients[x].net
             idt == IF t.clients[x].net = None THEN t.seen[x] ELSE t.clients[x].net
  <2>1. x \in Macs /\ x \in Known(s) /\ d.res[x].net # n
    BY <1>5 DEF Reserved, Known
  <2>2. d.res[x].net \in Nets
    BY <1>5, <2>1 DEF Document, Entry
  <2>3. ids \in NetsOf(s) \cup {None, Gone}
    BY <2>1 DEF SiteOK, PlacesOK
  <2>4. idt = IF ids = n THEN Gone ELSE ids
    BY <1>2, <2>1, KeysApart
  <2>5. /\ NetworkName(s, x) = IF ids \in NetsOf(s) THEN ids ELSE None
        /\ NetworkName(t, x) = IF idt \in NetsOf(t) THEN idt ELSE None
    BY DEF NetworkName
  <2>6. Gone \notin NetsOf(s)
    BY KeysApart DEF NetsOf
  <2> HIDE DEF ids, idt
  <2>7. NetworkName(t, x) = d.res[x].net <=> NetworkName(s, x) = d.res[x].net
    BY <1>1, <2>1, <2>2, <2>4, <2>5, <2>6, KeysApart
  <2>8. QED
    BY <1>1, <1>2, <2>1, <2>7 DEF SameIn
<1>6. ASSUME NEW x \in Keys \ {n}
      PROVE  /\ Wrong(t, d, o, x) <=> Wrong(s, d, o, x)
             /\ LineOf(t, d, x) = LineOf(s, d, x)
  BY <1>1, <1>5, WrongAlike
<1>7. QED
  BY <1>3, <1>4, <1>6 DEF Mended, t

\* One client's record as declared, or free of a reservation nobody declares.
LEMMA ClientMended ==
  ASSUME NEW s, SiteOK(s), PlacesOK(s), NEW d \in Document, NEW o, NEW m \in Macs,
         NEW c \in Client, c.net \in NetsOf(s) \cup {None, Gone}, c.fixed => c.ip # None,
         IF d.res[m] = None THEN ~c.fixed
         ELSE /\ c.fixed /\ c.ip = d.res[m].ip
              /\ c.net = d.res[m].net /\ c.net \in NetsOf(s)
              /\ d.res[m].name # None => c.name = d.res[m].name
  PROVE  Mended(s, [s EXCEPT !.clients[m] = c], d, o, m)
<1> DEFINE t == [s EXCEPT !.clients[m] = c]
<1>1. /\ t.nets = s.nets /\ t.scope = s.scope /\ t.clients[m] = c
      /\ \A x \in Macs \ {m} : t.clients[x] = s.clients[x]
      /\ m \in Reserved(t) <=> c.fixed
  BY SetClientFacts
<1>2. t.seen = s.seen
  BY DEF SiteOK, Site
<1> HIDE DEF t
<1>3. NetsOf(t) = NetsOf(s)
  BY <1>1 DEF NetsOf
<1>4. PlacesOK(t)
  BY <1>2, <1>3 DEF PlacesOK
<1>5. ~Wrong(t, d, o, m)
  <2>1. CASE d.res[m] = None
    BY <1>1, <2>1, KeysApart DEF Wrong, WrongClient
  <2>2. CASE d.res[m] # None
    <3>1. c.net # None
      BY <2>2, KeysApart DEF NetsOf
    <3>2. NetworkName(t, m) = d.res[m].net
      BY <1>1, <1>3, <2>2, <3>1 DEF NetworkName
    <3>3. SameIn(t, d, m)
      BY <1>1, <2>2, <3>2 DEF SameIn
    <3>4. QED
      BY <2>2, <3>3, KeysApart DEF Wrong, WrongClient
  <2>3. QED
    BY <2>1, <2>2
<1>6. ASSUME NEW x \in Keys \ {m}
      PROVE  /\ Wrong(t, d, o, x) <=> Wrong(s, d, o, x)
             /\ LineOf(t, d, x) = LineOf(s, d, x)
  <2>1. x \in Macs => /\ x \in Reserved(t) <=> x \in Reserved(s)
                      /\ SameIn(t, d, x) <=> SameIn(s, d, x)
    BY <1>1, <1>2, <1>3, SameKept
  <2>2. QED
    BY <1>1, <2>1, WrongAlike
<1>7. QED
  BY <1>4, <1>5, <1>6 DEF Mended, t

-----------------------------------------------------------------------------
(* The plan and its lines *)

\* The run goes on past things that are as they should be.
LEMMA Advance ==
  ASSUME TypeOK, Exact, Running, pc # "snapshot", Running', pc' # "snapshot",
         UNCHANGED <<site, doc, opts, pass, lines, planned>>,
         Open' \subseteq Open, \A k \in Open \ Open' : ~Off(k)
  PROVE  Exact'
<1>1. \A k : Off(k)' <=> Off(k)
  BY DEF Off
<1>2. pc' \notin {"clean", "applied"}
  BY DEF Running, Endings
<1>3. QED
  BY <1>1, <1>2 DEF Exact

\* The run handles one that is not: a line, and a write in the writing pass.
LEMMA Handle ==
  ASSUME TypeOK, Exact, Running, pc # "snapshot", Running', pc' # "snapshot",
         UNCHANGED <<doc, opts, pass, planned>>, NEW k \in Open, Off(k),
         lines' = lines \cup {LineOf(site, doc, k)}, Open' = Open \ {k},
         pass = "plan" => site' = site,
         pass = "write" => Mended(site, site', doc, opts, k)
  PROVE  Exact'
<1>0. pc' \notin {"clean", "applied"} /\ k \in Keys /\ Open \subseteq Keys
  BY DEF Running, Endings, Open
<1>1. LineOf(site, doc, k) \in Due(site, doc, opts)
  BY <1>0 DEF Off, Due
<1>2. CASE pass = "plan"
  <2>1. \A x : Off(x)' <=> Off(x)
    BY <1>2 DEF Off
  <2>2. lines' \subseteq Due(site, doc, opts)
    BY <1>1, <1>2 DEF Exact
  <2>3. \A x \in Keys \ Open' : Off(x) => LineOf(site, doc, x) \in lines'
    BY <1>2 DEF Exact
  <2>4. QED
    BY <1>0, <1>2, <2>1, <2>2, <2>3 DEF Exact
<1>3. CASE pass = "write"
  <2>1. /\ ~Off(k)'
        /\ \A x \in Keys \ {k} : /\ Off(x)' <=> Off(x)
                                 /\ LineOf(site', doc', x) = LineOf(site, doc, x)
    BY <1>3 DEF Mended, Off
  <2>2. /\ lines \subseteq planned /\ planned = lines \cup Due(site, doc, opts)
        /\ \A x \in Keys : Off(x) => x \in Open
    BY <1>3 DEF Exact
  <2>3. Due(site, doc, opts) = {LineOf(site, doc, k)} \cup Due(site', doc', opts')
    BY <1>0, <2>1 DEF Due, Off
  <2>4. \A x \in Keys : Off(x)' => x \in Open'
    BY <2>1, <2>2
  <2>5. lines' \subseteq planned' /\ planned' = lines' \cup Due(site', doc', opts')
    BY <2>2, <2>3
  <2>6. pass' = "write"
    BY <1>3
  <2>7. QED
    BY <1>0, <2>4, <2>5, <2>6 DEF Exact
<1>4. QED
  BY <1>2, <1>3 DEF TypeOK

\* The run is cut short; what it was about to do is a planned line.
LEMMA Cut ==
  ASSUME TypeOK, Exact, Running, pc' \in {"failed", "stopped", "killed", "refused"},
         UNCHANGED <<doc, opts, pass, planned>>,
         \A l \in lines' \ lines : l \in Due(site, doc, opts)
  PROVE  Exact'
<1>1. ~Running' /\ pc' \notin {"snapshot", "clean", "applied"}
  BY DEF Running, Endings
<1>2. pass = "write" => lines' \subseteq planned
  BY DEF Exact
<1>3. QED
  BY <1>1, <1>2 DEF Exact

LEMMA OffIsDue == ASSUME NEW k \in Keys, Off(k) PROVE LineOf(site, doc, k) \in Due(site, doc, opts)
BY DEF Off, Due

\* In a calm run a request is answered unless there is a fault.
LEMMA MutateCalm ==
  ASSUME TypeOK, NEW after, NEW answer \in Answers, Mutate(TRUE, after, answer)
  PROVE  /\ answer = "done" => site' = IF pass = "write" THEN after ELSE site
         /\ answer # "done" => pass = "write" /\ faults' > 0
<1>1. faults \in Nat /\ pass \in {"plan", "write"}
  BY BoundAssumption DEF TypeOK
<1>2. CASE DryRun
  BY <1>1, <1>2 DEF Mutate, DryRun
<1>3. CASE ~DryRun
  BY <1>1, <1>3 DEF Mutate, DryRun
<1>4. QED
  BY <1>2, <1>3

\* What the checks say depends on the networks, the scope and the document.
LEMMA ChecksKept ==
  ASSUME site'.nets = site.nets, site'.scope = site.scope, doc' = doc
  PROVE  /\ Readable' <=> Readable
         /\ Resolved' <=> Resolved
         /\ DeclaredMacs' = DeclaredMacs /\ DeclaredNets' = DeclaredNets
         /\ \A n : Nameable(n)' <=> Nameable(n)
<1>1. DeclaredMacs' = DeclaredMacs /\ DeclaredNets' = DeclaredNets /\ NetsOf(site)' = NetsOf(site)
  BY DEF DeclaredMacs, DeclaredNets, NetsOf
<1>2. \A n : Nameable(n)' <=> Nameable(n)
  BY <1>1 DEF Nameable
<1>3. Malformed' <=> Malformed
  BY <1>1 DEF Malformed
<1>4. QED
  BY <1>1, <1>2, <1>3 DEF Readable, Resolved

-----------------------------------------------------------------------------
(* A calm run, step by step: what the steps have in common *)

LEMMA QuickFacts ==
  ASSUME Quick
  PROVE  UNCHANGED <<site, lines, faults, doc, opts, restoring, pass, unlisted, saved, before,
                     stale, edits, planned, disturbed>>
BY DEF Quick, Step, input, files

LEMMA GetFacts ==
  ASSUME Get
  PROVE  UNCHANGED <<site, lines, faults, doc, opts, restoring, pass, unlisted, saved, before,
                     edits, planned, disturbed>>
BY DEF Get, input, files, plan

LEMMA StepFacts ==
  ASSUME Step
  PROVE  UNCHANGED <<doc, opts, restoring, pass, unlisted, saved, before, stale, edits, planned,
                     disturbed>>
BY DEF Step, input, files

\* On past what is as it should be.
LEMMA AdvanceWorks ==
  ASSUME TypeOK, Works, Running, pc # "snapshot", Running', pc' # "snapshot",
         UNCHANGED <<site, lines, doc, opts, pass, planned>>,
         Open' \subseteq Open, \A k \in Open \ Open' : ~Off(k), Current',
         pass = "write" \/ pc' \notin {"start", "mdns"} => Readable,
         pass = "write" \/ pc' \in {"clear", "done"} => Resolved,
         pc' = "reserve" => \A m \in DeclaredMacs \ todo' : Nameable(doc.res[m].net)
  PROVE  Works'
<1>1. Exact'
  BY Advance DEF Works
<1>2. Checked'
  <2>1. /\ Readable' <=> Readable
        /\ Resolved' <=> Resolved
        /\ DeclaredMacs' = DeclaredMacs
        /\ \A n : Nameable(n)' <=> Nameable(n)
    BY ChecksKept
  <2>2. QED
    BY <2>1 DEF Checked
<1>3. Smooth'
  BY DEF Smooth, Running, Endings
<1>4. QED
  BY <1>1, <1>2, <1>3 DEF Works

\* A planning pass ends where it finds something it cannot do.
LEMMA FailWorks ==
  ASSUME TypeOK, Works, Running, Quick, pc' = "failed", pass = "plan"
  PROVE  Works'
<1>1. UNCHANGED <<lines, doc, opts, pass, planned, stale>>
  BY QuickFacts
<1>2. Exact'
  BY <1>1, Cut DEF Works
<1>3. Current' /\ Checked' /\ Smooth'
  BY <1>1 DEF Works, Current, Checked, Smooth, Running, Endings
<1>4. QED
  BY <1>2, <1>3 DEF Works

\* A pass ends at a request that goes wrong.
LEMMA CutWorks ==
  ASSUME TypeOK, Works, Running, Step, pc' = "failed", faults' > 0, NEW k \in Keys, Off(k),
         lines' = lines \cup {LineOf(site, doc, k)}
  PROVE  Works'
<1>1. UNCHANGED <<doc, opts, pass, planned, stale>>
  BY StepFacts
<1>2. Exact'
  BY <1>1, Cut, OffIsDue DEF Works
<1>3. Current' /\ Checked' /\ Smooth'
  BY <1>1 DEF Works, Current, Checked, Smooth, Running, Endings
<1>4. QED
  BY <1>2, <1>3 DEF Works

\* A pass handles something that is not as it should be.
LEMMA HandleWorks ==
  ASSUME TypeOK, Works, Running, pc # "snapshot", Running', pc' # "snapshot",
         UNCHANGED <<doc, opts, pass, planned>>, NEW k \in Open, Off(k),
         lines' = lines \cup {LineOf(site, doc, k)}, Open' = Open \ {k},
         pass = "plan" => site' = site,
         pass = "write" => Mended(site, site', doc, opts, k),
         Current', Checked'
  PROVE  Works'
<1>1. Exact'
  BY Handle DEF Works
<1>2. Smooth'
  BY DEF Smooth, Running, Endings
<1>3. QED
  BY <1>1, <1>2 DEF Works

-----------------------------------------------------------------------------
(* A calm run: the scope *)

LEMMA StartStepsWorks == ASSUME Inv, Works, StartSteps PROVE Works'
<1>1. /\ TypeOK /\ pc = "start" /\ pc' = "mdns"
      /\ UNCHANGED <<site, lines, doc, opts, pass, planned, stale>>
  BY QuickFacts DEF Inv, StartSteps, After
<1>2. Running /\ Running' /\ Open' = Open
  BY <1>1 DEF Running, Endings, Open
<1>3. Current'
  BY <1>1 DEF Works, Current
<1>4. pass = "write" => Readable /\ Resolved
  BY <1>2 DEF Works, Checked
<1>5. QED
  BY <1>1, <1>2, <1>3, <1>4, AdvanceWorks

LEMMA SkipMDNSWorks == ASSUME Inv, Works, SkipMDNS PROVE Works'
<1>1. /\ TypeOK /\ pc = "mdns" /\ pc' = "networks" /\ doc.mdns = None
      /\ UNCHANGED <<site, lines, doc, opts, pass, planned, stale>>
  BY QuickFacts DEF Inv, SkipMDNS, After
<1>2. Running /\ Running' /\ Open' = Open \ {"mdns"} /\ ~Off("mdns")
  BY <1>1, KeysApart DEF Running, Endings, Open, Off, Wrong, WrongScope
<1>3. Current'
  BY <1>1 DEF Works, Current
<1>4. Readable /\ (pass = "write" => Resolved)
  BY <1>1, <1>2 DEF Works, Checked, Readable
<1>5. QED
  BY <1>1, <1>2, <1>3, <1>4, AdvanceWorks

LEMMA ScopeUnreadableWorks == ASSUME Inv, Works, ScopeUnreadable PROVE Works'
<1>1. /\ TypeOK /\ pc = "mdns" /\ pc' = "failed" /\ Quick /\ ~Readable
  BY EndFacts DEF Inv, ScopeUnreadable, Readable
<1>2. Running /\ pass = "plan"
  BY <1>1 DEF Works, Checked, Running, Endings, TypeOK
<1>3. QED
  BY <1>1, <1>2, FailWorks

LEMMA ScopeReadWorks == ASSUME Inv, Works, ScopeRead PROVE Works'
<1>1. /\ TypeOK /\ pc = "mdns" /\ doc.mdns # None /\ Readable
      /\ pc' = IF site.scope = doc.mdns THEN "networks" ELSE "writeScope"
      /\ UNCHANGED <<site, lines, doc, opts, pass, planned, stale>>
  BY QuickFacts DEF Inv, ScopeRead, After, Readable
<1>2. Off("mdns") <=> site.scope # doc.mdns
  BY <1>1, KeysApart DEF Off, Wrong, WrongScope
<1>3. Running /\ Running' /\ Open' = IF Off("mdns") THEN Open ELSE Open \ {"mdns"}
  BY <1>1, <1>2 DEF Running, Endings, Open
<1>4. Current'
  <2>1. Off("mdns")' <=> Off("mdns")
    BY <1>1 DEF Off
  <2>2. QED
    BY <1>1, <1>2, <2>1 DEF Works, Current
<1>5. pass = "write" => Resolved
  BY <1>3 DEF Works, Checked
<1>6. pc' \in {"networks", "writeScope"}
  BY <1>1
<1>7. Open' \subseteq Open /\ \A k \in Open \ Open' : ~Off(k)
  BY <1>3
<1>8. QED
  BY <1>1, <1>3, <1>4, <1>5, <1>6, <1>7, AdvanceWorks

LEMMA WriteScopeWorks == ASSUME Inv, Sited, Works, WriteScope PROVE Works'
<1> DEFINE after == [site EXCEPT !.scope = doc.mdns]
<1>1. PICK answer \in Answers :
        /\ Mutate(TRUE, after, answer)
        /\ IF answer = "done" THEN pc' = After("mdns") /\ UNCHANGED reading ELSE End("failed")
  BY DEF WriteScope
<1>2. /\ TypeOK /\ pc = "writeScope" /\ Step /\ doc.mdns # None /\ doc \in Document
      /\ lines' = lines \cup {<<"UPDATE", "mdns">>} /\ SiteOK(site) /\ PlacesOK(site)
      /\ Running /\ Off("mdns") /\ stale = {} /\ site \in Site
  BY DEF Inv, WriteScope, Log, Pending, TypeOK, Sited, Running, Endings, Works, Current, SiteOK
<1>3. UNCHANGED <<doc, opts, pass, planned, stale>>
  BY <1>2, StepFacts
<1>4. LineOf(site, doc, "mdns") = <<"UPDATE", "mdns">> /\ "mdns" \in Keys /\ "mdns" \in Open
  BY <1>2, KeysApart DEF LineOf, Verb, Keys, Open
<1>5. Mended(site, after, doc, opts, "mdns")
  BY <1>2, ScopeMended
<1>6. after.nets = site.nets /\ after.scope # Unreadable
  <2>1. doc.mdns \in Scopes /\ doc.mdns # Unreadable
    BY <1>2, AbsentAssumption DEF Document
  <2>2. QED
    BY <1>2, <2>1, SiteParts
<1> HIDE DEF after
<1>7. /\ answer = "done" => site' = IF pass = "write" THEN after ELSE site
      /\ answer # "done" => faults' > 0
  BY <1>1, <1>2, MutateCalm
<1>8. CASE answer = "done"
  <2>1. pc' = "networks" /\ Running' /\ Open' = Open \ {"mdns"}
    BY <1>1, <1>2, <1>8 DEF After, Running, Endings, Open
  <2>2. Current'
    BY <1>2, <1>3, <2>1 DEF Current
  <2>3. Readable /\ (pass = "write" => Resolved)
    BY <1>2 DEF Works, Checked
  <2>4. site'.nets = site.nets /\ Readable'
    BY <1>3, <1>6, <1>7, <1>8, <2>3 DEF Readable
  <2>5. Resolved' <=> Resolved
    <3>1. DeclaredMacs' = DeclaredMacs /\ DeclaredNets' = DeclaredNets /\ NetsOf(site)' = NetsOf(site)
      BY <1>3, <2>4 DEF DeclaredMacs, DeclaredNets, NetsOf
    <3>2. Malformed' <=> Malformed
      BY <1>3, <3>1 DEF Malformed
    <3>3. QED
      BY <1>3, <3>1, <3>2 DEF Resolved, Nameable
  <2>6. Checked'
    BY <1>3, <2>1, <2>3, <2>4, <2>5 DEF Checked
  <2>7. pass = "plan" => site' = site
    BY <1>7, <1>8
  <2>8. pass = "write" => Mended(site, site', doc, opts, "mdns")
    BY <1>5, <1>7, <1>8
  <2>9. QED
    BY <1>2, <1>3, <1>4, <2>1, <2>2, <2>6, <2>7, <2>8, HandleWorks
<1>9. CASE answer # "done"
  <2>1. pc' = "failed" /\ faults' > 0
    BY <1>1, <1>7, <1>9, EndFacts
  <2>2. QED
    BY <1>2, <1>4, <2>1, CutWorks
<1>10. QED
  BY <1>8, <1>9

-----------------------------------------------------------------------------
(* A calm run: the networks *)

LEMMA NetOff ==
  ASSUME NEW n \in Nets
  PROVE  /\ n \in DeclaredNets => (Off(n) <=> site.nets[n] # doc.nets[n])
         /\ n \notin DeclaredNets =>
              (Off(n) <=> /\ opts.prune /\ "networks" \in doc.sections
                          /\ n \notin Builtin /\ site.nets[n] # None)
         /\ LineOf(site, doc, n) =
              <<IF n \in DeclaredNets THEN IF site.nets[n] = None THEN "CREATE" ELSE "UPDATE"
                ELSE "DELETE", n>>
         /\ n \in Keys
BY KeysApart DEF Off, Wrong, WrongNet, DeclaredNets, LineOf, Verb, Keys

LEMMA ReadNetworksWorks == ASSUME Inv, Works, ReadNetworks PROVE Works'
<1>1. /\ TypeOK /\ pc = "networks" /\ pc' = "writeNets" /\ todo' = DeclaredNets /\ stale' = {}
      /\ UNCHANGED <<site, lines, doc, opts, pass, planned>>
  BY GetFacts DEF Inv, ReadNetworks
<1>2. read'.nets = site.nets
  BY <1>1 DEF ReadNetworks, TypeOK
<1>3. DeclaredNets \subseteq Nets /\ DeclaredNets' = DeclaredNets
  BY <1>1 DEF DeclaredNets
<1>4. Running /\ Running' /\ Open' = Open
  BY <1>1, <1>3, KeysApart DEF Running, Endings, Open, Keys
<1>5. Current'
  BY <1>1, <1>2 DEF Current
<1>6. Readable /\ (pass = "write" => Resolved)
  BY <1>1, <1>4 DEF Works, Checked
<1>7. QED
  BY <1>1, <1>4, <1>5, <1>6, AdvanceWorks

LEMMA NetworkOKWorks == ASSUME Inv, Works, NEW n \in Nets, NetworkOK(n) PROVE Works'
<1>1. /\ TypeOK /\ pc = "writeNets" /\ pc' = "writeNets" /\ n \in todo /\ todo' = todo \ {n}
      /\ read' = read /\ read.nets[n] = doc.nets[n] /\ todo \subseteq DeclaredNets
      /\ UNCHANGED <<site, lines, doc, opts, pass, planned, stale>>
  BY QuickFacts DEF Inv, NetworkOK, Pending
<1>2. DeclaredNets' = DeclaredNets
  BY <1>1 DEF DeclaredNets
<1>3. Running /\ Running' /\ Open' = Open \ {n}
  BY <1>1, <1>2, KeysApart DEF Running, Endings, Open, Keys
<1>4. ~Off(n)
  BY <1>1, NetOff DEF Works, Current
<1>5. Current'
  BY <1>1, <1>2 DEF Works, Current
<1>6. Readable /\ (pass = "write" => Resolved)
  BY <1>1, <1>3 DEF Works, Checked
<1>7. Open' \subseteq Open /\ \A k \in Open \ Open' : ~Off(k)
  BY <1>3, <1>4
<1>8. QED
  BY <1>1, <1>3, <1>5, <1>6, <1>7, AdvanceWorks

\* More networks, and the same reservations asked for.
LEMMA ResolvedMore ==
  ASSUME doc' = doc, NetsOf(site) \subseteq NetsOf(site'), Resolved
  PROVE  Resolved'
<1>1. DeclaredMacs' = DeclaredMacs /\ DeclaredNets' = DeclaredNets
  BY DEF DeclaredMacs, DeclaredNets
<1>2. Malformed' <=> Malformed
  BY <1>1 DEF Malformed
<1>3. QED
  BY <1>1, <1>2 DEF Resolved, Nameable

LEMMA WriteNetworkWorks ==
  ASSUME Inv, Sited, Works, NEW n \in Nets, WriteNetwork(n) PROVE Works'
<1> DEFINE after == [site EXCEPT !.nets[n] = doc.nets[n]]
           can == IF read.nets[n] = None THEN site.nets[n] = None ELSE Alive(n)
<1>1. PICK answer \in Answers : Mutate(can, after, answer) /\ Continue(n, answer)
  BY DEF WriteNetwork
<1>2. /\ TypeOK /\ pc = "writeNets" /\ Step /\ n \in todo /\ todo \subseteq DeclaredNets
      /\ read.nets[n] # doc.nets[n] /\ SiteOK(site) /\ site \in Site /\ PlacesOK(site)
      /\ lines' = lines \cup {<<IF read.nets[n] = None THEN "CREATE" ELSE "UPDATE", n>>}
      /\ Running /\ stale = {} /\ read.nets[n] = site.nets[n] /\ doc \in Document
  BY DEF Inv, WriteNetwork, Log, Pending, TypeOK, SiteOK, Sited, Running, Endings, Works, Current
<1>3. UNCHANGED <<doc, opts, pass, planned, stale>>
  BY <1>2, StepFacts
<1>4. /\ n \in DeclaredNets /\ Off(n) /\ n \in Open /\ n \in Keys /\ doc.nets[n] # None
      /\ lines' = lines \cup {LineOf(site, doc, n)}
  BY <1>2, NetOff DEF Open, DeclaredNets
<1>5. can = TRUE
  BY <1>2 DEF Alive
<1>6. Mended(site, after, doc, opts, n)
  BY <1>2, <1>4, FlagMended
<1>7. /\ after.scope = site.scope /\ \A x \in Nets \ {n} : after.nets[x] = site.nets[x]
      /\ after.nets[n] # None
  <2> DEFINE ns == [site.nets EXCEPT ![n] = doc.nets[n]]
  <2>1. ns[n] # None /\ \A x \in Nets \ {n} : ns[x] = site.nets[x]
    BY <1>2, <1>4, SiteParts
  <2>2. after = [site EXCEPT !.nets = ns]
    OBVIOUS
  <2> HIDE DEF ns, after
  <2>3. after = [scope |-> site.scope, nets |-> ns, clients |-> site.clients, seen |-> site.seen]
    BY <1>2, <2>2, SiteParts
  <2>4. QED
    BY <2>1, <2>3
<1> HIDE DEF after, can
<1>8. /\ answer = "done" => site' = IF pass = "write" THEN after ELSE site
      /\ answer # "done" => faults' > 0
  BY <1>1, <1>2, <1>5, MutateCalm
<1>9. CASE answer = "done"
  <2>1. pc' = pc /\ read' = read /\ todo' = todo \ {n}
    BY <1>1, <1>9 DEF Continue
  <2>2. DeclaredNets' = DeclaredNets /\ DeclaredNets \subseteq Nets
    BY <1>3 DEF DeclaredNets
  <2>3. Running' /\ Open' = Open \ {n}
    BY <1>2, <1>4, <2>1, <2>2, KeysApart DEF Running, Endings, Open, Keys
  <2>4. /\ site'.scope = site.scope /\ \A x \in Nets \ {n} : site'.nets[x] = site.nets[x]
        /\ NetsOf(site) \subseteq NetsOf(site')
    BY <1>7, <1>8, <1>9 DEF NetsOf
  <2>5. Current'
    BY <1>2, <1>3, <1>4, <2>1, <2>2, <2>4 DEF Works, Current
  <2>6. Readable' /\ (pass = "write" => Resolved')
    BY <1>2, <1>3, <2>4, ResolvedMore DEF Works, Checked, Readable
  <2>7. Checked'
    BY <1>2, <1>3, <2>1, <2>6 DEF Checked
  <2>8. pass = "plan" => site' = site
    BY <1>8, <1>9
  <2>9. pass = "write" => Mended(site, site', doc, opts, n)
    BY <1>6, <1>8, <1>9
  <2>10. QED
    BY <1>2, <1>3, <1>4, <2>1, <2>3, <2>5, <2>7, <2>8, <2>9, HandleWorks
<1>10. CASE answer # "done"
  <2>1. pc' = "failed" /\ faults' > 0
    BY <1>1, <1>8, <1>10, EndFacts DEF Continue
  <2>2. QED
    BY <1>2, <1>4, <2>1, CutWorks
<1>11. QED
  BY <1>9, <1>10

LEMMA PruneNetworksWorks == ASSUME Inv, Works, PruneNetworks PROVE Works'
<1>1. /\ TypeOK /\ pc = "writeNets" /\ pc' = "pruneNets" /\ todo = {}
      /\ todo' = (IF opts.prune /\ "networks" \in doc.sections
                  THEN {n \in Nets : read.nets[n] # None} \ (DeclaredNets \cup Builtin) ELSE {})
      /\ UNCHANGED <<site, lines, doc, opts, pass, planned, stale>>
  BY QuickFacts DEF Inv, PruneNetworks
<1>2. \A n \in Nets \ DeclaredNets : n \in todo' <=> Off(n)
  BY <1>1, NetOff DEF Works, Current
<1>3. todo' \subseteq Nets \ DeclaredNets
  BY <1>1
<1>4. Running /\ Running' /\ Open' \subseteq Open /\ \A k \in Open \ Open' : k \in (Nets \ DeclaredNets) \ todo'
  BY <1>1, <1>3, KeysApart DEF Running, Endings, Open, Keys
<1>5. Current'
  <2>1. \A k : Off(k)' <=> Off(k)
    BY <1>1 DEF Off
  <2>2. DeclaredNets' = DeclaredNets
    BY <1>1 DEF DeclaredNets
  <2>3. QED
    BY <1>1, <1>2, <1>3, <2>1, <2>2 DEF Works, Current
<1>6. Readable /\ (pass = "write" => Resolved)
  BY <1>1, <1>4 DEF Works, Checked
<1>7. \A k \in Open \ Open' : ~Off(k)
  BY <1>2, <1>4
<1>8. QED
  BY <1>1, <1>4, <1>5, <1>6, <1>7, AdvanceWorks

\* No declared reservation is on a network that the run deletes.
LEMMA NotReservedOn ==
  ASSUME TypeOK, ~OnPrunedNetwork, NEW n \in Nets \ DeclaredNets, Off(n)
  PROVE  "reservations" \in doc.sections =>
           \A m \in Macs : doc.res[m] # None => doc.res[m].net # n
BY NetOff DEF OnPrunedNetwork, DeclaredMacs

LEMMA DeleteNetworkWorks ==
  ASSUME Inv, Sited, Works, ~OnPrunedNetwork, NEW n \in Nets, DeleteNetwork(n) PROVE Works'
<1> DEFINE after == DropNetwork(site, n)
<1>1. PICK answer \in Answers : Mutate(Alive(n), after, answer) /\ Continue(n, answer)
  BY DEF DeleteNetwork
<1>2. /\ TypeOK /\ pc = "pruneNets" /\ Step /\ n \in todo /\ todo \subseteq Nets
      /\ SiteOK(site) /\ PlacesOK(site) /\ lines' = lines \cup {<<"DELETE", n>>}
      /\ Running /\ stale = {} /\ Off(n) /\ n \notin DeclaredNets /\ doc \in Document
      /\ \A k \in todo : Off(k) /\ k \notin DeclaredNets
  BY DEF Inv, DeleteNetwork, Log, Pending, TypeOK, Sited, Running, Endings, Works, Current
<1>3. UNCHANGED <<doc, opts, pass, planned, stale>>
  BY <1>2, StepFacts
<1>4. /\ n \in Open /\ n \in Keys /\ n \notin Builtin /\ site.nets[n] # None /\ doc.nets[n] = None
      /\ lines' = lines \cup {LineOf(site, doc, n)}
  BY <1>2, NetOff DEF Open, DeclaredNets
<1>5. Alive(n) = TRUE
  BY <1>2, <1>4 DEF Alive
<1>6. "reservations" \in doc.sections => \A m \in Macs : doc.res[m] # None => doc.res[m].net # n
  BY <1>2, NotReservedOn
<1>7. Mended(site, after, doc, opts, n)
  BY <1>2, <1>4, <1>6, DropMended
<1>8. after.scope = site.scope /\ NetsOf(after) = NetsOf(site) \ {n}
  BY <1>2, DropFacts
<1> HIDE DEF after
<1>9. /\ answer = "done" => site' = IF pass = "write" THEN after ELSE site
      /\ answer # "done" => faults' > 0
  BY <1>1, <1>2, <1>5, MutateCalm
<1>10. CASE answer = "done"
  <2>1. pc' = pc /\ read' = read /\ todo' = todo \ {n}
    BY <1>1, <1>10 DEF Continue
  <2>2. DeclaredNets' = DeclaredNets /\ DeclaredMacs' = DeclaredMacs /\ DeclaredMacs \subseteq Macs
    BY <1>3 DEF DeclaredNets, DeclaredMacs
  <2>3. Running' /\ Open' = Open \ {n}
    BY <1>2, <2>1, KeysApart DEF Running, Endings, Open, Keys
  <2>4. pass = "plan" => site' = site
    BY <1>9, <1>10
  <2>5. pass = "write" => Mended(site, site', doc, opts, n)
    BY <1>7, <1>9, <1>10
  <2>6. Current'
    <3>1. \A k \in todo \ {n} : Off(k)' <=> Off(k)
      <4>1. \A k \in todo \ {n} : k \in Keys \ {n}
        BY <1>2 DEF Keys
      <4>2. CASE pass = "plan"
        BY <1>3, <2>4, <4>2 DEF Off
      <4>3. CASE pass = "write"
        BY <1>3, <2>5, <4>1, <4>3 DEF Off, Mended
      <4>4. QED
        BY <1>2, <4>2, <4>3 DEF TypeOK
    <3>2. QED
      BY <1>2, <1>3, <2>1, <2>2, <3>1 DEF Current
  <2>7. site'.scope = site.scope /\ NetsOf(site) \subseteq NetsOf(site') \cup {n}
    BY <1>8, <1>9, <1>10
  <2>8. Readable' /\ (pass = "write" => Resolved')
    <3>1. Readable /\ (pass = "write" => Resolved)
      BY <1>2 DEF Works, Checked
    <3>2. Malformed' <=> Malformed
      BY <1>3, <2>2 DEF Malformed
    <3>3. QED
      BY <1>3, <1>6, <2>2, <2>7, <3>1, <3>2 DEF Readable, Resolved, Nameable, DeclaredMacs
  <2>9. Checked'
    BY <1>2, <1>3, <2>1, <2>8 DEF Checked
  <2>10. QED
    BY <1>2, <1>3, <1>4, <2>1, <2>3, <2>4, <2>5, <2>6, <2>9, HandleWorks
<1>11. CASE answer # "done"
  <2>1. pc' = "failed" /\ faults' > 0
    BY <1>1, <1>9, <1>11, EndFacts DEF Continue
  <2>2. QED
    BY <1>2, <1>4, <2>1, CutWorks
<1>12. QED
  BY <1>10, <1>11

\* A deletion nobody approved is a line of the planning pass; the writing pass
\* does not meet one.
LEMMA UnapprovedWorks ==
  ASSUME Inv, Works, Vetted, NEW key \in Nets \cup Macs, Unapproved(key), pc \in {"pruneNets", "clear"},
         Off(key), LineOf(site, doc, key) = <<"DELETE", key>>, key \in Open,
         pc' = pc /\ todo' = todo \ {key} => Open' = Open \ {key}
  PROVE  Works'
<1>1. /\ TypeOK /\ UNCHANGED <<site, doc, opts, pass, planned, stale, disturbed>> /\ key \in Keys
  BY DEF Inv, Unapproved, input, Keys
<1>2. Running /\ ~Approved(key) /\ stale = {}
  BY DEF Running, Endings, Unapproved, Works, Current
<1>3. CASE pass = "write"
  <2>1. LineOf(site, doc, key) \in planned
    BY <1>1, <1>2, <1>3, OffIsDue DEF Works, Exact
  <2>2. Approved(key)
    BY <1>1, <1>3, <2>1 DEF Vetted
  <2>3. QED
    BY <1>2, <2>2
<1>4. CASE pass = "plan"
  <2>1. /\ lines' = lines \cup {LineOf(site, doc, key)}
        /\ todo' = todo \ {key} /\ pc' = pc /\ read' = read
    BY <1>4 DEF Unapproved, DryRun, Log
  <2>2. Running' /\ Open' = Open \ {key}
    BY <2>1 DEF Running, Endings
  <2>3. Current'
    <3>1. \A k : Off(k)' <=> Off(k)
      BY <1>1 DEF Off
    <3>2. DeclaredNets' = DeclaredNets
      BY <1>1 DEF DeclaredNets
    <3>3. QED
      BY <1>1, <2>1, <3>1, <3>2 DEF Works, Current
  <2>4. Checked'
    <3>1. /\ Readable' <=> Readable
          /\ Resolved' <=> Resolved
      BY <1>1, ChecksKept
    <3>2. QED
      BY <1>1, <1>2, <2>1, <2>2, <3>1 DEF Works, Checked
  <2>5. QED
    BY <1>1, <1>2, <1>4, <2>1, <2>2, <2>3, <2>4, HandleWorks
<1>5. QED
  BY <1>1, <1>3, <1>4 DEF TypeOK

LEMMA RefuseNetworkWorks ==
  ASSUME Inv, Works, Vetted, NEW n \in Nets, RefuseNetwork(n) PROVE Works'
<1>1. /\ pc = "pruneNets" /\ Unapproved(n) /\ n \in todo /\ todo \subseteq Nets
  BY DEF RefuseNetwork, Unapproved, Inv, Pending
<1>2. Off(n) /\ n \notin DeclaredNets
  BY <1>1 DEF Works, Current
<1>3. LineOf(site, doc, n) = <<"DELETE", n>> /\ n \in Open
  BY <1>1, <1>2, NetOff DEF Open
<1>4. pc' = pc /\ todo' = todo \ {n} => Open' = Open \ {n}
  BY <1>1, KeysApart DEF Open, Keys
<1>5. QED
  BY <1>1, <1>2, <1>3, <1>4, UnapprovedWorks

LEMMA EndNetworksWorks == ASSUME Inv, Works, EndNetworks PROVE Works'
<1>1. /\ TypeOK /\ pc = "pruneNets" /\ pc' = "reservations" /\ todo = {}
      /\ UNCHANGED <<site, lines, doc, opts, pass, planned, stale>>
  BY QuickFacts DEF Inv, EndNetworks, After
<1>2. Running /\ Running' /\ Open' = Open
  BY <1>1 DEF Running, Endings, Open
<1>3. Current'
  BY <1>1 DEF Works, Current
<1>4. Readable /\ (pass = "write" => Resolved)
  BY <1>1, <1>2 DEF Works, Checked
<1>5. QED
  BY <1>1, <1>2, <1>3, <1>4, AdvanceWorks

-----------------------------------------------------------------------------
(* A calm run: the reservations *)

LEMMA MacOff ==
  ASSUME NEW m \in Macs
  PROVE  /\ m \in DeclaredMacs => (Off(m) <=> "reservations" \in doc.sections /\ ~SameIn(site, doc, m))
         /\ m \notin DeclaredMacs =>
              (Off(m) <=> "reservations" \in doc.sections /\ opts.prune /\ m \in Reserved(site))
         /\ LineOf(site, doc, m) =
              <<IF m \in DeclaredMacs THEN IF m \in Reserved(site) THEN "UPDATE" ELSE "CREATE"
                ELSE "DELETE", m>>
         /\ m \in Keys /\ m \notin DeclaredNets
BY KeysApart DEF Off, Wrong, WrongClient, DeclaredMacs, DeclaredNets, LineOf, Verb, Keys

LEMMA SkipReservationsWorks == ASSUME Inv, Works, SkipReservations PROVE Works'
<1>1. /\ TypeOK /\ pc = "reservations" /\ pc' = "done" /\ "reservations" \notin doc.sections
      /\ UNCHANGED <<site, lines, doc, opts, pass, planned, stale>>
  BY QuickFacts DEF Inv, SkipReservations, After
<1>2. Running /\ Running' /\ Open' = {} /\ Open \subseteq Macs
  BY <1>1 DEF Running, Endings, Open
<1>3. Current'
  BY <1>1 DEF Works, Current
<1>4. Readable /\ Resolved
  BY <1>1, <1>2 DEF Works, Checked, Resolved
<1>5. \A k \in Open \ Open' : ~Off(k)
  BY <1>1, <1>2, MacOff
<1>6. QED
  BY <1>1, <1>2, <1>3, <1>4, <1>5, AdvanceWorks

LEMMA RefuseReservationsWorks == ASSUME Inv, Works, RefuseReservations PROVE Works'
<1>1. TypeOK /\ pc = "reservations" /\ pc' = "failed" /\ Quick /\ ~Resolved
  BY EndFacts DEF Inv, RefuseReservations, Resolved
<1>2. Running /\ pass = "plan"
  BY <1>1 DEF Works, Checked, Running, Endings, TypeOK
<1>3. QED
  BY <1>1, <1>2, FailWorks

LEMMA ReadClientsWorks == ASSUME Inv, Works, ReadClients PROVE Works'
<1>1. /\ TypeOK /\ pc = "reservations" /\ pc' = "places" /\ stale' = {} /\ read \in Lists
      /\ read' = [read EXCEPT !.clients = site.clients]
      /\ UNCHANGED <<site, lines, doc, opts, pass, planned>>
  BY GetFacts DEF Inv, ReadClients, TypeOK, Lists
<1>2. read'.clients = site.clients
  BY <1>1 DEF Lists
<1>3. Running /\ Running' /\ Open' = Open
  BY <1>1 DEF Running, Endings, Open
<1>4. Current'
  BY <1>1, <1>2 DEF Current
<1>5. Readable /\ (pass = "write" => Resolved)
  BY <1>1, <1>3 DEF Works, Checked
<1>6. QED
  BY <1>1, <1>3, <1>4, <1>5, AdvanceWorks

LEMMA ReadPlacesWorks == ASSUME Inv, Works, ReadPlaces PROVE Works'
<1> DEFINE cs == [m \in Macs |-> IF m \in Known(read) /\ read.clients[m].net \in stale
                                 THEN [read.clients[m] EXCEPT !.net = Gone]
                                 ELSE read.clients[m]]
<1>1. /\ TypeOK /\ pc = "places" /\ pc' = "reserve" /\ todo' = DeclaredMacs /\ stale = {}
      /\ read' = [nets |-> site.nets, seen |-> site.seen, clients |-> cs]
      /\ stale' = stale \ Nets /\ read.clients = site.clients
      /\ UNCHANGED <<site, lines, doc, opts, pass, planned>>
  BY GetFacts DEF Inv, ReadPlaces, Works, Current
<1>2. read'.nets = site.nets /\ read'.seen = site.seen /\ read'.clients = cs
  <2> HIDE DEF cs
  <2>1. QED
    BY <1>1
<1>3. \A m \in Macs : read'.clients[m] = site.clients[m]
  BY <1>1, <1>2
<1> HIDE DEF cs
<1>4. DeclaredMacs' = DeclaredMacs /\ DeclaredMacs \subseteq Macs
  BY <1>1 DEF DeclaredMacs
<1>5. Running /\ Running' /\ Open' = Open
  BY <1>1, <1>4, KeysApart DEF Running, Endings, Open, Keys
<1>6. Current'
  BY <1>1, <1>2, <1>3, <1>4 DEF Current
<1>7. Readable /\ (pass = "write" => Resolved)
  BY <1>1, <1>5 DEF Works, Checked
<1>8. \A m \in DeclaredMacs \ todo' : Nameable(doc.res[m].net)
  BY <1>1
<1>9. QED
  BY <1>1, <1>5, <1>6, <1>7, <1>8, AdvanceWorks

\* What was read for client m says the same as the console.
LEMMA ReadClient ==
  ASSUME TypeOK, Current, pc = "reserve", NEW m \in todo \cup (Macs \ DeclaredMacs), m \in Macs
  PROVE  /\ Same(m) <=> SameIn(site, doc, m)
         /\ m \in Reserved(read) <=> m \in Reserved(site)
         /\ m \in Known(read) <=> m \in Known(site)
         /\ NetsOf(read) = NetsOf(site)
<1>1. /\ read.nets = site.nets /\ read.seen = site.seen /\ read.clients[m] = site.clients[m]
  BY DEF Current
<1>2. NetsOf(read) = NetsOf(site)
  BY <1>1 DEF NetsOf
<1>3. NetworkName(read, m) = NetworkName(site, m)
  BY <1>1, <1>2 DEF NetworkName
<1>4. m \in Known(read) <=> m \in Known(site)
  BY <1>1 DEF Known
<1>5. m \in Reserved(read) <=> m \in Reserved(site)
  BY <1>1, <1>4 DEF Reserved
<1>6. QED
  BY <1>1, <1>2, <1>3, <1>4, <1>5 DEF Same, SameIn

\* In the writing pass every network a reservation is declared on is there.
LEMMA WriteResolves ==
  ASSUME Inv, Works, pc = "reserve", pass = "write", NEW m \in todo
  PROVE  Resolvable(m)
<1>1. /\ TypeOK /\ Running /\ todo \subseteq DeclaredMacs /\ "reservations" \in doc.sections
      /\ DeclaredMacs \subseteq Macs
  BY DEF Inv, Pending, Running, Endings, DeclaredMacs
<1>2. Nameable(doc.res[m].net)
  BY <1>1 DEF Works, Checked, Resolved
<1>3. \A n \in DeclaredNets : n \in NetsOf(site)
  <2> SUFFICES ASSUME NEW n \in DeclaredNets PROVE n \in NetsOf(site)
    OBVIOUS
  <2>1. n \in Nets /\ doc.nets[n] # None
    BY DEF DeclaredNets
  <2>2. n \notin Open
    BY <1>1, <2>1, KeysApart DEF Open
  <2>3. ~Off(n)
    BY <1>1, <2>1, <2>2, NetOff DEF Works, Exact
  <2>4. QED
    BY <2>1, <2>3, NetOff DEF NetsOf
<1>4. NetsOf(read) = NetsOf(site)
  BY <1>1, ReadClient DEF Works
<1>5. QED
  BY <1>2, <1>3, <1>4 DEF Nameable, Resolvable

LEMMA UnknownNetworkWorks == ASSUME Inv, Works, NEW m \in Macs, UnknownNetwork(m) PROVE Works'
<1>1. /\ TypeOK /\ pc = "reserve" /\ pc' = "failed" /\ Quick /\ m \in todo /\ ~Resolvable(m)
  BY EndFacts DEF Inv, UnknownNetwork
<1>2. Running /\ pass = "plan"
  BY <1>1, WriteResolves DEF Running, Endings, TypeOK
<1>3. QED
  BY <1>1, <1>2, FailWorks

LEMMA ReservationOKWorks == ASSUME Inv, Works, NEW m \in Macs, ReservationOK(m) PROVE Works'
<1>1. /\ TypeOK /\ pc = "reserve" /\ pc' = "reserve" /\ m \in todo /\ todo' = todo \ {m}
      /\ read' = read /\ Same(m) /\ Resolvable(m) /\ todo \subseteq DeclaredMacs
      /\ UNCHANGED <<site, lines, doc, opts, pass, planned, stale>> /\ DeclaredMacs \subseteq Macs
  BY QuickFacts DEF Inv, ReservationOK, Pending, DeclaredMacs
<1>2. DeclaredMacs' = DeclaredMacs
  BY <1>1 DEF DeclaredMacs
<1>3. Running /\ Running' /\ Open' = Open \ {m}
  BY <1>1, <1>2, KeysApart DEF Running, Endings, Open, Keys
<1>4. SameIn(site, doc, m) /\ NetsOf(read) = NetsOf(site)
  BY <1>1, ReadClient DEF Works
<1>5. ~Off(m)
  BY <1>1, <1>4, MacOff
<1>6. Current'
  BY <1>1, <1>2 DEF Works, Current
<1>7. Readable /\ (pass = "write" => Resolved)
  BY <1>1, <1>3 DEF Works, Checked
<1>8. \A x \in DeclaredMacs \ todo' : Nameable(doc.res[x].net)
  <2>1. Nameable(doc.res[m].net)
    BY <1>1, <1>4 DEF Resolvable, Nameable
  <2>2. QED
    BY <1>1, <1>3, <2>1 DEF Works, Checked
<1>9. Open' \subseteq Open /\ \A k \in Open \ Open' : ~Off(k)
  BY <1>3, <1>5
<1>10. QED
  BY <1>1, <1>3, <1>6, <1>7, <1>8, <1>9, AdvanceWorks

LEMMA ReserveWorks == ASSUME Inv, Sited, Works, NEW m \in Macs, Reserve(m) PROVE Works'
<1> DEFINE c == ReservedAs(m, site.clients[m])
           after == [site EXCEPT !.clients[m] = c]
           can == IF m \in Known(read) THEN PutTaken(m) ELSE site.clients[m] = None
<1>1. PICK answer \in Answers : Mutate(can, after, answer) /\ Continue(m, answer)
  <2>1. after = [site EXCEPT !.clients[m] = ReservedAs(m, @)]
    OBVIOUS
  <2>2. QED
    BY <2>1 DEF Reserve
<1>2. /\ TypeOK /\ pc = "reserve" /\ Step /\ m \in todo /\ Resolvable(m) /\ ~Same(m)
      /\ todo \subseteq DeclaredMacs /\ "reservations" \in doc.sections
      /\ lines' = lines \cup {<<IF m \in Reserved(read) THEN "UPDATE" ELSE "CREATE", m>>}
      /\ SiteOK(site) /\ PlacesOK(site) /\ Running /\ stale = {} /\ doc \in Document
      /\ DeclaredMacs \subseteq Macs /\ Current
  BY DEF Inv, Reserve, Log, Pending, TypeOK, Sited, Running, Endings, Works, Current, DeclaredMacs
<1>3. UNCHANGED <<doc, opts, pass, planned, stale>>
  BY <1>2, StepFacts
<1>4. /\ ~SameIn(site, doc, m) /\ NetsOf(read) = NetsOf(site)
      /\ m \in Reserved(read) <=> m \in Reserved(site)
      /\ m \in Known(read) <=> m \in Known(site)
  BY <1>2, ReadClient
<1>5. /\ m \in DeclaredMacs /\ Off(m) /\ m \in Open /\ m \in Keys
      /\ lines' = lines \cup {LineOf(site, doc, m)}
  BY <1>2, <1>4, MacOff DEF Open
<1>6. can = TRUE
  BY <1>2, <1>4 DEF PutTaken, Known
<1>7. /\ doc.res[m] \in Entry /\ doc.res[m] # None /\ doc.res[m].ip # None /\ doc.res[m].net \in Nets
      /\ site.clients[m] \in Client \cup {None}
  BY <1>2, <1>5, AbsentAssumption, SiteParts DEF Document, DeclaredMacs, Entry
<1>8. c \in Client /\ c.fixed /\ c.ip = doc.res[m].ip /\ c.net = doc.res[m].net
      /\ (doc.res[m].name # None => c.name = doc.res[m].name)
  BY <1>2, <1>7 DEF ReservedAs, Client, Entry
<1>9. pass = "write" => doc.res[m].net \in NetsOf(site)
  BY <1>2, <1>4 DEF Resolvable, DryRun
<1> HIDE DEF c
<1>10. pass = "write" =>
         /\ Mended(site, after, doc, opts, m)
         /\ after.nets = site.nets /\ after.scope = site.scope
         /\ \A x \in Macs \ {m} : after.clients[x] = site.clients[x]
  <2> SUFFICES ASSUME pass = "write"
               PROVE  /\ Mended(site, after, doc, opts, m)
                      /\ after.nets = site.nets /\ after.scope = site.scope
                      /\ \A x \in Macs \ {m} : after.clients[x] = site.clients[x]
    OBVIOUS
  <2>1. c.net \in NetsOf(site) /\ c.net \in NetsOf(site) \cup {None, Gone} /\ c.ip # None
    BY <1>7, <1>8, <1>9
  <2>2. Mended(site, after, doc, opts, m)
    BY <1>2, <1>7, <1>8, <2>1, ClientMended
  <2>3. QED
    BY <1>2, <1>8, <2>1, <2>2, SetClientFacts
<1>11. after.seen = site.seen
  BY <1>2, SiteParts
<1> HIDE DEF after, can
<1>12. /\ answer = "done" => site' = IF pass = "write" THEN after ELSE site
       /\ answer # "done" => faults' > 0
  BY <1>1, <1>2, <1>6, MutateCalm
<1>13. CASE answer = "done"
  <2>1. pc' = pc /\ read' = read /\ todo' = todo \ {m}
    BY <1>1, <1>13 DEF Continue
  <2>2. DeclaredMacs' = DeclaredMacs
    BY <1>3 DEF DeclaredMacs
  <2>3. Running' /\ Open' = Open \ {m}
    BY <1>2, <1>5, <2>1, <2>2, KeysApart DEF Running, Endings, Open, Keys
  <2>4. /\ site'.nets = site.nets /\ site'.scope = site.scope /\ site'.seen = site.seen
        /\ \A x \in Macs \ {m} : site'.clients[x] = site.clients[x]
    BY <1>10, <1>11, <1>12, <1>13
  <2>5. Current'
    BY <1>2, <1>3, <1>5, <2>1, <2>2, <2>4 DEF Current
  <2>6. /\ Readable' <=> Readable
        /\ Resolved' <=> Resolved
        /\ \A n : Nameable(n)' <=> Nameable(n)
    BY <1>3, <2>4, ChecksKept
  <2>7. \A x \in DeclaredMacs' \ todo' : Nameable(doc.res[x].net)'
    <3>1. Nameable(doc.res[m].net)
      BY <1>2, <1>4 DEF Resolvable, Nameable
    <3>2. \A x \in DeclaredMacs \ todo : Nameable(doc.res[x].net)
      BY <1>2 DEF Works, Checked
    <3>3. QED
      BY <1>3, <2>1, <2>2, <2>6, <3>1, <3>2
  <2>8. Checked'
    BY <1>2, <1>3, <2>1, <2>6, <2>7 DEF Works, Checked
  <2>9. pass = "plan" => site' = site
    BY <1>12, <1>13
  <2>10. pass = "write" => Mended(site, site', doc, opts, m)
    BY <1>10, <1>12, <1>13
  <2>11. QED
    BY <1>2, <1>3, <1>5, <2>1, <2>3, <2>5, <2>8, <2>9, <2>10, HandleWorks
<1>14. CASE answer # "done"
  <2>1. pc' = "failed" /\ faults' > 0
    BY <1>1, <1>12, <1>14, EndFacts DEF Continue
  <2>2. QED
    BY <1>2, <1>5, <2>1, CutWorks
<1>15. QED
  BY <1>13, <1>14

LEMMA BeginClearWorks == ASSUME Inv, Works, BeginClear PROVE Works'
<1>1. /\ TypeOK /\ pc = "reserve" /\ pc' = "clear" /\ todo = {} /\ Current
      /\ todo' = (IF opts.prune THEN Clearable ELSE {}) /\ ~Malformed
      /\ "reservations" \in doc.sections
      /\ UNCHANGED <<site, lines, doc, opts, pass, planned, stale>>
  BY QuickFacts DEF Inv, BeginClear, Pending, Works
<1>2. todo' \subseteq Macs \ DeclaredMacs
  BY <1>1 DEF Clearable, Reserved, Known
<1>3. \A m \in Macs \ DeclaredMacs : m \in todo' <=> Off(m)
  <2> SUFFICES ASSUME NEW m \in Macs \ DeclaredMacs PROVE m \in todo' <=> Off(m)
    OBVIOUS
  <2>1. m \in Reserved(read) <=> m \in Reserved(site)
    BY <1>1, ReadClient
  <2>2. Off(m) <=> opts.prune /\ m \in Reserved(site)
    BY <1>1, MacOff
  <2>3. QED
    BY <1>1, <2>1, <2>2 DEF Clearable
<1>4. Running /\ Running' /\ Open = Macs \ DeclaredMacs /\ Open' = todo'
  BY <1>1, <1>2, KeysApart DEF Running, Endings, Open, Keys
<1>5. Current'
  <2>1. \A k : Off(k)' <=> Off(k)
    BY <1>1 DEF Off
  <2>2. DeclaredNets' = DeclaredNets /\ DeclaredNets \subseteq Nets
    BY <1>1 DEF DeclaredNets
  <2>3. \A k \in todo' : Off(k)' /\ k \notin DeclaredNets'
    BY <1>2, <1>3, <2>1, <2>2, KeysApart
  <2>4. QED
    BY <1>1, <2>3 DEF Current
<1>6. Readable /\ Resolved
  BY <1>1, <1>4 DEF Works, Checked, Resolved
<1>7. Open' \subseteq Open /\ \A k \in Open \ Open' : ~Off(k)
  BY <1>2, <1>3, <1>4
<1>8. QED
  BY <1>1, <1>4, <1>5, <1>6, <1>7, AdvanceWorks

LEMMA ClearReservationWorks ==
  ASSUME Inv, Sited, Works, NEW m \in Macs, ClearReservation(m) PROVE Works'
<1> DEFINE c == [site.clients[m] EXCEPT !.fixed = FALSE]
           after == [site EXCEPT !.clients[m] = c]
<1>1. /\ TypeOK /\ pc = "clear" /\ Step /\ m \in todo /\ SiteOK(site) /\ PlacesOK(site)
      /\ todo \subseteq Macs \ DeclaredMacs /\ lines' = lines \cup {<<"DELETE", m>>}
      /\ Running /\ stale = {} /\ doc \in Document
      /\ \A k \in todo : Off(k) /\ k \notin DeclaredNets
  BY DEF Inv, ClearReservation, Log, Pending, TypeOK, Sited, Running, Endings, Works, Current
<1>2. UNCHANGED <<doc, opts, pass, planned, stale>>
  BY <1>1, StepFacts
<1>3. /\ m \in Open /\ m \in Keys /\ m \in Reserved(site) /\ doc.res[m] = None
      /\ m \notin DeclaredMacs /\ Off(m) /\ lines' = lines \cup {LineOf(site, doc, m)}
  BY <1>1, MacOff DEF Open, DeclaredMacs
<1>4. site.clients[m] \in Client /\ site.clients[m] # None /\ m \in Known(site)
  BY <1>1, <1>3 DEF Reserved, Known, SiteOK, Site
<1>5. PutTaken(m) = TRUE
  BY <1>1, <1>4 DEF PutTaken
<1>6. PICK answer \in Answers : Mutate(TRUE, after, answer) /\ Continue(m, answer)
  <2>1. Cleared(site, m) = after
    BY DEF Cleared
  <2>2. PICK answer \in Answers :
          /\ Mutate(PutTaken(m), IF site.clients[m] = None THEN site ELSE Cleared(site, m), answer)
          /\ Continue(m, answer)
    BY DEF ClearReservation
  <2> HIDE DEF after
  <2>3. QED
    BY <1>4, <1>5, <2>1, <2>2
<1>7. c \in Client /\ c.net = site.clients[m].net /\ c.fixed = FALSE
  BY <1>4 DEF Client
<1>8. c.net \in NetsOf(site) \cup {None, Gone}
  BY <1>1, <1>4, <1>7 DEF SiteOK
<1> HIDE DEF c
<1>9. Mended(site, after, doc, opts, m)
  BY <1>1, <1>3, <1>7, <1>8, ClientMended
<1>10. after.nets = site.nets /\ after.scope = site.scope
  BY <1>1, <1>7, <1>8, SetClientFacts
<1> HIDE DEF after
<1>11. /\ answer = "done" => site' = IF pass = "write" THEN after ELSE site
       /\ answer # "done" => faults' > 0
  BY <1>1, <1>6, MutateCalm
<1>12. CASE answer = "done"
  <2>1. pc' = pc /\ read' = read /\ todo' = todo \ {m}
    BY <1>6, <1>12 DEF Continue
  <2>2. Running' /\ Open' = Open \ {m}
    BY <1>1, <2>1, KeysApart DEF Running, Endings, Open, Keys
  <2>3. pass = "plan" => site' = site
    BY <1>11, <1>12
  <2>4. pass = "write" => Mended(site, site', doc, opts, m)
    BY <1>9, <1>11, <1>12
  <2>5. Current'
    <3>1. \A k \in todo \ {m} : Off(k)' <=> Off(k)
      <4>1. \A k \in todo \ {m} : k \in Keys \ {m}
        BY <1>1 DEF Keys
      <4>2. CASE pass = "plan"
        BY <1>2, <2>3, <4>2 DEF Off
      <4>3. CASE pass = "write"
        BY <1>2, <2>4, <4>1, <4>3 DEF Off, Mended
      <4>4. QED
        BY <1>1, <4>2, <4>3 DEF TypeOK
    <3>2. DeclaredNets' = DeclaredNets
      BY <1>2 DEF DeclaredNets
    <3>3. QED
      BY <1>1, <1>2, <2>1, <3>1, <3>2 DEF Current
  <2>6. site'.nets = site.nets /\ site'.scope = site.scope
    BY <1>10, <1>11, <1>12
  <2>7. /\ Readable' <=> Readable
        /\ Resolved' <=> Resolved
    BY <1>2, <2>6, ChecksKept
  <2>8. Checked'
    BY <1>1, <1>2, <2>1, <2>7 DEF Works, Checked
  <2>9. QED
    BY <1>1, <1>2, <1>3, <2>1, <2>2, <2>3, <2>4, <2>5, <2>8, HandleWorks
<1>13. CASE answer # "done"
  <2>1. pc' = "failed" /\ faults' > 0
    BY <1>6, <1>11, <1>13, EndFacts DEF Continue
  <2>2. QED
    BY <1>1, <1>3, <2>1, CutWorks
<1>14. QED
  BY <1>12, <1>13

LEMMA RefuseClearWorks ==
  ASSUME Inv, Works, Vetted, NEW m \in Macs, RefuseClear(m) PROVE Works'
<1>1. /\ pc = "clear" /\ Unapproved(m) /\ m \in todo /\ todo \subseteq Macs \ DeclaredMacs
  BY DEF RefuseClear, Unapproved, Inv, Pending
<1>2. Off(m)
  BY <1>1 DEF Works, Current
<1>3. LineOf(site, doc, m) = <<"DELETE", m>> /\ m \in Open
  BY <1>1, MacOff DEF Open
<1>4. pc' = pc /\ todo' = todo \ {m} => Open' = Open \ {m}
  BY <1>1, KeysApart DEF Open, Keys
<1>5. QED
  BY <1>1, <1>2, <1>3, <1>4, UnapprovedWorks

LEMMA EndReservationsWorks == ASSUME Inv, Works, EndReservations PROVE Works'
<1>1. /\ TypeOK /\ pc = "clear" /\ pc' = "done" /\ todo = {}
      /\ UNCHANGED <<site, lines, doc, opts, pass, planned, stale>>
  BY QuickFacts DEF Inv, EndReservations, After
<1>2. Running /\ Running' /\ Open' = Open
  BY <1>1 DEF Running, Endings, Open
<1>3. Current'
  BY <1>1 DEF Works, Current
<1>4. Readable /\ Resolved
  BY <1>1, <1>2 DEF Works, Checked
<1>5. QED
  BY <1>1, <1>2, <1>3, <1>4, AdvanceWorks

-----------------------------------------------------------------------------
(* A calm run: its ends, and the writing pass *)

\* The writing pass starts with the whole plan before it.
LEMMA BeginWriteWorks ==
  ASSUME BeginPass("write"), UNCHANGED <<site, doc, opts, stale>>, stale = {},
         planned' = Due(site, doc, opts), Readable, Resolved
  PROVE  Works'
<1>1. pass' = "write" /\ pc' = "start" /\ lines' = {}
  BY DEF BeginPass
<1>2. Running' /\ Open' = Keys
  BY <1>1 DEF Running, Endings, Open, Keys
<1>3. Exact'
  BY <1>1, <1>2 DEF Exact
<1>4. /\ Readable' <=> Readable
      /\ Resolved' <=> Resolved
  BY ChecksKept
<1>5. Checked' /\ Current' /\ Smooth'
  BY <1>1, <1>4 DEF Checked, Current, Smooth
<1>6. QED
  BY <1>3, <1>5 DEF Works

LEMMA FinishPlanWorks == ASSUME Inv, Works, FinishPlan PROVE Works'
<1>1. /\ TypeOK /\ pc = "done" /\ pass = "plan" /\ planned' = lines /\ stale = {}
      /\ UNCHANGED <<site, doc, opts, stale, disturbed>>
  BY DEF Inv, FinishPlan, DryRun, Works, Current, TypeOK, input
<1>2. Running /\ Open = {}
  BY <1>1 DEF Running, Endings, Open
<1>3. /\ lines \subseteq Due(site, doc, opts)
      /\ \A k \in Keys : Off(k) => LineOf(site, doc, k) \in lines
  BY <1>1, <1>2 DEF Works, Exact
<1>4. lines = Due(site, doc, opts)
  BY <1>3 DEF Due, Off
<1>5. Readable /\ Resolved
  BY <1>1, <1>2 DEF Works, Checked
<1>6. /\ Readable' <=> Readable
      /\ Resolved' <=> Resolved
  BY <1>1, ChecksKept
<1>7. \A k : Off(k)' <=> Off(k)
  BY <1>1 DEF Off
<1>8. CASE BeginPass("write")
  BY <1>1, <1>4, <1>5, <1>8, BeginWriteWorks
<1>9. CASE pc' = "snapshot" /\ UNCHANGED <<pass, reading, plan>>
  <2>1. lines' = lines /\ pass' = pass /\ pc' = "snapshot"
    BY <1>9 DEF plan
  <2>2. Exact'
    BY <1>1, <1>3, <1>4, <1>7, <2>1 DEF Exact, Open
  <2>3. Current' /\ Checked' /\ Smooth'
    BY <1>1, <1>5, <1>6, <2>1 DEF Current, Checked, Smooth
  <2>4. QED
    BY <2>2, <2>3 DEF Works
<1>10. CASE /\ End(IF Refused THEN "refused" ELSE "clean") /\ UNCHANGED <<pass, plan>>
            /\ Refused \/ lines = {}
  <2>1. /\ lines' = lines /\ pass' = pass /\ pc' \in {"refused", "clean"}
        /\ pc' = "clean" => lines = {}
    BY <1>10 DEF plan, End
  <2>2. ~Running' /\ pc' # "snapshot"
    BY <2>1 DEF Running, Endings
  <2>3. pc' = "clean" => \A k \in Keys : ~Off(k)'
    BY <1>3, <1>7, <2>1
  <2>4. Exact'
    BY <1>1, <2>1, <2>2, <2>3 DEF Exact
  <2>5. Current' /\ Checked' /\ Smooth'
    BY <1>1, <2>1, <2>2 DEF Current, Checked, Smooth
  <2>6. QED
    BY <2>4, <2>5 DEF Works
<1>11. QED
  BY <1>8, <1>9, <1>10 DEF FinishPlan

LEMMA TakeSnapshotWorks == ASSUME Inv, Works, TakeSnapshot PROVE Works'
<1>1. /\ TypeOK /\ pc = "snapshot" /\ UNCHANGED <<site, doc, opts, stale, planned>>
      /\ stale = {} /\ planned = Due(site, doc, opts)
  BY DEF Inv, TakeSnapshot, input, Works, Current, Exact
<1>2. Readable /\ Resolved
  BY <1>1 DEF Works, Checked, Running, Endings
<1>3. BeginPass("write")
  BY <1>2 DEF TakeSnapshot, Readable
<1>4. QED
  BY <1>1, <1>2, <1>3, BeginWriteWorks

LEMMA FinishWriteWorks == ASSUME Inv, Works, FinishWrite PROVE Works'
<1>1. /\ TypeOK /\ pc = "done" /\ pass = "write" /\ pc' = "applied"
      /\ UNCHANGED <<site, lines, doc, opts, pass, planned, stale>>
  BY QuickFacts, EndFacts DEF Inv, FinishWrite, DryRun, TypeOK
<1>2. Running /\ Open = {} /\ ~Running'
  BY <1>1 DEF Running, Endings, Open
<1>3. lines \subseteq planned /\ planned = lines \cup Due(site, doc, opts) /\ \A k \in Keys : ~Off(k)
  BY <1>1, <1>2 DEF Works, Exact
<1>4. Due(site, doc, opts) = {}
  BY <1>3 DEF Due, Off
<1>5. \A k : Off(k)' <=> Off(k)
  BY <1>1 DEF Off
<1>6. Exact'
  BY <1>1, <1>2, <1>3, <1>4, <1>5 DEF Exact
<1>7. Current' /\ Checked' /\ Smooth'
  BY <1>1, <1>2 DEF Works, Current, Checked, Smooth
<1>8. QED
  BY <1>6, <1>7 DEF Works

LEMMA KillWorks == ASSUME Inv, Works, Kill PROVE Works'
<1>1. /\ TypeOK /\ Running /\ pc' = "killed"
      /\ UNCHANGED <<site, lines, doc, opts, pass, planned, stale>>
  BY EndFacts DEF Inv, Kill, input, plan
<1>2. Exact'
  BY <1>1, Cut DEF Works
<1>3. Current' /\ Checked' /\ Smooth'
  BY <1>1 DEF Works, Current, Checked, Smooth, Running, Endings
<1>4. QED
  BY <1>2, <1>3 DEF Works

LEMMA LaunchWorks == ASSUME NEW d, NEW o, NEW b, Launch(d, o, b) PROVE Works'
<1>1. pass' = "plan" /\ pc' = "start" /\ lines' = {} /\ stale' = {}
  BY BeginPassFacts DEF Launch
<1>2. Open' = Keys
  BY <1>1 DEF Open, Keys
<1>3. Exact'
  BY <1>1, <1>2 DEF Exact
<1>4. Current' /\ Checked' /\ Smooth'
  BY <1>1 DEF Current, Checked, Smooth
<1>5. QED
  BY <1>3, <1>4 DEF Works

-----------------------------------------------------------------------------
(* Deletions are approved *)

LEMMA VettedKept ==
  ASSUME Vetted, UNCHANGED <<doc, opts, pass, planned>>, pc' = "snapshot" => pc = "snapshot",
         unlisted \subseteq unlisted',
         \A k \in Keys : <<"DELETE", k>> \in lines' /\ <<"DELETE", k>> \notin lines
                         => Approved(k) \/ k \in unlisted'
  PROVE  Vetted'
<1>1. \A k : Approved(k)' <=> Approved(k)
  BY DEF Approved
<1>2. QED
  BY <1>1 DEF Vetted

\* A step that writes at most one line, and no deletion that is not approved.
LEMMA LogVetted ==
  ASSUME Vetted, Step, pc' # "snapshot", NEW verb, NEW key, Log(verb, key),
         verb = "DELETE" => Approved(key)
  PROVE  Vetted'
<1>1. UNCHANGED <<doc, opts, pass, planned, unlisted>> /\ lines' = lines \cup {<<verb, key>>}
  BY StepFacts DEF Log
<1>2. \A k \in Keys : <<"DELETE", k>> \in lines' /\ <<"DELETE", k>> \notin lines => Approved(k)
  BY <1>1
<1>3. QED
  BY <1>1, <1>2, VettedKept

LEMMA QuickVetted ==
  ASSUME Vetted, Quick \/ Get, pc' # "snapshot" PROVE Vetted'
<1>1. UNCHANGED <<doc, opts, pass, planned, unlisted, lines>>
  BY QuickFacts, GetFacts
<1>2. QED
  BY <1>1, VettedKept

LEMMA UnapprovedVetted ==
  ASSUME Vetted, NEW key, Unapproved(key), pc \in {"pruneNets", "clear"} PROVE Vetted'
<1>1. UNCHANGED <<doc, opts, pass, planned>>
  BY DEF Unapproved, input
<1>2. CASE DryRun
  <2>1. /\ unlisted' = unlisted \cup {key} /\ pc' # "snapshot"
        /\ lines' = lines \cup {<<"DELETE", key>>}
    BY <1>2 DEF Unapproved, Log
  <2>2. \A k \in Keys : <<"DELETE", k>> \in lines' /\ <<"DELETE", k>> \notin lines => k \in unlisted'
    BY <2>1
  <2>3. QED
    BY <1>1, <2>1, <2>2, VettedKept
<1>3. CASE ~DryRun
  <2>1. UNCHANGED <<lines, unlisted>> /\ pc' = "stopped"
    BY <1>3 DEF Unapproved, End, plan
  <2>2. QED
    BY <1>1, <2>1, VettedKept
<1>4. QED
  BY <1>2, <1>3

LEMMA FinishPlanVetted == ASSUME Vetted, FinishPlan PROVE Vetted'
<1>1. pass = "plan" /\ planned' = lines /\ UNCHANGED <<doc, opts>>
  BY DEF FinishPlan, DryRun, input
<1>2. \A k : Approved(k)' <=> Approved(k)
  BY <1>1 DEF Approved
<1>3. \A k \in Keys : <<"DELETE", k>> \in lines => Approved(k) \/ k \in unlisted
  BY <1>1 DEF Vetted
<1>4. CASE Refused \/ lines = {}
  <2>1. UNCHANGED <<pass, lines, unlisted>> /\ pc' # "snapshot"
    BY <1>4 DEF FinishPlan, plan, End
  <2>2. QED
    BY <1>1, <1>2, <1>3, <2>1 DEF Vetted
<1>5. CASE ~(Refused \/ lines = {})
  <2>1. \A k \in Keys : <<"DELETE", k>> \in lines => Approved(k)
    BY <1>3, <1>5 DEF Refused, Approved
  <2>2. \/ pass' = "write" /\ pc' = "start"
        \/ UNCHANGED <<pass, lines, unlisted>>
    BY <1>5 DEF FinishPlan, BeginPass, plan
  <2>3. QED
    BY <1>1, <1>2, <1>3, <2>1, <2>2 DEF Vetted
<1>6. QED
  BY <1>4, <1>5

LEMMA TakeSnapshotVetted == ASSUME Vetted, TakeSnapshot PROVE Vetted'
<1>1. pc = "snapshot" /\ UNCHANGED <<doc, opts, planned>>
  BY DEF TakeSnapshot, input
<1>2. \A k : Approved(k)' <=> Approved(k)
  BY <1>1 DEF Approved
<1>3. \/ UNCHANGED <<pass, lines, unlisted>> /\ pc' # "snapshot"
      \/ pass' = "write" /\ pc' # "snapshot"
  BY DEF TakeSnapshot, End, BeginPass, plan
<1>4. QED
  BY <1>1, <1>2, <1>3 DEF Vetted

LEMMA RunStepVetted == ASSUME Vetted, RunStep PROVE Vetted'
<1>1. CASE StartSteps \/ SkipMDNS \/ ScopeUnreadable \/ ScopeRead
  <2>1. Quick /\ pc' \in {"mdns", "networks", "failed", "writeScope"}
    BY <1>1 DEF StartSteps, SkipMDNS, ScopeUnreadable, ScopeRead, After, End
  <2>2. QED
    BY <2>1, QuickVetted
<1>2. CASE WriteScope
  <2>1. Step /\ Log("UPDATE", "mdns") /\ pc' \in {"networks", "failed"}
    BY <1>2 DEF WriteScope, After, End
  <2>2. QED
    BY <2>1, LogVetted
<1>3. CASE ReadNetworks \/ PruneNetworks \/ EndNetworks
  <2>1. (Quick \/ Get) /\ pc' \in {"writeNets", "pruneNets", "reservations"}
    BY <1>3 DEF ReadNetworks, PruneNetworks, EndNetworks, After
  <2>2. QED
    BY <2>1, QuickVetted
<1>4. ASSUME NEW n \in Nets, NetworkOK(n) PROVE Vetted'
  <2>1. Quick /\ pc' = "writeNets"
    BY <1>4 DEF NetworkOK
  <2>2. QED
    BY <2>1, QuickVetted
<1>5. ASSUME NEW n \in Nets, WriteNetwork(n) PROVE Vetted'
  <2>1. /\ Step /\ Log(IF read.nets[n] = None THEN "CREATE" ELSE "UPDATE", n)
        /\ pc' \in {"writeNets", "failed"}
    BY <1>5 DEF WriteNetwork, Continue, End
  <2>2. QED
    BY <2>1, LogVetted
<1>6. ASSUME NEW n \in Nets, DeleteNetwork(n) PROVE Vetted'
  <2>1. Step /\ Log("DELETE", n) /\ Approved(n) /\ pc' \in {"pruneNets", "failed"}
    BY <1>6 DEF DeleteNetwork, Continue, End
  <2>2. QED
    BY <2>1, LogVetted
<1>7. ASSUME NEW n \in Nets, RefuseNetwork(n) PROVE Vetted'
  BY <1>7, UnapprovedVetted DEF RefuseNetwork
<1>8. CASE SkipReservations \/ RefuseReservations \/ ReadClients \/ ReadPlaces
             \/ BeginClear \/ EndReservations
  <2>1. (Quick \/ Get) /\ pc' \in {"done", "failed", "places", "reserve", "clear"}
    BY <1>8 DEF SkipReservations, RefuseReservations, ReadClients, ReadPlaces, BeginClear,
                EndReservations, After, End
  <2>2. QED
    BY <2>1, QuickVetted
<1>9. ASSUME NEW m \in Macs, UnknownNetwork(m) \/ ReservationOK(m) PROVE Vetted'
  <2>1. Quick /\ pc' \in {"reserve", "failed"}
    BY <1>9 DEF UnknownNetwork, ReservationOK, End
  <2>2. QED
    BY <2>1, QuickVetted
<1>10. ASSUME NEW m \in Macs, Reserve(m) PROVE Vetted'
  <2>1. /\ Step /\ Log(IF m \in Reserved(read) THEN "UPDATE" ELSE "CREATE", m)
        /\ pc' \in {"reserve", "failed"}
    BY <1>10 DEF Reserve, Continue, End
  <2>2. QED
    BY <2>1, LogVetted
<1>11. ASSUME NEW m \in Macs, ClearReservation(m) PROVE Vetted'
  <2>1. Step /\ Log("DELETE", m) /\ Approved(m) /\ pc' \in {"clear", "failed"}
    BY <1>11 DEF ClearReservation, Continue, End
  <2>2. QED
    BY <2>1, LogVetted
<1>12. ASSUME NEW m \in Macs, RefuseClear(m) PROVE Vetted'
  BY <1>12, UnapprovedVetted DEF RefuseClear
<1>13. CASE FinishWrite
  <2>1. Quick /\ pc' = "applied"
    BY <1>13 DEF FinishWrite, End
  <2>2. QED
    BY <2>1, QuickVetted
<1>14. QED
  BY <1>1, <1>2, <1>3, <1>4, <1>5, <1>6, <1>7, <1>8, <1>9, <1>10, <1>11, <1>12, <1>13,
     FinishPlanVetted, TakeSnapshotVetted DEF RunStep

LEMMA NextVetted == ASSUME Vetted, [Next]_vars PROVE Vetted'
<1>1. ASSUME NEW d, NEW o, NEW b, Launch(d, o, b) PROVE Vetted'
  <2>1. pass' = "plan" /\ pc' = "start" /\ lines' = {}
    BY <1>1, BeginPassFacts DEF Launch
  <2>2. QED
    BY <2>1 DEF Vetted
<1>2. CASE StartSync \/ StartRestore
  BY <1>1, <1>2 DEF StartSync, StartRestore
<1>3. CASE Kill
  <2>1. UNCHANGED <<doc, opts, pass, planned, lines, unlisted>> /\ pc' = "killed"
    BY <1>3 DEF Kill, End, plan, input
  <2>2. QED
    BY <2>1, VettedKept
<1>4. ASSUME NEW after, Happen(after)
      PROVE  UNCHANGED <<doc, opts, pass, pc, planned, lines, unlisted>>
  BY <1>4 DEF Happen, input, plan
<1>5. CASE Outside
  <2>1. \E after : Happen(after)
    BY <1>5 DEF Outside, Roam, Appear, Forget, EditReservation, EditScope, EditNetwork
  <2>2. QED
    BY <1>4, <2>1, VettedKept
<1>6. CASE UNCHANGED vars
  BY <1>6, VettedKept DEF vars, input, plan
<1>7. QED
  BY <1>2, <1>3, <1>5, <1>6, RunStepVetted DEF Next

-----------------------------------------------------------------------------
(* The networks the console owns stay *)

LEMMA PlacesKept ==
  ASSUME NEW s, NEW t, PlacesOK(s), NetsOf(s) \subseteq NetsOf(t), t.seen = s.seen
  PROVE  PlacesOK(t)
BY DEF PlacesOK

LEMMA DropPlaces ==
  ASSUME NEW s, SiteOK(s), PlacesOK(s), NEW n \in Nets \ Builtin
  PROVE  PlacesOK(DropNetwork(s, n))
<1>1. NetsOf(DropNetwork(s, n)) = NetsOf(s) \ {n}
  BY DropFacts
<1>2. \A m \in Macs : DropNetwork(s, n).seen[m] = IF s.seen[m] = n THEN Gone ELSE s.seen[m]
  BY DropClients
<1>3. QED
  BY <1>1, <1>2 DEF PlacesOK

LEMMA FlagPlaces ==
  ASSUME NEW s, SiteOK(s), PlacesOK(s), NEW n \in Nets, NEW f, f # None
  PROVE  PlacesOK([s EXCEPT !.nets[n] = f])
<1> DEFINE ns == [s.nets EXCEPT ![n] = f]
           t == [s EXCEPT !.nets[n] = f]
<1>1. ns[n] = f /\ \A x \in Nets \ {n} : ns[x] = s.nets[x]
  BY SiteParts
<1>2. t = [s EXCEPT !.nets = ns]
  OBVIOUS
<1> HIDE DEF ns, t
<1>3. t.nets = ns /\ t.seen = s.seen
  BY <1>2, SiteParts
<1>4. NetsOf(s) \subseteq NetsOf(t)
  BY <1>1, <1>3 DEF NetsOf
<1>5. QED
  BY <1>3, <1>4, PlacesKept DEF t

LEMMA SitedKept ==
  ASSUME Sited, PlacesOK(site'), pc' = "pruneNets" => pc = "pruneNets" /\ todo' \subseteq todo
  PROVE  Sited'
BY DEF Sited, PlacesOK, NetsOf

LEMMA StaysSited ==
  ASSUME Sited, site' = site, pc' = "pruneNets" => pc = "pruneNets" /\ todo' \subseteq todo
  PROVE  Sited'
<1>1. PlacesOK(site')
  BY DEF Sited
<1>2. QED
  BY <1>1, SitedKept

LEMMA QuickSited == ASSUME Sited, Quick \/ Get, pc' # "pruneNets" PROVE Sited'
<1>1. site' = site
  BY DEF Quick, Get
<1>2. QED
  BY <1>1, StaysSited

\* A request whose effect keeps the places keeps them, carried out or not.
LEMMA MutateSited ==
  ASSUME TypeOK, Sited, NEW acceptable \in BOOLEAN, NEW after, NEW answer \in Answers,
         Mutate(acceptable, after, answer), pass = "write" /\ acceptable => PlacesOK(after),
         pc' = "pruneNets" => pc = "pruneNets" /\ todo' \subseteq todo
  PROVE  Sited'
<1>1. site' = site \/ (pass = "write" /\ acceptable /\ site' = after)
  BY MutateFacts
<1>2. PlacesOK(site')
  BY <1>1 DEF Sited
<1>3. QED
  BY <1>2, SitedKept

LEMMA WriteScopeSited == ASSUME Inv, Sited, WriteScope PROVE Sited'
<1> DEFINE after == [site EXCEPT !.scope = doc.mdns]
<1>1. PICK answer \in Answers :
        /\ Mutate(TRUE, after, answer)
        /\ IF answer = "done" THEN pc' = After("mdns") /\ UNCHANGED reading ELSE End("failed")
  BY DEF WriteScope
<1>2. SiteOK(site) /\ TypeOK /\ PlacesOK(site)
  BY DEF Inv, TypeOK, Sited
<1>3. PlacesOK(after)
  <2>1. after.nets = site.nets /\ after.seen = site.seen
    BY <1>2, SiteParts
  <2> HIDE DEF after
  <2>2. NetsOf(after) = NetsOf(site)
    BY <2>1 DEF NetsOf
  <2>3. QED
    BY <1>2, <2>1, <2>2, PlacesKept
<1> HIDE DEF after
<1>4. pc' # "pruneNets"
  BY <1>1 DEF After, End
<1>5. QED
  BY <1>1, <1>2, <1>3, <1>4, MutateSited

LEMMA WriteNetworkSited == ASSUME Inv, Sited, NEW n \in Nets, WriteNetwork(n) PROVE Sited'
<1> DEFINE after == [site EXCEPT !.nets[n] = doc.nets[n]]
           can == IF read.nets[n] = None THEN site.nets[n] = None ELSE Alive(n)
<1>1. PICK answer \in Answers : Mutate(can, after, answer) /\ Continue(n, answer)
  BY DEF WriteNetwork
<1>2. /\ SiteOK(site) /\ TypeOK /\ PlacesOK(site) /\ pc = "writeNets" /\ doc.nets[n] # None
  BY DEF Inv, TypeOK, Sited, WriteNetwork, Pending, DeclaredNets
<1>3. PlacesOK(after) /\ can \in BOOLEAN
  BY <1>2, FlagPlaces DEF Alive
<1> HIDE DEF after, can
<1>4. pc' # "pruneNets"
  BY <1>1, <1>2 DEF Continue, End
<1>5. QED
  BY <1>1, <1>2, <1>3, <1>4, MutateSited

LEMMA DeleteNetworkSited == ASSUME Inv, Sited, NEW n \in Nets, DeleteNetwork(n) PROVE Sited'
<1>1. PICK answer \in Answers : Mutate(Alive(n), DropNetwork(site, n), answer) /\ Continue(n, answer)
  BY DEF DeleteNetwork
<1>2. SiteOK(site) /\ TypeOK /\ PlacesOK(site) /\ pc = "pruneNets" /\ n \in Nets \ Builtin
  BY DEF Inv, TypeOK, Sited, DeleteNetwork
<1>3. PlacesOK(DropNetwork(site, n)) /\ Alive(n) \in BOOLEAN
  BY <1>2, DropPlaces DEF Alive
<1>4. todo' \subseteq todo
  BY <1>1, <1>2, ContinueFacts
<1>5. QED
  BY <1>1, <1>2, <1>3, <1>4, MutateSited

LEMMA ClientPlaces ==
  ASSUME NEW s, SiteOK(s), PlacesOK(s), NEW m \in Macs, NEW c
  PROVE  PlacesOK([s EXCEPT !.clients[m] = c])
<1> DEFINE cs == [s.clients EXCEPT ![m] = c]
           t == [s EXCEPT !.clients[m] = c]
<1>1. t = [s EXCEPT !.clients = cs]
  OBVIOUS
<1> HIDE DEF cs, t
<1>2. t.nets = s.nets /\ t.seen = s.seen
  BY <1>1, SiteParts
<1>3. NetsOf(t) = NetsOf(s)
  BY <1>2 DEF NetsOf
<1>4. QED
  BY <1>2, <1>3, PlacesKept DEF t

LEMMA ReserveSited == ASSUME Inv, Sited, NEW m \in Macs, Reserve(m) PROVE Sited'
<1> DEFINE c == ReservedAs(m, site.clients[m])
           after == [site EXCEPT !.clients[m] = c]
           can == IF m \in Known(read) THEN PutTaken(m) ELSE site.clients[m] = None
<1>1. PICK answer \in Answers : Mutate(can, after, answer) /\ Continue(m, answer)
  <2>1. after = [site EXCEPT !.clients[m] = ReservedAs(m, @)]
    OBVIOUS
  <2>2. QED
    BY <2>1 DEF Reserve
<1>2. SiteOK(site) /\ TypeOK /\ PlacesOK(site) /\ pc = "reserve" /\ can \in BOOLEAN
  BY DEF Inv, TypeOK, Sited, Reserve, PutTaken
<1> HIDE DEF c
<1>3. PlacesOK(after)
  BY <1>2, ClientPlaces
<1> HIDE DEF after, can
<1>4. pc' # "pruneNets"
  BY <1>1, <1>2 DEF Continue, End
<1>5. QED
  BY <1>1, <1>2, <1>3, <1>4, MutateSited

LEMMA ClearSited == ASSUME Inv, Sited, NEW m \in Macs, ClearReservation(m) PROVE Sited'
<1> DEFINE c == [site.clients[m] EXCEPT !.fixed = FALSE]
           after == IF site.clients[m] = None THEN site ELSE Cleared(site, m)
<1>1. PICK answer \in Answers : Mutate(PutTaken(m), after, answer) /\ Continue(m, answer)
  BY DEF ClearReservation
<1>2. SiteOK(site) /\ TypeOK /\ PlacesOK(site) /\ pc = "clear" /\ PutTaken(m) \in BOOLEAN
  BY DEF Inv, TypeOK, Sited, ClearReservation, PutTaken
<1>3. PlacesOK(after)
  <2>1. Cleared(site, m) = [site EXCEPT !.clients[m] = c]
    BY DEF Cleared
  <2> HIDE DEF c
  <2>2. PlacesOK(Cleared(site, m))
    BY <1>2, <2>1, ClientPlaces
  <2>3. QED
    BY <1>2, <2>2
<1> HIDE DEF after
<1>4. pc' # "pruneNets"
  BY <1>1, <1>2 DEF Continue, End
<1>5. QED
  BY <1>1, <1>2, <1>3, <1>4, MutateSited

LEMMA PruneNetworksSited == ASSUME Sited, PruneNetworks PROVE Sited'
<1>1. todo' \cap Builtin = {} /\ site' = site
  BY DEF PruneNetworks, Quick
<1>2. QED
  BY <1>1 DEF Sited, PlacesOK, NetsOf

LEMMA UnapprovedSited == ASSUME Sited, NEW key, Unapproved(key) PROVE Sited'
<1>1. site' = site
  BY DEF Unapproved
<1>2. (pc' = pc /\ todo' = todo \ {key}) \/ pc' = "stopped"
  BY DEF Unapproved, End
<1>3. QED
  BY <1>1, <1>2, StaysSited

LEMMA RunStepSited == ASSUME Inv, Sited, RunStep PROVE Sited'
<1>1. CASE StartSteps \/ SkipMDNS \/ ScopeUnreadable \/ ScopeRead
  <2>1. Quick /\ pc' \in {"mdns", "networks", "failed", "writeScope"}
    BY <1>1 DEF StartSteps, SkipMDNS, ScopeUnreadable, ScopeRead, After, End
  <2>2. QED
    BY <2>1, QuickSited
<1>2. CASE ReadNetworks \/ EndNetworks
  <2>1. (Quick \/ Get) /\ pc' \in {"writeNets", "reservations"}
    BY <1>2 DEF ReadNetworks, EndNetworks, After
  <2>2. QED
    BY <2>1, QuickSited
<1>3. ASSUME NEW n \in Nets, NetworkOK(n) PROVE Sited'
  <2>1. Quick /\ pc' = "writeNets"
    BY <1>3 DEF NetworkOK
  <2>2. QED
    BY <2>1, QuickSited
<1>4. ASSUME NEW n \in Nets, RefuseNetwork(n) PROVE Sited'
  BY <1>4, UnapprovedSited DEF RefuseNetwork
<1>5. CASE SkipReservations \/ RefuseReservations \/ ReadClients \/ ReadPlaces
             \/ BeginClear \/ EndReservations
  <2>1. (Quick \/ Get) /\ pc' \in {"done", "failed", "places", "reserve", "clear"}
    BY <1>5 DEF SkipReservations, RefuseReservations, ReadClients, ReadPlaces, BeginClear,
                EndReservations, After, End
  <2>2. QED
    BY <2>1, QuickSited
<1>6. ASSUME NEW m \in Macs, UnknownNetwork(m) \/ ReservationOK(m) PROVE Sited'
  <2>1. Quick /\ pc' \in {"reserve", "failed"}
    BY <1>6 DEF UnknownNetwork, ReservationOK, End
  <2>2. QED
    BY <2>1, QuickSited
<1>7. ASSUME NEW m \in Macs, RefuseClear(m) PROVE Sited'
  BY <1>7, UnapprovedSited DEF RefuseClear
<1>8. CASE FinishPlan
  <2>1. site' = site /\ pc = "done"
    BY <1>8 DEF FinishPlan
  <2>2. pc' # "pruneNets"
    BY <1>8 DEF FinishPlan, End, BeginPass
  <2>3. QED
    BY <2>1, <2>2, StaysSited
<1>9. CASE TakeSnapshot
  <2>1. site' = site /\ pc' # "pruneNets"
    BY <1>9 DEF TakeSnapshot, End, BeginPass
  <2>2. QED
    BY <2>1, StaysSited
<1>10. CASE FinishWrite
  <2>1. Quick /\ pc' = "applied"
    BY <1>10 DEF FinishWrite, End
  <2>2. QED
    BY <2>1, QuickSited
<1>11. QED
  BY <1>1, <1>2, <1>3, <1>4, <1>5, <1>6, <1>7, <1>8, <1>9, <1>10, WriteScopeSited,
     PruneNetworksSited, WriteNetworkSited, DeleteNetworkSited, ReserveSited, ClearSited
     DEF RunStep

LEMMA HappenSited ==
  ASSUME Sited, NEW after, Happen(after), PlacesOK(after) PROVE Sited'
<1>1. site' = after /\ pc' = pc /\ todo' = todo
  BY DEF Happen, reading
<1>2. QED
  BY <1>1, SitedKept

\* A client is only ever seen on a network that is there.
LEMMA SeenPlaces ==
  ASSUME NEW s, SiteOK(s), PlacesOK(s), NEW m \in Macs, NEW x \in NetsOf(s) \cup {None, Gone}
  PROVE  SiteOK([s EXCEPT !.seen[m] = x]) /\ PlacesOK([s EXCEPT !.seen[m] = x])
<1> DEFINE ss == [s.seen EXCEPT ![m] = x]
           t == [s EXCEPT !.seen[m] = x]
<1>1. ss[m] = x /\ \A y \in Macs \ {m} : ss[y] = s.seen[y]
  BY SiteParts
<1>2. t = [s EXCEPT !.seen = ss]
  OBVIOUS
<1>3. SiteOK(t)
  <2>1. x \in Nets \cup {None, Gone}
    BY DEF NetsOf
  <2>2. QED
    BY <2>1, SetSeen
<1> HIDE DEF ss, t
<1>4. t.nets = s.nets /\ t.seen = ss
  BY <1>2, SiteParts
<1>5. NetsOf(t) = NetsOf(s)
  BY <1>4 DEF NetsOf
<1>6. PlacesOK(t)
  BY <1>1, <1>4, <1>5 DEF PlacesOK
<1>7. QED
  BY <1>3, <1>6 DEF t

LEMMA OutsideSited == ASSUME Inv, Sited, Outside PROVE Sited'
<1>1. SiteOK(site) /\ PlacesOK(site)
  BY DEF Inv, TypeOK, Sited
<1>2. ASSUME NEW m \in Macs, Roam(m) PROVE Sited'
  <2>1. PICK n \in NetsOf(site) : Happen([site EXCEPT !.seen[m] = n])
    BY <1>2 DEF Roam
  <2>2. PlacesOK([site EXCEPT !.seen[m] = n])
    BY <1>1, SeenPlaces
  <2>3. QED
    BY <2>1, <2>2, HappenSited
<1>3. ASSUME NEW m \in Macs, Appear(m) PROVE Sited'
  <2> DEFINE c == [fixed |-> FALSE, ip |-> None, net |-> None, name |-> None]
  <2>1. PICK n \in NetsOf(site) : Happen([site EXCEPT !.seen[m] = n, !.clients[m] = c])
    BY <1>3 DEF Appear
  <2> DEFINE moved == [site EXCEPT !.seen[m] = n]
             after == [moved EXCEPT !.clients[m] = c]
  <2>2. Happen(after)
    BY <2>1
  <2>3. SiteOK(moved) /\ PlacesOK(moved)
    BY <1>1, SeenPlaces
  <2> HIDE DEF c, moved
  <2>4. PlacesOK(after)
    BY <2>3, ClientPlaces
  <2> HIDE DEF after
  <2>5. QED
    BY <2>2, <2>4, HappenSited
<1>4. ASSUME NEW m \in Macs, Forget(m) PROVE Sited'
  <2> DEFINE moved == [site EXCEPT !.clients[m] = None]
             after == [moved EXCEPT !.seen[m] = None]
  <2>1. Happen(after)
    BY <1>4 DEF Forget
  <2>2. SiteOK(moved) /\ PlacesOK(moved)
    BY <1>1, SetClient, ClientPlaces
  <2> HIDE DEF moved
  <2>3. PlacesOK(after)
    BY <2>2, SeenPlaces
  <2> HIDE DEF after
  <2>4. QED
    BY <2>1, <2>3, HappenSited
<1>5. ASSUME NEW m \in Macs, EditReservation(m) PROVE Sited'
  <2>1. ASSUME NEW i \in IPs, Happen([site EXCEPT !.clients[m].fixed = TRUE, !.clients[m].ip = i])
        PROVE  Sited'
    <3> DEFINE given == [site EXCEPT !.clients[m] = [site.clients[m] EXCEPT !.fixed = TRUE]]
               after == [given EXCEPT !.clients[m] = [given.clients[m] EXCEPT !.ip = i]]
    <3>1. Happen(after)
      BY <2>1
    <3>2. given.nets = site.nets /\ given.seen = site.seen
      <4> DEFINE cs == [site.clients EXCEPT ![m] = [site.clients[m] EXCEPT !.fixed = TRUE]]
      <4>1. given = [site EXCEPT !.clients = cs]
        OBVIOUS
      <4> HIDE DEF cs, given
      <4>2. QED
        BY <1>1, <4>1, SiteParts
    <3>3. after.nets = site.nets /\ after.seen = site.seen
      <4> DEFINE c == [given.clients[m] EXCEPT !.ip = i]
      <4> HIDE DEF given, c
      <4>1. QED
        BY <3>2
    <3> HIDE DEF after
    <3>4. NetsOf(after) = NetsOf(site)
      BY <3>3 DEF NetsOf
    <3>5. PlacesOK(after)
      BY <1>1, <3>3, <3>4, PlacesKept
    <3>6. QED
      BY <3>1, <3>5, HappenSited
  <2>2. ASSUME Happen([site EXCEPT !.clients[m].fixed = FALSE]) PROVE Sited'
    <3> DEFINE c == [site.clients[m] EXCEPT !.fixed = FALSE]
    <3>1. Happen([site EXCEPT !.clients[m] = c])
      BY <2>2
    <3> HIDE DEF c
    <3>2. PlacesOK([site EXCEPT !.clients[m] = c])
      BY <1>1, ClientPlaces
    <3>3. QED
      BY <3>1, <3>2, HappenSited
  <2>3. QED
    BY <1>5, <2>1, <2>2 DEF EditReservation
<1>6. CASE EditScope
  <2>1. PICK x \in Scopes \cup {Unreadable} : Happen([site EXCEPT !.scope = x])
    BY <1>6 DEF EditScope
  <2> DEFINE after == [site EXCEPT !.scope = x]
  <2>2. after.nets = site.nets /\ after.seen = site.seen
    BY <1>1, SiteParts
  <2>3. Happen(after)
    BY <2>1
  <2> HIDE DEF after
  <2>4. NetsOf(after) = NetsOf(site)
    BY <2>2 DEF NetsOf
  <2>5. PlacesOK(after)
    BY <1>1, <2>2, <2>4, PlacesKept
  <2>6. QED
    BY <2>3, <2>5, HappenSited
<1>7. ASSUME NEW n \in Nets, EditNetwork(n) PROVE Sited'
  <2>1. ASSUME NEW f \in Flags, Happen([site EXCEPT !.nets[n] = f]) PROVE Sited'
    <3>1. f # None
      BY KeysApart
    <3>2. QED
      BY <1>1, <2>1, <3>1, FlagPlaces, HappenSited
  <2>2. ASSUME Happen(DropNetwork(site, n)), n \notin Builtin PROVE Sited'
    BY <1>1, <2>2, DropPlaces, HappenSited
  <2>3. QED
    BY <1>7, <2>1, <2>2 DEF EditNetwork
<1>8. QED
  BY <1>2, <1>3, <1>4, <1>5, <1>6, <1>7 DEF Outside

LEMMA NextSited == ASSUME Inv, Sited, [Next]_vars PROVE Sited'
<1>1. CASE StartSync \/ StartRestore
  <2>1. site' = site /\ pc' = "start"
    BY <1>1 DEF StartSync, StartRestore, Launch, BeginPass
  <2>2. QED
    BY <2>1, StaysSited
<1>2. CASE Kill
  <2>1. site' = site /\ pc' = "killed"
    BY <1>2 DEF Kill, End
  <2>2. QED
    BY <2>1, StaysSited
<1>3. CASE UNCHANGED vars
  BY <1>3, StaysSited DEF vars, reading
<1>4. QED
  BY <1>1, <1>2, <1>3, RunStepSited, OutsideSited DEF Next

-----------------------------------------------------------------------------
(* The plan is carried out *)

\* A run works on one document; only a snapshot changes the files.
LEMMA SameDocument ==
  ASSUME RunStep \/ Kill
  PROVE  /\ UNCHANGED <<doc, opts, restoring, disturbed>>
         /\ TakeSnapshot \/ (UNCHANGED <<saved, before>> /\ (pc' = "snapshot" => opts.snapshotDir))
<1> DEFINE Stays == /\ UNCHANGED <<doc, opts, restoring, disturbed>>
                    /\ UNCHANGED <<saved, before>>
                    /\ pc' = "snapshot" => opts.snapshotDir
<1>1. CASE StartSteps \/ SkipMDNS \/ ScopeUnreadable \/ ScopeRead \/ PruneNetworks \/ EndNetworks
             \/ SkipReservations \/ RefuseReservations \/ BeginClear \/ EndReservations
             \/ FinishWrite
  <2>1. Quick
    BY <1>1 DEF StartSteps, SkipMDNS, ScopeUnreadable, ScopeRead, PruneNetworks, EndNetworks,
                SkipReservations, RefuseReservations, BeginClear, EndReservations, FinishWrite
  <2>2. pc' \in {"mdns", "failed", "networks", "writeScope", "pruneNets", "reservations", "clear",
                 "done", "applied"}
    BY <1>1 DEF StartSteps, SkipMDNS, ScopeUnreadable, ScopeRead, PruneNetworks, EndNetworks,
                SkipReservations, RefuseReservations, BeginClear, EndReservations, FinishWrite,
                After, End
  <2>3. Stays
    BY <2>1, <2>2, QuickFacts
  <2>4. QED
    BY <2>3
<1>2. CASE ReadNetworks \/ ReadClients \/ ReadPlaces
  <2>1. Get /\ pc' \in {"writeNets", "places", "reserve"}
    BY <1>2 DEF ReadNetworks, ReadClients, ReadPlaces
  <2>2. Stays
    BY <2>1, GetFacts
  <2>3. QED
    BY <2>2
<1>3. ASSUME NEW n \in Nets, NetworkOK(n) \/ WriteNetwork(n) \/ DeleteNetwork(n)
      PROVE  Stays
  <2>1. Step /\ pc' \in {"writeNets", "pruneNets", "failed"}
    BY <1>3 DEF NetworkOK, WriteNetwork, DeleteNetwork, Quick, Continue, End
  <2>2. QED
    BY <2>1, StepFacts
<1>4. ASSUME NEW m \in Macs,
             UnknownNetwork(m) \/ ReservationOK(m) \/ Reserve(m) \/ ClearReservation(m)
      PROVE  Stays
  <2>1. Step /\ pc' \in {"reserve", "clear", "failed"}
    BY <1>4 DEF UnknownNetwork, ReservationOK, Reserve, ClearReservation, Quick, Continue, End
  <2>2. QED
    BY <2>1, StepFacts
<1>5. ASSUME NEW k, Unapproved(k), pc \in {"pruneNets", "clear"} PROVE Stays
  BY <1>5 DEF Unapproved, input, files, End
<1>6. CASE WriteScope
  <2>1. Step /\ pc' \in {"networks", "failed"}
    BY <1>6 DEF WriteScope, After, End
  <2>2. Stays
    BY <2>1, StepFacts
  <2>3. QED
    BY <2>2
<1>7. CASE FinishPlan
  BY <1>7 DEF FinishPlan, input, files, End, BeginPass
<1>8. CASE TakeSnapshot \/ Kill
  BY <1>8 DEF TakeSnapshot, Kill, input, files, End
<1>9. QED
  BY <1>1, <1>2, <1>3, <1>4, <1>5, <1>6, <1>7, <1>8 DEF RunStep, RefuseNetwork, RefuseClear

LEMMA RunStepWorks ==
  ASSUME Inv, Sited, Vetted, Works, ~OnPrunedNetwork, RunStep PROVE Works'
<1>1. CASE StartSteps \/ SkipMDNS \/ ScopeUnreadable \/ ScopeRead \/ WriteScope
  BY <1>1, StartStepsWorks, SkipMDNSWorks, ScopeUnreadableWorks, ScopeReadWorks, WriteScopeWorks
<1>2. CASE ReadNetworks \/ PruneNetworks \/ EndNetworks
  BY <1>2, ReadNetworksWorks, PruneNetworksWorks, EndNetworksWorks
<1>3. CASE \E n \in Nets : NetworkOK(n) \/ WriteNetwork(n) \/ DeleteNetwork(n) \/ RefuseNetwork(n)
  BY <1>3, NetworkOKWorks, WriteNetworkWorks, DeleteNetworkWorks, RefuseNetworkWorks
<1>4. CASE SkipReservations \/ RefuseReservations \/ ReadClients \/ ReadPlaces
             \/ BeginClear \/ EndReservations
  BY <1>4, SkipReservationsWorks, RefuseReservationsWorks, ReadClientsWorks, ReadPlacesWorks,
     BeginClearWorks, EndReservationsWorks
<1>5. CASE \E m \in Macs : \/ UnknownNetwork(m) \/ ReservationOK(m) \/ Reserve(m)
                           \/ ClearReservation(m) \/ RefuseClear(m)
  BY <1>5, UnknownNetworkWorks, ReservationOKWorks, ReserveWorks, ClearReservationWorks,
     RefuseClearWorks
<1>6. CASE FinishPlan \/ TakeSnapshot \/ FinishWrite
  BY <1>6, FinishPlanWorks, TakeSnapshotWorks, FinishWriteWorks
<1>7. QED
  BY <1>1, <1>2, <1>3, <1>4, <1>5, <1>6 DEF RunStep

LEMMA StutterWorks == ASSUME UNCHANGED vars, Works PROVE Works'
<1>1. UNCHANGED <<site, doc, opts, pass, pc, read, todo, lines, planned, stale, faults>>
  BY DEF vars, input, reading, plan
<1>2. \A k : Off(k)' <=> Off(k)
  BY <1>1 DEF Off
<1>3. DeclaredNets' = DeclaredNets /\ DeclaredMacs' = DeclaredMacs
  BY <1>1 DEF DeclaredNets, DeclaredMacs
<1>4. Open' = Open /\ (Running' <=> Running)
  BY <1>1, <1>3 DEF Open, Running
<1>5. /\ Readable' <=> Readable
      /\ Resolved' <=> Resolved
      /\ \A n : Nameable(n)' <=> Nameable(n)
  BY <1>1, ChecksKept
<1>6. Current'
  BY <1>1, <1>2, <1>3 DEF Works, Current
<1>7. Checked'
  BY <1>1, <1>3, <1>4, <1>5 DEF Works, Checked
<1>8. Exact'
  BY <1>1, <1>2, <1>4 DEF Works, Exact
<1>9. Smooth'
  BY <1>1 DEF Works, Smooth
<1>10. QED
  BY <1>6, <1>7, <1>8, <1>9 DEF Works

LEMMA NextFaithful == ASSUME Inv, Sited, Vetted, Faithful, [Next]_vars PROVE Faithful'
<1>1. ASSUME UNCHANGED <<doc, opts, disturbed>>, Works /\ ~OnPrunedNetwork => Works'
      PROVE  Faithful'
  <2>1. OnPrunedNetwork' <=> OnPrunedNetwork
    BY <1>1 DEF OnPrunedNetwork, DeclaredMacs, DeclaredNets
  <2>2. QED
    BY <1>1, <2>1 DEF Faithful, Calm
<1>2. CASE StartSync \/ StartRestore
  BY <1>2, LaunchWorks DEF StartSync, StartRestore, Faithful
<1>3. CASE RunStep \/ Kill
  <2>1. Works /\ ~OnPrunedNetwork => Works'
    BY <1>3, RunStepWorks, KillWorks
  <2>2. UNCHANGED <<doc, opts, disturbed>>
    BY <1>3, SameDocument
  <2>3. QED
    BY <1>1, <2>1, <2>2
<1>4. CASE Outside
  BY <1>4, OutsideInv DEF Faithful, Calm
<1>5. CASE UNCHANGED vars
  <2>1. UNCHANGED <<doc, opts, disturbed>>
    BY <1>5 DEF vars, input
  <2>2. QED
    BY <1>1, <1>5, <2>1, StutterWorks
<1>6. QED
  BY <1>2, <1>3, <1>4, <1>5 DEF Next

LEMMA FaithfulInit == Init => Sited /\ Vetted /\ Faithful
<1> SUFFICES ASSUME Init PROVE Sited /\ Vetted /\ Faithful
  OBVIOUS
<1>1. /\ site \in Sites /\ pass = "plan" /\ pc = "idle" /\ lines = {} /\ stale = {}
  BY DEF Init
<1>2. Sited
  BY <1>1, PlacesAssumption DEF Sited, PlacesOK
<1>3. Vetted
  BY <1>1 DEF Vetted
<1>4. Works
  BY <1>1 DEF Works, Current, Checked, Exact, Smooth, Running, Endings
<1>5. QED
  BY <1>2, <1>3, <1>4 DEF Faithful

LEMMA AlwaysFaithful == Spec => [](Inv /\ Sited /\ Vetted /\ Faithful)
<1> DEFINE All == Inv /\ Sited /\ Vetted /\ Faithful
<1>1. Init => All
  BY InitInv, FaithfulInit
<1>2. All /\ [Next]_vars => All'
  BY NextInv, NextSited, NextVetted, NextFaithful
<1>3. QED
  BY <1>1, <1>2, PTL DEF Spec

\* Where nothing is wrong, the console is what the document asks for.
LEMMA NothingOff ==
  ASSUME \A k \in Keys : ~Off(k)
  PROVE  Settled(doc, opts)
<1>1. doc.mdns # None => site.scope = doc.mdns
  BY DEF Keys, Off, Wrong, WrongScope
<1>2. ASSUME NEW n \in Nets
      PROVE  IF doc.nets[n] # None THEN site.nets[n] = doc.nets[n]
             ELSE opts.prune /\ "networks" \in doc.sections /\ n \notin Builtin
                  => site.nets[n] = None
  BY NetOff DEF DeclaredNets
<1>3. ASSUME "reservations" \in doc.sections, NEW m \in Macs
      PROVE  IF doc.res[m] = None THEN opts.prune => m \notin Reserved(site)
             ELSE SameIn(site, doc, m)
  BY <1>3, MacOff DEF DeclaredMacs
<1>4. QED
  BY <1>1, <1>2, <1>3 DEF Settled, SameIn

\* The whole plan is worked out before anything is written (README.md:442-445):
\* unless something happens on the console, or the document prunes the network
\* of a reservation it declares, the writing pass writes no line that was not
\* planned, fails only for a request that fails, and leaves the console as
\* declared when it ends; for all documents, consoles and orders of requests.
THEOREM PlanCarriedOut == Spec => []PlanIsCarriedOut
<1>1. ASSUME Inv, Faithful PROVE PlanIsCarriedOut
  <2> SUFFICES ASSUME Calm, pass = "write"
               PROVE  /\ lines \subseteq planned
                      /\ pc # "stopped" /\ (pc = "failed" => faults > 0)
                      /\ pc = "applied" => lines = planned /\ Settled(doc, opts)
    BY DEF PlanIsCarriedOut, CarriesOutPlan, Calm
  <2>1. Works
    BY <1>1 DEF Faithful
  <2>2. pc = "applied" => Settled(doc, opts)
    BY <2>1, NothingOff DEF Works, Exact
  <2>3. QED
    BY <2>1, <2>2 DEF Works, Exact, Smooth
<1>2. QED
  BY <1>1, AlwaysFaithful, PTL

-----------------------------------------------------------------------------
(***************************************************************************)
(* A restore puts back what the snapshot's run found.                      *)
(***************************************************************************)

\* The console before the snapshot's run is what the snapshot says, as long as
\* only runs have touched it; and a restore works on the newest snapshot.
Kept ==
  /\ pc = "snapshot" => opts.snapshotDir
  /\ before # None =>
       /\ ~disturbed /\ before \in Site /\ PlacesOK(before)
       /\ saved.nets = before.nets /\ "networks" \in saved.sections
       /\ saved.mdns # None => saved.mdns = before.scope
       /\ "reservations" \in saved.sections => saved.res = Exported(before)
  /\ restoring => doc = saved /\ opts = [prune |-> TRUE, force |-> TRUE, snapshotDir |-> FALSE]

LEMMA KeptStays ==
  ASSUME Kept, UNCHANGED <<doc, opts, restoring, disturbed, saved, before>>,
         pc' = "snapshot" => opts.snapshotDir
  PROVE  Kept'
BY DEF Kept

LEMMA TakeSnapshotKept == ASSUME Inv, Sited, Kept, TakeSnapshot PROVE Kept'
<1>1. /\ pc = "snapshot" /\ opts.snapshotDir /\ UNCHANGED <<doc, opts, restoring, disturbed>>
      /\ site' = site
  BY DEF TakeSnapshot, Kept, input
<1>2. CASE doc.mdns # None /\ site.scope = Unreadable
  <2>1. UNCHANGED <<saved, before>> /\ pc' = "failed"
    BY <1>2 DEF TakeSnapshot, End, files
  <2>2. QED
    BY <1>1, <2>1, KeptStays
<1>3. CASE ~(doc.mdns # None /\ site.scope = Unreadable)
  <2>1. saved' = Snapshot /\ before' = (IF disturbed THEN None ELSE site) /\ pc' = "start"
    BY <1>3 DEF TakeSnapshot, BeginPass
  <2>2. ~restoring
    BY <1>1 DEF Kept
  <2>3. /\ Snapshot.nets = site.nets /\ "networks" \in Snapshot.sections
        /\ Snapshot.mdns # None => Snapshot.mdns = site.scope
        /\ "reservations" \in Snapshot.sections => Snapshot.res = Exported(site)
    BY DEF Snapshot
  <2>4. site \in Site /\ PlacesOK(site)
    BY DEF Inv, TypeOK, SiteOK, Sited
  <2>5. ASSUME before' # None
        PROVE  /\ ~disturbed' /\ before' \in Site /\ PlacesOK(before')
               /\ saved'.nets = before'.nets /\ "networks" \in saved'.sections
               /\ saved'.mdns # None => saved'.mdns = before'.scope
               /\ "reservations" \in saved'.sections => saved'.res = Exported(before')
    <3>1. ~disturbed /\ before' = site
      BY <2>1, <2>5
    <3>2. QED
      BY <1>1, <2>1, <2>3, <2>4, <3>1
  <2>6. QED
    BY <1>1, <2>1, <2>2, <2>5 DEF Kept
<1>4. QED
  BY <1>2, <1>3

LEMMA NextKept == ASSUME Inv, Sited, Kept, [Next]_vars PROVE Kept'
<1>1. ASSUME NEW d, NEW o, NEW b, Launch(d, o, b),
             b => d = saved /\ o = [prune |-> TRUE, force |-> TRUE, snapshotDir |-> FALSE]
      PROVE  Kept'
  <2>1. /\ pc' = "start" /\ doc' = d /\ opts' = o /\ restoring' = b /\ disturbed' = FALSE
        /\ UNCHANGED <<saved, before>>
    BY <1>1, BeginPassFacts DEF Launch, files
  <2>2. QED
    BY <1>1, <2>1 DEF Kept
<1>2. CASE StartSync \/ StartRestore
  BY <1>1, <1>2 DEF StartSync, StartRestore
<1>3. CASE RunStep \/ Kill
  BY <1>3, SameDocument, TakeSnapshotKept, KeptStays
<1>4. ASSUME NEW after, Happen(after) PROVE Kept'
  <2>1. before' = None /\ UNCHANGED <<doc, opts, restoring, saved, pc>>
    BY <1>4 DEF Happen, input
  <2>2. QED
    BY <2>1 DEF Kept
<1>5. CASE Outside
  <2>1. \E after : Happen(after)
    BY <1>5 DEF Outside, Roam, Appear, Forget, EditReservation, EditScope, EditNetwork
  <2>2. QED
    BY <1>4, <2>1
<1>6. CASE UNCHANGED vars
  <2>1. UNCHANGED <<doc, opts, restoring, disturbed, saved, before, pc>>
    BY <1>6 DEF vars, input, files
  <2>2. QED
    BY <2>1 DEF Kept
<1>7. QED
  BY <1>2, <1>3, <1>5, <1>6 DEF Next

LEMMA AlwaysKept == Spec => []Kept
<1> DEFINE All == Inv /\ Sited /\ Vetted /\ Faithful
<1>1. Init => Kept
  BY DEF Init, Kept
<1>2. All /\ Kept /\ [Next]_vars => Kept'
  BY NextKept
<1>3. QED
  BY <1>1, <1>2, AlwaysFaithful, PTL DEF Spec

\* A snapshot keeps every network its reservations are on.
LEMMA SnapshotCalm ==
  ASSUME Kept, restoring, before # None PROVE Calm
<1>1. ~disturbed /\ doc.nets = before.nets
  BY DEF Kept
<1>2. ASSUME "reservations" \in doc.sections, NEW m \in DeclaredMacs
      PROVE  doc.res[m].net \in DeclaredNets
  <2>1. doc.res = Exported(before) /\ m \in Macs /\ doc.res[m] # None
    BY <1>2 DEF Kept, DeclaredMacs
  <2>2. doc.res[m].net = NetworkName(before, m) /\ NetworkName(before, m) # None
    BY <2>1 DEF Exported
  <2>3. NetworkName(before, m) \in NetsOf(before)
    BY <2>2 DEF NetworkName
  <2>4. QED
    BY <1>1, <2>2, <2>3 DEF NetsOf, DeclaredNets
<1>3. QED
  BY <1>1, <1>2 DEF Calm, OnPrunedNetwork

\* Undo (README, "Restoring"): `restore --prune --force` of a run's snapshot
\* puts back the networks, the scope and every reservation that has a network
\* to name, and gives up those there were not, however the run ended and
\* whatever it was asked to do; for all documents and consoles.
THEOREM RestoreUndoes == Spec => []UndoRestores
<1>1. ASSUME Inv, Faithful, Kept PROVE UndoRestores
  <2> SUFFICES ASSUME restoring, before # None, pc \in {"clean", "applied"}
               PROVE  /\ site.nets = before.nets
                      /\ doc.mdns # None => site.scope = before.scope
                      /\ "reservations" \in doc.sections => \A m \in Macs :
                           /\ Exported(before)[m] # None =>
                                /\ Exported(site)[m] # None
                                /\ Exported(site)[m].ip = Exported(before)[m].ip
                                /\ Exported(site)[m].net = Exported(before)[m].net
                           /\ m \notin Reserved(before) => m \notin Reserved(site)
    BY DEF UndoRestores
  <2>1. Settled(doc, opts)
    <3>1. Works
      BY <1>1, SnapshotCalm DEF Faithful
    <3>2. QED
      BY <3>1, NothingOff DEF Works, Exact
  <2>2. /\ before \in Site /\ PlacesOK(before) /\ opts.prune
        /\ doc.nets = before.nets /\ "networks" \in doc.sections
        /\ doc.mdns # None => doc.mdns = before.scope
        /\ "reservations" \in doc.sections => doc.res = Exported(before)
    BY <1>1 DEF Kept
  <2>3. SiteOK(site) /\ site \in Site
    BY <1>1 DEF Inv, TypeOK, SiteOK
  <2>4. site.nets = before.nets
    <3>1. ASSUME NEW n \in Nets PROVE site.nets[n] = before.nets[n]
      <4>1. n \in Builtin => before.nets[n] # None
        BY <2>2 DEF PlacesOK, NetsOf
      <4>2. QED
        BY <2>1, <2>2, <4>1 DEF Settled
    <3>2. /\ site.nets \in [Nets -> Flags \cup {None}]
          /\ before.nets \in [Nets -> Flags \cup {None}]
      BY <2>2, <2>3 DEF Site
    <3>3. QED
      BY <3>1, <3>2
  <2>5. doc.mdns # None => site.scope = before.scope
    BY <2>1, <2>2 DEF Settled
  <2>6. ASSUME "reservations" \in doc.sections, NEW m \in Macs, Exported(before)[m] # None
        PROVE  /\ Exported(site)[m] # None
               /\ Exported(site)[m].ip = Exported(before)[m].ip
               /\ Exported(site)[m].net = Exported(before)[m].net
    <3>1. /\ m \in Reserved(site) /\ site.clients[m].ip = doc.res[m].ip
          /\ NetworkName(site, m) = doc.res[m].net /\ doc.res[m] = Exported(before)[m]
      BY <2>1, <2>2, <2>6 DEF Settled
    <3>2. NetworkName(site, m) # None
      BY <2>6, <3>1 DEF Exported
    <3>3. Exported(site)[m] = [ip |-> site.clients[m].ip, net |-> NetworkName(site, m),
                               name |-> site.clients[m].name]
      BY <3>1, <3>2 DEF Exported
    <3>4. Exported(site)[m] \in Entry
      <4>1. site.clients[m] \in Client /\ site.clients[m].ip # None
        BY <2>3, <3>1 DEF SiteOK, Site, Reserved, Known
      <4>2. NetworkName(site, m) \in Nets
        BY <3>2 DEF NetworkName, NetsOf
      <4>3. QED
        BY <3>3, <4>1, <4>2 DEF Client, Entry
    <3>5. QED
      BY <3>1, <3>3, <3>4, KeysApart
  <2>7. ASSUME "reservations" \in doc.sections, NEW m \in Macs \ Reserved(before)
        PROVE  m \notin Reserved(site)
    <3>1. doc.res[m] = None
      BY <2>2, <2>7 DEF Exported
    <3>2. QED
      BY <2>1, <2>2, <2>7, <3>1 DEF Settled
  <2>8. QED
    BY <2>4, <2>5, <2>6, <2>7
<1>2. QED
  BY <1>1, AlwaysFaithful, AlwaysKept, PTL
=============================================================================
