---------------------------- MODULE LegacySections ----------------------------
(***************************************************************************)
(* The two sections `unifi` keeps through the console's legacy API         *)
(* (cmd/unifi/legacy.go): the service scope of the mDNS proxy, written     *)
(* before anything else, and the DHCP reservations, written last.  Both    *)
(* hang on the networks written in between: a network takes part in mDNS   *)
(* by a flag of its own, and a reservation names the network it applies    *)
(* on.  Clients roam, connect and are forgotten while the run works from   *)
(* the lists it has read.                                                  *)
(*                                                                         *)
(* A network is known by name; the id a client record stores is the name   *)
(* while that network exists, and Gone afterwards, whatever takes its name *)
(* later.  Guards other than the list of deletions are in ReconcileRun.    *)
(***************************************************************************)
EXTENDS Integers, FiniteSets

CONSTANTS
  Macs,        \* clients, by MAC address
  IPs,         \* IPv4 addresses
  Nets,        \* network names
  Builtin,     \* networks the console owns: never pruned
  Labels,      \* display names of clients
  Scopes,      \* mDNS service scopes #MDNS can express
  Unreadable,  \* a setting the code cannot read with certainty
  None,        \* nothing there: no record, no value, not declared
  Gone,        \* the id of a network that has been deleted
  Sites,       \* the consoles a behaviour may start from
  Commands,    \* the documents, and the options `sync` may be given with each
  MaxTroubles  \* bound: failed or unanswered requests, kills, and things that
               \* happen on the console outside the runs, taken together

Flags == {"on", "off"}   \* mdnsForwardingEnabled

Client == [fixed : BOOLEAN, ip : IPs \cup {None}, net : Nets \cup {None, Gone},
           name : Labels \cup {None}]

Entry == [ip : IPs, net : Nets, name : Labels \cup {None}]

\* seen: the network stat/sta reports the client on or, failing that, the one
\* it was last on.
Site == [scope : Scopes \cup {Unreadable}, nets : [Nets -> Flags \cup {None}],
         clients : [Macs -> Client \cup {None}], seen : [Macs -> Nets \cup {None, Gone}]]

\* sections: which of the two lists the document has.
Document == [mdns : Scopes \cup {None}, nets : [Nets -> Flags \cup {None}],
             res : [Macs -> Entry \cup {None}],
             sections : SUBSET {"networks", "reservations"}, deletions : SUBSET (Nets \cup Macs)]

Option == [prune : BOOLEAN, force : BOOLEAN, snapshotDir : BOOLEAN]

ASSUME AbsentAssumption ==
  /\ None \notin Client \cup Entry \cup Flags \cup Scopes \cup Nets \cup IPs \cup Labels
  /\ Gone \notin Nets \cup {None} /\ Unreadable \notin Scopes \cup {None}
  /\ Nets \cap Macs = {} /\ "mdns" \notin Nets \cup Macs
ASSUME InputAssumption ==
  Sites \subseteq Site /\ Commands \subseteq [doc : Document, opts : Option]
ASSUME BoundAssumption == Builtin \subseteq Nets /\ MaxTroubles \in Nat

VARIABLES
  site,       \* the console
  doc, opts,  \* the document and the options of the current run
  pass,       \* "plan" | "write"
  pc,         \* where in the pass the run is, or how it ended
  read,       \* the lists the current step read
  todo,       \* names and MACs the step has not handled yet
  lines,      \* plan lines of this pass, other than OK
  unlisted,   \* prune candidates `deletions` does not approve
  saved,      \* the document in the newest snapshot
  stale,      \* clients forgotten and networks deleted since the run read their ids
  edits,      \* things that happened on the console outside the runs
  faults      \* failed requests and kills

\* History: what the properties remember.
VARIABLES
  restoring,  \* doc is a snapshot
  planned,    \* the lines of the planning pass
  disturbed,  \* something happened on the console since the run started
  before      \* the console when saved was written, while undisturbed since
              \* the start of the run that wrote it

reading == <<read, todo>>
plan    == <<lines, unlisted>>
input   == <<doc, opts, restoring>>
files   == <<saved, before>>
vars == <<site, input, pass, pc, reading, plan, files, stale, edits, faults,
          planned, disturbed>>

-----------------------------------------------------------------------------
Endings == {"idle", "clean", "refused", "applied", "failed", "stopped", "killed"}
Running == pc \notin Endings
DryRun  == pass = "plan"

NetsOf(s)     == {n \in Nets : s.nets[n] # None}
Known(s)      == {m \in Macs : s.clients[m] # None}
Reserved(s)   == {m \in Known(s) : s.clients[m].fixed}
DeclaredNets  == {n \in Nets : doc.nets[n] # None}
DeclaredMacs  == {m \in Macs : doc.res[m] # None}

\* The console keeps no id of a network it does not have, and no reservation
\* without an address.
SiteOK(s) ==
  /\ s \in Site
  /\ \A m \in Known(s) : s.clients[m].net \in NetsOf(s) \cup {None, Gone}
  /\ \A m \in Reserved(s) : s.clients[m].ip # None

ASSUME SitesAssumption == \A s \in Sites : SiteOK(s)

\* The networks the console owns exist, and so do those it reports clients on.
ASSUME PlacesAssumption ==
  \A s \in Sites : /\ Builtin \subseteq NetsOf(s)
                   /\ \A m \in Macs : s.seen[m] \in NetsOf(s) \cup {None, Gone}

\* Mutant: a client that roams takes its reservation along.
NetworkSeenOn(s, m) ==
  LET id == IF s.seen[m] = None THEN s.clients[m].net ELSE s.seen[m]
  IN  IF id \in NetsOf(s) THEN id ELSE None

\* networkName: the network the record stores, otherwise the one the client is
\* seen on. A stored id that names nothing is not replaced by the latter.
NetworkName(s, m) ==
  LET id == IF s.clients[m].net = None THEN s.seen[m] ELSE s.clients[m].net
  IN  IF id \in NetsOf(s) THEN id ELSE None

NothingRead == [nets |-> [n \in Nets |-> None], clients |-> [m \in Macs |-> None],
                seen |-> [m \in Macs |-> None]]

BeginPass(p) ==
  /\ pass' = p /\ pc' = "start"
  /\ read' = NothingRead /\ todo' = {} /\ lines' = {} /\ unlisted' = {}

End(how) == pc' = how /\ read' = NothingRead /\ todo' = {}

\* Mutant: networks before the scope.
AfterNetworksFirst(section) ==
  CASE section = "start"    -> "networks"
    [] section = "networks" -> "mdns"
    [] section = "mdns"     -> "reservations"
    [] OTHER                -> "done"

\* run: the sections in the order they are reconciled.
After(section) ==
  CASE section = "start"    -> "mdns"
    [] section = "mdns"     -> "networks"
    [] section = "networks" -> "reservations"
    [] OTHER                -> "done"

Log(verb, key) == lines' = lines \cup {<<verb, key>>}

Answers == {"done", "lost", "rejected"}

\* mutate, mutateLegacy: nothing in a planning pass; otherwise the request is
\* carried out and answered, carried out but not answered, or rejected.
Mutate(acceptable, after, answer) ==
  IF DryRun THEN answer = "done" /\ UNCHANGED <<site, faults>>
  ELSE /\ answer # "rejected" => acceptable
       /\ site' = IF answer = "rejected" THEN site ELSE after
       /\ IF answer = "done" \/ ~acceptable THEN UNCHANGED faults
          ELSE edits + faults < MaxTroubles /\ faults' = faults + 1

\* After a write to key: on with the rest, or the end of the run.
Continue(key, answer) ==
  IF answer = "done" THEN todo' = todo \ {key} /\ UNCHANGED <<pc, read>> ELSE End("failed")

Step  == UNCHANGED <<input, pass, unlisted, files, stale, edits, planned, disturbed>>
Quick == Step /\ UNCHANGED <<site, lines, faults>>

-----------------------------------------------------------------------------
(* A run starts *)

Launch(d, o, fromSnapshot) ==
  /\ ~Running
  /\ doc' = d /\ opts' = o /\ restoring' = fromSnapshot
  /\ BeginPass("plan")
  /\ planned' = {} /\ disturbed' = FALSE
  /\ stale' = {}
  /\ UNCHANGED <<site, files, edits, faults>>

StartSync == \E c \in Commands : Launch(c.doc, c.opts, FALSE)

\* `restore --prune --force` of the newest snapshot.
StartRestore ==
  saved # None /\ Launch(saved, [prune |-> TRUE, force |-> TRUE, snapshotDir |-> FALSE], TRUE)

StartSteps == pc = "start" /\ pc' = After("start") /\ Quick /\ UNCHANGED reading

-----------------------------------------------------------------------------
(* syncMDNS *)

SkipMDNS ==
  /\ pc = "mdns" /\ doc.mdns = None
  /\ pc' = After("mdns") /\ Quick /\ UNCHANGED reading

\* Refused rather than written over.
ScopeUnreadable ==
  /\ pc = "mdns" /\ doc.mdns # None /\ site.scope = Unreadable
  /\ End("failed") /\ Quick

ScopeRead ==
  /\ pc = "mdns" /\ doc.mdns # None /\ site.scope # Unreadable
  /\ pc' = IF site.scope = doc.mdns THEN After("mdns") ELSE "writeScope"
  /\ Quick /\ UNCHANGED reading

WriteScope ==
  /\ pc = "writeScope"
  /\ Log("UPDATE", "mdns")
  /\ \E answer \in Answers :
       /\ Mutate(TRUE, [site EXCEPT !.scope = doc.mdns], answer)
       /\ IF answer = "done" THEN pc' = After("mdns") /\ UNCHANGED reading ELSE End("failed")
  /\ Step

-----------------------------------------------------------------------------
(* syncNetworks, as far as the legacy sections depend on it *)

\* The console: a network that goes takes its id along.
DropNetwork(s, n) ==
  [s EXCEPT !.nets[n] = None,
            !.clients = [m \in Macs |-> IF m \in Known(s) /\ s.clients[m].net = n
                                        THEN [s.clients[m] EXCEPT !.net = Gone] ELSE s.clients[m]],
            !.seen = [m \in Macs |-> IF s.seen[m] = n THEN Gone ELSE s.seen[m]]]

\* GET of a list: the ids in it are good from here on.
Get == UNCHANGED <<site, input, pass, plan, files, edits, faults, planned, disturbed>>

ReadNetworks ==
  /\ pc = "networks"
  /\ read' = [read EXCEPT !.nets = site.nets] /\ stale' = {}
  /\ pc' = "writeNets" /\ todo' = DeclaredNets
  /\ Get

\* A PUT or DELETE addresses the network by the id read.
Alive(n) == site.nets[n] # None /\ n \notin stale

NetworkOK(n) ==
  /\ pc = "writeNets" /\ n \in todo /\ read.nets[n] = doc.nets[n]
  /\ todo' = todo \ {n} /\ Quick /\ UNCHANGED <<pc, read>>

WriteNetwork(n) ==
  /\ pc = "writeNets" /\ n \in todo /\ read.nets[n] # doc.nets[n]
  /\ Log(IF read.nets[n] = None THEN "CREATE" ELSE "UPDATE", n)
  /\ \E answer \in Answers :
       /\ Mutate(IF read.nets[n] = None THEN site.nets[n] = None ELSE Alive(n),
                 [site EXCEPT !.nets[n] = doc.nets[n]], answer)
       /\ Continue(n, answer)
  /\ Step

PruneNetworks ==
  /\ pc = "writeNets" /\ todo = {}
  /\ pc' = "pruneNets"
  /\ todo' = IF opts.prune /\ "networks" \in doc.sections
             THEN {n \in Nets : read.nets[n] # None} \ (DeclaredNets \cup Builtin) ELSE {}
  /\ Quick /\ UNCHANGED read

\* approveDeletion
Approved(key) == key \in doc.deletions \/ opts.force

DeleteNetwork(n) ==
  /\ pc = "pruneNets" /\ n \in todo /\ Approved(n)
  /\ Log("DELETE", n)
  /\ \E answer \in Answers :
       /\ Mutate(Alive(n), DropNetwork(site, n), answer)
       /\ Continue(n, answer)
  /\ Step

\* Not approved: recorded and skipped in the planning pass, the end of the run
\* in the writing pass.
Unapproved(key) ==
  /\ key \in todo /\ ~Approved(key)
  /\ IF DryRun
     THEN /\ unlisted' = unlisted \cup {key} /\ Log("DELETE", key)
          /\ todo' = todo \ {key} /\ UNCHANGED <<pc, read>>
     ELSE End("stopped") /\ UNCHANGED plan
  /\ UNCHANGED <<site, input, pass, files, stale, edits, faults, planned, disturbed>>

RefuseNetwork(n) == pc = "pruneNets" /\ Unapproved(n)

EndNetworks ==
  /\ pc = "pruneNets" /\ todo = {}
  /\ pc' = After("networks") /\ Quick /\ UNCHANGED reading

-----------------------------------------------------------------------------
(* syncReservations *)

SkipReservations ==
  /\ pc = "reservations" /\ "reservations" \notin doc.sections
  /\ pc' = After("reservations") /\ Quick /\ UNCHANGED reading

\* Mutant: nobody looks for an address declared twice.
NeverMalformed == FALSE

\* checkReservations: one address for two MACs. (That a MAC is declared once
\* is in the shape of doc.res.)
Malformed ==
  \E m1, m2 \in DeclaredMacs : m1 # m2 /\ doc.res[m1].ip = doc.res[m2].ip

RefuseReservations ==
  /\ pc = "reservations" /\ "reservations" \in doc.sections /\ Malformed
  /\ End("failed") /\ Quick

\* GET rest/user. From here on a client is known by the id read for it.
ReadClients ==
  /\ pc = "reservations" /\ "reservations" \in doc.sections /\ ~Malformed
  /\ read' = [read EXCEPT !.clients = site.clients] /\ stale' = {}
  /\ pc' = "places"
  /\ Get /\ UNCHANGED todo

\* GET rest/networkconf and stat/sta. A record that was read before its
\* network went has the id of none.
ReadPlaces ==
  /\ pc = "places"
  /\ read' = [nets |-> site.nets, seen |-> site.seen,
              clients |-> [m \in Macs |-> IF m \in Known(read) /\ read.clients[m].net \in stale
                                         THEN [read.clients[m] EXCEPT !.net = Gone]
                                         ELSE read.clients[m]]]
  /\ stale' = stale \ Nets
  /\ pc' = "reserve" /\ todo' = DeclaredMacs
  /\ Get

\* A network the run will have created stands for itself in the planning pass.
Resolvable(m) ==
  \/ doc.res[m].net \in NetsOf(read)
  \/ DryRun /\ doc.res[m].net \in DeclaredNets

UnknownNetwork(m) ==
  /\ pc = "reserve" /\ m \in todo /\ ~Resolvable(m)
  /\ End("failed") /\ Quick

\* Mutant: a record left over with use_fixedip off is taken for a reservation.
SameLeftOver(m) ==
  /\ m \in Known(read)
  /\ read.clients[m].ip = doc.res[m].ip /\ NetworkName(read, m) = doc.res[m].net
  /\ doc.res[m].name # None => read.clients[m].name = doc.res[m].name

\* reservationChanges finds none: a name left out is not compared.
Same(m) ==
  /\ m \in Reserved(read)
  /\ read.clients[m].ip = doc.res[m].ip /\ NetworkName(read, m) = doc.res[m].net
  /\ doc.res[m].name # None => read.clients[m].name = doc.res[m].name

ReservationOK(m) ==
  /\ pc = "reserve" /\ m \in todo /\ Resolvable(m) /\ Same(m)
  /\ todo' = todo \ {m} /\ Quick /\ UNCHANGED <<pc, read>>

\* A PUT merges into the record with the id read; that id may be gone.
PutTaken(m) == site.clients[m] # None /\ m \notin stale

\* Mutant: the network is stored by the name it had.
ReservedAsNamed(m, old) ==
  [fixed |-> TRUE, ip |-> doc.res[m].ip, net |-> doc.res[m].net,
   name |-> IF doc.res[m].name # None THEN doc.res[m].name
            ELSE IF old = None THEN None ELSE old.name]

\* The record after the write, made from old: a POST leaves no name if none is
\* declared, a PUT the one it had. The console stores the network id it is given.
ReservedAs(m, old) ==
  [fixed |-> TRUE, ip |-> doc.res[m].ip,
   net |-> IF doc.res[m].net \in stale THEN Gone ELSE doc.res[m].net,
   name |-> IF doc.res[m].name # None THEN doc.res[m].name
            ELSE IF old = None THEN None ELSE old.name]

\* CREATE on a MAC the console has never seen is a POST, on a known client a
\* PUT of its record, like UPDATE.
Reserve(m) ==
  /\ pc = "reserve" /\ m \in todo /\ Resolvable(m) /\ ~Same(m)
  /\ Log(IF m \in Reserved(read) THEN "UPDATE" ELSE "CREATE", m)
  /\ \E answer \in Answers :
       /\ Mutate(IF m \in Known(read) THEN PutTaken(m) ELSE site.clients[m] = None,
                 [site EXCEPT !.clients[m] = ReservedAs(m, @)], answer)
       /\ Continue(m, answer)
  /\ Step

\* With --prune: the reservations that are not declared.
Clearable == Reserved(read) \ DeclaredMacs

BeginClear ==
  /\ pc = "reserve" /\ todo = {}
  /\ pc' = "clear" /\ todo' = IF opts.prune THEN Clearable ELSE {}
  /\ Quick /\ UNCHANGED read

\* Mutant: the client is forgotten (forget-sta).
ClearedForgotten(s, m) == [s EXCEPT !.clients[m] = None]

\* use_fixedip is switched off; the record stays.
Cleared(s, m) == [s EXCEPT !.clients[m].fixed = FALSE]

ClearReservation(m) ==
  /\ pc = "clear" /\ m \in todo /\ Approved(m)
  /\ Log("DELETE", m)
  /\ \E answer \in Answers :
       /\ Mutate(PutTaken(m), IF site.clients[m] = None THEN site ELSE Cleared(site, m), answer)
       /\ Continue(m, answer)
  /\ Step

RefuseClear(m) == pc = "clear" /\ Unapproved(m)

EndReservations ==
  /\ pc = "clear" /\ todo = {}
  /\ pc' = After("reservations") /\ Quick /\ UNCHANGED reading

-----------------------------------------------------------------------------
(* Between and after the passes *)

Refused == unlisted # {} /\ ~opts.force

FinishPlan ==
  /\ pc = "done" /\ DryRun
  /\ planned' = lines
  /\ IF Refused \/ lines = {}
     THEN End(IF Refused THEN "refused" ELSE "clean") /\ UNCHANGED <<pass, plan>>
     ELSE IF opts.snapshotDir
     THEN pc' = "snapshot" /\ UNCHANGED <<pass, reading, plan>>
     ELSE BeginPass("write")
  /\ UNCHANGED <<site, input, files, stale, edits, faults, disturbed>>

\* exportReservations: one that has no network to name is left out.
Exported(s) ==
  [m \in Macs |-> IF m \in Reserved(s) /\ NetworkName(s, m) # None
                  THEN [ip |-> s.clients[m].ip, net |-> NetworkName(s, m),
                        name |-> s.clients[m].name]
                  ELSE None]

\* writeSnapshot: the legacy sections are in it if the document has them.
Snapshot ==
  [mdns |-> IF doc.mdns = None THEN None ELSE site.scope,
   nets |-> site.nets,
   res |-> IF "reservations" \in doc.sections THEN Exported(site) ELSE [m \in Macs |-> None],
   sections |-> {"networks"} \cup (doc.sections \cap {"reservations"}),
   deletions |-> {}]

\* A scope that cannot be read fails the run before its first write.
TakeSnapshot ==
  /\ pc = "snapshot"
  /\ IF doc.mdns # None /\ site.scope = Unreadable
     THEN End("failed") /\ UNCHANGED <<pass, plan, files>>
     ELSE /\ saved' = Snapshot /\ before' = IF disturbed THEN None ELSE site
          /\ BeginPass("write")
  /\ UNCHANGED <<site, input, stale, edits, faults, planned, disturbed>>

FinishWrite ==
  /\ pc = "done" /\ ~DryRun
  /\ End("applied") /\ Quick

\* A failed GET, ^C, a reboot, the unit's time-out.
Kill ==
  /\ Running /\ edits + faults < MaxTroubles /\ faults' = faults + 1
  /\ End("killed")
  /\ UNCHANGED <<site, input, pass, plan, files, stale, edits, planned, disturbed>>

-----------------------------------------------------------------------------
(* What happens on the console outside the runs *)

Happen(after) ==
  /\ edits + faults < MaxTroubles /\ edits' = edits + 1
  /\ after # site /\ site' = after
  /\ disturbed' = TRUE /\ before' = None
  /\ UNCHANGED <<input, pass, pc, reading, plan, saved, faults, planned>>

\* A client moves to another network.
Roam(m) ==
  /\ m \in Known(site)
  /\ \E n \in NetsOf(site) : Happen([site EXCEPT !.seen[m] = n])
  /\ UNCHANGED stale

\* A client the console has never seen connects.
Appear(m) ==
  /\ m \notin Known(site)
  /\ \E n \in NetsOf(site) :
       Happen([site EXCEPT !.seen[m] = n,
                           !.clients[m] = [fixed |-> FALSE, ip |-> None, net |-> None, name |-> None]])
  /\ UNCHANGED stale

Forget(m) ==
  /\ m \in Known(site)
  /\ Happen([site EXCEPT !.clients[m] = None, !.seen[m] = None])
  /\ stale' = stale \cup {m}

\* Somebody reserves an address, or gives one up, in the UI.
EditReservation(m) ==
  /\ m \in Known(site)
  /\ \/ \E i \in IPs : Happen([site EXCEPT !.clients[m].fixed = TRUE, !.clients[m].ip = i])
     \/ Happen([site EXCEPT !.clients[m].fixed = FALSE])
  /\ UNCHANGED stale

EditScope ==
  /\ \E s \in Scopes \cup {Unreadable} : Happen([site EXCEPT !.scope = s])
  /\ UNCHANGED stale

EditNetwork(n) ==
  /\ n \notin Builtin
  /\ \/ /\ \E f \in Flags : Happen([site EXCEPT !.nets[n] = f])
        /\ UNCHANGED stale
     \/ Happen(DropNetwork(site, n)) /\ stale' = stale \cup {n}

-----------------------------------------------------------------------------
Init ==
  /\ site \in Sites
  /\ \E c \in Commands : doc = c.doc /\ opts = c.opts
  /\ pass = "plan" /\ pc = "idle"
  /\ read = NothingRead /\ todo = {} /\ lines = {} /\ unlisted = {}
  /\ saved = None /\ before = None
  /\ stale = {} /\ edits = 0 /\ faults = 0
  /\ restoring = FALSE /\ planned = {} /\ disturbed = FALSE

RunStep ==
  \/ StartSteps \/ SkipMDNS \/ ScopeUnreadable \/ ScopeRead \/ WriteScope
  \/ ReadNetworks \/ PruneNetworks \/ EndNetworks
  \/ \E n \in Nets : NetworkOK(n) \/ WriteNetwork(n) \/ DeleteNetwork(n) \/ RefuseNetwork(n)
  \/ SkipReservations \/ RefuseReservations \/ ReadClients \/ ReadPlaces
  \/ BeginClear \/ EndReservations
  \/ \E m \in Macs : \/ UnknownNetwork(m) \/ ReservationOK(m) \/ Reserve(m)
                     \/ ClearReservation(m) \/ RefuseClear(m)
  \/ FinishPlan \/ TakeSnapshot \/ FinishWrite

Outside ==
  \/ \E m \in Macs : Roam(m) \/ Appear(m) \/ Forget(m) \/ EditReservation(m)
  \/ EditScope
  \/ \E n \in Nets : EditNetwork(n)

Next == StartSync \/ StartRestore \/ RunStep \/ Kill \/ Outside

Spec == Init /\ [][Next]_vars

\* A run in progress goes on, and the timer starts the next one.
FairSpec == Spec /\ WF_vars(RunStep) /\ WF_vars(StartSync)

-----------------------------------------------------------------------------
(* Properties *)

Line == {"CREATE", "UPDATE", "DELETE"} \X (Nets \cup Macs \cup {"mdns"})

\* Every variable has its type, and what the runs write keeps the console sound.
TypeOK ==
  /\ SiteOK(site) /\ before \in Site \cup {None}
  /\ doc \in Document /\ opts \in Option /\ restoring \in BOOLEAN
  /\ pass \in {"plan", "write"}
  /\ pc \in Endings \cup {"start", "mdns", "writeScope", "networks", "writeNets", "pruneNets",
                          "reservations", "places", "reserve", "clear", "done", "snapshot"}
  /\ read \in [nets : [Nets -> Flags \cup {None}], clients : [Macs -> Client \cup {None}],
               seen : [Macs -> Nets \cup {None, Gone}]]
  /\ todo \subseteq Nets \cup Macs
  /\ lines \subseteq Line /\ planned \subseteq Line /\ unlisted \subseteq Nets \cup Macs
  /\ saved \in Document \cup {None}
  /\ stale \subseteq Macs \cup Nets /\ disturbed \in BOOLEAN
  /\ edits \in 0..MaxTroubles /\ faults \in 0..MaxTroubles

\* plan.go:112-114: the declared scope is in force before a network starts to
\* take part, in a run that nothing on the console disturbs; so a scope the
\* code cannot read, or a write of it that fails, starts none.
ScopeFirst ==
  [][ doc.mdns # None /\ ~disturbed' =>
        \A n \in Nets : site.nets[n] # "on" /\ site'.nets[n] = "on" => site.scope = doc.mdns ]_vars

\* legacy.go:207-213: a run gives up a reservation only with --prune, in a
\* declared section, undeclared and approved, however clients come and go
\* meanwhile; and it never forgets a client.
ClearsAreApproved ==
  [][ edits' = edits =>
        /\ Known(site) \subseteq Known(site')
        /\ \A m \in Reserved(site) \ Reserved(site') :
             /\ pass = "write" /\ opts.prune /\ "reservations" \in doc.sections
             /\ doc.res[m] = None /\ Approved(m) ]_vars

\* What document d asks of the console under options o.
Settled(d, o) ==
  /\ d.mdns # None => site.scope = d.mdns
  /\ \A n \in Nets :
       IF d.nets[n] # None THEN site.nets[n] = d.nets[n]
       ELSE o.prune /\ "networks" \in d.sections /\ n \notin Builtin => site.nets[n] = None
  /\ "reservations" \in d.sections => \A m \in Macs :
       IF d.res[m] = None THEN o.prune => m \notin Reserved(site)
       ELSE /\ m \in Reserved(site)
            /\ site.clients[m].ip = d.res[m].ip /\ NetworkName(site, m) = d.res[m].net
            /\ d.res[m].name # None => site.clients[m].name = d.res[m].name

\* README.md:442-445: the whole plan is worked out before anything is written.
\* While nothing disturbs it, the writing pass does what was planned; it fails
\* only for a request that fails; and when it ends the console is as declared.
CarriesOutPlan ==
  pass = "write" /\ ~disturbed =>
    /\ lines \subseteq planned
    /\ pc # "stopped" /\ (pc = "failed" => faults > 0)
    /\ pc = "applied" => lines = planned /\ Settled(doc, opts)

\* A reservation is declared on a network the same document prunes.
OnPrunedNetwork ==
  /\ opts.prune /\ {"networks", "reservations"} \subseteq doc.sections
  /\ \E m \in DeclaredMacs : doc.res[m].net \notin DeclaredNets \cup Builtin

\* The same, of documents that keep the networks they reserve on.
PlanIsCarriedOut == CarriesOutPlan \/ OnPrunedNetwork

\* Clients may trade addresses, one request after the other: a run that ends
\* well and prunes leaves no address reserved for two.
AddressesEndUnique ==
  /\ pc \in {"clean", "applied"} /\ ~disturbed /\ opts.prune /\ "reservations" \in doc.sections
  => \A m1, m2 \in Reserved(site) :
       m1 # m2 => site.clients[m1].ip # site.clients[m2].ip

\* Undo (README, "Restoring"): after a run that took a snapshot, however it
\* ended, `restore --prune --force` puts networks and scope back, and every
\* reservation that has a network to name; it leaves alone a section the run
\* did not manage. Display names are left out: a document without a name
\* leaves the one the client has, so a name given since stays.
UndoRestores ==
  /\ restoring /\ before # None /\ pc \in {"clean", "applied"}
  => /\ site.nets = before.nets
     /\ doc.mdns # None => site.scope = before.scope
     /\ "reservations" \in doc.sections => \A m \in Macs :
          /\ Exported(before)[m] # None =>
               /\ Exported(site)[m] # None
               /\ Exported(site)[m].ip = Exported(before)[m].ip
               /\ Exported(site)[m].net = Exported(before)[m].net
          /\ m \notin Reserved(before) => m \notin Reserved(site)

\* However runs are cut short, whatever documents came before and wherever the
\* clients roam, once the document stays the same the console becomes what it
\* says, or planning passes refuse it for ever.
EventuallySettled ==
  <>[][UNCHANGED <<doc, opts>>]_<<doc, opts>>
    => <>[]Settled(doc, opts) \/ []<>(pass = "plan" /\ pc \in {"failed", "refused"})
=============================================================================
