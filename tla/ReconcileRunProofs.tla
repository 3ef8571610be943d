-------------------------- MODULE ReconcileRunProofs --------------------------
(***************************************************************************)
(* Theorems about ReconcileRun for every value of its constants: types,    *)
(* fail-closed writes, safe deletions, and that it implements              *)
(* ConsoleContract.                                                        *)
(***************************************************************************)
EXTENDS ReconcileRun, TLAPS

USE DEF KindSet, Keys, Origins

(***************************************************************************)
(* The inductive invariant: types, and three facts each action preserves.  *)
(***************************************************************************)

\* What is left to do belongs to the list the step has read.
Pending ==
  /\ pc # "declared" => todo = {}
  /\ pc # "prune" => victims = {}
  /\ pc \in {"snapshot", "commit"} => existing = Nothing
  /\ \A n \in todo : doc.want[<<Kind, n>>] # Unset
  /\ \A i \in Ids : existing[i] # NoObject => existing[i].kind = Kind
  /\ \A i \in victims :
       /\ existing[i] # NoObject /\ existing[i].origin = "USER_DEFINED"
       /\ opts.prune /\ Kind \in doc.sections
       /\ doc.want[KeyOf(existing[i])] = Unset

\* A list may be stale, but an id never changes its kind or its owner, and
\* its name only by an edit.
Stale ==
  \A i \in Ids :
    existing[i] # NoObject /\ live[i] # NoObject =>
      /\ live[i].kind = existing[i].kind
      /\ live[i].origin = existing[i].origin
      /\ i \notin touched => live[i].name = existing[i].name

PlanPassed ==
  \/ opts.force
  \/ /\ \A l \in planned : l[1] = "DELETE" => l[2] \in doc.deletions
     /\ ~MassChange(planned)

\* Nothing is written before the plan is complete and accepted.
Guarded ==
  /\ pass # "write" => applied = {}
  /\ pass # "dry" <=> ~opts.dryRun
  /\ pass # "write" =>
       \A l \in lines : l[1] = "DELETE" => Approved(l[2]) \/ l[2] \in unlisted
  /\ pass = "write" \/ pc \in {"snapshot", "commit"} => pass # "dry" /\ PlanPassed

Inv == TypeOK /\ Pending /\ Stale /\ Guarded /\ SafeDeletions

-----------------------------------------------------------------------------
(* Facts about the state functions *)

\* The first position of Kinds exists, and a position of Kinds is a kind.
LEMMA KindFacts ==
  /\ 1 \in 1..Len(Kinds)
  /\ \A s \in 1..Len(Kinds) : Kinds[s] \in KindSet
  /\ \A s \in 1..Len(Kinds) : s < Len(Kinds) => s + 1 \in 1..Len(Kinds)
BY KindsAssumption

\* The empty console and the empty document are typed.
LEMMA EmptyFacts == Nothing \in Console /\ NoEntry \in Content
BY DEF Nothing, NoEntry, Console, Content

\* The keys of typed objects are keys.
LEMMA KeyFacts == \A o \in Object : KeyOf(o) \in Keys /\ o # NoObject
BY ObjectAssumption DEF KeyOf, Object

\* What a console holds is typed.
LEMMA ContentFacts == \A c \in Console : ContentOf(c) \in Content
<1> SUFFICES ASSUME NEW c \in Console, NEW k \in Keys
             PROVE  (IF Holders(c, k) = {} THEN Unset
                     ELSE c[CHOOSE i \in Holders(c, k) : TRUE].value) \in Values \cup {Unset}
  BY DEF ContentOf, Content
<1>1. CASE Holders(c, k) = {}
  BY <1>1
<1>2. CASE Holders(c, k) # {}
  <2>1. (CHOOSE i \in Holders(c, k) : TRUE) \in Holders(c, k)
    BY <1>2
  <2>2. PICK i \in Holders(c, k) : i = (CHOOSE j \in Holders(c, k) : TRUE)
    BY <2>1
  <2>3. c[i] \in Object
    BY DEF Holders, Present, Console
  <2>4. QED
    BY <1>2, <2>2, <2>3 DEF Object
<1>3. QED
  BY <1>1, <1>2

\* A run that ends, or starts a pass, forgets the list it worked on.
LEMMA EndFacts ==
  ASSUME NEW how \in Endings, Inv, End(how)
  PROVE  /\ pc' = how /\ step' \in 1..Len(Kinds)
         /\ existing' \in Console /\ todo' \subseteq Names /\ victims' \subseteq Ids
         /\ Pending' /\ Stale'
BY KindFacts, EmptyFacts DEF End, Pending, Stale, Nothing, Endings

LEMMA BeginPassFacts ==
  ASSUME NEW p \in {"dry", "plan", "write"}, Inv, BeginPass(p)
  PROVE  /\ pass' = p /\ pc' = "list" /\ step' \in 1..Len(Kinds)
         /\ existing' \in Console /\ todo' \subseteq Names /\ victims' \subseteq Ids
         /\ lines' = {} /\ unlisted' = {}
         /\ Pending' /\ Stale'
BY KindFacts, EmptyFacts DEF BeginPass, Pending, Stale, Nothing

-----------------------------------------------------------------------------
\* The invariant holds initially.
LEMMA InitInv == Init => Inv
<1> SUFFICES ASSUME Init PROVE Inv
  OBVIOUS
<1> USE DEF Init
<1>1. TypeOK
  BY KindFacts, EmptyFacts, SitesAssumption
     DEF TypeOK, Document, Option, Endings, Line, Request
<1>2. Pending /\ Stale
  BY DEF Pending, Stale, Nothing
<1>3. Guarded /\ SafeDeletions
  BY DEF Guarded, SafeDeletions
<1>4. QED
  BY <1>1, <1>2, <1>3 DEF Inv

\* Starting a run preserves it: everything about the last run is forgotten.
LEMMA LaunchInv ==
  ASSUME Inv, NEW d \in Document, NEW o \in Option, NEW from \in {"instance", "snapshot"},
         Launch(d, o, from)
  PROVE  Inv'
<1> USE DEF Launch
<1> DEFINE p == IF o.dryRun THEN "dry" ELSE "plan"
<1>1. BeginPass(p) /\ p \in {"dry", "plan", "write"}
  OBVIOUS
<1>2. /\ pass' = p /\ pc' = "list" /\ step' \in 1..Len(Kinds)
      /\ existing' \in Console /\ todo' \subseteq Names /\ victims' \subseteq Ids
      /\ lines' = {} /\ unlisted' = {} /\ Pending' /\ Stale'
  BY <1>1, BeginPassFacts
<1>3. TypeOK'
  BY <1>2, EmptyFacts DEF Inv, TypeOK, fileVars
<1>4. Guarded' /\ SafeDeletions'
  BY <1>2 DEF Guarded, SafeDeletions
<1>5. QED
  BY <1>2, <1>3, <1>4 DEF Inv

-----------------------------------------------------------------------------
(* One console write *)

\* A write keeps the types, and says what it can have done: nothing, or the
\* change it asked for, recorded in applied.
LEMMA MutateFacts ==
  ASSUME TypeOK, NEW verb \in {"CREATE", "UPDATE", "DELETE"}, NEW i \in Ids,
         NEW after \in Object \cup {NoObject},
         NEW answer \in {"done", "lost", "rejected"},
         Mutate(verb, i, after, answer)
  PROVE  /\ live' \in Console /\ applied' \subseteq Request /\ faults' \in Nat
         /\ \/ live' = live /\ applied' = applied
            \/ /\ pass = "write"
               /\ verb # "CREATE" => live[i] # NoObject
               /\ live' = [live EXCEPT ![i] = after]
               /\ applied' = applied \cup {[verb |-> verb, id |-> i, pre |-> live[i]]}
<1> USE DEF Mutate, DryRun
<1>1. CASE pass # "write"
  BY <1>1 DEF TypeOK
<1>2. CASE pass = "write"
  <2>1. Send(verb, i, after, answer)
    BY <1>2
  <2>2. faults' \in Nat
    BY <2>1, BoundsAssumption DEF Send, TypeOK
  <2>3. CASE answer = "rejected"
    BY <2>1, <2>2, <2>3 DEF Send, TypeOK
  <2>4. CASE answer # "rejected"
    <3>1. /\ live' = [live EXCEPT ![i] = after]
          /\ applied' = applied \cup {[verb |-> verb, id |-> i, pre |-> live[i]]}
          /\ verb # "CREATE" => live[i] # NoObject
      BY <2>1, <2>4 DEF Send, Acceptable
    <3>2. live[i] \in Object \cup {NoObject}
      BY DEF TypeOK, Console
    <3>3. live' \in Console
      BY <3>1 DEF TypeOK, Console
    <3>4. applied' \subseteq Request
      BY <3>1, <3>2 DEF TypeOK, Request
    <3>5. QED
      BY <1>2, <2>2, <3>1, <3>3, <3>4
  <2>5. QED
    BY <2>3, <2>4
<1>3. QED
  BY <1>1, <1>2

-----------------------------------------------------------------------------
(* The steps of a pass *)

LEMMA ListInv == ASSUME Inv, List PROVE Inv'
<1> USE DEF List
<1>1. TypeOK'
  BY DEF Inv, TypeOK, Console, Declared, inputVars, fileVars, editVars, Endings
<1>2. Pending'
  BY DEF Inv, TypeOK, Pending, Declared, Kind, inputVars
<1>3. Stale'
  BY DEF Inv, Stale, editVars
<1>4. Guarded' /\ SafeDeletions'
  BY DEF Inv, Guarded, SafeDeletions, PlanPassed, MassChange, Approved, inputVars, editVars
<1>5. QED
  BY <1>1, <1>2, <1>3, <1>4 DEF Inv

LEMMA EntryOKInv == ASSUME Inv, NEW n \in Names, EntryOK(n) PROVE Inv'
<1> USE DEF EntryOK
<1>1. TypeOK'
  BY DEF Inv, TypeOK, inputVars, fileVars, editVars
<1>2. Pending' /\ Stale'
  BY DEF Inv, Pending, Stale, Kind, inputVars, editVars
<1>3. Guarded' /\ SafeDeletions'
  BY DEF Inv, Guarded, SafeDeletions, PlanPassed, MassChange, Approved, inputVars, editVars
<1>4. QED
  BY <1>1, <1>2, <1>3 DEF Inv

\* Ending a run at a moment that is neither a snapshot nor a write changes
\* nothing the guards and the deletions depend on.
LEMMA EndInv ==
  ASSUME Inv, NEW how \in Endings, End(how), planned' = planned \/ PlanPassed' \/ pass # "write",
         UNCHANGED <<live, inputVars, pass, lines, unlisted, editVars, applied>>,
         planned' \subseteq Line, faults' \in Nat,
         draft' \in Content, before' \in Content, saved' \in Content \cup {NoObject}
  PROVE  Inv'
<1>1. /\ pc' = how /\ step' \in 1..Len(Kinds)
      /\ existing' \in Console /\ todo' \subseteq Names /\ victims' \subseteq Ids
      /\ Pending' /\ Stale'
  BY EndFacts
<1>2. TypeOK'
  BY <1>1 DEF Inv, TypeOK, inputVars, editVars
<1>3. Guarded' /\ SafeDeletions'
  BY <1>1 DEF Inv, Guarded, SafeDeletions, PlanPassed, MassChange, Approved, inputVars, editVars, Endings
<1>4. QED
  BY <1>1, <1>2, <1>3 DEF Inv

LEMMA EntryOpaqueInv == ASSUME Inv, NEW n \in Names, EntryOpaque(n) PROVE Inv'
BY EndInv DEF EntryOpaque, Endings, Inv, TypeOK, fileVars

\* The new object takes an id the run's list does not mention.
LEMMA CreateEntryInv == ASSUME Inv, NEW n \in Names, CreateEntry(n) PROVE Inv'
<1>1. PICK i \in Ids, answer \in {"done", "lost", "rejected"} :
        /\ live[i] = NoObject /\ existing[i] = NoObject
        /\ Mutate("CREATE", i, [kind |-> Kind, name |-> n, value |-> doc.want[<<Kind, n>>],
                                origin |-> "USER_DEFINED"], answer)
        /\ Continue(n, answer)
  BY DEF CreateEntry
<1> DEFINE new == [kind |-> Kind, name |-> n, value |-> doc.want[<<Kind, n>>],
                   origin |-> "USER_DEFINED"]
<1>2. n \in todo /\ Kind \in KindSet /\ pc = "declared"
  BY KindFacts DEF Inv, TypeOK, Kind, CreateEntry
<1>3. new \in Object
  BY <1>2 DEF Inv, TypeOK, Pending, Document, Content, Object
<1>4. /\ live' \in Console /\ applied' \subseteq Request /\ faults' \in Nat
      /\ \/ live' = live /\ applied' = applied
         \/ /\ pass = "write"
            /\ live' = [live EXCEPT ![i] = new]
            /\ applied' = applied \cup {[verb |-> "CREATE", id |-> i, pre |-> live[i]]}
  BY <1>1, <1>3, MutateFacts DEF Inv
<1>5. /\ lines' = lines \cup {<<"CREATE", <<Kind, n>>>>}
      /\ UNCHANGED <<inputVars, pass, unlisted, fileVars, editVars, planned>>
  BY DEF CreateEntry, Log
<1>6. /\ \/ /\ todo' = todo \ {n} /\ UNCHANGED <<pc, step, existing, victims>>
         \/ End("failed")
  BY <1>1 DEF Continue
<1>7. TypeOK' /\ Pending' /\ Stale'
  <2>1. CASE End("failed")
    BY <1>2, <1>4, <1>5, <2>1, EndFacts
       DEF Inv, TypeOK, Line, Endings, inputVars, fileVars, editVars
  <2>2. CASE todo' = todo \ {n} /\ UNCHANGED <<pc, step, existing, victims>>
    <3>1. TypeOK'
      BY <1>2, <1>4, <1>5, <2>2 DEF Inv, TypeOK, Line, inputVars, fileVars, editVars
    <3>2. Pending'
      BY <1>5, <2>2 DEF Inv, Pending, Kind, inputVars
    <3>3. Stale'
      BY <1>1, <1>4, <1>5, <2>2 DEF Inv, Stale, TypeOK, Console, editVars
    <3>4. QED
      BY <3>1, <3>2, <3>3
  <2>3. QED
    BY <1>6, <2>1, <2>2
<1>8. Guarded'
  BY <1>2, <1>4, <1>5, <1>6 DEF Inv, Guarded, PlanPassed, MassChange, Approved, inputVars, End
<1>9. SafeDeletions'
  BY <1>4, <1>5 DEF Inv, SafeDeletions, Approved, inputVars, editVars
<1>10. QED
  BY <1>7, <1>8, <1>9 DEF Inv

\* The update goes to an id of the list, with the kind, owner and name the
\* list has for it.
LEMMA UpdateEntryInv == ASSUME Inv, NEW n \in Names, UpdateEntry(n) PROVE Inv'
<1>1. PICK i \in Holders(existing, <<Kind, n>>), answer \in {"done", "lost", "rejected"} :
        /\ Log("UPDATE", n)
        /\ Mutate("UPDATE", i, [existing[i] EXCEPT !.value = doc.want[<<Kind, n>>]], answer)
        /\ Continue(n, answer)
  BY DEF UpdateEntry
<1> DEFINE new == [existing[i] EXCEPT !.value = doc.want[<<Kind, n>>]]
<1>2. n \in todo /\ Kind \in KindSet /\ pc = "declared"
  BY KindFacts DEF Inv, TypeOK, Kind, UpdateEntry
<1>3. i \in Ids /\ existing[i] \in Object /\ existing[i] # NoObject
  BY DEF Inv, TypeOK, Console, Holders, Present
<1>4. doc.want[<<Kind, n>>] \in Values
  BY <1>2 DEF Inv, TypeOK, Pending, Document, Content
<1>5. /\ new \in Object /\ new.kind = existing[i].kind
      /\ new.name = existing[i].name /\ new.origin = existing[i].origin
  BY <1>3, <1>4 DEF Object
<1>6. /\ live' \in Console /\ applied' \subseteq Request /\ faults' \in Nat
      /\ \/ live' = live /\ applied' = applied
         \/ /\ pass = "write"
            /\ live' = [live EXCEPT ![i] = new]
            /\ applied' = applied \cup {[verb |-> "UPDATE", id |-> i, pre |-> live[i]]}
  BY <1>1, <1>3, <1>5, MutateFacts DEF Inv
<1>7. /\ lines' = lines \cup {<<"UPDATE", <<Kind, n>>>>}
      /\ UNCHANGED <<inputVars, pass, unlisted, fileVars, editVars, planned>>
  BY <1>1 DEF UpdateEntry, Log
<1>8. \/ /\ todo' = todo \ {n} /\ UNCHANGED <<pc, step, existing, victims>>
      \/ End("failed")
  BY <1>1 DEF Continue
<1>9. TypeOK' /\ Pending' /\ Stale'
  <2>1. CASE End("failed")
    BY <1>2, <1>6, <1>7, <2>1, EndFacts
       DEF Inv, TypeOK, Line, Endings, inputVars, fileVars, editVars
  <2>2. CASE todo' = todo \ {n} /\ UNCHANGED <<pc, step, existing, victims>>
    <3>1. TypeOK'
      BY <1>2, <1>6, <1>7, <2>2 DEF Inv, TypeOK, Line, inputVars, fileVars, editVars
    <3>2. Pending'
      BY <1>7, <2>2 DEF Inv, Pending, Kind, inputVars
    <3>3. Stale'
      <4>1. existing' = existing /\ touched' = touched /\ live \in Console
        BY <1>7, <2>2 DEF Inv, TypeOK, editVars
      <4>2. Stale
        BY DEF Inv
      <4> HIDE DEF new
      <4>3. ASSUME NEW j \in Ids, existing'[j] # NoObject, live'[j] # NoObject
            PROVE  /\ live'[j].kind = existing'[j].kind
                   /\ live'[j].origin = existing'[j].origin
                   /\ j \notin touched' => live'[j].name = existing'[j].name
        <5>1. CASE live'[j] = live[j]
          BY <4>1, <4>2, <4>3, <5>1 DEF Stale
        <5>2. CASE live'[j] # live[j]
          <6>1. j = i /\ live'[j] = new
            BY <1>6, <4>1, <5>2 DEF Console
          <6>2. QED
            BY <1>5, <4>1, <6>1
        <5>3. QED
          BY <5>1, <5>2
      <4>4. QED
        BY <4>3 DEF Stale
    <3>4. QED
      BY <3>1, <3>2, <3>3
  <2>3. QED
    BY <1>8, <2>1, <2>2
<1>10. Guarded'
  BY <1>2, <1>6, <1>7, <1>8 DEF Inv, Guarded, PlanPassed, MassChange, Approved, inputVars, End
<1>11. SafeDeletions'
  BY <1>6, <1>7 DEF Inv, SafeDeletions, Approved, inputVars, editVars
<1>12. QED
  BY <1>9, <1>10, <1>11 DEF Inv

\* The candidates are undeclared objects of the list, of a declared section,
\* and not the console's own.
LEMMA BeginPruneInv == ASSUME Inv, BeginPrune PROVE Inv'
<1> USE DEF BeginPrune, Prunable
<1>1. TypeOK'
  BY DEF Inv, TypeOK, Present, inputVars, fileVars, editVars
<1>2. Pending'
  <2>1. \A i \in Ids : existing[i] # NoObject =>
          /\ existing[i].origin \in Origins /\ existing[i].name \in Names
          /\ existing[i].kind = Kind
    BY DEF Inv, TypeOK, Pending, Console, Object
  <2>2. QED
    BY <2>1 DEF Inv, Pending, Present, Declared, Kind, KeyOf, inputVars
<1>3. Stale'
  BY DEF Inv, Stale, editVars
<1>4. Guarded' /\ SafeDeletions'
  BY DEF Inv, Guarded, SafeDeletions, PlanPassed, MassChange, Approved, inputVars, editVars
<1>5. QED
  BY <1>1, <1>2, <1>3, <1>4 DEF Inv

\* A deletion meets every condition of SafeDeletions at the moment it reaches
\* the console: what the list says of owner and kind still holds (Stale), and
\* what it says of the name unless the object was edited.
LEMMA DeleteVictimInv == ASSUME Inv, NEW i \in Ids, DeleteVictim(i) PROVE Inv'
<1>1. PICK answer \in {"done", "lost", "rejected"} :
        /\ Mutate("DELETE", i, NoObject, answer)
        /\ \/ victims' = victims \ {i} /\ UNCHANGED <<pc, step, existing, todo>>
           \/ End("failed")
  BY DEF DeleteVictim
<1>2. /\ i \in victims /\ pc = "prune" /\ Approved(KeyOf(existing[i]))
      /\ lines' = lines \cup {<<"DELETE", <<Kind, existing[i].name>>>>}
      /\ UNCHANGED <<inputVars, pass, unlisted, fileVars, editVars, planned>>
  BY DEF DeleteVictim, Log
<1>3. /\ existing[i] \in Object /\ existing[i].kind = Kind
      /\ existing[i].origin = "USER_DEFINED"
      /\ opts.prune /\ Kind \in doc.sections
      /\ doc.want[KeyOf(existing[i])] = Unset
  BY <1>2 DEF Inv, TypeOK, Pending, Console
<1>4. /\ live' \in Console /\ applied' \subseteq Request /\ faults' \in Nat
      /\ \/ live' = live /\ applied' = applied
         \/ /\ pass = "write" /\ live[i] # NoObject
            /\ live' = [live EXCEPT ![i] = NoObject]
            /\ applied' = applied \cup {[verb |-> "DELETE", id |-> i, pre |-> live[i]]}
  BY <1>1, MutateFacts DEF Inv
<1>5. <<"DELETE", <<Kind, existing[i].name>>>> \in Line
  BY <1>3, KindFacts DEF Line, Object, Inv, TypeOK, Kind
<1>6. KeyOf(existing[i]) = <<Kind, existing[i].name>>
  BY <1>3 DEF KeyOf
<1>7. TypeOK' /\ Pending' /\ Stale'
  <2>1. CASE End("failed")
    BY <1>2, <1>4, <1>5, <2>1, EndFacts
       DEF Inv, TypeOK, Endings, inputVars, fileVars, editVars
  <2>2. CASE victims' = victims \ {i} /\ UNCHANGED <<pc, step, existing, todo>>
    <3>1. TypeOK'
      BY <1>2, <1>4, <1>5, <2>2 DEF Inv, TypeOK, inputVars, fileVars, editVars
    <3>2. Pending'
      BY <1>2, <2>2 DEF Inv, Pending, Kind, inputVars
    <3>3. Stale'
      BY <1>2, <1>4, <2>2 DEF Inv, Stale, TypeOK, Console, editVars
    <3>4. QED
      BY <3>1, <3>2, <3>3
  <2>3. QED
    BY <1>1, <2>1, <2>2
<1>8. Guarded'
  BY <1>1, <1>2, <1>4, <1>6 DEF Inv, Guarded, PlanPassed, MassChange, Approved, inputVars, End
<1>9. SafeDeletions'
  <2>1. live[i] # NoObject =>
          /\ live[i].origin = "USER_DEFINED" /\ live[i].kind = Kind
          /\ i \notin touched => KeyOf(live[i]) = KeyOf(existing[i])
    BY <1>3, ObjectAssumption DEF Inv, Stale, KeyOf
  <2>2. QED
    BY <1>2, <1>3, <1>4, <2>1 DEF Inv, SafeDeletions, Approved, inputVars, editVars
<1>10. QED
  BY <1>7, <1>8, <1>9 DEF Inv

LEMMA RefuseVictimInv == ASSUME Inv, NEW i \in Ids, RefuseVictim(i) PROVE Inv'
<1>1. i \in victims /\ pc = "prune"
  BY DEF RefuseVictim
<1>2. existing[i] \in Object /\ existing[i].kind = Kind
  BY <1>1 DEF Inv, TypeOK, Pending, Console
<1>3. KeyOf(existing[i]) = <<Kind, existing[i].name>> /\ KeyOf(existing[i]) \in Keys
  BY <1>2, KeyFacts DEF KeyOf
<1>4. CASE /\ DryRun
           /\ unlisted' = unlisted \cup {KeyOf(existing[i])}
           /\ Log("DELETE", existing[i].name)
           /\ victims' = victims \ {i}
           /\ UNCHANGED <<pc, step, existing, todo>>
  <2>1. UNCHANGED <<live, inputVars, pass, fileVars, editVars, faults, planned, applied>>
    BY DEF RefuseVictim
  <2>2. TypeOK'
    BY <1>3, <1>4, <2>1 DEF Inv, TypeOK, Log, Line, inputVars, fileVars, editVars
  <2>3. Pending' /\ Stale'
    BY <1>1, <1>4, <2>1 DEF Inv, Pending, Stale, Kind, inputVars, editVars
  <2>4. Guarded'
    BY <1>1, <1>3, <1>4, <2>1 DEF Inv, Guarded, PlanPassed, MassChange, Approved, Log, inputVars
  <2>5. SafeDeletions'
    BY <2>1 DEF Inv, SafeDeletions, Approved, inputVars, editVars
  <2>6. QED
    BY <2>2, <2>3, <2>4, <2>5 DEF Inv
<1>5. CASE End("stopped") /\ UNCHANGED <<lines, unlisted>>
  BY <1>5, EndInv DEF RefuseVictim, Inv, TypeOK, Endings, fileVars
<1>6. QED
  BY <1>4, <1>5 DEF RefuseVictim

LEMMA NextKindInv == ASSUME Inv, NextKind PROVE Inv'
<1> USE DEF NextKind
<1>1. TypeOK'
  BY KindFacts, EmptyFacts DEF Inv, TypeOK, inputVars, fileVars, editVars
<1>2. Pending' /\ Stale'
  BY DEF Inv, Pending, Stale, Nothing, Kind, inputVars, editVars
<1>3. Guarded' /\ SafeDeletions'
  BY DEF Inv, Guarded, SafeDeletions, PlanPassed, MassChange, Approved, inputVars, editVars
<1>4. QED
  BY <1>1, <1>2, <1>3 DEF Inv

-----------------------------------------------------------------------------
(* Between and after the passes *)

\* A plan that is not refused has nothing unlisted and is within the limit.
LEMMA AcceptedPlan ==
  ASSUME Inv, pass = "plan", ~Refused, planned' = lines, UNCHANGED <<doc, opts>>
  PROVE  PlanPassed'
<1>1. CASE opts.force
  BY <1>1 DEF PlanPassed
<1>2. CASE ~opts.force
  <2>1. unlisted = {} /\ ~MassChange(lines)
    BY <1>2 DEF Refused
  <2>2. \A l \in lines : l[1] = "DELETE" => l[2] \in doc.deletions
    BY <1>2, <2>1 DEF Inv, Guarded, Approved
  <2>3. ~MassChange(planned)'
    BY <2>1 DEF MassChange, Destructive
  <2>4. QED
    BY <2>2, <2>3 DEF PlanPassed
<1>3. QED
  BY <1>1, <1>2

LEMMA FinishDryInv == ASSUME Inv, FinishDry PROVE Inv'
<1>1. PICK how \in Endings : End(how)
  BY DEF FinishDry, Endings
<1>2. QED
  BY <1>1, EndInv DEF FinishDry, RunEnds, Inv, TypeOK, fileVars

LEMMA FinishPlanInv == ASSUME Inv, FinishPlan PROVE Inv'
<1>1. PICK how \in Endings : End(how)
  BY DEF FinishPlan, Endings
<1>2. QED
  BY <1>1, EndInv DEF FinishPlan, RunEnds, Inv, TypeOK, fileVars

LEMMA FinishWriteInv == ASSUME Inv, FinishWrite PROVE Inv'
BY EndInv DEF FinishWrite, RunEnds, Inv, TypeOK, fileVars, Endings

LEMMA AcceptPlanInv == ASSUME Inv, AcceptPlan PROVE Inv'
<1> USE DEF AcceptPlan, TakesSnapshot, NothingToDo
<1>1. PlanPassed'
  BY AcceptedPlan DEF inputVars
<1>2. ~opts.dryRun /\ applied = {} /\ pc = "prune" /\ victims = {} /\ todo = {}
  BY DEF Inv, Guarded, Pending, PassDone
<1>3. CASE opts.snapshotDir
  <2>1. TypeOK'
    BY <1>3, KindFacts, EmptyFacts DEF Inv, TypeOK, inputVars, editVars
  <2>2. Pending' /\ Stale'
    BY <1>2, <1>3 DEF Pending, Stale, Nothing
  <2>3. Guarded'
    BY <1>1, <1>2, <1>3 DEF Inv, Guarded, Approved, inputVars
  <2>4. SafeDeletions'
    BY <1>2 DEF SafeDeletions
  <2>5. QED
    BY <2>1, <2>2, <2>3, <2>4 DEF Inv
<1>4. CASE ~opts.snapshotDir
  <2>1. BeginPass("write") /\ UNCHANGED draft
    BY <1>4
  <2>2. /\ pass' = "write" /\ pc' = "list" /\ step' \in 1..Len(Kinds)
        /\ existing' \in Console /\ todo' \subseteq Names /\ victims' \subseteq Ids
        /\ lines' = {} /\ unlisted' = {} /\ Pending' /\ Stale'
    BY <2>1, BeginPassFacts
  <2>3. TypeOK'
    BY <2>1, <2>2 DEF Inv, TypeOK, inputVars, editVars
  <2>4. Guarded' /\ SafeDeletions'
    BY <1>1, <1>2, <2>2 DEF Guarded, SafeDeletions, inputVars
  <2>5. QED
    BY <2>2, <2>3, <2>4 DEF Inv
<1>5. QED
  BY <1>3, <1>4

LEMMA SnapshotKindInv == ASSUME Inv, SnapshotKind PROVE Inv'
<1> USE DEF SnapshotKind, Exported
<1>1. ContentOf(live) \in Content
  BY ContentFacts DEF Inv, TypeOK
<1>2. draft' \in Content
  BY <1>1 DEF Inv, TypeOK, Content
<1>3. step' \in 1..Len(Kinds) /\ pc' \in {"snapshot", "commit"}
  BY KindFacts DEF Inv, TypeOK
<1>4. TypeOK'
  BY <1>2, <1>3 DEF Inv, TypeOK, inputVars, editVars
<1>6. Pending' /\ Stale'
  BY <1>3 DEF Inv, Pending, Stale, Nothing, inputVars, editVars
<1>7. Guarded' /\ SafeDeletions'
  BY <1>3 DEF Inv, Guarded, SafeDeletions, PlanPassed, MassChange, Approved, inputVars, editVars
<1>8. QED
  BY <1>4, <1>6, <1>7 DEF Inv

LEMMA CommitSnapshotInv == ASSUME Inv, CommitSnapshot PROVE Inv'
<1> USE DEF CommitSnapshot
<1>1. /\ saved' \in Content /\ draft' \in Content /\ before' \in Content
      /\ quiet' \in BOOLEAN /\ faults' \in Nat
  BY ContentFacts, EmptyFacts, BoundsAssumption DEF Inv, TypeOK
<1>2. CASE BeginPass("write") /\ UNCHANGED faults
  <2>1. /\ pass' = "write" /\ pc' = "list" /\ step' \in 1..Len(Kinds)
        /\ existing' \in Console /\ todo' \subseteq Names /\ victims' \subseteq Ids
        /\ lines' = {} /\ unlisted' = {} /\ Pending' /\ Stale'
    BY <1>2, BeginPassFacts
  <2>2. TypeOK'
    BY <1>1, <2>1 DEF Inv, TypeOK, inputVars
  <2>3. Guarded' /\ SafeDeletions'
    BY <2>1 DEF Inv, Guarded, SafeDeletions, PlanPassed, MassChange, Approved, inputVars
  <2>4. QED
    BY <2>1, <2>2, <2>3 DEF Inv
<1>3. CASE End("failed") /\ UNCHANGED <<pass, lines, unlisted>>
  <2>1. /\ pc' = "failed" /\ step' \in 1..Len(Kinds)
        /\ existing' \in Console /\ todo' \subseteq Names /\ victims' \subseteq Ids
        /\ Pending' /\ Stale'
    BY <1>3, EndFacts DEF Endings
  <2>2. TypeOK'
    BY <1>1, <1>3, <2>1 DEF Inv, TypeOK, inputVars, Endings
  <2>3. Guarded' /\ SafeDeletions'
    BY <1>3, <2>1 DEF Inv, Guarded, SafeDeletions, PlanPassed, MassChange, Approved, inputVars
  <2>4. QED
    BY <2>1, <2>2, <2>3 DEF Inv
<1>4. QED
  BY <1>2, <1>3

LEMMA StopInv == ASSUME Inv, Fail \/ Kill PROVE Inv'
<1>1. PICK how \in Endings : End(how)
  BY DEF Fail, Kill, Endings
<1>2. faults' \in Nat /\ draft' \in Content
  BY EmptyFacts DEF Fail, Kill, Inv, TypeOK
<1>3. QED
  BY <1>1, <1>2, EndInv DEF Fail, Kill, Inv, TypeOK

-----------------------------------------------------------------------------
(* Edits *)

\* An edit marks the object it touches, and the list never mentions the id of
\* an object created since.
LEMMA EditInv ==
  ASSUME Inv, NEW i \in Ids, NEW after \in Object \cup {NoObject}, Edit(i, after),
         \/ after = NoObject
         \/ live[i] = NoObject /\ existing[i] = NoObject
         \/ live[i] # NoObject /\ after.kind = live[i].kind /\ after.origin = live[i].origin
  PROVE  Inv'
<1> USE DEF Edit
<1>1. live' = [live EXCEPT ![i] = after] /\ touched' = touched \cup {i}
  OBVIOUS
<1>2. TypeOK'
  <2>1. live' \in Console
    BY <1>1 DEF Inv, TypeOK, Console
  <2>2. edits \in Nat /\ disturbed \in Nat /\ touched \subseteq Ids
    BY DEF Inv, TypeOK
  <2>3. edits' = edits + 1 /\ disturbed' = disturbed + 1 /\ quiet' = FALSE
    OBVIOUS
  <2>4. edits' \in Nat /\ disturbed' \in Nat
    BY ONLY <2>2, <2>3
  <2>5. touched' \subseteq Ids
    BY <1>1, <2>2
  <2>6. quiet' \in BOOLEAN
    BY ONLY <2>3
  <2>7. QED
    BY <2>1, <2>4, <2>5, <2>6 DEF Inv, TypeOK, inputVars, passVars, fileVars
<1>3. Pending'
  BY DEF Inv, Pending, Kind, inputVars, passVars
<1>4. Stale'
  BY <1>1 DEF Inv, Stale, TypeOK, Console, passVars
<1>5. Guarded'
  BY DEF Inv, Guarded, PlanPassed, MassChange, Approved, inputVars, passVars
<1>6. SafeDeletions'
  BY <1>1 DEF Inv, SafeDeletions, Approved, inputVars
<1>7. QED
  BY <1>2, <1>3, <1>4, <1>5, <1>6 DEF Inv

LEMMA OutsideInv == ASSUME Inv, Outside PROVE Inv'
<1>1. CASE EditCreate
  <2>1. PICK i \in Ids, k \in Keys, v \in Values :
          /\ live[i] = NoObject /\ existing[i] = NoObject
          /\ Edit(i, [kind |-> k[1], name |-> k[2], value |-> v, origin |-> "USER_DEFINED"])
    BY <1>1 DEF EditCreate
  <2>2. [kind |-> k[1], name |-> k[2], value |-> v, origin |-> "USER_DEFINED"] \in Object
    BY DEF Object
  <2>3. QED
    BY <2>1, <2>2, EditInv
<1>2. CASE EditChange
  <2>1. PICK i \in Present(live), n \in Names, v \in Values :
          Edit(i, [live[i] EXCEPT !.name = n, !.value = v])
    BY <1>2 DEF EditChange
  <2>2. i \in Ids /\ live[i] \in Object /\ live[i] # NoObject
    BY DEF Present, Inv, TypeOK, Console
  <2> DEFINE new == [live[i] EXCEPT !.name = n, !.value = v]
  <2>3. new \in Object /\ new.kind = live[i].kind /\ new.origin = live[i].origin
    BY <2>2 DEF Object
  <2>4. QED
    BY <2>1, <2>2, <2>3, EditInv
<1>3. CASE EditDelete
  BY <1>3, EditInv DEF EditDelete, Present
<1>4. QED
  BY <1>1, <1>2, <1>3 DEF Outside

-----------------------------------------------------------------------------
(* The theorems *)

\* Every step preserves the invariant.
LEMMA NextInv == Inv /\ [Next]_vars => Inv'
<1> SUFFICES ASSUME Inv, [Next]_vars PROVE Inv'
  OBVIOUS
<1>1. CASE StartSync
  <2>1. PICK c \in Commands : Launch(c.doc, c.opts, "instance")
    BY <1>1 DEF StartSync
  <2>2. QED
    BY <2>1, LaunchInv, InputsAssumption
<1>2. CASE StartRestore
  <2>1. PICK o \in RestoreOptions :
          Launch([sections |-> KindSet, want |-> saved, deletions |-> {}], o, "snapshot")
    BY <1>2 DEF StartRestore
  <2>2. [sections |-> KindSet, want |-> saved, deletions |-> {}] \in Document
    BY <1>2 DEF StartRestore, Inv, TypeOK, Document
  <2>3. QED
    BY <2>1, <2>2, LaunchInv, InputsAssumption
<1>3. CASE RunStep
  BY <1>3, ListInv, BeginPruneInv, NextKindInv, EntryOKInv, EntryOpaqueInv, CreateEntryInv,
     UpdateEntryInv, DeleteVictimInv, RefuseVictimInv, FinishDryInv, FinishPlanInv,
     AcceptPlanInv, SnapshotKindInv, CommitSnapshotInv, FinishWriteInv DEF RunStep, PassStep
<1>4. CASE Fail \/ Kill
  BY <1>4, StopInv
<1>5. CASE Outside
  BY <1>5, OutsideInv
<1>6. CASE UNCHANGED vars
  BY <1>6 DEF vars, inputVars, passVars, fileVars, editVars, Inv, TypeOK, Pending, Stale,
     Guarded, PlanPassed, MassChange, Approved, SafeDeletions, Kind
<1>7. QED
  BY <1>1, <1>2, <1>3, <1>4, <1>5, <1>6 DEF Next

THEOREM Invariance == Spec => []Inv
BY InitInv, NextInv, PTL DEF Spec

\* Every reachable state is typed.
THEOREM TypeCorrect == Spec => []TypeOK
<1>1. Inv => TypeOK
  BY DEF Inv
<1>2. QED
  BY <1>1, Invariance, PTL

\* Fail closed: whatever happens on the console and to the requests, nothing
\* is written but by a run whose whole plan passed both guards or was forced
\* (main.go, reconcile).
THEOREM FailClosed == Spec => []WritesPassedGuards
<1>1. Inv => WritesPassedGuards
  BY DEF Inv, Guarded, PlanPassed, WritesPassedGuards, TypeOK
<1>2. QED
  BY <1>1, Invariance, PTL

\* Deletions are safe with any interleaving of edits: never one of the
\* console's own objects, never without --prune and a declared section, and
\* never an unlisted key the run has read (plan.go, deleteCandidate, pruneList).
THEOREM DeletionsAreSafe == Spec => []SafeDeletions
<1>1. Inv => SafeDeletions
  BY DEF Inv
<1>2. QED
  BY <1>1, Invariance, PTL

(***************************************************************************)
(* ReconcileRun implements ConsoleContract: the initial states map to      *)
(* initial states, and every step of a run, every fault and every edit is  *)
(* a step of the contract or nothing to it.  Inv says what a request may   *)
(* rely on when it is sent: that the list it was made from is stale only   *)
(* where somebody edited.                                                  *)
(***************************************************************************)

LEMMA InitImplements == Init => Contract!Init
BY DEF Init, Contract!Init, Phase, Running, Endings

-----------------------------------------------------------------------------
(* Steps that leave the console alone *)

\* A run that goes on in its phase is nothing to the contract.
LEMMA Inward ==
  ASSUME UNCHANGED <<live, inputVars, editVars, pass>>, pc \notin Endings, pc' \notin Endings
  PROVE  UNCHANGED Contract!vars
BY DEF Contract!vars, Phase, Running, inputVars, editVars

\* A run that ends.
LEMMA EndImplements ==
  ASSUME UNCHANGED <<live, inputVars, touched>>, pc \notin Endings, NEW how \in Endings, End(how)
  PROVE  Contract!Stop
BY DEF Contract!Stop, Phase, Running, inputVars, End

LEMMA LaunchImplements ==
  ASSUME NEW d, NEW o, NEW from, Launch(d, o, from) PROVE Contract!Start
BY DEF Launch, BeginPass, Contract!Start, Phase, Running, Endings

LEMMA ListImplements == ASSUME List PROVE UNCHANGED Contract!vars
BY Inward DEF List, Endings

LEMMA EntryOKImplements == ASSUME NEW n \in Names, EntryOK(n) PROVE UNCHANGED Contract!vars
BY Inward DEF EntryOK, Endings

LEMMA EntryOpaqueImplements == ASSUME NEW n \in Names, EntryOpaque(n) PROVE Contract!Stop
BY EndImplements DEF EntryOpaque, Endings, editVars

LEMMA BeginPruneImplements == ASSUME BeginPrune PROVE UNCHANGED Contract!vars
BY Inward DEF BeginPrune, Endings

LEMMA RefuseVictimImplements ==
  ASSUME NEW i \in Ids, RefuseVictim(i) PROVE Contract!Stop \/ UNCHANGED Contract!vars
<1>1. pc \notin Endings /\ UNCHANGED <<live, inputVars, editVars, pass>>
  BY DEF RefuseVictim, Endings
<1>2. CASE End("stopped")
  BY <1>1, <1>2, EndImplements DEF Endings, editVars
<1>3. CASE UNCHANGED pc
  BY <1>1, <1>3, Inward
<1>4. QED
  BY <1>2, <1>3 DEF RefuseVictim

LEMMA NextKindImplements == ASSUME NextKind PROVE UNCHANGED Contract!vars
BY Inward DEF NextKind, Endings

LEMMA FinishImplements ==
  ASSUME FinishDry \/ FinishPlan \/ FinishWrite PROVE Contract!Stop
<1>1. PICK how \in Endings : End(how)
  BY DEF FinishDry, FinishPlan, FinishWrite, Endings
<1>2. pc \notin Endings /\ UNCHANGED <<live, inputVars, touched>>
  BY DEF FinishDry, FinishPlan, FinishWrite, PassDone, RunEnds, Endings, editVars
<1>3. QED
  BY <1>1, <1>2, EndImplements

\* The plan is accepted when the writing pass begins: at once, or after the
\* snapshot.
LEMMA AcceptImplements ==
  ASSUME Inv, BeginPass("write"), pass # "write", pc \notin Endings, ~opts.dryRun,
         UNCHANGED <<live, inputVars, touched>>
  PROVE  Contract!Accept
BY DEF BeginPass, Contract!Accept, Phase, Running, Endings, inputVars

LEMMA AcceptPlanImplements ==
  ASSUME Inv, AcceptPlan PROVE Contract!Accept \/ UNCHANGED Contract!vars
<1>1. /\ pass = "plan" /\ pc = "prune" /\ ~opts.dryRun
      /\ UNCHANGED <<live, inputVars, editVars>>
  BY DEF AcceptPlan, PassDone, Inv, Guarded
<1>2. CASE BeginPass("write")
  BY <1>1, <1>2, AcceptImplements DEF Endings, editVars
<1>3. CASE pc' = "snapshot" /\ UNCHANGED pass
  BY <1>1, <1>3, Inward DEF Endings
<1>4. QED
  BY <1>2, <1>3 DEF AcceptPlan

LEMMA SnapshotKindImplements == ASSUME SnapshotKind PROVE UNCHANGED Contract!vars
BY Inward DEF SnapshotKind, Endings

\* The snapshot is taken before the first write, so in the planning pass.
LEMMA CommitSnapshotImplements ==
  ASSUME Inv, CommitSnapshot
  PROVE  Contract!Accept \/ Contract!Stop \/ UNCHANGED Contract!vars
<1>1. /\ pc = "commit" /\ pass # "dry" /\ ~opts.dryRun
      /\ UNCHANGED <<live, inputVars, touched>>
  BY DEF CommitSnapshot, Inv, Guarded
<1>2. CASE End("failed")
  BY <1>1, <1>2, EndImplements DEF Endings
<1>3. CASE BeginPass("write") /\ pass # "write"
  BY <1>1, <1>3, AcceptImplements DEF Endings
<1>4. CASE BeginPass("write") /\ pass = "write"
  BY <1>1, <1>4 DEF BeginPass, Contract!vars, Phase, Running, Endings, inputVars
<1>5. QED
  BY <1>2, <1>3, <1>4 DEF CommitSnapshot

LEMMA StopImplements == ASSUME Fail \/ Kill PROVE Contract!Stop
<1>1. PICK how \in Endings : End(how)
  BY DEF Fail, Kill, Endings
<1>2. pc \notin Endings /\ UNCHANGED <<live, inputVars, touched>>
  BY DEF Fail, Kill, Running, Endings, editVars
<1>3. QED
  BY <1>1, <1>2, EndImplements

-----------------------------------------------------------------------------
(* Requests *)

\* What a request can have done: nothing, or what it asked for, if the console
\* could accept that.
LEMMA MutateEffect ==
  ASSUME NEW verb, NEW i, NEW after, NEW answer \in {"done", "lost", "rejected"},
         Mutate(verb, i, after, answer)
  PROVE  \/ live' = live
         \/ pass = "write" /\ Acceptable(verb, i, after) /\ live' = [live EXCEPT ![i] = after]
BY DEF Mutate, DryRun, Send

\* The console accepts a name only if no other object has it.
LEMMA AcceptableFree ==
  ASSUME NEW verb, verb # "DELETE", NEW i \in Ids, NEW after, Acceptable(verb, i, after)
  PROVE  Contract!Free(KeyOf(after), i)
BY DEF Acceptable, Holders, Present, Contract!Free, Contract!KeyOf, KeyOf

\* A request is a Write, an end of the run, or nothing, whatever its answer.
LEMMA RequestImplements ==
  ASSUME NEW verb, NEW i \in Ids, NEW after \in Object \cup {NoObject},
         NEW answer \in {"done", "lost", "rejected"},
         Mutate(verb, i, after, answer), pc \notin Endings,
         UNCHANGED <<inputVars, editVars, pass>>,
         End("failed") \/ UNCHANGED pc,
         Acceptable(verb, i, after) =>
           Contract!Add(i, after) \/ Contract!Alter(i, after) \/ Contract!Remove(i, after)
  PROVE  Contract!Write(i) \/ Contract!Stop \/ UNCHANGED Contract!vars
<1>1. CASE live' = live
  <2>1. CASE End("failed")
    BY <1>1, <2>1, EndImplements DEF Endings, editVars
  <2>2. CASE UNCHANGED pc
    BY <1>1, <2>2, Inward
  <2>3. QED
    BY <2>1, <2>2
<1>2. CASE pass = "write" /\ Acceptable(verb, i, after) /\ live' = [live EXCEPT ![i] = after]
  <2>1. Phase = "writing" /\ Phase' \in {"writing", "idle"}
    BY <1>2 DEF Phase, Running, End, Endings
  <2>2. after \in Contract!Object \cup {NoObject}
    BY DEF Object, Contract!Object, Contract!Owners
  <2>3. QED
    BY <1>2, <2>1, <2>2 DEF Contract!Write, inputVars, editVars
<1>3. QED
  BY <1>1, <1>2, MutateEffect

LEMMA CreateEntryImplements ==
  ASSUME Inv, NEW n \in Names, CreateEntry(n)
  PROVE  (\E i \in Ids : Contract!Write(i)) \/ Contract!Stop \/ UNCHANGED Contract!vars
<1> DEFINE new == [kind |-> Kind, name |-> n, value |-> doc.want[<<Kind, n>>],
                   origin |-> "USER_DEFINED"]
<1>1. PICK i \in Ids, answer \in {"done", "lost", "rejected"} :
        /\ live[i] = NoObject
        /\ Mutate("CREATE", i, new, answer)
        /\ Continue(n, answer)
  BY DEF CreateEntry
<1>2. n \in todo /\ Kind \in KindSet /\ pc = "declared"
  BY KindFacts DEF Inv, TypeOK, Kind, CreateEntry
<1>3. doc.want[<<Kind, n>>] # Unset /\ doc.want[<<Kind, n>>] \in Values
  BY <1>2 DEF Inv, TypeOK, Pending, Document, Content
<1>4. new \in Object /\ KeyOf(new) = <<Kind, n>>
  BY <1>2, <1>3 DEF Object, KeyOf
<1>5. Acceptable("CREATE", i, new) => Contract!Add(i, new)
  BY <1>1, <1>3, <1>4, AcceptableFree
     DEF Contract!Add, Contract!Wanted, Contract!KeyOf, KeyOf, Object, Contract!Object, Contract!Owners
<1>6. End("failed") \/ UNCHANGED pc
  BY <1>1 DEF Continue
<1>7. QED
  BY <1>1, <1>2, <1>4, <1>5, <1>6, RequestImplements DEF CreateEntry, Endings

\* An update writes back the name and the owner of the list, which are those
\* on the console unless somebody edited the object.
LEMMA UpdateEntryImplements ==
  ASSUME Inv, NEW n \in Names, UpdateEntry(n)
  PROVE  (\E i \in Ids : Contract!Write(i)) \/ Contract!Stop \/ UNCHANGED Contract!vars
<1>1. PICK i \in Holders(existing, <<Kind, n>>), answer \in {"done", "lost", "rejected"} :
        /\ Mutate("UPDATE", i, [existing[i] EXCEPT !.value = doc.want[<<Kind, n>>]], answer)
        /\ Continue(n, answer)
  BY DEF UpdateEntry
<1> DEFINE new == [existing[i] EXCEPT !.value = doc.want[<<Kind, n>>]]
<1>2. n \in todo /\ Kind \in KindSet /\ pc = "declared"
  BY KindFacts DEF Inv, TypeOK, Kind, UpdateEntry
<1>3. /\ i \in Ids /\ existing[i] \in Object /\ existing[i] # NoObject
      /\ existing[i].kind = Kind /\ existing[i].name = n
  BY DEF Inv, TypeOK, Console, Holders, Present, KeyOf
<1>4. doc.want[<<Kind, n>>] # Unset /\ doc.want[<<Kind, n>>] \in Values
  BY <1>2 DEF Inv, TypeOK, Pending, Document, Content
<1>5. /\ new \in Object /\ new.kind = Kind /\ new.name = n
      /\ new.value = doc.want[<<Kind, n>>] /\ new.origin = existing[i].origin
  BY <1>3, <1>4 DEF Object
<1>6. Acceptable("UPDATE", i, new) => Contract!Alter(i, new)
  <2>1. SUFFICES ASSUME Acceptable("UPDATE", i, new) PROVE Contract!Alter(i, new)
    OBVIOUS
  <2>2. live[i] # NoObject
    BY <2>1 DEF Acceptable
  <2>3. /\ new.kind = live[i].kind /\ new.origin = live[i].origin
        /\ i \notin touched => new.name = live[i].name
    BY <1>3, <1>5, <2>2 DEF Inv, Stale
  <2>4. KeyOf(new) = <<Kind, n>>
    BY <1>5 DEF KeyOf
  <2>5. Contract!Free(KeyOf(new), i)
    BY <1>3, <2>1, AcceptableFree
  <2>6. QED
    BY <1>4, <1>5, <2>2, <2>3, <2>4, <2>5
       DEF Contract!Alter, Contract!Wanted, Contract!KeyOf, KeyOf, Object, Contract!Object, Contract!Owners
<1>7. End("failed") \/ UNCHANGED pc
  BY <1>1 DEF Continue
<1>8. QED
  BY <1>1, <1>2, <1>3, <1>5, <1>6, <1>7, RequestImplements DEF UpdateEntry, Endings

\* What was a candidate on the list is one on the console, unless edited.
LEMMA DeleteVictimImplements ==
  ASSUME Inv, NEW i \in Ids, DeleteVictim(i)
  PROVE  Contract!Write(i) \/ Contract!Stop \/ UNCHANGED Contract!vars
<1>1. PICK answer \in {"done", "lost", "rejected"} :
        /\ Mutate("DELETE", i, NoObject, answer)
        /\ End("failed") \/ UNCHANGED pc
  BY DEF DeleteVictim
<1>2. /\ i \in victims /\ pc = "prune" /\ Approved(KeyOf(existing[i]))
      /\ UNCHANGED <<inputVars, editVars, pass>>
  BY DEF DeleteVictim
<1>3. /\ existing[i] # NoObject /\ existing[i].origin = "USER_DEFINED"
      /\ opts.prune /\ Kind \in doc.sections /\ doc.want[KeyOf(existing[i])] = Unset
      /\ existing[i].kind = Kind
  BY <1>2 DEF Inv, Pending
<1>4. Acceptable("DELETE", i, NoObject) => Contract!Remove(i, NoObject)
  <2>1. SUFFICES ASSUME live[i] # NoObject PROVE Contract!Remove(i, NoObject)
    BY DEF Acceptable
  <2>2. /\ live[i].origin = "USER_DEFINED" /\ live[i].kind = Kind
        /\ i \notin touched => live[i].name = existing[i].name
    BY <1>3, <2>1 DEF Inv, Stale
  <2>3. i \notin touched => KeyOf(live[i]) = KeyOf(existing[i])
    BY <1>3, <2>2 DEF KeyOf
  <2>4. QED
    BY <1>2, <1>3, <2>1, <2>2, <2>3
       DEF Contract!Remove, Contract!Wanted, Contract!KeyOf, KeyOf, Approved
<1>5. QED
  BY <1>1, <1>2, <1>4, RequestImplements DEF Endings

-----------------------------------------------------------------------------
LEMMA OutsideImplements ==
  ASSUME Inv, Outside PROVE \E i \in Ids : Contract!Edit(i)
<1>1. PICK i \in Ids, after \in Object \cup {NoObject} : Edit(i, after)
  <2>1. CASE EditCreate
    <3>1. PICK i \in Ids, k \in Keys, v \in Values :
            Edit(i, [kind |-> k[1], name |-> k[2], value |-> v, origin |-> "USER_DEFINED"])
      BY <2>1 DEF EditCreate
    <3>2. [kind |-> k[1], name |-> k[2], value |-> v, origin |-> "USER_DEFINED"] \in Object
      BY DEF Object
    <3>3. QED
      BY <3>1, <3>2
  <2>2. CASE EditChange
    <3>1. PICK i \in Present(live), n \in Names, v \in Values :
            Edit(i, [live[i] EXCEPT !.name = n, !.value = v])
      BY <2>2 DEF EditChange
    <3>2. i \in Ids /\ [live[i] EXCEPT !.name = n, !.value = v] \in Object
      BY DEF Present, Inv, TypeOK, Console, Object
    <3>3. QED
      BY <3>1, <3>2
  <2>3. CASE EditDelete
    BY <2>3 DEF EditDelete, Present
  <2>4. QED
    BY <2>1, <2>2, <2>3 DEF Outside
<1>2. after \in Contract!Object \cup {NoObject}
  BY DEF Object, Contract!Object, Contract!Owners
<1>3. UNCHANGED <<doc, opts, Phase>>
  BY <1>1 DEF Edit, inputVars, passVars, Phase, Running
<1>4. QED
  BY <1>1, <1>2, <1>3 DEF Edit, Contract!Edit

LEMMA NextImplements == Inv /\ [Next]_vars => [Contract!Next]_(Contract!vars)
<1> SUFFICES ASSUME Inv, [Next]_vars PROVE [Contract!Next]_(Contract!vars)
  OBVIOUS
<1> USE DEF Contract!Next
<1>1. CASE StartSync \/ StartRestore
  BY <1>1, LaunchImplements DEF StartSync, StartRestore
<1>2. CASE PassStep
  BY <1>2, ListImplements, EntryOKImplements, EntryOpaqueImplements, BeginPruneImplements,
     RefuseVictimImplements, NextKindImplements, CreateEntryImplements, UpdateEntryImplements,
     DeleteVictimImplements DEF PassStep
<1>3. CASE FinishDry \/ FinishPlan \/ FinishWrite
  BY <1>3, FinishImplements
<1>4. CASE AcceptPlan \/ SnapshotKind \/ CommitSnapshot
  BY <1>4, AcceptPlanImplements, SnapshotKindImplements, CommitSnapshotImplements
<1>5. CASE Fail \/ Kill
  BY <1>5, StopImplements
<1>6. CASE Outside
  BY <1>6, OutsideImplements
<1>7. CASE UNCHANGED vars
  BY <1>7 DEF vars, inputVars, passVars, editVars, Contract!vars, Phase, Running
<1>8. QED
  BY <1>1, <1>2, <1>3, <1>4, <1>5, <1>6, <1>7 DEF Next, RunStep

\* ReconcileRun implements the contract: whatever fails, gets lost or is edited
\* at whatever moment, the console sees of a run only declared objects made or
\* brought to their declared value and approved deletions, one at a time, once
\* the plan is accepted (main.go, reconcile; plan.go, mutate and pruneList).
THEOREM Refinement == Spec => ImplementsContract
<1>1. Init => Contract!Init
  BY InitImplements
<1>2. Inv /\ [Next]_vars => [Contract!Next]_(Contract!vars)
  BY NextImplements
<1>3. QED
  BY <1>1, <1>2, Invariance, PTL DEF Spec, ImplementsContract, Contract!Spec
=============================================================================
