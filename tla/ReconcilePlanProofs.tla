------------------------- MODULE ReconcilePlanProofs -------------------------
(***************************************************************************)
(* Theorems about what the planning pass of ReconcileRun promises, for     *)
(* every value of the constants: the writing pass keeps to the plan and to *)
(* the limit, the exit status is true, the snapshot holds what was         *)
(* overwritten, and a restore undoes the run.                              *)
(***************************************************************************)
EXTENDS ReconcileRunProofs, FiniteSetTheorems

(***************************************************************************)
(* What a pass has still to do.                                            *)
(***************************************************************************)

InPass == pc \in {"list", "declared", "prune"}

\* No two objects of a kind have the same name.
Unique(c) == \A i, j \in Present(c) : KeyOf(c[i]) = KeyOf(c[j]) => i = j

\* The objects a pass changes, given document d and options p, and the plan
\* line of the change.
Wrong(o, d, p) ==
  IF d.want[KeyOf(o)] # Unset
  THEN o.value # d.want[KeyOf(o)]
  ELSE p.prune /\ o.kind \in d.sections /\ o.origin = "USER_DEFINED"

LineOf(o, d) == <<IF d.want[KeyOf(o)] # Unset THEN "UPDATE" ELSE "DELETE", KeyOf(o)>>

\* The kinds whose list the pass has yet to read.
Ahead == {Kinds[s] : s \in {t \in 1..Len(Kinds) : t > step \/ (pc = "list" /\ t = step)}}

\* The lines the pass can no longer log.
Handled ==
  {l \in Line :
     /\ l[2][1] \notin Ahead
     /\ pc = "declared" /\ l[2][1] = Kind => l[1] # "DELETE" /\ l[2][2] \notin todo
     /\ l[1] = "DELETE" => \A v \in victims : KeyOf(existing[v]) # l[2]}

\* What the run takes an id to hold, and the ids it would still change.
Known == [i \in Ids |-> IF existing[i] # NoObject THEN existing[i] ELSE live[i]]

Open ==
  {i \in Ids : /\ InPass /\ Known[i] # NoObject
               /\ Wrong(Known[i], doc, opts) /\ LineOf(Known[i], doc) \notin Handled}

-----------------------------------------------------------------------------
(* Facts about finite sets *)

LEMMA CardinalitySubset ==
  ASSUME NEW S, NEW T, IsFiniteSet(T), S \subseteq T
  PROVE  /\ IsFiniteSet(S) /\ Cardinality(S) \in Nat /\ Cardinality(T) \in Nat
         /\ Cardinality(S) <= Cardinality(T)
<1>1. S \in SUBSET T
  OBVIOUS
<1>2. IsFiniteSet(S) /\ Cardinality(S) <= Cardinality(T)
  BY <1>1, FS_Subset
<1>3. QED
  BY <1>2, FS_CardinalityType

LEMMA CardinalityAdd ==
  ASSUME NEW S, NEW x, IsFiniteSet(S)
  PROVE  /\ IsFiniteSet(S \cup {x}) /\ Cardinality(S) \in Nat
         /\ Cardinality(S \cup {x}) <= Cardinality(S) + 1
         /\ x \notin S => Cardinality(S \cup {x}) = Cardinality(S) + 1
<1>1. Cardinality(S) \in Nat
  BY FS_CardinalityType
<1>2. QED
  BY <1>1, FS_AddElement

\* One set loses an element whenever the other gains one.
LEMMA CardinalityTrade ==
  ASSUME NEW S, NEW T, NEW S2, NEW T2, NEW x, NEW y, IsFiniteSet(S), IsFiniteSet(T),
         S2 \subseteq S \cup {x}, T2 \subseteq T \ {y}, y \in T
  PROVE  Cardinality(S2) + Cardinality(T2) <= Cardinality(S) + Cardinality(T)
<1>1. /\ IsFiniteSet(S \cup {x}) /\ Cardinality(S) \in Nat
      /\ Cardinality(S \cup {x}) <= Cardinality(S) + 1
  BY CardinalityAdd
<1>2. /\ Cardinality(S2) \in Nat /\ Cardinality(S \cup {x}) \in Nat
      /\ Cardinality(S2) <= Cardinality(S \cup {x})
  BY <1>1, CardinalitySubset
<1>3. IsFiniteSet(T \ {y}) /\ Cardinality(T) \in Nat /\ Cardinality(T \ {y}) = Cardinality(T) - 1
  BY FS_RemoveElement, FS_CardinalityType
<1>4. /\ Cardinality(T2) \in Nat /\ Cardinality(T \ {y}) \in Nat
      /\ Cardinality(T2) <= Cardinality(T \ {y})
  BY <1>3, CardinalitySubset
<1>5. QED
  BY <1>1, <1>2, <1>3, <1>4

-----------------------------------------------------------------------------
(* Facts about keys, kinds and consoles *)

LEMMA KindNow == TypeOK => Kind \in KindSet /\ (\A n \in Names : <<Kind, n>> \in Keys)
BY KindFacts DEF TypeOK, Kind, Keys

\* An object of a console, its key, and the line that changes it.
LEMMA ObjectFacts ==
  ASSUME NEW o \in Object, NEW d \in Document
  PROVE  /\ o # NoObject /\ o.kind \in KindSet /\ o.name \in Names /\ o.value \in Values
         /\ o.origin \in {"USER_DEFINED", "SYSTEM_DEFINED"}
         /\ KeyOf(o) = <<o.kind, o.name>> /\ KeyOf(o) \in Keys
         /\ KeyOf(o)[1] = o.kind /\ KeyOf(o)[2] = o.name
         /\ LineOf(o, d) \in Line /\ LineOf(o, d)[2] = KeyOf(o)
         /\ LineOf(o, d)[1] \in {"UPDATE", "DELETE"}
         /\ LineOf(o, d)[1] = "DELETE" <=> d.want[KeyOf(o)] = Unset
<1>1. o # NoObject /\ o.kind \in KindSet /\ o.name \in Names /\ o.value \in Values
  BY ObjectAssumption DEF Object
<1>2. o.origin \in {"USER_DEFINED", "SYSTEM_DEFINED"}
  BY DEF Object, Origins
<1>3. KeyOf(o) = <<o.kind, o.name>> /\ KeyOf(o) \in Keys
  BY <1>1 DEF KeyOf, Keys
<1>4. KeyOf(o)[1] = o.kind /\ KeyOf(o)[2] = o.name
  BY <1>3
<1>5. LineOf(o, d) = <<IF d.want[KeyOf(o)] # Unset THEN "UPDATE" ELSE "DELETE", KeyOf(o)>>
  BY DEF LineOf
<1>6. LineOf(o, d) \in Line
  BY <1>3, <1>5 DEF Line
<1>7. LineOf(o, d)[2] = KeyOf(o) /\ LineOf(o, d)[1] \in {"UPDATE", "DELETE"}
  BY <1>5
<1>8. LineOf(o, d)[1] = "DELETE" <=> d.want[KeyOf(o)] = Unset
  BY <1>5
<1>9. QED
  BY <1>1, <1>2, <1>3, <1>4, <1>6, <1>7, <1>8

\* A name that is free, or its own object's, stays unique.
LEMMA ReplaceUnique ==
  ASSUME NEW c \in Console, Unique(c), NEW i \in Ids, NEW after \in Object \cup {NoObject},
         after # NoObject => Holders(c, KeyOf(after)) \subseteq {i}
  PROVE  Unique([c EXCEPT ![i] = after])
<1> DEFINE d == [c EXCEPT ![i] = after]
<1>1. \A j \in Ids : d[j] = IF j = i THEN after ELSE c[j]
  BY DEF Console
<1> HIDE DEF d
<1>2. SUFFICES ASSUME NEW j \in Present(d), NEW k \in Present(d), KeyOf(d[j]) = KeyOf(d[k])
               PROVE  j = k
  BY DEF Unique, d
<1>3. CASE j # i /\ k # i
  BY <1>1, <1>2, <1>3 DEF Present, Unique
<1>4. CASE j = i /\ k # i
  BY <1>1, <1>2, <1>4 DEF Present, Holders
<1>5. CASE k = i /\ j # i
  BY <1>1, <1>2, <1>5 DEF Present, Holders
<1>6. QED
  BY <1>3, <1>4, <1>5

\* Under unique names a console's content has each object's value.
LEMMA ContentOfHolder ==
  ASSUME NEW c, Unique(c), NEW i \in Present(c), KeyOf(c[i]) \in Keys
  PROVE  ContentOf(c)[KeyOf(c[i])] = c[i].value
<1> DEFINE k == KeyOf(c[i])
<1>1. i \in Holders(c, k)
  BY DEF Holders
<1>2. (CHOOSE j \in Holders(c, k) : TRUE) \in Holders(c, k)
  BY <1>1
<1>3. (CHOOSE j \in Holders(c, k) : TRUE) = i
  BY <1>2 DEF Holders, Unique
<1>4. QED
  BY <1>1, <1>3 DEF ContentOf

-----------------------------------------------------------------------------
(* How far a pass is *)

LEMMA KindsOnce == \A s, t \in 1..Len(Kinds) : Kinds[s] = Kinds[t] => s = t
BY KindsAssumption

LEMMA AheadFacts ==
  ASSUME TypeOK
  PROVE  /\ pc = "list" => Kind \in Ahead
         /\ pc # "list" => Kind \notin Ahead
         /\ pc = "list" /\ pc' # "list" /\ step' = step => Ahead' = Ahead \ {Kind}
         /\ pc # "list" /\ pc' # "list" /\ step' = step => Ahead' = Ahead
         /\ pc # "list" /\ pc' = "list" /\ step' = step + 1 => Ahead' = Ahead
<1>1. step \in 1..Len(Kinds) /\ Len(Kinds) \in Nat
  BY KindsAssumption DEF TypeOK
<1>2. pc = "list" => Kind \in Ahead
  BY <1>1 DEF Kind, Ahead
<1>3. pc # "list" => Kind \notin Ahead
  BY <1>1, KindsOnce DEF Kind, Ahead
<1>4. pc = "list" /\ pc' # "list" /\ step' = step => Ahead' = Ahead \ {Kind}
  BY <1>1, KindsOnce DEF Kind, Ahead
<1>5. pc # "list" /\ pc' # "list" /\ step' = step => Ahead' = Ahead
  BY DEF Ahead
<1>6. pc # "list" /\ pc' = "list" /\ step' = step + 1 => Ahead' = Ahead
  BY <1>1 DEF Ahead
<1>7. QED
  BY <1>2, <1>3, <1>4, <1>5, <1>6

\* Reading a list puts the lines nobody can log behind: those of undeclared
\* names.
LEMMA HandledList ==
  ASSUME TypeOK, Pending, List
  PROVE  /\ Handled \subseteq Handled'
         /\ \A l \in Handled' \ Handled : l[1] # "DELETE" /\ doc.want[l[2]] = Unset
<1>1. /\ Ahead' = Ahead \ {Kind} /\ Kind' = Kind /\ pc = "list" /\ pc' = "declared"
      /\ victims = {} /\ victims' = {} /\ todo' = Declared /\ Kind \in Ahead
  BY AheadFacts DEF List, Pending, Kind
<1>2. Handled = {l \in Line : l[2][1] \notin Ahead}
  BY <1>1 DEF Handled
<1>3. Handled' = {l \in Line : /\ l[2][1] \notin Ahead'
                               /\ l[2][1] = Kind => l[1] # "DELETE" /\ l[2][2] \notin Declared}
  BY <1>1 DEF Handled
<1>4. ASSUME NEW l \in Handled' \ Handled PROVE l[1] # "DELETE" /\ doc.want[l[2]] = Unset
  <2>1. l \in Line /\ l[2][1] = Kind /\ l[1] # "DELETE" /\ l[2][2] \notin Declared
    BY <1>1, <1>2, <1>3, <1>4
  <2>2. l[2] = <<Kind, l[2][2]>> /\ l[2][2] \in Names
    BY <2>1 DEF Line, Keys
  <2>3. QED
    BY <2>1, <2>2 DEF Declared
<1>5. QED
  BY <1>1, <1>2, <1>3, <1>4

\* Handling a declared entry puts the lines of that entry behind.
LEMMA HandledEntry ==
  ASSUME TypeOK, Pending, NEW n \in todo, pc = "declared",
         todo' = todo \ {n}, UNCHANGED <<pc, step, existing, victims>>
  PROVE  /\ Handled \subseteq Handled'
         /\ \A l \in Handled' \ Handled : l[1] # "DELETE" /\ l[2] = <<Kind, n>>
         /\ \A l \in Handled : l[2] # <<Kind, n>>
         /\ \A l \in Line : l[1] # "DELETE" /\ l[2] = <<Kind, n>> => l \in Handled'
<1>1. /\ Ahead' = Ahead /\ Kind' = Kind /\ pc' = "declared" /\ Kind \notin Ahead
      /\ victims = {} /\ victims' = {}
  BY AheadFacts DEF Pending, Kind
<1>2. Handled = {l \in Line : /\ l[2][1] \notin Ahead
                              /\ l[2][1] = Kind => l[1] # "DELETE" /\ l[2][2] \notin todo}
  BY <1>1 DEF Handled
<1>3. Handled' = {l \in Line : /\ l[2][1] \notin Ahead
                               /\ l[2][1] = Kind => l[1] # "DELETE" /\ l[2][2] \notin todo \ {n}}
  BY <1>1 DEF Handled
<1>4. \A l \in Line : l[2] = <<l[2][1], l[2][2]>>
  BY DEF Line, Keys
<1>5. QED
  BY <1>1, <1>2, <1>3, <1>4

\* Choosing what to prune puts the deletions of everything else behind.
LEMMA HandledBeginPrune ==
  ASSUME TypeOK, Pending, BeginPrune
  PROVE  /\ Handled \subseteq Handled'
         /\ \A l \in Handled' \ Handled :
              /\ l[1] = "DELETE" /\ l[2][1] = Kind
              /\ \A v \in Present(existing) : Prunable(v) => KeyOf(existing[v]) # l[2]
<1>1. /\ Ahead' = Ahead /\ Kind' = Kind /\ pc = "declared" /\ pc' = "prune"
      /\ victims = {} /\ todo = {} /\ existing' = existing
      /\ victims' = {v \in Present(existing) : Prunable(v)}
  BY AheadFacts DEF BeginPrune, Pending, Kind
<1>2. Handled = {l \in Line : l[2][1] \notin Ahead /\ (l[2][1] = Kind => l[1] # "DELETE")}
  BY <1>1 DEF Handled
<1>3. Handled' = {l \in Line : /\ l[2][1] \notin Ahead
                               /\ l[1] = "DELETE" => \A v \in victims' : KeyOf(existing[v]) # l[2]}
  BY <1>1 DEF Handled
<1>4. \A v \in victims' : KeyOf(existing[v])[1] = Kind
  BY <1>1 DEF Pending, Present, KeyOf
<1>5. QED
  BY <1>1, <1>2, <1>3, <1>4

\* Passing over one candidate puts its deletion behind.
LEMMA HandledVictim ==
  ASSUME TypeOK, Pending, Unique(existing), NEW i \in victims, pc = "prune",
         victims' = victims \ {i}, UNCHANGED <<pc, step, existing, todo>>
  PROVE  /\ Handled \subseteq Handled'
         /\ <<"DELETE", KeyOf(existing[i])>> \in Handled' \ Handled
         /\ \A l \in Handled' \ Handled : l = <<"DELETE", KeyOf(existing[i])>>
<1>1. /\ Ahead' = Ahead /\ pc' = "prune" /\ existing' = existing /\ Kind \notin Ahead
      /\ victims' = victims \ {i} /\ i \in Ids
  BY AheadFacts DEF TypeOK
<1>2. Handled = {l \in Line : /\ l[2][1] \notin Ahead
                              /\ l[1] = "DELETE" => \A v \in victims : KeyOf(existing[v]) # l[2]}
  BY <1>1 DEF Handled
<1>3. Handled' = {l \in Line : /\ l[2][1] \notin Ahead
                               /\ l[1] = "DELETE" => \A v \in victims' : KeyOf(existing[v]) # l[2]}
  BY <1>1 DEF Handled
<1>4. \A v \in victims : v \in Present(existing)
  BY DEF Pending, Present, TypeOK
<1>5. \A v \in victims' : KeyOf(existing[v]) # KeyOf(existing[i])
  BY <1>1, <1>4 DEF Unique
<1> DEFINE k == KeyOf(existing[i])
<1>6. k \in Keys /\ k[1] = Kind
  <2>1. existing[i] \in Object /\ existing[i].kind = Kind
    BY <1>1, <1>4 DEF TypeOK, Pending, Console, Present
  <2>2. QED
    BY <2>1, KeyFacts DEF KeyOf
<1> HIDE DEF k
<1>7. <<"DELETE", k>> \in Line /\ <<"DELETE", k>>[1] = "DELETE" /\ <<"DELETE", k>>[2] = k
  BY <1>6 DEF Line
<1>8. <<"DELETE", k>> \in Handled' \ Handled
  BY <1>1, <1>2, <1>3, <1>5, <1>6, <1>7 DEF k
<1>9. ASSUME NEW l \in Handled' \ Handled PROVE l = <<"DELETE", k>>
  <2>1. l \in Line /\ l[1] = "DELETE" /\ l[2] = k
    BY <1>1, <1>2, <1>3, <1>9 DEF k
  <2>2. l = <<l[1], l[2]>>
    BY <2>1 DEF Line
  <2>3. QED
    BY <2>1, <2>2
<1>10. Handled \subseteq Handled'
  BY <1>1, <1>2, <1>3
<1>11. QED
  BY <1>8, <1>9, <1>10 DEF k

LEMMA HandledNextKind ==
  ASSUME TypeOK, Pending, NextKind
  PROVE  Handled' = Handled /\ (\A l \in Line : l[2][1] = Kind => l \in Handled)
<1>1. /\ Ahead' = Ahead /\ pc = "prune" /\ pc' = "list" /\ Kind \notin Ahead
      /\ victims = {} /\ victims' = {}
  BY AheadFacts DEF NextKind
<1>2. QED
  BY <1>1 DEF Handled

\* At its end, a pass has put everything behind.
LEMMA HandledAll == TypeOK /\ PassDone => Handled = Line
<1> SUFFICES ASSUME TypeOK, PassDone PROVE Handled = Line
  OBVIOUS
<1>1. pc = "prune" /\ victims = {} /\ step = Len(Kinds) /\ Len(Kinds) \in Nat
  BY KindsAssumption DEF PassDone
<1>2. Ahead = {}
  BY <1>1 DEF Ahead
<1>3. QED
  BY <1>1, <1>2 DEF Handled

\* At its start, nothing.
LEMMA HandledNone ==
  ASSUME NEW p \in {"dry", "plan", "write"}, BeginPass(p)
  PROVE  Handled' = {}
<1>1. pc' = "list" /\ step' = 1 /\ Len(Kinds) \in Nat
  BY KindsAssumption DEF BeginPass
<1>2. ASSUME NEW l \in Line PROVE l[2][1] \in Ahead'
  <2>1. l[2][1] \in KindSet
    BY <1>2 DEF Line, Keys
  <2>2. PICK s \in DOMAIN Kinds : l[2][1] = Kinds[s]
    BY <2>1 DEF KindSet
  <2>3. s \in 1..Len(Kinds)
    BY KindsAssumption
  <2>4. QED
    BY <1>1, <2>2, <2>3 DEF Ahead
<1>3. QED
  BY <1>2 DEF Handled

-----------------------------------------------------------------------------
(* What a write can have done *)

\* Nothing, in a dry pass or at the end of the run; or what it asked for.
Wrote(verb, i, after) ==
  \/ live' = live /\ applied' = applied /\ (pass # "write" \/ End("failed"))
  \/ /\ pass = "write" /\ (verb # "CREATE" => live[i] # NoObject)
     /\ verb # "DELETE" => Holders(live, KeyOf(after)) \subseteq {i}
     /\ live' = [live EXCEPT ![i] = after]
     /\ applied' = applied \cup {[verb |-> verb, id |-> i, pre |-> live[i]]}

LEMMA MutateWrote ==
  ASSUME NEW verb \in {"CREATE", "UPDATE", "DELETE"}, NEW i \in Ids, NEW after,
         NEW answer \in {"done", "lost", "rejected"}, Mutate(verb, i, after, answer),
         answer # "done" => End("failed")
  PROVE  Wrote(verb, i, after) /\ (answer # "done" => pass = "write")
BY DEF Mutate, DryRun, Send, Acceptable, Wrote

\* What a written entry leaves unchanged.
Frame == UNCHANGED <<doc, opts, source, pass, unlisted, draft, saved, before, edits, touched,
                     disturbed, quiet, planned>>

LEMMA CreateFacts ==
  ASSUME Inv, NEW n \in Names, CreateEntry(n)
  PROVE  /\ pc = "declared" /\ n \in todo /\ Frame
         /\ <<Kind, n>> \in Keys /\ doc.want[<<Kind, n>>] \in Values
         /\ Holders(existing, <<Kind, n>>) = {}
         /\ lines' = lines \cup {<<"CREATE", <<Kind, n>>>>}
         /\ \/ todo' = todo \ {n} /\ UNCHANGED <<pc, step, existing, victims>>
            \/ End("failed")
         /\ \E i \in Ids, new \in Object :
              /\ KeyOf(new) = <<Kind, n>> /\ new.value = doc.want[<<Kind, n>>]
              /\ new.origin = "USER_DEFINED"
              /\ live[i] = NoObject /\ existing[i] = NoObject
              /\ Wrote("CREATE", i, new)
<1>1. PICK i \in Ids, answer \in {"done", "lost", "rejected"} :
        /\ live[i] = NoObject /\ existing[i] = NoObject
        /\ Mutate("CREATE", i, [kind |-> Kind, name |-> n, value |-> doc.want[<<Kind, n>>],
                                origin |-> "USER_DEFINED"], answer)
        /\ Continue(n, answer)
  BY DEF CreateEntry
<1> DEFINE new == [kind |-> Kind, name |-> n, value |-> doc.want[<<Kind, n>>],
                   origin |-> "USER_DEFINED"]
<1>2. n \in todo /\ pc = "declared" /\ Holders(existing, <<Kind, n>>) = {}
  BY DEF CreateEntry
<1>3. <<Kind, n>> \in Keys /\ Kind \in KindSet
  BY KindNow DEF Inv
<1>4. doc.want[<<Kind, n>>] \in Values
  BY <1>2, <1>3 DEF Inv, TypeOK, Pending, Document, Content
<1>5. new \in Object
  BY <1>3, <1>4 DEF Object, Origins
<1>6. KeyOf(new) = <<Kind, n>> /\ new.value = doc.want[<<Kind, n>>] /\ new.origin = "USER_DEFINED"
  BY DEF KeyOf
<1>7. Wrote("CREATE", i, new)
  BY <1>1, MutateWrote DEF Continue
<1>8. lines' = lines \cup {<<"CREATE", <<Kind, n>>>>} /\ Frame
  BY DEF CreateEntry, Log, Frame, inputVars, fileVars, editVars
<1>9. \/ todo' = todo \ {n} /\ UNCHANGED <<pc, step, existing, victims>>
      \/ End("failed")
  BY <1>1 DEF Continue
<1> HIDE DEF new
<1>10. QED
  BY <1>1, <1>2, <1>3, <1>4, <1>5, <1>6, <1>7, <1>8, <1>9

LEMMA UpdateFacts ==
  ASSUME Inv, NEW n \in Names, UpdateEntry(n)
  PROVE  /\ pc = "declared" /\ n \in todo /\ Frame
         /\ <<Kind, n>> \in Keys /\ doc.want[<<Kind, n>>] \in Values
         /\ lines' = lines \cup {<<"UPDATE", <<Kind, n>>>>}
         /\ \/ todo' = todo \ {n} /\ UNCHANGED <<pc, step, existing, victims>>
            \/ End("failed")
         /\ \E i \in Ids, new \in Object :
              /\ existing[i] \in Object /\ KeyOf(existing[i]) = <<Kind, n>>
              /\ existing[i].value # doc.want[<<Kind, n>>]
              /\ KeyOf(new) = <<Kind, n>> /\ new.value = doc.want[<<Kind, n>>]
              /\ new.origin = existing[i].origin
              /\ Wrote("UPDATE", i, new)
<1>1. PICK i \in Holders(existing, <<Kind, n>>), answer \in {"done", "lost", "rejected"} :
        /\ existing[i].value # doc.want[<<Kind, n>>]
        /\ Log("UPDATE", n)
        /\ Mutate("UPDATE", i, [existing[i] EXCEPT !.value = doc.want[<<Kind, n>>]], answer)
        /\ Continue(n, answer)
  BY DEF UpdateEntry
<1> DEFINE new == [existing[i] EXCEPT !.value = doc.want[<<Kind, n>>]]
<1>2. n \in todo /\ pc = "declared"
  BY DEF UpdateEntry
<1>3. <<Kind, n>> \in Keys /\ Kind \in KindSet
  BY KindNow DEF Inv
<1>4. doc.want[<<Kind, n>>] \in Values
  BY <1>2, <1>3 DEF Inv, TypeOK, Pending, Document, Content
<1>5. i \in Ids /\ existing[i] \in Object /\ KeyOf(existing[i]) = <<Kind, n>>
  BY DEF Holders, Present, Inv, TypeOK, Console
<1>6. new \in Object /\ new.value = doc.want[<<Kind, n>>] /\ new.origin = existing[i].origin
      /\ new.kind = existing[i].kind /\ new.name = existing[i].name
  BY <1>4, <1>5 DEF Object
<1>7. KeyOf(new) = <<Kind, n>>
  BY <1>5, <1>6 DEF KeyOf
<1>8. Wrote("UPDATE", i, new)
  BY <1>1, <1>5, MutateWrote DEF Continue
<1>9. lines' = lines \cup {<<"UPDATE", <<Kind, n>>>>} /\ Frame
  BY <1>1 DEF UpdateEntry, Log, Frame, inputVars, fileVars, editVars
<1>10. \/ todo' = todo \ {n} /\ UNCHANGED <<pc, step, existing, victims>>
       \/ End("failed")
  BY <1>1 DEF Continue
<1> HIDE DEF new
<1>11. QED
  BY <1>1, <1>2, <1>3, <1>4, <1>5, <1>6, <1>7, <1>8, <1>9, <1>10

LEMMA DeleteFacts ==
  ASSUME Inv, NEW i \in Ids, DeleteVictim(i)
  PROVE  /\ pc = "prune" /\ i \in victims /\ Frame
         /\ existing[i] \in Object /\ KeyOf(existing[i]) \in Keys
         /\ Wrong(existing[i], doc, opts)
         /\ LineOf(existing[i], doc) = <<"DELETE", KeyOf(existing[i])>>
         /\ lines' = lines \cup {<<"DELETE", KeyOf(existing[i])>>}
         /\ \/ victims' = victims \ {i} /\ UNCHANGED <<pc, step, existing, todo>>
            \/ End("failed")
         /\ Wrote("DELETE", i, NoObject)
<1>1. PICK answer \in {"done", "lost", "rejected"} :
        /\ Mutate("DELETE", i, NoObject, answer)
        /\ IF answer = "done"
           THEN victims' = victims \ {i} /\ UNCHANGED <<pc, step, existing, todo>>
           ELSE End("failed")
  BY DEF DeleteVictim
<1>2. pc = "prune" /\ i \in victims
  BY DEF DeleteVictim
<1>3. /\ existing[i] \in Object /\ existing[i].kind = Kind
      /\ existing[i].origin = "USER_DEFINED"
      /\ opts.prune /\ Kind \in doc.sections
      /\ doc.want[KeyOf(existing[i])] = Unset
  BY <1>2 DEF Inv, TypeOK, Pending, Console
<1>4. Wrong(existing[i], doc, opts) /\ LineOf(existing[i], doc) = <<"DELETE", KeyOf(existing[i])>>
  BY <1>3 DEF Wrong, LineOf
<1>5. KeyOf(existing[i]) \in Keys
  BY <1>3, KeyFacts
<1>6. lines' = lines \cup {<<"DELETE", KeyOf(existing[i])>>} /\ Frame
  BY <1>3 DEF DeleteVictim, Log, KeyOf, Frame, inputVars, fileVars, editVars
<1>7. Wrote("DELETE", i, NoObject)
  BY <1>1, MutateWrote
<1>8. QED
  BY <1>1, <1>2, <1>3, <1>4, <1>5, <1>6, <1>7

\* A candidate that is not approved: noted while planning, the end of the run
\* while writing.
LEMMA RefuseFacts ==
  ASSUME Inv, NEW i \in Ids, RefuseVictim(i)
  PROVE  /\ pc = "prune" /\ i \in victims /\ ~Approved(KeyOf(existing[i]))
         /\ existing[i] \in Object /\ KeyOf(existing[i]) \in Keys
         /\ Wrong(existing[i], doc, opts)
         /\ LineOf(existing[i], doc) = <<"DELETE", KeyOf(existing[i])>>
         /\ UNCHANGED <<live, doc, opts, source, pass, draft, saved, before, edits, touched,
                        disturbed, quiet, faults, planned, applied>>
         /\ \/ /\ pass # "write" /\ lines' = lines \cup {<<"DELETE", KeyOf(existing[i])>>}
               /\ victims' = victims \ {i} /\ UNCHANGED <<pc, step, existing, todo>>
            \/ pass = "write" /\ End("stopped") /\ lines' = lines
<1>1. pc = "prune" /\ i \in victims /\ ~Approved(KeyOf(existing[i]))
  BY DEF RefuseVictim
<1>2. /\ existing[i] \in Object /\ existing[i].kind = Kind
      /\ existing[i].origin = "USER_DEFINED"
      /\ opts.prune /\ Kind \in doc.sections
      /\ doc.want[KeyOf(existing[i])] = Unset
  BY <1>1 DEF Inv, TypeOK, Pending, Console
<1>3. Wrong(existing[i], doc, opts) /\ LineOf(existing[i], doc) = <<"DELETE", KeyOf(existing[i])>>
  BY <1>2 DEF Wrong, LineOf
<1>4. KeyOf(existing[i]) \in Keys
  BY <1>2, KeyFacts
<1>5. UNCHANGED <<live, doc, opts, source, pass, draft, saved, before, edits, touched,
                  disturbed, quiet, faults, planned, applied>>
  BY DEF RefuseVictim, inputVars, fileVars, editVars
<1>6. \/ /\ pass # "write" /\ lines' = lines \cup {<<"DELETE", KeyOf(existing[i])>>}
         /\ victims' = victims \ {i} /\ UNCHANGED <<pc, step, existing, todo>>
      \/ pass = "write" /\ End("stopped") /\ lines' = lines
  BY <1>2 DEF RefuseVictim, DryRun, Log, KeyOf
<1>7. QED
  BY <1>1, <1>2, <1>3, <1>4, <1>5, <1>6

-----------------------------------------------------------------------------
(* The steps of a behaviour, as the proofs below take them *)

\* A step that ends the run and sends nothing.
Stop(how) ==
  /\ how \in Endings /\ End(how)
  /\ UNCHANGED <<live, doc, opts, source, pass, lines, saved, before, touched, disturbed,
                 quiet, applied>>
  /\ pass = "write" => planned' = planned
  /\ planned' \in {planned, lines}
  /\ how = "clean" => pass # "write" /\ PassDone /\ lines = {}
  /\ how = "drift" => pass = "dry" /\ PassDone /\ lines # {}
  /\ how = "applied" => pass = "write" /\ PassDone
  /\ how # "stopped"

\* A run starts, on a document of the instance or on the newest snapshot.
Start(d, o, from) ==
  /\ Launch(d, o, from)
  /\ from = "snapshot" =>
       saved # NoObject /\ d = [sections |-> KindSet, want |-> saved, deletions |-> {}]

\* Somebody edits one object: creates, changes or deletes it.
Touch(i, after) ==
  /\ Edit(i, after)
  /\ \/ after = NoObject
     \/ live[i] = NoObject /\ existing[i] = NoObject
     \/ live[i] # NoObject /\ after.kind = live[i].kind /\ after.origin = live[i].origin

\* A step of a pass that logs nothing and sends nothing.
Look == List \/ BeginPrune \/ NextKind \/ (\E n \in Names : EntryOK(n))

LEMMA StopCases ==
  ASSUME FinishDry \/ FinishPlan \/ FinishWrite \/ Fail \/ Kill \/ (\E n \in Names : EntryOpaque(n))
  PROVE  \E how \in Endings : Stop(how)
<1> USE DEF Stop, Endings, inputVars, editVars
<1>1. CASE FinishDry
  BY <1>1 DEF FinishDry, RunEnds, fileVars
<1>2. CASE FinishPlan
  BY <1>2 DEF FinishPlan, RunEnds, fileVars, NothingToDo
<1>3. CASE FinishWrite
  BY <1>3 DEF FinishWrite, RunEnds, fileVars
<1>4. CASE Fail
  BY <1>4 DEF Fail
<1>5. CASE Kill
  BY <1>5 DEF Kill
<1>6. CASE \E n \in Names : EntryOpaque(n)
  BY <1>6 DEF EntryOpaque, fileVars
<1>7. QED
  BY <1>1, <1>2, <1>3, <1>4, <1>5, <1>6

LEMMA TouchCases ==
  ASSUME Inv, Outside
  PROVE  \E i \in Ids, after \in Object \cup {NoObject} : Touch(i, after)
<1>1. CASE EditCreate
  <2>1. PICK i \in Ids, k \in Keys, v \in Values :
          /\ live[i] = NoObject /\ existing[i] = NoObject
          /\ Edit(i, [kind |-> k[1], name |-> k[2], value |-> v, origin |-> "USER_DEFINED"])
    BY <1>1 DEF EditCreate
  <2>2. [kind |-> k[1], name |-> k[2], value |-> v, origin |-> "USER_DEFINED"] \in Object
    BY DEF Object, Keys, Origins
  <2>3. QED
    BY <2>1, <2>2 DEF Touch
<1>2. CASE EditChange
  <2>1. PICK i \in Present(live), n \in Names, v \in Values :
          Edit(i, [live[i] EXCEPT !.name = n, !.value = v])
    BY <1>2 DEF EditChange
  <2>2. i \in Ids /\ live[i] \in Object /\ live[i] # NoObject
    BY DEF Present, Inv, TypeOK, Console
  <2> DEFINE new == [live[i] EXCEPT !.name = n, !.value = v]
  <2>3. new \in Object /\ new.kind = live[i].kind /\ new.origin = live[i].origin
    BY <2>2 DEF Object
  <2>4. QED
    BY <2>1, <2>2, <2>3 DEF Touch
<1>3. CASE EditDelete
  BY <1>3 DEF EditDelete, Present, Touch
<1>4. QED
  BY <1>1, <1>2, <1>3 DEF Outside

LEMMA StepCases ==
  ASSUME Inv, [Next]_vars
  PROVE  \/ \E d \in Document, o \in Option, from \in {"instance", "snapshot"} : Start(d, o, from)
         \/ Look
         \/ \E n \in Names : CreateEntry(n)
         \/ \E n \in Names : UpdateEntry(n)
         \/ \E i \in Ids : DeleteVictim(i)
         \/ \E i \in Ids : RefuseVictim(i)
         \/ AcceptPlan \/ SnapshotKind \/ CommitSnapshot
         \/ \E how \in Endings : Stop(how)
         \/ \E i \in Ids, after \in Object \cup {NoObject} : Touch(i, after)
         \/ UNCHANGED vars
<1>1. CASE StartSync
  <2>1. PICK c \in Commands : Launch(c.doc, c.opts, "instance")
    BY <1>1 DEF StartSync
  <2>2. c.doc \in Document /\ c.opts \in Option
    BY InputsAssumption
  <2>3. QED
    BY <2>1, <2>2 DEF Start
<1>2. CASE StartRestore
  <2>1. PICK o \in RestoreOptions :
          Launch([sections |-> KindSet, want |-> saved, deletions |-> {}], o, "snapshot")
    BY <1>2 DEF StartRestore
  <2>2. saved # NoObject /\ [sections |-> KindSet, want |-> saved, deletions |-> {}] \in Document
    BY <1>2 DEF StartRestore, Inv, TypeOK, Document, Keys
  <2>3. o \in Option
    BY InputsAssumption
  <2>4. QED
    BY <2>1, <2>2, <2>3 DEF Start
<1>3. CASE RunStep
  <2>1. CASE PassStep
    BY <2>1, StopCases DEF PassStep, Look
  <2>2. CASE ~PassStep
    BY <1>3, <2>2, StopCases DEF RunStep
  <2>3. QED
    BY <2>1, <2>2
<1>4. CASE Fail \/ Kill
  BY <1>4, StopCases
<1>5. CASE Outside
  BY <1>5, TouchCases
<1>6. QED
  BY <1>1, <1>2, <1>3, <1>4, <1>5 DEF Next

\* Looking changes neither the console nor what the run has logged or sent.
LookFrame ==
  UNCHANGED <<live, doc, opts, source, pass, lines, draft, saved, before, edits, touched,
              disturbed, quiet, planned, applied>>

LEMMA LookFacts ==
  ASSUME Look
  PROVE  LookFrame /\ pc \in {"list", "declared", "prune"} /\ pc' \in {"list", "declared", "prune"}
BY DEF Look, List, BeginPrune, NextKind, EntryOK, LookFrame, inputVars, fileVars, editVars

\* A run that has ended, or starts a pass, has no list.
LEMMA EndClears ==
  ASSUME NEW how \in Endings, End(how)
  PROVE  /\ ~InPass' /\ existing' = Nothing /\ victims' = {} /\ Open' = {}
         /\ pc' = how /\ pc' \notin {"list", "declared", "prune", "snapshot", "commit"}
BY DEF End, Endings, InPass, Open

LEMMA BeginClears ==
  ASSUME NEW p \in {"dry", "plan", "write"}, BeginPass(p)
  PROVE  /\ pass' = p /\ pc' = "list" /\ InPass' /\ existing' = Nothing /\ victims' = {}
         /\ lines' = {} /\ Handled' = {}
BY HandledNone DEF BeginPass, InPass

LEMMA NothingFacts == Unique(Nothing) /\ (\A i \in Ids : Nothing[i] = NoObject)
BY DEF Nothing, Unique, Present

-----------------------------------------------------------------------------
(* The list a pass works on *)

\* Names stay unique; a pass logs only lines it then leaves behind.
Listing ==
  /\ Unique(live) /\ Unique(existing)
  /\ pc = "list" => existing = Nothing
  /\ pc \in {"snapshot", "commit"} => pass = "plan" /\ opts.snapshotDir
  /\ InPass => lines \subseteq Handled

LEMMA InitListing == Init => Listing
<1> SUFFICES ASSUME Init PROVE Listing
  OBVIOUS
<1>1. Unique(live)
  <2>1. /\ live \in Sites
        /\ \A i, j \in Ids :
             live[i] # NoObject /\ live[j] # NoObject
             /\ live[i].kind = live[j].kind /\ live[i].name = live[j].name => i = j
    BY SitesAssumption DEF Init
  <2>2. QED
    BY <2>1 DEF Unique, Present, KeyOf
<1>2. QED
  BY <1>1, NothingFacts DEF Init, Listing, InPass

LEMMA WroteUnique ==
  ASSUME Inv, Listing, NEW verb \in {"CREATE", "UPDATE", "DELETE"}, NEW i \in Ids,
         NEW after \in Object \cup {NoObject}, Wrote(verb, i, after),
         verb = "DELETE" => after = NoObject
  PROVE  Unique(live')
<1>1. CASE live' = live
  BY <1>1 DEF Listing
<1>2. CASE live' # live
  <2>1. /\ live' = [live EXCEPT ![i] = after] /\ live \in Console /\ Unique(live)
        /\ after # NoObject => Holders(live, KeyOf(after)) \subseteq {i}
    BY <1>2 DEF Wrote, Listing, Inv, TypeOK
  <2>2. QED
    BY <2>1, ReplaceUnique
<1>3. QED
  BY <1>1, <1>2

LEMMA ListingEnd ==
  ASSUME NEW how \in Endings, End(how), Unique(live')
  PROVE  Listing'
BY EndClears, NothingFacts DEF Listing

\* A step of the pass over a declared entry or a candidate.
LEMMA ListingGoesOn ==
  ASSUME Listing, pc \in {"declared", "prune"}, pc' = pc, existing' = existing, Unique(live'),
         Handled \subseteq Handled', lines' \subseteq lines \cup Handled'
  PROVE  Listing'
<1>1. /\ Unique(existing) /\ lines \subseteq Handled
  BY DEF Listing, InPass
<1>2. /\ pc' \notin {"list", "snapshot", "commit"}
  OBVIOUS
<1>3. lines' \subseteq Handled'
  BY <1>1
<1>4. QED
  BY <1>1, <1>2, <1>3 DEF Listing

LEMMA ListingStep == ASSUME Inv, Listing, [Next]_vars PROVE Listing'
<1>0. TypeOK /\ Pending /\ Unique(live) /\ Unique(existing)
  BY DEF Inv, Listing
<1>1. ASSUME NEW d \in Document, NEW o \in Option, NEW from \in {"instance", "snapshot"},
             Start(d, o, from)
      PROVE  Listing'
  BY <1>0, <1>1, BeginClears, NothingFacts DEF Start, Launch, Listing
<1>2. CASE Look
  <2>1. LookFrame /\ pc' \in {"list", "declared", "prune"} /\ InPass
    BY <1>2, LookFacts DEF InPass
  <2>2. Unique(live') /\ lines' = lines /\ lines \subseteq Handled
    BY <1>0, <2>1 DEF LookFrame, Listing
  <2>3. Handled \subseteq Handled'
    BY <1>0, <1>2, HandledList, HandledEntry, HandledBeginPrune, HandledNextKind
       DEF Look, EntryOK
  <2>4. Unique(existing') /\ (pc' = "list" => existing' = Nothing)
    <3>1. CASE List
      BY <1>0, <3>1 DEF List, Unique, Present
    <3>2. CASE BeginPrune
      BY <1>0, <3>2 DEF BeginPrune
    <3>3. CASE NextKind
      BY <3>3, NothingFacts DEF NextKind
    <3>4. CASE \E n \in Names : EntryOK(n)
      BY <1>0, <3>4 DEF EntryOK
    <3>5. QED
      BY <1>2, <3>1, <3>2, <3>3, <3>4 DEF Look
  <2>5. QED
    BY <2>1, <2>2, <2>3, <2>4 DEF Listing
<1>3. ASSUME NEW n \in Names, CreateEntry(n) PROVE Listing'
  <2>1. PICK i \in Ids, new \in Object : Wrote("CREATE", i, new)
    BY <1>3, CreateFacts
  <2>2. Unique(live')
    BY <2>1, WroteUnique
  <2>3. /\ n \in todo /\ pc = "declared" /\ <<Kind, n>> \in Keys
        /\ lines' = lines \cup {<<"CREATE", <<Kind, n>>>>}
        /\ \/ todo' = todo \ {n} /\ UNCHANGED <<pc, step, existing, victims>>
           \/ End("failed")
    BY <1>3, CreateFacts
  <2>4. CASE todo' = todo \ {n} /\ UNCHANGED <<pc, step, existing, victims>>
    <3>1. <<"CREATE", <<Kind, n>>>> \in Line
      BY <2>3 DEF Line
    <3>2. Handled \subseteq Handled' /\ <<"CREATE", <<Kind, n>>>> \in Handled'
      BY <1>0, <2>3, <2>4, <3>1, HandledEntry
    <3>3. QED
      BY <2>2, <2>3, <2>4, <3>2, ListingGoesOn
  <2>5. QED
    BY <2>2, <2>3, <2>4, ListingEnd DEF Endings
<1>4. ASSUME NEW n \in Names, UpdateEntry(n) PROVE Listing'
  <2>1. PICK i \in Ids, new \in Object : Wrote("UPDATE", i, new)
    BY <1>4, UpdateFacts
  <2>2. Unique(live')
    BY <2>1, WroteUnique
  <2>3. /\ n \in todo /\ pc = "declared" /\ <<Kind, n>> \in Keys
        /\ lines' = lines \cup {<<"UPDATE", <<Kind, n>>>>}
        /\ \/ todo' = todo \ {n} /\ UNCHANGED <<pc, step, existing, victims>>
           \/ End("failed")
    BY <1>4, UpdateFacts
  <2>4. CASE todo' = todo \ {n} /\ UNCHANGED <<pc, step, existing, victims>>
    <3>1. <<"UPDATE", <<Kind, n>>>> \in Line
      BY <2>3 DEF Line
    <3>2. Handled \subseteq Handled' /\ <<"UPDATE", <<Kind, n>>>> \in Handled'
      BY <1>0, <2>3, <2>4, <3>1, HandledEntry
    <3>3. QED
      BY <2>2, <2>3, <2>4, <3>2, ListingGoesOn
  <2>5. QED
    BY <2>2, <2>3, <2>4, ListingEnd DEF Endings
<1>5. ASSUME NEW i \in Ids, DeleteVictim(i) PROVE Listing'
  <2>1. /\ i \in victims /\ pc = "prune" /\ Wrote("DELETE", i, NoObject)
        /\ lines' = lines \cup {<<"DELETE", KeyOf(existing[i])>>}
        /\ \/ victims' = victims \ {i} /\ UNCHANGED <<pc, step, existing, todo>>
           \/ End("failed")
    BY <1>5, DeleteFacts
  <2>2. Unique(live')
    BY <2>1, WroteUnique
  <2>3. CASE victims' = victims \ {i} /\ UNCHANGED <<pc, step, existing, todo>>
    <3>1. Handled \subseteq Handled' /\ <<"DELETE", KeyOf(existing[i])>> \in Handled'
      BY <1>0, <2>1, <2>3, HandledVictim
    <3>2. QED
      BY <2>1, <2>2, <2>3, <3>1, ListingGoesOn
  <2>4. QED
    BY <2>1, <2>2, <2>3, ListingEnd DEF Endings
<1>6. ASSUME NEW i \in Ids, RefuseVictim(i) PROVE Listing'
  <2>1. /\ i \in victims /\ pc = "prune" /\ live' = live
        /\ \/ /\ lines' = lines \cup {<<"DELETE", KeyOf(existing[i])>>}
              /\ victims' = victims \ {i} /\ UNCHANGED <<pc, step, existing, todo>>
           \/ End("stopped")
    BY <1>6, RefuseFacts
  <2>2. CASE /\ lines' = lines \cup {<<"DELETE", KeyOf(existing[i])>>}
             /\ victims' = victims \ {i} /\ UNCHANGED <<pc, step, existing, todo>>
    <3>1. Handled \subseteq Handled' /\ <<"DELETE", KeyOf(existing[i])>> \in Handled'
      BY <1>0, <2>1, <2>2, HandledVictim
    <3>2. QED
      BY <1>0, <2>1, <2>2, <3>1, ListingGoesOn
  <2>3. QED
    BY <1>0, <2>1, <2>2, ListingEnd DEF Endings
<1>7. CASE AcceptPlan
  <2>1. CASE TakesSnapshot
    <3>1. /\ pc' = "snapshot" /\ existing' = Nothing /\ live' = live /\ pass' = pass
          /\ opts' = opts /\ pass = "plan" /\ opts.snapshotDir
      BY <1>7, <2>1 DEF AcceptPlan, inputVars, TakesSnapshot
    <3>2. QED
      BY <1>0, <3>1, NothingFacts DEF Listing, InPass
  <2>2. CASE ~TakesSnapshot
    BY <1>0, <1>7, <2>2, BeginClears, NothingFacts DEF AcceptPlan, Listing
  <2>3. QED
    BY <2>1, <2>2
<1>8. CASE SnapshotKind
  BY <1>0, <1>8 DEF SnapshotKind, Listing, InPass, inputVars
<1>9. CASE CommitSnapshot
  <2>1. live' = live /\ (BeginPass("write") \/ End("failed"))
    BY <1>9 DEF CommitSnapshot
  <2>2. CASE BeginPass("write")
    BY <1>0, <2>1, <2>2, BeginClears, NothingFacts DEF Listing
  <2>3. QED
    BY <1>0, <2>1, <2>2, ListingEnd DEF Endings
<1>10. ASSUME NEW how \in Endings, Stop(how) PROVE Listing'
  BY <1>0, <1>10, ListingEnd DEF Stop
<1>11. ASSUME NEW i \in Ids, NEW after \in Object \cup {NoObject}, Touch(i, after)
       PROVE  Listing'
  <2>1. /\ live' = [live EXCEPT ![i] = after] /\ live \in Console
        /\ after # NoObject => Holders(live, KeyOf(after)) \subseteq {i}
    BY <1>0, <1>11 DEF Touch, Edit, TypeOK
  <2>2. Unique(live')
    BY <1>0, <2>1, ReplaceUnique
  <2>3. UNCHANGED <<pc, pass, opts, lines, step, todo, victims, existing>>
    BY <1>11 DEF Touch, Edit, passVars, inputVars
  <2>4. Handled' = Handled
    BY <2>3 DEF Handled, Ahead, Kind
  <2>5. QED
    BY <2>2, <2>3, <2>4 DEF Listing, InPass
<1>12. CASE UNCHANGED vars
  <2>1. UNCHANGED <<live, pc, pass, opts, lines, step, todo, victims, existing>>
    BY <1>12 DEF vars, passVars, inputVars
  <2>2. Handled' = Handled
    BY <2>1 DEF Handled, Ahead, Kind
  <2>3. QED
    BY <2>1, <2>2 DEF Listing, InPass
<1>13. QED
  BY <1>1, <1>2, <1>3, <1>4, <1>5, <1>6, <1>7, <1>8, <1>9, <1>10, <1>11, <1>12, StepCases

-----------------------------------------------------------------------------
(* Where the list is up to date *)

\* The keys of entries and objects the pass is about to decide on.
Waiting ==
  {k \in Keys : pc = "declared" /\ k[1] = Kind /\ (k[2] \in todo \/ doc.want[k] = Unset)}

\* For what it is about to decide on, the list has what the console has,
\* unless somebody edited the object.
Fresh ==
  \A i \in Ids \ touched :
    /\ existing[i] # NoObject /\ KeyOf(existing[i]) \in Waiting => live[i] = existing[i]
    /\ live[i] # NoObject /\ KeyOf(live[i]) \in Waiting => live[i] = existing[i]
    /\ i \in victims => live[i] = existing[i]

\* What is waiting is not handled.
LEMMA WaitingLines ==
  ASSUME TypeOK, pc = "declared", NEW n \in todo
  PROVE  \A l \in Handled : l[2] # <<Kind, n>>
<1>1. \A l \in Handled : l[2][1] = Kind => l[2][2] \notin todo
  BY DEF Handled
<1>2. QED
  BY <1>1

LEMMA VictimLine == \A i \in victims : <<"DELETE", KeyOf(existing[i])>> \notin Handled
<1> SUFFICES ASSUME NEW i \in victims, <<"DELETE", KeyOf(existing[i])>> \in Handled PROVE FALSE
  OBVIOUS
<1> DEFINE l == <<"DELETE", KeyOf(existing[i])>>
<1>1. l[1] = "DELETE" /\ l[2] = KeyOf(existing[i]) /\ l \in Handled
  OBVIOUS
<1> HIDE DEF l
<1>2. QED
  BY <1>1 DEF Handled

LEMMA FreshNone == ASSUME pc' # "declared", victims' = {} PROVE Fresh'
BY DEF Fresh, Waiting

\* One id is written, and what it held and holds is no longer waiting.
LEMMA FreshWrite ==
  ASSUME Fresh, NEW i \in Ids, \A j \in Ids : j # i => live'[j] = live[j],
         existing' = existing, touched' = touched, Waiting' \subseteq Waiting,
         victims' \subseteq victims \ {i},
         existing[i] # NoObject => KeyOf(existing[i]) \notin Waiting',
         live'[i] # NoObject => KeyOf(live'[i]) \notin Waiting'
  PROVE  Fresh'
BY DEF Fresh

LEMMA FreshLess ==
  ASSUME Fresh, live' = live, existing' = existing, touched \subseteq touched',
         Waiting' \subseteq Waiting, victims' \subseteq victims
  PROVE  Fresh'
BY DEF Fresh

\* What a handled entry leaves waiting.
LEMMA WaitingEntry ==
  ASSUME TypeOK, NEW n \in todo, pc = "declared", todo' = todo \ {n},
         UNCHANGED <<pc, step, doc>>, doc.want[<<Kind, n>>] # Unset
  PROVE  /\ Waiting' \subseteq Waiting /\ <<Kind, n>> \notin Waiting'
         /\ <<Kind, n>> \in Waiting
<1>1. Kind' = Kind
  BY DEF Kind
<1>2. <<Kind, n>> \in Keys
  BY KindNow DEF TypeOK
<1>3. QED
  BY <1>1, <1>2 DEF Waiting

LEMMA FreshStep == ASSUME Inv, Listing, Fresh, [Next]_vars PROVE Fresh'
<1>0. TypeOK /\ Pending /\ live \in Console /\ existing \in Console /\ doc \in Document
  BY DEF Inv, TypeOK
<1>1. ASSUME NEW d \in Document, NEW o \in Option, NEW from \in {"instance", "snapshot"},
             Start(d, o, from)
      PROVE  Fresh'
  BY <1>1, FreshNone, BeginClears DEF Start, Launch
<1>2. CASE Look
  <2>1. LookFrame
    BY <1>2, LookFacts
  <2>2. CASE List
    <3>1. /\ \A i \in Ids : existing'[i] = IF live[i] # NoObject /\ live[i].kind = Kind
                                           THEN live[i] ELSE NoObject
          /\ Kind' = Kind /\ victims' = {}
      BY <1>0, <2>2 DEF List, Pending, Kind
    <3>2. \A i \in Ids : live[i] # NoObject /\ KeyOf(live[i]) \in Waiting' => live[i].kind = Kind
      BY <3>1 DEF Waiting, KeyOf
    <3>3. QED
      BY <2>1, <3>1, <3>2 DEF Fresh, LookFrame
  <2>3. CASE BeginPrune
    <3>1. /\ pc = "declared" /\ pc' = "prune" /\ existing' = existing
          /\ victims' = {i \in Present(existing) : Prunable(i)}
      BY <2>3 DEF BeginPrune
    <3>2. ASSUME NEW i \in victims' PROVE i \in Ids /\ KeyOf(existing[i]) \in Waiting
      <4>1. i \in Ids /\ existing[i] \in Object /\ existing[i].kind = Kind
            /\ existing[i].name \notin Declared
        BY <1>0, <3>1, <3>2 DEF Present, Console, Pending, Prunable
      <4>2. KeyOf(existing[i]) = <<Kind, existing[i].name>> /\ existing[i].name \in Names
            /\ KeyOf(existing[i]) \in Keys
        BY <1>0, <4>1, ObjectFacts
      <4>3. doc.want[KeyOf(existing[i])] = Unset
        BY <4>1, <4>2 DEF Declared
      <4>4. QED
        BY <3>1, <4>1, <4>2, <4>3 DEF Waiting
    <3>3. \A i \in victims' : existing[i] # NoObject
      BY <3>1 DEF Present
    <3>4. Waiting' = {}
      BY <3>1 DEF Waiting
    <3>5. QED
      BY <2>1, <3>1, <3>2, <3>3, <3>4 DEF Fresh, LookFrame
  <2>4. CASE NextKind
    BY <2>4, FreshNone DEF NextKind
  <2>5. ASSUME NEW n \in Names, EntryOK(n) PROVE Fresh'
    <3>1. /\ pc = "declared" /\ n \in todo /\ todo' = todo \ {n}
          /\ UNCHANGED <<pc, step, existing, victims>>
      BY <2>5 DEF EntryOK
    <3>2. doc.want[<<Kind, n>>] # Unset
      BY <1>0, <3>1 DEF Pending
    <3>3. Waiting' \subseteq Waiting
      BY <1>0, <2>1, <3>1, <3>2, WaitingEntry DEF LookFrame
    <3>4. QED
      BY <2>1, <3>1, <3>3, FreshLess DEF LookFrame
  <2>6. QED
    BY <1>2, <2>2, <2>3, <2>4, <2>5 DEF Look
<1>3. ASSUME NEW n \in Names, CreateEntry(n) PROVE Fresh'
  <2>1. PICK i \in Ids, new \in Object :
          /\ KeyOf(new) = <<Kind, n>> /\ existing[i] = NoObject
          /\ Wrote("CREATE", i, new)
    BY <1>3, CreateFacts
  <2>2. /\ n \in todo /\ pc = "declared" /\ Frame /\ doc.want[<<Kind, n>>] # Unset
        /\ \/ todo' = todo \ {n} /\ UNCHANGED <<pc, step, existing, victims>>
           \/ End("failed")
    BY <1>3, CreateFacts, ValuesAssumption
  <2>3. CASE todo' = todo \ {n} /\ UNCHANGED <<pc, step, existing, victims>>
    <3>1. Waiting' \subseteq Waiting /\ <<Kind, n>> \notin Waiting' /\ victims = {}
      BY <1>0, <2>2, <2>3, WaitingEntry DEF Frame, Pending
    <3>2. CASE live' = live
      BY <2>2, <2>3, <3>1, <3>2, FreshLess DEF Frame
    <3>3. CASE live' # live
      <4>1. live' = [live EXCEPT ![i] = new]
        BY <2>1, <3>3 DEF Wrote
      <4>2. (\A j \in Ids : j # i => live'[j] = live[j]) /\ live'[i] = new
        BY <1>0, <4>1 DEF Console
      <4>3. QED
        BY <2>1, <2>2, <2>3, <3>1, <4>2, FreshWrite DEF Frame
    <3>4. QED
      BY <3>2, <3>3
  <2>4. QED
    BY <2>2, <2>3, FreshNone, EndClears DEF Endings
<1>4. ASSUME NEW n \in Names, UpdateEntry(n) PROVE Fresh'
  <2>1. PICK i \in Ids, new \in Object :
          /\ KeyOf(new) = <<Kind, n>> /\ KeyOf(existing[i]) = <<Kind, n>>
          /\ Wrote("UPDATE", i, new)
    BY <1>4, UpdateFacts
  <2>2. /\ n \in todo /\ pc = "declared" /\ Frame /\ doc.want[<<Kind, n>>] # Unset
        /\ \/ todo' = todo \ {n} /\ UNCHANGED <<pc, step, existing, victims>>
           \/ End("failed")
    BY <1>4, UpdateFacts, ValuesAssumption
  <2>3. CASE todo' = todo \ {n} /\ UNCHANGED <<pc, step, existing, victims>>
    <3>1. Waiting' \subseteq Waiting /\ <<Kind, n>> \notin Waiting' /\ victims = {}
      BY <1>0, <2>2, <2>3, WaitingEntry DEF Frame, Pending
    <3>2. CASE live' = live
      BY <2>2, <2>3, <3>1, <3>2, FreshLess DEF Frame
    <3>3. CASE live' # live
      <4>1. live' = [live EXCEPT ![i] = new]
        BY <2>1, <3>3 DEF Wrote
      <4>2. (\A j \in Ids : j # i => live'[j] = live[j]) /\ live'[i] = new
        BY <1>0, <4>1 DEF Console
      <4>3. QED
        BY <2>1, <2>2, <2>3, <3>1, <4>2, FreshWrite DEF Frame
    <3>4. QED
      BY <3>2, <3>3
  <2>4. QED
    BY <2>2, <2>3, FreshNone, EndClears DEF Endings
<1>5. ASSUME NEW i \in Ids, DeleteVictim(i) PROVE Fresh'
  <2>1. /\ pc = "prune" /\ Wrote("DELETE", i, NoObject) /\ Frame
        /\ \/ victims' = victims \ {i} /\ UNCHANGED <<pc, step, existing, todo>>
           \/ End("failed")
    BY <1>5, DeleteFacts
  <2>2. CASE victims' = victims \ {i} /\ UNCHANGED <<pc, step, existing, todo>>
    <3>1. Waiting' = {}
      BY <2>1, <2>2 DEF Waiting
    <3>2. CASE live' = live
      BY <2>1, <2>2, <3>1, <3>2, FreshLess DEF Frame
    <3>3. CASE live' # live
      <4>1. live' = [live EXCEPT ![i] = NoObject]
        BY <2>1, <3>3 DEF Wrote
      <4>2. \A j \in Ids : j # i => live'[j] = live[j]
        BY <1>0, <4>1 DEF Console
      <4>3. QED
        BY <2>1, <2>2, <3>1, <4>2, FreshWrite DEF Frame
    <3>4. QED
      BY <3>2, <3>3
  <2>3. QED
    BY <2>1, <2>2, FreshNone, EndClears DEF Endings
<1>6. ASSUME NEW i \in Ids, RefuseVictim(i) PROVE Fresh'
  <2>1. /\ pc = "prune" /\ live' = live /\ touched' = touched
        /\ \/ victims' = victims \ {i} /\ UNCHANGED <<pc, step, existing, todo>>
           \/ End("stopped")
    BY <1>6, RefuseFacts
  <2>2. CASE victims' = victims \ {i} /\ UNCHANGED <<pc, step, existing, todo>>
    <3>1. Waiting' = {}
      BY <2>1, <2>2 DEF Waiting
    <3>2. QED
      BY <2>1, <2>2, <3>1, FreshLess
  <2>3. QED
    BY <2>1, <2>2, FreshNone, EndClears DEF Endings
<1>7. CASE AcceptPlan
  <2>1. victims = {}
    BY <1>7 DEF AcceptPlan, PassDone
  <2>2. CASE TakesSnapshot
    BY <1>7, <2>1, <2>2, FreshNone DEF AcceptPlan
  <2>3. CASE ~TakesSnapshot
    BY <1>7, <2>3, FreshNone, BeginClears DEF AcceptPlan
  <2>4. QED
    BY <2>2, <2>3
<1>8. CASE SnapshotKind
  BY <1>0, <1>8, FreshNone DEF SnapshotKind, Pending
<1>9. CASE CommitSnapshot
  BY <1>9, FreshNone, EndClears, BeginClears DEF CommitSnapshot, Endings
<1>10. ASSUME NEW how \in Endings, Stop(how) PROVE Fresh'
  BY <1>10, FreshNone, EndClears DEF Stop
<1>11. ASSUME NEW i \in Ids, NEW after \in Object \cup {NoObject}, Touch(i, after)
       PROVE  Fresh'
  <2>1. /\ live' = [live EXCEPT ![i] = after] /\ touched' = touched \cup {i}
        /\ UNCHANGED <<pc, doc, step, todo, victims, existing>>
    BY <1>11 DEF Touch, Edit, passVars, inputVars
  <2>2. Waiting' = Waiting
    BY <2>1 DEF Waiting, Kind
  <2>3. \A j \in Ids : j # i => live'[j] = live[j]
    BY <1>0, <2>1 DEF Console
  <2>4. QED
    BY <2>1, <2>2, <2>3 DEF Fresh
<1>12. CASE UNCHANGED vars
  <2>1. UNCHANGED <<live, pc, doc, step, todo, victims, existing, touched>>
    BY <1>12 DEF vars, passVars, inputVars, editVars
  <2>2. Waiting' = Waiting
    BY <2>1 DEF Waiting, Kind
  <2>3. QED
    BY <2>1, <2>2, FreshLess
<1>13. QED
  BY <1>1, <1>2, <1>3, <1>4, <1>5, <1>6, <1>7, <1>8, <1>9, <1>10, <1>11, <1>12, StepCases

-----------------------------------------------------------------------------
(* What the plan and the snapshot know of what will be changed *)

\* The objects nobody edited that the document wants changed.
Misfits == {i \in Ids \ touched : live[i] # NoObject /\ Wrong(live[i], doc, opts)}

\* The kinds the snapshot has read.
Read == {Kinds[s] : s \in {t \in 1..Len(Kinds) : t < step \/ pc = "commit"}}

\* The plan has a line for each of them the planning pass is past, and the
\* draft has what was read.
Foreseen ==
  /\ InPass /\ pass # "write" =>
       \A i \in Misfits : LineOf(live[i], doc) \in Handled => LineOf(live[i], doc) \in lines
  /\ pc \in {"snapshot", "commit"} =>
       /\ \A i \in Misfits : LineOf(live[i], doc) \in planned
       /\ \A i \in Ids \ touched :
            live[i] # NoObject /\ live[i].kind \in Read /\ ~IsOpaque(live[i]) =>
              draft[KeyOf(live[i])] = live[i].value

\* What the writing pass will come to is in the plan and in the snapshot.
Ready ==
  InPass /\ pass = "write" =>
    \A i \in Misfits :
      LineOf(live[i], doc) \notin Handled =>
        /\ LineOf(live[i], doc) \in planned
        /\ opts.snapshotDir /\ ~IsOpaque(live[i]) =>
             saved # NoObject /\ saved[KeyOf(live[i])] = live[i].value

\* Looking never puts behind a change that has to be made.
LEMMA LookMisfits ==
  ASSUME Inv, Listing, Fresh, Look, NEW i \in Misfits, LineOf(live[i], doc) \in Handled'
  PROVE  LineOf(live[i], doc) \in Handled
<1> DEFINE o == live[i]
           l == LineOf(o, doc)
<1>1. TypeOK /\ Pending /\ doc \in Document /\ existing \in Console /\ Unique(existing)
  BY DEF Inv, TypeOK, Listing
<1>2. i \in Ids /\ i \notin touched /\ o \in Object /\ o # NoObject /\ Wrong(o, doc, opts)
  BY <1>1 DEF Misfits, TypeOK, Console
<1>3. /\ l \in Line /\ l[2] = KeyOf(o) /\ KeyOf(o) \in Keys /\ KeyOf(o) = <<o.kind, o.name>>
      /\ (l[1] = "DELETE" <=> doc.want[KeyOf(o)] = Unset) /\ KeyOf(o)[1] = o.kind
      /\ KeyOf(o)[2] = o.name
  BY <1>1, <1>2, ObjectFacts
<1>4. KeyOf(o) \in Waiting => existing[i] = o
  BY <1>2 DEF Fresh
<1> SUFFICES ASSUME l \notin Handled PROVE FALSE
  OBVIOUS
<1> HIDE DEF l
<1>5. l \in Handled' \ Handled
  BY DEF l
<1>6. CASE List
  <2>1. l[1] # "DELETE" /\ doc.want[l[2]] = Unset
    BY <1>1, <1>5, <1>6, HandledList
  <2>2. QED
    BY <1>3, <2>1
<1>7. CASE NextKind
  BY <1>1, <1>5, <1>7, HandledNextKind
<1>8. CASE BeginPrune
  <2>1. /\ l[1] = "DELETE" /\ l[2][1] = Kind /\ pc = "declared"
        /\ \A v \in Present(existing) : Prunable(v) => KeyOf(existing[v]) # l[2]
    BY <1>1, <1>5, <1>8, HandledBeginPrune DEF BeginPrune
  <2>2. KeyOf(o) \in Waiting /\ o.kind = Kind
    BY <1>3, <2>1 DEF Waiting
  <2>3. existing[i] = o /\ i \in Present(existing)
    BY <1>2, <1>4, <2>2 DEF Present
  <2>4. opts.prune /\ o.kind \in doc.sections /\ o.origin = "USER_DEFINED"
    BY <1>2, <1>3, <2>1 DEF Wrong
  <2>5. o.name \notin Declared
    BY <1>3, <2>1, <2>2 DEF Declared
  <2>6. Prunable(i)
    BY <2>2, <2>3, <2>4, <2>5 DEF Prunable
  <2>7. QED
    BY <1>3, <2>1, <2>3, <2>6
<1>9. ASSUME NEW n \in Names, EntryOK(n) PROVE FALSE
  <2>1. /\ pc = "declared" /\ n \in todo /\ todo' = todo \ {n}
        /\ UNCHANGED <<pc, step, existing, victims, doc>>
    BY <1>9 DEF EntryOK, inputVars
  <2>2. l[1] # "DELETE" /\ l[2] = <<Kind, n>>
    BY <1>1, <1>5, <2>1, HandledEntry
  <2>3. doc.want[<<Kind, n>>] # Unset /\ <<Kind, n>> \in Waiting
    BY <1>1, <2>1, WaitingEntry DEF Pending
  <2>4. existing[i] = o /\ i \in Present(existing)
    BY <1>2, <1>3, <1>4, <2>2, <2>3 DEF Present
  <2>5. PICK h \in Holders(existing, <<Kind, n>>) : existing[h].value = doc.want[<<Kind, n>>]
    BY <1>9 DEF EntryOK
  <2>6. h = i
    BY <1>1, <1>3, <2>2, <2>4, <2>5 DEF Holders, Unique
  <2>7. QED
    BY <1>2, <1>3, <2>2, <2>3, <2>4, <2>5, <2>6 DEF Wrong
<1>10. QED
  BY <1>6, <1>7, <1>8, <1>9 DEF Look

\* What a run writes is as the document wants it.
LEMMA WrittenIsRight ==
  ASSUME Inv, NEW o \in Object, doc.want[KeyOf(o)] # Unset, o.value = doc.want[KeyOf(o)]
  PROVE  ~Wrong(o, doc, opts)
BY DEF Wrong

\* A write leaves the other misfits as they are.
LEMMA MisfitsWrite ==
  ASSUME Inv, NEW verb \in {"CREATE", "UPDATE", "DELETE"}, NEW i \in Ids,
         NEW after \in Object \cup {NoObject}, Wrote(verb, i, after), Frame,
         after # NoObject => ~Wrong(after, doc, opts)
  PROVE  \A j \in Misfits' : j \in Misfits /\ live'[j] = live[j]
<1>1. CASE live' = live
  BY <1>1 DEF Misfits, Frame
<1>2. CASE live' # live
  <2>1. live' = [live EXCEPT ![i] = after] /\ live \in Console
    BY <1>2 DEF Wrote, Inv, TypeOK
  <2>2. (\A j \in Ids : j # i => live'[j] = live[j]) /\ live'[i] = after
    BY <2>1 DEF Console
  <2>3. i \notin Misfits'
    BY <2>2 DEF Misfits, Frame
  <2>4. QED
    BY <2>2, <2>3 DEF Misfits, Frame
<1>3. QED
  BY <1>1, <1>2

\* The end of a pass, and a step that is not of a pass, promise nothing.
LEMMA NothingPromised ==
  ASSUME ~InPass', pc' \notin {"snapshot", "commit"} PROVE Foreseen' /\ Ready'
BY DEF Foreseen, Ready

\* A step of a pass that logs line l keeps the promises.
LEMMA PromisedStep ==
  ASSUME Inv, Foreseen, Ready, NEW l, Frame, InPass,
         Handled \subseteq Handled', lines' = lines \cup {l}, pc' \notin {"snapshot", "commit"},
         pass # "write" => live' = live,
         pass # "write" => \A i \in Misfits : LineOf(live[i], doc) \in Handled' \ Handled
                                                => LineOf(live[i], doc) = l,
         \A j \in Misfits' : j \in Misfits /\ live'[j] = live[j]
  PROVE  Foreseen' /\ Ready'
<1>1. Foreseen'
  BY DEF Foreseen, Misfits, Frame
<1>2. Ready'
  BY DEF Ready, Frame
<1>3. QED
  BY <1>1, <1>2

\* What a plan that is complete has a line for.
LEMMA PlanComplete ==
  ASSUME Inv, Foreseen, PassDone, pass # "write"
  PROVE  \A i \in Misfits : LineOf(live[i], doc) \in lines
<1>1. Handled = Line /\ InPass
  BY HandledAll DEF Inv, PassDone, InPass
<1>2. \A i \in Misfits : LineOf(live[i], doc) \in Line
  BY ObjectFacts DEF Misfits, Inv, TypeOK, Console
<1>3. QED
  BY <1>1, <1>2 DEF Foreseen

\* The lines of a handled entry.
LEMMA EntryLine ==
  ASSUME Inv, NEW n \in todo, pc = "declared", todo' = todo \ {n},
         UNCHANGED <<pc, step, existing, victims>>, NEW i \in Misfits,
         LineOf(live[i], doc) \in Handled' \ Handled
  PROVE  KeyOf(live[i]) = <<Kind, n>> /\ LineOf(live[i], doc) = <<"UPDATE", <<Kind, n>>>>
<1>1. LineOf(live[i], doc)[1] # "DELETE" /\ LineOf(live[i], doc)[2] = <<Kind, n>>
  BY HandledEntry DEF Inv
<1>2. live[i] \in Object /\ doc \in Document
  BY DEF Misfits, Inv, TypeOK, Console
<1>3. QED
  BY <1>1, <1>2, ObjectFacts DEF LineOf

LEMMA PromisedNext ==
  ASSUME Inv, Listing, Fresh, Foreseen, Ready, [Next]_vars PROVE Foreseen' /\ Ready'
<1>0. /\ TypeOK /\ Pending /\ live \in Console /\ existing \in Console /\ doc \in Document
      /\ Unique(live) /\ Unique(existing)
  BY DEF Inv, TypeOK, Listing
<1>1. ASSUME NEW d \in Document, NEW o \in Option, NEW from \in {"instance", "snapshot"},
             Start(d, o, from)
      PROVE  Foreseen' /\ Ready'
  <2>1. pass' \in {"dry", "plan"} /\ pc' = "list" /\ Handled' = {}
    BY <1>1, BeginClears DEF Start, Launch
  <2>2. QED
    BY <2>1 DEF Foreseen, Ready
<1>2. CASE Look
  <2>1. LookFrame /\ InPass /\ pc' \notin {"snapshot", "commit"}
    BY <1>2, LookFacts DEF InPass
  <2>2. Misfits' = Misfits
    BY <2>1 DEF Misfits, LookFrame
  <2>3. Handled \subseteq Handled'
    BY <1>0, <1>2, HandledList, HandledEntry, HandledBeginPrune, HandledNextKind
       DEF Look, EntryOK
  <2>4. \A i \in Misfits : LineOf(live[i], doc) \in Handled' => LineOf(live[i], doc) \in Handled
    BY <1>2, LookMisfits
  <2>5. Foreseen'
    BY <2>1, <2>2, <2>4 DEF Foreseen, LookFrame
  <2>6. Ready'
    BY <2>1, <2>2, <2>3 DEF Ready, LookFrame
  <2>7. QED
    BY <2>5, <2>6
<1>3. ASSUME NEW n \in Names, CreateEntry(n) PROVE Foreseen' /\ Ready'
  <2>1. PICK i \in Ids, new \in Object :
          /\ KeyOf(new) = <<Kind, n>> /\ new.value = doc.want[<<Kind, n>>]
          /\ Wrote("CREATE", i, new)
    BY <1>3, CreateFacts
  <2>2. /\ n \in todo /\ pc = "declared" /\ Frame /\ doc.want[<<Kind, n>>] # Unset
        /\ Holders(existing, <<Kind, n>>) = {}
        /\ lines' = lines \cup {<<"CREATE", <<Kind, n>>>>}
        /\ \/ todo' = todo \ {n} /\ UNCHANGED <<pc, step, existing, victims>>
           \/ End("failed")
    BY <1>3, CreateFacts, ValuesAssumption
  <2>3. CASE todo' = todo \ {n} /\ UNCHANGED <<pc, step, existing, victims>>
    <3>1. \A j \in Misfits' : j \in Misfits /\ live'[j] = live[j]
      BY <2>1, <2>2, MisfitsWrite, WrittenIsRight
    <3>2. pass # "write" => live' = live
      BY <2>1 DEF Wrote
    <3>3. Handled \subseteq Handled'
      BY <1>0, <2>2, <2>3, HandledEntry
    <3>4. ASSUME NEW j \in Misfits, LineOf(live[j], doc) \in Handled' \ Handled PROVE FALSE
      <4>1. KeyOf(live[j]) = <<Kind, n>>
        BY <2>2, <2>3, <3>4, EntryLine
      <4>2. <<Kind, n>> \in Waiting
        BY <1>0, <2>2, <2>3, WaitingEntry DEF Frame
      <4>3. j \in Ids /\ existing[j] = live[j] /\ live[j] # NoObject
        BY <4>1, <4>2 DEF Fresh, Misfits
      <4>4. j \in Holders(existing, <<Kind, n>>)
        BY <4>1, <4>3 DEF Holders, Present
      <4>5. QED
        BY <2>2, <4>4
    <3>5. InPass /\ pc' \notin {"snapshot", "commit"}
      BY <2>2, <2>3 DEF InPass
    <3>6. QED
      BY <2>2, <3>1, <3>2, <3>3, <3>4, <3>5, PromisedStep
  <2>4. QED
    BY <2>2, <2>3, NothingPromised, EndClears DEF Endings
<1>4. ASSUME NEW n \in Names, UpdateEntry(n) PROVE Foreseen' /\ Ready'
  <2>1. PICK i \in Ids, new \in Object :
          /\ KeyOf(new) = <<Kind, n>> /\ new.value = doc.want[<<Kind, n>>]
          /\ Wrote("UPDATE", i, new)
    BY <1>4, UpdateFacts
  <2>2. /\ n \in todo /\ pc = "declared" /\ Frame /\ doc.want[<<Kind, n>>] # Unset
        /\ lines' = lines \cup {<<"UPDATE", <<Kind, n>>>>}
        /\ \/ todo' = todo \ {n} /\ UNCHANGED <<pc, step, existing, victims>>
           \/ End("failed")
    BY <1>4, UpdateFacts, ValuesAssumption
  <2>3. CASE todo' = todo \ {n} /\ UNCHANGED <<pc, step, existing, victims>>
    <3>1. \A j \in Misfits' : j \in Misfits /\ live'[j] = live[j]
      BY <2>1, <2>2, MisfitsWrite, WrittenIsRight
    <3>2. pass # "write" => live' = live
      BY <2>1 DEF Wrote
    <3>3. Handled \subseteq Handled'
      BY <1>0, <2>2, <2>3, HandledEntry
    <3>4. \A j \in Misfits : LineOf(live[j], doc) \in Handled' \ Handled
                               => LineOf(live[j], doc) = <<"UPDATE", <<Kind, n>>>>
      BY <2>2, <2>3, EntryLine
    <3>5. InPass /\ pc' \notin {"snapshot", "commit"}
      BY <2>2, <2>3 DEF InPass
    <3>6. QED
      BY <2>2, <3>1, <3>2, <3>3, <3>4, <3>5, PromisedStep
  <2>4. QED
    BY <2>2, <2>3, NothingPromised, EndClears DEF Endings
<1>5. ASSUME NEW i \in Ids, DeleteVictim(i) PROVE Foreseen' /\ Ready'
  <2>1. /\ i \in victims /\ pc = "prune" /\ Wrote("DELETE", i, NoObject) /\ Frame
        /\ lines' = lines \cup {<<"DELETE", KeyOf(existing[i])>>}
        /\ \/ victims' = victims \ {i} /\ UNCHANGED <<pc, step, existing, todo>>
           \/ End("failed")
    BY <1>5, DeleteFacts
  <2>2. CASE victims' = victims \ {i} /\ UNCHANGED <<pc, step, existing, todo>>
    <3>1. \A j \in Misfits' : j \in Misfits /\ live'[j] = live[j]
      BY <2>1, MisfitsWrite
    <3>2. pass # "write" => live' = live
      BY <2>1 DEF Wrote
    <3>3. /\ Handled \subseteq Handled'
          /\ \A l \in Handled' \ Handled : l = <<"DELETE", KeyOf(existing[i])>>
      BY <1>0, <2>1, <2>2, HandledVictim
    <3>4. InPass /\ pc' \notin {"snapshot", "commit"}
      BY <2>1, <2>2 DEF InPass
    <3>5. QED
      BY <2>1, <3>1, <3>2, <3>3, <3>4, PromisedStep
  <2>3. QED
    BY <2>1, <2>2, NothingPromised, EndClears DEF Endings
<1>6. ASSUME NEW i \in Ids, RefuseVictim(i) PROVE Foreseen' /\ Ready'
  <2>1. /\ i \in victims /\ pc = "prune"
        /\ UNCHANGED <<live, doc, opts, touched, planned, saved, pass>>
        /\ \/ /\ pass # "write" /\ lines' = lines \cup {<<"DELETE", KeyOf(existing[i])>>}
              /\ victims' = victims \ {i} /\ UNCHANGED <<pc, step, existing, todo>>
           \/ End("stopped")
    BY <1>6, RefuseFacts
  <2>2. CASE /\ pass # "write" /\ lines' = lines \cup {<<"DELETE", KeyOf(existing[i])>>}
             /\ victims' = victims \ {i} /\ UNCHANGED <<pc, step, existing, todo>>
    <3>1. Misfits' = Misfits
      BY <2>1 DEF Misfits
    <3>2. \A l \in Handled' \ Handled : l = <<"DELETE", KeyOf(existing[i])>>
      BY <1>0, <2>1, <2>2, HandledVictim
    <3>3. InPass /\ pc' \notin {"snapshot", "commit"}
      BY <2>1, <2>2 DEF InPass
    <3>4. Foreseen'
      BY <2>1, <2>2, <3>1, <3>2, <3>3 DEF Foreseen
    <3>5. Ready'
      BY <2>1, <2>2 DEF Ready
    <3>6. QED
      BY <3>4, <3>5
  <2>3. QED
    BY <2>1, <2>2, NothingPromised, EndClears DEF Endings
<1>7. CASE AcceptPlan
  <2>1. /\ UNCHANGED <<live, doc, opts, touched>> /\ planned' = lines /\ pass = "plan" /\ PassDone
    BY <1>7 DEF AcceptPlan, inputVars, editVars
  <2>2. Misfits' = Misfits /\ (\A i \in Misfits : LineOf(live[i], doc) \in lines)
    BY <2>1, PlanComplete DEF Misfits
  <2>3. CASE TakesSnapshot
    <3>1. pc' = "snapshot" /\ step' = 1
      BY <1>7, <2>3 DEF AcceptPlan
    <3>2. Read' = {}
      BY <3>1 DEF Read
    <3>3. QED
      BY <2>1, <2>2, <3>1, <3>2 DEF Foreseen, Ready, InPass
  <2>4. CASE ~TakesSnapshot
    <3>1. pass' = "write" /\ pc' = "list" /\ ~opts.snapshotDir
      BY <1>7, <2>4, BeginClears DEF AcceptPlan, TakesSnapshot
    <3>2. QED
      BY <2>1, <2>2, <3>1 DEF Foreseen, Ready
  <2>5. QED
    BY <2>3, <2>4
<1>8. CASE SnapshotKind
  <2>1. /\ UNCHANGED <<live, doc, opts, touched, planned, pass>> /\ pc = "snapshot"
        /\ pc' \in {"snapshot", "commit"}
        /\ draft' = [k \in Keys |-> IF Exported(k) THEN ContentOf(live)[k] ELSE draft[k]]
    BY <1>8 DEF SnapshotKind, inputVars, editVars
  <2>2. Misfits' = Misfits
    BY <2>1 DEF Misfits
  <2>3. Read' \subseteq Read \cup {Kind}
    <3>1. step \in 1..Len(Kinds) /\ Len(Kinds) \in Nat
      BY <1>0, KindsAssumption DEF TypeOK
    <3>2. CASE step < Len(Kinds)
      BY <1>8, <3>1, <3>2 DEF SnapshotKind, Read, Kind
    <3>3. CASE ~(step < Len(Kinds))
      BY <1>8, <3>1, <3>3 DEF SnapshotKind, Read, Kind
    <3>4. QED
      BY <3>2, <3>3
  <2>4. ASSUME NEW i \in Ids \ touched, live[i] # NoObject, live[i].kind \in Read',
               ~IsOpaque(live[i])
        PROVE  draft'[KeyOf(live[i])] = live[i].value
    <3>1. live[i] \in Object /\ i \in Present(live)
      BY <1>0, <2>4 DEF Console, Present
    <3>2. KeyOf(live[i]) \in Keys /\ KeyOf(live[i])[1] = live[i].kind
      BY <1>0, <3>1, ObjectFacts
    <3>3. ContentOf(live)[KeyOf(live[i])] = live[i].value
      BY <1>0, <3>1, <3>2, ContentOfHolder
    <3>4. CASE live[i].kind = Kind
      BY <2>1, <2>4, <3>2, <3>3, <3>4 DEF Exported, IsOpaque
    <3>5. CASE live[i].kind # Kind
      BY <2>1, <2>3, <2>4, <3>2, <3>5 DEF Exported, Foreseen
    <3>6. QED
      BY <3>4, <3>5
  <2>5. QED
    BY <2>1, <2>2, <2>4 DEF Foreseen, Ready, InPass
<1>9. CASE CommitSnapshot
  <2>1. /\ UNCHANGED <<live, doc, opts, touched, planned>> /\ saved' = draft /\ pc = "commit"
        /\ (BeginPass("write") \/ End("failed"))
    BY <1>9 DEF CommitSnapshot, inputVars
  <2>2. CASE BeginPass("write")
    <3>1. Misfits' = Misfits /\ pass' = "write" /\ pc' = "list"
      BY <2>1, <2>2, BeginClears DEF Misfits
    <3>2. ASSUME NEW i \in Misfits
          PROVE  /\ LineOf(live[i], doc) \in planned
                 /\ ~IsOpaque(live[i]) => draft[KeyOf(live[i])] = live[i].value
      <4>1. live[i] # NoObject /\ live[i] \in Object /\ i \in Ids \ touched
        BY <1>0 DEF Misfits, Console
      <4>2. live[i].kind \in KindSet
        BY <1>0, <4>1, ObjectFacts
      <4>3. live[i].kind \in Read
        BY <2>1, <4>2, KindsAssumption DEF Read, KindSet
      <4>4. QED
        BY <2>1, <4>1, <4>3 DEF Foreseen
    <3>3. draft # NoObject
      <4>1. draft \in Content
        BY <1>0 DEF TypeOK
      <4>2. QED
        BY <4>1, ObjectAssumption
    <3>4. QED
      BY <2>1, <3>1, <3>2, <3>3 DEF Foreseen, Ready
  <2>3. QED
    BY <2>1, <2>2, NothingPromised, EndClears DEF Endings
<1>10. ASSUME NEW how \in Endings, Stop(how) PROVE Foreseen' /\ Ready'
  BY <1>10, NothingPromised, EndClears DEF Stop
<1>11. ASSUME NEW i \in Ids, NEW after \in Object \cup {NoObject}, Touch(i, after)
       PROVE  Foreseen' /\ Ready'
  <2>1. /\ live' = [live EXCEPT ![i] = after] /\ touched' = touched \cup {i}
        /\ UNCHANGED <<pc, doc, opts, pass, step, todo, victims, existing, lines, planned,
                       draft, saved>>
    BY <1>11 DEF Touch, Edit, passVars, inputVars, fileVars
  <2>2. Handled' = Handled /\ Read' = Read
    BY <2>1 DEF Handled, Ahead, Kind, Read
  <2>3. \A j \in Ids : j # i => live'[j] = live[j]
    BY <1>0, <2>1 DEF Console
  <2>4. \A j \in Misfits' : j \in Misfits /\ live'[j] = live[j]
    BY <2>1, <2>3 DEF Misfits
  <2>5. Foreseen'
    BY <2>1, <2>2, <2>3, <2>4 DEF Foreseen, InPass
  <2>6. Ready'
    BY <2>1, <2>2, <2>4 DEF Ready, InPass
  <2>7. QED
    BY <2>5, <2>6
<1>12. CASE UNCHANGED vars
  <2>1. UNCHANGED <<live, pc, doc, opts, pass, step, todo, victims, existing, lines, planned,
                    draft, saved, touched>>
    BY <1>12 DEF vars, passVars, inputVars, editVars, fileVars
  <2>2. Handled' = Handled /\ Read' = Read /\ Misfits' = Misfits
    BY <2>1 DEF Handled, Ahead, Kind, Read, Misfits
  <2>3. QED
    BY <2>1, <2>2 DEF Foreseen, Ready, InPass
<1>13. QED
  BY <1>1, <1>2, <1>3, <1>4, <1>5, <1>6, <1>7, <1>8, <1>9, <1>10, <1>11, <1>12, StepCases

-----------------------------------------------------------------------------
(* The snapshot holds what was overwritten *)

\* An update or deletion of an object nobody edited was in the plan, and in
\* the snapshot, as it is carried out.
LEMMA ChangeForeseen ==
  ASSUME Inv, Fresh, Ready, pass = "write", InPass, NEW i \in Ids \ touched,
         existing[i] # NoObject, KeyOf(existing[i]) \in Waiting \/ i \in victims,
         Wrong(existing[i], doc, opts), LineOf(existing[i], doc) \notin Handled
  PROVE  /\ live[i] = existing[i] /\ LineOf(existing[i], doc) \in planned
         /\ opts.snapshotDir /\ ~IsOpaque(live[i]) =>
              saved # NoObject /\ saved[KeyOf(live[i])] = live[i].value
<1>1. live[i] = existing[i]
  BY DEF Fresh
<1>2. i \in Misfits
  BY <1>1 DEF Misfits
<1>3. QED
  BY <1>1, <1>2 DEF Ready

LEMMA UpdateForeseen ==
  ASSUME Inv, Fresh, Ready, NEW n \in Names, UpdateEntry(n), pass = "write",
         NEW i \in Ids \ touched, existing[i] \in Object, KeyOf(existing[i]) = <<Kind, n>>,
         existing[i].value # doc.want[<<Kind, n>>]
  PROVE  /\ live[i] = existing[i] /\ <<"UPDATE", <<Kind, n>>>> \in planned
         /\ opts.snapshotDir /\ ~IsOpaque(live[i]) =>
              saved # NoObject /\ saved[KeyOf(live[i])] = live[i].value
<1>1. /\ n \in todo /\ pc = "declared" /\ doc.want[<<Kind, n>>] # Unset
      /\ <<Kind, n>> \in Keys /\ InPass
  BY UpdateFacts, ValuesAssumption DEF InPass
<1>2. Wrong(existing[i], doc, opts) /\ LineOf(existing[i], doc) = <<"UPDATE", <<Kind, n>>>>
  BY <1>1 DEF Wrong, LineOf
<1>3. LineOf(existing[i], doc) \notin Handled
  <2>1. LineOf(existing[i], doc)[2] = <<Kind, n>>
    BY <1>2
  <2>2. QED
    BY <1>1, <2>1, WaitingLines DEF Inv
<1>4. KeyOf(existing[i]) \in Waiting /\ existing[i] # NoObject
  BY <1>1, ObjectAssumption DEF Waiting
<1>5. QED
  BY <1>1, <1>2, <1>3, <1>4, ChangeForeseen

LEMMA DeleteForeseen ==
  ASSUME Inv, Fresh, Ready, NEW i \in Ids \ touched, DeleteVictim(i), pass = "write"
  PROVE  /\ live[i] = existing[i] /\ <<"DELETE", KeyOf(existing[i])>> \in planned
         /\ opts.snapshotDir /\ ~IsOpaque(live[i]) =>
              saved # NoObject /\ saved[KeyOf(live[i])] = live[i].value
<1>1. /\ i \in victims /\ pc = "prune" /\ Wrong(existing[i], doc, opts) /\ InPass
      /\ LineOf(existing[i], doc) = <<"DELETE", KeyOf(existing[i])>> /\ existing[i] # NoObject
  BY DeleteFacts, ObjectAssumption DEF InPass
<1>2. LineOf(existing[i], doc) \notin Handled
  BY <1>1, VictimLine
<1>3. QED
  BY <1>1, <1>2, ChangeForeseen

LEMMA HoldsKept ==
  ASSUME SnapshotHoldsOverwritten, applied' = applied, opts' = opts, saved' = saved,
         touched \subseteq touched'
  PROVE  SnapshotHoldsOverwritten'
BY DEF SnapshotHoldsOverwritten

LEMMA HoldsWrite ==
  ASSUME SnapshotHoldsOverwritten, Frame, NEW verb, NEW i \in Ids, NEW after,
         Wrote(verb, i, after),
         pass = "write" /\ verb # "CREATE" /\ i \notin touched =>
           (opts.snapshotDir /\ ~IsOpaque(live[i]) =>
              saved # NoObject /\ saved[KeyOf(live[i])] = live[i].value)
  PROVE  SnapshotHoldsOverwritten'
<1> USE DEF Frame
<1>1. CASE applied' = applied
  BY <1>1, HoldsKept
<1>2. CASE applied' # applied
  <2>1. pass = "write" /\ applied' = applied \cup {[verb |-> verb, id |-> i, pre |-> live[i]]}
    BY <1>2 DEF Wrote
  <2>2. SUFFICES ASSUME opts.snapshotDir, NEW r \in applied', r.verb # "CREATE", r.id \notin touched,
                        ~IsOpaque(r.pre)
                 PROVE  saved # NoObject /\ saved[KeyOf(r.pre)] = r.pre.value
    BY DEF SnapshotHoldsOverwritten
  <2>3. CASE r \in applied
    BY <2>2, <2>3 DEF SnapshotHoldsOverwritten
  <2>4. CASE r = [verb |-> verb, id |-> i, pre |-> live[i]]
    BY <2>1, <2>2, <2>4
  <2>5. QED
    BY <2>1, <2>2, <2>3, <2>4
<1>3. QED
  BY <1>1, <1>2

LEMMA HoldsNext ==
  ASSUME Inv, Listing, Fresh, Ready, SnapshotHoldsOverwritten, [Next]_vars
  PROVE  SnapshotHoldsOverwritten'
<1>1. ASSUME NEW d \in Document, NEW o \in Option, NEW from \in {"instance", "snapshot"},
             Start(d, o, from)
      PROVE  SnapshotHoldsOverwritten'
  BY <1>1 DEF Start, Launch, SnapshotHoldsOverwritten
<1>2. CASE Look
  BY <1>2, LookFacts, HoldsKept DEF LookFrame
<1>3. ASSUME NEW n \in Names, CreateEntry(n) PROVE SnapshotHoldsOverwritten'
  <2>1. Frame /\ \E i \in Ids, new \in Object : Wrote("CREATE", i, new)
    BY <1>3, CreateFacts
  <2>2. QED
    BY <2>1, HoldsWrite
<1>4. ASSUME NEW n \in Names, UpdateEntry(n) PROVE SnapshotHoldsOverwritten'
  <2>1. PICK i \in Ids, new \in Object :
          /\ existing[i] \in Object /\ KeyOf(existing[i]) = <<Kind, n>>
          /\ existing[i].value # doc.want[<<Kind, n>>]
          /\ Wrote("UPDATE", i, new)
    BY <1>4, UpdateFacts
  <2>2. Frame
    BY <1>4, UpdateFacts
  <2>3. pass = "write" /\ i \notin touched =>
          (opts.snapshotDir /\ ~IsOpaque(live[i]) =>
             saved # NoObject /\ saved[KeyOf(live[i])] = live[i].value)
    BY <1>4, <2>1, UpdateForeseen
  <2>4. QED
    BY <2>1, <2>2, <2>3, HoldsWrite
<1>5. ASSUME NEW i \in Ids, DeleteVictim(i) PROVE SnapshotHoldsOverwritten'
  <2>1. Frame /\ Wrote("DELETE", i, NoObject)
    BY <1>5, DeleteFacts
  <2>2. pass = "write" /\ i \notin touched =>
          (opts.snapshotDir /\ ~IsOpaque(live[i]) =>
             saved # NoObject /\ saved[KeyOf(live[i])] = live[i].value)
    BY <1>5, DeleteForeseen
  <2>3. QED
    BY <2>1, <2>2, HoldsWrite
<1>6. ASSUME NEW i \in Ids, RefuseVictim(i) PROVE SnapshotHoldsOverwritten'
  BY <1>6, RefuseFacts, HoldsKept
<1>7. CASE AcceptPlan
  BY <1>7, HoldsKept DEF AcceptPlan, inputVars, editVars
<1>8. CASE SnapshotKind
  BY <1>8, HoldsKept DEF SnapshotKind, inputVars, editVars
<1>9. CASE CommitSnapshot
  <2>1. pass # "write" /\ applied' = applied
    BY <1>9 DEF CommitSnapshot, Listing
  <2>2. QED
    BY <2>1 DEF Inv, Guarded, SnapshotHoldsOverwritten
<1>10. ASSUME NEW how \in Endings, Stop(how) PROVE SnapshotHoldsOverwritten'
  BY <1>10, HoldsKept DEF Stop
<1>11. ASSUME NEW i \in Ids, NEW after \in Object \cup {NoObject}, Touch(i, after)
       PROVE  SnapshotHoldsOverwritten'
  BY <1>11, HoldsKept DEF Touch, Edit, inputVars, fileVars
<1>12. CASE UNCHANGED vars
  BY <1>12, HoldsKept DEF vars, inputVars, fileVars, editVars
<1>13. QED
  BY <1>1, <1>2, <1>3, <1>4, <1>5, <1>6, <1>7, <1>8, <1>9, <1>10, <1>11, <1>12, StepCases

-----------------------------------------------------------------------------
(* Counting *)

Changes == {a \in applied : a.verb # "CREATE"}

\* Each change was logged as a line of its own, and each edit counts once.
Counted ==
  /\ IsFiniteSet(lines) /\ IsFiniteSet(planned) /\ IsFiniteSet(applied) /\ IsFiniteSet(touched)
  /\ Cardinality(touched) <= disturbed
  /\ pass = "write" => Cardinality(Changes) <= Cardinality(Destructive(lines))

\* What the writing pass did or may still do beside the plan is paid for by
\* edits.
Charged ==
  pass = "write" =>
    Cardinality(Destructive(lines) \ planned) + Cardinality(touched \cap Open) <= disturbed

LEMMA DestructiveAdd ==
  ASSUME NEW ls, NEW l
  PROVE  /\ l[1] \in {"DELETE", "UPDATE"} => Destructive(ls \cup {l}) = Destructive(ls) \cup {l}
         /\ l[1] \notin {"DELETE", "UPDATE"} => Destructive(ls \cup {l}) = Destructive(ls)
BY DEF Destructive

LEMMA CountedKept ==
  ASSUME Counted, UNCHANGED <<lines, applied, touched, disturbed, pass>>,
         planned' \in {planned, lines}
  PROVE  Counted'
<1>1. Changes' = Changes /\ IsFiniteSet(planned') /\ Destructive(lines') = Destructive(lines)
  BY DEF Changes, Counted
<1>2. QED
  BY <1>1 DEF Counted

\* A pass begins with nothing logged.
LEMMA CountedBegin ==
  ASSUME Counted, lines' = {}, applied' = {}, planned' \in {planned, lines}, touched' = touched,
         disturbed' = disturbed
  PROVE  Counted'
<1>1. Changes' = {} /\ Destructive(lines') = {} /\ IsFiniteSet(planned')
  BY DEF Changes, Destructive, Counted
<1>2. IsFiniteSet(lines') /\ IsFiniteSet(applied') /\ Cardinality({}) = 0
  BY FS_EmptySet
<1>3. Cardinality(Changes') <= Cardinality(Destructive(lines'))
  BY <1>1, <1>2
<1>4. QED
  BY <1>1, <1>2, <1>3 DEF Counted

\* A line that is logged for the first time pays for the write that follows.
LEMMA CountedWrite ==
  ASSUME Inv, Listing, Counted, Frame, InPass, NEW verb \in {"CREATE", "UPDATE", "DELETE"},
         NEW i \in Ids, NEW after, Wrote(verb, i, after),
         NEW k, lines' = lines \cup {<<verb, k>>}, <<verb, k>> \notin Handled
  PROVE  Counted'
<1> DEFINE l == <<verb, k>>
           r == [verb |-> verb, id |-> i, pre |-> live[i]]
<1>1. l \notin lines /\ l[1] = verb
  BY DEF Listing
<1>2. /\ IsFiniteSet(lines) /\ IsFiniteSet(planned) /\ IsFiniteSet(applied)
      /\ IsFiniteSet(touched) /\ Cardinality(touched) <= disturbed
  BY DEF Counted
<1>3. applied' = applied \/ applied' = applied \cup {r}
  BY DEF Wrote
<1>4. r.verb = verb
  OBVIOUS
<1> HIDE DEF l, r
<1>5. lines' = lines \cup {l}
  BY DEF l
<1>6. IsFiniteSet(lines') /\ IsFiniteSet(applied')
  <2>1. IsFiniteSet(lines \cup {l}) /\ IsFiniteSet(applied \cup {r})
    BY <1>2, CardinalityAdd
  <2>2. QED
    BY <1>2, <1>3, <1>5, <2>1
<1>7. ASSUME pass = "write" PROVE Cardinality(Changes') <= Cardinality(Destructive(lines'))
  <2>1. Cardinality(Changes) <= Cardinality(Destructive(lines))
    BY <1>7 DEF Counted
  <2>2. Changes \subseteq applied /\ Destructive(lines) \subseteq lines
    BY DEF Changes, Destructive
  <2>3. /\ IsFiniteSet(Changes) /\ Cardinality(Changes) \in Nat
        /\ IsFiniteSet(Destructive(lines)) /\ Cardinality(Destructive(lines)) \in Nat
    BY <1>2, <2>2, CardinalitySubset
  <2>4. CASE verb = "CREATE"
    <3>1. Changes' = Changes
      BY <1>3, <1>4, <2>4 DEF Changes
    <3>2. Destructive(lines') = Destructive(lines)
      BY <1>1, <1>5, <2>4, DestructiveAdd
    <3>3. QED
      BY <2>1, <3>1, <3>2
  <2>5. CASE verb # "CREATE"
    <3>1. Changes' \subseteq Changes \cup {r}
      BY <1>3 DEF Changes
    <3>2. Destructive(lines') = Destructive(lines) \cup {l}
      BY <1>1, <1>5, <2>5, DestructiveAdd
    <3>3. l \notin Destructive(lines)
      BY <1>1, <2>2
    <3>4. Cardinality(Destructive(lines')) = Cardinality(Destructive(lines)) + 1
      BY <2>3, <3>2, <3>3, CardinalityAdd
    <3>5. /\ IsFiniteSet(Changes \cup {r})
          /\ Cardinality(Changes \cup {r}) <= Cardinality(Changes) + 1
      BY <2>3, CardinalityAdd
    <3>6. /\ Cardinality(Changes') \in Nat /\ Cardinality(Changes \cup {r}) \in Nat
          /\ Cardinality(Changes') <= Cardinality(Changes \cup {r})
      BY <3>1, <3>5, CardinalitySubset
    <3>7. QED
      BY <2>1, <2>3, <3>4, <3>5, <3>6
  <2>6. QED
    BY <2>4, <2>5
<1>8. QED
  BY <1>2, <1>6, <1>7 DEF Counted, Frame

LEMMA CountedNext ==
  ASSUME Inv, Listing, Counted, [Next]_vars PROVE Counted'
<1>0. TypeOK
  BY DEF Inv
<1>1. ASSUME NEW d \in Document, NEW o \in Option, NEW from \in {"instance", "snapshot"},
             Start(d, o, from)
      PROVE  Counted'
  <2>1. /\ lines' = {} /\ planned' = {} /\ applied' = {} /\ touched' = {} /\ disturbed' = 0
        /\ pass' # "write"
    BY <1>1, BeginClears DEF Start, Launch
  <2>2. IsFiniteSet({}) /\ Cardinality({}) = 0
    BY FS_EmptySet
  <2>3. QED
    BY <2>1, <2>2 DEF Counted
<1>2. CASE Look
  BY <1>2, LookFacts, CountedKept DEF LookFrame
<1>3. ASSUME NEW n \in Names, CreateEntry(n) PROVE Counted'
  <2>1. PICK i \in Ids, new \in Object : Wrote("CREATE", i, new)
    BY <1>3, CreateFacts
  <2>2. /\ n \in todo /\ pc = "declared" /\ Frame
        /\ lines' = lines \cup {<<"CREATE", <<Kind, n>>>>}
    BY <1>3, CreateFacts
  <2>3. <<"CREATE", <<Kind, n>>>> \notin Handled
    BY <1>0, <2>2, WaitingLines
  <2>4. InPass
    BY <2>2 DEF InPass
  <2>5. QED
    BY <2>1, <2>2, <2>3, <2>4, CountedWrite
<1>4. ASSUME NEW n \in Names, UpdateEntry(n) PROVE Counted'
  <2>1. PICK i \in Ids, new \in Object : Wrote("UPDATE", i, new)
    BY <1>4, UpdateFacts
  <2>2. /\ n \in todo /\ pc = "declared" /\ Frame
        /\ lines' = lines \cup {<<"UPDATE", <<Kind, n>>>>}
    BY <1>4, UpdateFacts
  <2>3. <<"UPDATE", <<Kind, n>>>> \notin Handled
    BY <1>0, <2>2, WaitingLines
  <2>4. InPass
    BY <2>2 DEF InPass
  <2>5. QED
    BY <2>1, <2>2, <2>3, <2>4, CountedWrite
<1>5. ASSUME NEW i \in Ids, DeleteVictim(i) PROVE Counted'
  <2>1. /\ i \in victims /\ pc = "prune" /\ Wrote("DELETE", i, NoObject) /\ Frame
        /\ lines' = lines \cup {<<"DELETE", KeyOf(existing[i])>>}
    BY <1>5, DeleteFacts
  <2>2. <<"DELETE", KeyOf(existing[i])>> \notin Handled /\ InPass
    BY <2>1, VictimLine DEF InPass
  <2>3. QED
    BY <2>1, <2>2, CountedWrite
<1>6. ASSUME NEW i \in Ids, RefuseVictim(i) PROVE Counted'
  <2>1. /\ UNCHANGED <<applied, touched, disturbed, pass, planned>>
        /\ \/ pass # "write" /\ lines' = lines \cup {<<"DELETE", KeyOf(existing[i])>>}
           \/ lines' = lines
    BY <1>6, RefuseFacts
  <2>2. CASE pass # "write" /\ lines' = lines \cup {<<"DELETE", KeyOf(existing[i])>>}
    <3>1. IsFiniteSet(lines')
      BY <2>2, CardinalityAdd DEF Counted
    <3>2. QED
      BY <2>1, <2>2, <3>1 DEF Counted
  <2>3. QED
    BY <2>1, <2>2, CountedKept
<1>7. CASE AcceptPlan
  <2>1. /\ UNCHANGED <<applied, touched, disturbed>> /\ planned' = lines /\ applied = {}
    BY <1>7 DEF AcceptPlan, editVars, Inv, Guarded
  <2>2. CASE TakesSnapshot
    BY <1>7, <2>1, <2>2, CountedKept DEF AcceptPlan
  <2>3. CASE ~TakesSnapshot
    BY <1>7, <2>1, <2>3, BeginClears, CountedBegin DEF AcceptPlan
  <2>4. QED
    BY <2>2, <2>3
<1>8. CASE SnapshotKind
  BY <1>8, CountedKept DEF SnapshotKind, editVars
<1>9. CASE CommitSnapshot
  <2>1. /\ UNCHANGED <<applied, touched, disturbed, planned>> /\ applied = {}
    BY <1>9 DEF CommitSnapshot, Listing, Inv, Guarded
  <2>2. CASE BeginPass("write")
    BY <2>1, <2>2, BeginClears, CountedBegin
  <2>3. CASE UNCHANGED <<pass, lines>>
    BY <2>1, <2>3, CountedKept
  <2>4. QED
    BY <1>9, <2>2, <2>3 DEF CommitSnapshot
<1>10. ASSUME NEW how \in Endings, Stop(how) PROVE Counted'
  BY <1>10, CountedKept DEF Stop
<1>11. ASSUME NEW i \in Ids, NEW after \in Object \cup {NoObject}, Touch(i, after)
       PROVE  Counted'
  <2>1. /\ touched' = touched \cup {i} /\ disturbed' = disturbed + 1
        /\ UNCHANGED <<lines, applied, planned, pass>>
    BY <1>11 DEF Touch, Edit, passVars
  <2>2. /\ IsFiniteSet(touched) /\ Cardinality(touched) <= disturbed /\ disturbed \in Nat
    BY <1>0 DEF Counted, TypeOK
  <2>3. /\ IsFiniteSet(touched \cup {i}) /\ Cardinality(touched) \in Nat
        /\ Cardinality(touched \cup {i}) <= Cardinality(touched) + 1
    BY <2>2, CardinalityAdd
  <2>4. Cardinality(touched \cup {i}) \in Nat
    BY <2>3, FS_CardinalityType
  <2>5. Cardinality(touched') <= disturbed'
    BY <2>1, <2>2, <2>3, <2>4
  <2>6. Changes' = Changes /\ Destructive(lines') = Destructive(lines)
    BY <2>1 DEF Changes
  <2>7. QED
    BY <2>1, <2>3, <2>5, <2>6 DEF Counted
<1>12. CASE UNCHANGED vars
  BY <1>12, CountedKept DEF vars, passVars, editVars
<1>13. QED
  BY <1>1, <1>2, <1>3, <1>4, <1>5, <1>6, <1>7, <1>8, <1>9, <1>10, <1>11, <1>12, StepCases

\* What the run would still change shrinks with every step it takes.
LEMMA OpenShrinks ==
  ASSUME InPass, doc' = doc, opts' = opts, Handled \subseteq Handled',
         \A j \in Ids : Known'[j] # NoObject /\ Known'[j] # Known[j]
           => \/ ~Wrong(Known'[j], doc, opts)
              \/ LineOf(Known'[j], doc) \in Handled'
  PROVE  Open' \subseteq Open
BY DEF Open

LEMMA LookOpen ==
  ASSUME Inv, Listing, Look PROVE Open' \subseteq Open
<1>1. TypeOK /\ Pending /\ LookFrame /\ InPass
  BY LookFacts DEF Inv, InPass
<1>2. Handled \subseteq Handled'
  BY <1>1, HandledList, HandledEntry, HandledBeginPrune, HandledNextKind DEF Look, EntryOK
<1>3. ASSUME NEW j \in Ids, Known'[j] # NoObject, Known'[j] # Known[j]
      PROVE  LineOf(Known'[j], doc) \in Handled'
  <2>1. /\ Known[j] = (IF existing[j] # NoObject THEN existing[j] ELSE live[j])
        /\ Known'[j] = (IF existing'[j] # NoObject THEN existing'[j] ELSE live[j])
    BY <1>1 DEF Known, LookFrame
  <2>2. CASE List
    <3>1. existing'[j] = IF live[j] # NoObject /\ live[j].kind = Kind THEN live[j] ELSE NoObject
      BY <2>2 DEF List
    <3>2. existing[j] = NoObject
      BY <2>2, NothingFacts DEF List, Listing
    <3>3. QED
      BY <1>3, <2>1, <3>1, <3>2
  <2>3. CASE NextKind
    <3>1. existing'[j] = NoObject
      BY <2>3, NothingFacts DEF NextKind
    <3>2. existing[j] # NoObject /\ Known'[j] = live[j] /\ live[j] # NoObject
      BY <1>3, <2>1, <3>1
    <3>3. live[j].kind = Kind /\ live[j] \in Object /\ doc \in Document
      BY <1>1, <3>2 DEF Inv, Stale, Pending, TypeOK, Console
    <3>4. LineOf(live[j], doc) \in Line /\ LineOf(live[j], doc)[2][1] = Kind
      BY <3>3, ObjectFacts
    <3>5. QED
      BY <1>1, <2>3, <3>2, <3>4, HandledNextKind
  <2>4. CASE BeginPrune \/ (\E n \in Names : EntryOK(n))
    BY <1>3, <2>1, <2>4 DEF BeginPrune, EntryOK
  <2>5. QED
    BY <2>2, <2>3, <2>4 DEF Look
<1>4. QED
  BY <1>1, <1>2, <1>3, OpenShrinks DEF LookFrame

\* A write changes what is known of an id only to what the document wants.
LEMMA WriteOpen ==
  ASSUME Inv, InPass, Frame, existing' = existing, Handled \subseteq Handled',
         NEW verb \in {"CREATE", "UPDATE", "DELETE"}, NEW i \in Ids,
         NEW after \in Object \cup {NoObject}, Wrote(verb, i, after),
         existing[i] # NoObject \/ ~Wrong(after, doc, opts)
  PROVE  Open' \subseteq Open
<1>1. ASSUME NEW j \in Ids, Known'[j] # NoObject, Known'[j] # Known[j]
      PROVE  ~Wrong(Known'[j], doc, opts)
  <2>1. /\ Known[j] = (IF existing[j] # NoObject THEN existing[j] ELSE live[j])
        /\ Known'[j] = (IF existing[j] # NoObject THEN existing[j] ELSE live'[j])
    BY DEF Known
  <2>2. existing[j] = NoObject /\ live'[j] # live[j]
    BY <1>1, <2>1
  <2>3. live' = [live EXCEPT ![i] = after] /\ live \in Console
    BY <2>2 DEF Wrote, Inv, TypeOK
  <2>4. j = i /\ live'[j] = after
    BY <2>2, <2>3 DEF Console
  <2>5. QED
    BY <2>1, <2>2, <2>4
<1>2. QED
  BY <1>1, OpenShrinks DEF Frame

LEMMA ChargedLess ==
  ASSUME Counted, Charged, UNCHANGED <<pass, planned, touched, disturbed>>, TypeOK,
         Destructive(lines') \ planned \subseteq Destructive(lines) \ planned,
         Open' \subseteq Open
  PROVE  Charged'
<1> SUFFICES ASSUME pass = "write" PROVE Charged'
  BY DEF Charged
<1>1. /\ Destructive(lines) \ planned \subseteq lines /\ touched \cap Open \subseteq touched
      /\ touched' \cap Open' \subseteq touched \cap Open
  BY DEF Destructive
<1>2. IsFiniteSet(lines) /\ IsFiniteSet(touched) /\ disturbed \in Nat
  BY DEF Counted, TypeOK
<1>3. IsFiniteSet(Destructive(lines) \ planned) /\ IsFiniteSet(touched \cap Open)
  BY <1>1, <1>2, CardinalitySubset
<1>4. /\ Cardinality(Destructive(lines) \ planned) \in Nat
      /\ Cardinality(Destructive(lines') \ planned) \in Nat
      /\ Cardinality(Destructive(lines') \ planned) <= Cardinality(Destructive(lines) \ planned)
  BY <1>3, CardinalitySubset
<1>5. /\ Cardinality(touched \cap Open) \in Nat /\ Cardinality(touched' \cap Open') \in Nat
      /\ Cardinality(touched' \cap Open') <= Cardinality(touched \cap Open)
  BY <1>1, <1>3, CardinalitySubset
<1>6. Cardinality(Destructive(lines) \ planned) + Cardinality(touched \cap Open) <= disturbed
  BY DEF Charged
<1>7. Cardinality(Destructive(lines') \ planned) + Cardinality(touched' \cap Open') <= disturbed
  BY <1>2, <1>4, <1>5, <1>6
<1>8. QED
  BY <1>7 DEF Charged

\* A line that is not planned is that of an edited object, and closes it.
LEMMA ChargedTrade ==
  ASSUME Counted, Charged, UNCHANGED <<pass, planned, touched, disturbed>>, TypeOK,
         NEW l, lines' = lines \cup {l}, Open' \subseteq Open,
         l \notin planned /\ pass = "write" => \E i \in touched \cap Open : i \notin Open'
  PROVE  Charged'
<1> SUFFICES ASSUME pass = "write" PROVE Charged'
  BY DEF Charged
<1>1. Destructive(lines') \subseteq Destructive(lines) \cup {l}
  BY DEF Destructive
<1>2. CASE l \in planned
  BY <1>1, <1>2, ChargedLess
<1>3. CASE l \notin planned
  <2>1. PICK i \in touched \cap Open : i \notin Open'
    BY <1>3
  <2>2. /\ Destructive(lines) \ planned \subseteq lines /\ touched \cap Open \subseteq touched
        /\ touched' \cap Open' \subseteq (touched \cap Open) \ {i}
        /\ Destructive(lines') \ planned \subseteq (Destructive(lines) \ planned) \cup {l}
    BY <1>1, <2>1 DEF Destructive
  <2>3. IsFiniteSet(lines) /\ IsFiniteSet(touched)
    BY DEF Counted
  <2>4. IsFiniteSet(Destructive(lines) \ planned) /\ IsFiniteSet(touched \cap Open)
    BY <2>2, <2>3, CardinalitySubset
  <2>5. Cardinality(Destructive(lines') \ planned) + Cardinality(touched' \cap Open')
          <= Cardinality(Destructive(lines) \ planned) + Cardinality(touched \cap Open)
    BY <2>1, <2>2, <2>4, CardinalityTrade
  <2>6. /\ IsFiniteSet(Destructive(lines') \ planned) /\ IsFiniteSet(touched' \cap Open')
    <3>1. IsFiniteSet((Destructive(lines) \ planned) \cup {l})
      BY <2>4, CardinalityAdd
    <3>2. touched' \cap Open' \subseteq touched \cap Open
      BY <2>2
    <3>3. QED
      BY <2>2, <2>4, <3>1, <3>2, CardinalitySubset
  <2>7. /\ Cardinality(Destructive(lines') \ planned) \in Nat /\ Cardinality(touched' \cap Open') \in Nat
        /\ Cardinality(Destructive(lines) \ planned) \in Nat /\ Cardinality(touched \cap Open) \in Nat
        /\ disturbed \in Nat
    BY <2>4, <2>6, FS_CardinalityType DEF TypeOK
  <2>8. Cardinality(Destructive(lines) \ planned) + Cardinality(touched \cap Open) <= disturbed
    BY DEF Charged
  <2>9. Cardinality(Destructive(lines') \ planned) + Cardinality(touched' \cap Open') <= disturbed
    BY <2>5, <2>7, <2>8
  <2>10. QED
    BY <2>9 DEF Charged
<1>4. QED
  BY <1>2, <1>3

\* At the start of the writing pass everything edited so far may come up.
LEMMA ChargedBegin ==
  ASSUME Counted, TypeOK, lines' = {}, touched' = touched, disturbed' = disturbed
  PROVE  Charged'
<1>1. Destructive(lines') \ planned' = {} /\ Cardinality({}) = 0
  BY FS_EmptySet DEF Destructive
<1>2. touched' \cap Open' \subseteq touched /\ IsFiniteSet(touched)
  BY DEF Counted
<1>3. /\ Cardinality(touched' \cap Open') \in Nat /\ Cardinality(touched) \in Nat
      /\ Cardinality(touched' \cap Open') <= Cardinality(touched)
  BY <1>2, CardinalitySubset
<1>4. Cardinality(touched) <= disturbed /\ disturbed \in Nat
  BY DEF Counted, TypeOK
<1>5. Cardinality(Destructive(lines') \ planned') + Cardinality(touched' \cap Open') <= disturbed'
  BY <1>1, <1>3, <1>4
<1>6. QED
  BY <1>5 DEF Charged

LEMMA UpdateCharged ==
  ASSUME Inv, Listing, Fresh, Ready, Counted, Charged, NEW n \in Names, UpdateEntry(n)
  PROVE  Charged'
<1>1. PICK i \in Ids, new \in Object :
        /\ existing[i] \in Object /\ KeyOf(existing[i]) = <<Kind, n>>
        /\ existing[i].value # doc.want[<<Kind, n>>]
        /\ KeyOf(new) = <<Kind, n>> /\ new.value = doc.want[<<Kind, n>>]
        /\ Wrote("UPDATE", i, new)
  BY UpdateFacts
<1>2. /\ n \in todo /\ pc = "declared" /\ Frame /\ doc.want[<<Kind, n>>] # Unset
      /\ <<Kind, n>> \in Keys
      /\ lines' = lines \cup {<<"UPDATE", <<Kind, n>>>>}
      /\ \/ todo' = todo \ {n} /\ UNCHANGED <<pc, step, existing, victims>>
         \/ End("failed")
  BY UpdateFacts, ValuesAssumption
<1> DEFINE l == <<"UPDATE", <<Kind, n>>>>
<1>3. LineOf(existing[i], doc) = l /\ Wrong(existing[i], doc, opts) /\ existing[i] # NoObject
  BY <1>1, <1>2, ObjectAssumption DEF LineOf, Wrong
<1>4. TypeOK /\ Pending /\ InPass
  BY <1>2 DEF Inv, InPass
<1>5. l \notin Handled
  BY <1>2, <1>4, WaitingLines
<1>6. i \in Open
  BY <1>3, <1>4, <1>5 DEF Open, Known
<1>7. Open' \subseteq Open /\ i \notin Open'
  <2>1. CASE todo' = todo \ {n} /\ UNCHANGED <<pc, step, existing, victims>>
    <3>1. l \in Line /\ l[1] = "UPDATE" /\ l[2] = <<Kind, n>>
      BY <1>2 DEF Line
    <3>2. Handled \subseteq Handled' /\ l \in Handled'
      BY <1>2, <1>4, <2>1, <3>1, HandledEntry
    <3>3. Open' \subseteq Open
      BY <1>1, <1>2, <1>3, <1>4, <2>1, <3>2, WriteOpen
    <3>4. Known'[i] = existing[i]
      BY <1>3, <2>1 DEF Known
    <3>5. i \notin Open'
      BY <1>2, <1>3, <3>2, <3>4 DEF Open, Frame
    <3>6. QED
      BY <3>3, <3>5
  <2>2. QED
    BY <1>2, <2>1, EndClears DEF Endings
<1>8. l \notin planned /\ pass = "write" => i \in touched
  BY <1>1, UpdateForeseen
<1>9. QED
  BY <1>2, <1>4, <1>6, <1>7, <1>8, ChargedTrade DEF Frame

LEMMA DeleteCharged ==
  ASSUME Inv, Listing, Fresh, Ready, Counted, Charged, NEW i \in Ids, DeleteVictim(i)
  PROVE  Charged'
<1> DEFINE l == <<"DELETE", KeyOf(existing[i])>>
<1>1. /\ pc = "prune" /\ i \in victims /\ Frame /\ existing[i] # NoObject
      /\ Wrong(existing[i], doc, opts) /\ LineOf(existing[i], doc) = l
      /\ lines' = lines \cup {l} /\ Wrote("DELETE", i, NoObject)
      /\ \/ victims' = victims \ {i} /\ UNCHANGED <<pc, step, existing, todo>>
         \/ End("failed")
  BY DeleteFacts, ObjectAssumption
<1>2. TypeOK /\ Pending /\ InPass /\ Unique(existing)
  BY <1>1 DEF Inv, InPass, Listing
<1>3. l \notin Handled
  BY <1>1, VictimLine
<1>4. i \in Open
  BY <1>1, <1>2, <1>3 DEF Open, Known
<1>5. Open' \subseteq Open /\ i \notin Open'
  <2>1. CASE victims' = victims \ {i} /\ UNCHANGED <<pc, step, existing, todo>>
    <3>1. Handled \subseteq Handled' /\ l \in Handled'
      BY <1>1, <1>2, <2>1, HandledVictim
    <3>2. Open' \subseteq Open
      BY <1>1, <1>2, <2>1, <3>1, WriteOpen
    <3>3. Known'[i] = existing[i]
      BY <1>1, <2>1 DEF Known
    <3>4. i \notin Open'
      BY <1>1, <3>1, <3>3 DEF Open, Frame
    <3>5. QED
      BY <3>2, <3>4
  <2>2. QED
    BY <1>1, <2>1, EndClears DEF Endings
<1>6. l \notin planned /\ pass = "write" => i \in touched
  BY DeleteForeseen
<1>7. QED
  BY <1>1, <1>2, <1>4, <1>5, <1>6, ChargedTrade DEF Frame

LEMMA TouchCharged ==
  ASSUME Inv, Counted, Charged, NEW i \in Ids, NEW after \in Object \cup {NoObject},
         Touch(i, after)
  PROVE  Charged'
<1> SUFFICES ASSUME pass = "write" PROVE Charged'
  BY DEF Charged, Touch, Edit, passVars
<1>1. /\ live' = [live EXCEPT ![i] = after] /\ live \in Console
      /\ touched' = touched \cup {i} /\ disturbed' = disturbed + 1
      /\ UNCHANGED <<pass, planned, pc, doc, opts, step, todo, victims, existing, lines>>
  BY DEF Touch, Edit, passVars, inputVars, Inv, TypeOK
<1>2. Handled' = Handled
  BY <1>1 DEF Handled, Ahead, Kind
<1>3. \A j \in Ids : j # i => live'[j] = live[j]
  BY <1>1 DEF Console
<1>4. touched' \cap Open' \subseteq (touched \cap Open) \cup {i}
  BY <1>1, <1>2, <1>3 DEF Open, Known, InPass
<1>5. touched \cap Open \subseteq touched /\ IsFiniteSet(touched) /\ IsFiniteSet(lines)
  BY DEF Counted
<1>6. IsFiniteSet(touched \cap Open)
  BY <1>5, CardinalitySubset
<1>7. /\ IsFiniteSet((touched \cap Open) \cup {i})
      /\ Cardinality(touched \cap Open) \in Nat
      /\ Cardinality((touched \cap Open) \cup {i}) <= Cardinality(touched \cap Open) + 1
  BY <1>6, CardinalityAdd
<1>8. /\ Cardinality(touched' \cap Open') \in Nat
      /\ Cardinality((touched \cap Open) \cup {i}) \in Nat
      /\ Cardinality(touched' \cap Open') <= Cardinality((touched \cap Open) \cup {i})
  BY <1>4, <1>7, CardinalitySubset
<1>9. Destructive(lines) \ planned \subseteq lines
  BY DEF Destructive
<1>10. Cardinality(Destructive(lines) \ planned) \in Nat /\ disturbed \in Nat
  BY <1>5, <1>9, CardinalitySubset DEF Inv, TypeOK
<1>11. Cardinality(Destructive(lines) \ planned) + Cardinality(touched \cap Open) <= disturbed
  BY DEF Charged
<1>12. Cardinality(Destructive(lines) \ planned) + Cardinality(touched' \cap Open') <= disturbed'
  BY <1>1, <1>7, <1>8, <1>10, <1>11
<1>13. Destructive(lines') \ planned' = Destructive(lines) \ planned
  BY <1>1
<1>14. QED
  BY <1>12, <1>13 DEF Charged

LEMMA ChargedNext ==
  ASSUME Inv, Listing, Fresh, Ready, Counted, Charged, [Next]_vars PROVE Charged'
<1>0. TypeOK /\ Pending
  BY DEF Inv
<1>1. ASSUME NEW d \in Document, NEW o \in Option, NEW from \in {"instance", "snapshot"},
             Start(d, o, from)
      PROVE  Charged'
  BY <1>1, BeginClears DEF Start, Launch, Charged
<1>2. CASE Look
  BY <1>0, <1>2, LookFacts, LookOpen, ChargedLess DEF LookFrame
<1>3. ASSUME NEW n \in Names, CreateEntry(n) PROVE Charged'
  <2>1. PICK i \in Ids, new \in Object :
          /\ KeyOf(new) = <<Kind, n>> /\ new.value = doc.want[<<Kind, n>>]
          /\ Wrote("CREATE", i, new)
    BY <1>3, CreateFacts
  <2>2. /\ n \in todo /\ pc = "declared" /\ Frame /\ doc.want[<<Kind, n>>] # Unset
        /\ lines' = lines \cup {<<"CREATE", <<Kind, n>>>>}
        /\ \/ todo' = todo \ {n} /\ UNCHANGED <<pc, step, existing, victims>>
           \/ End("failed")
    BY <1>3, CreateFacts, ValuesAssumption
  <2>3. Destructive(lines') = Destructive(lines)
    BY <2>2, DestructiveAdd
  <2>4. Open' \subseteq Open
    <3>1. CASE todo' = todo \ {n} /\ UNCHANGED <<pc, step, existing, victims>>
      <4>1. Handled \subseteq Handled'
        BY <1>0, <2>2, <3>1, HandledEntry
      <4>2. ~Wrong(new, doc, opts) /\ InPass
        BY <2>1, <2>2, WrittenIsRight DEF InPass
      <4>3. QED
        BY <2>1, <2>2, <3>1, <4>1, <4>2, WriteOpen
    <3>2. QED
      BY <2>2, <3>1, EndClears DEF Endings
  <2>5. QED
    BY <1>0, <2>2, <2>3, <2>4, ChargedLess DEF Frame
<1>4. ASSUME NEW i \in Ids, RefuseVictim(i) PROVE Charged'
  <2>1. /\ UNCHANGED <<touched, disturbed, pass, planned>>
        /\ pass # "write" \/ (End("stopped") /\ lines' = lines)
    BY <1>4, RefuseFacts
  <2>2. CASE pass # "write"
    BY <2>1, <2>2 DEF Charged
  <2>3. CASE End("stopped") /\ lines' = lines
    BY <1>0, <2>1, <2>3, EndClears, ChargedLess DEF Endings
  <2>4. QED
    BY <2>1, <2>2, <2>3
<1>5. CASE AcceptPlan
  <2>1. UNCHANGED <<touched, disturbed>> /\ pass = "plan"
    BY <1>5 DEF AcceptPlan, editVars
  <2>2. CASE TakesSnapshot
    BY <1>5, <2>1, <2>2 DEF AcceptPlan, Charged
  <2>3. CASE ~TakesSnapshot
    BY <1>0, <1>5, <2>1, <2>3, BeginClears, ChargedBegin DEF AcceptPlan
  <2>4. QED
    BY <2>2, <2>3
<1>6. CASE SnapshotKind
  BY <1>6 DEF SnapshotKind, Listing, Charged
<1>7. CASE CommitSnapshot
  <2>1. UNCHANGED <<touched, disturbed>> /\ pass = "plan"
    BY <1>7 DEF CommitSnapshot, Listing
  <2>2. CASE BeginPass("write")
    BY <1>0, <2>1, <2>2, BeginClears, ChargedBegin
  <2>3. CASE UNCHANGED <<pass, lines>>
    BY <2>1, <2>3 DEF Charged
  <2>4. QED
    BY <1>7, <2>2, <2>3 DEF CommitSnapshot
<1>8. ASSUME NEW how \in Endings, Stop(how) PROVE Charged'
  <2>1. Open' = {}
    BY <1>8, EndClears DEF Stop
  <2>2. CASE pass = "write"
    BY <1>0, <1>8, <2>1, <2>2, ChargedLess DEF Stop
  <2>3. CASE pass # "write"
    BY <1>8, <2>3 DEF Stop, Charged
  <2>4. QED
    BY <2>2, <2>3
<1>9. CASE UNCHANGED vars
  <2>1. UNCHANGED <<live, pc, doc, opts, pass, step, todo, victims, existing, lines, planned,
                    touched, disturbed>>
    BY <1>9 DEF vars, passVars, inputVars, editVars
  <2>2. Handled' = Handled
    BY <2>1 DEF Handled, Ahead, Kind
  <2>3. Open' = Open
    BY <2>1, <2>2 DEF Open, Known, InPass
  <2>4. QED
    BY <1>0, <2>1, <2>3, ChargedLess
<1>10. QED
  BY <1>1, <1>2, <1>3, <1>4, <1>5, <1>6, <1>7, <1>8, <1>9, UpdateCharged, DeleteCharged,
     TouchCharged, StepCases

-----------------------------------------------------------------------------
(* Theorems: the snapshot, and the limit *)

\* Whatever is edited and whatever fails, the pass knows what it has to do.
Promised ==
  /\ Inv /\ Listing /\ Fresh /\ Foreseen /\ Ready /\ SnapshotHoldsOverwritten
  /\ Counted /\ Charged

LEMMA InitPromised == Init => Promised
<1> SUFFICES ASSUME Init PROVE Promised
  OBVIOUS
<1>1. Inv /\ Listing
  BY InitInv, InitListing
<1>2. Fresh /\ Foreseen /\ Ready /\ SnapshotHoldsOverwritten /\ Charged
  BY DEF Init, Fresh, Waiting, Foreseen, Ready, SnapshotHoldsOverwritten, Charged, InPass, Nothing
<1>3. Counted
  BY FS_EmptySet DEF Init, Counted
<1>4. QED
  BY <1>1, <1>2, <1>3 DEF Promised

LEMMA PromisedInvariant == Spec => []Promised
<1>1. Promised /\ [Next]_vars => Promised'
  BY NextInv, ListingStep, FreshStep, PromisedNext, HoldsNext, CountedNext, ChargedNext
     DEF Promised
<1>2. QED
  BY <1>1, InitPromised, PTL DEF Spec

\* With --snapshot-dir, whatever a run overwrote or deleted is in the newest
\* snapshot as it was, unless that object was edited during the run or cannot
\* be expressed (main.go, reconcile; snapshot.go, writeSnapshot).
THEOREM OverwrittenIsSaved == Spec => []SnapshotHoldsOverwritten
<1>1. Promised => SnapshotHoldsOverwritten
  BY DEF Promised
<1>2. QED
  BY <1>1, PromisedInvariant, PTL

\* A run that is not forced changes and deletes at most --max-changes objects,
\* and one more for each edit made while it runs (plan.go, refusals).
THEOREM BlastIsBounded == Spec => []BlastRadius
<1>1. ASSUME Promised PROVE BlastRadius
  <2>1. CASE opts.force \/ pass # "write"
    <3>1. pass # "write" => {a \in applied : a.verb # "CREATE"} = {}
      BY <1>1 DEF Promised, Inv, Guarded
    <3>2. Cardinality({}) = 0 /\ opts.maxChanges \in Nat /\ disturbed \in Nat
      BY <1>1, FS_EmptySet DEF Promised, Inv, TypeOK, Option
    <3>3. Cardinality({}) <= opts.maxChanges + disturbed
      BY <3>2
    <3>4. CASE opts.force
      BY <3>4 DEF BlastRadius
    <3>5. CASE pass # "write"
      <4>1. Cardinality({a \in applied : a.verb # "CREATE"}) = Cardinality({})
        BY <3>1, <3>5
      <4>2. QED
        BY <3>3, <4>1 DEF BlastRadius
    <3>6. QED
      BY <2>1, <3>4, <3>5
  <2>2. CASE ~opts.force /\ pass = "write"
    <3> DEFINE D == Destructive(lines)
               P == Destructive(planned)
    <3>1. ~MassChange(planned)
      BY <1>1, <2>2 DEF Promised, Inv, Guarded, PlanPassed
    <3>2. IsFiniteSet(lines) /\ IsFiniteSet(planned) /\ IsFiniteSet(touched)
      BY <1>1 DEF Promised, Counted
    <3>3. D \subseteq lines /\ P \subseteq planned /\ D \subseteq (D \ planned) \cup P
      BY DEF Destructive
    <3>4. /\ IsFiniteSet(D) /\ Cardinality(D) \in Nat /\ IsFiniteSet(P) /\ Cardinality(P) \in Nat
      BY <3>2, <3>3, CardinalitySubset
    <3>5. /\ IsFiniteSet(D \ planned) /\ Cardinality(D \ planned) \in Nat
          /\ IsFiniteSet(touched \cap Open) /\ Cardinality(touched \cap Open) \in Nat
      <4>1. D \ planned \subseteq D /\ touched \cap Open \subseteq touched
        OBVIOUS
      <4>2. QED
        BY <3>2, <3>4, <4>1, CardinalitySubset
    <3>6. /\ IsFiniteSet((D \ planned) \cup P)
          /\ Cardinality((D \ planned) \cup P) =
               Cardinality(D \ planned) + Cardinality(P) - Cardinality((D \ planned) \cap P)
      BY <3>4, <3>5, FS_Union
    <3>7. Cardinality((D \ planned) \cap P) \in Nat
      BY <3>5, FS_Intersection, FS_CardinalityType
    <3>8. Cardinality(D) <= Cardinality((D \ planned) \cup P)
      BY <3>3, <3>6, CardinalitySubset
    <3>9. Cardinality(P) <= opts.maxChanges /\ opts.maxChanges \in Nat /\ disturbed \in Nat
      <4>1. opts.maxChanges \in Nat /\ disturbed \in Nat
        BY <1>1 DEF Promised, Inv, TypeOK, Option
      <4>2. ~(Cardinality(P) > opts.maxChanges)
        BY <3>1 DEF MassChange
      <4>3. QED
        BY <3>4, <4>1, <4>2
    <3>10. Cardinality(D \ planned) + Cardinality(touched \cap Open) <= disturbed
      BY <1>1, <2>2 DEF Promised, Charged
    <3>11. Cardinality(Changes) <= Cardinality(D)
      BY <1>1, <2>2 DEF Promised, Counted
    <3>12. Cardinality(Changes) \in Nat
      <4>1. Changes \subseteq applied /\ IsFiniteSet(applied)
        BY <1>1 DEF Changes, Promised, Counted
      <4>2. QED
        BY <4>1, CardinalitySubset
    <3> HIDE DEF D, P
    <3>13. Cardinality(Changes) <= opts.maxChanges + disturbed
      BY <3>4, <3>5, <3>6, <3>7, <3>8, <3>9, <3>10, <3>11, <3>12
    <3>14. QED
      BY <3>13 DEF BlastRadius, Changes
  <2>3. QED
    BY <2>1, <2>2
<1>2. QED
  BY <1>1, PromisedInvariant, PTL

-----------------------------------------------------------------------------
(* On a console nobody edits, the plan is what has to be done *)

\* The plan lines that bring console c to document d under options p.
Creates(c, d) ==
  {<<"CREATE", k>> : k \in {q \in Keys : d.want[q] # Unset /\ Holders(c, q) = {}}}

Mends(c, d, p) == {LineOf(c[i], d) : i \in {j \in Present(c) : Wrong(c[j], d, p)}}

Calls(c, d, p) == Creates(c, d) \cup Mends(c, d, p)

Due == Calls(live, doc, opts)

LEMMA CallsAreLines ==
  ASSUME NEW c \in Console, NEW d \in Document, NEW p
  PROVE  /\ Calls(c, d, p) \subseteq Line
         /\ \A l \in Creates(c, d) : l[1] = "CREATE"
         /\ \A l \in Mends(c, d, p) : l[1] # "CREATE"
<1>1. \A i \in Present(c) : c[i] \in Object
  BY DEF Present, Console
<1>2. Mends(c, d, p) \subseteq Line /\ \A l \in Mends(c, d, p) : l[1] # "CREATE"
  BY <1>1, ObjectFacts DEF Mends
<1>3. Creates(c, d) \subseteq Line
  BY DEF Creates, Line
<1>4. \A l \in Creates(c, d) : l[1] = "CREATE"
  BY DEF Creates
<1>5. QED
  BY <1>2, <1>3, <1>4 DEF Calls

\* Creating a declared object that is missing leaves one thing less to do.
LEMMA CallsCreate ==
  ASSUME NEW c \in Console, NEW d \in Document, NEW p, NEW i \in Ids, NEW o \in Object,
         c[i] = NoObject, ~Wrong(o, d, p), Holders(c, KeyOf(o)) = {}
  PROVE  Calls([c EXCEPT ![i] = o], d, p) = Calls(c, d, p) \ {<<"CREATE", KeyOf(o)>>}
<1> DEFINE e == [c EXCEPT ![i] = o]
           l == <<"CREATE", KeyOf(o)>>
<1>1. e \in Console /\ e[i] = o /\ (\A j \in Ids : j # i => e[j] = c[j]) /\ o # NoObject
  BY ObjectAssumption DEF Console
<1> HIDE DEF e
<1>2. Present(e) = Present(c) \cup {i} /\ i \notin Present(c)
  BY <1>1 DEF Present
<1>3. \A j \in Present(c) : e[j] = c[j]
  BY <1>1, <1>2 DEF Present
<1>4. ASSUME NEW k \in Keys
      PROVE  Holders(e, k) = {} <=> (Holders(c, k) = {} /\ k # KeyOf(o))
  <2>1. Holders(e, k) = Holders(c, k) \cup {j \in {i} : KeyOf(o) = k}
    BY <1>1, <1>2, <1>3 DEF Holders
  <2>2. QED
    BY <2>1
<1>5. Creates(e, d) = Creates(c, d) \ {l}
  BY <1>4 DEF Creates
<1>6. Mends(e, d, p) = Mends(c, d, p)
  BY <1>1, <1>2, <1>3 DEF Mends
<1>7. l \notin Mends(c, d, p)
  BY CallsAreLines
<1> HIDE DEF l
<1>8. Calls(e, d, p) = Calls(c, d, p) \ {l}
  BY <1>5, <1>6, <1>7 DEF Calls
<1>9. QED
  BY <1>8 DEF e, l

\* So does changing or deleting an object that is not as the document wants.
LEMMA CallsMend ==
  ASSUME NEW c \in Console, Unique(c), NEW d \in Document, NEW p, NEW i \in Ids,
         c[i] # NoObject, NEW o \in Object \cup {NoObject},
         \/ o # NoObject /\ KeyOf(o) = KeyOf(c[i]) /\ ~Wrong(o, d, p)
         \/ o = NoObject /\ d.want[KeyOf(c[i])] = Unset
  PROVE  Calls([c EXCEPT ![i] = o], d, p) = Calls(c, d, p) \ {LineOf(c[i], d)}
<1> DEFINE e == [c EXCEPT ![i] = o]
           l == LineOf(c[i], d)
<1>1. e \in Console /\ e[i] = o /\ (\A j \in Ids : j # i => e[j] = c[j])
  BY DEF Console
<1> HIDE DEF e
<1>2. i \in Present(c) /\ c[i] \in Object /\ l \in Line /\ l[2] = KeyOf(c[i]) /\ l[1] # "CREATE"
  BY ObjectFacts DEF Present, Console
<1>3. \A j \in Present(c) : j # i => KeyOf(c[j]) # KeyOf(c[i])
  BY <1>2 DEF Unique
<1>4. \A j \in Ids : j # i => (j \in Present(e) <=> j \in Present(c))
  BY <1>1 DEF Present
<1>5. \A k \in Keys : d.want[k] # Unset => (Holders(e, k) = {} <=> Holders(c, k) = {})
  <2>1. SUFFICES ASSUME NEW k \in Keys, d.want[k] # Unset
                 PROVE  Holders(e, k) = {} <=> Holders(c, k) = {}
    OBVIOUS
  <2>2. \A j \in Ids : j # i => (j \in Holders(e, k) <=> j \in Holders(c, k))
    BY <1>1, <1>4 DEF Holders
  <2>3. i \in Holders(e, k) <=> i \in Holders(c, k)
    BY <1>1, <1>2, <2>1 DEF Holders, Present
  <2>4. Holders(e, k) \subseteq Ids /\ Holders(c, k) \subseteq Ids
    BY DEF Holders, Present
  <2>5. QED
    BY <2>2, <2>3, <2>4
<1>6. Creates(e, d) = Creates(c, d) /\ l \notin Creates(c, d)
  BY <1>2, <1>5, CallsAreLines DEF Creates
<1>7. Mends(e, d, p) = Mends(c, d, p) \ {l}
  <2>1. ASSUME NEW j \in Present(c), j # i PROVE LineOf(c[j], d) # l
    <3>1. c[j] \in Object
      BY DEF Present, Console
    <3>2. LineOf(c[j], d)[2] = KeyOf(c[j])
      BY <3>1, ObjectFacts
    <3>3. QED
      BY <1>2, <1>3, <2>1, <3>2
  <2>2. {j \in Present(e) : Wrong(e[j], d, p)} = {j \in Present(c) : Wrong(c[j], d, p)} \ {i}
    BY <1>1, <1>4 DEF Present
  <2>3. \A j \in Present(c) \ {i} : e[j] = c[j]
    BY <1>1 DEF Present
  <2> HIDE DEF l
  <2>4. Mends(e, d, p) = {LineOf(c[j], d) : j \in {q \in Present(c) : Wrong(c[q], d, p)} \ {i}}
    BY <2>2, <2>3 DEF Mends
  <2>5. QED
    BY <2>1, <2>4 DEF Mends, l
<1> HIDE DEF l
<1>8. Calls(e, d, p) = Calls(c, d, p) \ {l}
  BY <1>6, <1>7 DEF Calls
<1>9. QED
  BY <1>8 DEF e, l

\* While nobody edits, the planning pass logs just what has to be done, and the
\* writing pass has done what it logged and has the rest before it.
Exact ==
  disturbed = 0 =>
    /\ pass # "write" /\ InPass => lines = Due \cap Handled
    /\ pc \in {"snapshot", "commit"} => planned = Due
    /\ pass = "write" =>
         /\ lines \subseteq planned /\ pc # "stopped"
         /\ InPass => planned = lines \cup Due /\ Due \cap Handled = {}
         /\ pc = "applied" => lines = planned
    /\ pc \in {"clean", "applied"} => Due = {}
    /\ pc = "drift" => pass = "dry" /\ Due # {}

LEMMA Undisturbed == ASSUME TypeOK, Counted, disturbed = 0 PROVE touched = {}
<1>1. IsFiniteSet(touched) /\ Cardinality(touched) <= 0 /\ Cardinality(touched) \in Nat
  BY FS_CardinalityType DEF Counted
<1>2. Cardinality(touched) = 0
  BY <1>1
<1>3. QED
  BY <1>1, <1>2, FS_EmptySet

\* An entry the list lacks is lacking.
LEMMA LackingEntry ==
  ASSUME Inv, Listing, Fresh, touched = {}, pc = "declared", NEW n \in todo,
         Holders(existing, <<Kind, n>>) = {}
  PROVE  /\ Holders(live, <<Kind, n>>) = {} /\ <<Kind, n>> \in Keys
         /\ <<"CREATE", <<Kind, n>>>> \in Due
<1>1. <<Kind, n>> \in Keys /\ doc.want[<<Kind, n>>] # Unset
  BY KindNow DEF Inv, TypeOK, Pending
<1>2. <<Kind, n>> \in Waiting
  BY <1>1 DEF Waiting
<1>3. ASSUME NEW j \in Holders(live, <<Kind, n>>) PROVE FALSE
  <2>1. j \in Ids /\ live[j] # NoObject /\ KeyOf(live[j]) = <<Kind, n>>
    BY <1>3 DEF Holders, Present
  <2>2. live[j] = existing[j]
    BY <1>2, <2>1 DEF Fresh
  <2>3. j \in Holders(existing, <<Kind, n>>)
    BY <2>1, <2>2 DEF Holders, Present
  <2>4. QED
    BY <2>3
<1>4. <<"CREATE", <<Kind, n>>>> \in Creates(live, doc)
  BY <1>1, <1>3 DEF Creates
<1>5. QED
  BY <1>1, <1>3, <1>4 DEF Due, Calls

\* An entry the list has is there.
LEMMA PresentEntry ==
  ASSUME Inv, Listing, Fresh, touched = {}, pc = "declared", NEW n \in todo,
         NEW i \in Holders(existing, <<Kind, n>>)
  PROVE  /\ live[i] = existing[i] /\ i \in Holders(live, <<Kind, n>>)
         /\ <<Kind, n>> \in Keys /\ <<"CREATE", <<Kind, n>>>> \notin Due
<1>1. <<Kind, n>> \in Keys
  BY KindNow DEF Inv, TypeOK
<1>2. <<Kind, n>> \in Waiting
  BY <1>1 DEF Waiting
<1>3. i \in Ids /\ existing[i] # NoObject /\ KeyOf(existing[i]) = <<Kind, n>>
  BY DEF Holders, Present
<1>4. live[i] = existing[i]
  BY <1>2, <1>3 DEF Fresh
<1>5. i \in Holders(live, <<Kind, n>>)
  BY <1>3, <1>4 DEF Holders, Present
<1>6. <<"CREATE", <<Kind, n>>>> \notin Creates(live, doc)
  BY <1>5 DEF Creates
<1>7. <<"CREATE", <<Kind, n>>>> \notin Mends(live, doc, opts)
  <2>1. live \in Console /\ doc \in Document
    BY DEF Inv, TypeOK
  <2>2. QED
    BY <2>1, CallsAreLines
<1>8. QED
  BY <1>1, <1>4, <1>5, <1>6, <1>7 DEF Due, Calls

LEMMA MendsAreMisfits ==
  ASSUME touched = {}, NEW l \in Mends(live, doc, opts)
  PROVE  \E i \in Misfits : l = LineOf(live[i], doc)
BY DEF Mends, Misfits, Present

LEMMA LookDue ==
  ASSUME Inv, Listing, Fresh, touched = {}, Look
  PROVE  Due' = Due /\ Due \cap Handled' = Due \cap Handled
<1>1. TypeOK /\ Pending /\ LookFrame /\ live \in Console /\ doc \in Document
  BY LookFacts DEF Inv, TypeOK
<1>2. Due' = Due
  BY <1>1 DEF Due, LookFrame
<1>3. Handled \subseteq Handled'
  BY <1>1, HandledList, HandledEntry, HandledBeginPrune, HandledNextKind DEF Look, EntryOK
<1>4. ASSUME NEW l \in Due, l \in Handled' \ Handled PROVE FALSE
  <2>1. CASE l \in Mends(live, doc, opts)
    BY <1>4, <2>1, MendsAreMisfits, LookMisfits
  <2>2. CASE l \in Creates(live, doc)
    <3>1. PICK k \in Keys : l = <<"CREATE", k>> /\ doc.want[k] # Unset /\ Holders(live, k) = {}
      BY <2>2 DEF Creates
    <3>2. l[1] # "DELETE" /\ l[1] = "CREATE" /\ l[2] = k
      BY <3>1
    <3>3. CASE List
      BY <1>1, <1>4, <3>1, <3>2, <3>3, HandledList
    <3>4. CASE BeginPrune
      BY <1>1, <1>4, <3>2, <3>4, HandledBeginPrune
    <3>5. CASE NextKind
      BY <1>1, <1>4, <3>5, HandledNextKind
    <3>6. ASSUME NEW n \in Names, EntryOK(n) PROVE FALSE
      <4>1. /\ pc = "declared" /\ n \in todo /\ todo' = todo \ {n}
            /\ UNCHANGED <<pc, step, existing, victims>> /\ Holders(existing, <<Kind, n>>) # {}
        BY <3>6 DEF EntryOK
      <4>2. l[2] = <<Kind, n>>
        BY <1>1, <1>4, <4>1, HandledEntry
      <4>3. PICK i \in Holders(existing, <<Kind, n>>) : TRUE
        BY <4>1
      <4>4. i \in Holders(live, <<Kind, n>>)
        BY <4>1, <4>3, PresentEntry
      <4>5. QED
        BY <3>1, <3>2, <4>2, <4>4
    <3>7. QED
      BY <3>3, <3>4, <3>5, <3>6 DEF Look
  <2>3. QED
    BY <1>4, <2>1, <2>2 DEF Due, Calls
<1>5. QED
  BY <1>2, <1>3, <1>4

\* A step of the pass logs one thing that has to be done, and a write does it.
LEMMA ExactStep ==
  ASSUME Exact, disturbed = 0, Frame, InPass, pc' = pc, NEW l \in Due,
         Handled \subseteq Handled', l \in Handled', Due \cap (Handled' \ Handled) \subseteq {l},
         lines' = lines \cup {l},
         pass # "write" => Due' = Due,
         pass = "write" => Due' = Due \ {l}
  PROVE  Exact'
<1>1. InPass' /\ pc' \in {"list", "declared", "prune"}
  BY DEF InPass
<1>2. CASE pass # "write"
  <2>1. lines = Due \cap Handled /\ Due' = Due
    BY <1>2 DEF Exact
  <2>2. lines' = Due' \cap Handled'
    BY <2>1
  <2>3. QED
    BY <1>1, <1>2, <2>2 DEF Exact, Frame
<1>3. CASE pass = "write"
  <2>1. /\ lines \subseteq planned /\ planned = lines \cup Due /\ Due \cap Handled = {}
        /\ Due' = Due \ {l}
    BY <1>3 DEF Exact
  <2>2. /\ lines' \subseteq planned /\ planned = lines' \cup Due' /\ Due' \cap Handled' = {}
    BY <2>1
  <2>3. QED
    BY <1>1, <1>3, <2>2 DEF Exact, Frame
<1>4. QED
  BY <1>2, <1>3

LEMMA ExactFailed ==
  ASSUME Exact, disturbed = 0, Frame, InPass, NEW l \in Due, lines' = lines \cup {l}, End("failed")
  PROVE  Exact'
<1>1. ~InPass' /\ pc' = "failed"
  BY EndClears DEF Endings
<1>2. pass = "write" => lines' \subseteq planned
  BY DEF Exact
<1>3. QED
  BY <1>1, <1>2 DEF Exact, Frame

LEMMA CreateExact ==
  ASSUME Inv, Listing, Fresh, touched = {}, Exact, disturbed = 0, NEW n \in Names, CreateEntry(n)
  PROVE  Exact'
<1> DEFINE k == <<Kind, n>>
           l == <<"CREATE", k>>
<1>1. PICK i \in Ids, new \in Object :
        /\ KeyOf(new) = k /\ new.value = doc.want[k] /\ live[i] = NoObject
        /\ Wrote("CREATE", i, new)
  BY CreateFacts
<1>2. /\ n \in todo /\ pc = "declared" /\ Frame /\ doc.want[k] # Unset
      /\ Holders(existing, k) = {} /\ lines' = lines \cup {l}
      /\ \/ todo' = todo \ {n} /\ UNCHANGED <<pc, step, existing, victims>>
         \/ End("failed")
  BY CreateFacts, ValuesAssumption
<1>3. TypeOK /\ Pending /\ InPass /\ live \in Console /\ doc \in Document
  BY <1>2 DEF Inv, TypeOK, InPass
<1>4. Holders(live, k) = {} /\ k \in Keys /\ l \in Due
  BY <1>2, LackingEntry
<1>5. CASE todo' = todo \ {n} /\ UNCHANGED <<pc, step, existing, victims>>
  <2>1. l \in Line /\ l[1] = "CREATE" /\ l[2] = k
    BY <1>4 DEF Line
  <2>2. Handled \subseteq Handled' /\ l \in Handled'
    BY <1>2, <1>3, <1>5, <2>1, HandledEntry
  <2>3. ASSUME NEW m \in Due, m \in Handled' \ Handled PROVE m = l
    <3>1. m[1] # "DELETE" /\ m[2] = k
      BY <1>2, <1>3, <1>5, <2>3, HandledEntry
    <3>2. CASE m \in Creates(live, doc)
      BY <3>1, <3>2 DEF Creates
    <3>3. CASE m \in Mends(live, doc, opts)
      <4>1. PICK j \in Misfits : m = LineOf(live[j], doc)
        BY <3>3, MendsAreMisfits
      <4>2. live[j] \in Object /\ j \in Present(live)
        BY <1>3 DEF Misfits, Present, Console
      <4>3. KeyOf(live[j]) = k
        BY <1>3, <3>1, <4>1, <4>2, ObjectFacts
      <4>4. QED
        BY <1>4, <4>2, <4>3 DEF Holders
    <3>4. QED
      BY <2>3, <3>2, <3>3 DEF Due, Calls
  <2>4. pass # "write" => Due' = Due
    BY <1>1, <1>2 DEF Wrote, Due, Frame
  <2>5. ASSUME pass = "write" PROVE Due' = Due \ {l}
    <3>1. live' = [live EXCEPT ![i] = new]
      BY <1>1, <1>2, <1>5, <2>5, EndClears DEF Wrote, Endings
    <3>2. ~Wrong(new, doc, opts)
      BY <1>1, <1>2, WrittenIsRight
    <3>3. Calls([live EXCEPT ![i] = new], doc, opts) = Calls(live, doc, opts) \ {l}
      BY <1>1, <1>3, <1>4, <3>2, CallsCreate
    <3>4. QED
      BY <1>2, <3>1, <3>3 DEF Due, Frame
  <2>6. pc' = pc
    BY <1>5
  <2> HIDE DEF l
  <2>7. QED
    BY <1>2, <1>3, <1>4, <2>2, <2>3, <2>4, <2>5, <2>6, ExactStep
<1>6. QED
  BY <1>2, <1>3, <1>4, <1>5, ExactFailed

LEMMA UpdateExact ==
  ASSUME Inv, Listing, Fresh, touched = {}, Exact, disturbed = 0, NEW n \in Names, UpdateEntry(n)
  PROVE  Exact'
<1> DEFINE k == <<Kind, n>>
           l == <<"UPDATE", k>>
<1>1. PICK i \in Ids, new \in Object :
        /\ existing[i] \in Object /\ KeyOf(existing[i]) = k
        /\ existing[i].value # doc.want[k]
        /\ KeyOf(new) = k /\ new.value = doc.want[k]
        /\ Wrote("UPDATE", i, new)
  BY UpdateFacts
<1>2. /\ n \in todo /\ pc = "declared" /\ Frame /\ doc.want[k] # Unset
      /\ lines' = lines \cup {l}
      /\ \/ todo' = todo \ {n} /\ UNCHANGED <<pc, step, existing, victims>>
         \/ End("failed")
  BY UpdateFacts, ValuesAssumption
<1>3. TypeOK /\ Pending /\ InPass /\ live \in Console /\ doc \in Document /\ Unique(live)
  BY <1>2 DEF Inv, TypeOK, InPass, Listing
<1>4. i \in Holders(existing, k)
  BY <1>1, ObjectAssumption DEF Holders, Present
<1>5. /\ live[i] = existing[i] /\ i \in Holders(live, k) /\ k \in Keys
      /\ <<"CREATE", k>> \notin Due
  BY <1>2, <1>4, PresentEntry
<1>6. /\ live[i] # NoObject /\ KeyOf(live[i]) = k /\ Wrong(live[i], doc, opts)
      /\ LineOf(live[i], doc) = l
  BY <1>1, <1>2, <1>5, ObjectAssumption DEF Wrong, LineOf
<1>7. l \in Due
  BY <1>6 DEF Due, Calls, Mends, Present
<1>8. CASE todo' = todo \ {n} /\ UNCHANGED <<pc, step, existing, victims>>
  <2>1. l \in Line /\ l[1] = "UPDATE" /\ l[2] = k
    BY <1>5 DEF Line
  <2>2. Handled \subseteq Handled' /\ l \in Handled'
    BY <1>2, <1>3, <1>8, <2>1, HandledEntry
  <2>3. ASSUME NEW m \in Due, m \in Handled' \ Handled PROVE m = l
    <3>1. m[1] # "DELETE" /\ m[2] = k
      BY <1>2, <1>3, <1>8, <2>3, HandledEntry
    <3>2. m \in Line
      BY <1>3, <2>3, CallsAreLines DEF Due
    <3>3. m = <<m[1], m[2]>> /\ m[1] \in {"CREATE", "UPDATE", "DELETE"}
      BY <3>2 DEF Line
    <3>4. m[1] # "CREATE"
      BY <1>5, <2>3, <3>1, <3>3
    <3>5. QED
      BY <3>1, <3>3, <3>4
  <2>4. pass # "write" => Due' = Due
    BY <1>1, <1>2 DEF Wrote, Due, Frame
  <2>5. ASSUME pass = "write" PROVE Due' = Due \ {l}
    <3>1. live' = [live EXCEPT ![i] = new]
      BY <1>1, <1>2, <1>8, <2>5, EndClears DEF Wrote, Endings
    <3>2. ~Wrong(new, doc, opts) /\ new # NoObject
      BY <1>1, <1>2, WrittenIsRight, ObjectAssumption
    <3>3. Calls([live EXCEPT ![i] = new], doc, opts)
            = Calls(live, doc, opts) \ {LineOf(live[i], doc)}
      BY <1>1, <1>3, <1>6, <3>2, CallsMend
    <3>4. QED
      BY <1>2, <1>6, <3>1, <3>3 DEF Due, Frame
  <2>6. pc' = pc
    BY <1>8
  <2> HIDE DEF l
  <2>7. QED
    BY <1>2, <1>3, <1>7, <2>2, <2>3, <2>4, <2>5, <2>6, ExactStep
<1>9. QED
  BY <1>2, <1>3, <1>7, <1>8, ExactFailed

\* A candidate is on the console, and has to go.
LEMMA VictimDue ==
  ASSUME Inv, Fresh, touched = {}, NEW i \in victims, existing[i] \in Object,
         Wrong(existing[i], doc, opts),
         LineOf(existing[i], doc) = <<"DELETE", KeyOf(existing[i])>>
  PROVE  /\ i \in Ids /\ live[i] = existing[i] /\ <<"DELETE", KeyOf(existing[i])>> \in Due
         /\ doc.want[KeyOf(existing[i])] = Unset
<1>1. i \in Ids /\ live[i] = existing[i] /\ live[i] # NoObject
  BY ObjectAssumption DEF Fresh, Inv, TypeOK
<1>2. <<"DELETE", KeyOf(existing[i])>> \in Due
  BY <1>1 DEF Due, Calls, Mends, Present
<1>3. doc.want[KeyOf(existing[i])] = Unset
  BY DEF LineOf
<1>4. QED
  BY <1>1, <1>2, <1>3

LEMMA DeleteExact ==
  ASSUME Inv, Listing, Fresh, touched = {}, Exact, disturbed = 0, NEW i \in Ids, DeleteVictim(i)
  PROVE  Exact'
<1> DEFINE l == <<"DELETE", KeyOf(existing[i])>>
<1>1. /\ pc = "prune" /\ i \in victims /\ Frame /\ existing[i] \in Object
      /\ Wrong(existing[i], doc, opts) /\ LineOf(existing[i], doc) = l
      /\ lines' = lines \cup {l} /\ Wrote("DELETE", i, NoObject)
      /\ \/ victims' = victims \ {i} /\ UNCHANGED <<pc, step, existing, todo>>
         \/ End("failed")
  BY DeleteFacts
<1>2. /\ TypeOK /\ Pending /\ InPass /\ live \in Console /\ doc \in Document /\ Unique(live)
      /\ Unique(existing)
  BY <1>1 DEF Inv, TypeOK, InPass, Listing
<1>3. live[i] = existing[i] /\ l \in Due /\ doc.want[KeyOf(live[i])] = Unset
  BY <1>1, VictimDue
<1>4. CASE victims' = victims \ {i} /\ UNCHANGED <<pc, step, existing, todo>>
  <2>1. Handled \subseteq Handled' /\ l \in Handled' /\ (\A m \in Handled' \ Handled : m = l)
    BY <1>1, <1>2, <1>4, HandledVictim
  <2>2. pass # "write" => Due' = Due
    BY <1>1 DEF Wrote, Due, Frame
  <2>3. ASSUME pass = "write" PROVE Due' = Due \ {l}
    <3>1. live' = [live EXCEPT ![i] = NoObject]
      BY <1>1, <1>4, <2>3, EndClears DEF Wrote, Endings
    <3>2. live[i] # NoObject
      BY <1>1, <1>3, ObjectAssumption
    <3>3. Calls([live EXCEPT ![i] = NoObject], doc, opts)
            = Calls(live, doc, opts) \ {LineOf(live[i], doc)}
      BY <1>2, <1>3, <3>2, CallsMend, SMTT(40)
    <3>4. QED
      BY <1>1, <1>3, <3>1, <3>3 DEF Due, Frame
  <2>4. pc' = pc
    BY <1>4
  <2> HIDE DEF l
  <2>5. QED
    BY <1>1, <1>2, <1>3, <2>1, <2>2, <2>3, <2>4, ExactStep
<1>5. QED
  BY <1>1, <1>2, <1>3, <1>4, ExactFailed

\* A planned deletion was approved, so the writing pass is not stopped.
LEMMA RefuseExact ==
  ASSUME Inv, Listing, Fresh, touched = {}, Exact, disturbed = 0, NEW i \in Ids, RefuseVictim(i)
  PROVE  Exact'
<1> DEFINE k == KeyOf(existing[i])
           l == <<"DELETE", k>>
<1>1. /\ pc = "prune" /\ i \in victims /\ existing[i] \in Object /\ ~Approved(k)
      /\ Wrong(existing[i], doc, opts) /\ LineOf(existing[i], doc) = l
      /\ UNCHANGED <<live, doc, opts, source, pass, disturbed, planned>>
      /\ \/ /\ pass # "write" /\ lines' = lines \cup {l}
            /\ victims' = victims \ {i} /\ UNCHANGED <<pc, step, existing, todo>>
         \/ pass = "write" /\ End("stopped") /\ lines' = lines
  BY RefuseFacts
<1>2. TypeOK /\ Pending /\ InPass /\ Unique(existing)
  BY <1>1 DEF Inv, InPass, Listing
<1>3. l \in Due
  BY <1>1, VictimDue
<1>4. CASE pass = "write"
  <2>1. l \in planned
    BY <1>2, <1>3, <1>4 DEF Exact
  <2>2. l[1] = "DELETE" /\ l[2] = k
    OBVIOUS
  <2> HIDE DEF l, k
  <2>3. Approved(k)
    BY <1>4, <2>1, <2>2 DEF Inv, Guarded, PlanPassed, Approved
  <2>4. QED
    BY <1>1, <2>3 DEF k
<1>5. CASE pass # "write"
  <2>1. Handled \subseteq Handled' /\ l \in Handled' /\ (\A m \in Handled' \ Handled : m = l)
    BY <1>1, <1>2, <1>5, HandledVictim
  <2>2. lines = Due \cap Handled /\ Due' = Due
    BY <1>1, <1>2, <1>5 DEF Exact, Due
  <2>3. lines' = Due' \cap Handled'
    BY <1>1, <1>3, <1>5, <2>1, <2>2
  <2>4. pc' = "prune" /\ pass' # "write"
    BY <1>1, <1>5
  <2>5. QED
    BY <2>3, <2>4 DEF Exact
<1>6. QED
  BY <1>4, <1>5

LEMMA ExactBegin ==
  ASSUME planned' = Due', pass' = "write", BeginPass("write")
  PROVE  Exact'
BY BeginClears DEF Exact

LEMMA ExactNext ==
  ASSUME Inv, Listing, Fresh, Counted, Exact, [Next]_vars PROVE Exact'
<1>0. TypeOK /\ live \in Console /\ doc \in Document
  BY DEF Inv, TypeOK
<1>1. ASSUME NEW d \in Document, NEW o \in Option, NEW from \in {"instance", "snapshot"},
             Start(d, o, from)
      PROVE  Exact'
  <2>1. pass' # "write" /\ pc' = "list" /\ lines' = {} /\ Handled' = {}
    BY <1>1, BeginClears DEF Start, Launch
  <2>2. QED
    BY <2>1 DEF Exact
<1>2. ASSUME NEW i \in Ids, NEW after \in Object \cup {NoObject}, Touch(i, after) PROVE Exact'
  <2>1. disturbed' = disturbed + 1 /\ disturbed \in Nat
    BY <1>0, <1>2 DEF Touch, Edit, TypeOK
  <2>2. disturbed' # 0
    BY <2>1
  <2>3. QED
    BY <2>2 DEF Exact
<1>3. ASSUME disturbed = 0 PROVE touched = {}
  BY <1>0, <1>3, Undisturbed
<1>4. CASE Look
  <2>1. LookFrame /\ InPass /\ InPass' /\ pc' \in {"list", "declared", "prune"}
    BY <1>4, LookFacts DEF InPass
  <2>2. CASE disturbed # 0
    BY <2>1, <2>2 DEF LookFrame, Exact
  <2>3. CASE disturbed = 0
    <3>1. Due' = Due /\ Due \cap Handled' = Due \cap Handled
      BY <1>3, <1>4, <2>3, LookDue
    <3>2. QED
      BY <2>1, <2>3, <3>1 DEF LookFrame, Exact
  <2>4. QED
    BY <2>2, <2>3
<1>5. ASSUME NEW n \in Names, CreateEntry(n) PROVE Exact'
  <2>1. disturbed' = disturbed
    BY <1>5, CreateFacts DEF Frame
  <2>2. QED
    BY <1>3, <1>5, <2>1, CreateExact DEF Exact
<1>6. ASSUME NEW n \in Names, UpdateEntry(n) PROVE Exact'
  <2>1. disturbed' = disturbed
    BY <1>6, UpdateFacts DEF Frame
  <2>2. QED
    BY <1>3, <1>6, <2>1, UpdateExact DEF Exact
<1>7. ASSUME NEW i \in Ids, DeleteVictim(i) PROVE Exact'
  <2>1. disturbed' = disturbed
    BY <1>7, DeleteFacts DEF Frame
  <2>2. QED
    BY <1>3, <1>7, <2>1, DeleteExact DEF Exact
<1>8. ASSUME NEW i \in Ids, RefuseVictim(i) PROVE Exact'
  <2>1. disturbed' = disturbed
    BY <1>8, RefuseFacts
  <2>2. QED
    BY <1>3, <1>8, <2>1, RefuseExact DEF Exact
<1>9. PassDone => Due \cap Handled = Due /\ InPass
  <2>1. Due \subseteq Line
    BY <1>0, CallsAreLines DEF Due
  <2>2. QED
    BY <1>0, <2>1, HandledAll DEF PassDone, InPass
<1>10. CASE AcceptPlan
  <2>1. /\ UNCHANGED <<live, doc, opts, disturbed>> /\ planned' = lines /\ pass = "plan" /\ PassDone
    BY <1>10 DEF AcceptPlan, inputVars, editVars
  <2>2. CASE disturbed # 0
    BY <2>1, <2>2 DEF Exact
  <2>3. CASE disturbed = 0
    <3>1. planned' = Due /\ Due' = Due
      BY <1>9, <2>1, <2>3 DEF Exact, Due
    <3>2. CASE TakesSnapshot
      <4>1. pc' = "snapshot" /\ pass' = "plan"
        BY <1>10, <2>1, <3>2 DEF AcceptPlan
      <4>2. QED
        BY <3>1, <4>1 DEF Exact, InPass
    <3>3. CASE ~TakesSnapshot
      BY <1>10, <3>1, <3>3, ExactBegin, BeginClears DEF AcceptPlan
    <3>4. QED
      BY <3>2, <3>3
  <2>4. QED
    BY <2>2, <2>3
<1>11. CASE SnapshotKind
  <2>1. /\ UNCHANGED <<live, doc, opts, disturbed, planned, pass>> /\ pc = "snapshot"
        /\ pc' \in {"snapshot", "commit"} /\ pass = "plan"
    BY <1>11 DEF SnapshotKind, inputVars, editVars, Listing
  <2>2. QED
    BY <2>1 DEF Exact, InPass, Due
<1>12. CASE CommitSnapshot
  <2>1. /\ UNCHANGED <<live, doc, opts, disturbed, planned>> /\ pc = "commit" /\ pass = "plan"
    BY <1>12 DEF CommitSnapshot, inputVars, Listing
  <2>2. CASE disturbed # 0
    BY <2>1, <2>2 DEF Exact
  <2>3. CASE disturbed = 0
    <3>1. planned' = Due /\ Due' = Due
      BY <2>1, <2>3 DEF Exact, Due
    <3>2. CASE BeginPass("write")
      BY <3>1, <3>2, ExactBegin, BeginClears
    <3>3. CASE End("failed") /\ UNCHANGED pass
      <4>1. ~InPass' /\ pc' = "failed" /\ pass' # "write"
        BY <2>1, <3>3, EndClears DEF Endings
      <4>2. QED
        BY <4>1 DEF Exact
    <3>4. QED
      BY <1>12, <3>2, <3>3 DEF CommitSnapshot
  <2>4. QED
    BY <2>2, <2>3
<1>13. ASSUME NEW how \in Endings, Stop(how) PROVE Exact'
  <2>1. /\ ~InPass' /\ pc' = how /\ how \notin {"snapshot", "commit"} /\ how # "stopped"
        /\ UNCHANGED <<live, doc, opts, pass, lines, disturbed>>
        /\ pass = "write" => planned' = planned
    BY <1>13, EndClears DEF Stop
  <2>2. Due' = Due
    BY <2>1 DEF Due
  <2>3. CASE disturbed # 0
    BY <2>1, <2>3 DEF Exact
  <2>4. CASE disturbed = 0
    <3>1. how = "clean" => Due = {}
      BY <1>9, <1>13, <2>4 DEF Stop, Exact
    <3>2. how = "drift" => pass = "dry" /\ Due # {}
      BY <1>9, <1>13, <2>4 DEF Stop, Exact
    <3>3. how = "applied" => Due = {} /\ lines = planned
      BY <1>9, <1>13, <2>4 DEF Stop, Exact
    <3>4. pass = "write" => lines \subseteq planned
      BY <2>4 DEF Exact
    <3>5. QED
      BY <2>1, <2>2, <3>1, <3>2, <3>3, <3>4 DEF Exact
  <2>5. QED
    BY <2>3, <2>4
<1>14. CASE UNCHANGED vars
  <2>1. UNCHANGED <<live, pc, doc, opts, pass, step, todo, victims, existing, lines, planned,
                    disturbed>>
    BY <1>14 DEF vars, passVars, inputVars, editVars
  <2>2. Handled' = Handled /\ Due' = Due
    BY <2>1 DEF Handled, Ahead, Kind, Due
  <2>3. QED
    BY <2>1, <2>2 DEF Exact, InPass
<1>15. QED
  BY <1>1, <1>2, <1>4, <1>5, <1>6, <1>7, <1>8, <1>10, <1>11, <1>12, <1>13, <1>14, StepCases

-----------------------------------------------------------------------------
(* Theorems: the plan and the exit status *)

LEMMA ExactInvariant == Spec => [](Promised /\ Exact)
<1>1. Init => Promised /\ Exact
  BY InitPromised DEF Init, Exact, InPass
<1>2. Promised /\ Exact /\ [Next]_vars => (Promised /\ Exact)'
  BY NextInv, ListingStep, FreshStep, PromisedNext, HoldsNext, CountedNext, ChargedNext, ExactNext
     DEF Promised
<1>3. QED
  BY <1>1, <1>2, PTL DEF Spec

\* A dry run prints exactly what the writing pass will do, as long as nobody
\* edits the console (docs/unifi.md; main.go, reconcile).
THEOREM PlanIsWhatHappens == Spec => []PlanIsExact
<1>1. Exact => PlanIsExact
  BY DEF Exact, PlanIsExact
<1>2. QED
  BY <1>1, ExactInvariant, PTL

\* Nothing has to be done just when the console is what the document asks for.
LEMMA SettledIsNothingDue ==
  ASSUME NEW c \in Console, Unique(c), NEW d \in Document, NEW p
  PROVE  Settled(c, d, p) <=> Calls(c, d, p) = {}
<1>1. \A i \in Present(c) : c[i] \in Object /\ KeyOf(c[i]) \in Keys /\ c[i].value \in Values
  BY ObjectFacts DEF Present, Console
<1>2. ASSUME NEW k \in Keys, NEW i \in Holders(c, k)
      PROVE  /\ i \in Present(c) /\ KeyOf(c[i]) = k /\ ContentOf(c)[k] = c[i].value
             /\ \A j \in Holders(c, k) : j = i
  <2>1. i \in Present(c) /\ KeyOf(c[i]) = k /\ (\A j \in Holders(c, k) : j = i)
    BY DEF Holders, Unique
  <2>2. QED
    BY <1>1, <2>1, ContentOfHolder
<1>3. ASSUME Settled(c, d, p), NEW l \in Calls(c, d, p) PROVE FALSE
  <2>1. CASE l \in Creates(c, d)
    <3>1. PICK k \in Keys : d.want[k] # Unset /\ Holders(c, k) = {}
      BY <2>1 DEF Creates
    <3>2. ContentOf(c)[k] = Unset
      BY <3>1 DEF ContentOf
    <3>3. QED
      BY <1>3, <3>1, <3>2 DEF Settled
  <2>2. CASE l \in Mends(c, d, p)
    <3>1. PICK i \in Present(c) : Wrong(c[i], d, p)
      BY <2>2 DEF Mends
    <3> DEFINE k == KeyOf(c[i])
    <3>2. k \in Keys /\ i \in Holders(c, k) /\ k[1] = c[i].kind
      BY <1>1, ObjectFacts DEF Holders
    <3>3. ContentOf(c)[k] = c[i].value
      BY <1>2, <3>2
    <3>4. CASE d.want[k] # Unset
      BY <1>3, <3>1, <3>2, <3>3, <3>4 DEF Settled, Wrong
    <3>5. CASE d.want[k] = Unset
      BY <1>3, <3>1, <3>2, <3>5 DEF Settled, Wrong
    <3>6. QED
      BY <3>4, <3>5
  <2>3. QED
    BY <1>3, <2>1, <2>2 DEF Calls
<1>4. ASSUME Calls(c, d, p) = {}, NEW k \in Keys
      PROVE  IF d.want[k] # Unset THEN ContentOf(c)[k] = d.want[k]
             ELSE p.prune /\ k[1] \in d.sections =>
                    \A i \in Holders(c, k) : c[i].origin = "SYSTEM_DEFINED"
  <2>1. ASSUME NEW i \in Holders(c, k) PROVE ~Wrong(c[i], d, p) /\ KeyOf(c[i]) = k
    <3>1. i \in Present(c) /\ KeyOf(c[i]) = k
      BY DEF Holders
    <3>2. Wrong(c[i], d, p) => LineOf(c[i], d) \in Calls(c, d, p)
      BY <3>1 DEF Calls, Mends
    <3>3. QED
      BY <1>4, <3>1, <3>2
  <2>2. CASE d.want[k] # Unset
    <3>1. Holders(c, k) # {}
      BY <1>4, <2>2 DEF Calls, Creates
    <3>2. PICK i \in Holders(c, k) : TRUE
      BY <3>1
    <3>3. ContentOf(c)[k] = c[i].value
      BY <1>2
    <3>4. QED
      BY <2>1, <2>2, <3>3 DEF Wrong
  <2>3. CASE d.want[k] = Unset
    <3>1. ASSUME p.prune, k[1] \in d.sections, NEW i \in Holders(c, k)
          PROVE  c[i].origin = "SYSTEM_DEFINED"
      <4>1. c[i] \in Object /\ KeyOf(c[i]) = k
        BY <1>1 DEF Holders
      <4>2. c[i].kind = k[1] /\ c[i].origin \in {"USER_DEFINED", "SYSTEM_DEFINED"}
        BY <4>1, ObjectFacts
      <4>3. QED
        BY <2>1, <2>3, <3>1, <4>1, <4>2 DEF Wrong
    <3>2. QED
      BY <2>3, <3>1
  <2>4. QED
    BY <2>2, <2>3
<1>5. QED
  BY <1>3, <1>4 DEF Settled

\* While nobody edits the console, exit 2 is `diff`'s and means that it is not
\* as the document asks; exit 0 of `diff` or of a run that may write means that
\* it is.
THEOREM ExitIsTrue == Spec => []ExitStatusIsTrue
<1>1. ASSUME Promised, Exact PROVE ExitStatusIsTrue
  <2>1. live \in Console /\ doc \in Document /\ Unique(live)
    BY <1>1 DEF Promised, Inv, TypeOK, Listing
  <2>2. Settled(live, doc, opts) <=> Due = {}
    BY <2>1, SettledIsNothingDue DEF Due
  <2>3. ASSUME disturbed = 0, ExitStatus = 2 PROVE opts.diff /\ Due # {}
    BY <1>1, <2>3 DEF Exact, ExitStatus
  <2>4. ASSUME disturbed = 0, ExitStatus = 0, opts.diff \/ ~opts.dryRun PROVE Due = {}
    <3>1. pass = "dry" => opts.dryRun
      BY <1>1 DEF Promised, Inv, Guarded
    <3>2. CASE pc = "drift"
      BY <1>1, <2>4, <3>1, <3>2 DEF Exact, ExitStatus
    <3>3. CASE pc # "drift"
      BY <1>1, <2>4, <3>3 DEF Exact, ExitStatus
    <3>4. QED
      BY <3>2, <3>3
  <2>5. QED
    BY <2>2, <2>3, <2>4 DEF ExitStatusIsTrue
<1>2. QED
  BY <1>1, ExactInvariant, PTL

-----------------------------------------------------------------------------
(* Undo *)

\* The draft has what the console holds of the kinds it has read.
Copied ==
  disturbed = 0 /\ pc \in {"snapshot", "commit"} =>
    \A k \in Keys :
      k[1] \in Read /\ <<k[1], ContentOf(live)[k]>> \notin Opaque =>
        draft[k] = ContentOf(live)[k]

\* While nobody edits, the snapshot is what the site was, and it accounts for
\* the console's own objects; a restore that takes no snapshot of its own goes
\* by the newest one to the end.
Kept ==
  /\ quiet => disturbed = 0
  /\ quiet /\ Expressible => saved = before
  /\ quiet => \A i \in Present(live) :
                live[i].origin = "SYSTEM_DEFINED" => before[KeyOf(live[i])] # Unset
  /\ pc = "drift" => pass = "dry"
  /\ source = "snapshot" /\ (~opts.snapshotDir \/ pass = "dry") =>
       doc = [sections |-> KindSet, want |-> saved, deletions |-> {}]

\* What the run writes is not the console's own, or was there before.
KeptWrite(o) ==
  o # NoObject /\ o.origin = "SYSTEM_DEFINED" /\ quiet => before[KeyOf(o)] # Unset

LEMMA KeptKept ==
  ASSUME Kept, UNCHANGED <<disturbed, quiet, saved, before, source, opts, doc>>,
         \A i \in Ids : live'[i] = live[i] \/ KeptWrite(live'[i]),
         pc' # "drift" \/ pass' = "dry",
         pass' = "dry" => pass = "dry"
  PROVE  Kept'
<1>1. Expressible' = Expressible
  BY DEF Expressible
<1>2. \A i \in Present(live') : live'[i] = live[i] => i \in Present(live)
  BY DEF Present
<1>3. quiet => \A i \in Present(live') :
                 live'[i].origin = "SYSTEM_DEFINED" => before[KeyOf(live'[i])] # Unset
  BY <1>2 DEF Kept, KeptWrite, Present
<1>4. QED
  BY <1>1, <1>3 DEF Kept

\* A write keeps the console's own objects accounted for.
LEMMA WroteKept ==
  ASSUME Inv, Kept, Frame, NEW verb, NEW i \in Ids, NEW after \in Object \cup {NoObject},
         Wrote(verb, i, after), KeptWrite(after), pc' # "drift"
  PROVE  Kept'
<1>1. \A j \in Ids : live'[j] = live[j] \/ KeptWrite(live'[j])
  <2>1. CASE live' = live
    BY <2>1
  <2>2. CASE live' # live
    <3>1. live' = [live EXCEPT ![i] = after] /\ live \in Console
      BY <2>2 DEF Wrote, Inv, TypeOK
    <3>2. \A j \in Ids : live'[j] = live[j] \/ live'[j] = after
      BY <3>1 DEF Console
    <3>3. QED
      BY <3>2
  <2>3. QED
    BY <2>1, <2>2
<1>2. QED
  BY <1>1, KeptKept DEF Frame

LEMMA UpdateKept ==
  ASSUME Inv, Listing, Fresh, Counted, Kept, NEW n \in Names, UpdateEntry(n), pc' # "drift"
  PROVE  Kept'
<1>1. PICK i \in Ids, new \in Object :
        /\ existing[i] \in Object /\ KeyOf(existing[i]) = <<Kind, n>>
        /\ KeyOf(new) = <<Kind, n>> /\ new.origin = existing[i].origin
        /\ Wrote("UPDATE", i, new)
  BY UpdateFacts
<1>2. pc = "declared" /\ n \in todo /\ Frame
  BY UpdateFacts
<1>3. ASSUME quiet PROVE live[i] = existing[i] /\ i \in Present(live)
  <2>1. touched = {}
    BY <1>3, Undisturbed DEF Kept, Inv
  <2>2. i \in Holders(existing, <<Kind, n>>)
    BY <1>1, ObjectAssumption DEF Holders, Present
  <2>3. live[i] = existing[i] /\ i \in Holders(live, <<Kind, n>>)
    BY <1>2, <2>1, <2>2, PresentEntry
  <2>4. QED
    BY <2>3 DEF Holders
<1>4. KeptWrite(new)
  BY <1>1, <1>3 DEF Kept, KeptWrite
<1>5. QED
  BY <1>1, <1>2, <1>4, WroteKept

LEMMA CommitKept ==
  ASSUME Inv, Listing, Copied, Kept, CommitSnapshot PROVE Kept'
<1>1. /\ UNCHANGED <<live, doc, opts, source, disturbed>> /\ pc = "commit" /\ opts.snapshotDir
      /\ saved' = draft /\ before' = ContentOf(live) /\ quiet' = (disturbed = 0)
      /\ (BeginPass("write") \/ (End("failed") /\ pass' = pass)) /\ pass = "plan"
  BY DEF CommitSnapshot, inputVars, Listing
<1>2. pass' # "dry" /\ pc' # "drift"
  BY <1>1, BeginClears, EndClears DEF Endings
<1>3. live \in Console /\ draft \in Content /\ ContentOf(live) \in Content /\ Unique(live)
      /\ doc \in Document
  BY ContentFacts DEF Inv, TypeOK, Listing
<1>4. ASSUME disturbed = 0, \A k \in Keys : <<k[1], ContentOf(live)[k]>> \notin Opaque
      PROVE  draft = ContentOf(live)
  <2>1. ASSUME NEW k \in Keys PROVE draft[k] = ContentOf(live)[k]
    <3>1. k[1] \in KindSet
      BY DEF Keys
    <3>2. k[1] \in Read
      BY <1>1, <3>1, KindsAssumption DEF Read, KindSet
    <3>3. QED
      BY <1>1, <1>4, <3>2 DEF Copied
  <2>2. QED
    BY <1>3, <2>1 DEF Content
<1>5. quiet' /\ Expressible' => saved' = before'
  BY <1>1, <1>4 DEF Expressible
<1>6. ASSUME NEW i \in Present(live) PROVE ContentOf(live)[KeyOf(live[i])] # Unset
  <2>1. live[i] \in Object
    BY <1>3 DEF Present, Console
  <2>2. KeyOf(live[i]) \in Keys /\ live[i].value \in Values
    BY <1>3, <2>1, ObjectFacts
  <2>3. QED
    BY <1>3, <2>2, ContentOfHolder, ValuesAssumption
<1>7. QED
  BY <1>1, <1>2, <1>5, <1>6 DEF Kept

LEMMA CopiedKind ==
  ASSUME Inv, Copied, SnapshotKind PROVE Copied'
<1>1. /\ UNCHANGED <<live, disturbed>> /\ pc = "snapshot" /\ pc' \in {"snapshot", "commit"}
      /\ draft' = [k \in Keys |-> IF Exported(k) THEN ContentOf(live)[k] ELSE draft[k]]
  BY DEF SnapshotKind, editVars
<1>2. Read' \subseteq Read \cup {Kind}
  <2>1. step \in 1..Len(Kinds) /\ Len(Kinds) \in Nat
    BY KindsAssumption DEF Inv, TypeOK
  <2>2. CASE step < Len(Kinds)
    BY <2>1, <2>2 DEF SnapshotKind, Read, Kind
  <2>3. CASE ~(step < Len(Kinds))
    BY <2>1, <2>3 DEF SnapshotKind, Read, Kind
  <2>4. QED
    BY <2>2, <2>3
<1>3. ASSUME disturbed = 0, NEW k \in Keys, k[1] \in Read',
             <<k[1], ContentOf(live)[k]>> \notin Opaque
      PROVE  draft'[k] = ContentOf(live)[k]
  <2>1. CASE k[1] = Kind
    BY <1>1, <1>3, <2>1 DEF Exported
  <2>2. CASE k[1] # Kind
    BY <1>1, <1>2, <1>3, <2>2 DEF Exported, Copied
  <2>3. QED
    BY <2>1, <2>2
<1>4. QED
  BY <1>1, <1>3 DEF Copied

LEMMA UndoNext ==
  ASSUME Inv, Listing, Fresh, Counted, Copied, Kept, [Next]_vars PROVE Copied' /\ Kept'
<1>0. /\ pc \in {"declared", "prune"} => pc # "drift"
      /\ \A n \in Names : CreateEntry(n) \/ UpdateEntry(n) =>
           pc' \notin {"drift", "snapshot", "commit"}
      /\ \A i \in Ids : DeleteVictim(i) => pc' \notin {"drift", "snapshot", "commit"}
  <2>1. ASSUME NEW n \in Names, CreateEntry(n) \/ UpdateEntry(n)
        PROVE  pc' \notin {"drift", "snapshot", "commit"}
    <3>1. pc = "declared" /\ (pc' = pc \/ End("failed"))
      BY <2>1, CreateFacts, UpdateFacts
    <3>2. QED
      BY <3>1, EndClears DEF Endings
  <2>2. ASSUME NEW i \in Ids, DeleteVictim(i) PROVE pc' \notin {"drift", "snapshot", "commit"}
    <3>1. pc = "prune" /\ (pc' = pc \/ End("failed"))
      BY <2>2, DeleteFacts
    <3>2. QED
      BY <3>1, EndClears DEF Endings
  <2>3. QED
    BY <2>1, <2>2
<1>1. ASSUME NEW d \in Document, NEW o \in Option, NEW from \in {"instance", "snapshot"},
             Start(d, o, from)
      PROVE  Copied' /\ Kept'
  <2>1. /\ UNCHANGED <<live, saved, before, quiet>> /\ disturbed' = 0 /\ pc' = "list"
        /\ doc' = d /\ opts' = o /\ source' = from
        /\ from = "snapshot" => d = [sections |-> KindSet, want |-> saved, deletions |-> {}]
    BY <1>1, BeginClears DEF Start, Launch, fileVars
  <2>2. Expressible' = Expressible /\ Present(live') = Present(live)
    BY <2>1 DEF Expressible
  <2>3. QED
    BY <2>1, <2>2 DEF Copied, Kept
<1>2. CASE Look
  <2>1. LookFrame /\ pc' \in {"list", "declared", "prune"}
    BY <1>2, LookFacts
  <2>2. QED
    BY <2>1, KeptKept DEF LookFrame, Copied
<1>3. ASSUME NEW n \in Names, CreateEntry(n) PROVE Copied' /\ Kept'
  <2>1. PICK i \in Ids, new \in Object : new.origin = "USER_DEFINED" /\ Wrote("CREATE", i, new)
    BY <1>3, CreateFacts
  <2>2. Frame
    BY <1>3, CreateFacts
  <2>3. KeptWrite(new)
    BY <2>1 DEF KeptWrite
  <2>4. QED
    BY <1>0, <1>3, <2>1, <2>2, <2>3, WroteKept DEF Copied
<1>4. ASSUME NEW n \in Names, UpdateEntry(n) PROVE Copied' /\ Kept'
  BY <1>0, <1>4, UpdateKept DEF Copied
<1>5. ASSUME NEW i \in Ids, DeleteVictim(i) PROVE Copied' /\ Kept'
  <2>1. Frame /\ Wrote("DELETE", i, NoObject) /\ KeptWrite(NoObject)
    BY <1>5, DeleteFacts DEF KeptWrite
  <2>2. QED
    BY <1>0, <1>5, <2>1, WroteKept DEF Copied
<1>6. ASSUME NEW i \in Ids, RefuseVictim(i) PROVE Copied' /\ Kept'
  <2>1. /\ UNCHANGED <<live, disturbed, quiet, saved, before, source, opts, doc, pass>>
        /\ pc = "prune" /\ (pc' = pc \/ End("stopped"))
    BY <1>6, RefuseFacts
  <2>2. pc' \notin {"drift", "snapshot", "commit"}
    BY <2>1, EndClears DEF Endings
  <2>3. QED
    BY <2>1, <2>2, KeptKept DEF Copied
<1>7. CASE AcceptPlan
  <2>1. /\ UNCHANGED <<live, disturbed, quiet, saved, before, source, opts, doc>> /\ pass = "plan"
    BY <1>7 DEF AcceptPlan, inputVars, editVars
  <2>2. CASE TakesSnapshot
    <3>1. pc' = "snapshot" /\ step' = 1 /\ pass' = pass
      BY <1>7, <2>2 DEF AcceptPlan
    <3>2. Read' = {}
      BY <3>1 DEF Read
    <3>3. Kept'
      BY <2>1, <3>1, KeptKept
    <3>4. QED
      BY <3>2, <3>3 DEF Copied
  <2>3. CASE ~TakesSnapshot
    <3>1. pass' = "write" /\ pc' = "list"
      BY <1>7, <2>3, BeginClears DEF AcceptPlan
    <3>2. QED
      BY <2>1, <3>1, KeptKept DEF Copied
  <2>4. QED
    BY <2>2, <2>3
<1>8. CASE SnapshotKind
  <2>1. /\ UNCHANGED <<live, disturbed, quiet, saved, before, source, opts, doc, pass>>
        /\ pc' \in {"snapshot", "commit"}
    BY <1>8 DEF SnapshotKind, inputVars, editVars
  <2>2. Kept'
    BY <2>1, KeptKept
  <2>3. QED
    BY <1>8, <2>2, CopiedKind
<1>9. CASE CommitSnapshot
  <2>1. pc' \notin {"snapshot", "commit"}
    BY <1>9, BeginClears, EndClears DEF CommitSnapshot, Endings
  <2>2. QED
    BY <1>9, <2>1, CommitKept DEF Copied
<1>10. ASSUME NEW how \in Endings, Stop(how) PROVE Copied' /\ Kept'
  <2>1. /\ UNCHANGED <<live, disturbed, quiet, saved, before, source, opts, doc, pass>>
        /\ pc' = how /\ pc' \notin {"snapshot", "commit"} /\ (how = "drift" => pass = "dry")
    BY <1>10, EndClears DEF Stop
  <2>2. QED
    BY <2>1, KeptKept DEF Copied
<1>11. ASSUME NEW i \in Ids, NEW after \in Object \cup {NoObject}, Touch(i, after)
       PROVE  Copied' /\ Kept'
  <2>1. /\ disturbed' = disturbed + 1 /\ disturbed \in Nat /\ quiet' = FALSE
        /\ UNCHANGED <<pc, pass, source, opts, doc, saved>>
    BY <1>11 DEF Touch, Edit, passVars, inputVars, fileVars, Inv, TypeOK
  <2>2. disturbed' # 0
    BY <2>1
  <2>3. QED
    BY <2>1, <2>2 DEF Copied, Kept
<1>12. CASE UNCHANGED vars
  <2>1. /\ UNCHANGED <<live, disturbed, quiet, saved, before, source, opts, doc, pass, pc, draft,
                       step>>
    BY <1>12 DEF vars, inputVars, editVars, fileVars, passVars
  <2>2. Kept'
    BY <2>1, KeptKept DEF Kept
  <2>3. QED
    BY <2>1, <2>2 DEF Copied, Read
<1>13. QED
  BY <1>1, <1>2, <1>3, <1>4, <1>5, <1>6, <1>7, <1>8, <1>9, <1>10, <1>11, <1>12, StepCases

LEMMA KeptInvariant == Spec => [](Promised /\ Exact /\ Copied /\ Kept)
<1>1. Init => Promised /\ Exact /\ Copied /\ Kept
  BY InitPromised DEF Init, Exact, InPass, Copied, Kept
<1>2. Promised /\ Exact /\ Copied /\ Kept /\ [Next]_vars => (Promised /\ Exact /\ Copied /\ Kept)'
  BY NextInv, ListingStep, FreshStep, PromisedNext, HoldsNext, CountedNext, ChargedNext, ExactNext,
     UndoNext DEF Promised
<1>3. QED
  BY <1>1, <1>2, PTL DEF Spec

\* Undo: the newest snapshot restored with --prune --force puts the site back
\* as it was, while nobody edits it and the schema can express it; where there
\* is nothing to put back, a dry run finds nothing to do (README, "Restoring";
\* export.go).
THEOREM RestoreUndoes == Spec => []UndoRestores
<1>1. ASSUME Promised, Exact, Kept PROVE UndoRestores
  <2>1. SUFFICES ASSUME source = "snapshot", quiet, Expressible
                 PROVE  /\ pc \in {"applied", "clean"} /\ opts.prune /\ opts.force
                             /\ ~opts.snapshotDir => ContentOf(live) = before
                        /\ pc = "drift" => ContentOf(live) # before
    BY DEF UndoRestores
  <2>2. saved = before /\ disturbed = 0
    BY <1>1, <2>1 DEF Kept
  <2>3. live \in Console /\ doc \in Document /\ Unique(live) /\ before \in Content
        /\ ContentOf(live) \in Content
    BY <1>1, ContentFacts DEF Promised, Inv, TypeOK, Listing
  <2>4. Settled(live, doc, opts) <=> Due = {}
    BY <2>3, SettledIsNothingDue DEF Due
  <2>5. ASSUME pc \in {"applied", "clean"}, opts.prune, ~opts.snapshotDir
        PROVE  ContentOf(live) = before
    <3>1. doc.want = before /\ doc.sections = KindSet
      BY <1>1, <2>1, <2>2, <2>5 DEF Kept
    <3>2. Settled(live, doc, opts)
      BY <1>1, <2>2, <2>4, <2>5 DEF Exact
    <3>3. ASSUME NEW k \in Keys PROVE ContentOf(live)[k] = before[k]
      <4>1. CASE before[k] # Unset
        BY <3>1, <3>2, <4>1 DEF Settled
      <4>2. CASE before[k] = Unset
        <5>1. k[1] \in doc.sections
          BY <3>1 DEF Keys
        <5>2. \A i \in Holders(live, k) : live[i].origin = "SYSTEM_DEFINED"
          BY <2>5, <3>1, <3>2, <4>2, <5>1 DEF Settled
        <5>3. Holders(live, k) = {}
          BY <1>1, <2>1, <4>2, <5>2 DEF Kept, Holders
        <5>4. QED
          BY <4>2, <5>3 DEF ContentOf
      <4>3. QED
        BY <4>1, <4>2
    <3>4. QED
      BY <2>3, <3>3 DEF Content
  <2>6. ASSUME pc = "drift", ContentOf(live) = before PROVE FALSE
    <3>1. doc.want = before
      BY <1>1, <2>1, <2>2, <2>6 DEF Kept
    <3>2. ASSUME NEW k \in Keys, before[k] = Unset PROVE Holders(live, k) = {}
      <4>1. SUFFICES ASSUME NEW i \in Holders(live, k) PROVE FALSE
        OBVIOUS
      <4>2. i \in Present(live) /\ KeyOf(live[i]) = k /\ live[i] \in Object
        BY <2>3 DEF Holders, Present, Console
      <4>3. ContentOf(live)[k] = live[i].value /\ live[i].value \in Values
        BY <2>3, <4>2, ContentOfHolder, ObjectFacts
      <4>4. QED
        BY <2>6, <3>2, <4>3, ValuesAssumption
    <3>3. Settled(live, doc, opts)
      BY <2>6, <3>1, <3>2 DEF Settled
    <3>4. QED
      BY <1>1, <2>2, <2>4, <2>6, <3>3 DEF Exact
  <2>7. QED
    BY <2>5, <2>6
<1>2. QED
  BY <1>1, KeptInvariant, PTL
=============================================================================
