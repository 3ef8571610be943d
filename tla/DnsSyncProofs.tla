---------------------------- MODULE DnsSyncProofs ----------------------------
(***************************************************************************)
(* Proofs about `dns sync`.  Four layers, each inductive relative to those *)
(* before it:                                                              *)
(*   Inv       the types, and what the plan of a zone is, whoever else     *)
(*             touches the zone;                                           *)
(*   Intact    while nobody else does: each planned write is acceptable,   *)
(*             and what is to go leaves something behind where an entry    *)
(*             asks for it;                                                *)
(*   Answering the name of an entry keeps its record until it has another; *)
(*   Carried   what has been carried out so far, as the input says.        *)
(***************************************************************************)
EXTENDS DnsSync, WellFoundedInduction, SequenceTheorems,
        FiniteSetTheorems, TLAPS

Op     == [verb : {"OK", "CREATE", "UPDATE"}, want : Desired]
Wanted == input[at].records
Doomed == first \cup last
Marked == {r.id : r \in Doomed}

UniqueIds(z) == \A d \in Domains : \A r, s \in z[d] : r.id = s.id => r = s

PlanOnlyWhileWriting == pc # "writing" => first = {} /\ upserts = <<>> /\ last = {}

\* A run goes through its input in order.
Progress ==
  /\ input \in Seq([domain : Domains, records : Seq(Desired)])
  /\ Running => Coherent(input)

\* What carrying out a plan does not change: every record to be deleted may be,
\* is known by its id, and is not of a wanted name and type if it goes first;
\* the upserts still to do are those of the last entries.
Planned ==
  pc = "writing" =>
    /\ at \in DOMAIN input /\ ~dryRun /\ ~DesiredClash(Wanted)
    /\ \A r \in Doomed : prune /\ ~Protected(r)
    /\ \A r, s \in Doomed : r.id = s.id => r = s
    /\ \A r \in Doomed : \A s \in zones[Domain] : s.id = r.id => SameNameType(s, r)
    /\ \A r \in first : \A w \in ToSet(Wanted) : r.type # "CNAME" => ~SameNameType(r, w)
    /\ Len(upserts) <= Len(Wanted)
    /\ \A i \in 1..Len(upserts) :
         upserts[i].want = Wanted[Len(Wanted) - Len(upserts) + i]

Inv ==
  /\ TypeOK /\ UniqueIds(start) /\ upserts \in Seq(Op)
  /\ PlanOnlyWhileWriting /\ Progress /\ Planned

\* Every planned write is acceptable to Porkbun, and every deleted record that
\* still matches an entry leaves another that does.
Acceptable ==
  pc = "writing" /\ ~disturbed =>
    /\ \A r \in Doomed : \E s \in zones[Domain] : s.id = r.id
    /\ \A i \in 1..Len(upserts) :
         /\ upserts[i].verb = Verb(start[Domain], upserts[i].want)
         /\ upserts[i].verb # "CREATE" =>
              \E m \in zones[Domain] : SameNameType(m, upserts[i].want) /\ m.id \notin Marked
         /\ upserts[i].verb = "CREATE" =>
              \A s \in zones[Domain] :
                Conflicts(s, upserts[i].want) => s.id \in {r.id : r \in first}
    /\ \A s \in zones[Domain] : \A w \in ToSet(Wanted) :
         s.id \in Marked /\ SameKey(s, w)
         => \E t \in zones[Domain] : SameKey(t, w) /\ t.id \notin Marked

\* Zones the run has not come to are as it found them.
Untouched ==
  Running /\ ~disturbed =>
    \A d \in Domains :
      \/ zones[d] = start[d]
      \/ \E i \in DOMAIN input : i < at /\ input[i].domain = d
      \/ pc = "writing" /\ input[at].domain = d

Intact == Acceptable /\ Untouched /\ NoHalfwayFailure

\* An entry whose upsert is done has a record that stays.
Answering ==
  pc = "writing" /\ ~disturbed =>
    /\ upserts # <<>> => KeepsAnswering
    /\ \A j \in 1..(Len(Wanted) - Len(upserts)) :
         \E s \in zones[Domain] : SameNameType(s, Wanted[j]) /\ s.id \notin Marked

\* The records entry w has, for good.
Has(rs, w, gone)    == \E s \in rs : SameKey(s, w) /\ s.ttl = w.ttl /\ s.id \notin gone
HasKey(rs, w, gone) == \E s \in rs : SameKey(s, w) /\ s.id \notin gone

ZoneCarried ==
  pc = "writing" /\ ~disturbed /\ UpdatesNameOneRecord =>
    /\ \A j \in 1..(Len(Wanted) - Len(upserts)) : Has(zones[Domain], Wanted[j], Marked)
    /\ \A i \in 1..Len(upserts) :
         /\ upserts[i].verb = "OK" => Has(zones[Domain], upserts[i].want, Marked)
         /\ upserts[i].verb = "UPDATE" => HasKey(zones[Domain], upserts[i].want, Marked)
    /\ prune => \A s \in zones[Domain] :
                  s.id \in Marked \/ Protected(s) \/ \E w \in ToSet(Wanted) : SameKey(s, w)

ZonesCarried ==
  Running /\ ~dryRun /\ ~disturbed /\ UpdatesNameOneRecord =>
    \A i \in DOMAIN input : i < at => Converged(input, i, prune)

Carried ==
  /\ ZoneCarried /\ ZonesCarried
  /\ UpdatesNameOneRecord => FinishedIsConverged /\ UnprunedStays

-----------------------------------------------------------------------------
(* Records *)

\* A finite set of naturals has a largest element.
LEMMA LargestExists ==
  ASSUME NEW S \in SUBSET Nat, IsFiniteSet(S), S # {}
  PROVE  \E m \in S : \A k \in S : k <= m
<1> DEFINE n == Cardinality(S)
<1>1. n \in Nat /\ ExistsBijection(1..n, S)
  BY FS_CardinalityType
<1>2. PICK f \in Bijection(1..n, S) : TRUE
  BY <1>1 DEF ExistsBijection
<1>3. f \in [1..n -> S] /\ \A k \in S : \E j \in 1..n : f[j] = k
  BY <1>2 DEF Bijection, Injection, Surjection
<1> HIDE DEF n
<1> DEFINE Reached(m, i) == \A j \in 1..(n - i) : f[j] <= m
           T == {i \in Nat : i <= n /\ \E m \in S : Reached(m, i)}
<1>4. n \in T
  <2>1. PICK m \in S : TRUE
    OBVIOUS
  <2>2. Reached(m, n)
    BY <1>1
  <2> QED BY <1>1, <2>1, <2>2
<1>5. T \subseteq Nat /\ T # {}
  BY <1>4
<1>6. PICK i \in T : \A y \in T : ~(<<y, i>> \in OpToRel(<, Nat))
  <2> HIDE DEF T
  <2> QED BY <1>5, WFMin, NatLessThanWellFounded, Zenon
<1>7. i \in Nat /\ i <= n /\ \A y \in T : ~(y < i)
  BY <1>5, <1>6 DEF OpToRel
<1>8. PICK m \in S : Reached(m, i)
  OBVIOUS
<1>9. i = 0
  <2> SUFFICES ASSUME i # 0 PROVE FALSE
    OBVIOUS
  <2>1. i - 1 \in Nat /\ i - 1 <= n /\ i - 1 < i /\ n - i + 1 \in 1..n /\ n - (i - 1) = n - i + 1
    BY <1>1, <1>7
  <2>2. PICK x \in S : x = f[n - i + 1]
    BY <1>3, <2>1
  <2>3. \E l \in S : Reached(l, i - 1)
    <3>1. CASE x <= m
      <4>1. Reached(m, i - 1)
        <5> SUFFICES ASSUME NEW j \in 1..(n - (i - 1)) PROVE f[j] <= m
          OBVIOUS
        <5>1. CASE j = n - i + 1
          BY <2>2, <3>1, <5>1
        <5>2. CASE j # n - i + 1
          <6>1. j \in 1..(n - i)
            BY <1>1, <1>7, <5>2
          <6> QED BY <1>8, <6>1
        <5> QED BY <5>1, <5>2
      <4> QED BY <4>1
    <3>2. CASE ~(x <= m)
      <4>1. \A j \in 1..(n - i) : f[j] \in S /\ f[j] <= m
        BY <1>1, <1>3, <1>7, <1>8
      <4>2. \A j \in 1..(n - i + 1) : f[j] <= x
        <5> SUFFICES ASSUME NEW j \in 1..(n - i + 1) PROVE f[j] <= x
          OBVIOUS
        <5>1. CASE j = n - i + 1
          BY <2>2, <5>1
        <5>2. CASE j # n - i + 1
          <6>1. j \in 1..(n - i)
            BY <1>1, <1>7, <5>2
          <6>2. f[j] \in Nat /\ f[j] <= m
            BY <4>1, <6>1
          <6>3. m \in Nat /\ x \in Nat
            OBVIOUS
          <6> QED BY <3>2, <6>2, <6>3
        <5> QED BY <5>1, <5>2
      <4> QED BY <2>1, <2>2, <4>2
    <3> QED BY <3>1, <3>2
  <2>4. i - 1 \in T
    BY <2>1, <2>3
  <2> QED BY <1>7, <2>1, <2>4
<1>10. \A k \in S : k <= m
  BY <1>1, <1>3, <1>8, <1>9
<1> QED BY <1>10

\* LastMatch is well defined.
LEMMA LastMatchFacts ==
  ASSUME NEW existing \in SUBSET Record, NEW w, Matches(existing, w) # {}
  PROVE  LastMatch(existing, w) \in existing /\ SameKey(LastMatch(existing, w), w)
<1> DEFINE M == Matches(existing, w)
           S == {r.id : r \in M}
<1>1. M \subseteq Record
  BY DEF Matches
<1>2. S \subseteq Ids /\ S # {}
  BY <1>1 DEF Record
<1>3. S \in SUBSET Nat /\ IsFiniteSet(S)
  BY <1>2, IdsAssumption, FS_Subset
<1> HIDE DEF S
<1>4. PICK m \in S : \A k \in S : k <= m
  BY <1>2, <1>3, LargestExists
<1>5. \E r \in M : \A s \in M : s.id <= r.id
  BY <1>4 DEF S
<1>6. LastMatch(existing, w) \in M
  BY <1>5 DEF LastMatch
<1> QED BY <1>6 DEF Matches

\* What editing w does to the record r.
Edited(s, r, w) ==
  /\ s.id = r.id /\ SameNameType(s, r)
  /\ SameNameType(r, w) => SameKey(s, w) /\ s.ttl = w.ttl
  /\ ~SameNameType(r, w) => s = r

LEMMA EditFacts ==
  ASSUME NEW rs \in SUBSET Record, NEW w \in Desired
  PROVE  /\ EditByNameType(rs, w) \subseteq Record
         /\ \A s \in EditByNameType(rs, w) : \E r \in rs : Edited(s, r, w)
         /\ \A r \in rs : \E s \in EditByNameType(rs, w) : Edited(s, r, w)
         /\ \A s, t \in EditByNameType(rs, w) :
              (\A p, q \in rs : p.id = q.id => p = q) /\ s.id = t.id => s = t
<1> DEFINE image(r) == IF SameNameType(r, w)
                       THEN [r EXCEPT !.content = w.content, !.ttl = w.ttl] ELSE r
<1>1. \A r \in rs : image(r) \in Record /\ Edited(image(r), r, w)
  <2> SUFFICES ASSUME NEW r \in rs PROVE image(r) \in Record /\ Edited(image(r), r, w)
    OBVIOUS
  <2>1. r \in Record
    OBVIOUS
  <2>2. CASE SameNameType(r, w)
    <3>1. image(r) = [r EXCEPT !.content = w.content, !.ttl = w.ttl]
      BY <2>2
    <3>2. /\ image(r).id = r.id /\ image(r).type = r.type /\ image(r).name = r.name
          /\ image(r).content = w.content /\ image(r).ttl = w.ttl
          /\ image(r) \in Record
      BY <2>1, <3>1 DEF Record, Desired
    <3> QED BY <2>2, <3>2 DEF Edited, SameNameType, SameKey
  <2>3. CASE ~SameNameType(r, w)
    <3>1. image(r) = r
      BY <2>3
    <3> QED BY <2>1, <2>3, <3>1 DEF Edited, SameNameType
  <2> QED BY <2>2, <2>3
<1>2. EditByNameType(rs, w) = {image(r) : r \in rs}
  BY DEF EditByNameType
<1> HIDE DEF image
<1>3. EditByNameType(rs, w) \subseteq Record
  BY <1>1, <1>2
<1>4. \A s \in EditByNameType(rs, w) : \E r \in rs : Edited(s, r, w)
  BY <1>1, <1>2
<1>5. \A r \in rs : \E s \in EditByNameType(rs, w) : Edited(s, r, w)
  BY <1>1, <1>2
<1>6. ASSUME NEW s \in EditByNameType(rs, w), NEW t \in EditByNameType(rs, w),
             \A p, q \in rs : p.id = q.id => p = q, s.id = t.id
      PROVE  s = t
  <2>1. PICK p \in rs : s = image(p)
    BY <1>2
  <2>2. PICK q \in rs : t = image(q)
    BY <1>2
  <2>3. p.id = q.id
    BY <1>1, <1>6, <2>1, <2>2 DEF Edited
  <2> QED BY <1>6, <2>1, <2>2, <2>3
<1> QED BY <1>3, <1>4, <1>5, <1>6

LEMMA DeleteFacts ==
  ASSUME NEW rs, NEW r
  PROVE  /\ DeleteById(rs, r) \subseteq rs
         /\ \A s \in rs : s \in DeleteById(rs, r) <=> s.id # r.id
  BY DEF DeleteById

\* The record a create makes.
New(d, w) == [id |-> NewId(d), type |-> w.type, name |-> w.name, content |-> w.content,
              ttl |-> w.ttl]

LEMMA CreateFacts ==
  ASSUME NEW d \in Domains, NEW w \in Desired, FreeIds(d) # {}
  PROVE  /\ Create(d, w) = zones[d] \cup {New(d, w)}
         /\ New(d, w) \in Record /\ SameKey(New(d, w), w) /\ New(d, w).ttl = w.ttl
         /\ SameNameType(New(d, w), w)
         /\ New(d, w).id \notin Marked
         /\ \A r \in zones[d] \cup start[d] : New(d, w).id # r.id
<1>1. NewId(d) \in FreeIds(d)
  BY DEF NewId
<1>2. NewId(d) \in Ids /\ \A r \in zones[d] \cup start[d] \cup first \cup last : NewId(d) # r.id
  BY <1>1 DEF FreeIds
<1>3. Create(d, w) = zones[d] \cup {New(d, w)}
  BY DEF Create, New
<1>4. New(d, w) \in Record /\ New(d, w).id = NewId(d)
  BY <1>2 DEF New, Record, Desired
<1>5. SameKey(New(d, w), w) /\ New(d, w).ttl = w.ttl /\ SameNameType(New(d, w), w)
  BY DEF New, SameKey, SameNameType
<1>6. New(d, w).id \notin Marked
  BY <1>2, <1>4 DEF Marked, Doomed
<1> QED BY <1>2, <1>3, <1>4, <1>5, <1>6

-----------------------------------------------------------------------------
(* What a step does *)

Frame         == UNCHANGED <<input, prune, dryRun, at, start, outside, disturbed>>
Becomes(rs)   == zones' = [zones EXCEPT ![Domain] = rs]
StopsAs(how)  == pc' = how /\ first' = {} /\ upserts' = <<>> /\ last' = {}
FaultsAreBounded == faults' \in 0..MaxFaults

\* A zone is planned; the run goes on to the next zone; it ends without a write.
PlanMade ==
  /\ pc = "zone" /\ at \in DOMAIN input /\ ~dryRun
  /\ ~DesiredClash(Wanted) /\ InTheWay(zones[Domain], Wanted) \subseteq Pruned(zones[Domain], Wanted)
  /\ pc' = "writing"
  /\ first' = InTheWay(zones[Domain], Wanted)
  /\ upserts' = [i \in DOMAIN Wanted |-> [verb |-> Verb(zones[Domain], Wanted[i]), want |-> Wanted[i]]]
  /\ last' = Deferred(zones[Domain], Wanted)
  /\ Frame /\ UNCHANGED <<zones, faults>>

NextZone ==
  /\ \/ pc = "writing" /\ Doomed = {} /\ upserts = <<>>
     \/ pc = "zone" /\ dryRun
  /\ at \in DOMAIN input /\ at' = at + 1 /\ pc' = "zone"
  /\ first' = {} /\ upserts' = <<>> /\ last' = {}
  /\ UNCHANGED <<zones, input, prune, dryRun, start, faults, outside, disturbed>>

Halt(how) ==
  /\ Running /\ StopsAs(how) /\ how \in Endings \ {"idle"}
  /\ how = "failed" => faults' > 0
  /\ how = "finished" => pc = "zone" /\ at \notin DOMAIN input
  /\ FaultsAreBounded /\ Frame /\ UNCHANGED zones

\* A planned record is deleted; an upsert is carried out.
Removal(r) ==
  /\ pc = "writing" /\ r \in Doomed
  /\ r \in first \/ (first = {} /\ upserts = <<>>)
  /\ Becomes(DeleteById(zones[Domain], r))
  /\ first' = first \ {r} /\ last' = last \ {r}
  /\ Frame /\ UNCHANGED <<pc, upserts, faults>>

EditHead   == Head(upserts).verb = "UPDATE"
              /\ Becomes(EditByNameType(zones[Domain], Head(upserts).want))
CreateHead == Head(upserts).verb = "CREATE" /\ FreeIds(Domain) # {}
              /\ Becomes(Create(Domain, Head(upserts).want))

Advance ==
  /\ pc = "writing" /\ first = {} /\ upserts # <<>> /\ upserts' = Tail(upserts)
  /\ \/ Head(upserts).verb = "OK" /\ UNCHANGED zones
     \/ EditHead
     \/ CreateHead /\ MayCreate(Domain, Head(upserts).want)
  /\ Frame /\ UNCHANGED <<pc, first, last, faults>>

\* A write fails: it may have been carried out, and unless it could not be,
\* a fault is counted.
Written ==
  \/ \E r \in Doomed : Becomes(DeleteById(zones[Domain], r))
  \/ upserts # <<>> /\ (EditHead \/ CreateHead)

Blocked ==
  \/ \E r \in Doomed : ~\E s \in zones[Domain] : s.id = r.id
  \/ /\ first = {} /\ upserts # <<>>
     /\ \/ /\ Head(upserts).verb = "UPDATE"
           /\ ~\E s \in zones[Domain] : SameNameType(s, Head(upserts).want)
        \/ Head(upserts).verb = "CREATE" /\ ~MayCreate(Domain, Head(upserts).want)

Failure ==
  /\ pc = "writing" /\ StopsAs("failed")
  /\ zones' = zones \/ Written
  /\ FaultsAreBounded /\ (faults' > 0 \/ Blocked)
  /\ Frame

\* Somebody else takes records away or creates one.
Interference ==
  /\ disturbed' = TRUE /\ outside' \in 0..MaxOutside
  /\ \E d \in Domains : \E rs : zones' = [zones EXCEPT ![d] = rs] /\
       \/ rs \subseteq zones[d]
       \/ FreeIds(d) # {} /\ \E w \in Desired : rs = Create(d, w)
  /\ UNCHANGED <<runVars, pc, first, upserts, last, faults>>

LEMMA TypeFacts ==
  ASSUME Inv
  PROVE  /\ zones \in Porkbun /\ start \in Porkbun
         /\ faults \in 0..MaxFaults /\ outside \in 0..MaxOutside
         /\ MaxFaults \in Nat /\ MaxOutside \in Nat
         /\ at \in Nat /\ upserts \in Seq(Op) /\ disturbed \in BOOLEAN
         /\ at \in DOMAIN input => /\ Domain \in Domains /\ Wanted \in Seq(Desired)
                                   /\ zones[Domain] \in SUBSET Record
                                   /\ start[Domain] \in SUBSET Record
         /\ Doomed \subseteq Record /\ (upserts # <<>> => Head(upserts) \in Op)
<1>1. zones \in Porkbun /\ start \in Porkbun /\ at \in Nat /\ upserts \in Seq(Op)
  BY DEF Inv, TypeOK
<1>2. MaxFaults \in Nat /\ MaxOutside \in Nat
  BY BoundAssumption
<1>3. faults \in 0..MaxFaults /\ outside \in 0..MaxOutside /\ disturbed \in BOOLEAN
  BY DEF Inv, TypeOK
<1>4. ASSUME at \in DOMAIN input
      PROVE  Domain \in Domains /\ Wanted \in Seq(Desired)
  <2>1. input \in Seq([domain : Domains, records : Seq(Desired)])
    BY DEF Inv, Progress
  <2>2. input[at] \in [domain : Domains, records : Seq(Desired)]
    <3> DEFINE S == [domain : Domains, records : Seq(Desired)]
    <3>1. input \in Seq(S) /\ at \in 1..Len(input)
      BY <1>4, <2>1
    <3> HIDE DEF S
    <3>2. input[at] \in S
      BY <3>1, ElementOfSeq
    <3> QED BY <3>2 DEF S
  <2> QED BY <2>2 DEF Domain, Wanted
<1>5. Doomed \subseteq Record
  BY DEF Inv, TypeOK, Doomed
<1>6. upserts # <<>> => Head(upserts) \in Op
  BY <1>1
<1>7. \A d \in Domains : zones[d] \in SUBSET Record /\ start[d] \in SUBSET Record
  BY <1>1 DEF Porkbun
<1> QED BY <1>1, <1>2, <1>3, <1>4, <1>5, <1>6, <1>7

LEMMA SendFacts ==
  ASSUME Inv, NEW acceptable, NEW after, NEW answer \in Answers,
         acceptable \in BOOLEAN, Send(acceptable, after, answer)
  PROVE  /\ zones' = zones \/ Becomes(after)
         /\ faults' \in 0..MaxFaults /\ (answer = "done" => faults' = faults)
         /\ answer = "done" => acceptable /\ Becomes(after)
         /\ answer # "done" => faults' > 0 \/ ~acceptable
<1>1. faults \in 0..MaxFaults /\ MaxFaults \in Nat
  BY TypeFacts
<1>2. faults' = faults \/ (faults < MaxFaults /\ faults' = faults + 1)
  BY DEF Send
<1>3. faults' \in 0..MaxFaults
  BY <1>1, <1>2
<1>4. answer # "done" => faults' > 0 \/ ~acceptable
  BY <1>1 DEF Send
<1>5. answer = "done" => acceptable /\ Becomes(after) /\ faults' = faults
  BY DEF Send, Becomes
<1>6. zones' = zones \/ Becomes(after)
  BY DEF Send, Becomes
<1> QED BY <1>3, <1>4, <1>5, <1>6

LEMMA DeleteCases ==
  ASSUME Inv, NEW r \in Doomed, DeleteFirst(r) \/ DeleteLast(r)
  PROVE  Removal(r) \/ Failure
<1> DEFINE acceptable == \E s \in zones[Domain] : s.id = r.id
           after      == DeleteById(zones[Domain], r)
<1>1. /\ pc = "writing" /\ (r \in first \/ (first = {} /\ upserts = <<>>))
      /\ UNCHANGED <<runVars, outside, disturbed>>
  BY DEF DeleteFirst, DeleteLast
<1>2. first \cap last = {}
  BY DEF Inv, TypeOK
<1>3. PICK answer \in Answers :
        /\ Send(acceptable, after, answer)
        /\ answer = "done" => first' = first \ {r} /\ last' = last \ {r} /\ UNCHANGED <<pc, upserts>>
        /\ answer # "done" => End("failed")
  <2>1. CASE DeleteFirst(r)
    <3>1. last = last \ {r}
      BY <1>2, <2>1 DEF DeleteFirst
    <3> QED BY <2>1, <3>1 DEF DeleteFirst
  <2>2. CASE DeleteLast(r)
    <3>1. first = first \ {r}
      BY <2>2 DEF DeleteLast
    <3> QED BY <2>2, <3>1 DEF DeleteLast
  <2> QED BY <2>1, <2>2
<1>4. Frame
  BY <1>1 DEF Frame, runVars
<1> HIDE DEF acceptable, after
<1>5. acceptable \in BOOLEAN
  BY DEF acceptable
<1>6. /\ zones' = zones \/ Becomes(after)
      /\ faults' \in 0..MaxFaults /\ (answer = "done" => faults' = faults)
      /\ answer = "done" => acceptable /\ Becomes(after)
      /\ answer # "done" => faults' > 0 \/ ~acceptable
  BY <1>3, <1>5, SendFacts
<1>7. CASE answer = "done"
  BY <1>1, <1>3, <1>4, <1>6, <1>7 DEF Removal, after
<1>8. CASE answer # "done"
  <2>1. StopsAs("failed")
    BY <1>3, <1>8 DEF End, NoPlan, StopsAs
  <2>2. zones' = zones \/ Written
    BY <1>6 DEF Written, after
  <2>3. faults' > 0 \/ Blocked
    BY <1>6, <1>8 DEF Blocked, acceptable
  <2> QED BY <1>1, <1>4, <1>6, <2>1, <2>2, <2>3 DEF Failure, FaultsAreBounded
<1> QED BY <1>7, <1>8

LEMMA UpsertCases ==
  ASSUME Inv, Upsert
  PROVE  Advance \/ Failure
<1> DEFINE op == Head(upserts)
           rs == zones[Domain]
<1>1. /\ pc = "writing" /\ first = {} /\ upserts # <<>>
      /\ UNCHANGED <<runVars, outside, disturbed>>
  BY DEF Upsert
<1>2. Frame
  BY <1>1 DEF Frame, runVars
<1>3. op \in Op /\ at \in DOMAIN input /\ op.want \in Desired /\ rs \in SUBSET Record
      /\ Domain \in Domains
  <2>1. at \in DOMAIN input
    BY <1>1 DEF Inv, Planned
  <2> QED BY <1>1, <2>1, TypeFacts DEF Op
<1>4. PICK answer \in Answers :
        /\ CASE op.verb = "OK"     -> answer = "done" /\ UNCHANGED <<zones, faults>>
             [] op.verb = "CREATE" -> FreeIds(Domain) # {}
                  /\ Send(MayCreate(Domain, op.want), Create(Domain, op.want), answer)
             [] op.verb = "UPDATE" -> Send(\E r \in rs : SameNameType(r, op.want),
                                           EditByNameType(rs, op.want), answer)
        /\ IF answer = "done" THEN upserts' = Tail(upserts) /\ UNCHANGED <<pc, first, last>>
                              ELSE End("failed")
  BY DEF Upsert
<1>5. answer # "done" => StopsAs("failed")
  BY <1>4 DEF End, NoPlan, StopsAs
<1>6. answer = "done" => upserts' = Tail(upserts) /\ UNCHANGED <<pc, first, last>>
  BY <1>4
<1>7. CASE op.verb = "OK"
  <2>1. answer = "done" /\ UNCHANGED <<zones, faults>>
    BY <1>4, <1>7
  <2> QED BY <1>1, <1>2, <1>6, <1>7, <2>1 DEF Advance
<1>8. CASE op.verb = "CREATE"
  <2> DEFINE acceptable == MayCreate(Domain, op.want)
             after      == Create(Domain, op.want)
  <2>1. FreeIds(Domain) # {} /\ Send(acceptable, after, answer)
    BY <1>4, <1>8
  <2>2. acceptable \in BOOLEAN
    BY DEF MayCreate
  <2> HIDE DEF acceptable, after
  <2>3. /\ zones' = zones \/ Becomes(after)
        /\ faults' \in 0..MaxFaults /\ (answer = "done" => faults' = faults)
        /\ answer = "done" => acceptable /\ Becomes(after)
        /\ answer # "done" => faults' > 0 \/ ~acceptable
    BY <2>1, <2>2, SendFacts
  <2>4. CASE answer = "done"
    BY <1>1, <1>2, <1>6, <1>8, <2>1, <2>3, <2>4 DEF Advance, CreateHead, acceptable, after
  <2>5. CASE answer # "done"
    <3>1. zones' = zones \/ Written
      BY <1>1, <1>8, <2>1, <2>3 DEF Written, CreateHead, after
    <3>2. faults' > 0 \/ Blocked
      BY <1>1, <1>8, <2>3, <2>5 DEF Blocked, acceptable
    <3> QED BY <1>1, <1>2, <1>5, <2>3, <2>5, <3>1, <3>2 DEF Failure, FaultsAreBounded
  <2> QED BY <2>4, <2>5
<1>9. CASE op.verb = "UPDATE"
  <2> DEFINE acceptable == \E r \in rs : SameNameType(r, op.want)
             after      == EditByNameType(rs, op.want)
  <2>1. Send(acceptable, after, answer)
    BY <1>4, <1>9
  <2>2. acceptable \in BOOLEAN
    OBVIOUS
  <2> HIDE DEF acceptable, after
  <2>3. /\ zones' = zones \/ Becomes(after)
        /\ faults' \in 0..MaxFaults /\ (answer = "done" => faults' = faults)
        /\ answer = "done" => acceptable /\ Becomes(after)
        /\ answer # "done" => faults' > 0 \/ ~acceptable
    BY <2>1, <2>2, SendFacts
  <2>4. CASE answer = "done"
    BY <1>1, <1>2, <1>6, <1>9, <2>3, <2>4 DEF Advance, EditHead, after
  <2>5. CASE answer # "done"
    <3>1. zones' = zones \/ Written
      BY <1>1, <1>9, <2>3 DEF Written, EditHead, after
    <3>2. faults' > 0 \/ Blocked
      BY <1>1, <1>9, <2>3, <2>5 DEF Blocked, acceptable
    <3> QED BY <1>1, <1>2, <1>5, <2>3, <2>5, <3>1, <3>2 DEF Failure, FaultsAreBounded
  <2> QED BY <2>4, <2>5
<1> QED BY <1>3, <1>7, <1>8, <1>9 DEF Op

LEMMA PlanCases ==
  ASSUME Inv, PlanZone
  PROVE  PlanMade \/ NextZone \/ Halt("refused")
<1>1. /\ pc = "zone" /\ at \in DOMAIN input
      /\ UNCHANGED <<zones, input, prune, dryRun, start, faults, outside, disturbed>>
  BY DEF PlanZone
<1>2. first = {} /\ upserts = <<>> /\ last = {}
  BY <1>1 DEF Inv, PlanOnlyWhileWriting
<1>3. faults \in 0..MaxFaults
  BY TypeFacts
<1> DEFINE refused == DesiredClash(Wanted)
             \/ ~(InTheWay(zones[Domain], Wanted) \subseteq Pruned(zones[Domain], Wanted))
<1>4. CASE refused
  <2>1. End("refused") /\ UNCHANGED at
    BY <1>4 DEF PlanZone, Wanted
  <2> QED BY <1>1, <1>3, <2>1
       DEF Halt, End, NoPlan, StopsAs, Frame, Running, Endings, FaultsAreBounded
<1>5. CASE ~refused /\ dryRun
  <2>1. at' = at + 1 /\ UNCHANGED <<pc, first, upserts, last>>
    BY <1>5 DEF PlanZone, Wanted
  <2> QED BY <1>1, <1>2, <1>5, <2>1 DEF NextZone
<1>6. CASE ~refused /\ ~dryRun
  <2>1. /\ pc' = "writing"
        /\ first' = InTheWay(zones[Domain], Wanted)
        /\ upserts' = [i \in DOMAIN Wanted |->
                         [verb |-> Verb(zones[Domain], Wanted[i]), want |-> Wanted[i]]]
        /\ last' = Deferred(zones[Domain], Wanted)
        /\ UNCHANGED at
    BY <1>6 DEF PlanZone, Wanted
  <2> QED BY <1>1, <1>6, <2>1 DEF PlanMade, Frame
<1> QED BY <1>4, <1>5, <1>6

LEMMA InterferenceCases ==
  ASSUME Inv, Others
  PROVE  Interference
<1>1. PICK d \in Domains :
        \/ \E n \in PreviewNames : PreviewDelete(d, n) \/ \E c \in Contents : PreviewCreate(d, n, c)
        \/ \E r \in zones[d] : WebDelete(d, r)
  BY DEF Others
<1>2. Outside
  BY <1>1 DEF PreviewDelete, PreviewCreate, WebDelete
<1>3. outside' \in 0..MaxOutside
  BY <1>2, TypeFacts DEF Outside
<1>4. \E rs : zones' = [zones EXCEPT ![d] = rs] /\
       \/ rs \subseteq zones[d]
       \/ FreeIds(d) # {} /\ \E w \in Desired : rs = Create(d, w)
  <2>1. CASE \E n \in PreviewNames : PreviewDelete(d, n)
    <3>1. PICK n \in PreviewNames : PreviewDelete(d, n)
      BY <2>1
    <3> DEFINE rs == {r \in zones[d] : ~(r.type = "CNAME" /\ r.name = n)}
    <3>2. zones' = [zones EXCEPT ![d] = rs]
      BY <3>1 DEF PreviewDelete
    <3> QED BY <3>2
  <2>2. CASE \E n \in PreviewNames : \E c \in Contents : PreviewCreate(d, n, c)
    <3>1. PICK n \in PreviewNames, c \in Contents : PreviewCreate(d, n, c)
      BY <2>2
    <3> DEFINE w == [type |-> "CNAME", name |-> n, content |-> c, ttl |-> CHOOSE t \in TTLs : TRUE]
    <3>2. w \in Desired
      <4>1. (CHOOSE t \in TTLs : TRUE) \in TTLs
        BY TTLsAssumption
      <4>2. n \in Names
        BY NamesAssumption
      <4> QED BY <4>1, <4>2 DEF Desired, Types
    <3>3. FreeIds(d) # {} /\ zones' = [zones EXCEPT ![d] = Create(d, w)]
      BY <3>1 DEF PreviewCreate
    <3> QED BY <3>2, <3>3
  <2>3. CASE \E r \in zones[d] : WebDelete(d, r)
    <3>1. PICK r \in zones[d] : WebDelete(d, r)
      BY <2>3
    <3>2. zones' = [zones EXCEPT ![d] = zones[d] \ {r}]
      BY <3>1 DEF WebDelete
    <3> QED BY <3>2
  <2> QED BY <1>1, <2>1, <2>2, <2>3
<1> QED BY <1>2, <1>3, <1>4 DEF Interference, Outside

LEMMA StepCases ==
  ASSUME Inv, [Next]_vars
  PROVE  \/ StartSync \/ PlanMade \/ NextZone \/ Advance \/ Failure \/ Interference
         \/ \E how \in Endings : Halt(how)
         \/ \E r \in Doomed : Removal(r)
         \/ UNCHANGED vars
<1>1. CASE PlanZone
  BY <1>1, PlanCases DEF Endings
<1>2. CASE Upsert
  BY <1>2, UpsertCases
<1>3. CASE ZoneDone
  <2>1. at \in DOMAIN input
    BY <1>3 DEF ZoneDone, Inv, Planned
  <2> QED BY <1>3, <2>1 DEF ZoneDone, NextZone, Doomed
<1>4. CASE Finish
  <2>1. faults \in 0..MaxFaults
    BY TypeFacts
  <2>2. Halt("finished")
    BY <1>4, <2>1 DEF Finish, Halt, End, NoPlan, StopsAs, Frame, Running, Endings,
                      FaultsAreBounded, runVars
  <2> QED BY <2>2 DEF Endings
<1>5. CASE \E r \in Doomed : DeleteFirst(r) \/ DeleteLast(r)
  BY <1>5, DeleteCases
<1>6. CASE FailRetrieve
  <2>1. faults' \in 0..MaxFaults /\ faults' > 0
    BY <1>6, TypeFacts DEF FailRetrieve
  <2>2. Halt("failed")
    BY <1>6, <2>1 DEF FailRetrieve, Halt, End, NoPlan, StopsAs, Frame, Running, Endings,
                      FaultsAreBounded, runVars
  <2> QED BY <2>2 DEF Endings
<1>7. CASE Kill
  <2>1. faults' \in 0..MaxFaults /\ faults' > 0
    BY <1>7, TypeFacts DEF Kill
  <2>2. Halt("killed")
    BY <1>7, <2>1 DEF Kill, Halt, End, NoPlan, StopsAs, Frame, Running, Endings,
                      FaultsAreBounded, runVars
  <2> QED BY <2>2 DEF Endings
<1>8. CASE Others
  BY <1>8, InterferenceCases
<1> QED
  BY <1>1, <1>2, <1>3, <1>4, <1>5, <1>6, <1>7, <1>8 DEF Next, RunStep, Doomed

-----------------------------------------------------------------------------
(* The plan of a zone, whoever else touches the zone *)

LEMMA TailFacts ==
  ASSUME Inv, upserts # <<>>
  PROVE  /\ Tail(upserts) \in Seq(Op) /\ Len(upserts) \in Nat \ {0}
         /\ Len(Tail(upserts)) = Len(upserts) - 1
         /\ \A i \in 1..(Len(upserts) - 1) : Tail(upserts)[i] = upserts[i + 1]
         /\ Head(upserts) = upserts[1] /\ upserts[1] \in Op
<1>1. upserts \in Seq(Op)
  BY TypeFacts
<1> QED BY <1>1, HeadTailProperties, EmptySeq, ElementOfSeq

\* The types of the zones survive each way a zone changes.
LEMMA ZonesFacts ==
  ASSUME Inv, NEW d \in Domains, NEW rs, zones' = [zones EXCEPT ![d] = rs],
         \/ rs \subseteq zones[d]
         \/ FreeIds(d) # {} /\ \E w \in Desired : rs = Create(d, w)
         \/ \E w \in Desired : rs = EditByNameType(zones[d], w)
  PROVE  /\ zones' \in Porkbun /\ UniqueIds(zones')
         /\ zones'[d] = rs /\ \A e \in Domains : e # d => zones'[e] = zones[e]
<1>1. zones \in Porkbun /\ UniqueIds(zones)
  BY DEF Inv, TypeOK, UniqueIds
<1>2. zones[d] \in SUBSET Record /\ \A r, s \in zones[d] : r.id = s.id => r = s
  BY <1>1 DEF Porkbun, UniqueIds
<1>3. rs \subseteq Record /\ \A r, s \in rs : r.id = s.id => r = s
  <2>1. CASE rs \subseteq zones[d]
    BY <1>2, <2>1
  <2>2. CASE FreeIds(d) # {} /\ \E w \in Desired : rs = Create(d, w)
    <3>1. PICK w \in Desired : rs = Create(d, w)
      BY <2>2
    <3>2. /\ rs = zones[d] \cup {New(d, w)} /\ New(d, w) \in Record
          /\ \A r \in zones[d] : New(d, w).id # r.id
      BY <2>2, <3>1, CreateFacts
    <3> QED BY <1>2, <3>2
  <2>3. CASE \E w \in Desired : rs = EditByNameType(zones[d], w)
    <3>1. PICK w \in Desired : rs = EditByNameType(zones[d], w)
      BY <2>3
    <3> QED BY <1>2, <3>1, EditFacts
  <2> QED BY <2>1, <2>2, <2>3
<1>4. zones'[d] = rs /\ \A e \in Domains : e # d => zones'[e] = zones[e]
  BY <1>1 DEF Porkbun
<1>5. zones' \in Porkbun
  BY <1>1, <1>3 DEF Porkbun
<1>6. UniqueIds(zones')
  BY <1>1, <1>3, <1>4 DEF UniqueIds
<1> QED BY <1>4, <1>5, <1>6

\* Without a plan, nothing is promised about one.
LEMMA NoPlanFacts ==
  ASSUME first' = {}, upserts' = <<>>, last' = {}, pc' # "writing"
  PROVE  /\ PlanOnlyWhileWriting' /\ Planned' /\ upserts' \in Seq(Op)
         /\ first' \subseteq Record /\ last' \subseteq Record /\ first' \cap last' = {}
         /\ \A i \in DOMAIN upserts' : upserts'[i].verb \in {"OK", "CREATE", "UPDATE"}
                                       /\ upserts'[i].want \in Desired
<1>1. DOMAIN upserts' = {} /\ upserts' \in Seq(Op)
  <2>1. DOMAIN <<>> = {} /\ <<>> \in Seq(Op)
    BY EmptySeq
  <2> QED BY <2>1
<1> QED BY <1>1 DEF PlanOnlyWhileWriting, Planned

\* The types of the operations follow from their sequence.
LEMMA OpFacts ==
  ASSUME upserts' \in Seq(Op)
  PROVE  \A i \in DOMAIN upserts' : upserts'[i].verb \in {"OK", "CREATE", "UPDATE"}
                                    /\ upserts'[i].want \in Desired
<1> SUFFICES ASSUME NEW i \in DOMAIN upserts'
             PROVE  upserts'[i] \in Op
  BY DEF Op
<1>1. i \in 1..Len(upserts')
  OBVIOUS
<1> QED BY <1>1, ElementOfSeq

LEMMA InputFacts ==
  ASSUME NEW in \in Inputs
  PROVE  in \in Seq([domain : Domains, records : Seq(Desired)])
  BY InputAssumption

LEMMA InvInit ==
  ASSUME Init
  PROVE  Inv
<1>1. zones \in Porkbun /\ start = zones
  BY InputAssumption DEF Init
<1>2. UniqueIds(zones)
  BY InputAssumption DEF Init, UniqueIds
<1>3. faults \in 0..MaxFaults /\ outside \in 0..MaxOutside
  BY BoundAssumption DEF Init
<1>4. /\ upserts = <<>> /\ first = {} /\ last = {} /\ pc = "idle" /\ input = <<>> /\ at = 1
      /\ prune = FALSE /\ dryRun = TRUE /\ disturbed = FALSE
  BY DEF Init
<1>5. DOMAIN upserts = {} /\ upserts \in Seq(Op) /\ upserts = <<>>
  BY <1>4, EmptySeq
<1>6. input \in Seq([domain : Domains, records : Seq(Desired)]) /\ Len(input) = 0
  BY <1>4, EmptySeq
<1>7. at \in 1..(Len(input) + 1) /\ pc # "writing"
  BY <1>4, <1>6
<1>8. TypeOK
  BY <1>1, <1>2, <1>3, <1>4, <1>5, <1>7 DEF TypeOK, UniqueIds, Endings
<1> QED
  BY <1>1, <1>2, <1>4, <1>5, <1>6, <1>8
     DEF Inv, PlanOnlyWhileWriting, Progress, Planned, Running, Endings

LEMMA InvStart ==
  ASSUME Inv, StartSync
  PROVE  Inv'
<1>1. /\ input' \in Inputs /\ prune' \in BOOLEAN /\ dryRun' \in BOOLEAN
      /\ at' = 1 /\ pc' = (IF Coherent(input') THEN "zone" ELSE "refused")
      /\ first' = {} /\ upserts' = <<>> /\ last' = {}
      /\ start' = zones /\ disturbed' = FALSE
      /\ UNCHANGED <<zones, faults, outside>>
  BY InputAssumption DEF StartSync, NoPlan
<1>2. zones' \in Porkbun /\ UniqueIds(zones') /\ start' \in Porkbun /\ UniqueIds(start')
  BY <1>1 DEF Inv, TypeOK, UniqueIds
<1>3. faults' \in 0..MaxFaults /\ outside' \in 0..MaxOutside
  BY <1>1, TypeFacts
<1>4. /\ PlanOnlyWhileWriting' /\ Planned' /\ upserts' \in Seq(Op)
      /\ first' \subseteq Record /\ last' \subseteq Record /\ first' \cap last' = {}
      /\ \A i \in DOMAIN upserts' : upserts'[i].verb \in {"OK", "CREATE", "UPDATE"}
                                    /\ upserts'[i].want \in Desired
  BY <1>1, NoPlanFacts
<1>5. input' \in Seq([domain : Domains, records : Seq(Desired)])
  BY <1>1, InputFacts
<1>6. Len(input') \in Nat /\ at' \in 1..(Len(input') + 1) /\ pc' # "writing"
  BY <1>1, <1>5
<1>7. TypeOK'
  BY <1>1, <1>2, <1>3, <1>4, <1>6 DEF TypeOK, UniqueIds, Endings
<1>8. Progress'
  BY <1>1, <1>5, <1>6 DEF Progress, Running, Endings
<1> QED BY <1>2, <1>4, <1>7, <1>8 DEF Inv

\* A step that leaves the run without a plan keeps Inv.
LEMMA InvWithoutPlan ==
  ASSUME Inv, first' = {}, upserts' = <<>>, last' = {},
         pc' \in Endings \cup {"zone"}, pc' # "idle",
         UNCHANGED <<input, prune, dryRun, start, outside, disturbed>>,
         at' \in 1..(Len(input) + 1), pc' = "zone" => Running,
         faults' \in 0..MaxFaults, zones' \in Porkbun, UniqueIds(zones')
  PROVE  Inv'
<1>1. /\ PlanOnlyWhileWriting' /\ Planned' /\ upserts' \in Seq(Op)
      /\ first' \subseteq Record /\ last' \subseteq Record /\ first' \cap last' = {}
      /\ \A i \in DOMAIN upserts' : upserts'[i].verb \in {"OK", "CREATE", "UPDATE"}
                                    /\ upserts'[i].want \in Desired
  BY NoPlanFacts DEF Endings
<1>2. at' \in 1..(Len(input') + 1) /\ pc' # "writing"
  BY DEF Endings
<1>3. TypeOK'
  BY <1>1, <1>2 DEF Inv, TypeOK, UniqueIds
<1>4. Progress' /\ UniqueIds(start')
  BY DEF Inv, Progress, Running, Endings
<1> QED BY <1>1, <1>2, <1>3, <1>4 DEF Inv

LEMMA InvNextZone ==
  ASSUME Inv, NextZone
  PROVE  Inv'
<1>1. at \in DOMAIN input /\ at' = at + 1 /\ pc' = "zone" /\ Running
  BY DEF NextZone, Running, Endings
<1>2. at' \in 1..(Len(input) + 1)
  <2>1. input \in Seq([domain : Domains, records : Seq(Desired)])
    BY DEF Inv, Progress
  <2>2. at \in 1..Len(input) /\ Len(input) \in Nat
    BY <1>1, <2>1
  <2> QED BY <1>1, <2>2
<1>3. zones' \in Porkbun /\ UniqueIds(zones') /\ faults' \in 0..MaxFaults
  BY DEF Inv, TypeOK, UniqueIds, NextZone
<1> QED BY <1>1, <1>2, <1>3, InvWithoutPlan DEF NextZone

LEMMA InvHalt ==
  ASSUME Inv, NEW how \in Endings, Halt(how)
  PROVE  Inv'
<1>1. zones' \in Porkbun /\ UniqueIds(zones') /\ faults' \in 0..MaxFaults /\ at' \in 1..(Len(input) + 1)
  BY DEF Inv, TypeOK, UniqueIds, Progress, Halt, Frame, FaultsAreBounded
<1>2. pc' \in Endings /\ pc' # "idle" /\ pc' # "zone"
  BY DEF Halt, StopsAs, Endings
<1> QED BY <1>1, <1>2, InvWithoutPlan DEF Halt, StopsAs, Frame

LEMMA WrittenFacts ==
  ASSUME Inv, pc = "writing", Written
  PROVE  /\ zones' \in Porkbun /\ UniqueIds(zones')
         /\ \A d \in Domains : d # Domain => zones'[d] = zones[d]
<1>1. at \in DOMAIN input
  BY DEF Inv, Planned
<1>2. Domain \in Domains
  BY <1>1, TypeFacts
<1>3. ASSUME NEW r \in Doomed, Becomes(DeleteById(zones[Domain], r))
      PROVE  zones' \in Porkbun /\ UniqueIds(zones')
             /\ \A d \in Domains : d # Domain => zones'[d] = zones[d]
  BY <1>2, <1>3, DeleteFacts, ZonesFacts DEF Becomes
<1>4. ASSUME upserts # <<>>
      PROVE  Head(upserts).want \in Desired
  BY <1>4, TypeFacts DEF Op
<1>5. ASSUME upserts # <<>>, EditHead
      PROVE  zones' \in Porkbun /\ UniqueIds(zones')
             /\ \A d \in Domains : d # Domain => zones'[d] = zones[d]
  BY <1>2, <1>4, <1>5, ZonesFacts DEF EditHead, Becomes
<1>6. ASSUME upserts # <<>>, CreateHead
      PROVE  zones' \in Porkbun /\ UniqueIds(zones')
             /\ \A d \in Domains : d # Domain => zones'[d] = zones[d]
  BY <1>2, <1>4, <1>6, ZonesFacts DEF CreateHead, Becomes
<1> QED BY <1>3, <1>5, <1>6 DEF Written

LEMMA InvFailure ==
  ASSUME Inv, Failure
  PROVE  Inv'
<1>1. zones' \in Porkbun /\ UniqueIds(zones')
  <2>1. CASE zones' = zones
    BY <2>1 DEF Inv, TypeOK, UniqueIds
  <2>2. CASE Written
    BY <2>2, WrittenFacts DEF Failure
  <2> QED BY <2>1, <2>2 DEF Failure
<1>2. at' \in 1..(Len(input) + 1) /\ faults' \in 0..MaxFaults
  BY DEF Inv, TypeOK, Progress, Failure, Frame, FaultsAreBounded
<1> QED BY <1>1, <1>2, InvWithoutPlan DEF Failure, StopsAs, Frame, Endings

\* What is planned for deletion.
LEMMA PlanFacts ==
  ASSUME NEW existing \in SUBSET Record, NEW ws \in Seq(Desired),
         ~DesiredClash(ws), InTheWay(existing, ws) \subseteq Pruned(existing, ws)
  PROVE  LET early == InTheWay(existing, ws)
             late  == Deferred(existing, ws)
         IN  /\ early \cup late = Pruned(existing, ws) /\ early \cap late = {}
             /\ Pruned(existing, ws) \subseteq existing
             /\ \A r \in Pruned(existing, ws) : prune /\ ~Protected(r)
             /\ \A r \in early : \A w \in ToSet(ws) : r.type # "CNAME" => ~SameNameType(r, w)
             /\ \A w \in ToSet(ws) : Matches(existing, w) # {} =>
                  /\ LastMatch(existing, w) \in existing \ Pruned(existing, ws)
                  /\ SameKey(LastMatch(existing, w), w)
<1> DEFINE early == InTheWay(existing, ws)
           late  == Deferred(existing, ws)
<1>1. early \cup late = Pruned(existing, ws) /\ early \cap late = {}
  BY DEF Deferred
<1>2. Pruned(existing, ws) \subseteq existing /\ \A r \in Pruned(existing, ws) : prune /\ ~Protected(r)
  BY DEF Pruned
<1>3. ASSUME NEW r \in early, NEW w \in ToSet(ws), r.type # "CNAME", SameNameType(r, w)
      PROVE  FALSE
  <2>1. PICK v \in ToSet(ws) : Conflicts(v, r)
    BY <1>3 DEF InTheWay, Creates
  <2>2. v.type = "CNAME" /\ v.name = w.name /\ w.type # "CNAME"
    BY <1>3, <2>1 DEF Conflicts, SameName, SameNameType
  <2>3. PICK i \in DOMAIN ws : ws[i] = v
    BY DEF ToSet
  <2>4. PICK j \in DOMAIN ws : ws[j] = w
    BY <1>3 DEF ToSet
  <2>5. i \in Int /\ j \in Int /\ (i < j \/ j < i)
    BY <2>2, <2>3, <2>4
  <2>6. Conflicts(ws[i], ws[j]) /\ Conflicts(ws[j], ws[i])
    BY <2>2, <2>3, <2>4 DEF Conflicts, SameName
  <2> QED BY <2>5, <2>6 DEF DesiredClash
<1>4. ASSUME NEW w \in ToSet(ws), Matches(existing, w) # {}
      PROVE  /\ LastMatch(existing, w) \in existing \ Pruned(existing, ws)
             /\ SameKey(LastMatch(existing, w), w)
  <2>1. LastMatch(existing, w) \in existing /\ SameKey(LastMatch(existing, w), w)
    BY <1>4, LastMatchFacts
  <2>2. LastMatch(existing, w) \notin Pruned(existing, ws)
    BY <2>1 DEF Pruned
  <2> QED BY <2>1, <2>2
<1> QED BY <1>1, <1>2, <1>3, <1>4

LEMMA PlannedOpFacts ==
  ASSUME Inv, PlanMade
  PROVE  /\ upserts' \in Seq(Op) /\ Len(upserts') = Len(Wanted)
         /\ \A i \in 1..Len(upserts') :
              /\ upserts'[i].verb = Verb(zones[Domain], Wanted[i])
              /\ upserts'[i].want = Wanted[i] /\ Wanted[i] \in ToSet(Wanted)
<1>1. Wanted \in Seq(Desired)
  BY TypeFacts DEF PlanMade
<1>2. /\ Len(Wanted) \in Nat /\ DOMAIN Wanted = 1..Len(Wanted)
      /\ \A i \in 1..Len(Wanted) : Wanted[i] \in Desired
  BY <1>1, LenProperties
<1>3. \A i \in 1..Len(Wanted) :
        [verb |-> Verb(zones[Domain], Wanted[i]), want |-> Wanted[i]] \in Op
  BY <1>2 DEF Op, Verb
<1>4. upserts' = [i \in 1..Len(Wanted) |->
                    [verb |-> Verb(zones[Domain], Wanted[i]), want |-> Wanted[i]]]
  BY <1>2 DEF PlanMade
<1>5. upserts' \in [1..Len(Wanted) -> Op]
  BY <1>3, <1>4
<1>6. upserts' \in Seq(Op) /\ Len(upserts') = Len(Wanted)
  BY <1>2, <1>5
<1>7. \A i \in 1..Len(Wanted) : Wanted[i] \in ToSet(Wanted)
  BY <1>2 DEF ToSet
<1> QED BY <1>4, <1>6, <1>7

LEMMA InvPlan ==
  ASSUME Inv, PlanMade
  PROVE  Inv'
<1> DEFINE existing == zones[Domain]
<1>1. /\ at \in DOMAIN input /\ pc = "zone" /\ pc' = "writing" /\ ~dryRun
      /\ UNCHANGED <<input, prune, dryRun, at, start, outside, disturbed, zones, faults>>
      /\ Domain' = Domain /\ Wanted' = Wanted
  BY DEF PlanMade, Frame, Domain, Wanted
<1>2. existing \in SUBSET Record /\ Wanted \in Seq(Desired) /\ Domain \in Domains
  BY <1>1, TypeFacts
<1>3. /\ ~DesiredClash(Wanted) /\ InTheWay(existing, Wanted) \subseteq Pruned(existing, Wanted)
      /\ first' = InTheWay(existing, Wanted) /\ last' = Deferred(existing, Wanted)
  BY DEF PlanMade
<1>4. /\ first' \cup last' = Pruned(existing, Wanted) /\ first' \cap last' = {}
      /\ Pruned(existing, Wanted) \subseteq existing
      /\ \A r \in Pruned(existing, Wanted) : prune /\ ~Protected(r)
      /\ \A r \in first' : \A w \in ToSet(Wanted) : r.type # "CNAME" => ~SameNameType(r, w)
  BY <1>2, <1>3, PlanFacts
<1>5. /\ upserts' \in Seq(Op) /\ Len(upserts') = Len(Wanted)
      /\ \A i \in 1..Len(upserts') : upserts'[i].want = Wanted[i]
  BY PlannedOpFacts
<1>6. \A r, s \in existing : r.id = s.id => r = s
  BY <1>2 DEF Inv, TypeOK
<1>7. TypeOK'
  <2>1. first' \subseteq Record /\ last' \subseteq Record
    BY <1>2, <1>4
  <2>2. \A i \in DOMAIN upserts' : upserts'[i].verb \in {"OK", "CREATE", "UPDATE"}
                                   /\ upserts'[i].want \in Desired
    BY <1>5, OpFacts
  <2> QED BY <1>1, <1>4, <2>1, <2>2 DEF Inv, TypeOK
<1>8. UniqueIds(start') /\ PlanOnlyWhileWriting' /\ Progress'
  BY <1>1 DEF Inv, PlanOnlyWhileWriting, Progress, Running, Endings
<1>9. Planned'
  <2>1. Doomed' = Pruned(existing, Wanted)
    BY <1>4 DEF Doomed
  <2>2. \A r \in Doomed' : prune' /\ ~Protected(r)
    BY <1>1, <1>4, <2>1
  <2>3. \A r, s \in Doomed' : r.id = s.id => r = s
    BY <1>4, <1>6, <2>1
  <2>4. \A r \in Doomed' : \A s \in zones'[Domain'] : s.id = r.id => SameNameType(s, r)
    BY <1>1, <1>4, <1>6, <2>1 DEF SameNameType
  <2>5. Len(upserts') <= Len(Wanted')
        /\ \A i \in 1..Len(upserts') : upserts'[i].want = Wanted'[Len(Wanted') - Len(upserts') + i]
    BY <1>1, <1>2, <1>5
  <2> QED BY <1>1, <1>3, <1>4, <2>2, <2>3, <2>4, <2>5 DEF Planned
<1> QED BY <1>5, <1>7, <1>8, <1>9 DEF Inv

LEMMA InvInterference ==
  ASSUME Inv, Interference
  PROVE  Inv'
<1>0. PICK d \in Domains :
        \E rs : /\ zones' = [zones EXCEPT ![d] = rs]
                /\ \/ rs \subseteq zones[d]
                   \/ FreeIds(d) # {} /\ \E w \in Desired : rs = Create(d, w)
  BY DEF Interference
<1>1. PICK rs : /\ zones' = [zones EXCEPT ![d] = rs]
                /\ \/ rs \subseteq zones[d]
                   \/ FreeIds(d) # {} /\ \E w \in Desired : rs = Create(d, w)
  BY <1>0
<1>2. /\ zones' \in Porkbun /\ UniqueIds(zones')
      /\ zones'[d] = rs /\ \A e \in Domains : e # d => zones'[e] = zones[e]
  BY <1>1, ZonesFacts
<1>3. /\ UNCHANGED <<input, prune, dryRun, at, start, pc, first, upserts, last, faults>>
      /\ disturbed' = TRUE /\ outside' \in 0..MaxOutside
      /\ Domain' = Domain /\ Wanted' = Wanted /\ Doomed' = Doomed
  BY DEF Interference, runVars, Domain, Wanted, Doomed
<1>4. TypeOK'
  BY <1>2, <1>3 DEF Inv, TypeOK, UniqueIds
<1>5. UniqueIds(start') /\ PlanOnlyWhileWriting' /\ Progress' /\ upserts' \in Seq(Op)
  BY <1>3 DEF Inv, PlanOnlyWhileWriting, Progress, Running
<1>6. Planned'
  <2> SUFFICES ASSUME pc = "writing" PROVE Planned'
    BY <1>3 DEF Planned
  <2>1. Domain \in Domains
    BY TypeFacts DEF Inv, Planned
  <2>2. ASSUME NEW r \in Doomed, NEW s \in zones'[Domain], s.id = r.id
        PROVE  SameNameType(s, r)
    <3>1. s \in zones[Domain]
      <4>1. CASE d # Domain
        BY <1>2, <2>1, <4>1
      <4>2. CASE d = Domain /\ rs \subseteq zones[d]
        BY <1>2, <4>2
      <4>3. CASE d = Domain /\ FreeIds(d) # {} /\ \E w \in Desired : rs = Create(d, w)
        <5>1. PICK w \in Desired : rs = Create(d, w)
          BY <4>3
        <5>2. rs = zones[d] \cup {New(d, w)} /\ New(d, w).id \notin Marked
          BY <4>3, <5>1, CreateFacts
        <5>3. r.id \in Marked
          BY DEF Marked
        <5> QED BY <1>2, <2>2, <4>3, <5>2, <5>3
      <4> QED BY <1>1, <4>1, <4>2, <4>3
    <3> QED BY <2>2, <3>1 DEF Inv, Planned
  <2> QED BY <1>3, <2>2 DEF Inv, Planned
<1> QED BY <1>4, <1>5, <1>6 DEF Inv

LEMMA InvRemoval ==
  ASSUME Inv, NEW r \in Doomed, Removal(r)
  PROVE  Inv'
<1>1. /\ pc = "writing" /\ pc' = pc /\ Becomes(DeleteById(zones[Domain], r))
      /\ first' = first \ {r} /\ last' = last \ {r} /\ upserts' = upserts
      /\ UNCHANGED <<input, prune, dryRun, at, start, outside, disturbed, faults>>
      /\ Domain' = Domain /\ Wanted' = Wanted /\ Doomed' = Doomed \ {r}
  BY DEF Removal, Frame, Domain, Wanted, Doomed
<1>2. Domain \in Domains
  BY <1>1, TypeFacts DEF Inv, Planned
<1>3. /\ zones' \in Porkbun /\ UniqueIds(zones')
      /\ zones'[Domain] = DeleteById(zones[Domain], r)
  BY <1>1, <1>2, DeleteFacts, ZonesFacts DEF Becomes
<1>4. TypeOK'
  BY <1>1, <1>3 DEF Inv, TypeOK, UniqueIds
<1>5. UniqueIds(start') /\ PlanOnlyWhileWriting' /\ Progress' /\ upserts' \in Seq(Op)
  BY <1>1 DEF Inv, PlanOnlyWhileWriting, Progress, Running
<1>6. Planned'
  <2>1. zones'[Domain'] \subseteq zones[Domain] /\ Doomed' \subseteq Doomed /\ first' \subseteq first
    BY <1>1, <1>3, DeleteFacts
  <2> QED BY <1>1, <2>1 DEF Inv, Planned
<1> QED BY <1>4, <1>5, <1>6 DEF Inv

\* The records of the zone after an upsert: each is an older one or answers
\* the entry, under an id the plan does not delete.
LEMMA AdvanceFacts ==
  ASSUME Inv, Advance
  PROVE  LET w  == Head(upserts).want
             rs == zones[Domain]
             ss == zones'[Domain]
         IN  /\ w \in Desired /\ Domain \in Domains /\ rs \in SUBSET Record
             /\ at \in DOMAIN input
             /\ zones' \in Porkbun /\ UniqueIds(zones')
             /\ \A d \in Domains : d # Domain => zones'[d] = zones[d]
             /\ Head(upserts).verb \in {"OK", "CREATE", "UPDATE"}
             /\ Head(upserts).verb = "OK" => ss = rs
             /\ Head(upserts).verb = "CREATE" =>
                  /\ MayCreate(Domain, w) /\ ss = rs \cup {New(Domain, w)}
                  /\ SameKey(New(Domain, w), w) /\ New(Domain, w).ttl = w.ttl
                  /\ SameNameType(New(Domain, w), w) /\ New(Domain, w).id \notin Marked
                  /\ \A r \in start[Domain] : New(Domain, w).id # r.id
             /\ Head(upserts).verb = "UPDATE" =>
                  /\ \A s \in ss : \E r \in rs : Edited(s, r, w)
                  /\ \A r \in rs : \E s \in ss : Edited(s, r, w)
<1> DEFINE w  == Head(upserts).want
           rs == zones[Domain]
           ss == zones'[Domain]
<1>1. pc = "writing" /\ upserts # <<>>
  BY DEF Advance
<1>2. at \in DOMAIN input
  BY <1>1 DEF Inv, Planned
<1>3. w \in Desired /\ Domain \in Domains /\ rs \in SUBSET Record /\ Head(upserts) \in Op
  BY <1>1, <1>2, TypeFacts DEF Op
<1>4. CASE Head(upserts).verb = "OK"
  <2>1. zones' = zones
    BY <1>4 DEF Advance, EditHead, CreateHead
  <2>2. zones' \in Porkbun /\ UniqueIds(zones')
    BY <2>1 DEF Inv, TypeOK, UniqueIds
  <2> QED BY <1>2, <1>3, <1>4, <2>1, <2>2
<1>5. CASE Head(upserts).verb = "CREATE"
  <2>1. CreateHead /\ MayCreate(Domain, w)
    BY <1>5 DEF Advance, EditHead
  <2>2. /\ zones' \in Porkbun /\ UniqueIds(zones') /\ ss = Create(Domain, w)
        /\ \A d \in Domains : d # Domain => zones'[d] = zones[d]
    BY <1>3, <2>1, ZonesFacts DEF CreateHead, Becomes
  <2>3. FreeIds(Domain) # {}
    BY <2>1 DEF CreateHead
  <2> QED BY <1>2, <1>3, <1>5, <2>1, <2>2, <2>3, CreateFacts
<1>6. CASE Head(upserts).verb = "UPDATE"
  <2>1. EditHead
    BY <1>6 DEF Advance, CreateHead
  <2>2. /\ zones' \in Porkbun /\ UniqueIds(zones') /\ ss = EditByNameType(rs, w)
        /\ \A d \in Domains : d # Domain => zones'[d] = zones[d]
    BY <1>3, <2>1, ZonesFacts DEF EditHead, Becomes
  <2> QED BY <1>2, <1>3, <1>6, <2>2, EditFacts
<1> QED BY <1>3, <1>4, <1>5, <1>6 DEF Op

LEMMA InvAdvance ==
  ASSUME Inv, Advance
  PROVE  Inv'
<1>1. /\ pc = "writing" /\ pc' = pc /\ upserts # <<>> /\ upserts' = Tail(upserts)
      /\ UNCHANGED <<input, prune, dryRun, at, start, outside, disturbed, faults, first, last>>
      /\ Domain' = Domain /\ Wanted' = Wanted /\ Doomed' = Doomed
  BY DEF Advance, Frame, Domain, Wanted, Doomed
<1>2. zones' \in Porkbun /\ UniqueIds(zones')
  BY AdvanceFacts
<1>3. upserts' \in Seq(Op)
  BY <1>1, TailFacts
<1>4. TypeOK'
  <2>1. \A i \in DOMAIN upserts' : upserts'[i].verb \in {"OK", "CREATE", "UPDATE"}
                                   /\ upserts'[i].want \in Desired
    BY <1>3, OpFacts
  <2> QED BY <1>1, <1>2, <2>1 DEF Inv, TypeOK, UniqueIds
<1>5. UniqueIds(start') /\ PlanOnlyWhileWriting' /\ Progress'
  BY <1>1 DEF Inv, PlanOnlyWhileWriting, Progress, Running
<1>6. Planned'
  <2>1. \A r \in Doomed : \A s \in zones'[Domain] : s.id = r.id => SameNameType(s, r)
    <3> SUFFICES ASSUME NEW r \in Doomed, NEW s \in zones'[Domain], s.id = r.id
                 PROVE  SameNameType(s, r)
      OBVIOUS
    <3> DEFINE w == Head(upserts).want
    <3>1. \A t \in zones[Domain] : t.id = r.id => SameNameType(t, r)
      BY <1>1 DEF Inv, Planned
    <3>2. CASE Head(upserts).verb = "OK"
      BY <3>1, <3>2, AdvanceFacts
    <3>3. CASE Head(upserts).verb = "CREATE"
      <4>1. zones'[Domain] = zones[Domain] \cup {New(Domain, w)} /\ New(Domain, w).id \notin Marked
        BY <3>3, AdvanceFacts
      <4>2. r.id \in Marked
        BY DEF Marked
      <4> QED BY <3>1, <4>1, <4>2
    <3>4. CASE Head(upserts).verb = "UPDATE"
      <4>1. PICK t \in zones[Domain] : Edited(s, t, w)
        BY <3>4, AdvanceFacts
      <4>2. t.id = r.id /\ SameNameType(s, t)
        BY <4>1 DEF Edited
      <4> QED BY <3>1, <4>2 DEF SameNameType
    <3> QED BY <3>2, <3>3, <3>4, AdvanceFacts
  <2>2. /\ Len(upserts') <= Len(Wanted)
        /\ \A i \in 1..Len(upserts') :
             upserts'[i].want = Wanted[Len(Wanted) - Len(upserts') + i]
    <3>1. Len(Wanted) \in Nat /\ Len(upserts) \in Nat \ {0} /\ Len(upserts') = Len(upserts) - 1
      <4>1. Wanted \in Seq(Desired)
        BY AdvanceFacts, TypeFacts
      <4> QED BY <1>1, <4>1, TailFacts, LenProperties
    <3>2. \A i \in 1..(Len(upserts) - 1) : upserts'[i] = upserts[i + 1]
      BY <1>1, TailFacts
    <3>3. Len(upserts) <= Len(Wanted) /\ \A i \in 1..Len(upserts) :
            upserts[i].want = Wanted[Len(Wanted) - Len(upserts) + i]
      BY <1>1 DEF Inv, Planned
    <3>4. ASSUME NEW i \in 1..Len(upserts')
          PROVE  upserts'[i].want = Wanted[Len(Wanted) - Len(upserts') + i]
      <4>1. i + 1 \in 1..Len(upserts) /\ upserts'[i] = upserts[i + 1]
        BY <3>1, <3>2
      <4>2. Len(Wanted) - Len(upserts) + (i + 1) = Len(Wanted) - Len(upserts') + i
        BY <3>1
      <4> QED BY <3>3, <4>1, <4>2
    <3> QED BY <3>1, <3>3, <3>4
  <2> QED BY <1>1, <2>1, <2>2 DEF Inv, Planned
<1> QED BY <1>3, <1>4, <1>5, <1>6 DEF Inv

LEMMA InvNext ==
  ASSUME Inv, [Next]_vars
  PROVE  Inv'
<1>1. CASE UNCHANGED vars
  BY <1>1 DEF Inv, TypeOK, UniqueIds, PlanOnlyWhileWriting, Progress, Planned, Running, Domain,
              Wanted, Doomed, vars, runVars
<1> QED
  BY <1>1, StepCases, InvStart, InvPlan, InvNextZone, InvAdvance, InvFailure, InvInterference,
     InvHalt, InvRemoval

\* Every reachable state has its types: in particular record ids stay unique
\* within a zone, a run writes only to a zone of its input (sync.go:148), and no
\* record is in both phases of deletes (sync.go:291).
THEOREM TypesAreKept == Spec => []TypeOK
<1>1. Init => Inv
  BY InvInit
<1>2. Inv /\ [Next]_vars => Inv'
  BY InvNext
<1>3. Inv => TypeOK
  BY DEF Inv
<1> QED BY <1>1, <1>2, <1>3, PTL DEF Spec

-----------------------------------------------------------------------------
(* While nobody else touches the zone *)

\* A zone the run has come to is as it found it.
LEMMA ZoneIsFresh ==
  ASSUME Inv, Intact, pc = "zone", at \in DOMAIN input, ~disturbed
  PROVE  zones[Domain] = start[Domain]
<1>1. Coherent(input) /\ Running
  BY DEF Inv, Progress, Running, Endings
<1>2. ~\E i \in DOMAIN input : i < at /\ input[i].domain = Domain
  <2> SUFFICES ASSUME NEW i \in DOMAIN input, i < at, input[i].domain = Domain
               PROVE  FALSE
    OBVIOUS
  <2>1. i = at
    BY <1>1 DEF Coherent, Domain
  <2>2. at \in Nat
    BY TypeFacts
  <2> QED BY <2>1, <2>2
<1>3. Domain \in Domains
  BY TypeFacts
<1> QED BY <1>1, <1>2, <1>3 DEF Intact, Untouched

LEMMA AcceptableAfterPlan ==
  ASSUME Inv, Intact, PlanMade
  PROVE  Acceptable'
<1> SUFFICES ASSUME ~disturbed PROVE Acceptable'
  BY DEF Acceptable, PlanMade, Frame
<1> DEFINE existing == zones[Domain]
<1>1. /\ at \in DOMAIN input /\ pc = "zone"
      /\ zones' = zones /\ start' = start /\ Domain' = Domain /\ Wanted' = Wanted
  BY DEF PlanMade, Frame, Domain, Wanted
<1>2. existing \in SUBSET Record /\ Wanted \in Seq(Desired) /\ Domain \in Domains
  BY <1>1, TypeFacts
<1>3. existing = start[Domain]
  BY <1>1, ZoneIsFresh
<1>4. /\ ~DesiredClash(Wanted) /\ InTheWay(existing, Wanted) \subseteq Pruned(existing, Wanted)
      /\ first' = InTheWay(existing, Wanted) /\ last' = Deferred(existing, Wanted)
  BY DEF PlanMade
<1>5. /\ first' \cup last' = Pruned(existing, Wanted)
      /\ Pruned(existing, Wanted) \subseteq existing
      /\ \A w \in ToSet(Wanted) : Matches(existing, w) # {} =>
           /\ LastMatch(existing, w) \in existing \ Pruned(existing, Wanted)
           /\ SameKey(LastMatch(existing, w), w)
  BY <1>2, <1>4, PlanFacts
<1>6. Doomed' = Pruned(existing, Wanted) /\ Marked' = {r.id : r \in Pruned(existing, Wanted)}
  BY <1>5 DEF Doomed, Marked
<1>7. \A r, s \in existing : r.id = s.id => r = s
  BY <1>2 DEF Inv, TypeOK
<1>8. \A m \in existing \ Pruned(existing, Wanted) : m.id \notin Marked'
  BY <1>5, <1>6, <1>7
<1>9. \A i \in 1..Len(upserts') :
        /\ upserts'[i].verb = Verb(existing, upserts'[i].want)
        /\ upserts'[i].want \in ToSet(Wanted)
  BY PlannedOpFacts
<1>10. \A r \in Doomed' : \E s \in existing : s.id = r.id
  BY <1>5, <1>6
<1>11. ASSUME NEW i \in 1..Len(upserts'), upserts'[i].verb # "CREATE"
       PROVE  \E m \in existing : SameNameType(m, upserts'[i].want) /\ m.id \notin Marked'
  <2>1. Matches(existing, upserts'[i].want) # {}
    BY <1>9, <1>11 DEF Verb
  <2>2. /\ LastMatch(existing, upserts'[i].want) \in existing \ Pruned(existing, Wanted)
        /\ SameKey(LastMatch(existing, upserts'[i].want), upserts'[i].want)
    BY <1>5, <1>9, <2>1
  <2> QED BY <1>8, <2>2 DEF SameKey, SameNameType
<1>12. ASSUME NEW i \in 1..Len(upserts'), upserts'[i].verb = "CREATE",
              NEW s \in existing, Conflicts(s, upserts'[i].want)
       PROVE  s.id \in {r.id : r \in first'}
  <2>1. upserts'[i].want \in Creates(existing, Wanted)
    BY <1>9, <1>12 DEF Verb, Creates
  <2>2. Conflicts(upserts'[i].want, s)
    BY <1>12 DEF Conflicts, SameName
  <2> QED BY <1>4, <2>1, <2>2 DEF InTheWay
<1>13. ASSUME NEW s \in existing, NEW w \in ToSet(Wanted), SameKey(s, w)
       PROVE  \E t \in existing : SameKey(t, w) /\ t.id \notin Marked'
  <2>1. Matches(existing, w) # {}
    BY <1>13 DEF Matches
  <2> QED BY <1>5, <1>8, <2>1
<1> QED
  BY <1>1, <1>3, <1>9, <1>10, <1>11, <1>12, <1>13 DEF Acceptable

LEMMA AcceptableAfterRemoval ==
  ASSUME Inv, Intact, NEW r \in Doomed, Removal(r)
  PROVE  Acceptable'
<1> SUFFICES ASSUME ~disturbed PROVE Acceptable'
  BY DEF Acceptable, Removal, Frame
<1>1. /\ pc = "writing" /\ pc' = pc /\ Becomes(DeleteById(zones[Domain], r))
      /\ first' = first \ {r} /\ last' = last \ {r} /\ upserts' = upserts
      /\ start' = start /\ Domain' = Domain /\ Wanted' = Wanted /\ Doomed' = Doomed \ {r}
  BY DEF Removal, Frame, Domain, Wanted, Doomed
<1>2. Domain \in Domains /\ zones \in Porkbun
  BY <1>1, TypeFacts DEF Inv, Planned
<1>3. zones'[Domain] = DeleteById(zones[Domain], r)
  BY <1>1, <1>2 DEF Becomes, Porkbun
<1>4. \A s \in zones[Domain] : s \in zones'[Domain] <=> s.id # r.id
  BY <1>3, DeleteFacts
<1>5. zones'[Domain] \subseteq zones[Domain]
  BY <1>3, DeleteFacts
<1>6. Marked' \subseteq Marked /\ r.id \in Marked /\ Marked \subseteq Marked' \cup {r.id}
  BY <1>1 DEF Marked
<1>7. \A x, y \in Doomed : x.id = y.id => x = y
  BY <1>1 DEF Inv, Planned
<1>8. Acceptable
  BY DEF Intact
<1>9. \A x \in Doomed' : \E s \in zones'[Domain] : s.id = x.id
  <2> SUFFICES ASSUME NEW x \in Doomed' PROVE \E s \in zones'[Domain] : s.id = x.id
    OBVIOUS
  <2>1. x \in Doomed /\ x.id # r.id
    BY <1>1, <1>7
  <2>2. PICK s \in zones[Domain] : s.id = x.id
    BY <1>1, <1>8, <2>1 DEF Acceptable
  <2> QED BY <1>4, <2>1, <2>2
<1>10. ASSUME NEW i \in 1..Len(upserts), upserts[i].verb # "CREATE"
       PROVE  \E m \in zones'[Domain] : SameNameType(m, upserts[i].want) /\ m.id \notin Marked'
  <2>1. PICK m \in zones[Domain] : SameNameType(m, upserts[i].want) /\ m.id \notin Marked
    BY <1>1, <1>8, <1>10 DEF Acceptable
  <2> QED BY <1>4, <1>6, <2>1
<1>11. ASSUME NEW i \in 1..Len(upserts), upserts[i].verb = "CREATE",
              NEW s \in zones'[Domain], Conflicts(s, upserts[i].want)
       PROVE  s.id \in {x.id : x \in first'}
  <2>1. s \in zones[Domain] /\ s.id # r.id
    BY <1>4, <1>5
  <2>2. s.id \in {x.id : x \in first}
    BY <1>1, <1>8, <1>11, <2>1 DEF Acceptable
  <2> QED BY <1>1, <2>1, <2>2
<1>12. ASSUME NEW s \in zones'[Domain], NEW w \in ToSet(Wanted), s.id \in Marked', SameKey(s, w)
       PROVE  \E t \in zones'[Domain] : SameKey(t, w) /\ t.id \notin Marked'
  <2>1. s \in zones[Domain] /\ s.id \in Marked
    BY <1>5, <1>6, <1>12
  <2>2. PICK t \in zones[Domain] : SameKey(t, w) /\ t.id \notin Marked
    BY <1>1, <1>8, <1>12, <2>1 DEF Acceptable
  <2> QED BY <1>4, <1>6, <2>2
<1>13. \A i \in 1..Len(upserts) : upserts[i].verb = Verb(start[Domain], upserts[i].want)
  BY <1>1, <1>8 DEF Acceptable
<1> QED BY <1>1, <1>9, <1>10, <1>11, <1>12, <1>13 DEF Acceptable

\* The entry of the first upsert to do, and those of the others.
LEMMA PositionFacts ==
  ASSUME Inv, pc = "writing", upserts # <<>>
  PROVE  /\ Len(Wanted) \in Nat /\ Len(upserts) \in Nat \ {0} /\ Len(upserts) <= Len(Wanted)
         /\ at \in DOMAIN input /\ Wanted \in Seq(Desired)
         /\ Head(upserts) = upserts[1]
         /\ Head(upserts).want = Wanted[Len(Wanted) - Len(upserts) + 1]
         /\ \A j \in 1..Len(Wanted) : Wanted[j] \in ToSet(Wanted) /\ Wanted[j] \in Desired
         /\ \A i \in 1..Len(upserts) :
              /\ upserts[i].want = Wanted[Len(Wanted) - Len(upserts) + i]
              /\ upserts[i].want \in ToSet(Wanted)
         /\ \A i \in 1..(Len(upserts) - 1) : ~Conflicts(Head(upserts).want, upserts[i + 1].want)
<1>1. at \in DOMAIN input /\ Wanted \in Seq(Desired)
  BY TypeFacts DEF Inv, Planned
<1>2. /\ Len(Wanted) \in Nat /\ DOMAIN Wanted = 1..Len(Wanted)
      /\ \A j \in 1..Len(Wanted) : Wanted[j] \in Desired
  BY <1>1, LenProperties
<1>3. \A j \in 1..Len(Wanted) : Wanted[j] \in ToSet(Wanted) /\ Wanted[j] \in Desired
  BY <1>2 DEF ToSet
<1>4. Len(upserts) \in Nat \ {0} /\ Head(upserts) = upserts[1]
  BY TailFacts
<1>5. Len(upserts) <= Len(Wanted) /\ \A i \in 1..Len(upserts) :
        upserts[i].want = Wanted[Len(Wanted) - Len(upserts) + i]
  BY DEF Inv, Planned
<1>6. \A i \in 1..Len(upserts) : Len(Wanted) - Len(upserts) + i \in 1..Len(Wanted)
  BY <1>2, <1>4, <1>5
<1>7. \A i \in 1..Len(upserts) : upserts[i].want \in ToSet(Wanted)
  BY <1>3, <1>5, <1>6
<1>8. 1 \in 1..Len(upserts)
  BY <1>4
<1>9. Head(upserts).want = Wanted[Len(Wanted) - Len(upserts) + 1]
  BY <1>4, <1>5, <1>8
<1>10. ASSUME NEW i \in 1..(Len(upserts) - 1)
       PROVE  ~Conflicts(Head(upserts).want, upserts[i + 1].want)
  <2> DEFINE j == Len(Wanted) - Len(upserts) + 1
             k == Len(Wanted) - Len(upserts) + (i + 1)
  <2>1. i + 1 \in 1..Len(upserts)
    BY <1>4
  <2>2. j \in DOMAIN Wanted /\ k \in DOMAIN Wanted /\ j < k
    BY <1>2, <1>4, <1>5, <2>1
  <2>3. Wanted[j] = Head(upserts).want /\ Wanted[k] = upserts[i + 1].want
    BY <1>5, <1>9, <2>1
  <2>4. ~DesiredClash(Wanted)
    BY DEF Inv, Planned
  <2> HIDE DEF j, k
  <2> QED BY <2>2, <2>3, <2>4 DEF DesiredClash
<1> QED BY <1>1, <1>2, <1>3, <1>4, <1>5, <1>7, <1>9, <1>10

\* An upsert takes no record away.
LEMMA SurvivesAdvance ==
  ASSUME Inv, Advance
  PROVE  \A r \in zones[Domain] : \E s \in zones'[Domain] : s.id = r.id /\ SameNameType(s, r)
<1>1. CASE Head(upserts).verb = "UPDATE"
  BY <1>1, AdvanceFacts DEF Edited
<1>2. CASE Head(upserts).verb # "UPDATE"
  <2>1. zones[Domain] \subseteq zones'[Domain]
    BY <1>2, AdvanceFacts
  <2> QED BY <2>1 DEF SameNameType
<1> QED BY <1>1, <1>2

LEMMA AcceptableAfterAdvance ==
  ASSUME Inv, Intact, Advance
  PROVE  Acceptable'
<1> SUFFICES ASSUME ~disturbed PROVE Acceptable'
  BY DEF Acceptable, Advance, Frame
<1> DEFINE h  == Head(upserts).want
           rs == zones[Domain]
           ss == zones'[Domain]
<1>1. /\ pc = "writing" /\ pc' = pc /\ first = {} /\ upserts # <<>> /\ upserts' = Tail(upserts)
      /\ first' = first /\ last' = last /\ start' = start
      /\ Domain' = Domain /\ Wanted' = Wanted /\ Doomed' = Doomed /\ Marked' = Marked
  BY DEF Advance, Frame, Domain, Wanted, Doomed, Marked
<1>2. Len(upserts) \in Nat \ {0} /\ Len(upserts') = Len(upserts) - 1 /\ Head(upserts) = upserts[1]
      /\ \A i \in 1..(Len(upserts) - 1) : upserts'[i] = upserts[i + 1]
  BY <1>1, TailFacts
<1>3. \A i \in 1..Len(upserts') : upserts'[i] = upserts[i + 1] /\ i + 1 \in 1..Len(upserts)
  BY <1>2
<1>4. Acceptable /\ 1 \in 1..Len(upserts)
  BY <1>2 DEF Intact
<1>5. \A r \in rs : \E s \in ss : s.id = r.id /\ SameNameType(s, r)
  BY SurvivesAdvance
<1>6. \A r \in Doomed : \E s \in ss : s.id = r.id
  <2> SUFFICES ASSUME NEW r \in Doomed PROVE \E s \in ss : s.id = r.id
    OBVIOUS
  <2>1. PICK s \in rs : s.id = r.id
    BY <1>1, <1>4 DEF Acceptable
  <2> QED BY <1>5, <2>1
<1>7. ASSUME NEW i \in 1..Len(upserts'), upserts'[i].verb # "CREATE"
      PROVE  \E m \in ss : SameNameType(m, upserts'[i].want) /\ m.id \notin Marked
  <2>1. PICK m \in rs : SameNameType(m, upserts'[i].want) /\ m.id \notin Marked
    BY <1>1, <1>3, <1>4, <1>7 DEF Acceptable
  <2>2. PICK s \in ss : s.id = m.id /\ SameNameType(s, m)
    BY <1>5
  <2> QED BY <2>1, <2>2 DEF SameNameType
<1>8. ASSUME NEW i \in 1..Len(upserts'), upserts'[i].verb = "CREATE",
             NEW s \in ss, Conflicts(s, upserts'[i].want)
      PROVE  FALSE
  <2>1. \A r \in rs : ~Conflicts(r, upserts'[i].want)
    BY <1>1, <1>3, <1>4, <1>8 DEF Acceptable
  <2>2. \E r \in rs : SameNameType(s, r)
    <3>1. CASE Head(upserts).verb = "OK"
      BY <3>1, AdvanceFacts DEF SameNameType
    <3>2. CASE Head(upserts).verb = "UPDATE"
      BY <3>2, AdvanceFacts DEF Edited
    <3>3. CASE Head(upserts).verb = "CREATE"
      <4>1. s \in rs \/ SameNameType(s, h)
        BY <3>3, AdvanceFacts
      <4>2. ~SameNameType(s, h)
        <5>1. ~Conflicts(h, upserts'[i].want)
          BY <1>1, <1>2, <1>3, PositionFacts
        <5> QED BY <1>8, <5>1 DEF Conflicts, SameName, SameNameType
      <4> QED BY <4>1, <4>2 DEF SameNameType
    <3> QED BY <3>1, <3>2, <3>3, AdvanceFacts
  <2> QED BY <1>8, <2>1, <2>2 DEF Conflicts, SameName, SameNameType
<1>9. ASSUME NEW s \in ss, NEW w \in ToSet(Wanted), s.id \in Marked, SameKey(s, w)
      PROVE  \E t \in ss : SameKey(t, w) /\ t.id \notin Marked
  <2>1. \A r \in rs : r.id \in Marked /\ SameKey(r, w) =>
          \E t \in rs : SameKey(t, w) /\ t.id \notin Marked
    BY <1>1, <1>4 DEF Acceptable
  <2>2. CASE Head(upserts).verb = "OK"
    BY <1>9, <2>1, <2>2, AdvanceFacts
  <2>3. CASE Head(upserts).verb = "CREATE"
    <3>1. ss = rs \cup {New(Domain, h)} /\ New(Domain, h).id \notin Marked
      BY <2>3, AdvanceFacts
    <3>2. s \in rs
      BY <1>9, <3>1
    <3> QED BY <1>9, <2>1, <3>1, <3>2
  <2>4. CASE Head(upserts).verb = "UPDATE"
    <3>1. PICK r \in rs : Edited(s, r, h)
      BY <2>4, AdvanceFacts
    <3>2. \A m \in rs : \E n \in ss : Edited(n, m, h)
      BY <2>4, AdvanceFacts
    <3>3. CASE SameNameType(r, h)
      <4>1. PICK m \in rs : SameNameType(m, h) /\ m.id \notin Marked
        BY <1>1, <1>2, <1>4, <2>4 DEF Acceptable
      <4>2. PICK n \in ss : Edited(n, m, h)
        BY <3>2
      <4>3. SameKey(s, h) /\ SameKey(n, h) /\ n.id \notin Marked
        BY <3>1, <3>3, <4>1, <4>2 DEF Edited
      <4> QED BY <1>9, <4>3 DEF SameKey
    <3>4. CASE ~SameNameType(r, h)
      <4>1. s = r
        BY <3>1, <3>4 DEF Edited
      <4>2. PICK t \in rs : SameKey(t, w) /\ t.id \notin Marked
        BY <1>9, <2>1, <4>1
      <4>3. ~SameNameType(t, h)
        BY <1>9, <3>4, <4>1, <4>2 DEF SameKey, SameNameType
      <4>4. t \in ss
        BY <3>2, <4>3 DEF Edited
      <4> QED BY <4>2, <4>4
    <3> QED BY <3>3, <3>4
  <2> QED BY <2>2, <2>3, <2>4, AdvanceFacts
<1>10. \A i \in 1..Len(upserts') : upserts'[i].verb = Verb(start[Domain], upserts'[i].want)
  BY <1>1, <1>3, <1>4 DEF Acceptable
<1> QED BY <1>1, <1>6, <1>7, <1>8, <1>9, <1>10 DEF Acceptable

\* An acceptable write is not refused.
LEMMA NotBlocked ==
  ASSUME Inv, Acceptable, pc = "writing", ~disturbed
  PROVE  ~Blocked
<1>1. \A r \in Doomed : \E s \in zones[Domain] : s.id = r.id
  BY DEF Acceptable
<1>2. ASSUME first = {}, upserts # <<>>
      PROVE  /\ Head(upserts).verb = "UPDATE" =>
                  \E s \in zones[Domain] : SameNameType(s, Head(upserts).want)
             /\ Head(upserts).verb = "CREATE" => MayCreate(Domain, Head(upserts).want)
  <2>1. Head(upserts) = upserts[1] /\ 1 \in 1..Len(upserts)
    BY <1>2, TailFacts
  <2>2. ASSUME Head(upserts).verb = "UPDATE"
        PROVE  \E s \in zones[Domain] : SameNameType(s, Head(upserts).want)
    BY <2>1, <2>2 DEF Acceptable
  <2>3. ASSUME Head(upserts).verb = "CREATE"
        PROVE  MayCreate(Domain, Head(upserts).want)
    <3>1. \A s \in zones[Domain] : ~Conflicts(s, Head(upserts).want)
      BY <1>2, <2>1, <2>3 DEF Acceptable
    <3> QED BY <3>1 DEF MayCreate, Conflicts, SameName
  <2> QED BY <2>2, <2>3
<1> QED BY <1>1, <1>2 DEF Blocked

LEMMA UntouchedNext ==
  ASSUME Inv, Intact, [Next]_vars
  PROVE  Untouched'
<1>1. Inv' /\ Untouched
  BY InvNext DEF Intact
<1>2. CASE StartSync
  BY <1>2 DEF Untouched, StartSync
<1>3. CASE PlanMade
  BY <1>1, <1>3 DEF Untouched, PlanMade, Frame, Running, Endings
<1>4. CASE NextZone
  <2> SUFFICES ASSUME ~disturbed, NEW d \in Domains
               PROVE  zones[d] = start[d] \/ \E i \in DOMAIN input : i < at + 1 /\ input[i].domain = d
    BY <1>4 DEF Untouched, NextZone
  <2>1. Running /\ at \in DOMAIN input /\ at \in Nat /\ DOMAIN input \subseteq Nat
    <3>1. input \in Seq([domain : Domains, records : Seq(Desired)])
      BY DEF Inv, Progress
    <3> QED BY <1>4, <3>1, TypeFacts, SMTT(40) DEF NextZone, Running, Endings
  <2>2. \A i \in DOMAIN input : i < at => i < at + 1
    BY <2>1
  <2>3. at < at + 1
    BY <2>1
  <2> QED BY <1>1, <2>1, <2>2, <2>3 DEF Untouched
<1>5. CASE (\E how \in Endings : Halt(how)) \/ Failure
  BY <1>5 DEF Untouched, Halt, Failure, StopsAs, Running, Endings
<1>6. CASE Interference
  BY <1>6 DEF Untouched, Interference
<1>7. CASE Advance \/ \E r \in Doomed : Removal(r)
  <2>1. /\ pc = "writing" /\ pc' = "writing" /\ UNCHANGED <<input, at, start, disturbed>>
        /\ \E rs : Becomes(rs) \/ zones' = zones
    BY <1>7 DEF Advance, Removal, Frame, EditHead, CreateHead
  <2>2. \A d \in Domains : d # Domain => zones'[d] = zones[d]
    BY <2>1, TypeFacts DEF Becomes, Porkbun
  <2>3. Running
    BY <2>1 DEF Running, Endings
  <2> SUFFICES ASSUME ~disturbed, NEW d \in Domains
               PROVE  \/ zones'[d] = start[d]
                      \/ \E i \in DOMAIN input : i < at /\ input[i].domain = d
                      \/ input[at].domain = d
    BY <2>1 DEF Untouched
  <2> QED BY <1>1, <2>2, <2>3 DEF Untouched, Domain
<1>8. CASE UNCHANGED vars
  BY <1>1, <1>8 DEF Untouched, Running, vars, runVars
<1> QED BY <1>2, <1>3, <1>4, <1>5, <1>6, <1>7, <1>8, StepCases

LEMMA NoHalfwayFailureNext ==
  ASSUME Inv, Intact, [Next]_vars
  PROVE  NoHalfwayFailure'
<1>1. NoHalfwayFailure /\ Acceptable /\ faults \in Nat
  BY TypeFacts DEF Intact
<1>2. CASE StartSync \/ PlanMade \/ NextZone \/ Advance \/ \E r \in Doomed : Removal(r)
  <2>1. pc' # "failed"
    BY <1>2 DEF StartSync, PlanMade, NextZone, Advance, Removal
  <2> QED BY <2>1 DEF NoHalfwayFailure
<1>3. CASE \E how \in Endings : Halt(how)
  BY <1>3 DEF NoHalfwayFailure, Halt, StopsAs
<1>4. CASE Failure
  BY <1>1, <1>4, NotBlocked DEF NoHalfwayFailure, Failure, Frame
<1>5. CASE Interference
  BY <1>5 DEF NoHalfwayFailure, Interference
<1>6. CASE UNCHANGED vars
  BY <1>1, <1>6 DEF NoHalfwayFailure, vars
<1> QED BY <1>2, <1>3, <1>4, <1>5, <1>6, StepCases

LEMMA AcceptableNext ==
  ASSUME Inv, Intact, [Next]_vars
  PROVE  Acceptable'
<1>1. CASE StartSync \/ NextZone \/ Failure \/ \E how \in Endings : Halt(how)
  <2>1. pc' # "writing"
    BY <1>1 DEF StartSync, NextZone, Failure, Halt, StopsAs, Endings
  <2> QED BY <2>1 DEF Acceptable
<1>2. CASE Interference
  BY <1>2 DEF Acceptable, Interference
<1>3. CASE UNCHANGED vars
  BY <1>3 DEF Intact, Acceptable, Doomed, Marked, Domain, Wanted, Verb, vars, runVars
<1> QED
  BY <1>1, <1>2, <1>3, StepCases, AcceptableAfterPlan, AcceptableAfterRemoval,
     AcceptableAfterAdvance

LEMMA IntactInit ==
  ASSUME Init
  PROVE  Intact
  BY DEF Init, Intact, Acceptable, Untouched, NoHalfwayFailure, Running, Endings

LEMMA IntactAlways == Spec => [](Inv /\ Intact)
<1>1. Init => Inv /\ Intact
  BY InvInit, IntactInit
<1>2. Inv /\ Intact /\ [Next]_vars => (Inv /\ Intact)'
  BY InvNext, AcceptableNext, UntouchedNext, NoHalfwayFailureNext DEF Intact
<1> QED BY <1>1, <1>2, PTL DEF Spec

\* However previews and deletes by hand come between, a sync deletes nothing
\* without --prune and never a name server record or a preview; and as long as
\* nobody else has changed Porkbun during the run, no entry of the input loses
\* the last record that satisfies it, in whatever zone entry it stands
\* (sync.go:253, 121).
THEOREM DeletesSafe == Spec => DeletesAreSafe
<1> DEFINE A == \A r \in first \cup last : (DeleteFirst(r) \/ DeleteLast(r)) =>
                  \A s \in zones[Domain] \ zones'[Domain] :
                    /\ prune /\ ~Protected(s)
                    /\ \A i \in DOMAIN input : \A w \in ToSet(input[i].records) :
                         ~disturbed /\ input[i].domain = Domain /\ SameKey(s, w)
                         => \E t \in zones'[Domain] : SameKey(t, w)
<1>1. ASSUME Inv, Intact
      PROVE  A
  <2> SUFFICES ASSUME NEW r \in Doomed, DeleteFirst(r) \/ DeleteLast(r),
                      NEW s \in zones[Domain] \ zones'[Domain]
               PROVE  /\ prune /\ ~Protected(s)
                      /\ \A i \in DOMAIN input : \A w \in ToSet(input[i].records) :
                           ~disturbed /\ input[i].domain = Domain /\ SameKey(s, w)
                           => \E t \in zones'[Domain] : SameKey(t, w)
    BY DEF Doomed
  <2>1. pc = "writing" /\ Coherent(input)
    BY <1>1 DEF DeleteFirst, DeleteLast, Inv, Progress, Running, Endings
  <2>2. at \in DOMAIN input /\ Domain \in Domains
    BY <1>1, <2>1, TypeFacts DEF Inv, Planned
  <2>3. zones' = zones \/ Becomes(DeleteById(zones[Domain], r))
    BY DEF DeleteFirst, DeleteLast, Send, Becomes
  <2>4. zones'[Domain] = DeleteById(zones[Domain], r)
    BY <1>1, <2>2, <2>3, TypeFacts DEF Becomes, Porkbun
  <2>5. s.id = r.id /\ s \in zones[Domain]
    BY <2>4, DeleteFacts
  <2>6. prune /\ ~Protected(r) /\ SameNameType(s, r) /\ s.id \in Marked
    BY <1>1, <2>1, <2>5 DEF Inv, Planned, Marked
  <2>7. ~Protected(s)
    BY <2>6 DEF Protected, SameNameType
  <2>8. ASSUME NEW i \in DOMAIN input, NEW w \in ToSet(input[i].records),
               ~disturbed, input[i].domain = Domain, SameKey(s, w)
        PROVE  \E t \in zones'[Domain] : SameKey(t, w)
    <3>1. i = at
      BY <2>1, <2>2, <2>8 DEF Coherent, Domain
    <3>2. PICK t \in zones[Domain] : SameKey(t, w) /\ t.id \notin Marked
      BY <1>1, <2>1, <2>5, <2>6, <2>8, <3>1 DEF Intact, Acceptable, Wanted
    <3>3. t.id # r.id
      BY <3>2 DEF Marked
    <3> QED BY <2>4, <3>2, <3>3, DeleteFacts
  <2> QED BY <2>6, <2>7, <2>8
<1>2. Inv /\ Intact => A
  BY <1>1
<1> QED BY <1>2, IntactAlways, PTL DEF DeletesAreSafe

-----------------------------------------------------------------------------
(* The phases *)

LEMMA AnsweringAfterRemoval ==
  ASSUME Inv, Answering, NEW r \in Doomed, Removal(r)
  PROVE  Answering'
<1> SUFFICES ASSUME ~disturbed PROVE Answering'
  BY DEF Answering, Removal, Frame
<1>1. /\ pc = "writing" /\ pc' = pc /\ upserts' = upserts /\ UNCHANGED <<input, at, start, disturbed>>
      /\ r \in first \/ upserts = <<>>
      /\ Domain' = Domain /\ Wanted' = Wanted /\ Doomed' = Doomed \ {r}
  BY DEF Removal, Frame, Domain, Wanted, Doomed
<1>2. Domain \in Domains
  BY <1>1, TypeFacts DEF Inv, Planned
<1>3. zones'[Domain] = DeleteById(zones[Domain], r)
  BY <1>2, TypeFacts DEF Removal, Becomes, Porkbun
<1>4. \A s \in zones[Domain] : s.id # r.id => s \in zones'[Domain]
  BY <1>3, DeleteFacts
<1>5. Marked' \subseteq Marked /\ r.id \in Marked
  BY <1>1 DEF Marked
<1>6. ASSUME upserts # <<>>
      PROVE  KeepsAnswering'
  <2> SUFFICES ASSUME NEW q \in start[Domain], q.type # "CNAME",
                      NEW w \in ToSet(Wanted), SameNameType(q, w)
               PROVE  \E s \in zones'[Domain] : SameNameType(q, s)
    BY <1>1 DEF KeepsAnswering, Wanted
  <2>1. PICK s \in zones[Domain] : SameNameType(q, s)
    BY <1>1, <1>6 DEF Answering, KeepsAnswering, Wanted
  <2>2. s.id # r.id
    <3> SUFFICES ASSUME s.id = r.id PROVE FALSE
      OBVIOUS
    <3>1. SameNameType(s, r) /\ r \in first
      BY <1>1, <1>6 DEF Inv, Planned
    <3>2. r.type # "CNAME" /\ SameNameType(r, w)
      BY <2>1, <3>1 DEF SameNameType
    <3> QED BY <1>1, <3>1, <3>2 DEF Inv, Planned
  <2> QED BY <1>4, <2>1, <2>2
<1>7. ASSUME NEW j \in 1..(Len(Wanted) - Len(upserts))
      PROVE  \E s \in zones'[Domain] : SameNameType(s, Wanted[j]) /\ s.id \notin Marked'
  <2>1. PICK s \in zones[Domain] : SameNameType(s, Wanted[j]) /\ s.id \notin Marked
    BY <1>1 DEF Answering
  <2> QED BY <1>4, <1>5, <2>1
<1> QED BY <1>1, <1>6, <1>7 DEF Answering

\* The entries whose upserts are done, after one more.
LEMMA DoneFacts ==
  ASSUME Inv, Advance
  PROVE  /\ Wanted' = Wanted /\ Domain' = Domain
         /\ \A j \in 1..(Len(Wanted) - Len(upserts')) :
              \/ j \in 1..(Len(Wanted) - Len(upserts))
              \/ Wanted[j] = Head(upserts).want
         /\ \A j \in 1..(Len(Wanted) - Len(upserts')) : Wanted[j] \in ToSet(Wanted)
         /\ \A i \in 1..Len(upserts') : upserts'[i] = upserts[i + 1] /\ i + 1 \in 1..Len(upserts)
<1>1. pc = "writing" /\ upserts # <<>> /\ upserts' = Tail(upserts)
      /\ Wanted' = Wanted /\ Domain' = Domain
  BY DEF Advance, Frame, Wanted, Domain
<1>2. /\ Len(upserts) \in Nat \ {0} /\ Len(upserts') = Len(upserts) - 1
      /\ \A i \in 1..(Len(upserts) - 1) : upserts'[i] = upserts[i + 1]
  BY <1>1, TailFacts
<1>3. /\ Len(Wanted) \in Nat /\ Len(upserts) <= Len(Wanted)
      /\ Head(upserts).want = Wanted[Len(Wanted) - Len(upserts) + 1]
      /\ \A j \in 1..Len(Wanted) : Wanted[j] \in ToSet(Wanted)
  BY <1>1, PositionFacts
<1>4. ASSUME NEW j \in 1..(Len(Wanted) - Len(upserts'))
      PROVE  /\ j \in 1..(Len(Wanted) - Len(upserts)) \/ Wanted[j] = Head(upserts).want
             /\ Wanted[j] \in ToSet(Wanted)
  <2>1. /\ Len(Wanted) \in Nat /\ Len(upserts) \in Nat /\ Len(upserts') \in Nat
        /\ Len(upserts') = Len(upserts) - 1
    BY <1>2, <1>3
  <2>2. j \in 1..(Len(Wanted) - Len(upserts)) \/ j = Len(Wanted) - Len(upserts) + 1
    BY <2>1
  <2>3. j \in 1..Len(Wanted)
    BY <2>1
  <2> QED BY <1>3, <2>2, <2>3
<1>5. \A i \in 1..Len(upserts') : upserts'[i] = upserts[i + 1] /\ i + 1 \in 1..Len(upserts)
  BY <1>2
<1> QED BY <1>1, <1>4, <1>5

LEMMA AnsweringAfterAdvance ==
  ASSUME Inv, Intact, Answering, Advance
  PROVE  Answering'
<1> SUFFICES ASSUME ~disturbed PROVE Answering'
  BY DEF Answering, Advance, Frame
<1> DEFINE h  == Head(upserts).want
           ss == zones'[Domain]
<1>1. /\ pc = "writing" /\ pc' = pc /\ upserts # <<>> /\ UNCHANGED <<input, at, start, disturbed>>
      /\ Marked' = Marked
  BY DEF Advance, Frame, Marked, Doomed
<1>2. \A r \in zones[Domain] : \E s \in ss : s.id = r.id /\ SameNameType(s, r)
  BY SurvivesAdvance
<1>3. KeepsAnswering'
  <2> SUFFICES ASSUME NEW q \in start[Domain], q.type # "CNAME",
                      NEW w \in ToSet(Wanted), SameNameType(q, w)
               PROVE  \E s \in ss : SameNameType(q, s)
    BY <1>1, DoneFacts DEF KeepsAnswering, Wanted
  <2>1. PICK r \in zones[Domain] : SameNameType(q, r)
    BY <1>1 DEF Answering, KeepsAnswering, Wanted
  <2> QED BY <1>2, <2>1 DEF SameNameType
<1>4. \E s \in ss : SameNameType(s, h) /\ s.id \notin Marked
  <2>1. CASE Head(upserts).verb = "CREATE"
    <3>1. /\ New(Domain, h) \in ss /\ SameNameType(New(Domain, h), h)
          /\ New(Domain, h).id \notin Marked
      BY <2>1, AdvanceFacts
    <3> QED BY <3>1
  <2>2. CASE Head(upserts).verb # "CREATE"
    <3>1. Head(upserts) = upserts[1] /\ 1 \in 1..Len(upserts)
      BY <1>1, TailFacts
    <3>2. PICK m \in zones[Domain] : SameNameType(m, h) /\ m.id \notin Marked
      BY <1>1, <2>2, <3>1 DEF Intact, Acceptable
    <3> QED BY <1>2, <3>2 DEF SameNameType
  <2> QED BY <2>1, <2>2
<1>5. ASSUME NEW j \in 1..(Len(Wanted) - Len(upserts'))
      PROVE  \E s \in ss : SameNameType(s, Wanted[j]) /\ s.id \notin Marked
  <2>1. CASE j \in 1..(Len(Wanted) - Len(upserts))
    <3>1. PICK r \in zones[Domain] : SameNameType(r, Wanted[j]) /\ r.id \notin Marked
      BY <1>1, <2>1 DEF Answering
    <3> QED BY <1>2, <3>1 DEF SameNameType
  <2>2. CASE Wanted[j] = h
    BY <1>4, <2>2
  <2> QED BY <2>1, <2>2, DoneFacts
<1> QED BY <1>1, <1>3, <1>5, DoneFacts DEF Answering

LEMMA AnsweringAfterPlan ==
  ASSUME Inv, Intact, PlanMade
  PROVE  Answering'
<1> SUFFICES ASSUME ~disturbed PROVE Answering'
  BY DEF Answering, PlanMade, Frame
<1>1. /\ at \in DOMAIN input /\ pc = "zone"
      /\ zones' = zones /\ start' = start /\ Domain' = Domain /\ Wanted' = Wanted
  BY DEF PlanMade, Frame, Domain, Wanted
<1>2. zones[Domain] = start[Domain]
  BY <1>1, ZoneIsFresh
<1>3. KeepsAnswering'
  BY <1>1, <1>2 DEF KeepsAnswering, SameNameType
<1>4. 1..(Len(Wanted') - Len(upserts')) = {}
  <2>1. Len(Wanted) \in Nat
    BY <1>1, TypeFacts, LenProperties
  <2> QED BY <1>1, <2>1, PlannedOpFacts
<1> QED BY <1>3, <1>4 DEF Answering

LEMMA AnsweringNext ==
  ASSUME Inv, Intact, Answering, [Next]_vars
  PROVE  Answering'
<1>1. CASE StartSync \/ NextZone \/ Failure \/ \E how \in Endings : Halt(how)
  <2>1. pc' # "writing"
    BY <1>1 DEF StartSync, NextZone, Failure, Halt, StopsAs, Endings
  <2> QED BY <2>1 DEF Answering
<1>2. CASE Interference
  BY <1>2 DEF Answering, Interference
<1>3. CASE UNCHANGED vars
  BY <1>3 DEF Answering, KeepsAnswering, Doomed, Marked, Domain, Wanted, vars, runVars
<1> QED
  BY <1>1, <1>2, <1>3, StepCases, AnsweringAfterPlan, AnsweringAfterRemoval,
     AnsweringAfterAdvance

LEMMA AnsweringIsEnough ==
  ASSUME Inv, Answering
  PROVE  KeepsAnswering
<1> SUFFICES ASSUME pc = "writing", ~disturbed, upserts = <<>>,
                    NEW r \in start[Domain], NEW w \in ToSet(Wanted), SameNameType(r, w)
             PROVE  \E s \in zones[Domain] : SameNameType(r, s)
  BY DEF Answering, KeepsAnswering, Wanted
<1>1. Wanted \in Seq(Desired)
  BY TypeFacts DEF Inv, Planned
<1>2. PICK j \in 1..Len(Wanted) : Wanted[j] = w
  BY <1>1, LenProperties DEF ToSet
<1>3. j \in 1..(Len(Wanted) - Len(upserts))
  <2>1. Len(Wanted) \in Nat /\ Len(upserts) = 0
    BY <1>1, LenProperties, EmptySeq
  <2> QED BY <2>1
<1>4. PICK s \in zones[Domain] : SameNameType(s, Wanted[j])
  BY <1>3 DEF Answering
<1> QED BY <1>2, <1>4 DEF SameNameType

\* The order of the phases keeps every wanted name and type answered while the
\* zone is being changed, a CNAME that gets another target excepted
\* (sync.go:165).
THEOREM NamesKeepAnswering == Spec => []KeepsAnswering
<1>1. Init => Answering
  BY DEF Init, Answering
<1>2. Inv /\ Intact /\ Answering /\ [Next]_vars => Answering'
  BY AnsweringNext
<1>3. Inv /\ Answering => KeepsAnswering
  BY AnsweringIsEnough
<1> QED BY <1>1, <1>2, <1>3, IntactAlways, PTL DEF Spec

-----------------------------------------------------------------------------
(* What has been carried out *)

\* When the zone was planned, an entry had a record if its operation says so.
LEMMA ZoneCarriedAfterPlan ==
  ASSUME Inv, PlanMade
  PROVE  ZoneCarried'
<1> DEFINE existing == zones[Domain]
<1>1. /\ at \in DOMAIN input /\ zones' = zones /\ prune' = prune
      /\ Domain' = Domain /\ Wanted' = Wanted
  BY DEF PlanMade, Frame, Domain, Wanted
<1>2. existing \in SUBSET Record /\ Wanted \in Seq(Desired) /\ Domain \in Domains
      /\ Len(Wanted) \in Nat
  BY <1>1, TypeFacts, LenProperties
<1>3. /\ ~DesiredClash(Wanted) /\ InTheWay(existing, Wanted) \subseteq Pruned(existing, Wanted)
      /\ first' = InTheWay(existing, Wanted) /\ last' = Deferred(existing, Wanted)
  BY DEF PlanMade
<1>4. /\ first' \cup last' = Pruned(existing, Wanted)
      /\ Pruned(existing, Wanted) \subseteq existing
      /\ \A w \in ToSet(Wanted) : Matches(existing, w) # {} =>
           /\ LastMatch(existing, w) \in existing \ Pruned(existing, Wanted)
           /\ SameKey(LastMatch(existing, w), w)
  BY <1>2, <1>3, PlanFacts
<1>5. Marked' = {r.id : r \in Pruned(existing, Wanted)}
  BY <1>4 DEF Doomed, Marked
<1>6. \A m \in existing \ Pruned(existing, Wanted) : m.id \notin Marked'
  <2>1. \A r, s \in existing : r.id = s.id => r = s
    BY <1>2 DEF Inv, TypeOK
  <2> QED BY <1>4, <1>5, <2>1
<1>7. /\ Len(upserts') = Len(Wanted)
      /\ \A i \in 1..Len(upserts') : /\ upserts'[i].verb = Verb(existing, upserts'[i].want)
                                     /\ upserts'[i].want \in ToSet(Wanted)
  BY PlannedOpFacts
<1>8. 1..(Len(Wanted') - Len(upserts')) = {}
  BY <1>1, <1>2, <1>7
<1>9. ASSUME NEW i \in 1..Len(upserts')
      PROVE  /\ upserts'[i].verb = "OK" => Has(existing, upserts'[i].want, Marked')
             /\ upserts'[i].verb = "UPDATE" => HasKey(existing, upserts'[i].want, Marked')
  <2> DEFINE w == upserts'[i].want
  <2> SUFFICES ASSUME upserts'[i].verb # "CREATE"
               PROVE  /\ upserts'[i].verb = "OK" => Has(existing, w, Marked')
                      /\ upserts'[i].verb = "UPDATE" => HasKey(existing, w, Marked')
    OBVIOUS
  <2>1. Matches(existing, w) # {} /\ (upserts'[i].verb = "OK" => LastMatch(existing, w).ttl = w.ttl)
    BY <1>7 DEF Verb
  <2>2. /\ LastMatch(existing, w) \in existing /\ SameKey(LastMatch(existing, w), w)
        /\ LastMatch(existing, w).id \notin Marked'
    BY <1>4, <1>6, <1>7, <2>1
  <2> QED BY <2>1, <2>2 DEF Has, HasKey
<1>10. ASSUME prune, NEW s \in existing
       PROVE  s.id \in Marked' \/ Protected(s) \/ \E w \in ToSet(Wanted) : SameKey(s, w)
  <2>1. CASE s \in Pruned(existing, Wanted)
    BY <1>5, <2>1
  <2>2. CASE s \notin Pruned(existing, Wanted)
    BY <1>10, <2>2 DEF Pruned
  <2> QED BY <2>1, <2>2
<1> QED BY <1>1, <1>8, <1>9, <1>10 DEF ZoneCarried

LEMMA ZoneCarriedAfterRemoval ==
  ASSUME Inv, ZoneCarried, NEW r \in Doomed, Removal(r)
  PROVE  ZoneCarried'
<1>1. /\ pc = "writing" /\ upserts' = upserts
      /\ UNCHANGED <<input, prune, at, start, disturbed>>
      /\ Domain' = Domain /\ Wanted' = Wanted /\ Doomed' = Doomed \ {r}
  BY DEF Removal, Frame, Domain, Wanted, Doomed
<1> SUFFICES ASSUME ~disturbed, UpdatesNameOneRecord PROVE ZoneCarried'
  BY <1>1 DEF ZoneCarried, UpdatesNameOneRecord
<1>2. Domain \in Domains
  BY <1>1, TypeFacts DEF Inv, Planned
<1>3. zones'[Domain] = DeleteById(zones[Domain], r)
  BY <1>2, TypeFacts DEF Removal, Becomes, Porkbun
<1>4. \A s \in zones[Domain] : s \in zones'[Domain] <=> s.id # r.id
  BY <1>3, DeleteFacts
<1>5. zones'[Domain] \subseteq zones[Domain]
  BY <1>3, DeleteFacts
<1>6. Marked' \subseteq Marked /\ r.id \in Marked /\ Marked \subseteq Marked' \cup {r.id}
  BY <1>1 DEF Marked
<1>7. \A w : Has(zones[Domain], w, Marked) => Has(zones'[Domain], w, Marked')
  BY <1>4, <1>6 DEF Has
<1>8. \A w : HasKey(zones[Domain], w, Marked) => HasKey(zones'[Domain], w, Marked')
  BY <1>4, <1>6 DEF HasKey
<1>9. ASSUME prune, NEW s \in zones'[Domain]
      PROVE  s.id \in Marked' \/ Protected(s) \/ \E w \in ToSet(Wanted) : SameKey(s, w)
  <2>1. s \in zones[Domain] /\ s.id # r.id
    BY <1>4, <1>5
  <2>2. s.id \in Marked \/ Protected(s) \/ \E w \in ToSet(Wanted) : SameKey(s, w)
    BY <1>1, <1>9, <2>1 DEF ZoneCarried
  <2> QED BY <1>6, <2>1, <2>2
<1> QED BY <1>1, <1>7, <1>8, <1>9 DEF ZoneCarried

\* What an entry has, it keeps through the other upserts.
LEMMA HasAfterAdvance ==
  ASSUME Inv, Intact, Advance, ~disturbed, UpdatesNameOneRecord, NEW w \in ToSet(Wanted)
  PROVE  /\ Has(zones[Domain], w, Marked) => Has(zones'[Domain], w, Marked)
         /\ HasKey(zones[Domain], w, Marked) => HasKey(zones'[Domain], w, Marked)
<1> DEFINE h  == Head(upserts).want
           rs == zones[Domain]
           ss == zones'[Domain]
<1>1. CASE Head(upserts).verb # "UPDATE"
  <2>1. rs \subseteq ss
    BY <1>1, AdvanceFacts
  <2> QED BY <2>1 DEF Has, HasKey
<1>2. CASE Head(upserts).verb = "UPDATE"
  <2>1. pc = "writing" /\ upserts # <<>>
    BY DEF Advance
  <2>2. at \in DOMAIN input /\ h \in ToSet(Wanted) /\ Head(upserts) = upserts[1]
        /\ 1 \in 1..Len(upserts)
    BY <2>1, PositionFacts
  <2>3. Verb(start[Domain], h) = "UPDATE"
    BY <1>2, <2>1, <2>2 DEF Intact, Acceptable
  <2>4. SameNameType(w, h) => w = h
    BY <2>2, <2>3 DEF UpdatesNameOneRecord, Domain, Wanted
  <2>5. \A m \in rs : \E n \in ss : Edited(n, m, h)
    BY <1>2, AdvanceFacts
  <2>6. ASSUME NEW s \in rs, SameKey(s, w), s.id \notin Marked
        PROVE  \E n \in ss : /\ SameKey(n, w) /\ n.id \notin Marked
                             /\ s.ttl = w.ttl => n.ttl = w.ttl
    <3>1. PICK n \in ss : Edited(n, s, h)
      BY <2>5
    <3>2. CASE SameNameType(s, h)
      <4>1. w = h
        BY <2>4, <2>6, <3>2 DEF SameKey, SameNameType
      <4> QED BY <2>6, <3>1, <3>2, <4>1 DEF Edited
    <3>3. CASE ~SameNameType(s, h)
      BY <2>6, <3>1, <3>3 DEF Edited
    <3> QED BY <3>2, <3>3
  <2>7. Has(rs, w, Marked) => Has(ss, w, Marked)
    BY <2>6 DEF Has
  <2>8. HasKey(rs, w, Marked) => HasKey(ss, w, Marked)
    BY <2>6 DEF HasKey
  <2> QED BY <2>7, <2>8
<1> QED BY <1>1, <1>2

LEMMA ZoneCarriedAfterAdvance ==
  ASSUME Inv, Intact, ZoneCarried, Advance
  PROVE  ZoneCarried'
<1> DEFINE h  == Head(upserts).want
           rs == zones[Domain]
           ss == zones'[Domain]
<1>1. /\ pc = "writing" /\ upserts # <<>>
      /\ UNCHANGED <<input, prune, at, start, disturbed>>
      /\ Domain' = Domain /\ Wanted' = Wanted /\ Marked' = Marked
  BY DEF Advance, Frame, Domain, Wanted, Marked, Doomed
<1> SUFFICES ASSUME ~disturbed, UpdatesNameOneRecord PROVE ZoneCarried'
  BY <1>1 DEF ZoneCarried, UpdatesNameOneRecord
<1>2. Head(upserts) = upserts[1] /\ 1 \in 1..Len(upserts) /\ h \in ToSet(Wanted)
  BY <1>1, PositionFacts
<1>3. Has(ss, h, Marked)
  <2>1. CASE Head(upserts).verb = "OK"
    BY <1>1, <1>2, <2>1, HasAfterAdvance DEF ZoneCarried
  <2>2. CASE Head(upserts).verb = "CREATE"
    <3>1. /\ New(Domain, h) \in ss /\ SameKey(New(Domain, h), h) /\ New(Domain, h).ttl = h.ttl
          /\ New(Domain, h).id \notin Marked
      BY <2>2, AdvanceFacts
    <3> QED BY <3>1 DEF Has
  <2>3. CASE Head(upserts).verb = "UPDATE"
    <3>1. PICK s \in rs : SameKey(s, h) /\ s.id \notin Marked
      BY <1>1, <1>2, <2>3 DEF ZoneCarried, HasKey
    <3>2. PICK n \in ss : Edited(n, s, h)
      BY <2>3, AdvanceFacts
    <3>3. SameNameType(s, h)
      BY <3>1 DEF SameKey, SameNameType
    <3> QED BY <3>1, <3>2, <3>3 DEF Edited, Has
  <2> QED BY <2>1, <2>2, <2>3, AdvanceFacts
<1>4. ASSUME NEW j \in 1..(Len(Wanted) - Len(upserts'))
      PROVE  Has(ss, Wanted[j], Marked)
  <2>1. CASE j \in 1..(Len(Wanted) - Len(upserts))
    <3>1. Has(rs, Wanted[j], Marked)
      BY <1>1, <2>1 DEF ZoneCarried
    <3>2. Wanted[j] \in ToSet(Wanted)
      BY DoneFacts
    <3> QED BY <3>1, <3>2, HasAfterAdvance
  <2>2. CASE Wanted[j] = h
    BY <1>3, <2>2
  <2> QED BY <2>1, <2>2, DoneFacts
<1>5. ASSUME NEW i \in 1..Len(upserts')
      PROVE  /\ upserts'[i].verb = "OK" => Has(ss, upserts'[i].want, Marked)
             /\ upserts'[i].verb = "UPDATE" => HasKey(ss, upserts'[i].want, Marked)
  <2>1. upserts'[i] = upserts[i + 1] /\ i + 1 \in 1..Len(upserts)
    BY DoneFacts
  <2>2. upserts'[i].want \in ToSet(Wanted)
    BY <1>1, <2>1, PositionFacts
  <2>3. /\ upserts'[i].verb = "OK" => Has(rs, upserts'[i].want, Marked)
        /\ upserts'[i].verb = "UPDATE" => HasKey(rs, upserts'[i].want, Marked)
    BY <1>1, <2>1 DEF ZoneCarried
  <2> QED BY <2>2, <2>3, HasAfterAdvance
<1>6. ASSUME prune, NEW s \in ss
      PROVE  s.id \in Marked \/ Protected(s) \/ \E w \in ToSet(Wanted) : SameKey(s, w)
  <2>1. s \in rs \/ SameKey(s, h)
    <3>1. CASE Head(upserts).verb = "UPDATE"
      BY <3>1, AdvanceFacts DEF Edited
    <3>2. CASE Head(upserts).verb # "UPDATE"
      BY <3>2, AdvanceFacts
    <3> QED BY <3>1, <3>2
  <2> QED BY <1>1, <1>2, <1>6, <2>1 DEF ZoneCarried
<1> QED BY <1>1, <1>4, <1>5, <1>6 DEF ZoneCarried

LEMMA ZoneCarriedNext ==
  ASSUME Inv, Intact, ZoneCarried, [Next]_vars
  PROVE  ZoneCarried'
<1>1. CASE StartSync \/ NextZone \/ Failure \/ \E how \in Endings : Halt(how)
  <2>1. pc' # "writing"
    BY <1>1 DEF StartSync, NextZone, Failure, Halt, StopsAs, Endings
  <2> QED BY <2>1 DEF ZoneCarried
<1>2. CASE Interference
  BY <1>2 DEF ZoneCarried, Interference
<1>3. CASE UNCHANGED vars
  BY <1>3 DEF ZoneCarried, UpdatesNameOneRecord, Doomed, Marked, Domain, Wanted, vars, runVars
<1> QED
  BY <1>1, <1>2, <1>3, StepCases, ZoneCarriedAfterPlan, ZoneCarriedAfterRemoval,
     ZoneCarriedAfterAdvance

\* A step that does not change the run's other zones leaves them converged.
LEMMA OtherZonesStay ==
  ASSUME Inv, ZonesCarried, pc = "writing", pc' = "writing",
         UNCHANGED <<input, prune, dryRun, at, start, disturbed>>,
         \A d \in Domains : d # Domain => zones'[d] = zones[d]
  PROVE  ZonesCarried'
<1> SUFFICES ASSUME ~dryRun, ~disturbed, UpdatesNameOneRecord, NEW i \in DOMAIN input, i < at
             PROVE  Converged(input, i, prune)'
  BY DEF ZonesCarried, UpdatesNameOneRecord
<1>1. Running /\ Coherent(input) /\ at \in DOMAIN input /\ at \in Nat
  BY TypeFacts DEF Inv, Progress, Planned, Running, Endings
<1>2. input[i].domain \in Domains
  <2>1. input \in Seq([domain : Domains, records : Seq(Desired)])
    BY DEF Inv, Progress
  <2>2. input[i] \in [domain : Domains, records : Seq(Desired)]
    <3> DEFINE S == [domain : Domains, records : Seq(Desired)]
    <3>1. input \in Seq(S) /\ i \in 1..Len(input)
      BY <2>1
    <3> HIDE DEF S
    <3>2. input[i] \in S
      BY <3>1, ElementOfSeq
    <3> QED BY <3>2 DEF S
  <2> QED BY <2>2
<1>3. input[i].domain # Domain
  <2> SUFFICES ASSUME input[i].domain = Domain PROVE FALSE
    OBVIOUS
  <2>1. i = at
    BY <1>1 DEF Coherent, Domain
  <2> QED BY <1>1, <2>1
<1>4. zones'[input[i].domain] = zones[input[i].domain]
  BY <1>2, <1>3
<1>5. Converged(input, i, prune)
  BY <1>1 DEF ZonesCarried
<1> QED BY <1>4, <1>5 DEF Converged

\* The zone just done is as the input says.
LEMMA ZoneIsConverged ==
  ASSUME Inv, ZoneCarried, pc = "writing", Doomed = {}, upserts = <<>>,
         ~disturbed, UpdatesNameOneRecord
  PROVE  Converged(input, at, prune)
<1>1. Wanted \in Seq(Desired)
  BY TypeFacts DEF Inv, Planned
<1>2. Marked = {}
  BY DEF Marked
<1>3. ASSUME NEW w \in ToSet(Wanted)
      PROVE  \E r \in zones[Domain] : SameKey(r, w) /\ r.ttl = w.ttl
  <2>1. PICK j \in 1..Len(Wanted) : Wanted[j] = w
    BY <1>1, LenProperties DEF ToSet
  <2>2. j \in 1..(Len(Wanted) - Len(upserts))
    <3>1. Len(Wanted) \in Nat /\ Len(upserts) = 0
      BY <1>1, LenProperties, EmptySeq
    <3> QED BY <3>1
  <2>3. Has(zones[Domain], Wanted[j], Marked)
    BY <2>2 DEF ZoneCarried
  <2> QED BY <2>1, <2>3 DEF Has
<1>4. prune => \A s \in zones[Domain] : Protected(s) \/ \E w \in ToSet(Wanted) : SameKey(s, w)
  BY <1>2 DEF ZoneCarried
<1> QED BY <1>3, <1>4 DEF Converged, Domain, Wanted

LEMMA ZonesCarriedNext ==
  ASSUME Inv, ZoneCarried, ZonesCarried, [Next]_vars
  PROVE  ZonesCarried'
<1>1. CASE StartSync
  <2>1. input' \in Seq([domain : Domains, records : Seq(Desired)]) /\ at' = 1
    BY <1>1, InputFacts DEF StartSync
  <2>2. \A i \in DOMAIN input' : ~(i < at')
    BY <2>1
  <2> QED BY <2>2 DEF ZonesCarried
<1>2. CASE PlanMade
  BY <1>2 DEF ZonesCarried, UpdatesNameOneRecord, Converged, PlanMade, Frame, Running, Endings
<1>3. CASE NextZone
  <2>1. /\ Running /\ at \in DOMAIN input /\ at' = at + 1
        /\ UNCHANGED <<zones, input, prune, dryRun, start, disturbed>>
    BY <1>3 DEF NextZone, Running, Endings
  <2> SUFFICES ASSUME ~dryRun, ~disturbed, UpdatesNameOneRecord,
                      NEW i \in DOMAIN input, i < at + 1
               PROVE  Converged(input, i, prune)
    BY <2>1 DEF ZonesCarried, UpdatesNameOneRecord, Converged
  <2>2. i < at \/ i = at
    <3>1. input \in Seq([domain : Domains, records : Seq(Desired)])
      BY DEF Inv, Progress
    <3>2. i \in Nat /\ at \in Nat
      BY <2>1, <3>1
    <3> QED BY <3>2
  <2>3. CASE i < at
    BY <2>1, <2>3 DEF ZonesCarried
  <2>4. CASE i = at
    BY <1>3, <2>4, ZoneIsConverged DEF NextZone
  <2> QED BY <2>2, <2>3, <2>4
<1>4. CASE Failure \/ \E how \in Endings : Halt(how)
  BY <1>4 DEF ZonesCarried, Failure, Halt, StopsAs, Running, Endings
<1>5. CASE Interference
  BY <1>5 DEF ZonesCarried, Interference
<1>6. CASE Advance \/ \E r \in Doomed : Removal(r)
  <2>1. /\ pc = "writing" /\ pc' = "writing"
        /\ UNCHANGED <<input, prune, dryRun, at, start, disturbed>>
        /\ \E rs : Becomes(rs) \/ zones' = zones
    BY <1>6 DEF Advance, Removal, Frame, EditHead, CreateHead
  <2>2. \A d \in Domains : d # Domain => zones'[d] = zones[d]
    BY <2>1, TypeFacts DEF Becomes, Porkbun
  <2> QED BY <2>1, <2>2, OtherZonesStay
<1>7. CASE UNCHANGED vars
  BY <1>7 DEF ZonesCarried, UpdatesNameOneRecord, Converged, Running, vars, runVars
<1> QED BY <1>1, <1>2, <1>3, <1>4, <1>5, <1>6, <1>7, StepCases

\* FinishedIsConverged and UnprunedStays, which are about undisturbed runs.
LEMMA FinishedNext ==
  ASSUME Inv, ZonesCarried, UpdatesNameOneRecord => FinishedIsConverged, [Next]_vars
  PROVE  (UpdatesNameOneRecord => FinishedIsConverged)'
<1>1. CASE StartSync \/ PlanMade \/ NextZone \/ Advance \/ Failure \/ \E r \in Doomed : Removal(r)
  <2>1. pc' # "finished"
    BY <1>1 DEF StartSync, PlanMade, NextZone, Advance, Failure, StopsAs, Removal
  <2> QED BY <2>1 DEF FinishedIsConverged
<1>2. CASE \E how \in Endings : Halt(how)
  <2>1. PICK how \in Endings : Halt(how)
    BY <1>2
  <2>2. /\ Running /\ pc' = how /\ (how = "finished" => at \notin DOMAIN input)
        /\ UNCHANGED <<zones, input, prune, dryRun, start, disturbed>>
    BY <2>1 DEF Halt, StopsAs, Frame
  <2> SUFFICES ASSUME how = "finished", ~dryRun, ~disturbed, UpdatesNameOneRecord,
                      NEW i \in DOMAIN input
               PROVE  Converged(input, i, prune)
    BY <2>2 DEF FinishedIsConverged, UpdatesNameOneRecord, Converged
  <2>3. i < at
    <3>1. input \in Seq([domain : Domains, records : Seq(Desired)])
      BY DEF Inv, Progress
    <3>2. at \in 1..(Len(input) + 1)
      BY DEF Inv, TypeOK
    <3>3. i \in 1..Len(input) /\ at \notin 1..Len(input) /\ Len(input) \in Nat
      BY <2>2, <3>1
    <3> QED BY <3>2, <3>3
  <2> QED BY <2>2, <2>3 DEF ZonesCarried
<1>3. CASE Interference
  BY <1>3 DEF FinishedIsConverged, Interference
<1>4. CASE UNCHANGED vars
  BY <1>4 DEF FinishedIsConverged, UpdatesNameOneRecord, Converged, vars, runVars
<1> QED BY <1>1, <1>2, <1>3, <1>4, StepCases

\* Every record the run found is there, under its id and with its content.
Stays(z) == \A d \in Domains : \A r \in start[d] : \E s \in z[d] : s.id = r.id /\ SameKey(s, r)

LEMMA StaysAfterUpsert ==
  ASSUME Inv, Intact, pc = "writing", ~disturbed, UpdatesNameOneRecord, Stays(zones),
         upserts # <<>>, EditHead \/ CreateHead
  PROVE  Stays(zones')
<1> DEFINE h == Head(upserts).want
<1>1. at \in DOMAIN input /\ h \in ToSet(Wanted) /\ Head(upserts) = upserts[1]
      /\ 1 \in 1..Len(upserts) /\ h \in Desired
  BY PositionFacts, TypeFacts DEF Op
<1>2. Domain \in Domains /\ zones[Domain] \in SUBSET Record
  BY <1>1, TypeFacts
<1>3. CASE CreateHead
  <2>1. zones' = [zones EXCEPT ![Domain] = Create(Domain, h)]
    BY <1>3 DEF CreateHead, Becomes
  <2>2. Create(Domain, h) = zones[Domain] \cup {New(Domain, h)}
    BY <1>1, <1>2, <1>3, CreateFacts DEF CreateHead
  <2>3. \A d \in Domains : zones[d] \subseteq zones'[d]
    BY <1>2, <2>1, <2>2, TypeFacts DEF Porkbun
  <2> QED BY <2>3 DEF Stays
<1>4. CASE EditHead
  <2>1. /\ zones' = [zones EXCEPT ![Domain] = EditByNameType(zones[Domain], h)]
        /\ Verb(start[Domain], h) = "UPDATE"
    BY <1>1, <1>4 DEF EditHead, Becomes, Intact, Acceptable
  <2>2. zones'[Domain] = EditByNameType(zones[Domain], h)
        /\ \A d \in Domains : d # Domain => zones'[d] = zones[d]
    BY <1>2, <2>1, TypeFacts DEF Porkbun
  <2>3. \A r \in start[Domain] : SameNameType(r, h) => SameKey(r, h)
    BY <1>1, <2>1 DEF UpdatesNameOneRecord, Domain, Wanted
  <2>4. ASSUME NEW r \in start[Domain]
        PROVE  \E s \in zones'[Domain] : s.id = r.id /\ SameKey(s, r)
    <3>1. PICK t \in zones[Domain] : t.id = r.id /\ SameKey(t, r)
      BY <1>2 DEF Stays
    <3>2. PICK s \in zones'[Domain] : Edited(s, t, h)
      BY <1>1, <1>2, <2>2, EditFacts
    <3>3. CASE SameNameType(t, h)
      <4>1. SameNameType(r, h)
        BY <3>1, <3>3 DEF SameKey, SameNameType
      <4>2. SameKey(r, h) /\ SameKey(s, h)
        BY <2>3, <3>2, <3>3, <4>1 DEF Edited
      <4> QED BY <3>1, <3>2, <4>2 DEF Edited, SameKey
    <3>4. CASE ~SameNameType(t, h)
      BY <3>1, <3>2, <3>4 DEF Edited
    <3> QED BY <3>3, <3>4
  <2> QED BY <2>2, <2>4 DEF Stays
<1> QED BY <1>3, <1>4

LEMMA StaysNext ==
  ASSUME Inv, Intact, UpdatesNameOneRecord => UnprunedStays, [Next]_vars
  PROVE  (UpdatesNameOneRecord => UnprunedStays)'
<1>1. CASE StartSync
  <2>1. zones' = start'
    BY <1>1 DEF StartSync
  <2> QED BY <2>1 DEF UnprunedStays, SameKey
<1>2. CASE PlanMade \/ NextZone \/ \E how \in Endings : Halt(how)
  <2>1. pc # "idle" /\ UNCHANGED <<zones, input, prune, start, disturbed>>
    BY <1>2 DEF PlanMade, NextZone, Halt, Frame, Running, Endings
  <2> QED BY <2>1 DEF UnprunedStays, UpdatesNameOneRecord
<1>3. CASE Advance \/ Failure \/ \E r \in Doomed : Removal(r)
  <2>1. pc = "writing" /\ UNCHANGED <<input, prune, start, disturbed>>
    BY <1>3 DEF Advance, Failure, Removal, Frame
  <2> SUFFICES ASSUME ~prune, ~disturbed, UpdatesNameOneRecord
               PROVE  Stays(zones')
    BY <2>1 DEF UnprunedStays, UpdatesNameOneRecord, Stays
  <2>2. Stays(zones)
    BY <2>1 DEF UnprunedStays, Stays
  <2>3. Doomed = {}
    BY <2>1 DEF Inv, Planned
  <2>4. zones' = zones \/ (upserts # <<>> /\ (EditHead \/ CreateHead))
    BY <1>3, <2>3 DEF Advance, Failure, Written
  <2> QED BY <2>1, <2>2, <2>4, StaysAfterUpsert
<1>4. CASE Interference
  BY <1>4 DEF UnprunedStays, Interference
<1>5. CASE UNCHANGED vars
  BY <1>5 DEF UnprunedStays, UpdatesNameOneRecord, vars, runVars
<1> QED BY <1>1, <1>2, <1>3, <1>4, <1>5, StepCases

LEMMA CarriedInit ==
  ASSUME Init
  PROVE  Carried
  BY DEF Init, Carried, ZoneCarried, ZonesCarried, FinishedIsConverged, UnprunedStays, Running,
         Endings

LEMMA CarriedNext ==
  ASSUME Inv, Intact, Carried, [Next]_vars
  PROVE  Carried'
<1>1. ZoneCarried /\ ZonesCarried /\ (UpdatesNameOneRecord => FinishedIsConverged)
      /\ (UpdatesNameOneRecord => UnprunedStays)
  BY DEF Carried
<1>2. ZoneCarried' /\ ZonesCarried'
  BY <1>1, ZoneCarriedNext, ZonesCarriedNext
<1>3. (UpdatesNameOneRecord => FinishedIsConverged)' /\ (UpdatesNameOneRecord => UnprunedStays)'
  BY <1>1, FinishedNext, StaysNext
<1> QED BY <1>2, <1>3 DEF Carried

\* The plan of a zone is the truth about it (README.md:269): while nobody else
\* changes the zones no write of it is refused, and, unless an update hits more
\* than its record, a run that succeeds leaves every zone as the input says and
\* one without --prune keeps every record, however it ends.
THEOREM PlanCarriedOut == Spec => []PlanIsCarriedOut
<1>1. Init => Carried
  BY CarriedInit
<1>2. Inv /\ Intact /\ Carried /\ [Next]_vars => Carried'
  BY CarriedNext
<1>3. Intact /\ Carried => PlanIsCarriedOut
  BY DEF Intact, Carried, PlanIsCarriedOut
<1> QED BY <1>1, <1>2, <1>3, IntactAlways, PTL DEF Spec
=============================================================================
