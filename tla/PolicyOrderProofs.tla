--------------------------- MODULE PolicyOrderProofs ---------------------------
(***************************************************************************)
(* Theorems about PolicyOrder for every value of its constants: types,     *)
(* safe writes, the plan is carried out, and moves are counted.            *)
(*                                                                         *)
(* Both passes read the list the run started from, so what they do is      *)
(* worked out from `start` and the document.  The layers:                  *)
(*                                                                         *)
(*   Inv    Course: where the pass is and what it has yet to do; Live:     *)
(*          what the writing pass has made of the console so far, the      *)
(*          order of its policies aside;                                   *)
(*   Vetted what the planning pass has checked, for the writing pass;      *)
(*   Tally  lines and moves so far, as sets worked out from `start`;       *)
(*   Order  which policies stand before which, while pairs are reordered.  *)
(*                                                                         *)
(* Positions are handled as places: an element of a finite ordered set is  *)
(* numbered by the elements below it.                                      *)
(***************************************************************************)
EXTENDS PolicyOrder, SequenceTheorems, FiniteSetTheorems, TLAPS

-----------------------------------------------------------------------------
(* Enumerating a finite set in an order *)

\* A strict total order on a set, as pairs.
Orders(R, S) ==
  /\ \A x \in S : <<x, x>> \notin R
  /\ \A x, y, z \in S : <<x, y>> \in R /\ <<y, z>> \in R => <<x, z>> \in R
  /\ \A x, y \in S : x # y => <<x, y>> \in R \/ <<y, x>> \in R

Lower(R, S, x) == {y \in S : <<y, x>> \in R}

\* An element's place is one more than the number of those before it.
Place(R, S, x) == Cardinality(Lower(R, S, x)) + 1

\* The places of a finite set are the numbers up to its size, in order.
LEMMA Places ==
  ASSUME NEW S, IsFiniteSet(S), NEW R, Orders(R, S)
  PROVE  /\ Cardinality(S) \in Nat
         /\ \A x \in S : Place(R, S, x) \in 1..Cardinality(S)
         /\ \A x, y \in S : <<x, y>> \in R => Place(R, S, x) < Place(R, S, y)
         /\ \A x, y \in S : Place(R, S, x) = Place(R, S, y) => x = y
         /\ \A n \in 1..Cardinality(S) : \E x \in S : Place(R, S, x) = n
<1>1. Cardinality(S) \in Nat
  BY FS_CardinalityType
<1>2. ASSUME NEW x \in S
      PROVE  IsFiniteSet(Lower(R, S, x)) /\ Cardinality(Lower(R, S, x)) \in Nat
  <2>1. Lower(R, S, x) \in SUBSET S
    BY DEF Lower
  <2> QED BY <2>1, FS_Subset, FS_CardinalityType
<1>3. ASSUME NEW x \in S
      PROVE  Place(R, S, x) \in 1..Cardinality(S)
  <2>1. Lower(R, S, x) \in SUBSET (S \ {x})
    BY DEF Lower, Orders
  <2>2. IsFiniteSet(S \ {x}) /\ Cardinality(S \ {x}) = Cardinality(S) - 1
    BY FS_RemoveElement
  <2>3. Cardinality(Lower(R, S, x)) <= Cardinality(S) - 1
    BY <2>1, <2>2, FS_Subset
  <2> QED BY <1>1, <1>2, <2>3 DEF Place
<1>4. ASSUME NEW x \in S, NEW y \in S, <<x, y>> \in R
      PROVE  Place(R, S, x) < Place(R, S, y)
  <2>1. Lower(R, S, x) \in SUBSET Lower(R, S, y) /\ x \in Lower(R, S, y) /\ x \notin Lower(R, S, x)
    BY <1>4 DEF Lower, Orders
  <2>2. /\ Cardinality(Lower(R, S, x)) <= Cardinality(Lower(R, S, y))
        /\ Cardinality(Lower(R, S, y)) # Cardinality(Lower(R, S, x))
    BY <1>2, <2>1, FS_Subset
  <2> QED BY <1>2, <2>2 DEF Place
<1>5. ASSUME NEW x \in S, NEW y \in S, Place(R, S, x) = Place(R, S, y)
      PROVE  x = y
  <2>1. Place(R, S, x) \in Int
    BY <1>3
  <2>2. ~(<<x, y>> \in R) /\ ~(<<y, x>> \in R)
    BY <1>4, <1>5, <2>1
  <2> QED BY <2>2 DEF Orders
<1>6. ASSUME NEW n \in 1..Cardinality(S)
      PROVE  \E x \in S : Place(R, S, x) = n
  <2> DEFINE f == [x \in S |-> Place(R, S, x)]
  <2>1. f \in Injection(S, 1..Cardinality(S))
    BY <1>3, <1>5 DEF Injection, IsInjective
  <2>2. IsFiniteSet(1..Cardinality(S)) /\ Cardinality(1..Cardinality(S)) = Cardinality(S)
    BY <1>1, FS_Interval
  <2>3. f \in Surjection(S, 1..Cardinality(S))
    BY <2>1, <2>2, FS_Injection
  <2> QED BY <2>3 DEF Surjection
<1> QED BY <1>1, <1>3, <1>4, <1>5, <1>6

\* The order of positions.
Less(S) == {p \in S \X S : p[1] < p[2]}

Below(S, x) == {y \in S : y < x}

LEMMA LessOrders ==
  ASSUME NEW S \in SUBSET Int
  PROVE  /\ Orders(Less(S), S)
         /\ \A x \in S : Lower(Less(S), S, x) = Below(S, x)
         /\ \A x, y \in S : <<x, y>> \in Less(S) <=> x < y
<1>1. \A x, y \in S : <<x, y>> \in Less(S) <=> x < y
  BY DEF Less
<1>2. \A x \in S : x \in Int
  OBVIOUS
<1>3. Orders(Less(S), S)
  <2>1. \A x, y, z \in S : x < y /\ y < z => x < z
    BY <1>2
  <2>2. \A x, y \in S : ~(x < x) /\ (x # y => x < y \/ y < x)
    BY <1>2
  <2> QED BY <1>1, <2>1, <2>2 DEF Orders
<1>4. \A x \in S : Lower(Less(S), S, x) = Below(S, x)
  BY <1>1 DEF Lower, Below
<1> QED BY <1>1, <1>3, <1>4

\* Nth enumerates positions in order.
LEMMA NthFacts ==
  ASSUME NEW S \in SUBSET Int, IsFiniteSet(S)
  PROVE  /\ Cardinality(S) \in Nat
         /\ \A n \in 1..Cardinality(S) : Nth(S, n) \in S
         /\ \A m, n \in 1..Cardinality(S) : m < n => Nth(S, m) < Nth(S, n)
         /\ \A x \in S : /\ Cardinality(Below(S, x)) + 1 \in 1..Cardinality(S)
                         /\ Nth(S, Cardinality(Below(S, x)) + 1) = x
<1>0. PICK R : R = Less(S)
  OBVIOUS
<1>1. \A x, y \in S : <<x, y>> \in R <=> x < y
  BY <1>0, LessOrders
<1>2. Orders(R, S)
  BY <1>0, LessOrders
<1>3. \A x \in S : Place(R, S, x) = Cardinality(Below(S, x)) + 1
  BY <1>0, LessOrders DEF Place
<1>4. /\ Cardinality(S) \in Nat
      /\ \A x \in S : Place(R, S, x) \in 1..Cardinality(S)
      /\ \A x, y \in S : <<x, y>> \in R => Place(R, S, x) < Place(R, S, y)
      /\ \A x, y \in S : Place(R, S, x) = Place(R, S, y) => x = y
      /\ \A n \in 1..Cardinality(S) : \E x \in S : Place(R, S, x) = n
  BY <1>2, Places
<1>5. \A x \in S : Cardinality(Below(S, x)) \in Int
  <2> SUFFICES ASSUME NEW x \in S PROVE Cardinality(Below(S, x)) \in Int
    OBVIOUS
  <2>1. Below(S, x) \in SUBSET S
    BY DEF Below
  <2> QED BY <2>1, FS_Subset, FS_CardinalityType
<1>6. ASSUME NEW n \in 1..Cardinality(S)
      PROVE  Nth(S, n) \in S /\ Place(R, S, Nth(S, n)) = n
  <2>0. n \in Int
    BY <1>4
  <2>1. PICK x \in S : Place(R, S, x) = n
    BY <1>4
  <2>2. Cardinality(Below(S, x)) = n - 1
    BY <1>3, <1>5, <2>1
  <2>3. PICK y : y = Nth(S, n)
    OBVIOUS
  <2>4. y \in S /\ Cardinality(Below(S, y)) = n - 1
    BY <2>2, <2>3 DEF Nth, Below
  <2>5. Place(R, S, y) = n
    BY <1>3, <1>5, <2>0, <2>4
  <2> QED BY <2>3, <2>4, <2>5
<1>7. ASSUME NEW m \in 1..Cardinality(S), NEW n \in 1..Cardinality(S), m < n
      PROVE  Nth(S, m) < Nth(S, n)
  <2>1. PICK x \in S : x = Nth(S, m) /\ Place(R, S, x) = m
    BY <1>6
  <2>2. PICK y \in S : y = Nth(S, n) /\ Place(R, S, y) = n
    BY <1>6
  <2>3. m \in Int /\ n \in Int /\ x \in Int /\ y \in Int
    BY <1>4
  <2>4. x # y
    BY <1>7, <2>1, <2>2, <2>3
  <2>5. ~(y < x)
    <3> SUFFICES ASSUME y < x PROVE FALSE
      OBVIOUS
    <3>1. <<y, x>> \in R
      BY <1>1
    <3>2. Place(R, S, y) < Place(R, S, x)
      BY <1>4, <3>1
    <3> QED BY <1>7, <2>1, <2>2, <2>3, <3>2
  <2> QED BY <2>1, <2>2, <2>3, <2>4, <2>5
<1>8. \A x \in S : Nth(S, Place(R, S, x)) = x
  BY <1>4, <1>6
<1> QED BY <1>3, <1>4, <1>6, <1>7, <1>8

-----------------------------------------------------------------------------
(* Sequences of policies *)

\* Positions are finitely many.
LEMMA PositionsFinite ==
  ASSUME NEW T, NEW s \in Seq(T), NEW P \in SUBSET DOMAIN s
  PROVE  /\ DOMAIN s = 1..Len(s) /\ Len(s) \in Nat /\ P \in SUBSET Int
         /\ IsFiniteSet(P) /\ Cardinality(P) \in Nat
         /\ \A Q \in SUBSET P : IsFiniteSet(Q) /\ Cardinality(Q) \in Nat
                                  /\ Cardinality(Q) <= Cardinality(P)
<1>1. DOMAIN s = 1..Len(s) /\ Len(s) \in Nat
  BY LenProperties
<1>2. IsFiniteSet(1..Len(s))
  BY <1>1, FS_Interval
<1>3. IsFiniteSet(P) /\ P \in SUBSET Int
  BY <1>1, <1>2, FS_Subset
<1> QED BY <1>1, <1>3, FS_Subset, FS_CardinalityType

\* What stands at some of the positions is a sequence of it, in order.
LEMMA AtFacts ==
  ASSUME NEW T, NEW s \in Seq(T), NEW P \in SUBSET DOMAIN s
  PROVE  /\ At(s, P) \in Seq(T) /\ Len(At(s, P)) = Cardinality(P)
         /\ DOMAIN At(s, P) = 1..Cardinality(P) /\ Cardinality(P) \in Nat
         /\ \A n \in DOMAIN At(s, P) : Nth(P, n) \in P /\ At(s, P)[n] = s[Nth(P, n)]
         /\ \A m, n \in DOMAIN At(s, P) : m < n => Nth(P, m) < Nth(P, n)
         /\ \A i \in P : \E n \in DOMAIN At(s, P) : Nth(P, n) = i
         /\ ToSet(At(s, P)) = {s[i] : i \in P}
<1>1. IsFiniteSet(P) /\ P \in SUBSET Int /\ Cardinality(P) \in Nat
  BY PositionsFinite
<1>2. /\ \A n \in 1..Cardinality(P) : Nth(P, n) \in P
      /\ \A m, n \in 1..Cardinality(P) : m < n => Nth(P, m) < Nth(P, n)
      /\ \A x \in P : \E n \in 1..Cardinality(P) : Nth(P, n) = x
  BY <1>1, NthFacts
<1>3. At(s, P) = [n \in 1..Cardinality(P) |-> s[Nth(P, n)]]
  BY DEF At
<1>4. \A n \in 1..Cardinality(P) : s[Nth(P, n)] \in T
  BY <1>2, LenProperties, ElementOfSeq
<1>5. At(s, P) \in Seq(T) /\ Len(At(s, P)) = Cardinality(P)
  BY <1>1, <1>3, <1>4
<1>6. ToSet(At(s, P)) = {s[i] : i \in P}
  BY <1>2, <1>3 DEF ToSet
<1> QED BY <1>1, <1>2, <1>3, <1>5, <1>6

\* No two of a sequence are one object.
Distinct(s) == \A i, j \in DOMAIN s : s[i].uid = s[j].uid => i = j

\* Deleting one leaves the others, in order.
LEMMA DroppedFacts ==
  ASSUME NEW s \in Seq(Policy), Distinct(s), NEW u
  PROVE  LET r == At(s, {i \in DOMAIN s : s[i].uid # u})
         IN  /\ r \in Seq(Policy) /\ Distinct(r)
             /\ ToSet(r) = {p \in ToSet(s) : p.uid # u}
<1> DEFINE P == {i \in DOMAIN s : s[i].uid # u}
           r == At(s, P)
<1>1. P \in SUBSET DOMAIN s
  OBVIOUS
<1>2. \A i \in DOMAIN s : i \in P <=> s[i].uid # u
  OBVIOUS
<1> HIDE DEF P
<1>3. /\ r \in Seq(Policy) /\ DOMAIN r = 1..Cardinality(P) /\ Cardinality(P) \in Nat
      /\ \A n \in DOMAIN r : Nth(P, n) \in P /\ r[n] = s[Nth(P, n)]
      /\ \A m, n \in DOMAIN r : m < n => Nth(P, m) < Nth(P, n)
      /\ ToSet(r) = {s[i] : i \in P}
  BY <1>1, AtFacts
<1> HIDE DEF r
<1>4. Distinct(r)
  <2> SUFFICES ASSUME NEW m \in DOMAIN r, NEW n \in DOMAIN r, r[m].uid = r[n].uid PROVE m = n
    BY DEF Distinct
  <2>1. Nth(P, m) = Nth(P, n)
    BY <1>1, <1>3 DEF Distinct
  <2>2. Nth(P, m) \in Int /\ Nth(P, n) \in Int /\ m \in Int /\ n \in Int
    BY <1>1, <1>3, PositionsFinite
  <2> QED BY <1>3, <2>1, <2>2
<1>5. ToSet(r) = {p \in ToSet(s) : p.uid # u}
  BY <1>1, <1>2, <1>3 DEF ToSet
<1> QED BY <1>3, <1>4, <1>5 DEF r, P

\* The place of a slot among the slots.
LEMMA RankIsPlace ==
  ASSUME NEW S \in SUBSET Int, IsFiniteSet(S), NEW i \in S
  PROVE  Cardinality({j \in S : j <= i}) = Cardinality(Below(S, i)) + 1
<1>0. i \in Int /\ \A j \in S : j \in Int
  OBVIOUS
<1>1. {j \in S : j <= i} = Below(S, i) \cup {i} /\ i \notin Below(S, i) /\ Below(S, i) \in SUBSET S
  <2>1. \A j \in S : j <= i <=> j < i \/ j = i
    BY <1>0
  <2>2. ~(i < i)
    BY <1>0
  <2> QED BY <2>1, <2>2 DEF Below
<1>2. IsFiniteSet(Below(S, i))
  BY <1>1, FS_Subset
<1> QED BY <1>1, <1>2, FS_AddElement

\* What ReorderedFacts needs of the new order of a pair's slots: those named
\* first, then the others, each of the slots once.
Named(s, pair) == {i \in DOMAIN s : s[i].key[1] = pair}
Others(s, pair, uids) == {i \in Named(s, pair) : s[i].uid \notin ToSet(uids)}
Source(s, pair, uids, n) ==
  IF n <= Len(uids) THEN CHOOSE i \in Named(s, pair) : s[i].uid = uids[n]
                    ELSE Nth(Others(s, pair, uids), n - Len(uids))
RankIn(s, pair, i) == Cardinality({j \in Named(s, pair) : j <= i})

LEMMA ReorderedIs ==
  ASSUME NEW s, NEW pair, NEW uids
  PROVE  Reordered(s, pair, uids) =
           [i \in DOMAIN s |-> IF i \in Named(s, pair)
                               THEN s[Source(s, pair, uids, RankIn(s, pair, i))] ELSE s[i]]
BY DEF Reordered, Named, Others, Source, RankIn

\* Policies of the pair, each once, may be named in an ordering call.
Nameable(s, pair, uids) ==
  /\ \A a, b \in DOMAIN uids : uids[a] = uids[b] => a = b
  /\ \A a \in DOMAIN uids : \E i \in Named(s, pair) : s[i].uid = uids[a]

LEMMA SourceFacts ==
  ASSUME NEW s \in Seq(Policy), Distinct(s), NEW pair, NEW uids \in Seq(Uids),
         Nameable(s, pair, uids)
  PROVE  LET N == Cardinality(Named(s, pair))
         IN  /\ N \in Nat /\ Len(uids) \in 0..N
             /\ \A n \in 1..N : Source(s, pair, uids, n) \in Named(s, pair)
             /\ \A n \in 1..Len(uids) : s[Source(s, pair, uids, n)].uid = uids[n]
             /\ \A m, n \in 1..N : Source(s, pair, uids, m) = Source(s, pair, uids, n) => m = n
             /\ \A i \in Named(s, pair) : \E n \in 1..N : Source(s, pair, uids, n) = i
<1> DEFINE S == Named(s, pair)
           O == Others(s, pair, uids)
           N == Cardinality(S)
           L == Len(uids)
<1>1. S \in SUBSET DOMAIN s /\ O \in SUBSET S /\ DOMAIN uids = 1..L /\ L \in Nat
  BY LenProperties DEF Named, Others
<1>2. /\ IsFiniteSet(S) /\ N \in Nat /\ S \in SUBSET Int
      /\ IsFiniteSet(O) /\ Cardinality(O) \in Nat /\ O \in SUBSET Int
  BY <1>1, PositionsFinite
<1>3. \A i \in S : i \in O <=> s[i].uid \notin ToSet(uids)
  BY DEF Others
<1>4. \A i, j \in S : s[i].uid = s[j].uid => i = j
  BY <1>1 DEF Distinct
<1> DEFINE Of(a) == CHOOSE i \in S : s[i].uid = uids[a]
<1>5. \A a \in 1..L : Of(a) \in S /\ s[Of(a)].uid = uids[a]
  BY <1>1 DEF Nameable
<1>6. \A a \in 1..L : Source(s, pair, uids, a) = Of(a)
  BY <1>1 DEF Source
<1>7. \A n : n \in 1..N /\ ~(n <= L) => Source(s, pair, uids, n) = Nth(O, n - L)
  BY DEF Source
<1> HIDE DEF S, O, Of
<1>8. N = L + Cardinality(O)
  <2> DEFINE f == [a \in 1..L |-> Of(a)]
  <2>1. \A a \in 1..L : Of(a) \in S \ O
    BY <1>1, <1>3, <1>5 DEF ToSet
  <2>2. \A a, b \in 1..L : Of(a) = Of(b) => a = b
    BY <1>1, <1>5, SMTT(30) DEF Nameable
  <2>3. \A i \in S \ O : \E a \in 1..L : Of(a) = i
    <3> SUFFICES ASSUME NEW i \in S \ O PROVE \E a \in 1..L : Of(a) = i
      OBVIOUS
    <3>1. PICK a \in 1..L : s[i].uid = uids[a]
      BY <1>1, <1>3 DEF ToSet
    <3> QED BY <1>4, <1>5, <3>1
  <2>4. f \in Injection(1..L, S \ O) /\ f \in Surjection(1..L, S \ O)
    BY <2>1, <2>2, <2>3 DEF Injection, IsInjective, Surjection
  <2>5. IsFiniteSet(1..L) /\ Cardinality(1..L) = L
    <3> HIDE DEF L
    <3> QED BY <1>1, FS_Interval
  <2>6. Cardinality(S \ O) = L
    <3> HIDE DEF f
    <3> QED BY <2>4, <2>5, FS_Surjection
  <2>7. S \cap O = O
    BY <1>1
  <2>8. Cardinality(S \ O) = N - Cardinality(O)
    BY <1>2, <2>7, FS_Difference
  <2> QED BY <1>1, <1>2, <2>6, <2>8
<1>9. /\ \A n \in 1..Cardinality(O) : Nth(O, n) \in O
      /\ \A m, n \in 1..Cardinality(O) : m < n => Nth(O, m) < Nth(O, n)
      /\ \A i \in O : \E n \in 1..Cardinality(O) : Nth(O, n) = i
  BY <1>2, NthFacts
<1>10. ASSUME NEW n \in 1..N
       PROVE  \/ n \in 1..L /\ Source(s, pair, uids, n) = Of(n) /\ Of(n) \in S \ O
              \/ /\ n - L \in 1..Cardinality(O) /\ Source(s, pair, uids, n) = Nth(O, n - L)
                 /\ Nth(O, n - L) \in O
  <2>1. CASE n <= L
    BY <1>1, <1>3, <1>5, <1>6, <2>1 DEF ToSet
  <2>2. CASE ~(n <= L)
    BY <1>1, <1>2, <1>7, <1>8, <1>9, <2>2, SMTT(30)
  <2> QED BY <2>1, <2>2
<1>11. ASSUME NEW m \in 1..N, NEW n \in 1..N, Source(s, pair, uids, m) = Source(s, pair, uids, n)
       PROVE  m = n
  <2>1. CASE m \in 1..L /\ Source(s, pair, uids, m) = Of(m) /\ Of(m) \in S \ O
    <3>1. n \in 1..L /\ Source(s, pair, uids, n) = Of(n)
      BY <1>10, <1>11, <2>1
    <3>2. Of(m) = Of(n)
      BY <1>11, <2>1, <3>1
    <3>3. uids[m] = uids[n]
      BY <1>5, <2>1, <3>1, <3>2
    <3> QED BY <1>1, <2>1, <3>1, <3>3 DEF Nameable
  <2>2. CASE m - L \in 1..Cardinality(O) /\ Source(s, pair, uids, m) = Nth(O, m - L)
             /\ Nth(O, m - L) \in O
    <3>1. n - L \in 1..Cardinality(O) /\ Source(s, pair, uids, n) = Nth(O, n - L)
      BY <1>10, <1>11, <2>2
    <3>2. Nth(O, m - L) = Nth(O, n - L) /\ Nth(O, m - L) \in Int
      BY <1>2, <1>11, <2>2, <3>1
    <3>3. m - L = n - L
      BY <1>2, <1>9, <2>2, <3>1, <3>2
    <3> QED BY <1>1, <1>2, <3>3
  <2> QED BY <1>10, <2>1, <2>2
<1>12. ASSUME NEW i \in S PROVE \E n \in 1..N : Source(s, pair, uids, n) = i
  <2>1. CASE i \in O
    <3>1. PICK n \in 1..Cardinality(O) : Nth(O, n) = i
      BY <1>9, <2>1
    <3>2. n + L \in 1..N /\ ~(n + L <= L) /\ (n + L) - L = n
      BY <1>1, <1>2, <1>8
    <3> QED BY <1>7, <3>1, <3>2
  <2>2. CASE i \notin O
    <3>1. PICK a \in 1..L : s[i].uid = uids[a]
      BY <1>1, <1>3, <2>2 DEF ToSet
    <3>2. a \in 1..N
      BY <1>1, <1>2, <1>8
    <3> QED BY <1>4, <1>5, <1>6, <3>1, <3>2
  <2> QED BY <2>1, <2>2
<1>13. L \in 0..N
  BY <1>1, <1>2, <1>8
<1>14. \A n \in 1..N : Source(s, pair, uids, n) \in S
  BY <1>1, <1>10
<1>15. \A n \in 1..L : s[Source(s, pair, uids, n)].uid = uids[n]
  BY <1>5, <1>6
<1> QED BY <1>2, <1>11, <1>12, <1>13, <1>14, <1>15 DEF S

\* An ordering call moves the pair's policies among their places, the named
\* ones in the order named, and no others.
LEMMA ReorderedFacts ==
  ASSUME NEW s \in Seq(Policy), Distinct(s), NEW pair, NEW uids \in Seq(Uids),
         Nameable(s, pair, uids)
  PROVE  LET r == Reordered(s, pair, uids)
         IN  /\ r \in Seq(Policy) /\ DOMAIN r = DOMAIN s /\ Distinct(r) /\ ToSet(r) = ToSet(s)
             /\ \A i \in DOMAIN s : IF i \in Named(s, pair) THEN r[i].key[1] = pair ELSE r[i] = s[i]
             /\ \A a, b \in DOMAIN uids : a < b =>
                  \A i, j \in DOMAIN r : r[i].uid = uids[a] /\ r[j].uid = uids[b] => i < j
<1> DEFINE S == Named(s, pair)
           N == Cardinality(S)
           L == Len(uids)
           F(n) == Source(s, pair, uids, n)
           k(i) == RankIn(s, pair, i)
           r == Reordered(s, pair, uids)
<1>1. S \in SUBSET DOMAIN s /\ DOMAIN uids = 1..L /\ L \in Nat /\ DOMAIN s = 1..Len(s) /\ Len(s) \in Nat
  BY LenProperties DEF Named
<1>2. IsFiniteSet(S) /\ N \in Nat /\ S \in SUBSET Int
  BY <1>1, PositionsFinite
<1>3. /\ L \in 0..N
      /\ \A n \in 1..N : F(n) \in S
      /\ \A n \in 1..L : s[F(n)].uid = uids[n]
      /\ \A m, n \in 1..N : F(m) = F(n) => m = n
      /\ \A i \in S : \E n \in 1..N : F(n) = i
  BY SourceFacts
<1>4. \A i \in S : s[i].key[1] = pair
  BY DEF Named
<1>5. /\ DOMAIN r = DOMAIN s
      /\ \A i \in DOMAIN s : r[i] = IF i \in S THEN s[F(k(i))] ELSE s[i]
  BY ReorderedIs
<1>6. \A i \in S : k(i) = Cardinality(Below(S, i)) + 1
  BY <1>2, RankIsPlace DEF RankIn
<1>7. /\ \A i \in S : k(i) \in 1..N /\ Nth(S, k(i)) = i
      /\ \A n \in 1..N : Nth(S, n) \in S
      /\ \A m, n \in 1..N : m < n => Nth(S, m) < Nth(S, n)
  BY <1>2, <1>6, NthFacts
<1>8. r = [i \in 1..Len(s) |-> IF i \in S THEN s[F(k(i))] ELSE s[i]]
  BY <1>1, ReorderedIs
<1> HIDE DEF S, F, k, r
<1>9. ASSUME NEW n \in 1..N PROVE k(Nth(S, n)) = n
  <2>1. PICK x \in S : x = Nth(S, n)
    BY <1>7
  <2>2. k(x) \in 1..N /\ Nth(S, k(x)) = x
    BY <1>7
  <2>3. ~(k(x) < n) /\ ~(n < k(x))
    BY <1>2, <1>7, <2>1, <2>2
  <2>4. k(x) \in Int /\ n \in Int
    BY <1>2, <2>2
  <2> QED BY <2>1, <2>3, <2>4
<1>10. \A i \in DOMAIN s : s[i] \in Policy
  BY <1>1, ElementOfSeq
<1>11. \A i \in DOMAIN s : r[i] \in Policy
  BY <1>1, <1>3, <1>5, <1>7, <1>10
<1>12. r \in Seq(Policy)
  BY <1>1, <1>5, <1>8, <1>11
<1>13. \A i \in S : F(k(i)) \in S /\ F(k(i)) \in DOMAIN s
  BY <1>1, <1>3, <1>7
<1>14. Distinct(r)
  <2> SUFFICES ASSUME NEW i \in DOMAIN s, NEW j \in DOMAIN s, r[i].uid = r[j].uid PROVE i = j
    BY <1>5 DEF Distinct
  <2>1. CASE i \in S /\ j \in S
    <3>1. F(k(i)) = F(k(j))
      BY <1>5, <1>13, <2>1 DEF Distinct
    <3>2. k(i) = k(j)
      BY <1>3, <1>7, <2>1, <3>1
    <3> QED BY <1>7, <2>1, <3>2
  <2>2. CASE ~(i \in S /\ j \in S)
    BY <1>5, <1>13, <2>2 DEF Distinct
  <2> QED BY <2>1, <2>2
<1>15. ToSet(r) = ToSet(s)
  <2>1. ASSUME NEW i \in DOMAIN s PROVE r[i] \in ToSet(s)
    BY <1>5, <1>13 DEF ToSet
  <2>2. ASSUME NEW i \in DOMAIN s PROVE s[i] \in ToSet(r)
    <3>1. CASE i \in S
      <4>1. PICK n \in 1..N : F(n) = i
        BY <1>3, <3>1
      <4>2. Nth(S, n) \in S /\ Nth(S, n) \in DOMAIN s
        BY <1>1, <1>7
      <4>3. r[Nth(S, n)] = s[i]
        BY <1>5, <1>9, <4>1, <4>2
      <4> QED BY <1>5, <4>2, <4>3 DEF ToSet
    <3>2. CASE i \notin S
      BY <1>5, <3>2 DEF ToSet
    <3> QED BY <3>1, <3>2
  <2> QED BY <1>5, <2>1, <2>2 DEF ToSet
<1>16. ASSUME NEW i \in DOMAIN s
       PROVE  IF i \in S THEN r[i].key[1] = pair ELSE r[i] = s[i]
  BY <1>4, <1>5, <1>13
<1>17. ASSUME NEW a \in 1..L, NEW b \in 1..L, a < b, NEW i \in DOMAIN s, NEW j \in DOMAIN s,
              r[i].uid = uids[a], r[j].uid = uids[b]
       PROVE  i < j
  <2>1. ASSUME NEW c \in 1..L, NEW x \in DOMAIN s, r[x].uid = uids[c]
        PROVE  x = Nth(S, c) /\ c \in 1..N
    <3>1. c \in 1..N
      BY <1>1, <1>2, <1>3
    <3>2. Nth(S, c) \in S /\ Nth(S, c) \in DOMAIN s
      BY <1>1, <1>7, <3>1
    <3>3. r[Nth(S, c)] = s[F(c)]
      BY <1>5, <1>9, <3>1, <3>2
    <3>4. r[Nth(S, c)].uid = uids[c]
      BY <1>3, <3>3
    <3> QED BY <1>5, <1>14, <2>1, <3>1, <3>2, <3>4 DEF Distinct
  <2> QED BY <1>7, <1>17, <2>1
<1> QED BY <1>1, <1>5, <1>12, <1>14, <1>15, <1>16, <1>17 DEF S, r
-----------------------------------------------------------------------------
(* What a run finds, as functions of a list s and a document d             *)

Like(s, k)   == {p \in ToSet(s) : p.key = k}
Clash(s, k)  == Cardinality(Like(s, k)) > 1
Holder(s, k) == CHOOSE p \in Like(s, k) : TRUE

Listed(d)       == {d.entries[e].key : e \in DOMAIN d.entries}
ListedPairs(d)  == {d.entries[e].key[1] : e \in DOMAIN d.entries}
Doomed(s, d)    == {p \in ToSet(s) : d.prune /\ ~p.system /\ p.key \notin Listed(d)}
Unique(d)       == \A e, f \in DOMAIN d.entries : d.entries[e].key = d.entries[f].key => e = f

\* The keys of the first entries, n not included.
Upto(d, n) == {d.entries[e].key : e \in {f \in DOMAIN d.entries : f < n}}

Faulty(s, e) ==
  \/ Clash(s, e.key)
  \/ Like(s, e.key) = {} /\ e.conf \in NotCreatable
  \/ /\ Like(s, e.key) # {}
     /\ LET p == Holder(s, e.key)
        IN  \/ p.conf \in Opaque
            \/ p.conf # e.conf /\ ((p.system /\ p.fixed) \/ ~p.hasId)

-----------------------------------------------------------------------------
(* The course of a run *)

Begun == pc \in {"entries", "prune", "order"}

\* Nothing is written before the lists of the writing pass are read, so both
\* passes read what was there at the start, and each goes through the entries,
\* what is to go, and the pairs.
Course ==
  /\ pass = "plan" \/ pc = "list" => policies = start
  /\ Begun => existing = start /\ Unique(doc)
  /\ ~Begun => next = 1 /\ made = <<>> /\ victims = {} /\ pairs = {}
  /\ pc = "list" => lines = {} /\ moved = 0
  /\ Begun => next \in 1..(Len(doc.entries) + 1)
  /\ pc \in {"prune", "order"} => next = Len(doc.entries) + 1
  /\ pc # "prune" => victims = {}
  /\ victims \subseteq Doomed(start, doc)
  /\ pc # "order" => pairs = {}
  /\ pairs \subseteq ListedPairs(doc)
  /\ Begun => DOMAIN made = {k \in Upto(doc, next) : Like(start, k) = {}}
  /\ Begun => \A k \in Upto(doc, next) : ~Clash(start, k)

\* A pass in which policies is what the run has made of it: one that writes, or
\* one that has found nothing to write.
Faithful == Begun /\ (pass = "write" \/ lines = {})

\* What was to go and is gone.
Deleted == IF pc \in {"prune", "order"} THEN Doomed(start, doc) \ victims ELSE {}

Same(p, q) ==
  /\ p.uid = q.uid /\ p.key = q.key
  /\ p.system = q.system /\ p.fixed = q.fixed /\ p.hasId = q.hasId

\* A policy on the console is one from the start, changed at most by an entry
\* of its own, or one this run has made.
Kept(p)  == \E q \in ToSet(start) : Same(p, q) /\ (p.conf = q.conf \/ p.key \in Upto(doc, next))
Fresh(p) == /\ p.key \in DOMAIN made /\ made[p.key] = p.uid
            /\ p.hasId /\ ~p.system

Live ==
  /\ \A p \in ToSet(policies) : Kept(p) \/ Fresh(p)
  /\ \A k \in DOMAIN made : /\ \A q \in ToSet(start) : q.uid # made[k]
                            /\ \E p \in ToSet(policies) : p.uid = made[k] /\ p.key = k
  /\ \A q \in ToSet(start) : Holds(policies, q.uid) <=> q \notin Deleted
  /\ \A e \in DOMAIN doc.entries : e < next =>
       \E p \in ToSet(policies) : p.key = doc.entries[e].key /\ p.conf = doc.entries[e].conf

Inv == TypeOK /\ Distinct(start) /\ Course /\ (Faithful => Live)

-----------------------------------------------------------------------------
(* Order within a pair *)

Precedes(d, e, f) ==
  LET oe == d.entries[e].order
      of == d.entries[f].order
  IN  IF oe = NoOrder \/ of = NoOrder
      THEN IF oe = of THEN e < f ELSE of = NoOrder
      ELSE oe < of \/ (oe = of /\ e < f)

Movers(s, d, pair) ==
  {e \in DOMAIN d.entries : /\ d.entries[e].key[1] = pair
                            /\ ~\E p \in Like(s, d.entries[e].key) : p.system}
MoverKeys(s, d, pair) == {d.entries[e].key : e \in Movers(s, d, pair)}

Want(s, d, pair) ==
  LET es == Movers(s, d, pair)
      Pick(n) == CHOOSE e \in es : Cardinality({f \in es : Precedes(d, f, e)}) = n - 1
  IN  [n \in 1..Cardinality(es) |-> d.entries[Pick(n)].key]

Now(s, d, pair) == KeysOf(At(s, {i \in DOMAIN s : s[i].key \in MoverKeys(s, d, pair)}))

Sorts(s, d, pair) ==
  /\ \E e \in Movers(s, d, pair) : d.entries[e].order # NoOrder
  /\ Cardinality(Movers(s, d, pair)) >= 2

Fits(s, d, pair) == ~Sorts(s, d, pair) \/ Now(s, d, pair) = Want(s, d, pair)
Mute(s, d, pair) == \E p \in ToSet(s) : ~p.hasId /\ p.key \in MoverKeys(s, d, pair)

-----------------------------------------------------------------------------
(* What the planning pass has checked, it has checked for the writing pass *)

Writing == pass = "write" /\ Running

Vetted ==
  /\ Writing => Unique(doc)
  /\ \A e \in DOMAIN doc.entries : Writing \/ (Begun /\ e < next) => ~Faulty(start, doc.entries[e])
  /\ \A p \in Doomed(start, doc) : Writing \/ p \in Deleted => ~Clash(start, p.key) /\ p.hasId
  /\ \A pair \in ListedPairs(doc) : Writing \/ (pc = "order" /\ pair \notin pairs) =>
       Fits(start, doc, pair) \/ ~Mute(start, doc, pair)

-----------------------------------------------------------------------------
(* What a pass has logged *)

Created(s, d, n) == {k \in Upto(d, n) : Like(s, k) = {}}
Changed(s, d, n) ==
  {d.entries[e].key : e \in {f \in DOMAIN d.entries :
      /\ f < n /\ Like(s, d.entries[f].key) # {}
      /\ Holder(s, d.entries[f].key).conf # d.entries[f].conf}}

LinesOf(s, d, n, gone, done) ==
  ({"CREATE"} \X Created(s, d, n)) \cup ({"UPDATE"} \X Changed(s, d, n))
    \cup ({"DELETE"} \X {p.key : p \in gone})
    \cup ({"ORDER"} \X {pair \in done : ~Fits(s, d, pair)})

Shifted(s, d, pair) ==
  LET current == Now(s, d, pair)
      want    == Want(s, d, pair)
      kept    == At(want, {i \in DOMAIN want : want[i] \in ToSet(current)})
  IN  {i \in DOMAIN current : current[i] # kept[i]}

MovesOf(s, d, done) ==
  {m \in done \X (1..Len(s)) : ~Fits(s, d, m[1]) /\ m[2] \in Shifted(s, d, m[1])}

AllLines(s, d) == LinesOf(s, d, Len(d.entries) + 1, Doomed(s, d), ListedPairs(d))
AllMoves(s, d) == MovesOf(s, d, ListedPairs(d))

\* The pairs the pass is through with.
Passed == IF pc = "order" THEN ListedPairs(doc) \ pairs ELSE {}

Tally ==
  /\ Begun => /\ lines = LinesOf(start, doc, next, Deleted, Passed)
              /\ moved = Cardinality(MovesOf(start, doc, Passed))
  /\ pass = "write" =>
       /\ planned.lines = AllLines(start, doc) /\ planned.moved = Cardinality(AllMoves(start, doc))
       /\ lines \subseteq planned.lines /\ moved <= planned.moved
       /\ pc = "applied" => lines = planned.lines /\ moved = planned.moved

-----------------------------------------------------------------------------
(* The order on the console *)

Ahead(s, u, v) == \E i, j \in DOMAIN s : i < j /\ s[i].uid = u /\ s[j].uid = v

UidOf(k) == IF k \in DOMAIN made THEN made[k] ELSE Holder(start, k).uid

Moved == {pair \in Passed : ~Fits(start, doc, pair)}

Arranged ==
  /\ \A p, q \in ToSet(start) :
       /\ p.key[1] = q.key[1] /\ p.key[1] \notin Moved
       /\ Holds(policies, p.uid) /\ Holds(policies, q.uid)
       /\ Ahead(start, p.uid, q.uid)
       => Ahead(policies, p.uid, q.uid)
  /\ \A pair \in Moved : \A m, n \in DOMAIN Want(start, doc, pair) : m < n =>
       Ahead(policies, UidOf(Want(start, doc, pair)[m]), UidOf(Want(start, doc, pair)[n]))

Order == Faithful => Arranged

-----------------------------------------------------------------------------
(* What the code reads is what there was at the start *)

LEMMA Mirror ==
  ASSUME existing = start
  PROVE  /\ \A k : Matching(k) = Like(start, k) /\ (Ambiguous(k) <=> Clash(start, k))
                     /\ Got(k) = Holder(start, k)
         /\ \A e : EntryFault(e) <=> Faulty(start, e)
<1>1. \A k : Matching(k) = Like(start, k)
  BY DEF Matching, Like
<1>2. \A k : (Ambiguous(k) <=> Clash(start, k)) /\ Got(k) = Holder(start, k)
  BY <1>1 DEF Ambiguous, Clash, Got, Holder
<1>3. \A e : EntryFault(e) <=> Faulty(start, e)
  BY <1>1, <1>2 DEF EntryFault, Faulty
<1> QED BY <1>1, <1>2, <1>3

LEMMA DocMirror == (Duplicates <=> ~Unique(doc)) /\ \A k : Declares(k) <=> k \in Listed(doc)
BY DEF Duplicates, Unique, Declares, Listed, Entries

LEMMA DocFacts ==
  ASSUME NEW d \in Documents
  PROVE  /\ d.prune \in BOOLEAN /\ d.entries \in Seq(Entry)
         /\ DOMAIN d.entries = 1..Len(d.entries) /\ Len(d.entries) \in Nat
         /\ \A e \in DOMAIN d.entries :
              /\ d.entries[e] \in Entry /\ d.entries[e].key \in Keys /\ d.entries[e].conf \in Confs
              /\ d.entries[e].key[1] \in Pairs /\ d.entries[e].order \in {NoOrder} \cup Nat
<1>1. d.prune \in BOOLEAN /\ d.entries \in Seq(Entry)
  BY InputAssumption
<1>2. DOMAIN d.entries = 1..Len(d.entries) /\ Len(d.entries) \in Nat
  BY <1>1, LenProperties
<1>3. \A e \in DOMAIN d.entries : d.entries[e] \in Entry
  BY <1>1, <1>2, ElementOfSeq
<1> QED BY <1>1, <1>2, <1>3 DEF Entry, Keys

\* The holder of an identity, if there is one.
LEMMA HolderFacts ==
  ASSUME NEW s \in Seq(Policy), NEW k
  PROVE  /\ ToSet(s) \subseteq Policy /\ Like(s, k) \subseteq ToSet(s)
         /\ Like(s, k) # {} => Holder(s, k) \in Like(s, k) /\ Holder(s, k).key = k
         /\ ~Clash(s, k) => \A p, q \in Like(s, k) : p = q
<1>1. ToSet(s) \subseteq Policy
  BY LenProperties, ElementOfSeq DEF ToSet
<1>2. Like(s, k) # {} => Holder(s, k) \in Like(s, k) /\ Holder(s, k).key = k
  BY DEF Holder, Like
<1>3. ASSUME ~Clash(s, k), NEW p \in Like(s, k), NEW q \in Like(s, k), p # q PROVE FALSE
  <2>1. IsFiniteSet(ToSet(s))
    <3> DEFINE f == [i \in 1..Len(s) |-> s[i]]
    <3>1. f \in Surjection(1..Len(s), ToSet(s))
      BY LenProperties DEF Surjection, ToSet
    <3>2. IsFiniteSet(1..Len(s))
      BY LenProperties, FS_Interval
    <3> HIDE DEF f
    <3> QED BY <3>1, <3>2, FS_Surjection
  <2>2. Like(s, k) \in SUBSET ToSet(s)
    BY DEF Like
  <2>3. IsFiniteSet(Like(s, k)) /\ Cardinality(Like(s, k)) \in Nat
    BY <2>1, <2>2, FS_Subset, FS_CardinalityType
  <2>4. IsFiniteSet({p}) /\ Cardinality({p}) = 1
    BY FS_Singleton
  <2>5. IsFiniteSet({p} \cup {q}) /\ Cardinality({p} \cup {q}) = 2
    <3>1. PICK one : one = {p}
      OBVIOUS
    <3>2. IsFiniteSet(one) /\ Cardinality(one) = 1 /\ q \notin one
      BY <1>3, <2>4, <3>1
    <3>3. IsFiniteSet(one \cup {q}) /\ Cardinality(one \cup {q}) = 2
      BY <3>2, FS_AddElement
    <3> QED BY <3>1, <3>3
  <2>6. Cardinality({p} \cup {q}) <= Cardinality(Like(s, k))
    <3>1. {p} \cup {q} \in SUBSET Like(s, k)
      OBVIOUS
    <3> QED BY <2>3, <3>1, FS_Subset
  <2>7. PICK n : n = Cardinality(Like(s, k))
    OBVIOUS
  <2>8. n \in Nat /\ 2 <= n
    BY <2>3, <2>5, <2>6, <2>7
  <2>9. ~(n > 1)
    BY <1>3, <2>7 DEF Clash
  <2> QED BY <2>8, <2>9
<1> QED BY <1>1, <1>2, <1>3 DEF Like

\* One object, one policy.
LEMMA OneObject ==
  ASSUME NEW s, Distinct(s), NEW p \in ToSet(s), NEW q \in ToSet(s), p.uid = q.uid
  PROVE  p = q
BY DEF Distinct, ToSet

-----------------------------------------------------------------------------
(* What the console does to its list *)

LEMMA UpdatedFacts ==
  ASSUME NEW s \in Seq(Policy), Distinct(s), NEW u, NEW conf \in Confs
  PROVE  LET r == Update(s, u, conf)
         IN  /\ r \in Seq(Policy) /\ Distinct(r) /\ DOMAIN r = DOMAIN s
             /\ \A i \in DOMAIN s : /\ Same(r[i], s[i])
                                    /\ r[i].conf = IF s[i].uid = u THEN conf ELSE s[i].conf
                                    /\ s[i].uid # u => r[i] = s[i]
<1> DEFINE r == Update(s, u, conf)
<1>1. DOMAIN s = 1..Len(s) /\ Len(s) \in Nat /\ \A i \in DOMAIN s : s[i] \in Policy
  BY LenProperties, ElementOfSeq
<1>2. /\ r = [i \in 1..Len(s) |-> IF s[i].uid = u THEN [s[i] EXCEPT !.conf = conf] ELSE s[i]]
      /\ DOMAIN r = DOMAIN s
  BY <1>1 DEF Update
<1>3. \A i \in DOMAIN s : r[i] = IF s[i].uid = u THEN [s[i] EXCEPT !.conf = conf] ELSE s[i]
  BY DEF Update
<1> HIDE DEF r
<1>4. ASSUME NEW i \in DOMAIN s
      PROVE  /\ r[i] \in Policy /\ Same(r[i], s[i])
             /\ r[i].conf = IF s[i].uid = u THEN conf ELSE s[i].conf
             /\ s[i].uid # u => r[i] = s[i]
  <2>1. s[i] \in Policy
    BY <1>1
  <2> QED BY <1>3, <2>1 DEF Policy, Same
<1>5. r \in Seq(Policy)
  BY <1>1, <1>2, <1>4
<1>6. Distinct(r)
  BY <1>2, <1>4 DEF Distinct, Same
<1> QED BY <1>2, <1>4, <1>5, <1>6 DEF r

\* A new policy anywhere leaves the others, in order.
LEMMA AddedFacts ==
  ASSUME NEW s \in Seq(Policy), Distinct(s), NEW p \in Policy, p.uid \in Unused(s),
         NEW place \in 1..(Len(s) + 1)
  PROVE  LET r == InsertAt(s, place, p)
         IN  /\ r \in Seq(Policy) /\ Distinct(r) /\ ToSet(r) = ToSet(s) \cup {p}
             /\ \A i, j \in DOMAIN s : i < j => Ahead(r, s[i].uid, s[j].uid)
<1> DEFINE r    == InsertAt(s, place, p)
           head == SubSeq(s, 1, place - 1)
           tail == SubSeq(s, place, Len(s))
           To(i) == IF i < place THEN i ELSE i + 1
<1>1. /\ DOMAIN s = 1..Len(s) /\ Len(s) \in Nat /\ place \in Int /\ <<p>> \in Seq(Policy)
      /\ Len(<<p>>) = 1 /\ <<p>>[1] = p
      /\ \A i \in DOMAIN s : s[i].uid # p.uid /\ s[i] \in Policy
  BY LenProperties, ElementOfSeq DEF Unused
<1>2. /\ head \in Seq(Policy) /\ Len(head) = place - 1
      /\ \A i \in 1..(place - 1) : head[i] = s[i]
  <2>1. \A i \in 1..(place - 1) : s[i] \in Policy
    BY <1>1
  <2>2. /\ head \in Seq(Policy) /\ Len(head) = IF 1 <= place - 1 THEN place - 1 - 1 + 1 ELSE 0
        /\ \A i \in 1..(place - 1 - 1 + 1) : head[i] = s[1 + i - 1]
    BY <1>1, <2>1, SubSeqProperties
  <2> HIDE DEF head
  <2> QED BY <1>1, <2>2
<1>3. /\ tail \in Seq(Policy) /\ Len(tail) = Len(s) - place + 1
      /\ \A i \in 1..(Len(s) - place + 1) : tail[i] = s[place + i - 1]
  <2>1. \A i \in place..Len(s) : s[i] \in Policy
    BY <1>1
  <2>2. /\ tail \in Seq(Policy) /\ Len(tail) = IF place <= Len(s) THEN Len(s) - place + 1 ELSE 0
        /\ \A i \in 1..(Len(s) - place + 1) : tail[i] = s[place + i - 1]
    BY <1>1, <2>1, SubSeqProperties
  <2> HIDE DEF tail
  <2> QED BY <1>1, <2>2
<1> HIDE DEF head, tail
<1>4. PICK front : /\ front = head \o <<p>> /\ front \in Seq(Policy) /\ Len(front) = place
                   /\ \A i \in 1..place : front[i] = IF i < place THEN s[i] ELSE p
  <2>1. /\ head \o <<p>> \in Seq(Policy) /\ Len(head \o <<p>>) = Len(head) + Len(<<p>>)
        /\ \A i \in 1..(Len(head) + Len(<<p>>)) :
             (head \o <<p>>)[i] = IF i <= Len(head) THEN head[i] ELSE <<p>>[i - Len(head)]
    BY <1>1, <1>2, ConcatProperties
  <2>2. Len(head) + Len(<<p>>) = place
    BY <1>1, <1>2
  <2>3. ASSUME NEW i \in 1..place PROVE (head \o <<p>>)[i] = IF i < place THEN s[i] ELSE p
    BY <1>1, <1>2, <2>1, <2>2
  <2> QED BY <2>1, <2>2, <2>3
<1>5. /\ r \in Seq(Policy) /\ Len(r) = Len(s) + 1
      /\ \A i \in 1..(Len(s) + 1) :
           r[i] = IF i < place THEN s[i] ELSE IF i = place THEN p ELSE s[i - 1]
  <2>1. r = front \o tail
    BY <1>4 DEF head, tail, InsertAt
  <2>2. front \in Seq(Policy) /\ tail \in Seq(Policy)
    BY <1>3, <1>4, Zenon
  <2>3. Len(front) = place /\ Len(tail) = Len(s) - place + 1
    BY <1>3, <1>4, Zenon
  <2>4. /\ front \o tail \in Seq(Policy) /\ Len(front \o tail) = Len(front) + Len(tail)
        /\ \A i \in 1..(Len(front) + Len(tail)) :
             (front \o tail)[i] = IF i <= Len(front) THEN front[i] ELSE tail[i - Len(front)]
    BY <2>2, ConcatProperties
  <2>5. Len(front) + Len(tail) = Len(s) + 1
    BY <1>1, <2>3
  <2> HIDE DEF r
  <2>6. ASSUME NEW i \in 1..(Len(s) + 1)
        PROVE  r[i] = IF i < place THEN s[i] ELSE IF i = place THEN p ELSE s[i - 1]
    <3>1. CASE i <= place
      BY <1>1, <1>4, <2>1, <2>4, <2>5, <3>1
    <3>2. CASE i > place
      <4>1. i - place \in 1..(Len(s) - place + 1)
        BY <1>1, <3>2
      <4>2. r[i] = tail[i - place] /\ tail[i - place] = s[place + (i - place) - 1]
        BY <1>1, <1>3, <1>4, <2>1, <2>4, <2>5, <3>2, <4>1, SMTT(30)
      <4> QED BY <1>1, <3>2, <4>2
    <3> QED BY <1>1, <3>1, <3>2
  <2> QED BY <2>1, <2>4, <2>5, <2>6
<1> HIDE DEF r
<1>6. DOMAIN r = 1..(Len(s) + 1)
  BY <1>5, LenProperties
<1>7. place \in DOMAIN r /\ r[place] = p
  BY <1>1, <1>5, <1>6
<1>8. \A i \in DOMAIN s : To(i) \in DOMAIN r /\ r[To(i)] = s[i]
  BY <1>1, <1>5, <1>6
<1>9. \A i \in DOMAIN r : i = place \/ \E n \in DOMAIN s : i = To(n)
  <2> SUFFICES ASSUME NEW i \in DOMAIN r, i # place PROVE \E n \in DOMAIN s : i = To(n)
    OBVIOUS
  <2>1. CASE i < place
    BY <1>1, <1>6, <2>1
  <2>2. CASE i > place
    <3>1. i - 1 \in DOMAIN s /\ To(i - 1) = i
      BY <1>1, <1>6, <2>2
    <3> QED BY <3>1
  <2> QED BY <1>1, <1>6, <2>1, <2>2
<1>10. \A i, j \in DOMAIN s : i < j => To(i) < To(j)
  BY <1>1
<1> HIDE DEF To
<1>11. Distinct(r)
  <2> SUFFICES ASSUME NEW i \in DOMAIN r, NEW j \in DOMAIN r, r[i].uid = r[j].uid PROVE i = j
    BY DEF Distinct
  <2>1. CASE i = place \/ j = place
    BY <1>1, <1>7, <1>8, <1>9, <2>1
  <2>2. CASE i # place /\ j # place
    <3>1. PICK m \in DOMAIN s, n \in DOMAIN s : i = To(m) /\ j = To(n)
      BY <1>9, <2>2
    <3>2. m = n
      BY <1>8, <3>1 DEF Distinct
    <3> QED BY <3>1, <3>2
  <2> QED BY <2>1, <2>2
<1>12. ToSet(r) = ToSet(s) \cup {p}
  BY <1>7, <1>8, <1>9 DEF ToSet
<1>13. \A i, j \in DOMAIN s : i < j => Ahead(r, s[i].uid, s[j].uid)
  BY <1>8, <1>10 DEF Ahead
<1> QED BY <1>5, <1>11, <1>12, <1>13 DEF r

-----------------------------------------------------------------------------
(* The types and the course *)

LEMMA InitInv == Init => Inv
<1> SUFFICES ASSUME Init PROVE Inv
  OBVIOUS
<1>1. policies \in Seq(Policy) /\ Distinct(policies) /\ start = policies /\ doc \in Documents
  BY InputAssumption DEF Init, Distinct
<1>2. <<>> \in Seq(Policy) /\ DOMAIN <<>> = {}
  BY EmptySeq
<1>3. TypeOK
  <2>1. planned \in [lines : SUBSET Line, moved : Nat]
    BY DEF Init
  <2>2. faults \in 0..MaxFaults
    BY BoundAssumption DEF Init
  <2>3. existing \in Seq(Policy) /\ DOMAIN made = {}
    BY <1>2 DEF Init
  <2> QED BY <1>1, <2>1, <2>2, <2>3 DEF Init, TypeOK, Endings, Distinct
<1>4. Course /\ ~Faithful
  BY <1>1 DEF Init, Course, Begun, Faithful
<1> QED BY <1>1, <1>3, <1>4 DEF Inv

\* A run that ends forgets what it was about.
LEMMA EndingInv ==
  ASSUME Inv, NEW how \in Endings, End(how), UNCHANGED <<doc, pass, planned, start>>,
         policies' \in Seq(Policy), Distinct(policies)', pass = "plan" => policies' = policies,
         lines' \subseteq Line, moved' \in Nat, faults' \in 0..MaxFaults
  PROVE  Inv'
<1>1. /\ pc' = how /\ existing' = <<>> /\ next' = 1 /\ victims' = {} /\ pairs' = {} /\ made' = <<>>
  BY DEF End, Forget
<1>2. ~Begun' /\ pc' # "list" /\ ~Faithful'
  BY <1>1 DEF Begun, Faithful, Endings
<1>3. <<>> \in Seq(Policy) /\ DOMAIN <<>> = {}
  BY EmptySeq
<1>4. TypeOK'
  <2>1. existing' \in Seq(Policy) /\ DOMAIN made' = {}
    BY <1>1, <1>3
  <2> QED BY <1>1, <2>1 DEF Inv, TypeOK, Distinct
<1>5. Course'
  BY <1>1, <1>2 DEF Inv, Course, Endings
<1>6. Distinct(start)'
  BY DEF Inv
<1> QED BY <1>2, <1>4, <1>5, <1>6 DEF Inv

\* What a request leaves, whatever becomes of it.
LEMMA MutateFacts ==
  ASSUME Inv, NEW after, NEW answer \in Answers, Mutate(after, answer),
         pass = "write" => after \in Seq(Policy) /\ Distinct(after)
  PROVE  /\ policies' \in Seq(Policy) /\ Distinct(policies)' /\ faults' \in 0..MaxFaults
         /\ pass = "plan" => policies' = policies /\ answer = "done"
         /\ pass = "write" /\ answer = "done" => policies' = after
         /\ answer # "done" => faults' > 0
<1>1. policies \in Seq(Policy) /\ Distinct(policies) /\ faults \in 0..MaxFaults /\ MaxFaults \in Nat
      /\ pass \in {"plan", "write"}
  BY BoundAssumption DEF Inv, TypeOK, Distinct
<1>2. CASE pass = "plan"
  BY <1>1, <1>2 DEF Mutate, DryRun
<1>3. CASE pass = "write"
  <2>1. policies' = policies \/ policies' = after
    BY <1>3 DEF Mutate, DryRun
  <2>2. faults' \in 0..MaxFaults /\ (answer # "done" => faults' > 0)
    BY <1>1, <1>3 DEF Mutate, DryRun
  <2>3. Distinct(policies)'
    BY <1>1, <1>3, <2>1
  <2>4. answer = "done" => policies' = after
    BY <1>3 DEF Mutate, DryRun
  <2> QED BY <1>1, <1>3, <2>1, <2>2, <2>3, <2>4
<1> QED BY <1>1, <1>2, <1>3

\* Steps that end a run without a request.
LEMMA QuietEndInv ==
  ASSUME Inv, NEW how \in Endings, End(how),
         UNCHANGED <<policies, doc, pass, lines, moved, planned, start, faults>>
  PROVE  Inv'
BY EndingInv DEF Inv, TypeOK, Distinct

LEMMA KillInv == ASSUME Inv, Kill PROVE Inv'
<1>1. faults' \in 0..MaxFaults
  BY BoundAssumption DEF Kill, Inv, TypeOK
<1> QED BY <1>1, EndingInv DEF Kill, Inv, TypeOK, Distinct, Endings

\* A new run, or the writing pass of one.
LEMMA StartRunInv == ASSUME Inv, StartRun PROVE Inv'
<1>1. /\ pc' = "list" /\ existing' = <<>> /\ next' = 1 /\ victims' = {} /\ pairs' = {} /\ made' = <<>>
      /\ pass' = "plan" /\ lines' = {} /\ moved' = 0 /\ doc' \in Documents
      /\ planned' = [lines |-> {}, moved |-> 0] /\ start' = policies
      /\ UNCHANGED <<policies, faults>>
  BY DEF StartRun, BeginPass, Forget
<1>2. <<>> \in Seq(Policy) /\ DOMAIN <<>> = {}
  BY EmptySeq
<1>3. TypeOK'
  <2>1. existing' \in Seq(Policy) /\ DOMAIN made' = {}
    BY <1>1, <1>2
  <2>2. planned' \in [lines : SUBSET Line, moved : Nat]
    BY <1>1
  <2> QED BY <1>1, <2>1, <2>2 DEF Inv, TypeOK, Distinct
<1>4. Course' /\ ~Faithful'
  BY <1>1 DEF Course, Begun, Faithful
<1>5. Distinct(start)'
  BY <1>1 DEF Inv, TypeOK, Distinct
<1> QED BY <1>3, <1>4, <1>5 DEF Inv

LEMMA FinishPlanInv == ASSUME Inv, FinishPlan PROVE Inv'
<1>1. /\ pass = "plan" /\ pc = "order" /\ planned' = [lines |-> lines, moved |-> moved]
      /\ UNCHANGED <<policies, doc, start, faults>>
      /\ existing' = <<>> /\ next' = 1 /\ victims' = {} /\ pairs' = {} /\ made' = <<>>
      /\ \/ pc' = "clean" /\ UNCHANGED <<pass, lines, moved>>
         \/ pc' = "list" /\ pass' = "write" /\ lines' = {} /\ moved' = 0
  BY DEF FinishPlan, PassDone, End, BeginPass, Forget
<1>2. <<>> \in Seq(Policy) /\ DOMAIN <<>> = {}
  BY EmptySeq
<1>3. TypeOK'
  <2>1. existing' \in Seq(Policy) /\ DOMAIN made' = {}
    BY <1>1, <1>2
  <2>2. planned' \in [lines : SUBSET Line, moved : Nat]
    BY <1>1 DEF Inv, TypeOK
  <2> QED BY <1>1, <2>1, <2>2 DEF Inv, TypeOK, Distinct, Endings
<1>4. policies = start
  BY <1>1 DEF Inv, Course
<1>5. Course' /\ ~Faithful'
  BY <1>1, <1>4 DEF Course, Begun, Faithful
<1>6. Distinct(start)'
  BY <1>1 DEF Inv
<1> QED BY <1>3, <1>5, <1>6 DEF Inv

\* The list is read: nothing has been done yet.
LEMMA ListInv == ASSUME Inv, List PROVE Inv'
<1>1. /\ pc = "list" /\ pc' = "entries" /\ existing' = policies /\ Unique(doc) /\ policies = start
      /\ next = 1 /\ made = <<>> /\ victims = {} /\ pairs = {} /\ lines = {} /\ moved = 0
      /\ UNCHANGED <<policies, doc, pass, next, victims, pairs, made, lines, moved, planned, start, faults>>
  BY DocMirror DEF List, Inv, Course, Begun
<1>2. Upto(doc, next) = {} /\ DOMAIN made = {} /\ DOMAIN doc.entries = 1..Len(doc.entries)
      /\ Len(doc.entries) \in Nat
  <2>1. DOMAIN doc.entries = 1..Len(doc.entries) /\ Len(doc.entries) \in Nat
    BY DocFacts DEF Inv, TypeOK
  <2>2. DOMAIN <<>> = {}
    OBVIOUS
  <2> QED BY <1>1, <2>1, <2>2 DEF Upto
<1>3. TypeOK'
  BY <1>1 DEF Inv, TypeOK, Endings
<1>4. Course'
  BY <1>1, <1>2 DEF Inv, Course, Begun
<1>5. Live'
  <2>1. \A p \in ToSet(policies) : Same(p, p) /\ Holds(policies, p.uid)
    BY DEF Same, Holds, ToSet
  <2>2. Deleted' = {}
    BY <1>1 DEF Deleted
  <2>3. \A e \in DOMAIN doc.entries : ~(e < next)
    BY <1>1, <1>2
  <2>4. \A p \in ToSet(policies)' : Kept(p)'
    BY <1>1, <2>1 DEF Kept
  <2> QED BY <1>1, <1>2, <2>1, <2>2, <2>3, <2>4 DEF Live
<1> QED BY <1>1, <1>3, <1>4, <1>5 DEF Inv

-----------------------------------------------------------------------------
(* The entries *)

\* What is known of the entry at hand.
LEMMA EntryFacts ==
  ASSUME Inv, HasEntry, ~EntryFault(Current)
  PROVE  /\ pc = "entries" /\ existing = start /\ start \in Seq(Policy) /\ Unique(doc)
         /\ DOMAIN doc.entries = 1..Len(doc.entries) /\ Len(doc.entries) \in Nat
         /\ next \in DOMAIN doc.entries /\ next \in Nat /\ next + 1 \in 1..(Len(doc.entries) + 1)
         /\ Current = doc.entries[next] /\ Current.key \in Keys /\ Current.conf \in Confs
         /\ Current.key \in Listed(doc)
         /\ ~Faulty(start, Current) /\ ~Clash(start, Current.key)
         /\ Current.key \notin Upto(doc, next)
         /\ Upto(doc, next + 1) = Upto(doc, next) \cup {Current.key}
         /\ Matching(Current.key) = Like(start, Current.key)
         /\ Got(Current.key) = Holder(start, Current.key)
         /\ Like(start, Current.key) # {} =>
              /\ Holder(start, Current.key) \in ToSet(start)
              /\ Holder(start, Current.key).key = Current.key
              /\ Holder(start, Current.key) \in Policy
         /\ Deleted = {}
<1>1. pc = "entries" /\ existing = start /\ start \in Seq(Policy) /\ Unique(doc) /\ doc \in Documents
      /\ next \in DOMAIN doc.entries
  BY DEF HasEntry, Inv, Course, Begun, TypeOK, Entries
<1>2. /\ DOMAIN doc.entries = 1..Len(doc.entries) /\ Len(doc.entries) \in Nat
      /\ Current = doc.entries[next] /\ Current.key \in Keys /\ Current.conf \in Confs
  BY <1>1, DocFacts DEF Current
<1>3. next \in Nat /\ next + 1 \in 1..(Len(doc.entries) + 1)
  BY <1>1, <1>2
<1>4. Current.key \in Listed(doc)
  BY <1>1, <1>2 DEF Listed
<1>5. ~Faulty(start, Current) /\ ~Clash(start, Current.key)
      /\ Matching(Current.key) = Like(start, Current.key)
      /\ Got(Current.key) = Holder(start, Current.key)
  BY <1>1, Mirror DEF Faulty
<1>6. Current.key \notin Upto(doc, next)
  BY <1>1, <1>2, <1>3, SMTT(30) DEF Upto, Unique
<1>7. Upto(doc, next + 1) = Upto(doc, next) \cup {Current.key}
  <2>1. \A f \in DOMAIN doc.entries : f < next + 1 <=> f < next \/ f = next
    BY <1>2, <1>3
  <2> QED BY <1>1, <1>2, <2>1 DEF Upto
<1>8. Like(start, Current.key) # {} =>
              /\ Holder(start, Current.key) \in ToSet(start)
              /\ Holder(start, Current.key).key = Current.key
              /\ Holder(start, Current.key) \in Policy
  BY <1>1, HolderFacts
<1>9. Deleted = {}
  BY <1>1 DEF Deleted
<1> QED BY <1>1, <1>2, <1>3, <1>4, <1>5, <1>6, <1>7, <1>8, <1>9

\* An undeclared policy is nobody's entry.
LEMMA DoomedUnlisted == \A p \in Doomed(start, doc) : p.key \notin Listed(doc) /\ p \in ToSet(start)
BY DEF Doomed

\* A policy an entry is about is on the console as it was at the start.
LEMMA HeldFacts ==
  ASSUME Inv, Live, HasEntry, ~EntryFault(Current), Like(start, Current.key) # {}
  PROVE  LET g == Holder(start, Current.key)
         IN  /\ \E p \in ToSet(policies) : p.uid = g.uid
             /\ \A p \in ToSet(policies) : p.uid = g.uid => Same(p, g) /\ p.conf = g.conf
             /\ \A p \in ToSet(policies) : p.key = Current.key => p.uid = g.uid
<1> DEFINE g == Holder(start, Current.key)
<1>1. /\ g \in ToSet(start) /\ g.key = Current.key /\ Deleted = {} /\ Current.key \notin Upto(doc, next)
      /\ start \in Seq(Policy) /\ ~Clash(start, Current.key) /\ Distinct(start)
      /\ DOMAIN made = {k \in Upto(doc, next) : Like(start, k) = {}}
  BY EntryFacts DEF Inv, Course, Begun
<1> HIDE DEF g
<1>2. \E p \in ToSet(policies) : p.uid = g.uid
  <2>1. Holds(policies, g.uid)
    BY <1>1 DEF Live
  <2> QED BY <2>1 DEF Holds, ToSet
<1>3. ASSUME NEW p \in ToSet(policies), p.uid = g.uid PROVE Same(p, g) /\ p.conf = g.conf
  <2>1. ~Fresh(p)
    BY <1>1, <1>3 DEF Live, Fresh
  <2>2. PICK q \in ToSet(start) : Same(p, q) /\ (p.conf = q.conf \/ p.key \in Upto(doc, next))
    BY <2>1 DEF Live, Kept
  <2>3. q = g
    BY <1>1, <1>3, <2>2, OneObject DEF Same
  <2> QED BY <1>1, <2>2, <2>3 DEF Same
<1>4. ASSUME NEW p \in ToSet(policies), p.key = Current.key PROVE p.uid = g.uid
  <2>1. ~Fresh(p)
    BY <1>1, <1>4 DEF Fresh
  <2>2. PICK q \in ToSet(start) : Same(p, q)
    BY <2>1 DEF Live, Kept
  <2>3. q \in Like(start, Current.key) /\ g \in Like(start, Current.key)
    BY <1>1, <1>4, <2>2 DEF Like, Same
  <2>4. q = g
    BY <1>1, <2>3, HolderFacts
  <2> QED BY <2>2, <2>4 DEF Same
<1> QED BY <1>2, <1>3, <1>4 DEF g

LEMMA FailEntryInv == ASSUME Inv, FailEntry PROVE Inv'
BY QuietEndInv DEF FailEntry, Endings

\* The entry is as declared.
LEMMA EntryOKInv == ASSUME Inv, EntryOK PROVE Inv'
<1> DEFINE k == Current.key
<1>1. /\ HasEntry /\ ~EntryFault(Current) /\ next' = next + 1
      /\ Matching(k) # {} /\ Got(k).conf = Current.conf
      /\ UNCHANGED <<policies, doc, pass, pc, existing, victims, pairs, made, lines, moved, planned, start, faults>>
  BY DEF EntryOK
<1>2. /\ pc = "entries" /\ existing = start /\ start \in Seq(Policy) /\ Unique(doc)
      /\ DOMAIN doc.entries = 1..Len(doc.entries) /\ Len(doc.entries) \in Nat
      /\ next \in DOMAIN doc.entries /\ next \in Nat /\ next + 1 \in 1..(Len(doc.entries) + 1)
      /\ Current = doc.entries[next] /\ ~Clash(start, k) /\ k \notin Upto(doc, next)
      /\ Upto(doc, next + 1) = Upto(doc, next) \cup {k} /\ Like(start, k) # {}
      /\ Holder(start, k).conf = Current.conf /\ Deleted = {}
  BY <1>1, EntryFacts
<1>3. TypeOK' /\ Distinct(start)'
  BY <1>1, <1>2 DEF Inv, TypeOK
<1>4. Course'
  BY <1>1, <1>2 DEF Inv, Course, Begun
<1>5. ASSUME Faithful' PROVE Live'
  <2>1. Faithful /\ Live
    BY <1>1, <1>5 DEF Faithful, Begun, Inv
  <2>2. \A p \in ToSet(policies) : Kept(p) => Kept(p)'
    BY <1>1, <1>2 DEF Kept
  <2>3. \A p \in ToSet(policies) : Fresh(p) => Fresh(p)'
    BY <1>1 DEF Fresh
  <2>4. Deleted' = Deleted
    BY <1>1, <1>2 DEF Deleted
  <2>5. \E p \in ToSet(policies) : p.key = k /\ p.conf = Current.conf
    BY <1>1, <1>2, <2>1, HeldFacts, EntryFacts DEF Same
  <2>6. \A e \in DOMAIN doc.entries : e < next + 1 => e < next \/ e = next
    BY <1>2
  <2>7. \A e \in DOMAIN doc.entries : e < next + 1 =>
          \E p \in ToSet(policies) : p.key = doc.entries[e].key /\ p.conf = doc.entries[e].conf
    BY <1>2, <2>1, <2>5, <2>6 DEF Live
  <2> QED BY <1>1, <1>2, <2>1, <2>2, <2>3, <2>4, <2>7 DEF Live
<1> QED BY <1>3, <1>4, <1>5 DEF Inv

\* The policy is put, and if the console says so it is as declared.
LEMMA UpdatePolicyInv == ASSUME Inv, UpdatePolicy PROVE Inv'
<1> DEFINE k == Current.key
           g == Holder(start, k)
           after == Update(policies, g.uid, Current.conf)
<1>1. /\ HasEntry /\ ~EntryFault(Current) /\ Matching(k) # {} /\ lines' = lines \cup {<<"UPDATE", k>>}
      /\ UNCHANGED <<doc, pass, moved, planned, start>>
  BY DEF UpdatePolicy
<1>2. /\ pc = "entries" /\ existing = start /\ start \in Seq(Policy) /\ Unique(doc)
      /\ DOMAIN doc.entries = 1..Len(doc.entries) /\ Len(doc.entries) \in Nat
      /\ next \in DOMAIN doc.entries /\ next \in Nat /\ next + 1 \in 1..(Len(doc.entries) + 1)
      /\ Current = doc.entries[next] /\ ~Clash(start, k) /\ k \notin Upto(doc, next)
      /\ Upto(doc, next + 1) = Upto(doc, next) \cup {k} /\ Like(start, k) # {} /\ Deleted = {}
      /\ k \in Keys /\ Current.conf \in Confs
  BY <1>1, EntryFacts
<1>3. PICK answer \in Answers :
        /\ Mutate(after, answer)
        /\ IF answer = "done"
           THEN next' = next + 1 /\ UNCHANGED <<pc, existing, victims, pairs, made>>
           ELSE End("failed")
  BY <1>1, EntryFacts DEF UpdatePolicy
<1>4. policies \in Seq(Policy) /\ Distinct(policies) /\ pass \in {"plan", "write"}
  BY DEF Inv, TypeOK, Distinct
<1>5. /\ after \in Seq(Policy) /\ Distinct(after) /\ DOMAIN after = DOMAIN policies
      /\ \A i \in DOMAIN policies :
           /\ Same(after[i], policies[i])
           /\ after[i].conf = IF policies[i].uid = g.uid THEN Current.conf ELSE policies[i].conf
           /\ policies[i].uid # g.uid => after[i] = policies[i]
  BY <1>2, <1>4, UpdatedFacts
<1> HIDE DEF after
<1>6. /\ policies' \in Seq(Policy) /\ Distinct(policies)' /\ faults' \in 0..MaxFaults
      /\ pass = "plan" => policies' = policies /\ answer = "done"
      /\ pass = "write" /\ answer = "done" => policies' = after
  BY <1>3, <1>5, MutateFacts
<1>7. lines' \subseteq Line /\ moved' \in Nat
  BY <1>1, <1>2, SMTT(30) DEF Inv, TypeOK, Line
<1>8. CASE answer # "done"
  BY <1>1, <1>3, <1>6, <1>7, <1>8, EndingInv DEF Endings
<1>9. CASE answer = "done"
  <2>1. next' = next + 1 /\ UNCHANGED <<pc, existing, victims, pairs, made>>
    BY <1>3, <1>9
  <2>2. TypeOK' /\ Distinct(start)'
    BY <1>1, <1>2, <1>6, <1>7, <2>1 DEF Inv, TypeOK, Distinct
  <2>3. Course'
    BY <1>1, <1>2, <1>6, <2>1 DEF Inv, Course, Begun
  <2>4. ASSUME Faithful' PROVE Live'
    <3>0. PICK r : r = after
      OBVIOUS
    <3>1. pass = "write" /\ policies' = r
      BY <1>1, <1>4, <1>6, <1>9, <2>4, <3>0 DEF Faithful
    <3>2. Live
      BY <1>2, <3>1 DEF Inv, Faithful, Begun
    <3>3. ASSUME NEW i \in DOMAIN policies PROVE Kept(r[i])' \/ Fresh(r[i])'
      <4>1. policies[i] \in ToSet(policies)
        BY DEF ToSet
      <4>2. CASE Fresh(policies[i])
        BY <1>5, <3>0, <2>1, <4>2 DEF Fresh, Same
      <4>3. CASE Kept(policies[i])
        <5>1. PICK q \in ToSet(start) :
                Same(policies[i], q) /\ (policies[i].conf = q.conf \/ policies[i].key \in Upto(doc, next))
          BY <4>3 DEF Kept
        <5>2. Same(r[i], q)
          BY <1>5, <3>0, <5>1 DEF Same
        <5>3. r[i].conf = q.conf \/ r[i].key \in Upto(doc, next + 1)
          <6>1. CASE policies[i].uid = g.uid
            <7>1. policies[i].key = k
              BY <1>1, <1>2, <3>2, <4>1, <6>1, HeldFacts, EntryFacts DEF Same
            <7> QED BY <1>2, <1>5, <3>0, <7>1 DEF Same
          <6>2. CASE policies[i].uid # g.uid
            BY <1>2, <1>5, <3>0, <5>1, <6>2
          <6> QED BY <6>1, <6>2
        <5> QED BY <1>1, <2>1, <5>2, <5>3 DEF Kept
      <4> QED BY <3>2, <4>1, <4>2, <4>3 DEF Live
    <3>4. \A p \in ToSet(policies)' : Kept(p)' \/ Fresh(p)'
      BY <1>5, <3>0, <3>1, <3>3 DEF ToSet
    <3>5. Deleted' = Deleted
      BY <1>2, <2>1 DEF Deleted
    <3>6. \A u : Holds(policies, u)' <=> Holds(policies, u)
      BY <1>5, <3>0, <3>1 DEF Holds, Same
    <3>7. \A key \in DOMAIN made : \E p \in ToSet(policies)' : p.uid = made[key] /\ p.key = key
      <4> SUFFICES ASSUME NEW key \in DOMAIN made
                   PROVE  \E p \in ToSet(policies)' : p.uid = made[key] /\ p.key = key
        OBVIOUS
      <4>1. PICK i \in DOMAIN policies : policies[i].uid = made[key] /\ policies[i].key = key
        BY <3>2 DEF Live, ToSet
      <4> QED BY <1>5, <3>0, <3>1, <4>1 DEF ToSet, Same
    <3>8. ASSUME NEW e \in DOMAIN doc.entries, e < next + 1
          PROVE  \E p \in ToSet(policies)' : p.key = doc.entries[e].key /\ p.conf = doc.entries[e].conf
      <4>1. CASE e < next
        <5>1. PICK i \in DOMAIN policies :
                policies[i].key = doc.entries[e].key /\ policies[i].conf = doc.entries[e].conf
          BY <3>2, <4>1 DEF Live, ToSet
        <5>2. policies[i].key \in Upto(doc, next)
          BY <4>1, <5>1 DEF Upto
        <5>3. policies[i].key # k
          BY <1>2, <5>2
        <5>4. policies[i].uid # g.uid
          <6>1. policies[i] \in ToSet(policies)
            BY DEF ToSet
          <6> QED BY <1>1, <1>2, <3>2, <5>3, <6>1, HeldFacts, EntryFacts DEF Same
        <5> QED BY <1>5, <3>0, <3>1, <5>1, <5>4 DEF ToSet
      <4>2. CASE e = next
        <5>1. PICK i \in DOMAIN policies : policies[i].uid = g.uid
          BY <1>1, <1>2, <3>2, HeldFacts DEF ToSet
        <5>2. policies[i].key = k
          <6>1. policies[i] \in ToSet(policies)
            BY DEF ToSet
          <6> QED BY <1>1, <1>2, <3>2, <5>1, <6>1, HeldFacts, EntryFacts DEF Same
        <5> QED BY <1>2, <1>5, <3>0, <3>1, <4>2, <5>1, <5>2 DEF ToSet, Same
      <4> QED BY <1>2, <3>8, <4>1, <4>2
    <3>9. \A p \in ToSet(start) : Holds(policies, p.uid)' <=> p \notin Deleted'
      BY <3>2, <3>5, <3>6 DEF Live
    <3>10. \A key \in DOMAIN made : \A q \in ToSet(start) : q.uid # made[key]
      BY <3>2 DEF Live
    <3> QED BY <1>1, <2>1, <3>4, <3>7, <3>8, <3>9, <3>10 DEF Live
  <2> QED BY <2>2, <2>3, <2>4 DEF Inv
<1> QED BY <1>8, <1>9

\* The new policy is the user's, has an id, and is known by it.
LEMMA CreatePolicyInv == ASSUME Inv, CreatePolicy PROVE Inv'
<1> DEFINE k == Current.key
           uid == CHOOSE u \in Unused(policies) : TRUE
           new == [uid |-> uid, key |-> k, conf |-> Current.conf,
                   system |-> FALSE, fixed |-> FALSE, hasId |-> TRUE]
<1>1. /\ HasEntry /\ ~EntryFault(Current) /\ Matching(k) = {} /\ Unused(policies) # {}
      /\ lines' = lines \cup {<<"CREATE", k>>}
      /\ UNCHANGED <<doc, pass, moved, planned, start>>
  BY DEF CreatePolicy
<1>2. /\ pc = "entries" /\ existing = start /\ start \in Seq(Policy) /\ Unique(doc)
      /\ DOMAIN doc.entries = 1..Len(doc.entries) /\ Len(doc.entries) \in Nat
      /\ next \in DOMAIN doc.entries /\ next \in Nat /\ next + 1 \in 1..(Len(doc.entries) + 1)
      /\ Current = doc.entries[next] /\ ~Clash(start, k) /\ k \notin Upto(doc, next)
      /\ Upto(doc, next + 1) = Upto(doc, next) \cup {k} /\ Like(start, k) = {} /\ Deleted = {}
      /\ k \in Keys /\ Current.conf \in Confs
  BY <1>1, EntryFacts
<1>3. PICK answer \in Answers, place \in 1..(Len(policies) + 1) :
        /\ Mutate(InsertAt(policies, place, new), answer)
        /\ IF answer = "done"
           THEN /\ next' = next + 1
                /\ made' = [key \in DOMAIN made \cup {k} |-> IF key = k THEN uid ELSE made[key]]
                /\ UNCHANGED <<pc, existing, victims, pairs>>
           ELSE End("failed")
  BY DEF CreatePolicy
<1>4. policies \in Seq(Policy) /\ Distinct(policies) /\ pass \in {"plan", "write"}
  BY DEF Inv, TypeOK, Distinct
<1>5. PICK u : u = uid
  OBVIOUS
<1>6. u \in Unused(policies) /\ u \in Uids /\ \A i \in DOMAIN policies : policies[i].uid # u
  BY <1>1, <1>5 DEF Unused
<1>7. PICK p : /\ p = new /\ p \in Policy /\ p.uid = u /\ p.key = k /\ p.conf = Current.conf
               /\ p.hasId = TRUE /\ p.system = FALSE
  <2>1. new \in Policy
    BY <1>2, <1>5, <1>6 DEF Policy
  <2>2. new.uid = u /\ new.key = k /\ new.conf = Current.conf /\ new.hasId = TRUE /\ new.system = FALSE
    BY <1>5
  <2> QED BY <2>1, <2>2
<1>8. PICK r : r = InsertAt(policies, place, p)
  OBVIOUS
<1>9. r \in Seq(Policy) /\ Distinct(r) /\ ToSet(r) = ToSet(policies) \cup {p}
  BY <1>4, <1>6, <1>7, <1>8, AddedFacts, ZenonT(40)
<1>10. Mutate(r, answer)
  BY <1>3, <1>7, <1>8
<1>11. answer = "done" =>
         /\ next' = next + 1
         /\ made' = [key \in DOMAIN made \cup {k} |-> IF key = k THEN u ELSE made[key]]
         /\ UNCHANGED <<pc, existing, victims, pairs>>
  BY <1>3, <1>5
<1>12. answer # "done" => End("failed")
  BY <1>3
<1> HIDE DEF uid, new
<1>13. /\ policies' \in Seq(Policy) /\ Distinct(policies)' /\ faults' \in 0..MaxFaults
       /\ pass = "plan" => policies' = policies /\ answer = "done"
       /\ pass = "write" /\ answer = "done" => policies' = r
  BY <1>9, <1>10, MutateFacts
<1>14. lines' \subseteq Line /\ moved' \in Nat
  BY <1>1, <1>2, SMTT(30) DEF Inv, TypeOK, Line
<1>15. CASE answer # "done"
  BY <1>1, <1>12, <1>13, <1>14, <1>15, EndingInv DEF Endings
<1>16. CASE answer = "done"
  <2>1. /\ next' = next + 1 /\ UNCHANGED <<pc, existing, victims, pairs>>
        /\ DOMAIN made' = DOMAIN made \cup {k} /\ made'[k] = u
        /\ \A key \in DOMAIN made : key # k => made'[key] = made[key]
    BY <1>11, <1>16
  <2>2. DOMAIN made = {key \in Upto(doc, next) : Like(start, key) = {}} /\ k \notin DOMAIN made
    BY <1>2 DEF Inv, Course, Begun
  <2>3. TypeOK'
    <3>1. DOMAIN made' \subseteq Keys /\ \A key \in DOMAIN made' : made'[key] \in Uids
      BY <1>2, <1>6, <2>1 DEF Inv, TypeOK
    <3> QED BY <1>1, <1>2, <1>13, <1>14, <2>1, <3>1, SMTT(30) DEF Inv, TypeOK, Distinct
  <2>4. Course' /\ Distinct(start)'
    <3>1. DOMAIN made' = {key \in Upto(doc, next + 1) : Like(start, key) = {}}
      BY <1>2, <2>1, <2>2
    <3> QED BY <1>1, <1>2, <1>13, <2>1, <3>1 DEF Inv, Course, Begun
  <2>5. ASSUME Faithful' PROVE Live'
    <3>1. pass = "write" /\ policies' = r
      BY <1>1, <1>4, <1>13, <1>16, <2>5 DEF Faithful
    <3>2. Live
      BY <1>2, <3>1 DEF Inv, Faithful, Begun
    <3>3. \A q : Kept(q) => Kept(q)'
      BY <1>1, <1>2, <2>1 DEF Kept
    <3>4. \A q : Fresh(q) => Fresh(q)'
      BY <2>1, <2>2 DEF Fresh
    <3>5. Fresh(p)'
      BY <1>7, <2>1 DEF Fresh
    <3>6. \A q \in ToSet(policies)' : Kept(q)' \/ Fresh(q)'
      BY <1>9, <3>1, <3>2, <3>3, <3>4, <3>5 DEF Live
    <3>7. Deleted' = {}
      BY <1>2, <2>1 DEF Deleted
    <3>8. \A q \in ToSet(start) : Holds(policies, q.uid)
      BY <1>2, <3>2 DEF Live
    <3>9. \A q \in ToSet(start) : q.uid # u /\ Holds(policies, q.uid)'
      <4>1. \A q \in ToSet(start) : q.uid # u
        BY <1>6, <3>8 DEF Holds
      <4>2. \A q \in ToSet(start) : \E x \in ToSet(r) : x.uid = q.uid
        BY <1>9, <3>8 DEF Holds, ToSet
      <4> QED BY <3>1, <4>1, <4>2 DEF Holds, ToSet
    <3>10. ASSUME NEW key \in DOMAIN made'
           PROVE  /\ \A q \in ToSet(start) : q.uid # made'[key]
                  /\ \E q \in ToSet(policies)' : q.uid = made'[key] /\ q.key = key
      <4>1. CASE key = k
        BY <1>7, <1>9, <2>1, <3>1, <3>9, <4>1
      <4>2. CASE key # k
        <5>1. key \in DOMAIN made /\ made'[key] = made[key]
          BY <2>1, <4>2
        <5> QED BY <1>9, <3>1, <3>2, <5>1 DEF Live
      <4> QED BY <4>1, <4>2
    <3>11. ASSUME NEW e \in DOMAIN doc.entries, e < next + 1
           PROVE  \E q \in ToSet(policies)' : q.key = doc.entries[e].key /\ q.conf = doc.entries[e].conf
      <4>1. CASE e < next
        BY <1>9, <3>1, <3>2, <4>1 DEF Live
      <4>2. CASE e = next
        BY <1>2, <1>7, <1>9, <3>1, <4>2
      <4> QED BY <1>2, <3>11, <4>1, <4>2
    <3> QED BY <1>1, <2>1, <3>6, <3>7, <3>9, <3>10, <3>11 DEF Live
  <2> QED BY <2>3, <2>4, <2>5 DEF Inv
<1> QED BY <1>15, <1>16

-----------------------------------------------------------------------------
(* What is to go *)

LEMMA BeginPruneInv == ASSUME Inv, BeginPrune PROVE Inv'
<1>1. /\ pc = "entries" /\ next \notin DOMAIN doc.entries /\ pc' = "prune" /\ existing = start
      /\ victims' = {p \in ToSet(existing) : doc.prune /\ ~p.system /\ ~Declares(p.key)}
      /\ UNCHANGED <<policies, doc, pass, existing, next, pairs, made, lines, moved, planned, start, faults>>
  BY DEF BeginPrune, Entries, Inv, Course, Begun
<1>2. victims' = Doomed(start, doc)
  BY <1>1, DocMirror DEF Doomed
<1>3. DOMAIN doc.entries = 1..Len(doc.entries) /\ Len(doc.entries) \in Nat
  BY DocFacts DEF Inv, TypeOK
<1>4. next = Len(doc.entries) + 1
  BY <1>1, <1>3 DEF Inv, Course, Begun
<1>5. ToSet(start) \subseteq Policy
  BY HolderFacts DEF Inv, TypeOK
<1>6. TypeOK' /\ Distinct(start)'
  <2>1. victims' \subseteq Policy
    BY <1>2, <1>5 DEF Doomed
  <2> QED BY <1>1, <2>1 DEF Inv, TypeOK
<1>7. Course'
  BY <1>1, <1>2, <1>4 DEF Inv, Course, Begun
<1>8. Deleted' = {} /\ Deleted = {}
  BY <1>1, <1>2 DEF Deleted
<1>9. ASSUME Faithful' PROVE Live'
  <2>1. Live
    BY <1>1, <1>9 DEF Faithful, Begun, Inv
  <2>2. \A p : (Kept(p) => Kept(p)') /\ (Fresh(p) => Fresh(p)')
    BY <1>1 DEF Kept, Fresh
  <2> QED BY <1>1, <1>8, <2>1, <2>2 DEF Live
<1> QED BY <1>6, <1>7, <1>9 DEF Inv

LEMMA FailVictimInv == ASSUME Inv, NEW p, FailVictim(p) PROVE Inv'
BY QuietEndInv DEF FailVictim, Endings

\* What goes is a policy of the start's, undeclared, the only one of its
\* identity.
LEMMA VictimFacts ==
  ASSUME Inv, NEW p \in victims, pc = "prune", ~Ambiguous(p.key)
  PROVE  /\ existing = start /\ start \in Seq(Policy) /\ Distinct(start)
         /\ p \in Doomed(start, doc) /\ p \in ToSet(start) /\ p \in Policy
         /\ p.key \notin Listed(doc) /\ p.key \in Keys /\ doc.prune /\ ~p.system
         /\ ~Clash(start, p.key) /\ p \in Like(start, p.key)
         /\ DOMAIN made \subseteq Listed(doc) /\ Upto(doc, next) \subseteq Listed(doc)
<1>1. /\ existing = start /\ start \in Seq(Policy) /\ Distinct(start) /\ p \in Doomed(start, doc)
      /\ DOMAIN made \subseteq Upto(doc, next)
  BY DEF Inv, TypeOK, Course, Begun
<1>2. p \in ToSet(start) /\ p \in Policy /\ p.key \notin Listed(doc) /\ doc.prune /\ ~p.system
  BY <1>1, HolderFacts DEF Doomed
<1>3. ~Clash(start, p.key)
  BY <1>1, Mirror
<1>4. Upto(doc, next) \subseteq Listed(doc)
  BY DEF Upto, Listed
<1>5. p.key \in Keys /\ p \in Like(start, p.key)
  BY <1>2 DEF Policy, Like
<1> QED BY <1>1, <1>2, <1>3, <1>4, <1>5

LEMMA DeletePolicyInv == ASSUME Inv, NEW p \in victims, DeletePolicy(p) PROVE Inv'
<1>1. /\ pc = "prune" /\ ~Ambiguous(p.key) /\ lines' = lines \cup {<<"DELETE", p.key>>}
      /\ UNCHANGED <<doc, pass, moved, planned, start>>
  BY DEF DeletePolicy
<1>2. PICK r : r = At(policies, {i \in DOMAIN policies : policies[i].uid # p.uid})
  OBVIOUS
<1>3. PICK answer \in Answers :
        /\ Mutate(r, answer)
        /\ IF answer = "done"
           THEN victims' = victims \ {p} /\ UNCHANGED <<pc, existing, next, pairs, made>>
           ELSE End("failed")
  BY <1>2 DEF DeletePolicy
<1>4. /\ existing = start /\ start \in Seq(Policy) /\ Distinct(start)
      /\ p \in Doomed(start, doc) /\ p \in ToSet(start) /\ p \in Policy
      /\ p.key \notin Listed(doc) /\ p.key \in Keys /\ doc.prune /\ ~p.system
      /\ ~Clash(start, p.key) /\ p \in Like(start, p.key)
      /\ DOMAIN made \subseteq Listed(doc) /\ Upto(doc, next) \subseteq Listed(doc)
  BY <1>1, VictimFacts
<1>5. policies \in Seq(Policy) /\ Distinct(policies) /\ pass \in {"plan", "write"}
  BY DEF Inv, TypeOK, Distinct
<1>6. r \in Seq(Policy) /\ Distinct(r) /\ ToSet(r) = {q \in ToSet(policies) : q.uid # p.uid}
  BY <1>2, <1>5, DroppedFacts
<1>7. /\ policies' \in Seq(Policy) /\ Distinct(policies)' /\ faults' \in 0..MaxFaults
      /\ pass = "plan" => policies' = policies /\ answer = "done"
      /\ pass = "write" /\ answer = "done" => policies' = r
  BY <1>3, <1>6, MutateFacts
<1>8. lines' \subseteq Line /\ moved' \in Nat
  BY <1>1, <1>4 DEF Inv, TypeOK, Line
<1>9. CASE answer # "done"
  BY <1>1, <1>3, <1>7, <1>8, <1>9, EndingInv DEF Endings
<1>10. CASE answer = "done"
  <2>1. victims' = victims \ {p} /\ UNCHANGED <<pc, existing, next, pairs, made>>
    BY <1>3, <1>10
  <2>2. TypeOK' /\ Distinct(start)'
    BY <1>1, <1>7, <1>8, <2>1 DEF Inv, TypeOK, Distinct
  <2>3. Course'
    BY <1>1, <1>7, <2>1 DEF Inv, Course, Begun
  <2>4. ASSUME Faithful' PROVE Live'
    <3>1. pass = "write" /\ policies' = r
      BY <1>1, <1>5, <1>7, <1>10, <2>4 DEF Faithful
    <3>2. Live
      BY <1>1, <3>1 DEF Inv, Faithful, Begun
    <3>3. \A q : (Kept(q) => Kept(q)') /\ (Fresh(q) => Fresh(q)')
      BY <1>1, <2>1 DEF Kept, Fresh
    <3>4. \A q \in ToSet(policies)' : Kept(q)' \/ Fresh(q)'
      BY <1>6, <3>1, <3>2, <3>3 DEF Live
    <3>5. Deleted' = Deleted \cup {p}
      BY <1>1, <1>4, <2>1 DEF Deleted
    <3>6. \A u : Holds(policies, u)' <=> Holds(policies, u) /\ u # p.uid
      <4>1. \A u : Holds(policies, u)' <=> \E q \in ToSet(r) : q.uid = u
        BY <3>1 DEF Holds, ToSet
      <4>2. \A u : Holds(policies, u) <=> \E q \in ToSet(policies) : q.uid = u
        BY DEF Holds, ToSet
      <4> QED BY <1>6, <4>1, <4>2
    <3>7. \A q \in ToSet(start) : Holds(policies, q.uid)' <=> q \notin Deleted'
      <4>1. \A q \in ToSet(start) : q.uid = p.uid <=> q = p
        BY <1>4, OneObject
      <4> QED BY <3>2, <3>5, <3>6, <4>1 DEF Live
    <3>8. \A key \in DOMAIN made : \A q \in ToSet(start) : q.uid # made[key]
      BY <3>2 DEF Live
    <3>9. \A key \in DOMAIN made : \E q \in ToSet(policies)' : q.uid = made[key] /\ q.key = key
      <4> SUFFICES ASSUME NEW key \in DOMAIN made
                   PROVE  \E q \in ToSet(policies)' : q.uid = made[key] /\ q.key = key
        OBVIOUS
      <4>1. PICK q \in ToSet(policies) : q.uid = made[key] /\ q.key = key
        BY <3>2 DEF Live
      <4> QED BY <1>4, <1>6, <3>1, <3>8, <4>1
    <3>10. ASSUME NEW e \in DOMAIN doc.entries, e < next
           PROVE  \E q \in ToSet(policies)' : q.key = doc.entries[e].key /\ q.conf = doc.entries[e].conf
      <4>1. PICK q \in ToSet(policies) : q.key = doc.entries[e].key /\ q.conf = doc.entries[e].conf
        BY <3>2, <3>10 DEF Live
      <4>2. q.uid # p.uid
        <5>1. doc.entries[e].key \in Listed(doc)
          BY DEF Listed
        <5>2. CASE Fresh(q)
          BY <1>4, <3>8, <5>2 DEF Fresh
        <5>3. CASE Kept(q)
          <6>1. PICK x \in ToSet(start) : Same(q, x)
            BY <5>3 DEF Kept
          <6> QED BY <1>4, <4>1, <5>1, <6>1, OneObject DEF Same
        <5> QED BY <3>2, <4>1, <5>2, <5>3 DEF Live
      <4> QED BY <1>6, <3>1, <4>1, <4>2
    <3> QED BY <1>1, <2>1, <3>4, <3>7, <3>8, <3>9, <3>10 DEF Live
  <2> QED BY <2>2, <2>3, <2>4 DEF Inv
<1> QED BY <1>9, <1>10

-----------------------------------------------------------------------------
(* The declared order of a pair *)

Preceding(d, S) == {pr \in S \X S : Precedes(d, pr[1], pr[2])}

LEMMA PrecedesOrders ==
  ASSUME NEW d \in Documents, NEW S \in SUBSET DOMAIN d.entries
  PROVE  /\ Orders(Preceding(d, S), S)
         /\ \A e, f \in S : <<e, f>> \in Preceding(d, S) <=> Precedes(d, e, f)
<1>1. \A e, f \in S : <<e, f>> \in Preceding(d, S) <=> Precedes(d, e, f)
  BY DEF Preceding
<1> DEFINE o(e) == d.entries[e].order
<1>2. \A e \in S : e \in Nat /\ (o(e) = NoOrder \/ o(e) \in Nat)
  BY DocFacts
<1>3. \A e \in S : o(e) \in Nat => o(e) # NoOrder
  BY OrderAssumption
<1>4. \A e, f \in S : Precedes(d, e, f) <=>
        \/ o(e) = NoOrder /\ o(f) = NoOrder /\ e < f
        \/ o(e) # NoOrder /\ o(f) = NoOrder
        \/ o(e) # NoOrder /\ o(f) # NoOrder /\ (o(e) < o(f) \/ (o(e) = o(f) /\ e < f))
  BY DEF Precedes
<1> HIDE DEF o
<1>5. \A x \in S : ~Precedes(d, x, x)
  BY <1>2, <1>3, <1>4
<1>6. \A x, y, z \in S : Precedes(d, x, y) /\ Precedes(d, y, z) => Precedes(d, x, z)
  BY <1>2, <1>3, <1>4
<1>7. \A x, y \in S : x # y => Precedes(d, x, y) \/ Precedes(d, y, x)
  BY <1>2, <1>3, <1>4
<1> QED BY <1>1, <1>5, <1>6, <1>7 DEF Orders

\* The entry in the n-th place.
WantAt(s, d, pair, n) ==
  CHOOSE e \in Movers(s, d, pair) :
    Cardinality({f \in Movers(s, d, pair) : Precedes(d, f, e)}) = n - 1

LEMMA WantFacts ==
  ASSUME NEW s \in Seq(Policy), NEW d \in Documents, NEW pair
  PROVE  LET w  == Want(s, d, pair)
             es == Movers(s, d, pair)
             N  == Cardinality(es)
             E(n) == WantAt(s, d, pair, n)
         IN  /\ es \in SUBSET DOMAIN d.entries /\ IsFiniteSet(es) /\ N \in Nat
             /\ DOMAIN w = 1..N /\ w \in Seq(Keys) /\ Len(w) = N
             /\ \A n \in 1..N : E(n) \in es /\ w[n] = d.entries[E(n)].key
             /\ \A m, n \in 1..N : m < n => Precedes(d, E(m), E(n))
             /\ \A m, n \in 1..N : E(m) = E(n) => m = n
             /\ \A e \in es : \E n \in 1..N : E(n) = e
             /\ \A n \in 1..N : w[n] \in MoverKeys(s, d, pair) /\ w[n][1] = pair
                                /\ w[n] \in Listed(d)
             /\ ToSet(w) = MoverKeys(s, d, pair)
             /\ Unique(d) => \A m, n \in 1..N : w[m] = w[n] => m = n
<1> DEFINE es == Movers(s, d, pair)
           N  == Cardinality(es)
           E(n) == WantAt(s, d, pair, n)
           w  == Want(s, d, pair)
           R  == Preceding(d, es)
<1>1. es \in SUBSET DOMAIN d.entries /\ DOMAIN d.entries = 1..Len(d.entries) /\ Len(d.entries) \in Nat
  BY DocFacts DEF Movers
<1>2. IsFiniteSet(es)
  <2>1. IsFiniteSet(1..Len(d.entries))
    BY <1>1, FS_Interval
  <2> QED BY <1>1, <2>1, FS_Subset
<1>3. Orders(R, es) /\ \A e, f \in es : <<e, f>> \in R <=> Precedes(d, e, f)
  BY <1>1, PrecedesOrders
<1>4. \A e \in es : Lower(R, es, e) = {f \in es : Precedes(d, f, e)}
  BY <1>3 DEF Lower
<1>5. /\ N \in Nat
      /\ \A x \in es : Place(R, es, x) \in 1..N
      /\ \A x, y \in es : <<x, y>> \in R => Place(R, es, x) < Place(R, es, y)
      /\ \A x, y \in es : Place(R, es, x) = Place(R, es, y) => x = y
      /\ \A n \in 1..N : \E x \in es : Place(R, es, x) = n
  BY <1>2, <1>3, Places
<1>6. \A e \in es : Cardinality({f \in es : Precedes(d, f, e)}) \in Nat
                    /\ Place(R, es, e) = Cardinality({f \in es : Precedes(d, f, e)}) + 1
  <2>1. \A e \in es : {f \in es : Precedes(d, f, e)} \in SUBSET es
    OBVIOUS
  <2>2. \A e \in es : Cardinality({f \in es : Precedes(d, f, e)}) \in Nat
    BY <1>2, <2>1, FS_Subset, FS_CardinalityType
  <2> QED BY <1>4, <2>2 DEF Place
<1>7. DOMAIN w = 1..N /\ \A n \in 1..N : w[n] = d.entries[E(n)].key
  BY DEF Want, WantAt
<1>8. ASSUME NEW n \in 1..N PROVE E(n) \in es /\ Place(R, es, E(n)) = n
  <2>1. PICK x \in es : Place(R, es, x) = n
    BY <1>5
  <2>2. Cardinality({f \in es : Precedes(d, f, x)}) = n - 1
    BY <1>5, <1>6, <2>1
  <2>3. E(n) \in es /\ Cardinality({f \in es : Precedes(d, f, E(n))}) = n - 1
    BY <2>2 DEF WantAt
  <2> QED BY <1>5, <1>6, <2>3
<1> HIDE DEF es, E, w, R, N
<1>9. \A m, n \in 1..N : E(m) = E(n) => m = n
  BY <1>8
<1>10. \A e \in es : \E n \in 1..N : E(n) = e
  BY <1>5, <1>8
<1>11. ASSUME NEW m \in 1..N, NEW n \in 1..N, m < n PROVE Precedes(d, E(m), E(n))
  <2>1. E(m) # E(n) /\ m \in Int /\ n \in Int
    BY <1>5, <1>8, <1>11
  <2>2. <<E(m), E(n)>> \in R \/ <<E(n), E(m)>> \in R
    BY <1>3, <1>8, <2>1 DEF Orders
  <2>3. ~(<<E(n), E(m)>> \in R)
    BY <1>5, <1>8, <1>11, <2>1
  <2> QED BY <1>3, <1>8, <2>2, <2>3
<1>12. \A e \in es : /\ d.entries[e].key \in MoverKeys(s, d, pair) /\ d.entries[e].key[1] = pair
                     /\ d.entries[e].key \in Listed(d) /\ d.entries[e].key \in Keys
  BY <1>1, DocFacts DEF es, MoverKeys, Movers, Listed
<1>13. w \in Seq(Keys) /\ Len(w) = N
  <2>1. w = [n \in 1..N |-> w[n]]
    <3>1. w = [n \in 1..N |-> d.entries[E(n)].key]
      BY DEF w, Want, WantAt, E, N, es
    <3> QED BY <3>1
  <2>2. \A n \in 1..N : w[n] \in Keys
    BY <1>7, <1>8, <1>12
  <2>3. PICK g : g = w
    OBVIOUS
  <2>4. g = [n \in 1..N |-> g[n]] /\ \A n \in 1..N : g[n] \in Keys
    BY <2>1, <2>2, <2>3
  <2>5. g \in Seq(Keys) /\ Len(g) = N
    BY <1>5, <2>4
  <2> QED BY <2>3, <2>5
<1>14. ToSet(w) = MoverKeys(s, d, pair)
  <2>1. \A key \in MoverKeys(s, d, pair) : \E e \in es : key = d.entries[e].key
    BY DEF MoverKeys, es
  <2> QED BY <1>7, <1>8, <1>10, <1>12, <2>1 DEF ToSet
<1>15. Unique(d) => \A m, n \in 1..N : w[m] = w[n] => m = n
  BY <1>1, <1>7, <1>8, <1>9 DEF Unique
<1> QED BY <1>1, <1>2, <1>5, <1>7, <1>8, <1>9, <1>10, <1>11, <1>12, <1>13, <1>14, <1>15, SMTT(30)
    DEF es, E, w, N

\* What the code works out is what the start and the document say.
LEMMA OrderMirror ==
  ASSUME existing = start, NEW pair
  PROVE  /\ Movable(pair) = Movers(start, doc, pair)
         /\ KeysIn(Movable(pair)) = MoverKeys(start, doc, pair)
         /\ WantKeys(pair) = Want(start, doc, pair)
         /\ CurrentKeys(KeysIn(Movable(pair))) = Now(start, doc, pair)
         /\ InOrder(pair) <=> Fits(start, doc, pair)
         /\ Unaddressable(pair) <=> Mute(start, doc, pair)
<1>1. Movable(pair) = Movers(start, doc, pair)
  BY Mirror DEF Movable, Movers, Entries
<1>2. KeysIn(Movable(pair)) = MoverKeys(start, doc, pair)
  BY <1>1 DEF KeysIn, MoverKeys
<1>3. \A e, f : Before(e, f) <=> Precedes(doc, e, f)
  BY DEF Before, Precedes
<1>4. WantKeys(pair) = Want(start, doc, pair)
  BY <1>1 DEF WantKeys, Want, Before, Precedes
<1>5. CurrentKeys(KeysIn(Movable(pair))) = Now(start, doc, pair)
  BY <1>2 DEF CurrentKeys, Now
<1>6. Ordered(pair) <=> Sorts(start, doc, pair)
  BY <1>1 DEF Ordered, Sorts
<1> QED BY <1>1, <1>2, <1>4, <1>5, <1>6 DEF InOrder, Fits, Unaddressable, Mute

NowAt(s, d, pair) == {i \in DOMAIN s : s[i].key \in MoverKeys(s, d, pair)}

\* The declared policies that are there already, as listed.
LEMMA NowFacts ==
  ASSUME NEW s \in Seq(Policy), NEW d, NEW pair
  PROVE  LET P == NowAt(s, d, pair)
             c == Now(s, d, pair)
         IN  /\ P \in SUBSET DOMAIN s /\ Cardinality(P) \in Nat /\ DOMAIN c = 1..Cardinality(P)
             /\ c \in Seq(Keys) /\ Len(c) = Cardinality(P)
             /\ \A n \in DOMAIN c : Nth(P, n) \in P /\ c[n] = s[Nth(P, n)].key
             /\ \A m, n \in DOMAIN c : m < n => Nth(P, m) < Nth(P, n)
             /\ \A i \in P : \E n \in DOMAIN c : Nth(P, n) = i
<1> DEFINE P == NowAt(s, d, pair)
           a == At(s, P)
           c == Now(s, d, pair)
<1>1. P \in SUBSET DOMAIN s
  BY DEF NowAt
<1>2. c = KeysOf(a)
  BY DEF Now, NowAt
<1> HIDE DEF P
<1>3. /\ a \in Seq(Policy) /\ Cardinality(P) \in Nat /\ DOMAIN a = 1..Cardinality(P)
      /\ \A n \in DOMAIN a : Nth(P, n) \in P /\ a[n] = s[Nth(P, n)]
      /\ \A m, n \in DOMAIN a : m < n => Nth(P, m) < Nth(P, n)
      /\ \A i \in P : \E n \in DOMAIN a : Nth(P, n) = i
  BY <1>1, AtFacts
<1> HIDE DEF a, c
<1>4. DOMAIN c = DOMAIN a /\ c = [n \in 1..Cardinality(P) |-> a[n].key]
  BY <1>2, <1>3 DEF KeysOf
<1>5. \A n \in DOMAIN a : a[n].key \in Keys
  <2>1. \A n \in DOMAIN a : a[n] \in Policy
    BY <1>3, ElementOfSeq, LenProperties
  <2> QED BY <2>1 DEF Policy
<1>6. c \in Seq(Keys) /\ Len(c) = Cardinality(P)
  <2>1. PICK N \in Nat : N = Cardinality(P)
    BY <1>3
  <2>2. c = [n \in 1..N |-> c[n]] /\ \A n \in 1..N : c[n] \in Keys
    BY <1>3, <1>4, <1>5, <2>1
  <2>3. c \in Seq(Keys) /\ Len(c) = N
    BY <2>2
  <2> QED BY <2>1, <2>3
<1>7. \A n \in DOMAIN c : c[n] = s[Nth(P, n)].key
  BY <1>3, <1>4
<1> QED BY <1>1, <1>3, <1>4, <1>6, <1>7 DEF P, c

LEMMA MovesAreNumbers ==
  ASSUME NEW s \in Seq(Policy), NEW d, NEW pair
  PROVE  /\ Shifted(s, d, pair) \in SUBSET (1..Len(s)) /\ IsFiniteSet(Shifted(s, d, pair))
         /\ MovedPolicies(Now(s, d, pair), Want(s, d, pair)) = Cardinality(Shifted(s, d, pair))
         /\ Cardinality(Shifted(s, d, pair)) \in Nat
<1> DEFINE P == NowAt(s, d, pair)
<1>1. Shifted(s, d, pair) \in SUBSET DOMAIN Now(s, d, pair)
  BY DEF Shifted
<1>2. /\ P \in SUBSET DOMAIN s /\ Cardinality(P) \in Nat
      /\ DOMAIN Now(s, d, pair) = 1..Cardinality(P)
  BY NowFacts
<1> HIDE DEF P
<1>3. DOMAIN s = 1..Len(s) /\ Len(s) \in Nat /\ IsFiniteSet(1..Len(s)) /\ Cardinality(1..Len(s)) = Len(s)
  BY LenProperties, FS_Interval, SMTT(30)
<1>4. Cardinality(P) <= Len(s)
  BY <1>2, <1>3, FS_Subset
<1>5. Shifted(s, d, pair) \in SUBSET (1..Len(s))
  BY <1>1, <1>2, <1>3, <1>4
<1>6. IsFiniteSet(Shifted(s, d, pair)) /\ Cardinality(Shifted(s, d, pair)) \in Nat
  BY <1>3, <1>5, FS_Subset, FS_CardinalityType
<1>7. MovedPolicies(Now(s, d, pair), Want(s, d, pair)) = Cardinality(Shifted(s, d, pair))
  BY DEF MovedPolicies, Shifted
<1> QED BY <1>5, <1>6, <1>7

-----------------------------------------------------------------------------
(* The order of the pairs *)

LEMMA BeginOrderInv == ASSUME Inv, BeginOrder PROVE Inv'
<1>1. /\ pc = "prune" /\ victims = {} /\ pc' = "order" /\ existing = start
      /\ pairs' = {doc.entries[e].key[1] : e \in DOMAIN doc.entries}
      /\ UNCHANGED <<policies, doc, pass, existing, next, victims, made, lines, moved, planned, start, faults>>
  BY DEF BeginOrder, Entries, Inv, Course, Begun
<1>2. pairs' = ListedPairs(doc)
  BY <1>1 DEF ListedPairs
<1>3. pairs' \subseteq Pairs
  BY <1>1, DocFacts DEF Inv, TypeOK
<1>4. TypeOK' /\ Distinct(start)'
  BY <1>1, <1>3 DEF Inv, TypeOK
<1>5. Course'
  BY <1>1, <1>2 DEF Inv, Course, Begun
<1>6. Deleted' = Deleted
  BY <1>1 DEF Deleted
<1>7. ASSUME Faithful' PROVE Live'
  <2>1. Live
    BY <1>1, <1>7 DEF Faithful, Begun, Inv
  <2>2. \A p : (Kept(p) => Kept(p)') /\ (Fresh(p) => Fresh(p)')
    BY <1>1 DEF Kept, Fresh
  <2> QED BY <1>1, <1>6, <2>1, <2>2 DEF Live
<1> QED BY <1>4, <1>5, <1>7 DEF Inv

LEMMA OrderOKInv == ASSUME Inv, NEW pair, OrderOK(pair) PROVE Inv'
<1>1. /\ pc = "order" /\ pairs' = pairs \ {pair}
      /\ UNCHANGED <<policies, doc, pass, pc, existing, next, victims, made, lines, moved, planned, start, faults>>
  BY DEF OrderOK
<1>2. TypeOK' /\ Distinct(start)'
  BY <1>1 DEF Inv, TypeOK
<1>3. Course'
  BY <1>1 DEF Inv, Course, Begun
<1>4. Deleted' = Deleted
  BY <1>1 DEF Deleted
<1>5. ASSUME Faithful' PROVE Live'
  <2>1. Live
    BY <1>1, <1>5 DEF Faithful, Begun, Inv
  <2>2. \A p : (Kept(p) => Kept(p)') /\ (Fresh(p) => Fresh(p)')
    BY <1>1 DEF Kept, Fresh
  <2> QED BY <1>1, <1>4, <2>1, <2>2 DEF Live
<1> QED BY <1>2, <1>3, <1>5 DEF Inv

LEMMA FailOrderInv == ASSUME Inv, NEW pair, FailOrder(pair) PROVE Inv'
BY QuietEndInv DEF FailOrder, Endings

UidsOf(ks) == [i \in DOMAIN ks |-> UidOf(ks[i])]

\* A pass that has come to the order has gone through all the entries.
LEMMA OrderFacts ==
  ASSUME Inv, pc = "order"
  PROVE  /\ existing = start /\ start \in Seq(Policy) /\ Distinct(start) /\ doc \in Documents
         /\ Unique(doc) /\ Upto(doc, next) = Listed(doc) /\ victims = {}
         /\ DOMAIN made = {k \in Listed(doc) : Like(start, k) = {}}
         /\ \A k \in Listed(doc) : ~Clash(start, k)
         /\ \A k \in DOMAIN made : made[k] \in Uids
         /\ Deleted = Doomed(start, doc)
         /\ next = Len(doc.entries) + 1 /\ \A e \in DOMAIN doc.entries : e < next
<1>1. /\ existing = start /\ start \in Seq(Policy) /\ Distinct(start) /\ doc \in Documents
      /\ Unique(doc) /\ victims = {} /\ next = Len(doc.entries) + 1
      /\ DOMAIN made = {k \in Upto(doc, next) : Like(start, k) = {}}
      /\ \A k \in Upto(doc, next) : ~Clash(start, k)
      /\ \A k \in DOMAIN made : made[k] \in Uids
  BY DEF Inv, TypeOK, Course, Begun
<1>2. DOMAIN doc.entries = 1..Len(doc.entries) /\ Len(doc.entries) \in Nat
  BY <1>1, DocFacts
<1>3. \A e \in DOMAIN doc.entries : e < next
  BY <1>1, <1>2
<1>4. Upto(doc, next) = Listed(doc)
  BY <1>3 DEF Upto, Listed
<1>5. Deleted = Doomed(start, doc)
  BY <1>1 DEF Deleted
<1> QED BY <1>1, <1>3, <1>4, <1>5

\* Each declared policy has its object.
LEMMA UidFacts ==
  ASSUME Inv, pc = "order", NEW k \in Listed(doc)
  PROVE  /\ UidOf(k) \in Uids
         /\ k \notin DOMAIN made => /\ UidOf(k) = Holder(start, k).uid /\ Holder(start, k) \in ToSet(start)
                                    /\ Holder(start, k).key = k
<1>1. CASE k \in DOMAIN made
  BY <1>1, OrderFacts DEF UidOf
<1>2. CASE k \notin DOMAIN made
  <2>1. Like(start, k) # {} /\ start \in Seq(Policy)
    BY <1>2, OrderFacts
  <2>2. Holder(start, k) \in ToSet(start) /\ Holder(start, k).key = k /\ Holder(start, k) \in Policy
    BY <2>1, HolderFacts
  <2> QED BY <1>2, <2>2 DEF UidOf, Policy
<1> QED BY <1>1, <1>2

\* The object has the identity it was asked for.
LEMMA UidLives ==
  ASSUME Inv, Live, pc = "order", NEW k \in Listed(doc)
  PROVE  /\ \E p \in ToSet(policies) : p.uid = UidOf(k)
         /\ \A p \in ToSet(policies) : p.uid = UidOf(k) => p.key = k
         /\ \A p \in ToSet(policies) : p.key = k => p.uid = UidOf(k)
<1> DEFINE u == UidOf(k)
<1>1. /\ start \in Seq(Policy) /\ Distinct(start) /\ Upto(doc, next) = Listed(doc)
      /\ DOMAIN made = {key \in Listed(doc) : Like(start, key) = {}}
      /\ ~Clash(start, k) /\ Deleted = Doomed(start, doc)
  BY OrderFacts
<1>2. policies \in Seq(Policy) /\ Distinct(policies)
  BY DEF Inv, TypeOK, Distinct
<1>3. CASE k \in DOMAIN made
  <2>1. u = made[k]
    BY <1>3 DEF UidOf
  <2>2. PICK x \in ToSet(policies) : x.uid = u /\ x.key = k
    BY <1>3, <2>1 DEF Live
  <2>3. \A p \in ToSet(policies) : p.uid = u => p = x
    BY <1>2, <2>2, OneObject
  <2>4. ASSUME NEW p \in ToSet(policies), p.key = k PROVE p.uid = u
    <3>1. ~Kept(p)
      <4> SUFFICES ASSUME NEW q \in ToSet(start), Same(p, q) PROVE FALSE
        BY DEF Kept
      <4>1. q \in Like(start, k)
        BY <2>4 DEF Like, Same
      <4> QED BY <1>1, <1>3, <4>1
    <3> QED BY <2>1, <2>4, <3>1 DEF Live, Fresh
  <2> QED BY <2>2, <2>3, <2>4
<1>4. CASE k \notin DOMAIN made
  <2> DEFINE g == Holder(start, k)
  <2>1. u = g.uid /\ g \in ToSet(start) /\ g.key = k
    BY <1>4, UidFacts
  <2> HIDE DEF g, u
  <2>2. g \notin Deleted
    BY <1>1, <2>1 DEF Doomed
  <2>3. Holds(policies, u)
    BY <2>1, <2>2 DEF Live
  <2>4. ASSUME NEW p \in ToSet(policies), p.uid = u PROVE p.key = k
    <3>1. ~Fresh(p)
      BY <2>1, <2>4 DEF Live, Fresh
    <3>2. PICK q \in ToSet(start) : Same(p, q)
      BY <3>1 DEF Live, Kept
    <3>3. q = g
      BY <1>1, <2>1, <2>4, <3>2, OneObject DEF Same
    <3> QED BY <2>1, <3>2, <3>3 DEF Same
  <2>5. ASSUME NEW p \in ToSet(policies), p.key = k PROVE p.uid = u
    <3>1. ~Fresh(p)
      BY <1>4, <2>5 DEF Fresh
    <3>2. PICK q \in ToSet(start) : Same(p, q)
      BY <3>1 DEF Live, Kept
    <3>3. q \in Like(start, k) /\ g \in Like(start, k)
      BY <2>1, <2>5, <3>2 DEF Like, Same
    <3>4. q = g
      BY <1>1, <3>3, HolderFacts
    <3> QED BY <2>1, <3>2, <3>4 DEF Same
  <2>6. \E p \in ToSet(policies) : p.uid = u
    BY <2>3 DEF Holds, ToSet
  <2> QED BY <2>4, <2>5, <2>6 DEF u
<1> QED BY <1>3, <1>4

\* The reorder names policies of the pair, each once.
LEMMA WantIsNameable ==
  ASSUME Inv, Live, pc = "order", NEW pair
  PROVE  LET us == UidsOf(Want(start, doc, pair))
         IN  us \in Seq(Uids) /\ Nameable(policies, pair, us)
<1> DEFINE w  == Want(start, doc, pair)
           us == UidsOf(w)
           N  == Cardinality(Movers(start, doc, pair))
<1>1. start \in Seq(Policy) /\ doc \in Documents /\ Unique(doc)
  BY OrderFacts
<1>2. /\ N \in Nat /\ DOMAIN w = 1..N
      /\ \A n \in 1..N : w[n][1] = pair /\ w[n] \in Listed(doc)
      /\ \A m, n \in 1..N : w[m] = w[n] => m = n
  BY <1>1, WantFacts
<1> HIDE DEF w, N
<1>3. DOMAIN us = 1..N /\ us = [n \in 1..N |-> UidOf(w[n])]
  BY <1>2 DEF UidsOf
<1>4. \A n \in 1..N : UidOf(w[n]) \in Uids
  BY <1>2, UidFacts
<1>5. us \in Seq(Uids)
  BY <1>2, <1>3, <1>4
<1>6. ASSUME NEW a \in 1..N, NEW b \in 1..N, us[a] = us[b] PROVE a = b
  <2>1. PICK p \in ToSet(policies) : p.uid = us[a]
    BY <1>2, <1>3, UidLives
  <2>2. p.key = w[a] /\ p.key = w[b]
    BY <1>2, <1>3, <1>6, <2>1, UidLives
  <2> QED BY <1>2, <2>2
<1>7. ASSUME NEW a \in 1..N PROVE \E i \in Named(policies, pair) : policies[i].uid = us[a]
  <2>1. PICK p \in ToSet(policies) : p.uid = us[a]
    BY <1>2, <1>3, UidLives
  <2>2. p.key = w[a]
    BY <1>2, <1>3, <2>1, UidLives
  <2> QED BY <1>2, <2>1, <2>2 DEF Named, ToSet
<1> QED BY <1>3, <1>5, <1>6, <1>7 DEF Nameable, w

\* What a reorder does, in terms of the start.
LEMMA ReorderIs ==
  ASSUME Inv, NEW pair, Reorder(pair)
  PROVE  /\ pc = "order" /\ pair \in pairs /\ ~Fits(start, doc, pair) /\ ~Mute(start, doc, pair)
         /\ moved' = moved + Cardinality(Shifted(start, doc, pair))
         /\ lines' = lines \cup {<<"ORDER", pair>>}
         /\ UNCHANGED <<doc, pass, planned, start>>
         /\ \E answer \in Answers :
              /\ Mutate(IF DryRun THEN policies
                        ELSE Reordered(policies, pair, UidsOf(Want(start, doc, pair))), answer)
              /\ IF answer = "done"
                 THEN pairs' = pairs \ {pair} /\ UNCHANGED <<pc, existing, next, victims, made>>
                 ELSE End("failed")
<1>1. pc = "order" /\ existing = start /\ start \in Seq(Policy)
  BY OrderFacts DEF Reorder
<1>2. /\ WantKeys(pair) = Want(start, doc, pair)
      /\ CurrentKeys(KeysIn(Movable(pair))) = Now(start, doc, pair)
      /\ InOrder(pair) <=> Fits(start, doc, pair)
      /\ Unaddressable(pair) <=> Mute(start, doc, pair)
  BY <1>1, OrderMirror
<1>3. \A k : UidOf(k) = IF k \in DOMAIN made THEN made[k] ELSE Got(k).uid
  BY <1>1, Mirror DEF UidOf
<1>4. MovedPolicies(Now(start, doc, pair), Want(start, doc, pair)) = Cardinality(Shifted(start, doc, pair))
  BY <1>1, MovesAreNumbers
<1>5. [i \in DOMAIN WantKeys(pair) |-> IF WantKeys(pair)[i] \in DOMAIN made THEN made[WantKeys(pair)[i]]
                                       ELSE Got(WantKeys(pair)[i]).uid]
      = UidsOf(Want(start, doc, pair))
  BY <1>2, <1>3 DEF UidsOf
<1>6. moved' = moved + Cardinality(Shifted(start, doc, pair))
  BY <1>2, <1>4 DEF Reorder
<1>7. \E answer \in Answers :
              /\ Mutate(IF DryRun THEN policies
                        ELSE Reordered(policies, pair, UidsOf(Want(start, doc, pair))), answer)
              /\ IF answer = "done"
                 THEN pairs' = pairs \ {pair} /\ UNCHANGED <<pc, existing, next, victims, made>>
                 ELSE End("failed")
  BY <1>5 DEF Reorder
<1> QED BY <1>1, <1>2, <1>6, <1>7 DEF Reorder

LEMMA ReorderInv == ASSUME Inv, NEW pair \in Pairs, Reorder(pair) PROVE Inv'
<1>1. /\ pc = "order" /\ pair \in pairs
      /\ moved' = moved + Cardinality(Shifted(start, doc, pair))
      /\ lines' = lines \cup {<<"ORDER", pair>>}
      /\ UNCHANGED <<doc, pass, planned, start>>
  BY ReorderIs
<1>2. PICK r : r = IF DryRun THEN policies
                   ELSE Reordered(policies, pair, UidsOf(Want(start, doc, pair)))
  OBVIOUS
<1>3. PICK answer \in Answers :
        /\ Mutate(r, answer)
        /\ IF answer = "done"
           THEN pairs' = pairs \ {pair} /\ UNCHANGED <<pc, existing, next, victims, made>>
           ELSE End("failed")
  BY <1>2, ReorderIs
<1>4. policies \in Seq(Policy) /\ Distinct(policies) /\ pass \in {"plan", "write"}
      /\ start \in Seq(Policy)
  BY DEF Inv, TypeOK, Distinct
<1>5. pass = "write" => r \in Seq(Policy) /\ Distinct(r) /\ ToSet(r) = ToSet(policies)
  <2> SUFFICES ASSUME pass = "write" PROVE r \in Seq(Policy) /\ Distinct(r) /\ ToSet(r) = ToSet(policies)
    OBVIOUS
  <2>1. Live
    BY <1>1 DEF Inv, Faithful, Begun
  <2>2. r = Reordered(policies, pair, UidsOf(Want(start, doc, pair)))
    BY <1>2 DEF DryRun
  <2>3. /\ UidsOf(Want(start, doc, pair)) \in Seq(Uids)
        /\ Nameable(policies, pair, UidsOf(Want(start, doc, pair)))
    BY <1>1, <2>1, WantIsNameable
  <2> QED BY <1>4, <2>2, <2>3, ReorderedFacts
<1>6. /\ policies' \in Seq(Policy) /\ Distinct(policies)' /\ faults' \in 0..MaxFaults
      /\ pass = "plan" => policies' = policies /\ answer = "done"
      /\ pass = "write" /\ answer = "done" => policies' = r
  BY <1>3, <1>5, MutateFacts
<1>7. lines' \subseteq Line /\ moved' \in Nat
  <2>1. Cardinality(Shifted(start, doc, pair)) \in Nat
    BY <1>4, MovesAreNumbers
  <2> QED BY <1>1, <2>1 DEF Inv, TypeOK, Line
<1>8. CASE answer # "done"
  BY <1>1, <1>3, <1>6, <1>7, <1>8, EndingInv DEF Endings
<1>9. CASE answer = "done"
  <2>1. pairs' = pairs \ {pair} /\ UNCHANGED <<pc, existing, next, victims, made>>
    BY <1>3, <1>9
  <2>2. TypeOK' /\ Distinct(start)'
    BY <1>1, <1>6, <1>7, <2>1 DEF Inv, TypeOK, Distinct
  <2>3. Course'
    BY <1>1, <1>6, <2>1 DEF Inv, Course, Begun
  <2>4. ASSUME Faithful' PROVE Live'
    <3>1. pass = "write" /\ policies' = r /\ ToSet(policies)' = ToSet(policies)
      BY <1>1, <1>4, <1>5, <1>6, <1>9, <2>4 DEF Faithful
    <3>2. Live
      BY <1>1, <3>1 DEF Inv, Faithful, Begun
    <3>3. \A q : (Kept(q) => Kept(q)') /\ (Fresh(q) => Fresh(q)')
      BY <1>1, <2>1 DEF Kept, Fresh
    <3>4. Deleted' = Deleted
      BY <1>1, <2>1 DEF Deleted
    <3>5. \A u : Holds(policies, u)' <=> Holds(policies, u)
      <4>1. \A u : Holds(policies, u) <=> \E q \in ToSet(policies) : q.uid = u
        BY DEF Holds, ToSet
      <4>2. \A u : Holds(policies, u)' <=> \E q \in ToSet(policies)' : q.uid = u
        BY DEF Holds, ToSet
      <4> QED BY <3>1, <4>1, <4>2
    <3> QED BY <1>1, <2>1, <3>1, <3>2, <3>3, <3>4, <3>5 DEF Live
  <2> QED BY <2>2, <2>3, <2>4 DEF Inv
<1> QED BY <1>8, <1>9

LEMMA FinishWriteInv == ASSUME Inv, FinishWrite PROVE Inv'
BY QuietEndInv DEF FinishWrite, Endings

LEMMA RefuseDuplicatesInv == ASSUME Inv, RefuseDuplicates PROVE Inv'
BY QuietEndInv DEF RefuseDuplicates, Endings

LEMMA StutterInv == ASSUME Inv, UNCHANGED vars PROVE Inv'
<1>1. UNCHANGED <<policies, doc, pass, pc, existing, next, victims, pairs, made, lines, moved, planned, start, faults>>
  BY DEF vars, passVars
<1>2. TypeOK' /\ Distinct(start)'
  BY <1>1 DEF Inv, TypeOK
<1>3. Course'
  BY <1>1 DEF Inv, Course, Begun
<1>4. Deleted' = Deleted
  BY <1>1 DEF Deleted
<1>5. ASSUME Faithful' PROVE Live'
  <2>1. Live
    BY <1>1, <1>5 DEF Faithful, Begun, Inv
  <2>2. \A p : (Kept(p) => Kept(p)') /\ (Fresh(p) => Fresh(p)')
    BY <1>1 DEF Kept, Fresh
  <2> QED BY <1>1, <1>4, <2>1, <2>2 DEF Live
<1> QED BY <1>2, <1>3, <1>5 DEF Inv

LEMMA NextInv == Inv /\ [Next]_vars => Inv'
<1> SUFFICES ASSUME Inv, [Next]_vars PROVE Inv'
  OBVIOUS
<1>1. CASE UNCHANGED vars
  BY <1>1, StutterInv
<1>2. CASE StartRun
  BY <1>2, StartRunInv
<1>3. CASE List \/ RefuseDuplicates
  BY <1>3, ListInv, RefuseDuplicatesInv
<1>4. CASE FailEntry \/ EntryOK \/ UpdatePolicy \/ CreatePolicy
  BY <1>4, FailEntryInv, EntryOKInv, UpdatePolicyInv, CreatePolicyInv
<1>5. CASE BeginPrune \/ \E p \in victims : FailVictim(p) \/ DeletePolicy(p)
  BY <1>5, BeginPruneInv, FailVictimInv, DeletePolicyInv
<1>6. CASE BeginOrder \/ \E pair \in Pairs : OrderOK(pair) \/ FailOrder(pair) \/ Reorder(pair)
  BY <1>6, BeginOrderInv, OrderOKInv, FailOrderInv, ReorderInv
<1>7. CASE FinishPlan \/ FinishWrite
  BY <1>7, FinishPlanInv, FinishWriteInv
<1>8. CASE Kill
  BY <1>8, KillInv
<1> QED BY <1>1, <1>2, <1>3, <1>4, <1>5, <1>6, <1>7, <1>8 DEF Next, RunStep

\* TypeOK holds: every variable has its type, and no two policies on the
\* console are one object, whatever the entries, requests and answers were.
THEOREM TypeCorrect == Spec => []TypeOK
<1>1. Inv => TypeOK
  BY DEF Inv
<1> QED BY <1>1, InitInv, NextInv, PTL DEF Spec

-----------------------------------------------------------------------------
(* What a write may touch *)

\* WritesAreSafe, of one step.
SafeWrite ==
  \A p \in ToSet(policies) \ ToSet(policies') :
    /\ p.hasId
    /\ \A q \in ToSet(policies) : q.key = p.key => q = p
    /\ IF Holds(policies', p.uid)
       THEN p.conf \notin Opaque /\ ~(p.system /\ p.fixed)
       ELSE doc.prune /\ ~p.system /\ ~Declares(p.key)

LEMMA MutateWrites ==
  ASSUME Inv, NEW after, NEW answer \in Answers, Mutate(after, answer)
  PROVE  policies' = policies \/ (pass = "write" /\ policies' = after)
BY DEF Inv, TypeOK, Mutate, DryRun

LEMMA KeepingIsSafe == ASSUME ToSet(policies) \subseteq ToSet(policies') PROVE SafeWrite
BY DEF SafeWrite

LEMMA UpdateIsSafe == ASSUME Inv, UpdatePolicy PROVE SafeWrite
<1> DEFINE k == Current.key
           g == Holder(start, k)
<1>1. /\ HasEntry /\ ~EntryFault(Current) /\ Matching(k) # {} /\ Got(k).conf # Current.conf
  BY DEF UpdatePolicy
<1>2. /\ pc = "entries" /\ ~Faulty(start, Current) /\ Like(start, k) # {} /\ Got(k) = g
      /\ Current.conf \in Confs /\ g.key = k
  BY <1>1, EntryFacts
<1>3. PICK r : r = Update(policies, g.uid, Current.conf)
  OBVIOUS
<1>4. PICK answer \in Answers : Mutate(r, answer)
  BY <1>2, <1>3 DEF UpdatePolicy
<1>5. policies' = policies \/ (pass = "write" /\ policies' = r)
  BY <1>4, MutateWrites
<1>6. CASE policies' = policies
  BY <1>6, KeepingIsSafe
<1>7. CASE pass = "write" /\ policies' = r
  <2>1. Live
    BY <1>2, <1>7 DEF Inv, Faithful, Begun
  <2>2. policies \in Seq(Policy) /\ Distinct(policies)
    BY DEF Inv, TypeOK, Distinct
  <2>3. /\ DOMAIN r = DOMAIN policies
        /\ \A i \in DOMAIN policies : /\ Same(r[i], policies[i])
                                      /\ policies[i].uid # g.uid => r[i] = policies[i]
    BY <1>2, <1>3, <2>2, UpdatedFacts
  <2>4. /\ \A p \in ToSet(policies) : p.uid = g.uid => Same(p, g) /\ p.conf = g.conf
        /\ \A p \in ToSet(policies) : p.key = k => p.uid = g.uid
    BY <1>1, <1>2, <2>1, HeldFacts
  <2>5. g.conf \notin Opaque /\ ~(g.system /\ g.fixed) /\ g.hasId
    BY <1>1, <1>2 DEF Faulty
  <2>6. ASSUME NEW p \in ToSet(policies), p \notin ToSet(policies')
        PROVE  /\ p.hasId
               /\ \A q \in ToSet(policies) : q.key = p.key => q = p
               /\ Holds(policies', p.uid) /\ p.conf \notin Opaque /\ ~(p.system /\ p.fixed)
    <3>1. PICK i \in DOMAIN policies : p = policies[i]
      BY DEF ToSet
    <3>2. r[i] \in ToSet(r)
      BY <2>3 DEF ToSet
    <3>3. p.uid = g.uid
      BY <1>7, <2>3, <2>6, <3>1, <3>2
    <3>4. Same(p, g) /\ p.conf = g.conf /\ p.key = k
      BY <1>2, <2>4, <3>3 DEF Same
    <3>5. \A q \in ToSet(policies) : q.key = p.key => q = p
      BY <2>2, <2>4, <3>3, <3>4, OneObject
    <3>6. Holds(policies', p.uid)
      BY <1>7, <2>3, <3>1 DEF Holds, Same
    <3> QED BY <2>5, <3>4, <3>5, <3>6 DEF Same
  <2> QED BY <2>6 DEF SafeWrite
<1> QED BY <1>5, <1>6, <1>7

LEMMA CreateIsSafe == ASSUME Inv, CreatePolicy PROVE SafeWrite
<1> DEFINE uid == CHOOSE u \in Unused(policies) : TRUE
           new == [uid |-> uid, key |-> Current.key, conf |-> Current.conf,
                   system |-> FALSE, fixed |-> FALSE, hasId |-> TRUE]
<1>1. PICK answer \in Answers, place \in 1..(Len(policies) + 1) :
        Mutate(InsertAt(policies, place, new), answer)
  BY DEF CreatePolicy
<1>2. HasEntry /\ ~EntryFault(Current) /\ Unused(policies) # {}
  BY DEF CreatePolicy
<1>3. Current.key \in Keys /\ Current.conf \in Confs
  BY <1>2, EntryFacts
<1>4. uid \in Unused(policies) /\ uid \in Uids
  BY <1>2 DEF Unused
<1>5. new \in Policy /\ new.uid \in Unused(policies)
  <2>1. new.uid = uid
    OBVIOUS
  <2> HIDE DEF uid
  <2>2. new \in Policy
    BY <1>3, <1>4 DEF Policy
  <2> QED BY <1>4, <2>1, <2>2
<1>6. policies \in Seq(Policy) /\ Distinct(policies)
  BY DEF Inv, TypeOK, Distinct
<1> HIDE DEF new, uid
<1>7. PICK r : r = InsertAt(policies, place, new)
  OBVIOUS
<1>8. ToSet(r) = ToSet(policies) \cup {new}
  BY <1>5, <1>6, <1>7, AddedFacts
<1>9. Mutate(r, answer)
  BY <1>1, <1>7
<1> QED BY <1>8, <1>9, MutateWrites, KeepingIsSafe

LEMMA DeleteIsSafe == ASSUME Inv, NEW p \in victims, DeletePolicy(p) PROVE SafeWrite
<1>1. pc = "prune" /\ ~Ambiguous(p.key) /\ p.hasId
  BY DEF DeletePolicy
<1>2. PICK r : r = At(policies, {i \in DOMAIN policies : policies[i].uid # p.uid})
  OBVIOUS
<1>3. PICK answer \in Answers : Mutate(r, answer)
  BY <1>2 DEF DeletePolicy
<1>4. /\ start \in Seq(Policy) /\ Distinct(start) /\ p \in ToSet(start) /\ p.key \notin Listed(doc)
      /\ doc.prune /\ ~p.system /\ ~Clash(start, p.key) /\ p \in Like(start, p.key)
      /\ DOMAIN made \subseteq Listed(doc)
  BY <1>1, VictimFacts
<1>5. policies \in Seq(Policy) /\ Distinct(policies)
  BY DEF Inv, TypeOK, Distinct
<1>6. policies' = policies \/ (pass = "write" /\ policies' = r)
  BY <1>3, MutateWrites
<1>7. CASE policies' = policies
  BY <1>7, KeepingIsSafe
<1>8. CASE pass = "write" /\ policies' = r
  <2>1. Live
    BY <1>1, <1>8 DEF Inv, Faithful, Begun
  <2>2. ToSet(r) = {q \in ToSet(policies) : q.uid # p.uid}
    BY <1>2, <1>5, DroppedFacts
  <2>3. ASSUME NEW x \in ToSet(policies), x.uid = p.uid PROVE Same(x, p)
    <3>1. ~Fresh(x)
      BY <1>4, <2>1, <2>3 DEF Live, Fresh
    <3>2. PICK q \in ToSet(start) : Same(x, q)
      BY <2>1, <3>1 DEF Live, Kept
    <3>3. q = p
      BY <1>4, <2>3, <3>2, OneObject DEF Same
    <3> QED BY <3>2, <3>3
  <2>4. ASSUME NEW x \in ToSet(policies), x.key = p.key PROVE x.uid = p.uid
    <3>1. ~Fresh(x)
      BY <1>4, <2>4 DEF Fresh
    <3>2. PICK q \in ToSet(start) : Same(x, q)
      BY <2>1, <3>1 DEF Live, Kept
    <3>3. q \in Like(start, p.key)
      BY <2>4, <3>2 DEF Like, Same
    <3>4. q = p
      BY <1>4, <3>3, HolderFacts
    <3> QED BY <3>2, <3>4 DEF Same
  <2>5. ASSUME NEW x \in ToSet(policies), x \notin ToSet(policies')
        PROVE  /\ x.hasId
               /\ \A q \in ToSet(policies) : q.key = x.key => q = x
               /\ ~Holds(policies', x.uid) /\ doc.prune /\ ~x.system /\ ~Declares(x.key)
    <3>1. x.uid = p.uid
      BY <1>8, <2>2, <2>5
    <3>2. Same(x, p)
      BY <2>3, <3>1
    <3>3. \A q \in ToSet(policies) : q.key = x.key => q = x
      BY <1>5, <2>4, <3>1, <3>2, OneObject DEF Same
    <3>4. ~Holds(policies', x.uid)
      <4>1. \A q \in ToSet(policies') : q.uid # x.uid
        BY <1>8, <2>2, <3>1
      <4> QED BY <4>1 DEF Holds, ToSet
    <3>5. ~Declares(x.key)
      BY <1>4, <3>2, DocMirror DEF Same
    <3> QED BY <1>1, <1>4, <3>2, <3>3, <3>4, <3>5 DEF Same
  <2> QED BY <2>5 DEF SafeWrite
<1> QED BY <1>6, <1>7, <1>8

\* A write the console carried out leaves the same policies.
LEMMA ReorderMoves ==
  ASSUME Inv, NEW pair, Reorder(pair)
  PROVE  ToSet(policies') = ToSet(policies)
<1>1. pc = "order"
  BY ReorderIs
<1>2. PICK answer \in Answers :
        Mutate(IF DryRun THEN policies
               ELSE Reordered(policies, pair, UidsOf(Want(start, doc, pair))), answer)
  BY ReorderIs
<1>3. policies' = policies \/ (pass = "write" /\ policies' = Reordered(policies, pair, UidsOf(Want(start, doc, pair))))
  BY <1>2, MutateWrites DEF DryRun
<1>4. CASE pass = "write"
  <2>1. Live
    BY <1>1, <1>4 DEF Inv, Faithful, Begun
  <2>2. policies \in Seq(Policy) /\ Distinct(policies)
    BY DEF Inv, TypeOK, Distinct
  <2>3. /\ UidsOf(Want(start, doc, pair)) \in Seq(Uids)
        /\ Nameable(policies, pair, UidsOf(Want(start, doc, pair)))
    BY <1>1, <2>1, WantIsNameable
  <2>4. ToSet(Reordered(policies, pair, UidsOf(Want(start, doc, pair)))) = ToSet(policies)
    BY <2>2, <2>3, ReorderedFacts
  <2> QED BY <1>3, <2>4
<1> QED BY <1>3, <1>4

LEMMA StepIsSafe == Inv /\ [Next]_vars => SafeWrite
<1> SUFFICES ASSUME Inv, [Next]_vars PROVE SafeWrite
  OBVIOUS
<1>1. CASE policies' = policies
  BY <1>1, KeepingIsSafe
<1>2. CASE UpdatePolicy \/ CreatePolicy
  BY <1>2, UpdateIsSafe, CreateIsSafe
<1>3. CASE \E p \in victims : DeletePolicy(p)
  BY <1>3, DeleteIsSafe
<1>4. CASE \E pair \in Pairs : Reorder(pair)
  BY <1>4, ReorderMoves, KeepingIsSafe
<1> QED BY <1>1, <1>2, <1>3, <1>4
    DEF Next, RunStep, vars, StartRun, List, RefuseDuplicates, FailEntry, EntryOK, BeginPrune,
        FailVictim, BeginOrder, OrderOK, FailOrder, FinishPlan, FinishWrite, Kill

\* WritesAreSafe holds: a policy a request changes or deletes has an id and is
\* the only one of its identity; one whose configuration an update overwrites is
\* one the schema can express and the console lets change; one that is deleted
\* is undeclared, not the console's own, and goes only with --prune.
THEOREM SafeWrites == Spec => WritesAreSafe
<1>1. SafeWrite => (\A p \in ToSet(policies) \ ToSet(policies') :
                      /\ p.hasId
                      /\ \A q \in ToSet(policies) : q.key = p.key => q = p
                      /\ IF Holds(policies', p.uid)
                         THEN p.conf \notin Opaque /\ ~(p.system /\ p.fixed)
                         ELSE doc.prune /\ ~p.system /\ ~Declares(p.key))
  BY DEF SafeWrite
<1> QED BY <1>1, InitInv, NextInv, StepIsSafe, PTL DEF Spec, WritesAreSafe

-----------------------------------------------------------------------------
(* What is refused is refused in the planning pass *)

LEMMA NothingToVet ==
  ASSUME pc' \notin {"entries", "prune", "order"}, ~Writing'
  PROVE  Vetted'
<1>1. Deleted' = {} /\ ~Begun'
  BY DEF Deleted, Begun
<1> QED BY <1>1 DEF Vetted

LEMMA EndVets == ASSUME NEW how \in Endings, End(how) PROVE Vetted'
BY NothingToVet DEF End, Endings, Writing, Running

\* The steps of a writing pass, and those of a run that is over.
LEMMA WritingVets ==
  ASSUME Vetted, Writing, UNCHANGED <<doc, start>>
  PROVE  Vetted'
BY DEF Vetted

\* An entry gone through is an entry found sound.
LEMMA EntryVets ==
  ASSUME Inv, Vetted, HasEntry, ~EntryFault(Current), pass = "plan", next' = next + 1,
         UNCHANGED <<doc, pass, pc, start>>
  PROVE  Vetted'
<1>1. /\ pc = "entries" /\ Current = doc.entries[next] /\ ~Faulty(start, Current) /\ next \in Nat
      /\ DOMAIN doc.entries = 1..Len(doc.entries) /\ Unique(doc)
  BY EntryFacts
<1>2. ~Writing' /\ Deleted' = {} /\ pc' # "order"
  BY <1>1 DEF Writing, Deleted
<1>3. \A e \in DOMAIN doc.entries : e < next + 1 => e < next \/ e = next
  BY <1>1
<1>4. \A e \in DOMAIN doc.entries : e < next + 1 => ~Faulty(start, doc.entries[e])
  BY <1>1, <1>3 DEF Vetted, Begun
<1> QED BY <1>2, <1>4 DEF Vetted

LEMMA InitVets == Init => Vetted
<1> SUFFICES ASSUME Init PROVE Vetted
  OBVIOUS
<1>1. ~Begun /\ ~Writing /\ Deleted = {} /\ pc # "order"
  BY DEF Init, Begun, Writing, Deleted
<1> QED BY <1>1 DEF Vetted

LEMMA NextVets == Inv /\ Vetted /\ [Next]_vars => Vetted'
<1> SUFFICES ASSUME Inv, Vetted, [Next]_vars PROVE Vetted'
  OBVIOUS
<1>0. pass \in {"plan", "write"}
  BY DEF Inv, TypeOK
<1>1. CASE UNCHANGED vars
  <2>1. UNCHANGED <<doc, start, pass, pc, next, victims, pairs>>
    BY <1>1 DEF vars, passVars
  <2>2. Deleted' = Deleted /\ (Writing' <=> Writing) /\ (Begun' <=> Begun)
    BY <2>1 DEF Deleted, Writing, Running, Begun
  <2> QED BY <2>1, <2>2 DEF Vetted
<1>2. CASE StartRun
  BY <1>2, NothingToVet DEF StartRun, BeginPass, Writing
<1>3. CASE FailEntry \/ RefuseDuplicates \/ (\E p \in victims : FailVictim(p))
           \/ (\E pair \in Pairs : FailOrder(pair)) \/ FinishWrite \/ Kill
  <2>1. End("failed") \/ End("applied") \/ End("killed")
    BY <1>3 DEF FailEntry, RefuseDuplicates, FailVictim, FailOrder, FinishWrite, Kill
  <2>2. {"failed", "applied", "killed"} \subseteq Endings
    BY DEF Endings
  <2> QED BY <2>1, <2>2, EndVets
<1>4. CASE Writing /\ (List \/ EntryOK \/ UpdatePolicy \/ CreatePolicy \/ BeginPrune
                       \/ (\E p \in victims : DeletePolicy(p)) \/ BeginOrder
                       \/ (\E pair \in Pairs : OrderOK(pair) \/ Reorder(pair)))
  <2>1. UNCHANGED <<doc, start>>
    BY <1>4 DEF List, EntryOK, UpdatePolicy, CreatePolicy, BeginPrune, DeletePolicy, BeginOrder,
                OrderOK, Reorder
  <2> QED BY <1>4, <2>1, WritingVets
<1>5. CASE List /\ ~Writing
  <2>1. /\ pc = "list" /\ pc' = "entries" /\ next = 1 /\ UNCHANGED <<doc, start, pass, next>>
    BY <1>5 DEF List, Inv, Course, Begun
  <2>2. ~Writing'
    BY <1>0, <1>5, <2>1 DEF Writing, Running, Endings
  <2>3. Deleted' = {} /\ \A e \in DOMAIN doc.entries : ~(e < next)
    BY <2>1, DocFacts DEF Deleted, Inv, TypeOK
  <2> QED BY <2>1, <2>2, <2>3 DEF Vetted
<1>6. CASE EntryOK /\ ~Writing
  <2>1. pass = "plan"
    BY <1>0, <1>6 DEF Writing, EntryOK, HasEntry, Running, Endings
  <2> QED BY <1>6, <2>1, EntryVets DEF EntryOK
<1>7. CASE UpdatePolicy /\ ~Writing
  <2>1. pass = "plan"
    BY <1>0, <1>7 DEF Writing, UpdatePolicy, HasEntry, Running, Endings
  <2>2. next' = next + 1 /\ pc' = pc
    BY <1>7, <2>1 DEF UpdatePolicy, Mutate, DryRun
  <2> QED BY <1>7, <2>1, <2>2, EntryVets DEF UpdatePolicy
<1>8. CASE CreatePolicy /\ ~Writing
  <2>1. pass = "plan"
    BY <1>0, <1>8 DEF Writing, CreatePolicy, HasEntry, Running, Endings
  <2>2. next' = next + 1 /\ pc' = pc
    BY <1>8, <2>1 DEF CreatePolicy, Mutate, DryRun
  <2> QED BY <1>8, <2>1, <2>2, EntryVets DEF CreatePolicy
<1>9. CASE BeginPrune /\ ~Writing
  <2>1. /\ pc = "entries" /\ pc' = "prune" /\ existing = start
        /\ victims' = {p \in ToSet(existing) : doc.prune /\ ~p.system /\ ~Declares(p.key)}
        /\ UNCHANGED <<doc, start, pass, next>>
    BY <1>9 DEF BeginPrune, Inv, Course, Begun
  <2>2. Deleted' = {}
    BY <2>1, DocMirror DEF Deleted, Doomed
  <2>3. ~Writing'
    BY <1>0, <1>9, <2>1 DEF Writing, Running, Endings
  <2> QED BY <2>1, <2>2, <2>3 DEF Vetted, Begun
<1>10. CASE (\E p \in victims : DeletePolicy(p)) /\ ~Writing
  <2>1. PICK p \in victims : DeletePolicy(p)
    BY <1>10
  <2>2. pc = "prune" /\ pass = "plan" /\ ~Ambiguous(p.key) /\ p.hasId
    BY <1>0, <1>10, <2>1 DEF Writing, DeletePolicy, Running, Endings
  <2>3. victims' = victims \ {p} /\ UNCHANGED <<doc, start, pass, pc, next>>
    BY <2>1, <2>2 DEF DeletePolicy, Mutate, DryRun
  <2>4. Deleted' \subseteq Deleted \cup {p} /\ ~Clash(start, p.key)
    BY <2>2, <2>3, VictimFacts DEF Deleted
  <2>5. ~Writing'
    BY <2>2, <2>3 DEF Writing
  <2> QED BY <2>2, <2>3, <2>4, <2>5 DEF Vetted, Begun
<1>11. CASE BeginOrder /\ ~Writing
  <2>1. /\ pc = "prune" /\ pc' = "order"
        /\ pairs' = {doc.entries[e].key[1] : e \in DOMAIN doc.entries}
        /\ UNCHANGED <<doc, start, pass, next, victims>>
    BY <1>11 DEF BeginOrder, Entries
  <2>2. Deleted' = Deleted /\ pairs' = ListedPairs(doc)
    BY <2>1 DEF Deleted, ListedPairs
  <2>3. ~Writing'
    BY <1>0, <1>11, <2>1 DEF Writing, Running, Endings
  <2> QED BY <2>1, <2>2, <2>3 DEF Vetted, Begun
<1>12. CASE (\E pair \in Pairs : OrderOK(pair) \/ Reorder(pair)) /\ ~Writing
  <2>1. PICK pair \in Pairs : OrderOK(pair) \/ Reorder(pair)
    BY <1>12
  <2>2. pc = "order" /\ pass = "plan"
    BY <1>0, <1>12, <2>1 DEF Writing, OrderOK, Reorder, Running, Endings
  <2>3. pairs' = pairs \ {pair} /\ UNCHANGED <<doc, start, pass, pc, next, victims>>
    BY <2>1, <2>2 DEF OrderOK, Reorder, Mutate, DryRun
  <2>4. existing = start
    BY <2>2, OrderFacts
  <2>5. Fits(start, doc, pair) \/ ~Mute(start, doc, pair)
    BY <2>1, <2>4, OrderMirror DEF OrderOK, Reorder
  <2>6. Deleted' = Deleted /\ ~Writing'
    BY <2>2, <2>3 DEF Deleted, Writing
  <2> QED BY <2>2, <2>3, <2>5, <2>6 DEF Vetted, Begun
<1>13. CASE FinishPlan
  <2>1. /\ pc = "order" /\ pairs = {} /\ UNCHANGED <<doc, start>>
        /\ \/ pc' = "clean" \/ pc' = "list"
    BY <1>13 DEF FinishPlan, PassDone, End, BeginPass
  <2>2. /\ Unique(doc) /\ Deleted = Doomed(start, doc) /\ \A e \in DOMAIN doc.entries : e < next
    BY <2>1, OrderFacts
  <2>3. /\ Deleted' = {} /\ ~Begun' /\ pc' # "order"
    BY <2>1 DEF Deleted, Begun
  <2> QED BY <2>1, <2>2, <2>3 DEF Vetted, Begun
<1> QED BY <1>1, <1>2, <1>3, <1>4, <1>5, <1>6, <1>7, <1>8, <1>9, <1>10, <1>11, <1>12, <1>13
    DEF Next, RunStep

\* So a writing pass fails only when a request does.
LEMMA NextFails == Inv /\ Vetted /\ NoHalfwayFailure /\ [Next]_vars => NoHalfwayFailure'
<1> SUFFICES ASSUME Inv, Vetted, NoHalfwayFailure, [Next]_vars, pass' = "write", pc' = "failed"
             PROVE  faults' > 0
  BY DEF NoHalfwayFailure
<1>0. faults \in Nat /\ existing \in Seq(Policy)
  BY BoundAssumption DEF Inv, TypeOK
<1>1. CASE UNCHANGED vars
  BY <1>1 DEF NoHalfwayFailure, vars
<1>2. CASE StartRun
  BY <1>2 DEF StartRun, BeginPass
<1>3. CASE Kill
  BY <1>0, <1>3 DEF Kill
<1>4. CASE List \/ EntryOK \/ BeginPrune \/ BeginOrder \/ (\E pair \in Pairs : OrderOK(pair))
           \/ FinishPlan \/ FinishWrite
  <2>1. CASE List \/ EntryOK
    BY <2>1 DEF List, EntryOK, HasEntry
  <2>2. CASE BeginPrune \/ BeginOrder
    BY <2>2 DEF BeginPrune, BeginOrder
  <2>3. CASE \E pair \in Pairs : OrderOK(pair)
    BY <2>3 DEF OrderOK
  <2>4. CASE FinishPlan \/ FinishWrite
    BY <2>4 DEF FinishPlan, FinishWrite, End, BeginPass
  <2> QED BY <1>4, <2>1, <2>2, <2>3, <2>4
<1>5. CASE RefuseDuplicates
  <2>1. pass = "write" /\ pc = "list" /\ ~Unique(doc)
    BY <1>5, DocMirror DEF RefuseDuplicates
  <2> QED BY <2>1 DEF Vetted, Writing, Running, Endings
<1>6. CASE FailEntry
  <2>1. pass = "write" /\ pc = "entries" /\ next \in DOMAIN doc.entries /\ EntryFault(doc.entries[next])
        /\ existing = start
    BY <1>6 DEF FailEntry, HasEntry, Entries, Current, Inv, Course, Begun
  <2>2. Faulty(start, doc.entries[next])
    BY <2>1, Mirror
  <2> QED BY <2>1, <2>2 DEF Vetted, Writing, Running, Endings
<1>7. CASE \E p \in victims : FailVictim(p)
  <2>1. PICK p \in victims : FailVictim(p)
    BY <1>7
  <2>2. /\ pass = "write" /\ pc = "prune" /\ existing = start /\ p \in Doomed(start, doc)
        /\ Ambiguous(p.key) \/ ~p.hasId
    BY <2>1 DEF FailVictim, Inv, Course, Begun
  <2>3. Clash(start, p.key) \/ ~p.hasId
    BY <2>2, Mirror
  <2> QED BY <2>2, <2>3 DEF Vetted, Writing, Running, Endings
<1>8. CASE \E pair \in Pairs : FailOrder(pair)
  <2>1. PICK pair \in Pairs : FailOrder(pair)
    BY <1>8
  <2>2. /\ pass = "write" /\ pc = "order" /\ existing = start /\ pair \in ListedPairs(doc)
        /\ ~InOrder(pair) /\ Unaddressable(pair)
    BY <2>1 DEF FailOrder, Inv, Course, Begun
  <2>3. ~Fits(start, doc, pair) /\ Mute(start, doc, pair)
    BY <2>2, OrderMirror
  <2> QED BY <2>2, <2>3 DEF Vetted, Writing, Running, Endings
<1>9. CASE UpdatePolicy \/ CreatePolicy \/ (\E p \in victims : DeletePolicy(p))
           \/ (\E pair \in Pairs : Reorder(pair))
  <2>1. \E answer \in Answers : \E after :
          Mutate(after, answer) /\ (answer = "done" => pc' = pc /\ pc # "failed")
    <3>1. CASE UpdatePolicy
      BY <3>1 DEF UpdatePolicy, HasEntry
    <3>2. CASE CreatePolicy
      BY <3>2 DEF CreatePolicy, HasEntry
    <3>3. CASE \E p \in victims : DeletePolicy(p)
      BY <3>3 DEF DeletePolicy
    <3>4. CASE \E pair \in Pairs : Reorder(pair)
      BY <3>4, ReorderIs
    <3> QED BY <1>9, <3>1, <3>2, <3>3, <3>4
  <2>2. pass = "write"
    BY <1>9 DEF UpdatePolicy, CreatePolicy, DeletePolicy, Reorder
  <2> QED BY <1>0, <2>1, <2>2 DEF Mutate, DryRun
<1> QED BY <1>1, <1>2, <1>3, <1>4, <1>5, <1>6, <1>7, <1>8, <1>9 DEF Next, RunStep

-----------------------------------------------------------------------------
(* What is logged *)

\* A pass on its way has logged part of what it will log.
LEMMA LinesGrow ==
  ASSUME NEW s, NEW d \in Documents, NEW n \in 1..(Len(d.entries) + 1),
         NEW gone \in SUBSET Doomed(s, d), NEW done \in SUBSET ListedPairs(d)
  PROVE  LinesOf(s, d, n, gone, done) \subseteq AllLines(s, d)
<1>1. \A e \in DOMAIN d.entries : e < Len(d.entries) + 1
  BY DocFacts
<1>2. Created(s, d, n) \subseteq Created(s, d, Len(d.entries) + 1)
  BY <1>1 DEF Created, Upto
<1>3. Changed(s, d, n) \subseteq Changed(s, d, Len(d.entries) + 1)
  BY <1>1 DEF Changed
<1> QED BY <1>2, <1>3 DEF AllLines, LinesOf

LEMMA PairsAreFinite ==
  ASSUME NEW d \in Documents
  PROVE  IsFiniteSet(ListedPairs(d))
<1>1. DOMAIN d.entries = 1..Len(d.entries) /\ Len(d.entries) \in Nat
  BY DocFacts
<1>2. Len(d.entries) \in Int /\ 1 \in Int
  BY <1>1
<1>3. IsFiniteSet(1..Len(d.entries))
  BY <1>2, FS_Interval
<1> DEFINE f == [e \in 1..Len(d.entries) |-> d.entries[e].key[1]]
<1>4. f \in Surjection(1..Len(d.entries), ListedPairs(d))
  BY <1>1 DEF Surjection, ListedPairs
<1> HIDE DEF f
<1> QED BY <1>3, <1>4, FS_Surjection

LEMMA MovesAreFinite ==
  ASSUME NEW s \in Seq(Policy), NEW d \in Documents, NEW done \in SUBSET ListedPairs(d)
  PROVE  /\ IsFiniteSet(MovesOf(s, d, done)) /\ Cardinality(MovesOf(s, d, done)) \in Nat
         /\ Cardinality(MovesOf(s, d, done)) <= Cardinality(AllMoves(s, d))
<1>1. IsFiniteSet(ListedPairs(d)) /\ IsFiniteSet(1..Len(s))
  BY PairsAreFinite, LenProperties, FS_Interval
<1>2. IsFiniteSet(ListedPairs(d) \X (1..Len(s)))
  BY <1>1, FS_Product
<1>3. MovesOf(s, d, done) \in SUBSET AllMoves(s, d)
      /\ AllMoves(s, d) \in SUBSET (ListedPairs(d) \X (1..Len(s)))
  BY DEF MovesOf, AllMoves
<1>4. IsFiniteSet(AllMoves(s, d))
  BY <1>2, <1>3, FS_Subset
<1> QED BY <1>3, <1>4, FS_Subset, FS_CardinalityType

\* One more pair.
LEMMA MovesAdd ==
  ASSUME NEW s \in Seq(Policy), NEW d \in Documents, NEW done \in SUBSET ListedPairs(d),
         NEW pair \in ListedPairs(d), pair \notin done
  PROVE  /\ Fits(s, d, pair) => MovesOf(s, d, done \cup {pair}) = MovesOf(s, d, done)
         /\ ~Fits(s, d, pair) =>
              Cardinality(MovesOf(s, d, done \cup {pair}))
                = Cardinality(MovesOf(s, d, done)) + Cardinality(Shifted(s, d, pair))
<1> DEFINE A == MovesOf(s, d, done)
           B == {pair} \X Shifted(s, d, pair)
           C == MovesOf(s, d, done \cup {pair})
<1>1. Fits(s, d, pair) => C = A
  BY DEF MovesOf
<1>2. ASSUME ~Fits(s, d, pair)
      PROVE  Cardinality(C) = Cardinality(A) + Cardinality(Shifted(s, d, pair))
  <2>1. Shifted(s, d, pair) \in SUBSET (1..Len(s)) /\ IsFiniteSet(Shifted(s, d, pair))
        /\ Cardinality(Shifted(s, d, pair)) \in Nat
    BY MovesAreNumbers
  <2>2. C = A \cup B /\ A \cap B = {}
    BY <1>2, <2>1 DEF MovesOf
  <2>3. IsFiniteSet(A) /\ Cardinality(A) \in Nat
    BY MovesAreFinite
  <2>4. IsFiniteSet(B) /\ Cardinality(B) = Cardinality(Shifted(s, d, pair))
    <3>1. IsFiniteSet({pair}) /\ Cardinality({pair}) = 1
      BY FS_Singleton
    <3>2. IsFiniteSet(B) /\ Cardinality(B) = Cardinality({pair}) * Cardinality(Shifted(s, d, pair))
      BY <2>1, <3>1, FS_Product
    <3> QED BY <2>1, <3>1, <3>2
  <2> HIDE DEF A, B, C
  <2>5. Cardinality(A \cup B) = Cardinality(A) + Cardinality(B) - Cardinality(A \cap B)
    BY <2>3, <2>4, FS_Union
  <2>6. Cardinality(A \cap B) = 0
    BY <2>2, FS_EmptySet
  <2>7. Cardinality(A \cup B) = Cardinality(A) + Cardinality(B)
    BY <2>1, <2>3, <2>4, <2>5, <2>6
  <2>8. Cardinality(C) = Cardinality(A \cup B)
    BY <2>2
  <2> QED BY <2>4, <2>7, <2>8
<1> QED BY <1>1, <1>2

\* One more entry.
LEMMA LinesAdd ==
  ASSUME Inv, HasEntry, ~EntryFault(Current)
  PROVE  LET k == Current.key
             old == LinesOf(start, doc, next, {}, {})
             new == LinesOf(start, doc, next + 1, {}, {})
         IN  /\ Like(start, k) = {} => new = old \cup {<<"CREATE", k>>}
             /\ Like(start, k) # {} /\ Holder(start, k).conf # Current.conf =>
                  new = old \cup {<<"UPDATE", k>>}
             /\ Like(start, k) # {} /\ Holder(start, k).conf = Current.conf => new = old
<1> DEFINE k == Current.key
<1>1. /\ next \in DOMAIN doc.entries /\ next \in Nat /\ Current = doc.entries[next]
      /\ Upto(doc, next + 1) = Upto(doc, next) \cup {k}
      /\ DOMAIN doc.entries = 1..Len(doc.entries)
  BY EntryFacts
<1>2. \A f \in DOMAIN doc.entries : f < next + 1 <=> f < next \/ f = next
  BY <1>1
<1>3. Created(start, doc, next + 1) = Created(start, doc, next)
                                       \cup (IF Like(start, k) = {} THEN {k} ELSE {})
  BY <1>1 DEF Created
<1>4. Changed(start, doc, next + 1)
      = Changed(start, doc, next)
          \cup (IF Like(start, k) # {} /\ Holder(start, k).conf # Current.conf THEN {k} ELSE {})
  BY <1>1, <1>2 DEF Changed
<1>5. CASE Like(start, k) = {}
  BY <1>3, <1>4, <1>5 DEF LinesOf
<1>6. CASE Like(start, k) # {} /\ Holder(start, k).conf # Current.conf
  BY <1>3, <1>4, <1>6 DEF LinesOf
<1>7. CASE Like(start, k) # {} /\ Holder(start, k).conf = Current.conf
  BY <1>3, <1>4, <1>7 DEF LinesOf
<1> QED BY <1>5, <1>6, <1>7

Recorded ==
  planned.lines = AllLines(start, doc) /\ planned.moved = Cardinality(AllMoves(start, doc))

\* What is logged at a step is part of the plan.
LEMMA LogTally ==
  ASSUME Inv, Tally, UNCHANGED <<doc, pass, planned, start>>,
         NEW n \in 1..(Len(doc.entries) + 1), NEW gone \in SUBSET Doomed(start, doc),
         NEW done \in SUBSET ListedPairs(doc),
         lines' = LinesOf(start, doc, n, gone, done),
         moved' = Cardinality(MovesOf(start, doc, done)),
         \/ Begun' /\ next' = n /\ Deleted' = gone /\ Passed' = done
         \/ ~Begun' /\ pc' # "applied"
  PROVE  Tally'
<1>1. start \in Seq(Policy) /\ doc \in Documents
  BY DEF Inv, TypeOK
<1>2. lines' \subseteq AllLines(start, doc) /\ moved' <= Cardinality(AllMoves(start, doc))
  BY <1>1, LinesGrow, MovesAreFinite
<1>3. Begun' => lines' = LinesOf(start, doc, next', Deleted', Passed')
                /\ moved' = Cardinality(MovesOf(start, doc, Passed'))
  OBVIOUS
<1>4. Begun' => pc' # "applied"
  BY DEF Begun
<1>5. pass = "write" => Recorded
  BY DEF Tally, Recorded
<1> QED BY <1>2, <1>3, <1>4, <1>5 DEF Tally, Recorded

\* A run that ends without a request says nothing more.
LEMMA QuietTally ==
  ASSUME Inv, Tally, UNCHANGED <<doc, pass, planned, start, lines, moved>>, ~Begun', pc' # "applied"
  PROVE  Tally'
BY DEF Tally

LEMMA InitTally == Init => Tally
BY DEF Init, Tally, Begun

\* An entry is logged once it is judged, answered or not.
LEMMA EntryTally ==
  ASSUME Inv, Tally, HasEntry, ~EntryFault(Current), UNCHANGED <<doc, pass, planned, start, moved>>,
         lines' = LinesOf(start, doc, next + 1, {}, {}),
         \/ next' = next + 1 /\ pc' = pc
         \/ End("failed")
  PROVE  Tally'
<1>1. /\ pc = "entries" /\ next + 1 \in 1..(Len(doc.entries) + 1)
  BY EntryFacts
<1>2. moved = Cardinality(MovesOf(start, doc, {}))
  BY <1>1 DEF Tally, Begun, Passed
<1>3. CASE next' = next + 1 /\ pc' = pc
  <2>1. Begun' /\ Deleted' = {} /\ Passed' = {}
    BY <1>1, <1>3 DEF Begun, Deleted, Passed
  <2> QED BY <1>1, <1>2, <1>3, <2>1, LogTally
<1>4. CASE End("failed")
  <2>1. ~Begun' /\ pc' # "applied"
    BY <1>4 DEF End, Begun
  <2> QED BY <1>1, <1>2, <2>1, LogTally
<1> QED BY <1>3, <1>4

LEMMA EntryStepsTally ==
  ASSUME Inv, Tally, EntryOK \/ UpdatePolicy \/ CreatePolicy
  PROVE  Tally'
<1> DEFINE k == Current.key
<1>1. HasEntry /\ ~EntryFault(Current)
  BY DEF EntryOK, UpdatePolicy, CreatePolicy
<1>2. /\ pc = "entries" /\ Matching(k) = Like(start, k) /\ Got(k) = Holder(start, k) /\ Deleted = {}
  BY <1>1, EntryFacts
<1>3. lines = LinesOf(start, doc, next, {}, {})
  BY <1>2 DEF Tally, Begun, Passed
<1>4. /\ Like(start, k) = {} => LinesOf(start, doc, next + 1, {}, {}) = lines \cup {<<"CREATE", k>>}
      /\ Like(start, k) # {} /\ Holder(start, k).conf # Current.conf =>
           LinesOf(start, doc, next + 1, {}, {}) = lines \cup {<<"UPDATE", k>>}
      /\ Like(start, k) # {} /\ Holder(start, k).conf = Current.conf =>
           LinesOf(start, doc, next + 1, {}, {}) = lines
  BY <1>1, <1>3, LinesAdd
<1>5. CASE EntryOK
  BY <1>1, <1>2, <1>4, <1>5, EntryTally DEF EntryOK
<1>6. CASE UpdatePolicy
  <2>1. (next' = next + 1 /\ pc' = pc) \/ End("failed")
    BY <1>6 DEF UpdatePolicy
  <2> QED BY <1>1, <1>2, <1>4, <1>6, <2>1, EntryTally DEF UpdatePolicy
<1>7. CASE CreatePolicy
  <2>1. (next' = next + 1 /\ pc' = pc) \/ End("failed")
    BY <1>7 DEF CreatePolicy
  <2> QED BY <1>1, <1>2, <1>4, <1>7, <2>1, EntryTally DEF CreatePolicy
<1> QED BY <1>5, <1>6, <1>7

LEMMA DeleteTally ==
  ASSUME Inv, Tally, NEW p \in victims, DeletePolicy(p)
  PROVE  Tally'
<1>1. /\ pc = "prune" /\ ~Ambiguous(p.key) /\ lines' = lines \cup {<<"DELETE", p.key>>}
      /\ UNCHANGED <<doc, pass, planned, start, moved>>
      /\ \/ victims' = victims \ {p} /\ UNCHANGED <<pc, next>>
         \/ End("failed")
  BY DEF DeletePolicy
<1>2. /\ p \in Doomed(start, doc) /\ victims \subseteq Doomed(start, doc)
      /\ next \in 1..(Len(doc.entries) + 1)
  BY <1>1, VictimFacts DEF Inv, Course, Begun
<1>3. Deleted \cup {p} \in SUBSET Doomed(start, doc)
  BY <1>1, <1>2 DEF Deleted
<1>4. lines = LinesOf(start, doc, next, Deleted, {}) /\ moved = Cardinality(MovesOf(start, doc, {}))
  BY <1>1 DEF Tally, Begun, Passed
<1>5. lines' = LinesOf(start, doc, next, Deleted \cup {p}, {})
  BY <1>1, <1>4 DEF LinesOf
<1>6. CASE victims' = victims \ {p} /\ UNCHANGED <<pc, next>>
  <2>1. Deleted' = Deleted \cup {p}
    BY <1>1, <1>2, <1>6 DEF Deleted
  <2>2. Begun' /\ Passed' = {}
    BY <1>1, <1>6 DEF Begun, Passed
  <2> QED BY <1>1, <1>2, <1>3, <1>4, <1>5, <1>6, <2>1, <2>2, LogTally
<1>7. CASE End("failed")
  <2>1. ~Begun' /\ pc' # "applied"
    BY <1>7 DEF End, Begun
  <2> QED BY <1>1, <1>2, <1>3, <1>4, <1>5, <2>1, LogTally
<1> QED BY <1>1, <1>6, <1>7

LEMMA PairTally ==
  ASSUME Inv, Tally, NEW pair, OrderOK(pair) \/ Reorder(pair)
  PROVE  Tally'
<1>1. /\ pc = "order" /\ pair \in pairs /\ UNCHANGED <<doc, pass, planned, start>>
      /\ \/ pairs' = pairs \ {pair} /\ UNCHANGED <<pc, next, victims>>
         \/ End("failed")
  BY DEF OrderOK, Reorder
<1>2. /\ existing = start /\ start \in Seq(Policy) /\ doc \in Documents /\ Deleted = Doomed(start, doc)
      /\ pair \in ListedPairs(doc) /\ pairs \subseteq ListedPairs(doc)
      /\ next \in 1..(Len(doc.entries) + 1)
  BY <1>1, OrderFacts DEF Inv, Course, Begun
<1>3. /\ lines = LinesOf(start, doc, next, Deleted, Passed)
      /\ moved = Cardinality(MovesOf(start, doc, Passed))
  BY <1>1 DEF Tally, Begun
<1>4. Passed \in SUBSET ListedPairs(doc) /\ pair \notin Passed /\ Passed \cup {pair} \in SUBSET ListedPairs(doc)
  BY <1>1, <1>2 DEF Passed
<1>5. /\ lines' = LinesOf(start, doc, next, Deleted, Passed \cup {pair})
      /\ moved' = Cardinality(MovesOf(start, doc, Passed \cup {pair}))
  <2>1. /\ Fits(start, doc, pair) => MovesOf(start, doc, Passed \cup {pair}) = MovesOf(start, doc, Passed)
        /\ ~Fits(start, doc, pair) =>
             Cardinality(MovesOf(start, doc, Passed \cup {pair}))
                = Cardinality(MovesOf(start, doc, Passed)) + Cardinality(Shifted(start, doc, pair))
    BY <1>2, <1>4, MovesAdd
  <2>2. CASE OrderOK(pair)
    <3>1. Fits(start, doc, pair) /\ UNCHANGED <<lines, moved>>
      BY <1>2, <2>2, OrderMirror DEF OrderOK
    <3>2. lines = LinesOf(start, doc, next, Deleted, Passed \cup {pair})
      BY <1>3, <3>1 DEF LinesOf
    <3> QED BY <1>3, <2>1, <3>1, <3>2
  <2>3. CASE Reorder(pair)
    <3>1. /\ ~Fits(start, doc, pair) /\ lines' = lines \cup {<<"ORDER", pair>>}
          /\ moved' = moved + Cardinality(Shifted(start, doc, pair))
      BY <2>3, ReorderIs
    <3>2. lines' = LinesOf(start, doc, next, Deleted, Passed \cup {pair})
      BY <1>3, <3>1 DEF LinesOf
    <3> QED BY <1>3, <2>1, <3>1, <3>2
  <2> QED BY <2>2, <2>3
<1>6. CASE pairs' = pairs \ {pair} /\ UNCHANGED <<pc, next, victims>>
  <2>1. Begun' /\ Deleted' = Deleted
    BY <1>1, <1>6 DEF Begun, Deleted
  <2>2. Passed' = Passed \cup {pair}
    BY <1>1, <1>2, <1>6 DEF Passed
  <2> QED BY <1>1, <1>2, <1>4, <1>5, <1>6, <2>1, <2>2, LogTally
<1>7. CASE End("failed")
  <2>1. ~Begun' /\ pc' # "applied"
    BY <1>7 DEF End, Begun
  <2> QED BY <1>1, <1>2, <1>4, <1>5, <2>1, LogTally
<1> QED BY <1>1, <1>6, <1>7

\* A pass that is through has logged everything.
LEMMA DoneTally ==
  ASSUME Inv, Tally, PassDone
  PROVE  lines = AllLines(start, doc) /\ moved = Cardinality(AllMoves(start, doc))
<1>1. /\ pc = "order" /\ pairs = {} /\ Deleted = Doomed(start, doc) /\ next = Len(doc.entries) + 1
  BY OrderFacts DEF PassDone
<1>2. Passed = ListedPairs(doc)
  BY <1>1 DEF Passed
<1> QED BY <1>1, <1>2 DEF Tally, Begun, AllLines, AllMoves

LEMMA NextTally == Inv /\ Tally /\ [Next]_vars => Tally'
<1> SUFFICES ASSUME Inv, Tally, [Next]_vars PROVE Tally'
  OBVIOUS
<1>0. start \in Seq(Policy) /\ doc \in Documents
  BY DEF Inv, TypeOK
<1>1. CASE UNCHANGED vars
  <2>1. UNCHANGED <<doc, start, pass, pc, next, victims, pairs, lines, moved, planned>>
    BY <1>1 DEF vars, passVars
  <2>2. Deleted' = Deleted /\ Passed' = Passed /\ Begun' = Begun
    BY <2>1 DEF Deleted, Passed, Begun
  <2> QED BY <2>1, <2>2 DEF Tally
<1>2. CASE StartRun
  <2>1. pass' = "plan" /\ pc' = "list"
    BY <1>2 DEF StartRun, BeginPass
  <2> QED BY <2>1 DEF Tally, Begun
<1>3. CASE FailEntry \/ RefuseDuplicates \/ (\E p \in victims : FailVictim(p))
           \/ (\E pair \in Pairs : FailOrder(pair)) \/ Kill
  <2>1. /\ End("failed") \/ End("killed")
        /\ UNCHANGED <<doc, pass, planned, start, lines, moved>>
    BY <1>3 DEF FailEntry, RefuseDuplicates, FailVictim, FailOrder, Kill
  <2>2. ~Begun' /\ pc' # "applied"
    BY <2>1 DEF End, Begun
  <2> QED BY <2>1, <2>2, QuietTally
<1>4. CASE List
  <2>1. /\ pc = "list" /\ pc' = "entries" /\ next = 1 /\ lines = {} /\ moved = 0
        /\ UNCHANGED <<doc, start, pass, next, lines, moved, planned>>
    BY <1>4 DEF List, Inv, Course, Begun
  <2>2. Begun' /\ Deleted' = {} /\ Passed' = {}
    BY <2>1 DEF Begun, Deleted, Passed
  <2>3. \A e \in DOMAIN doc.entries : ~(e < 1)
    BY <1>0, DocFacts
  <2>4. LinesOf(start, doc, 1, {}, {}) = {}
    BY <2>3 DEF LinesOf, Created, Changed, Upto
  <2>5. MovesOf(start, doc, {}) = {} /\ Cardinality({}) = 0
    BY FS_EmptySet DEF MovesOf
  <2>6. 1 \in 1..(Len(doc.entries) + 1) /\ {} \in SUBSET Doomed(start, doc) /\ {} \in SUBSET ListedPairs(doc)
    BY <1>0, DocFacts
  <2> QED BY <2>1, <2>2, <2>4, <2>5, <2>6, LogTally
<1>5. CASE EntryOK \/ UpdatePolicy \/ CreatePolicy
  BY <1>5, EntryStepsTally
<1>6. CASE \E p \in victims : DeletePolicy(p)
  BY <1>6, DeleteTally
<1>7. CASE \E pair \in Pairs : OrderOK(pair) \/ Reorder(pair)
  BY <1>7, PairTally
<1>8. CASE BeginPrune
  <2>1. /\ pc = "entries" /\ pc' = "prune" /\ existing = start
        /\ victims' = {p \in ToSet(existing) : doc.prune /\ ~p.system /\ ~Declares(p.key)}
        /\ UNCHANGED <<doc, start, pass, next, lines, moved, planned>>
    BY <1>8 DEF BeginPrune, Inv, Course, Begun
  <2>2. Begun /\ Begun' /\ Passed = {} /\ Passed' = {} /\ Deleted = {} /\ Deleted' = {}
    BY <2>1, DocMirror DEF Begun, Deleted, Passed, Doomed
  <2> QED BY <2>1, <2>2 DEF Tally
<1>9. CASE BeginOrder
  <2>1. /\ pc = "prune" /\ pc' = "order"
        /\ pairs' = {doc.entries[e].key[1] : e \in DOMAIN doc.entries}
        /\ UNCHANGED <<doc, start, pass, next, victims, lines, moved, planned>>
    BY <1>9 DEF BeginOrder, Entries
  <2>2. Begun /\ Begun' /\ Passed = {} /\ Passed' = {} /\ Deleted' = Deleted
    BY <2>1 DEF Begun, Deleted, Passed, ListedPairs
  <2> QED BY <2>1, <2>2 DEF Tally
<1>10. CASE FinishPlan
  <2>1. /\ PassDone /\ pass = "plan" /\ planned' = [lines |-> lines, moved |-> moved]
        /\ UNCHANGED <<doc, start>>
        /\ \/ pc' = "clean" /\ pass' = pass
           \/ pc' = "list" /\ pass' = "write" /\ lines' = {} /\ moved' = 0
    BY <1>10 DEF FinishPlan, End, BeginPass
  <2>2. lines = AllLines(start, doc) /\ moved = Cardinality(AllMoves(start, doc)) /\ moved \in Nat
    BY <2>1, DoneTally DEF Inv, TypeOK
  <2>3. planned'.lines = AllLines(start, doc) /\ planned'.moved = Cardinality(AllMoves(start, doc))
    BY <2>1, <2>2
  <2>4. ~Begun' /\ pc' # "applied"
    BY <2>1 DEF Begun
  <2> QED BY <2>1, <2>2, <2>3, <2>4 DEF Tally
<1>11. CASE FinishWrite
  <2>1. /\ PassDone /\ pass = "write" /\ pc' = "applied"
        /\ UNCHANGED <<doc, start, pass, planned, lines, moved>>
    BY <1>11 DEF FinishWrite, End
  <2>2. lines = AllLines(start, doc) /\ moved = Cardinality(AllMoves(start, doc))
    BY <2>1, DoneTally
  <2>3. ~Begun'
    BY <2>1 DEF Begun
  <2> QED BY <2>1, <2>2, <2>3 DEF Tally
<1> QED BY <1>1, <1>2, <1>3, <1>4, <1>5, <1>6, <1>7, <1>8, <1>9, <1>10, <1>11 DEF Next, RunStep

-----------------------------------------------------------------------------
(* The order on the console *)

\* Deleting one leaves the others in their order.
LEMMA DroppedOrder ==
  ASSUME NEW s \in Seq(Policy), NEW x, NEW u, NEW v, u # x, v # x, Ahead(s, u, v)
  PROVE  Ahead(At(s, {i \in DOMAIN s : s[i].uid # x}), u, v)
<1> DEFINE P == {i \in DOMAIN s : s[i].uid # x}
           r == At(s, P)
<1>1. PICK i \in DOMAIN s, j \in DOMAIN s : i < j /\ s[i].uid = u /\ s[j].uid = v
  BY DEF Ahead
<1>2. i \in P /\ j \in P /\ P \in SUBSET DOMAIN s
  BY <1>1
<1> HIDE DEF P
<1>3. /\ DOMAIN r = 1..Cardinality(P) /\ Cardinality(P) \in Nat
      /\ \A n \in DOMAIN r : Nth(P, n) \in P /\ r[n] = s[Nth(P, n)]
      /\ \A m, n \in DOMAIN r : m < n => Nth(P, m) < Nth(P, n)
      /\ \A k \in P : \E n \in DOMAIN r : Nth(P, n) = k
  BY <1>2, AtFacts
<1> HIDE DEF r
<1>4. PICK m \in DOMAIN r : Nth(P, m) = i
  BY <1>2, <1>3
<1>5. PICK n \in DOMAIN r : Nth(P, n) = j
  BY <1>2, <1>3
<1>6. m \in Int /\ n \in Int /\ i \in Int /\ j \in Int
  BY <1>2, <1>3, PositionsFinite
<1>7. m < n
  BY <1>1, <1>3, <1>4, <1>5, <1>6
<1>8. Ahead(r, u, v)
  BY <1>1, <1>3, <1>4, <1>5, <1>7 DEF Ahead
<1> QED BY <1>8 DEF r, P

\* A policy of the start's is on the console under the identity it had.
LEMMA StartFacts ==
  ASSUME Inv, Live, NEW q \in ToSet(start), NEW p \in ToSet(policies), p.uid = q.uid
  PROVE  Same(p, q)
<1>1. Distinct(start)
  BY DEF Inv
<1>2. ~Fresh(p)
  BY DEF Live, Fresh
<1>3. PICK x \in ToSet(start) : Same(p, x)
  BY <1>2 DEF Live, Kept
<1>4. x = q
  BY <1>1, <1>3, OneObject DEF Same
<1> QED BY <1>3, <1>4

\* Steps that leave the console and what has been made alone.
LEMMA SameOrder ==
  ASSUME Order, Faithful, UNCHANGED <<policies, doc, start, made>>, Moved' = Moved
  PROVE  Order'
<1>1. \A k : UidOf(k)' = UidOf(k)
  BY DEF UidOf
<1> QED BY <1>1 DEF Order, Arranged

LEMMA NotFaithful == ASSUME ~Faithful' PROVE Order'
BY DEF Order

\* Before the order of the pairs, only the first half says anything.
LEMMA UnmovedOrder ==
  ASSUME Moved' = {}, start' = start,
         \A p, q \in ToSet(start) :
           /\ Holds(policies', p.uid) /\ Holds(policies', q.uid) /\ Ahead(start, p.uid, q.uid)
           /\ p.key[1] = q.key[1]
           => Ahead(policies', p.uid, q.uid)
  PROVE  Order'
BY DEF Order, Arranged

LEMMA UpdateOrder == ASSUME Inv, Order, UpdatePolicy, Faithful' PROVE Order'
<1> DEFINE g == Holder(start, Current.key)
<1>1. /\ HasEntry /\ ~EntryFault(Current) /\ lines' # {} /\ Matching(Current.key) # {}
      /\ UNCHANGED <<doc, pass, start>>
  BY DEF UpdatePolicy
<1>2. pc = "entries" /\ Got(Current.key) = g /\ Current.conf \in Confs
  BY <1>1, EntryFacts
<1>3. PICK r : r = Update(policies, g.uid, Current.conf)
  OBVIOUS
<1>4. PICK answer \in Answers :
        Mutate(r, answer) /\ IF answer = "done" THEN UNCHANGED pc ELSE End("failed")
  BY <1>2, <1>3 DEF UpdatePolicy
<1>5. answer = "done" /\ pc' = "entries" /\ pass = "write"
  BY <1>1, <1>2, <1>4 DEF Faithful, Begun, End
<1>6. policies' = r /\ Faithful
  BY <1>2, <1>4, <1>5 DEF Mutate, DryRun, Faithful, Begun
<1>7. policies \in Seq(Policy) /\ Distinct(policies)
  BY DEF Inv, TypeOK, Distinct
<1>8. DOMAIN r = DOMAIN policies /\ \A i \in DOMAIN policies : r[i].uid = policies[i].uid
  BY <1>2, <1>3, <1>7, UpdatedFacts DEF Same
<1>9. \A u, v : Ahead(policies, u, v) => Ahead(r, u, v)
  BY <1>8 DEF Ahead
<1>10. \A u : Holds(r, u) => Holds(policies, u)
  BY <1>8 DEF Holds
<1>11. Moved = {} /\ Moved' = {}
  BY <1>2, <1>5 DEF Moved, Passed
<1> QED BY <1>1, <1>6, <1>9, <1>10, <1>11, UnmovedOrder DEF Order, Arranged

LEMMA CreateOrder == ASSUME Inv, Order, CreatePolicy, Faithful' PROVE Order'
<1> DEFINE uid == CHOOSE u \in Unused(policies) : TRUE
           new == [uid |-> uid, key |-> Current.key, conf |-> Current.conf,
                   system |-> FALSE, fixed |-> FALSE, hasId |-> TRUE]
<1>1. /\ HasEntry /\ ~EntryFault(Current) /\ lines' # {} /\ Unused(policies) # {}
      /\ UNCHANGED <<doc, pass, start>>
  BY DEF CreatePolicy
<1>2. pc = "entries" /\ Current.key \in Keys /\ Current.conf \in Confs /\ Deleted = {}
  BY <1>1, EntryFacts
<1>3. PICK answer \in Answers, place \in 1..(Len(policies) + 1) :
        /\ Mutate(InsertAt(policies, place, new), answer)
        /\ IF answer = "done" THEN UNCHANGED pc ELSE End("failed")
  BY DEF CreatePolicy
<1>4. new \in Policy /\ new.uid \in Unused(policies)
  <2>1. uid \in Unused(policies) /\ uid \in Uids
    BY <1>1 DEF Unused
  <2>2. new.uid = uid
    OBVIOUS
  <2> HIDE DEF uid
  <2>3. new \in Policy
    BY <1>2, <2>1 DEF Policy
  <2> QED BY <2>1, <2>2, <2>3
<1> HIDE DEF new, uid
<1>5. PICK r : r = InsertAt(policies, place, new)
  OBVIOUS
<1>6. answer = "done" /\ pc' = "entries" /\ pass = "write"
  BY <1>1, <1>2, <1>3 DEF Faithful, Begun, End
<1>7. policies' = r /\ Faithful
  BY <1>2, <1>3, <1>5, <1>6 DEF Mutate, DryRun, Faithful, Begun
<1>8. policies \in Seq(Policy) /\ Distinct(policies) /\ Live
  BY <1>7 DEF Inv, TypeOK, Distinct
<1>9. \A i, j \in DOMAIN policies : i < j => Ahead(r, policies[i].uid, policies[j].uid)
  BY <1>4, <1>5, <1>8, AddedFacts
<1>10. \A u, v : Ahead(policies, u, v) => Ahead(r, u, v)
  <2> SUFFICES ASSUME NEW u, NEW v, Ahead(policies, u, v) PROVE Ahead(r, u, v)
    OBVIOUS
  <2>1. PICK i \in DOMAIN policies, j \in DOMAIN policies :
          i < j /\ policies[i].uid = u /\ policies[j].uid = v
    BY DEF Ahead
  <2> QED BY <1>9, <2>1
<1>11. \A q \in ToSet(start) : Holds(policies, q.uid)
  BY <1>2, <1>8 DEF Live
<1>12. Moved = {} /\ Moved' = {}
  BY <1>2, <1>6 DEF Moved, Passed
<1> QED BY <1>1, <1>7, <1>10, <1>11, <1>12, UnmovedOrder DEF Order, Arranged

LEMMA DeleteOrder == ASSUME Inv, Order, NEW p \in victims, DeletePolicy(p), Faithful' PROVE Order'
<1>1. pc = "prune" /\ ~Ambiguous(p.key) /\ lines' # {} /\ UNCHANGED <<doc, pass, start>>
  BY DEF DeletePolicy
<1>2. PICK r : r = At(policies, {i \in DOMAIN policies : policies[i].uid # p.uid})
  OBVIOUS
<1>3. PICK answer \in Answers :
        Mutate(r, answer) /\ IF answer = "done" THEN UNCHANGED pc ELSE End("failed")
  BY <1>2 DEF DeletePolicy
<1>4. answer = "done" /\ pc' = "prune" /\ pass = "write"
  BY <1>1, <1>3 DEF Faithful, Begun, End
<1>5. policies' = r /\ Faithful
  BY <1>1, <1>3, <1>4 DEF Mutate, DryRun, Faithful, Begun
<1>6. policies \in Seq(Policy) /\ Distinct(policies)
  BY DEF Inv, TypeOK, Distinct
<1>7. ToSet(r) = {q \in ToSet(policies) : q.uid # p.uid}
  BY <1>2, <1>6, DroppedFacts
<1>8. \A u : Holds(r, u) => Holds(policies, u) /\ u # p.uid
  <2>1. \A u : Holds(r, u) => \E q \in ToSet(r) : q.uid = u
    BY DEF Holds, ToSet
  <2>2. \A u : (\E q \in ToSet(policies) : q.uid = u) => Holds(policies, u)
    BY DEF Holds, ToSet
  <2> QED BY <1>7, <2>1, <2>2
<1>9. \A u, v : Ahead(policies, u, v) /\ u # p.uid /\ v # p.uid => Ahead(r, u, v)
  BY <1>2, <1>6, DroppedOrder
<1>10. Moved = {} /\ Moved' = {}
  BY <1>1, <1>4 DEF Moved, Passed
<1> QED BY <1>1, <1>5, <1>8, <1>9, <1>10, UnmovedOrder DEF Order, Arranged

LEMMA ReorderOrder == ASSUME Inv, Order, NEW pair, Reorder(pair), Faithful' PROVE Order'
<1> DEFINE us == UidsOf(Want(start, doc, pair))
<1>1. /\ pc = "order" /\ pair \in pairs /\ ~Fits(start, doc, pair) /\ lines' # {}
      /\ UNCHANGED <<doc, pass, start>>
  BY ReorderIs
<1>2. pass = "write"
  BY <1>1 DEF Faithful
<1>3. PICK r : r = Reordered(policies, pair, us)
  OBVIOUS
<1>4. PICK answer \in Answers :
        /\ Mutate(r, answer)
        /\ IF answer = "done"
           THEN pairs' = pairs \ {pair} /\ UNCHANGED <<pc, existing, next, victims, made>>
           ELSE End("failed")
  BY <1>2, <1>3, ReorderIs DEF DryRun
<1>5. answer = "done"
  BY <1>4 DEF Faithful, Begun, End
<1>6. policies' = r /\ pairs' = pairs \ {pair} /\ UNCHANGED <<pc, made>> /\ Live /\ Arranged
  BY <1>1, <1>2, <1>4, <1>5 DEF Mutate, DryRun, Faithful, Begun, Inv, Order
<1>7. policies \in Seq(Policy) /\ Distinct(policies) /\ start \in Seq(Policy) /\ doc \in Documents
  BY DEF Inv, TypeOK, Distinct
<1>8. us \in Seq(Uids) /\ Nameable(policies, pair, us)
  BY <1>1, <1>6, WantIsNameable
<1>9. /\ DOMAIN r = DOMAIN policies /\ ToSet(r) = ToSet(policies)
      /\ \A i \in DOMAIN policies : i \notin Named(policies, pair) => r[i] = policies[i]
      /\ \A a, b \in DOMAIN us : a < b =>
           \A i, j \in DOMAIN r : r[i].uid = us[a] /\ r[j].uid = us[b] => i < j
  BY <1>3, <1>7, <1>8, ReorderedFacts
<1>10. \A k : UidOf(k)' = UidOf(k)
  BY <1>1, <1>6 DEF UidOf
<1>11. Moved' = Moved \cup {pair} /\ Moved \subseteq ListedPairs(doc)
  <2>1. pairs \subseteq ListedPairs(doc)
    BY DEF Inv, Course
  <2>2. Passed' = Passed \cup {pair}
    BY <1>1, <1>6, <2>1 DEF Passed
  <2> QED BY <1>1, <2>2 DEF Moved, Passed
<1>12. \A u, v : Ahead(policies, u, v)
                 /\ (\A p \in ToSet(policies) : p.uid \in {u, v} => p.key[1] # pair) => Ahead(r, u, v)
  <2> SUFFICES ASSUME NEW u, NEW v, Ahead(policies, u, v),
                      \A p \in ToSet(policies) : p.uid \in {u, v} => p.key[1] # pair
               PROVE  Ahead(r, u, v)
    OBVIOUS
  <2>1. PICK i \in DOMAIN policies, j \in DOMAIN policies :
          i < j /\ policies[i].uid = u /\ policies[j].uid = v
    BY DEF Ahead
  <2>2. policies[i] \in ToSet(policies) /\ policies[j] \in ToSet(policies)
    BY DEF ToSet
  <2>3. i \notin Named(policies, pair) /\ j \notin Named(policies, pair)
    BY <2>1, <2>2 DEF Named
  <2> QED BY <1>9, <2>1, <2>3 DEF Ahead
<1>13. ASSUME NEW p \in ToSet(start), NEW q \in ToSet(start), p.key[1] = q.key[1],
              p.key[1] \notin Moved', Holds(policies', p.uid), Holds(policies', q.uid),
              Ahead(start, p.uid, q.uid)
       PROVE  Ahead(policies', p.uid, q.uid)
  <2>1. Holds(policies, p.uid) /\ Holds(policies, q.uid)
    <3>1. \A u : Holds(r, u) => \E x \in ToSet(r) : x.uid = u
      BY DEF Holds, ToSet
    <3>2. \A u : (\E x \in ToSet(policies) : x.uid = u) => Holds(policies, u)
      BY DEF Holds, ToSet
    <3> QED BY <1>6, <1>9, <1>13, <3>1, <3>2
  <2>2. p.key[1] \notin Moved /\ p.key[1] # pair
    BY <1>11, <1>13
  <2>3. Ahead(policies, p.uid, q.uid)
    BY <1>6, <1>13, <2>1, <2>2 DEF Arranged
  <2>4. \A x \in ToSet(policies) : x.uid \in {p.uid, q.uid} => x.key[1] # pair
    BY <1>6, <1>13, <2>2, StartFacts DEF Same
  <2> QED BY <1>6, <1>12, <2>3, <2>4
<1>14. ASSUME NEW two \in Moved', NEW m \in DOMAIN Want(start, doc, two),
              NEW n \in DOMAIN Want(start, doc, two), m < n
       PROVE  Ahead(policies', UidOf(Want(start, doc, two)[m]), UidOf(Want(start, doc, two)[n]))
  <2> DEFINE w == Want(start, doc, two)
  <2>1. /\ w[m] \in Listed(doc) /\ w[n] \in Listed(doc) /\ w[m][1] = two /\ w[n][1] = two
    BY <1>7, WantFacts
  <2>2. CASE two \in Moved /\ two # pair
    <3>1. Ahead(policies, UidOf(w[m]), UidOf(w[n]))
      BY <1>6, <1>14, <2>2 DEF Arranged
    <3>2. \A x \in ToSet(policies) : x.uid \in {UidOf(w[m]), UidOf(w[n])} => x.key[1] # pair
      BY <1>1, <1>6, <2>1, <2>2, UidLives
    <3> QED BY <1>6, <1>12, <3>1, <3>2
  <2>3. CASE two = pair
    <3>1. m \in DOMAIN us /\ n \in DOMAIN us /\ us[m] = UidOf(w[m]) /\ us[n] = UidOf(w[n])
      BY <2>3 DEF UidsOf
    <3>2. PICK p \in ToSet(policies) : p.uid = UidOf(w[m])
      BY <1>1, <1>6, <2>1, UidLives
    <3>3. PICK q \in ToSet(policies) : q.uid = UidOf(w[n])
      BY <1>1, <1>6, <2>1, UidLives
    <3>4. PICK i \in DOMAIN r : r[i] = p
      BY <1>9 DEF ToSet
    <3>5. PICK j \in DOMAIN r : r[j] = q
      BY <1>9 DEF ToSet
    <3>6. i < j
      BY <1>9, <1>14, <3>1, <3>2, <3>3, <3>4, <3>5
    <3>7. Ahead(r, UidOf(w[m]), UidOf(w[n]))
      BY <3>2, <3>3, <3>4, <3>5, <3>6 DEF Ahead
    <3> QED BY <1>6, <3>7
  <2> QED BY <1>11, <2>2, <2>3
<1> QED BY <1>1, <1>10, <1>13, <1>14 DEF Order, Arranged

LEMMA InitOrder == Init => Order
BY DEF Init, Order, Faithful, Begun

LEMMA NextOrder == Inv /\ Order /\ [Next]_vars => Order'
<1> SUFFICES ASSUME Inv, Order, [Next]_vars, Faithful' PROVE Order'
  BY NotFaithful
<1>1. CASE UNCHANGED vars
  <2>1. UNCHANGED <<policies, doc, start, made, pc, pass, lines, pairs>>
    BY <1>1 DEF vars, passVars
  <2>2. Moved' = Moved /\ Faithful
    BY <2>1 DEF Moved, Passed, Faithful, Begun
  <2> QED BY <2>1, <2>2, SameOrder
<1>2. CASE StartRun
  BY <1>2 DEF StartRun, BeginPass, Faithful, Begun
<1>3. CASE FailEntry \/ RefuseDuplicates \/ (\E p \in victims : FailVictim(p))
           \/ (\E pair \in Pairs : FailOrder(pair)) \/ FinishWrite \/ Kill \/ FinishPlan
  <2>1. pc' \in {"failed", "killed", "applied", "clean", "list"}
    BY <1>3 DEF FailEntry, RefuseDuplicates, FailVictim, FailOrder, FinishWrite, Kill, FinishPlan,
                End, BeginPass
  <2> QED BY <2>1 DEF Faithful, Begun
<1>4. CASE List
  <2>1. pc' = "entries" /\ policies = start /\ UNCHANGED <<policies, doc, start>>
    BY <1>4 DEF List, Inv, Course
  <2>2. Moved' = {}
    BY <2>1 DEF Moved, Passed
  <2> QED BY <2>1, <2>2, UnmovedOrder
<1>5. CASE EntryOK
  <2>1. pc' = pc /\ UNCHANGED <<policies, doc, start, made, pairs, lines, pass>>
    BY <1>5 DEF EntryOK
  <2>2. Moved' = Moved /\ Faithful
    BY <2>1 DEF Moved, Passed, Faithful, Begun
  <2> QED BY <2>1, <2>2, SameOrder
<1>6. CASE UpdatePolicy
  BY <1>6, UpdateOrder
<1>7. CASE CreatePolicy
  BY <1>7, CreateOrder
<1>8. CASE BeginPrune
  <2>1. /\ pc = "entries" /\ pc' = "prune" /\ UNCHANGED <<policies, doc, start, made, pairs, lines, pass>>
    BY <1>8 DEF BeginPrune
  <2>2. Moved' = Moved /\ Faithful
    BY <2>1 DEF Moved, Passed, Faithful, Begun
  <2> QED BY <2>1, <2>2, SameOrder
<1>9. CASE \E p \in victims : DeletePolicy(p)
  BY <1>9, DeleteOrder
<1>10. CASE BeginOrder
  <2>1. /\ pc = "prune" /\ pc' = "order" /\ UNCHANGED <<policies, doc, start, made, lines, pass>>
        /\ pairs' = {doc.entries[e].key[1] : e \in DOMAIN doc.entries}
    BY <1>10 DEF BeginOrder, Entries
  <2>2. Moved' = {} /\ Moved = {} /\ Faithful
    BY <2>1 DEF Moved, Passed, Faithful, Begun, ListedPairs
  <2> QED BY <2>1, <2>2, SameOrder
<1>11. CASE \E pair \in Pairs : OrderOK(pair)
  <2>1. PICK pair : OrderOK(pair)
    BY <1>11
  <2>2. /\ pc = "order" /\ pair \in pairs /\ pairs' = pairs \ {pair} /\ existing = start
        /\ UNCHANGED <<policies, doc, start, made, lines, pass, pc>>
    BY <2>1, OrderFacts DEF OrderOK
  <2>3. Fits(start, doc, pair)
    BY <2>1, <2>2, OrderMirror DEF OrderOK
  <2>4. Moved' = Moved /\ Faithful
    BY <2>2, <2>3 DEF Moved, Passed, Faithful, Begun
  <2> QED BY <2>2, <2>4, SameOrder
<1>12. CASE \E pair \in Pairs : Reorder(pair)
  BY <1>12, ReorderOrder
<1> QED BY <1>1, <1>2, <1>3, <1>4, <1>5, <1>6, <1>7, <1>8, <1>9, <1>10, <1>11, <1>12 DEF Next, RunStep

-----------------------------------------------------------------------------
(* Ranks *)

\* Of two declared identities the one ahead has the lower rank.
LEMMA RankLess ==
  ASSUME NEW s \in Seq(Policy), NEW ks, NEW k \in ks, NEW l \in ks,
         NEW a \in DOMAIN s, s[a].key = k, NEW b \in DOMAIN s, s[b].key = l,
         \A i, j \in DOMAIN s : s[i].key = k /\ s[j].key = l => i < j
  PROVE  Rank(s, k, ks) < Rank(s, l, ks)
<1> DEFINE A == {i \in DOMAIN s : s[i].key \in ks /\ \E j \in DOMAIN s : s[j].key = k /\ i <= j}
           B == {i \in DOMAIN s : s[i].key \in ks /\ \E j \in DOMAIN s : s[j].key = l /\ i <= j}
<1>1. DOMAIN s = 1..Len(s) /\ Len(s) \in Nat
  BY LenProperties
<1>2. A \in SUBSET B
  <2> SUFFICES ASSUME NEW i \in A PROVE i \in B
    OBVIOUS
  <2>1. PICK j \in DOMAIN s : s[j].key = k /\ i <= j
    OBVIOUS
  <2>2. i \in Int /\ j < b /\ j \in Int /\ b \in Int
    BY <1>1, <2>1
  <2>3. i <= b
    BY <2>1, <2>2
  <2> QED BY <2>3
<1>3. b \in B /\ b \notin A
  BY <1>1
<1>4. B \in SUBSET DOMAIN s
  OBVIOUS
<1> HIDE DEF A, B
<1>5. IsFiniteSet(B) /\ Cardinality(B) \in Nat /\ Cardinality(A) \in Nat
      /\ Cardinality(A) <= Cardinality(B)
  BY <1>2, <1>4, PositionsFinite
<1>6. Cardinality(A) # Cardinality(B)
  BY <1>2, <1>3, <1>5, FS_Subset
<1>7. Cardinality(A) < Cardinality(B)
  BY <1>5, <1>6
<1> QED BY <1>7 DEF Rank, A, B

\* c lists identities, each of which s has once, in the order s has them.
InOrderOf(s, c) ==
  /\ \A n \in DOMAIN c : \E i \in DOMAIN s : s[i].key = c[n]
  /\ \A n \in DOMAIN c : \A i, j \in DOMAIN s : s[i].key = c[n] /\ s[j].key = c[n] => i = j
  /\ \A m, n \in DOMAIN c : m < n =>
       \A i, j \in DOMAIN s : s[i].key = c[m] /\ s[j].key = c[n] => i < j

\* Then an identity's rank is its place in c.
LEMMA RankIsIndex ==
  ASSUME NEW s \in Seq(Policy), NEW c \in Seq(Keys), InOrderOf(s, c), NEW n \in DOMAIN c
  PROVE  Rank(s, c[n], ToSet(c)) = n
<1> DEFINE R == {i \in DOMAIN s : s[i].key \in ToSet(c) /\ \E j \in DOMAIN s : s[j].key = c[n] /\ i <= j}
           at(m) == CHOOSE i \in DOMAIN s : s[i].key = c[m]
           f == [m \in 1..n |-> at(m)]
<1>1. /\ DOMAIN s = 1..Len(s) /\ Len(s) \in Nat /\ DOMAIN c = 1..Len(c) /\ Len(c) \in Nat
      /\ n \in Nat /\ 1..n \subseteq DOMAIN c
  BY LenProperties
<1>2. ASSUME NEW m \in DOMAIN c PROVE at(m) \in DOMAIN s /\ s[at(m)].key = c[m]
  BY DEF InOrderOf
<1> HIDE DEF at
<1>3. ASSUME NEW l \in DOMAIN c, NEW m \in DOMAIN c, l < m PROVE at(l) < at(m)
  BY <1>2, <1>3 DEF InOrderOf
<1>4. ASSUME NEW m \in 1..n PROVE at(m) \in R
  <2>1. m \in DOMAIN c /\ (m < n \/ m = n)
    BY <1>1
  <2>2. at(m) <= at(n)
    <3>1. at(m) \in Int /\ at(n) \in Int
      BY <1>1, <1>2, <2>1
    <3>2. m < n => at(m) < at(n)
      BY <1>3, <2>1
    <3> QED BY <2>1, <3>1, <3>2
  <2>3. s[at(m)].key \in ToSet(c)
    BY <1>2, <2>1 DEF ToSet
  <2> QED BY <1>2, <2>1, <2>2, <2>3
<1>5. ASSUME NEW l \in 1..n, NEW m \in 1..n, at(l) = at(m) PROVE l = m
  <2>1. l \in DOMAIN c /\ m \in DOMAIN c /\ l \in Int /\ m \in Int
    BY <1>1
  <2>2. at(l) \in DOMAIN s
    BY <1>2, <2>1
  <2>3. at(l) \in Int
    BY <1>1, <2>2
  <2>4. ~(at(l) < at(l))
    BY <2>3
  <2>5. ~(l < m) /\ ~(m < l)
    BY <1>3, <1>5, <2>1, <2>4
  <2> QED BY <2>1, <2>5
<1>6. ASSUME NEW i \in R PROVE \E m \in 1..n : at(m) = i
  <2>1. PICK m \in DOMAIN c : s[i].key = c[m]
    BY DEF ToSet
  <2>2. PICK j \in DOMAIN s : s[j].key = c[n] /\ i <= j
    OBVIOUS
  <2>3. at(m) = i
    BY <1>2, <2>1 DEF InOrderOf
  <2>4. ~(n < m)
    <3>1. n < m => j < i
      BY <2>1, <2>2 DEF InOrderOf
    <3> QED BY <1>1, <2>2, <3>1
  <2>5. m \in 1..n
    BY <1>1, <2>4
  <2> QED BY <2>3, <2>5
<1> HIDE DEF R
<1>7. f \in Bijection(1..n, R)
  <2>1. f \in [1..n -> R] /\ \A m \in 1..n : f[m] = at(m)
    BY <1>4
  <2> HIDE DEF f
  <2>2. f \in Injection(1..n, R)
    BY <1>5, <2>1 DEF Injection, IsInjective
  <2>3. f \in Surjection(1..n, R)
    BY <1>6, <2>1 DEF Surjection
  <2> QED BY <2>2, <2>3 DEF Bijection
<1>8. IsFiniteSet(1..n) /\ Cardinality(1..n) = n
  BY <1>1, FS_Interval
<1> HIDE DEF f
<1>9. Cardinality(R) = n
  BY <1>7, <1>8, FS_Bijection DEF ExistsBijection
<1> QED BY <1>9 DEF Rank, R

\* A list without repetition is as long as what it lists.
LEMMA ListLength ==
  ASSUME NEW T, NEW c \in Seq(T), \A m, n \in DOMAIN c : c[m] = c[n] => m = n
  PROVE  Cardinality(ToSet(c)) = Len(c)
<1>1. DOMAIN c = 1..Len(c) /\ Len(c) \in Nat
  BY LenProperties
<1>2. IsFiniteSet(1..Len(c)) /\ Cardinality(1..Len(c)) = Len(c)
  BY <1>1, FS_Interval, SMTT(30)
<1>3. c \in Bijection(1..Len(c), ToSet(c))
  <2>1. c \in [1..Len(c) -> ToSet(c)]
    BY <1>1, LenProperties DEF ToSet
  <2>2. c \in Injection(1..Len(c), ToSet(c))
    BY <1>1, <2>1 DEF Injection, IsInjective
  <2>3. c \in Surjection(1..Len(c), ToSet(c))
    BY <1>1, <2>1 DEF Surjection, ToSet
  <2> QED BY <2>2, <2>3 DEF Bijection
<1> QED BY <1>2, <1>3, FS_Bijection DEF ExistsBijection

-----------------------------------------------------------------------------
(* What a run that is through leaves *)

\* A declared policy has one position, at the start and on the console.
LEMMA OnePosition ==
  ASSUME Inv, pc = "order", NEW k \in Listed(doc)
  PROVE  /\ \A i, j \in DOMAIN start : start[i].key = k /\ start[j].key = k => i = j
         /\ \A i \in DOMAIN start : start[i].key = k => k \notin DOMAIN made /\ start[i].uid = UidOf(k)
<1>1. /\ start \in Seq(Policy) /\ Distinct(start) /\ ~Clash(start, k)
      /\ DOMAIN made = {l \in Listed(doc) : Like(start, l) = {}}
  BY OrderFacts
<1>2. \A i \in DOMAIN start : start[i].key = k => start[i] \in Like(start, k)
  BY DEF Like, ToSet
<1>3. \A p, q \in Like(start, k) : p = q
  BY <1>1, HolderFacts
<1>4. ASSUME NEW i \in DOMAIN start, NEW j \in DOMAIN start, start[i].key = k, start[j].key = k
      PROVE  i = j
  BY <1>1, <1>2, <1>3, <1>4 DEF Distinct
<1>5. ASSUME NEW i \in DOMAIN start, start[i].key = k
      PROVE  k \notin DOMAIN made /\ start[i].uid = UidOf(k)
  <2>1. k \notin DOMAIN made
    BY <1>1, <1>2, <1>5
  <2>2. Holder(start, k) \in Like(start, k)
    BY <1>1, <1>2, <1>5, HolderFacts
  <2>3. Holder(start, k) = start[i]
    BY <1>2, <1>3, <1>5, <2>2
  <2> QED BY <2>1, <2>3 DEF UidOf
<1> QED BY <1>4, <1>5

LEMMA OneLivePosition ==
  ASSUME Inv, Live, pc = "order", NEW k \in Listed(doc)
  PROVE  /\ \E i \in DOMAIN policies : policies[i].key = k
         /\ \A i \in DOMAIN policies : policies[i].key = k <=> policies[i].uid = UidOf(k)
         /\ \A i, j \in DOMAIN policies : policies[i].key = k /\ policies[j].key = k => i = j
<1>1. \A i \in DOMAIN policies : policies[i] \in ToSet(policies)
  BY DEF ToSet
<1>2. \A p \in ToSet(policies) : \E i \in DOMAIN policies : policies[i] = p
  BY DEF ToSet
<1>3. \A i \in DOMAIN policies : policies[i].key = k <=> policies[i].uid = UidOf(k)
  BY <1>1, UidLives
<1>4. \E i \in DOMAIN policies : policies[i].key = k
  <2>1. PICK p \in ToSet(policies) : p.uid = UidOf(k)
    BY UidLives
  <2>2. PICK i \in DOMAIN policies : policies[i] = p
    BY <1>2
  <2> QED BY <1>3, <2>1, <2>2
<1>5. Distinct(policies)
  BY DEF Inv, TypeOK, Distinct
<1> QED BY <1>3, <1>4, <1>5 DEF Distinct

LEMMA LiveAhead ==
  ASSUME Inv, Live, pc = "order", NEW k \in Listed(doc), NEW l \in Listed(doc),
         Ahead(policies, UidOf(k), UidOf(l))
  PROVE  \A i, j \in DOMAIN policies : policies[i].key = k /\ policies[j].key = l => i < j
<1>1. PICK a \in DOMAIN policies, b \in DOMAIN policies :
        a < b /\ policies[a].uid = UidOf(k) /\ policies[b].uid = UidOf(l)
  BY DEF Ahead
<1> QED BY <1>1, OneLivePosition

\* The declared policies of the user's are those of the start's, and the new ones.
LEMMA MoversAreUsers ==
  ASSUME Inv, Live, pc = "order", NEW e \in DOMAIN doc.entries
  PROVE  e \in Movers(start, doc, doc.entries[e].key[1])
           <=> \A p \in ToSet(policies) : p.key = doc.entries[e].key => ~p.system
<1> DEFINE k == doc.entries[e].key
<1>1. k \in Listed(doc)
  BY DEF Listed
<1>2. /\ start \in Seq(Policy) /\ DOMAIN made = {l \in Listed(doc) : Like(start, l) = {}}
      /\ ~Clash(start, k)
  BY <1>1, OrderFacts
<1>3. e \in Movers(start, doc, k[1]) <=> ~\E p \in Like(start, k) : p.system
  BY DEF Movers
<1> HIDE DEF k
<1>4. CASE k \in DOMAIN made
  <2>1. Like(start, k) = {}
    BY <1>2, <1>4
  <2>2. ASSUME NEW p \in ToSet(policies), p.key = k PROVE ~p.system
    <3>1. ~Kept(p)
      <4> SUFFICES ASSUME NEW q \in ToSet(start), Same(p, q) PROVE FALSE
        BY DEF Kept
      <4>1. q \in Like(start, k)
        BY <2>2 DEF Like, Same
      <4> QED BY <2>1, <4>1
    <3> QED BY <3>1 DEF Live, Fresh
  <2> QED BY <1>3, <2>1, <2>2 DEF k
<1>5. CASE k \notin DOMAIN made
  <2> DEFINE g == Holder(start, k)
  <2>1. UidOf(k) = g.uid /\ g \in ToSet(start) /\ g.key = k
    BY <1>1, <1>5, UidFacts
  <2> HIDE DEF g
  <2>2. \A p \in ToSet(policies) : p.key = k => p.system = g.system
    BY <1>1, <2>1, UidLives, StartFacts DEF Same
  <2>3. \E p \in ToSet(policies) : p.key = k
    BY <1>1, UidLives
  <2>4. g \in Like(start, k) /\ \A p \in Like(start, k) : p = g
    <3>1. g \in Like(start, k)
      BY <2>1 DEF Like
    <3> QED BY <1>2, <3>1, HolderFacts
  <2>5. (\E p \in Like(start, k) : p.system) <=> g.system
    BY <2>4
  <2> QED BY <1>3, <2>2, <2>3, <2>5 DEF k
<1> QED BY <1>4, <1>5

\* A pair's policies that were there before, at the start.
LEMMA NowInOrder ==
  ASSUME Inv, pc = "order", NEW pair
  PROVE  LET c == Now(start, doc, pair)
         IN  /\ c \in Seq(Keys) /\ InOrderOf(start, c)
             /\ \A n \in DOMAIN c : c[n] \in MoverKeys(start, doc, pair) /\ c[n] \in Listed(doc)
                                    /\ c[n][1] = pair
             /\ \A n \in DOMAIN c : \E p \in ToSet(start) : /\ p.key = c[n] /\ p.uid = UidOf(c[n])
                                                            /\ p \notin Deleted
             /\ \A m, n \in DOMAIN c : m < n => Ahead(start, UidOf(c[m]), UidOf(c[n]))
             /\ \A k \in MoverKeys(start, doc, pair) :
                  (\E i \in DOMAIN start : start[i].key = k) => k \in ToSet(c)
             /\ \A m, n \in DOMAIN c : c[m] = c[n] => m = n
<1> DEFINE P == NowAt(start, doc, pair)
           c == Now(start, doc, pair)
<1>1. start \in Seq(Policy) /\ doc \in Documents /\ Deleted = Doomed(start, doc)
  BY OrderFacts
<1>2. /\ P \in SUBSET DOMAIN start /\ Cardinality(P) \in Nat /\ DOMAIN c = 1..Cardinality(P)
      /\ c \in Seq(Keys)
      /\ \A n \in DOMAIN c : Nth(P, n) \in P /\ c[n] = start[Nth(P, n)].key
      /\ \A m, n \in DOMAIN c : m < n => Nth(P, m) < Nth(P, n)
      /\ \A i \in P : \E n \in DOMAIN c : Nth(P, n) = i
  BY <1>1, NowFacts
<1>3. \A i \in DOMAIN start : i \in P <=> start[i].key \in MoverKeys(start, doc, pair)
  BY DEF NowAt
<1> HIDE DEF P, c
<1>4. \A k \in MoverKeys(start, doc, pair) : k \in Listed(doc) /\ k[1] = pair
  BY DEF MoverKeys, Movers, Listed
<1>5. \A n \in DOMAIN c : /\ c[n] \in MoverKeys(start, doc, pair) /\ c[n] \in Listed(doc)
                          /\ c[n][1] = pair /\ Nth(P, n) \in DOMAIN start
  BY <1>2, <1>3, <1>4
<1>6. \A n \in DOMAIN c : \A i \in DOMAIN start : start[i].key = c[n] => i = Nth(P, n)
  BY <1>2, <1>5, OnePosition
<1>7. \A n \in DOMAIN c : start[Nth(P, n)].uid = UidOf(c[n])
  BY <1>2, <1>5, OnePosition
<1>8. InOrderOf(start, c)
  BY <1>2, <1>5, <1>6 DEF InOrderOf
<1>9. \A m, n \in DOMAIN c : m < n => Ahead(start, UidOf(c[m]), UidOf(c[n]))
  BY <1>2, <1>5, <1>7 DEF Ahead
<1>10. ASSUME NEW n \in DOMAIN c
       PROVE  \E p \in ToSet(start) : p.key = c[n] /\ p.uid = UidOf(c[n]) /\ p \notin Deleted
  <2>1. start[Nth(P, n)] \in ToSet(start) /\ start[Nth(P, n)].key = c[n]
        /\ start[Nth(P, n)].uid = UidOf(c[n])
    BY <1>2, <1>5, <1>7 DEF ToSet
  <2>2. start[Nth(P, n)] \notin Deleted
    BY <1>1, <1>5, <2>1 DEF Doomed
  <2> QED BY <2>1, <2>2
<1>11. ASSUME NEW k \in MoverKeys(start, doc, pair), NEW i \in DOMAIN start, start[i].key = k
       PROVE  k \in ToSet(c)
  BY <1>2, <1>3, <1>11 DEF ToSet
<1>12. ASSUME NEW m \in DOMAIN c, NEW n \in DOMAIN c, c[m] = c[n] PROVE m = n
  <2>1. Nth(P, m) = Nth(P, n)
    BY <1>2, <1>5, <1>6, <1>12
  <2>2. m \in Int /\ n \in Int /\ Nth(P, m) \in Int
    BY <1>1, <1>2, PositionsFinite
  <2>3. ~(m < n) /\ ~(n < m)
    BY <1>2, <2>1, <2>2
  <2> QED BY <2>2, <2>3
<1> QED BY <1>2, <1>5, <1>8, <1>9, <1>10, <1>11, <1>12 DEF c

\* In a pair left alone they have kept their order.
LEMMA NowStays ==
  ASSUME Inv, Live, Arranged, pc = "order", NEW pair, pair \notin Moved,
         NEW m \in DOMAIN Now(start, doc, pair), NEW n \in DOMAIN Now(start, doc, pair), m < n
  PROVE  Ahead(policies, UidOf(Now(start, doc, pair)[m]), UidOf(Now(start, doc, pair)[n]))
<1> DEFINE c == Now(start, doc, pair)
<1>1. /\ c[m][1] = pair /\ c[n][1] = pair /\ Ahead(start, UidOf(c[m]), UidOf(c[n]))
  BY NowInOrder
<1>2. PICK p \in ToSet(start) : p.key = c[m] /\ p.uid = UidOf(c[m]) /\ p \notin Deleted
  BY NowInOrder
<1>3. PICK q \in ToSet(start) : q.key = c[n] /\ q.uid = UidOf(c[n]) /\ q \notin Deleted
  BY NowInOrder
<1>4. Holds(policies, p.uid) /\ Holds(policies, q.uid)
  BY <1>2, <1>3 DEF Live
<1> QED BY <1>1, <1>2, <1>3, <1>4 DEF Arranged

\* Where an order is given, the policies stand in it.
LEMMA WantIsSo ==
  ASSUME Inv, Live, Arranged, PassDone, NEW pair \in ListedPairs(doc), Sorts(start, doc, pair),
         NEW m \in DOMAIN Want(start, doc, pair), NEW n \in DOMAIN Want(start, doc, pair), m < n
  PROVE  Ahead(policies, UidOf(Want(start, doc, pair)[m]), UidOf(Want(start, doc, pair)[n]))
<1>1. pc = "order" /\ pairs = {}
  BY DEF PassDone
<1>2. CASE pair \in Moved
  BY <1>2 DEF Arranged
<1>3. CASE pair \notin Moved
  <2>1. Fits(start, doc, pair)
    BY <1>1, <1>3 DEF Moved, Passed
  <2>2. Now(start, doc, pair) = Want(start, doc, pair)
    BY <2>1 DEF Fits
  <2> QED BY <1>1, <1>3, <2>2, NowStays
<1> QED BY <1>2, <1>3

\* Settled's condition on the order.
LEMMA OrderSettled ==
  ASSUME Inv, Live, Arranged, PassDone,
         NEW ks, NEW e \in DOMAIN doc.entries, NEW f \in DOMAIN doc.entries,
         NEW g \in DOMAIN doc.entries,
         doc.entries[e].key \in ks, doc.entries[f].key \in ks,
         \A x \in {e, f, g} : \A p \in ToSet(policies) : p.key = doc.entries[x].key => ~p.system,
         doc.entries[e].key[1] = doc.entries[f].key[1],
         doc.entries[g].key[1] = doc.entries[e].key[1], doc.entries[g].order # NoOrder,
         Precedes(doc, e, f)
  PROVE  Rank(policies, doc.entries[e].key, ks) < Rank(policies, doc.entries[f].key, ks)
<1> DEFINE k    == doc.entries[e].key
           l    == doc.entries[f].key
           pair == k[1]
           es   == Movers(start, doc, pair)
           w    == Want(start, doc, pair)
           N    == Cardinality(es)
           E(n) == WantAt(start, doc, pair, n)
<1>1. pc = "order" /\ start \in Seq(Policy) /\ doc \in Documents
  BY OrderFacts DEF PassDone
<1>2. e \in es /\ f \in es /\ g \in es
  BY <1>1, MoversAreUsers
<1>3. pair \in ListedPairs(doc) /\ k \in Listed(doc) /\ l \in Listed(doc)
  BY DEF ListedPairs, Listed
<1>4. /\ es \in SUBSET DOMAIN doc.entries /\ IsFiniteSet(es) /\ N \in Nat /\ DOMAIN w = 1..N
      /\ \A n \in 1..N : w[n] = doc.entries[E(n)].key
      /\ \A m, n \in 1..N : m < n => Precedes(doc, E(m), E(n))
      /\ \A x \in es : \E n \in 1..N : E(n) = x
  BY <1>1, WantFacts
<1> HIDE DEF es, w, N, E
<1>5. /\ Orders(Preceding(doc, es), es)
      /\ \A x, y \in es : <<x, y>> \in Preceding(doc, es) <=> Precedes(doc, x, y)
  BY <1>1, <1>4, PrecedesOrders
<1>6. ~Precedes(doc, e, e) /\ ~Precedes(doc, f, e)
  BY <1>2, <1>5 DEF Orders
<1>7. PICK m \in 1..N : E(m) = e
  BY <1>2, <1>4
<1>8. PICK n \in 1..N : E(n) = f
  BY <1>2, <1>4
<1>9. m < n
  <2>1. m # n
    BY <1>6, <1>7, <1>8
  <2>2. ~(n < m)
    BY <1>4, <1>6, <1>7, <1>8
  <2> QED BY <1>4, <2>1, <2>2
<1>10. Sorts(start, doc, pair)
  <2>1. N >= 2
    BY <1>4, <1>9
  <2> QED BY <1>2, <2>1 DEF Sorts, es, N
<1>11. w[m] = k /\ w[n] = l /\ m \in DOMAIN w /\ n \in DOMAIN w
  BY <1>4, <1>7, <1>8
<1>12. Ahead(policies, UidOf(k), UidOf(l))
  <2>1. Ahead(policies, UidOf(w[m]), UidOf(w[n]))
    BY <1>3, <1>9, <1>10, <1>11, WantIsSo DEF w
  <2> QED BY <1>11, <2>1
<1> HIDE DEF k, l, pair
<1>13. \A i, j \in DOMAIN policies : policies[i].key = k /\ policies[j].key = l => i < j
  BY <1>1, <1>3, <1>12, LiveAhead
<1>14. PICK a \in DOMAIN policies : policies[a].key = k
  BY <1>1, <1>3, OneLivePosition
<1>15. PICK b \in DOMAIN policies : policies[b].key = l
  BY <1>1, <1>3, OneLivePosition
<1>16. policies \in Seq(Policy) /\ k \in ks /\ l \in ks
  BY DEF Inv, TypeOK, k, l
<1>17. Rank(policies, k, ks) < Rank(policies, l, ks)
  BY <1>13, <1>14, <1>15, <1>16, RankLess
<1> QED BY <1>17 DEF k, l

\* A pass that is through, and has found or left nothing to do, leaves what
\* the document asks for.
LEMMA DoneIsSettled ==
  ASSUME Inv, Live, Arranged, PassDone
  PROVE  Settled(policies, doc)
<1> DEFINE entries == DOMAIN doc.entries
           holders(k) == {p \in ToSet(policies) : p.key = k}
           users == {e \in entries : \A p \in holders(doc.entries[e].key) : ~p.system}
           ks == {doc.entries[e].key : e \in users}
           ordered(pair) == \E e \in users : doc.entries[e].key[1] = pair /\ doc.entries[e].order # NoOrder
<1>1. /\ pc = "order" /\ Deleted = Doomed(start, doc) /\ doc \in Documents
      /\ \A e \in entries : e < next
      /\ DOMAIN made \subseteq Listed(doc)
  BY OrderFacts DEF PassDone
<1>2. \A e \in entries : \E p \in holders(doc.entries[e].key) : p.conf = doc.entries[e].conf
  BY <1>1 DEF Live
<1>3. ASSUME doc.prune, NEW p \in ToSet(policies), ~p.system
      PROVE  \E e \in entries : doc.entries[e].key = p.key
  <2>1. p.key \in Listed(doc)
    <3>1. CASE Fresh(p)
      BY <1>1, <3>1 DEF Fresh
    <3>2. CASE Kept(p)
      <4>1. PICK q \in ToSet(start) : Same(p, q)
        BY <3>2 DEF Kept
      <4>2. Holds(policies, q.uid)
        BY <4>1 DEF Holds, ToSet, Same
      <4>3. q \notin Doomed(start, doc)
        BY <1>1, <4>2 DEF Live
      <4> QED BY <1>3, <4>1, <4>3 DEF Doomed, Same
    <3> QED BY <3>1, <3>2 DEF Live
  <2> QED BY <2>1 DEF Listed
<1>4. ASSUME NEW e \in users, NEW f \in users,
             doc.entries[e].key[1] = doc.entries[f].key[1], ordered(doc.entries[e].key[1]),
             \/ /\ doc.entries[e].order # NoOrder
                /\ doc.entries[f].order = NoOrder \/ doc.entries[e].order < doc.entries[f].order
             \/ doc.entries[e].order = doc.entries[f].order /\ e < f
      PROVE  Rank(policies, doc.entries[e].key, ks) < Rank(policies, doc.entries[f].key, ks)
  <2>1. PICK g \in users : doc.entries[g].key[1] = doc.entries[e].key[1] /\ doc.entries[g].order # NoOrder
    BY <1>4
  <2>2. e \in entries /\ f \in entries /\ g \in entries
        /\ doc.entries[e].key \in ks /\ doc.entries[f].key \in ks
        /\ \A x \in {e, f, g} : \A p \in ToSet(policies) : p.key = doc.entries[x].key => ~p.system
    BY <2>1
  <2>3. Precedes(doc, e, f)
    <3>1. doc.entries[e].order \in {NoOrder} \cup Nat /\ doc.entries[f].order \in {NoOrder} \cup Nat
      BY <1>1, <2>2, DocFacts
    <3> QED BY <1>4, <3>1, OrderAssumption DEF Precedes
  <2> HIDE DEF users, ks, entries
  <2> QED BY <1>4, <2>1, <2>2, <2>3, OrderSettled DEF entries
<1> QED BY <1>2, <1>3, <1>4 DEF Settled

-----------------------------------------------------------------------------
(* What the moves were counted against *)

\* The declared order of those that were there before.
StaySeq(pair) ==
  LET want == Want(start, doc, pair)
      current == Now(start, doc, pair)
  IN  At(want, {i \in DOMAIN want : want[i] \in ToSet(current)})

LEMMA StayFacts ==
  ASSUME Inv, Live, Arranged, pc = "order", NEW pair \in Moved
  PROVE  LET c == Now(start, doc, pair)
             z == StaySeq(pair)
         IN  /\ z \in Seq(Keys) /\ DOMAIN z = DOMAIN c /\ ToSet(z) = ToSet(c)
             /\ \A n \in DOMAIN z : z[n] \in Listed(doc)
             /\ \A m, n \in DOMAIN z : m < n => Ahead(policies, UidOf(z[m]), UidOf(z[n]))
<1> DEFINE c == Now(start, doc, pair)
           w == Want(start, doc, pair)
           Q == {i \in DOMAIN w : w[i] \in ToSet(c)}
           z == StaySeq(pair)
           N == Cardinality(Movers(start, doc, pair))
<1>1. start \in Seq(Policy) /\ doc \in Documents /\ Unique(doc)
  BY OrderFacts
<1>2. /\ N \in Nat /\ w \in Seq(Keys) /\ DOMAIN w = 1..N
      /\ \A n \in DOMAIN w : w[n] \in Listed(doc)
      /\ ToSet(w) = MoverKeys(start, doc, pair)
      /\ \A m, n \in DOMAIN w : w[m] = w[n] => m = n
  BY <1>1, WantFacts
<1>3. /\ c \in Seq(Keys) /\ \A n \in DOMAIN c : c[n] \in MoverKeys(start, doc, pair)
      /\ \A m, n \in DOMAIN c : c[m] = c[n] => m = n
  BY NowInOrder
<1>4. z = At(w, Q)
  BY DEF StaySeq
<1>5. Q \in SUBSET DOMAIN w /\ \A i \in DOMAIN w : i \in Q <=> w[i] \in ToSet(c)
  OBVIOUS
<1>6. \A m, n \in DOMAIN w : m < n => Ahead(policies, UidOf(w[m]), UidOf(w[n]))
  BY DEF Arranged
<1> HIDE DEF Q, c, w, z, N
<1>7. /\ z \in Seq(Keys) /\ Len(z) = Cardinality(Q) /\ DOMAIN z = 1..Cardinality(Q)
      /\ \A n \in DOMAIN z : Nth(Q, n) \in Q /\ z[n] = w[Nth(Q, n)]
      /\ \A m, n \in DOMAIN z : m < n => Nth(Q, m) < Nth(Q, n)
      /\ ToSet(z) = {w[i] : i \in Q} /\ Cardinality(Q) \in Nat
  BY <1>2, <1>4, <1>5, AtFacts
<1>8. ToSet(z) = ToSet(c)
  <2>1. \A k \in ToSet(c) : \E i \in DOMAIN w : w[i] = k
    BY <1>2, <1>3 DEF ToSet
  <2> QED BY <1>5, <1>7, <2>1
<1>9. \A m, n \in DOMAIN z : z[m] = z[n] => m = n
  <2> SUFFICES ASSUME NEW m \in DOMAIN z, NEW n \in DOMAIN z, z[m] = z[n] PROVE m = n
    OBVIOUS
  <2>1. Nth(Q, m) = Nth(Q, n) /\ Nth(Q, m) \in DOMAIN w
    BY <1>2, <1>5, <1>7
  <2>2. m \in Int /\ n \in Int /\ Nth(Q, m) \in Int
    BY <1>2, <1>7, <2>1
  <2>3. ~(m < n) /\ ~(n < m)
    BY <1>7, <2>1, <2>2
  <2> QED BY <2>2, <2>3
<1>10. DOMAIN z = DOMAIN c
  <2>1. Cardinality(ToSet(z)) = Len(z)
    BY <1>7, <1>9, ListLength
  <2>2. Cardinality(ToSet(c)) = Len(c)
    BY <1>3, ListLength
  <2> QED BY <1>3, <1>7, <1>8, <2>1, <2>2, LenProperties
<1>11. \A m, n \in DOMAIN z : m < n => Ahead(policies, UidOf(z[m]), UidOf(z[n]))
  BY <1>5, <1>6, <1>7
<1>12. \A n \in DOMAIN z : z[n] \in Listed(doc)
  BY <1>2, <1>5, <1>7
<1> QED BY <1>7, <1>8, <1>10, <1>11, <1>12 DEF c, z

\* A list of declared policies that stand in its order.
LEMMA LiveInOrder ==
  ASSUME Inv, Live, pc = "order", NEW c \in Seq(Keys),
         \A n \in DOMAIN c : c[n] \in Listed(doc),
         \A m, n \in DOMAIN c : m < n => Ahead(policies, UidOf(c[m]), UidOf(c[n]))
  PROVE  InOrderOf(policies, c)
<1>1. \A n \in DOMAIN c : \E i \in DOMAIN policies : policies[i].key = c[n]
  BY OneLivePosition
<1>2. \A n \in DOMAIN c : \A i, j \in DOMAIN policies :
        policies[i].key = c[n] /\ policies[j].key = c[n] => i = j
  BY OneLivePosition
<1>3. \A m, n \in DOMAIN c : m < n =>
        \A i, j \in DOMAIN policies : policies[i].key = c[m] /\ policies[j].key = c[n] => i < j
  BY LiveAhead
<1> QED BY <1>1, <1>2, <1>3 DEF InOrderOf

\* MovesAreCounted's policies, at a pass that is through.
KeptKeys == {k \in Keys : Declares(k) /\ \E p \in ToSet(start) : p.key = k /\ ~p.system}
KeptIn(pair) == {j \in KeptKeys : j[1] = pair}

LEMMA KeptAreNow ==
  ASSUME Inv, pc = "order", NEW pair
  PROVE  KeptIn(pair) = ToSet(Now(start, doc, pair))
<1> DEFINE c == Now(start, doc, pair)
<1>1. start \in Seq(Policy) /\ doc \in Documents
  BY OrderFacts
<1>2. ASSUME NEW k \in KeptIn(pair) PROVE k \in ToSet(c)
  <2>1. k \in Listed(doc) /\ k[1] = pair
    BY DocMirror DEF KeptIn, KeptKeys
  <2>2. PICK p \in ToSet(start) : p.key = k /\ ~p.system
    BY DEF KeptIn, KeptKeys
  <2>3. p \in Like(start, k) /\ ~Clash(start, k)
    BY <2>1, <2>2, OrderFacts DEF Like
  <2>4. \A q \in Like(start, k) : ~q.system
    BY <1>1, <2>2, <2>3, HolderFacts
  <2>5. k \in MoverKeys(start, doc, pair)
    BY <2>1, <2>4 DEF Listed, MoverKeys, Movers
  <2>6. \E i \in DOMAIN start : start[i].key = k
    BY <2>2 DEF ToSet
  <2> QED BY <2>5, <2>6, NowInOrder
<1>3. ASSUME NEW n \in DOMAIN c PROVE c[n] \in KeptIn(pair)
  <2>1. c[n] \in MoverKeys(start, doc, pair) /\ c[n] \in Listed(doc) /\ c[n][1] = pair
    BY NowInOrder
  <2>2. c[n] \in Keys
    BY <1>1, <2>1, DocFacts DEF Listed
  <2>3. PICK p \in ToSet(start) : p.key = c[n]
    BY NowInOrder
  <2>4. p \in Like(start, c[n])
    BY <2>3 DEF Like
  <2>5. ~p.system
    BY <2>1, <2>4 DEF MoverKeys, Movers
  <2> QED BY <2>1, <2>2, <2>3, <2>5, DocMirror DEF KeptIn, KeptKeys
<1>4. ToSet(c) \subseteq KeptIn(pair)
  BY <1>3 DEF ToSet
<1> QED BY <1>2, <1>4

\* A policy whose rank is another has been counted.
LEMMA MovedIsShifted ==
  ASSUME Inv, Live, Arranged, PassDone, NEW k \in KeptKeys,
         Rank(policies, k, KeptIn(k[1])) # Rank(start, k, KeptIn(k[1]))
  PROVE  /\ k[1] \in Moved
         /\ \E n \in Shifted(start, doc, k[1]) : Now(start, doc, k[1])[n] = k
<1> DEFINE pair == k[1]
           c == Now(start, doc, pair)
<1>1. pc = "order" /\ start \in Seq(Policy) /\ policies \in Seq(Policy)
  BY DEF PassDone, Inv, TypeOK
<1>2. KeptIn(pair) = ToSet(c) /\ k \in ToSet(c)
  BY <1>1, KeptAreNow DEF KeptIn
<1>3. PICK n \in DOMAIN c : c[n] = k
  BY <1>2 DEF ToSet
<1>4. c \in Seq(Keys) /\ InOrderOf(start, c) /\ \A m \in DOMAIN c : c[m] \in Listed(doc)
  BY <1>1, NowInOrder
<1>5. Rank(start, k, KeptIn(pair)) = n
  BY <1>1, <1>2, <1>3, <1>4, RankIsIndex
<1>6. pair \in Moved
  <2> SUFFICES ASSUME pair \notin Moved PROVE FALSE
    OBVIOUS
  <2>1. \A l, m \in DOMAIN c : l < m => Ahead(policies, UidOf(c[l]), UidOf(c[m]))
    BY <1>1, NowStays
  <2>2. InOrderOf(policies, c)
    BY <1>1, <1>4, <2>1, LiveInOrder
  <2>3. Rank(policies, k, KeptIn(pair)) = n
    BY <1>1, <1>2, <1>3, <1>4, <2>2, RankIsIndex
  <2> QED BY <1>5, <2>3
<1>7. n \in Shifted(start, doc, pair)
  <2> SUFFICES ASSUME n \notin Shifted(start, doc, pair) PROVE FALSE
    OBVIOUS
  <2> DEFINE z == StaySeq(pair)
  <2>1. /\ z \in Seq(Keys) /\ DOMAIN z = DOMAIN c /\ ToSet(z) = ToSet(c)
        /\ \A m \in DOMAIN z : z[m] \in Listed(doc)
        /\ \A l, m \in DOMAIN z : l < m => Ahead(policies, UidOf(z[l]), UidOf(z[m]))
    BY <1>1, <1>6, StayFacts
  <2>2. z[n] = c[n]
    BY DEF Shifted, StaySeq
  <2> HIDE DEF z
  <2>3. InOrderOf(policies, z)
    BY <1>1, <2>1, LiveInOrder
  <2>4. Rank(policies, z[n], ToSet(z)) = n
    BY <1>1, <1>3, <2>1, <2>3, RankIsIndex
  <2> QED BY <1>2, <1>3, <1>5, <2>1, <2>2, <2>4
<1> QED BY <1>3, <1>6, <1>7

LEMMA DoneIsCounted ==
  ASSUME Inv, Live, Arranged, PassDone
  PROVE  Cardinality({k \in KeptKeys : Rank(policies, k, KeptIn(k[1])) # Rank(start, k, KeptIn(k[1]))})
           <= Cardinality(AllMoves(start, doc))
<1> DEFINE M == {k \in KeptKeys : Rank(policies, k, KeptIn(k[1])) # Rank(start, k, KeptIn(k[1]))}
           at(k) == CHOOSE n \in Shifted(start, doc, k[1]) : Now(start, doc, k[1])[n] = k
           f == [k \in M |-> <<k[1], at(k)>>]
<1>1. start \in Seq(Policy) /\ doc \in Documents /\ pc = "order"
  BY OrderFacts DEF PassDone
<1>2. ASSUME NEW k \in M
      PROVE  /\ k[1] \in ListedPairs(doc) /\ ~Fits(start, doc, k[1])
             /\ at(k) \in Shifted(start, doc, k[1]) /\ Now(start, doc, k[1])[at(k)] = k
  <2>1. k[1] \in Moved /\ \E n \in Shifted(start, doc, k[1]) : Now(start, doc, k[1])[n] = k
    BY MovedIsShifted
  <2>2. k[1] \in ListedPairs(doc) /\ ~Fits(start, doc, k[1])
    BY <1>1, <2>1 DEF Moved, Passed
  <2> QED BY <2>1, <2>2
<1> HIDE DEF M, at
<1>3. ASSUME NEW k \in M PROVE <<k[1], at(k)>> \in AllMoves(start, doc)
  <2>1. at(k) \in 1..Len(start)
    BY <1>1, <1>2, MovesAreNumbers
  <2> QED BY <1>2, <2>1 DEF AllMoves, MovesOf
<1>4. f \in Injection(M, AllMoves(start, doc))
  <2>1. f \in [M -> AllMoves(start, doc)]
    BY <1>3
  <2>2. ASSUME NEW k \in M, NEW l \in M, f[k] = f[l] PROVE k = l
    <3>1. k[1] = l[1] /\ at(k) = at(l)
      BY <2>2
    <3>2. Now(start, doc, k[1])[at(k)] = k /\ Now(start, doc, l[1])[at(l)] = l
      BY <1>2
    <3> QED BY <3>1, <3>2
  <2> HIDE DEF f
  <2> QED BY <2>1, <2>2 DEF Injection, IsInjective
<1>5. IsFiniteSet(AllMoves(start, doc))
  <2>1. ListedPairs(doc) \in SUBSET ListedPairs(doc)
    OBVIOUS
  <2> QED BY <1>1, <2>1, MovesAreFinite DEF AllMoves
<1> HIDE DEF f
<1>6. Cardinality(M) <= Cardinality(AllMoves(start, doc))
  BY <1>4, <1>5, FS_Injection
<1> QED BY <1>6 DEF M

-----------------------------------------------------------------------------
(* The promises *)

\* How a run comes to an end it can be proud of.
LEMMA HappyEnd ==
  ASSUME Inv, Order, [Next]_vars, pc' \in {"clean", "applied"}
  PROVE  /\ UNCHANGED <<doc, policies>>
         /\ pc' = "applied" => UNCHANGED <<start, planned>>
         /\ \/ pc \in {"clean", "applied"} /\ pc' = pc
            \/ /\ PassDone /\ Live /\ Arranged
               /\ pc' = "applied" => pass = "write"
<1>1. CASE UNCHANGED vars
  BY <1>1 DEF vars
<1>2. CASE StartRun
  BY <1>2 DEF StartRun, BeginPass
<1>3. CASE FailEntry \/ RefuseDuplicates \/ (\E p \in victims : FailVictim(p))
           \/ (\E pair \in Pairs : FailOrder(pair)) \/ Kill
  BY <1>3 DEF FailEntry, RefuseDuplicates, FailVictim, FailOrder, Kill, End
<1>4. CASE List \/ EntryOK \/ BeginPrune \/ BeginOrder \/ (\E pair \in Pairs : OrderOK(pair))
  <2>1. pc' \in {"entries", "prune", "order"}
    BY <1>4 DEF List, EntryOK, HasEntry, BeginPrune, BeginOrder, OrderOK
  <2> QED BY <2>1
<1>5. CASE UpdatePolicy \/ CreatePolicy
  <2>1. pc' = "failed" \/ pc' = "entries"
    BY <1>5 DEF UpdatePolicy, CreatePolicy, HasEntry, End
  <2> QED BY <2>1
<1>6. CASE \E p \in victims : DeletePolicy(p)
  <2>1. pc' = "failed" \/ pc' = "prune"
    BY <1>6 DEF DeletePolicy, End
  <2> QED BY <2>1
<1>7. CASE \E pair \in Pairs : Reorder(pair)
  <2>1. pc' = "failed" \/ pc' = "order"
    BY <1>7 DEF Reorder, End
  <2> QED BY <2>1
<1>8. CASE FinishPlan
  <2>1. /\ PassDone /\ pass = "plan" /\ UNCHANGED <<doc, policies, start>>
        /\ pc' = "clean" /\ lines = {}
    BY <1>8 DEF FinishPlan, End, BeginPass
  <2>2. Faithful
    BY <2>1 DEF Faithful, Begun, PassDone
  <2> QED BY <2>1, <2>2 DEF Inv, Order
<1>9. CASE FinishWrite
  <2>1. /\ PassDone /\ pass = "write" /\ UNCHANGED <<doc, policies, start, planned>>
        /\ pc' = "applied"
    BY <1>9 DEF FinishWrite, End
  <2>2. Faithful
    BY <2>1 DEF Faithful, Begun, PassDone
  <2> QED BY <2>1, <2>2 DEF Inv, Order
<1> QED BY <1>1, <1>2, <1>3, <1>4, <1>5, <1>6, <1>7, <1>8, <1>9 DEF Next, RunStep

LEMMA NextSettled == Inv /\ Order /\ AppliedIsSettled /\ [Next]_vars => AppliedIsSettled'
<1> SUFFICES ASSUME Inv, Order, AppliedIsSettled, [Next]_vars, pc' \in {"clean", "applied"}
             PROVE  Settled(policies, doc)'
  BY DEF AppliedIsSettled
<1>1. doc' = doc /\ policies' = policies
  BY HappyEnd
<1>2. Settled(policies, doc)
  BY HappyEnd, DoneIsSettled DEF AppliedIsSettled
<1> QED BY <1>1, <1>2

LEMMA NextCounted ==
  Inv /\ Tally /\ Order /\ MovesAreCounted /\ [Next]_vars => MovesAreCounted'
<1> SUFFICES ASSUME Inv, Tally, Order, MovesAreCounted, [Next]_vars, pc' = "applied"
             PROVE  MovesAreCounted'
  BY DEF MovesAreCounted
<1>1. doc' = doc /\ policies' = policies /\ start' = start /\ planned' = planned
  BY HappyEnd
<1>2. MovesAreCounted' <=>
        Cardinality({k \in KeptKeys : Rank(policies, k, KeptIn(k[1])) # Rank(start, k, KeptIn(k[1]))})
          <= planned.moved
  BY <1>1 DEF MovesAreCounted, KeptKeys, KeptIn, Declares, Entries, Rank
<1>3. CASE pc = "applied"
  BY <1>2, <1>3 DEF MovesAreCounted, KeptKeys, KeptIn
<1>4. CASE pc # "applied"
  <2>1. PassDone /\ Live /\ Arranged /\ pass = "write"
    BY <1>4, HappyEnd
  <2>2. planned.moved = Cardinality(AllMoves(start, doc))
    BY <2>1 DEF Tally
  <2> QED BY <1>2, <2>1, <2>2, DoneIsCounted
<1> QED BY <1>3, <1>4

LEMMA InitPromises == Init => NoHalfwayFailure /\ AppliedIsSettled /\ MovesAreCounted
BY DEF Init, NoHalfwayFailure, AppliedIsSettled, MovesAreCounted

\* PlanIsCarriedOut holds: a run writes what it planned and nothing else, fails
\* after its first write only with a request, and reports success only when the
\* policies are as declared, in the declared order, wherever the console put
\* the new ones.
THEOREM PlanCarriedOut == Spec => []PlanIsCarriedOut
<1> DEFINE All == Inv /\ Vetted /\ Tally /\ Order /\ NoHalfwayFailure /\ AppliedIsSettled
<1>1. Init => All
  BY InitInv, InitVets, InitTally, InitOrder, InitPromises
<1>2. All /\ [Next]_vars => All'
  BY NextInv, NextVets, NextTally, NextOrder, NextFails, NextSettled
<1>3. All => PlanIsCarriedOut
  BY DEF PlanIsCarriedOut, PlanIsExact, Tally
<1> HIDE DEF All
<1> QED BY <1>1, <1>2, <1>3, PTL DEF Spec

\* MovesAreCounted holds: no more declared policies have another rank after a
\* run than the plan put before --max-changes.
THEOREM MovesCounted == Spec => []MovesAreCounted
<1> DEFINE All == Inv /\ Tally /\ Order /\ MovesAreCounted
<1>1. Init => All
  BY InitInv, InitTally, InitOrder, InitPromises
<1>2. All /\ [Next]_vars => All'
  BY NextInv, NextTally, NextOrder, NextCounted
<1>3. All => MovesAreCounted
  OBVIOUS
<1> HIDE DEF All
<1> QED BY <1>1, <1>2, <1>3, PTL DEF Spec
=============================================================================
