---------------------------- MODULE PagedListProofs ----------------------------
(***************************************************************************)
(* Theorems about PagedList for every list, page size and cap.             *)
(***************************************************************************)
EXTENDS PagedList, SequenceTheorems, FiniteSetTheorems, TLAPS

(* Facts about sequences *)

\* Putting an element in keeps all that are there, taking one out all others.
LEMMA InsertFacts ==
  ASSUME NEW S, NEW s \in Seq(S), NEW at \in 1..Len(s) + 1, NEW x \in S
  PROVE  /\ InsertAt(s, at, x) \in Seq(S)
         /\ Len(InsertAt(s, at, x)) = Len(s) + 1
         /\ \A i \in 1..at - 1 : InsertAt(s, at, x)[i] = s[i]
         /\ InsertAt(s, at, x)[at] = x
         /\ \A i \in at..Len(s) : InsertAt(s, at, x)[i + 1] = s[i]
<1> DEFINE front == SubSeq(s, 1, at - 1)
           back  == SubSeq(s, at, Len(s))
<1>1. front \in Seq(S) /\ Len(front) = at - 1 /\ \A i \in 1..at - 1 : front[i] = s[i]
  BY SubSeqProperties
<1>2. back \in Seq(S) /\ Len(back) = Len(s) - at + 1 /\ \A i \in 1..Len(s) - at + 1 : back[i] = s[at + i - 1]
  BY SubSeqProperties
<1>3. <<x>> \in Seq(S) /\ Len(<<x>>) = 1 /\ <<x>>[1] = x
  OBVIOUS
<1> HIDE DEF front, back
<1>4. /\ front \o <<x>> \in Seq(S) /\ Len(front \o <<x>>) = at
      /\ \A i \in 1..at - 1 : (front \o <<x>>)[i] = s[i]
      /\ (front \o <<x>>)[at] = x
  BY <1>1, <1>3
<1>5. /\ (front \o <<x>>) \o back \in Seq(S) /\ Len((front \o <<x>>) \o back) = Len(s) + 1
      /\ \A i \in 1..at - 1 : ((front \o <<x>>) \o back)[i] = s[i]
      /\ ((front \o <<x>>) \o back)[at] = x
      /\ \A i \in at..Len(s) : ((front \o <<x>>) \o back)[i + 1] = s[i]
  BY SMTT(30), <1>2, <1>4
<1>6. QED
  BY <1>5 DEF InsertAt, front, back

LEMMA RemoveFacts ==
  ASSUME NEW S, NEW s \in Seq(S), NEW at \in 1..Len(s)
  PROVE  /\ RemoveAt(s, at) \in Seq(S)
         /\ Len(RemoveAt(s, at)) = Len(s) - 1
         /\ \A i \in 1..at - 1 : RemoveAt(s, at)[i] = s[i]
         /\ \A i \in at..Len(s) - 1 : RemoveAt(s, at)[i] = s[i + 1]
<1> DEFINE front == SubSeq(s, 1, at - 1)
           back  == SubSeq(s, at + 1, Len(s))
<1>1. front \in Seq(S) /\ Len(front) = at - 1 /\ \A i \in 1..at - 1 : front[i] = s[i]
  BY SubSeqProperties
<1>2. back \in Seq(S) /\ Len(back) = Len(s) - at /\ \A i \in 1..Len(s) - at : back[i] = s[at + i]
  BY SubSeqProperties
<1> HIDE DEF front, back
<1>3. /\ front \o back \in Seq(S) /\ Len(front \o back) = Len(s) - 1
      /\ \A i \in 1..at - 1 : (front \o back)[i] = s[i]
      /\ \A i \in at..Len(s) - 1 : (front \o back)[i] = s[i + 1]
  <2>1. \A i \in at..Len(s) - 1 : (front \o back)[i] = back[i - (at - 1)]
    BY <1>1, <1>2
  <2>2. ASSUME NEW i \in at..Len(s) - 1 PROVE back[i - (at - 1)] = s[i + 1]
    <3>1. i - (at - 1) \in 1..Len(s) - at /\ at + (i - (at - 1)) = i + 1
      OBVIOUS
    <3>2. QED
      BY <1>2, <3>1
  <2>3. \A i \in at..Len(s) - 1 : (front \o back)[i] = s[i + 1]
    BY <2>1, <2>2
  <2>4. front \o back \in Seq(S) /\ Len(front \o back) = Len(s) - 1
    BY <1>1, <1>2
  <2>5. \A i \in 1..at - 1 : (front \o back)[i] = s[i]
    BY <1>1, <1>2
  <2>6. QED
    BY <2>3, <2>4, <2>5
<1>4. RemoveAt(s, at) = front \o back
  BY DEF RemoveAt, front, back
<1>5. QED
  BY <1>3, <1>4
-----------------------------------------------------------------------------
(* One page *)

Size == Smaller(PageLimit, ServerCap)
End  == Smaller(offset + Size, Len(server))

\* Up to where a page reaches, and what is on it.
LEMMA PageFacts ==
  ASSUME server \in Seq(Ids), offset \in Nat
  PROVE  /\ Size \in Nat \ {0} /\ End \in Nat /\ Page = SubSeq(server, offset + 1, End)
         /\ Page \in Seq(Ids)
         /\ offset < Len(server) =>
              /\ End \in offset + 1..Len(server) /\ Len(Page) = End - offset
              /\ \A i \in 1..Len(Page) : Page[i] = server[offset + i]
         /\ offset >= Len(server) => Page = <<>>
<1>1. Size \in Nat \ {0}
  BY PageAssumption DEF Size, Smaller
<1>2. /\ End \in Nat /\ Page = SubSeq(server, offset + 1, End) /\ End <= Len(server)
      /\ offset < Len(server) => End > offset
  BY <1>1 DEF End, Size, Smaller, Page
<1>3. CASE offset < Len(server)
  <2>1. \A i \in offset + 1..End : server[i] \in Ids
    BY <1>2
  <2>2. /\ Page \in Seq(Ids) /\ Len(Page) = End - offset
        /\ \A i \in 1..End - offset : Page[i] = server[offset + i]
    BY <1>2, <1>3, <2>1, SubSeqProperties
  <2>3. QED
    BY <1>1, <1>2, <1>3, <2>2
<1>4. CASE offset >= Len(server)
  <2>1. Page = <<>>
    BY <1>2, <1>4, SubSeqEmpty
  <2>2. QED
    BY <1>1, <1>2, <1>4, <2>1
<1>5. QED
  BY <1>3, <1>4

-----------------------------------------------------------------------------
(* What can go missing, and what can come twice *)

\* Where elements of K are that reading has passed and not seen, if it has
\* passed n places of s and seen G.
Unread(s, n, K, G) == {i \in 1..Len(s) : i <= n /\ s[i] \in K /\ s[i] \notin G}

\* Where elements are that reading has seen and will see again.
Reread(s, n, G) == {i \in 1..Len(s) : i > n /\ s[i] \in G}

LEMMA PlacesFinite ==
  ASSUME NEW S, NEW s \in Seq(S), NEW P \in SUBSET (1..Len(s))
  PROVE  IsFiniteSet(P) /\ Cardinality(P) \in Nat
<1>1. IsFiniteSet(1..Len(s))
  BY FS_Interval
<1>2. QED
  BY <1>1, FS_Subset, FS_CardinalityType

\* Into a set with one element more.
LEMMA OneMore ==
  ASSUME NEW A, NEW B, NEW x, IsFiniteSet(B), NEW f \in Injection(A, B \cup {x})
  PROVE  Cardinality(A) <= Cardinality(B) + 1
<1>1. /\ IsFiniteSet(B \cup {x}) /\ Cardinality(B) \in Nat
      /\ Cardinality(B \cup {x}) <= Cardinality(B) + 1
  BY FS_AddElement, FS_CardinalityType
<1>2. IsFiniteSet(A) /\ Cardinality(A) <= Cardinality(B \cup {x})
  BY <1>1, FS_Injection
<1>3. Cardinality(A) \in Nat /\ Cardinality(B \cup {x}) \in Nat
  BY <1>1, <1>2, FS_CardinalityType
<1>4. QED
  BY <1>1, <1>2, <1>3

\* Taking an element out lets at most one slip past, and none come back.
LEMMA RemoveUnread ==
  ASSUME NEW S, NEW s \in Seq(S), NEW at \in 1..Len(s), NEW n \in Nat, NEW K, NEW G
  PROVE  Cardinality(Unread(RemoveAt(s, at), n, K, G)) <= Cardinality(Unread(s, n, K, G)) + 1
<1> DEFINE t == RemoveAt(s, at)
           A == Unread(t, n, K, G)
           B == Unread(s, n, K, G)
           f == [i \in A |-> IF i < at THEN i ELSE i + 1]
<1>1. /\ Len(t) = Len(s) - 1
      /\ \A i \in 1..at - 1 : t[i] = s[i]
      /\ \A i \in at..Len(s) - 1 : t[i] = s[i + 1]
  BY RemoveFacts
<1> HIDE DEF t
<1>2. f \in Injection(A, B \cup {n + 1})
  <2>1. ASSUME NEW i \in A PROVE f[i] \in B \cup {n + 1}
    BY <1>1 DEF Unread
  <2>2. ASSUME NEW i \in A, NEW j \in A, f[i] = f[j] PROVE i = j
    BY <2>2, <1>1 DEF Unread
  <2>3. QED
    BY <2>1, <2>2 DEF Injection, IsInjective
<1>3. IsFiniteSet(B)
  BY PlacesFinite DEF Unread
<1> HIDE DEF A, B, f
<1>4. Cardinality(A) <= Cardinality(B) + 1
  BY <1>2, <1>3, OneMore
<1>5. QED
  BY <1>4 DEF t, A, B

LEMMA InsertUnread ==
  ASSUME NEW S, NEW s \in Seq(S), NEW at \in 1..Len(s) + 1, NEW x \in S, NEW n \in Nat,
         NEW K, NEW G, x \notin K
  PROVE  Cardinality(Unread(InsertAt(s, at, x), n, K, G)) <= Cardinality(Unread(s, n, K, G))
<1> DEFINE t == InsertAt(s, at, x)
           A == Unread(t, n, K, G)
           B == Unread(s, n, K, G)
           f == [i \in A |-> IF i < at THEN i ELSE i - 1]
<1>1. /\ Len(t) = Len(s) + 1 /\ t[at] = x
      /\ \A i \in 1..at - 1 : t[i] = s[i]
      /\ \A i \in at + 1..Len(s) + 1 : t[i] = s[i - 1]
  <2>1. \A i \in at..Len(s) : t[i + 1] = s[i]
    BY InsertFacts
  <2>2. Len(t) = Len(s) + 1 /\ t[at] = x
    BY InsertFacts
  <2>3. \A i \in 1..at - 1 : t[i] = s[i]
    BY InsertFacts
  <2>4. ASSUME NEW i \in at + 1..Len(s) + 1 PROVE t[i] = s[i - 1]
    <3>1. i - 1 \in at..Len(s) /\ (i - 1) + 1 = i
      OBVIOUS
    <3>2. QED
      BY <2>1, <3>1
  <2> HIDE DEF t
  <2>5. QED
    BY <2>2, <2>3, <2>4
<1> HIDE DEF t
<1>2. f \in Injection(A, B)
  <2>1. ASSUME NEW i \in A PROVE f[i] \in B
    <3>1. i \in 1..Len(s) + 1 /\ i <= n /\ i # at
      BY <1>1 DEF Unread
    <3>2. CASE i < at
      BY <3>1, <3>2, <1>1 DEF Unread
    <3>3. CASE i > at
      <4>1. i - 1 \in at..Len(s) /\ t[(i - 1) + 1] = s[i - 1]
        BY <3>1, <3>3, <1>1
      <4>2. QED
        BY <3>1, <3>3, <4>1 DEF Unread
    <3>4. QED
      BY <3>1, <3>2, <3>3
  <2>2. ASSUME NEW i \in A, NEW j \in A, f[i] = f[j] PROVE i = j
    <3>1. i \in 1..Len(s) + 1 /\ i # at /\ j \in 1..Len(s) + 1 /\ j # at
      BY <1>1 DEF Unread
    <3>2. QED
      BY <2>2, <3>1
  <2>3. QED
    BY <2>1, <2>2 DEF Injection, IsInjective
<1>3. IsFiniteSet(B)
  BY PlacesFinite DEF Unread
<1> HIDE DEF A, B, f
<1>4. Cardinality(A) <= Cardinality(B)
  BY <1>2, <1>3, FS_Injection
<1>5. QED
  BY <1>4 DEF t, A, B

LEMMA RemoveReread ==
  ASSUME NEW S, NEW s \in Seq(S), NEW at \in 1..Len(s), NEW n \in Nat, NEW G
  PROVE  Cardinality(Reread(RemoveAt(s, at), n, G)) <= Cardinality(Reread(s, n, G))
<1> DEFINE t == RemoveAt(s, at)
           A == Reread(t, n, G)
           B == Reread(s, n, G)
           f == [i \in A |-> IF i < at THEN i ELSE i + 1]
<1>1. /\ Len(t) = Len(s) - 1
      /\ \A i \in 1..at - 1 : t[i] = s[i]
      /\ \A i \in at..Len(s) - 1 : t[i] = s[i + 1]
  BY RemoveFacts
<1> HIDE DEF t
<1>2. f \in Injection(A, B)
  <2>1. ASSUME NEW i \in A PROVE f[i] \in B
    BY <1>1 DEF Reread
  <2>2. ASSUME NEW i \in A, NEW j \in A, f[i] = f[j] PROVE i = j
    BY <2>2, <1>1 DEF Reread
  <2>3. QED
    BY <2>1, <2>2 DEF Injection, IsInjective
<1>3. IsFiniteSet(B)
  BY PlacesFinite DEF Reread
<1> HIDE DEF A, B, f
<1>4. Cardinality(A) <= Cardinality(B)
  BY <1>2, <1>3, FS_Injection
<1>5. QED
  BY <1>4 DEF t, A, B

\* Putting one in pushes at most one back into what is still to be read: the
\* one that was last to be read, or the new one itself.
LEMMA InsertReread ==
  ASSUME NEW S, NEW s \in Seq(S), NEW at \in 1..Len(s) + 1, NEW x \in S, NEW n \in Nat, NEW G
  PROVE  Cardinality(Reread(InsertAt(s, at, x), n, G)) <= Cardinality(Reread(s, n, G)) + 1
<1> DEFINE t == InsertAt(s, at, x)
           A == Reread(t, n, G)
           B == Reread(s, n, G)
           f == [i \in A |-> IF i < at THEN i ELSE IF i = at \/ i = n + 1 THEN 0 ELSE i - 1]
<1>1. /\ Len(t) = Len(s) + 1 /\ t[at] = x
      /\ \A i \in 1..at - 1 : t[i] = s[i]
      /\ \A i \in at + 1..Len(s) + 1 : t[i] = s[i - 1]
  <2>1. \A i \in at..Len(s) : t[i + 1] = s[i]
    BY InsertFacts
  <2>2. Len(t) = Len(s) + 1 /\ t[at] = x
    BY InsertFacts
  <2>3. \A i \in 1..at - 1 : t[i] = s[i]
    BY InsertFacts
  <2>4. ASSUME NEW i \in at + 1..Len(s) + 1 PROVE t[i] = s[i - 1]
    <3>1. i - 1 \in at..Len(s) /\ (i - 1) + 1 = i
      OBVIOUS
    <3>2. QED
      BY <2>1, <3>1
  <2> HIDE DEF t
  <2>5. QED
    BY <2>2, <2>3, <2>4
<1> HIDE DEF t
<1>2. f \in Injection(A, B \cup {0})
  <2>1. ASSUME NEW i \in A PROVE f[i] \in B \cup {0}
    <3>1. i \in 1..Len(s) + 1 /\ i > n
      BY <1>1 DEF Reread
    <3>2. CASE i < at
      BY <3>1, <3>2, <1>1 DEF Reread
    <3>3. CASE i > at /\ i # n + 1
      <4>1. i - 1 \in at..Len(s) /\ t[(i - 1) + 1] = s[i - 1]
        BY <3>1, <3>3, <1>1
      <4>2. QED
        BY <3>1, <3>3, <4>1 DEF Reread
    <3>4. QED
      BY <3>1, <3>2, <3>3
  <2>2. ASSUME NEW i \in A, NEW j \in A, f[i] = f[j] PROVE i = j
    <3>1. i \in 1..Len(s) + 1 /\ i > n /\ j \in 1..Len(s) + 1 /\ j > n
      BY <1>1 DEF Reread
    <3>2. QED
      BY <2>2, <3>1
  <2>3. QED
    BY <2>1, <2>2 DEF Injection, IsInjective
<1>3. IsFiniteSet(B)
  BY PlacesFinite DEF Reread
<1> HIDE DEF A, B, f
<1>4. Cardinality(A) <= Cardinality(B) + 1
  BY <1>2, <1>3, OneMore
<1>5. QED
  BY <1>4 DEF t, A, B

\* Fewer elements to miss, fewer missed.
LEMMA UnreadFewer ==
  ASSUME NEW S, NEW s \in Seq(S), NEW n, NEW K, NEW L \in SUBSET K, NEW G
  PROVE  Cardinality(Unread(s, n, L, G)) <= Cardinality(Unread(s, n, K, G))
<1>1. Unread(s, n, L, G) \in SUBSET Unread(s, n, K, G)
  BY DEF Unread
<1>2. IsFiniteSet(Unread(s, n, K, G))
  BY PlacesFinite DEF Unread
<1>3. QED
  BY <1>1, <1>2, FS_Subset

LEMMA Counts ==
  ASSUME NEW S, NEW s \in Seq(S), NEW n, NEW K, NEW G
  PROVE  Cardinality(Unread(s, n, K, G)) \in Nat /\ Cardinality(Reread(s, n, G)) \in Nat
<1>1. Unread(s, n, K, G) \in SUBSET (1..Len(s)) /\ Reread(s, n, G) \in SUBSET (1..Len(s))
  BY DEF Unread, Reread
<1>2. QED
  BY <1>1, PlacesFinite

-----------------------------------------------------------------------------
(* The invariant *)

Distinct == \A i, j \in 1..Len(server) : i # j => server[i] # server[j]

\* While nothing changes, what has been read is the front of the list.
Exact ==
  came + gone = 0 /\ pc \in {"reading", "done"} =>
    /\ offset <= Len(server) /\ got = SubSeq(server, 1, offset)
    /\ pc = "done" => offset = Len(server)

\* What has slipped past so far is paid for by a deletion or a move, and what
\* has been read twice or is going to be by a creation or a move.
Missed   == Cardinality(Unread(server, offset, kept, ToSet(got))) <= gone
Repeated == Len(got) - Cardinality(ToSet(got))
              + Cardinality(Reread(server, offset, ToSet(got))) <= came

Accounted ==
  /\ pc = "reading" => Missed /\ Repeated
  /\ pc = "done" => ErrorsAreBounded

Inv == TypeOK /\ Distinct /\ Exact /\ Accounted

\* What a sequence holds is finite, and no more than its length.
LEMMA ToSetFacts ==
  ASSUME NEW S, NEW s \in Seq(S)
  PROVE  /\ ToSet(s) \subseteq S /\ ToSet(s) = {s[i] : i \in 1..Len(s)}
         /\ IsFiniteSet(ToSet(s)) /\ Cardinality(ToSet(s)) \in Nat
<1>1. ToSet(s) = {s[i] : i \in 1..Len(s)} /\ ToSet(s) \subseteq S
  BY DEF ToSet
<1> DEFINE f == [i \in 1..Len(s) |-> s[i]]
<1>2. f \in Surjection(1..Len(s), ToSet(s))
  BY <1>1 DEF Surjection
<1>3. IsFiniteSet(ToSet(s))
  BY <1>2, FS_Interval, FS_Surjection
<1>4. QED
  BY <1>1, <1>3, FS_CardinalityType

LEMMA InitInv == Init => Inv
<1> SUFFICES ASSUME Init PROVE Inv
  OBVIOUS
<1>1. server \in Seq(Ids) /\ Distinct
  BY ListsAssumption DEF Init, Distinct
<1>2. TypeOK
  BY <1>1, BoundAssumption DEF Init, TypeOK
<1>3. Exact /\ Accounted
  BY DEF Init, Exact, Accounted
<1>4. QED
  BY <1>1, <1>2, <1>3 DEF Inv

LEMMA BeginInv == ASSUME Inv, Begin PROVE Inv'
<1> USE DEF Begin
<1>1. TypeOK' /\ Distinct'
  BY DEF Inv, TypeOK, Distinct
<1>2. Exact'
  <2>1. server \in Seq(Ids) /\ SubSeq(server, 1, 0) = <<>>
    BY SubSeqEmpty DEF Inv, TypeOK
  <2>2. QED
    BY <2>1 DEF Exact
<1>3. Accounted'
  <2>1. ToSet(<<>>) = {} /\ Len(<<>>) = 0
    BY DEF ToSet
  <2>2. Unread(server, 0, ToSet(server), {}) = {} /\ Reread(server, 0, {}) = {}
    BY DEF Unread, Reread, Inv, TypeOK
  <2>3. Cardinality({}) = 0
    BY FS_EmptySet
  <2>4. /\ Cardinality(Unread(server', offset', kept', ToSet(got'))) = 0
        /\ Cardinality(Reread(server', offset', ToSet(got'))) = 0
        /\ Len(got') = 0 /\ Cardinality(ToSet(got')) = 0
    BY <2>1, <2>2, <2>3
  <2>5. Missed' /\ Repeated'
    BY <2>4 DEF Missed, Repeated
  <2>6. QED
    BY <2>5 DEF Accounted
<1>4. QED
  BY <1>1, <1>2, <1>3 DEF Inv

LEMMA FailInv == ASSUME Inv, Fail PROVE Inv'
<1> USE DEF Fail
<1>1. TypeOK' /\ Distinct'
  BY DEF Inv, TypeOK, Distinct
<1>2. Exact' /\ Accounted'
  BY DEF Exact, Accounted
<1>3. QED
  BY <1>1, <1>2 DEF Inv

-----------------------------------------------------------------------------
(* Changes to the list *)

\* After a change, the list is no longer quiet.
LEMMA ChangeExact ==
  ASSUME came' + gone' # 0 PROVE Exact'
BY DEF Exact

\* A list that has been read stays as wrong as it was.
LEMMA DoneStays ==
  ASSUME Inv, pc = "done", UNCHANGED <<got, pc>>, kept' \subseteq kept,
         came' \in Nat, gone' \in Nat, came' >= came, gone' >= gone
  PROVE  Accounted'
<1>1. ErrorsAreBounded
  BY DEF Inv, Accounted
<1>2. IsFiniteSet(kept)
  BY ToSetFacts, FS_Subset DEF Inv, TypeOK
<1>3. IsFiniteSet(kept \ ToSet(got)) /\ Cardinality(kept \ ToSet(got)) \in Nat
  BY <1>2, FS_Subset, FS_CardinalityType
<1>4. kept' \ ToSet(got) \in SUBSET (kept \ ToSet(got))
  OBVIOUS
<1>5. /\ Cardinality(kept' \ ToSet(got)) \in Nat
      /\ Cardinality(kept' \ ToSet(got)) <= Cardinality(kept \ ToSet(got))
  BY <1>3, <1>4, FS_Subset, FS_CardinalityType
<1>6. Cardinality(ToSet(got)) \in Nat /\ Len(got) \in Nat
  BY ToSetFacts DEF Inv, TypeOK
<1>7. ErrorsAreBounded'
  BY <1>1, <1>3, <1>5, <1>6 DEF ErrorsAreBounded, Inv, TypeOK
<1>8. QED
  BY <1>7 DEF Accounted

LEMMA CreateInv == ASSUME Inv, Create PROVE Inv'
<1>1. PICK x \in Ids \ ToSet(server), at \in 1..Len(server) + 1 :
        server' = InsertAt(server, at, x)
  BY DEF Create
<1>2. /\ came' = came + 1 /\ changes < MaxChanges /\ changes' = changes + 1
      /\ UNCHANGED <<got, offset, pc, kept, gone>>
  BY DEF Create, Change
<1>3. /\ server \in Seq(Ids) /\ came \in Nat /\ gone \in Nat /\ offset \in Nat
      /\ kept \subseteq ToSet(server) /\ got \in Seq(Ids) /\ changes \in 0..MaxChanges
  BY DEF Inv, TypeOK
<1>4. ToSet(server) = {server[i] : i \in 1..Len(server)}
  BY <1>3, ToSetFacts
<1>5. /\ server' \in Seq(Ids) /\ Len(server') = Len(server) + 1 /\ server'[at] = x
      /\ \A i \in 1..at - 1 : server'[i] = server[i]
      /\ \A i \in at..Len(server) : server'[i + 1] = server[i]
  BY <1>1, <1>3, InsertFacts
<1>6. TypeOK'
  <2>1. ASSUME NEW e \in ToSet(server) PROVE e \in ToSet(server')
    <3>1. PICK i \in 1..Len(server) : e = server[i]
      BY <1>4
    <3>2. e = server'[IF i < at THEN i ELSE i + 1]
      BY <1>5, <3>1
    <3>3. QED
      BY <1>5, <3>2 DEF ToSet
  <2>2. changes' \in 0..MaxChanges
    BY <1>2, <1>3, BoundAssumption
  <2>3. QED
    BY <1>2, <1>3, <1>5, <2>1, <2>2 DEF Inv, TypeOK
<1>7. Distinct'
  <2>1. ASSUME NEW i \in 1..Len(server'), i # at
        PROVE  \E k \in 1..Len(server) : /\ server'[i] = server[k]
                                         /\ k = IF i < at THEN i ELSE i - 1
    <3>1. CASE i < at
      BY <1>3, <1>5, <3>1
    <3>2. CASE i > at
      <4>1. i - 1 \in at..Len(server) /\ (i - 1) + 1 = i
        BY <1>3, <1>5, <3>2
      <4>2. server'[(i - 1) + 1] = server[i - 1] /\ i - 1 \in 1..Len(server)
        BY <1>5, <4>1
      <4>3. QED
        BY <3>2, <4>1, <4>2
    <3>3. QED
      BY <2>1, <1>3, <1>5, <3>1, <3>2
  <2>2. ASSUME NEW i \in 1..Len(server'), NEW j \in 1..Len(server'), i # j
        PROVE  server'[i] # server'[j]
    <3>1. CASE i = at \/ j = at
      BY SMTT(30), <1>1, <1>4, <1>5, <2>1, <2>2, <3>1
    <3>2. CASE i # at /\ j # at
      <4>1. PICK k \in 1..Len(server) : server'[i] = server[k] /\ k = IF i < at THEN i ELSE i - 1
        BY <2>1, <3>2
      <4>2. PICK l \in 1..Len(server) : server'[j] = server[l] /\ l = IF j < at THEN j ELSE j - 1
        BY <2>1, <3>2
      <4>3. k # l
        BY <1>3, <1>5, <2>2, <3>2, <4>1, <4>2
      <4>4. QED
        BY <4>1, <4>2, <4>3 DEF Inv, Distinct
    <3>3. QED
      BY <3>1, <3>2
  <2>3. QED
    BY <2>2 DEF Distinct
<1>8. Exact'
  <2>1. came' + gone' # 0
    BY <1>2, <1>3
  <2>2. QED
    BY <2>1, ChangeExact
<1>9. Accounted'
  <2>1. CASE pc = "reading"
    <3>1. x \notin kept
      BY <1>1, <1>3
    <3>2. /\ Cardinality(Unread(server', offset, kept, ToSet(got)))
               <= Cardinality(Unread(server, offset, kept, ToSet(got)))
          /\ Cardinality(Reread(server', offset, ToSet(got)))
               <= Cardinality(Reread(server, offset, ToSet(got))) + 1
      BY <1>1, <1>3, <3>1, InsertUnread, InsertReread
    <3>3. Missed /\ Repeated
      BY <2>1 DEF Inv, Accounted
    <3>4. /\ Cardinality(Unread(server, offset, kept, ToSet(got))) \in Nat
          /\ Cardinality(Unread(server', offset, kept, ToSet(got))) \in Nat
          /\ Cardinality(Reread(server, offset, ToSet(got))) \in Nat
          /\ Cardinality(Reread(server', offset, ToSet(got))) \in Nat
      BY <1>3, <1>5, Counts
    <3>5. Cardinality(ToSet(got)) \in Nat /\ Len(got) \in Nat
      BY <1>3, ToSetFacts
    <3>6. Missed'
      BY <1>2, <1>3, <3>2, <3>3, <3>4 DEF Missed
    <3>7. Repeated'
      BY SMTT(30), <1>2, <1>3, <3>2, <3>3, <3>4, <3>5 DEF Repeated
    <3>8. QED
      BY <1>2, <2>1, <3>6, <3>7 DEF Accounted
  <2>2. CASE pc = "done"
    BY <1>2, <1>3, <2>2, DoneStays
  <2>3. QED
    BY <1>2, <2>1, <2>2 DEF Accounted
<1>10. QED
  BY <1>6, <1>7, <1>8, <1>9 DEF Inv

LEMMA DeleteInv == ASSUME Inv, Delete PROVE Inv'
<1>1. PICK at \in 1..Len(server) :
        server' = RemoveAt(server, at) /\ kept' = kept \ {server[at]}
  BY DEF Delete
<1>2. /\ gone' = gone + 1 /\ changes < MaxChanges /\ changes' = changes + 1
      /\ UNCHANGED <<got, offset, pc, came>>
  BY DEF Delete, Change
<1>3. /\ server \in Seq(Ids) /\ came \in Nat /\ gone \in Nat /\ offset \in Nat
      /\ kept \subseteq ToSet(server) /\ got \in Seq(Ids) /\ changes \in 0..MaxChanges
  BY DEF Inv, TypeOK
<1>4. ToSet(server) = {server[i] : i \in 1..Len(server)}
  BY <1>3, ToSetFacts
<1>5. /\ server' \in Seq(Ids) /\ Len(server') = Len(server) - 1
      /\ \A i \in 1..at - 1 : server'[i] = server[i]
      /\ \A i \in at..Len(server) - 1 : server'[i] = server[i + 1]
  BY <1>1, <1>3, RemoveFacts
<1>6. TypeOK'
  <2>1. ASSUME NEW e \in ToSet(server), e # server[at] PROVE e \in ToSet(server')
    <3>1. PICK i \in 1..Len(server) : e = server[i]
      BY <1>4
    <3>2. i # at
      BY <2>1, <3>1
    <3>3. CASE i < at
      <4>1. i \in 1..Len(server') /\ server'[i] = e
        BY <1>5, <3>1, <3>3
      <4>2. QED
        BY <1>5, <4>1 DEF ToSet
    <3>4. CASE i > at
      <4>1. i - 1 \in at..Len(server) - 1 /\ (i - 1) + 1 = i
        BY <1>3, <3>4
      <4>2. i - 1 \in 1..Len(server') /\ server'[i - 1] = e
        BY <1>5, <3>1, <4>1
      <4>3. QED
        BY <1>5, <4>2 DEF ToSet
    <3>5. QED
      BY <3>2, <3>3, <3>4
  <2>2. changes' \in 0..MaxChanges
    BY <1>2, <1>3, BoundAssumption
  <2>3. kept' \subseteq ToSet(server')
    BY <1>1, <1>3, <2>1
  <2>4. QED
    BY <1>2, <1>3, <1>5, <2>2, <2>3 DEF Inv, TypeOK
<1>7. Distinct'
  <2>1. ASSUME NEW i \in 1..Len(server')
        PROVE  \E k \in 1..Len(server) : /\ server'[i] = server[k]
                                         /\ k = IF i < at THEN i ELSE i + 1
    BY <1>3, <1>5
  <2>2. ASSUME NEW i \in 1..Len(server'), NEW j \in 1..Len(server'), i # j
        PROVE  server'[i] # server'[j]
    <3>1. PICK k \in 1..Len(server) : server'[i] = server[k] /\ k = IF i < at THEN i ELSE i + 1
      BY <2>1
    <3>2. PICK l \in 1..Len(server) : server'[j] = server[l] /\ l = IF j < at THEN j ELSE j + 1
      BY <2>1
    <3>3. i \in Int /\ j \in Int /\ at \in Int
      BY <1>3, <1>5
    <3>4. k # l
      BY <2>2, <3>1, <3>2, <3>3
    <3>5. QED
      BY <3>1, <3>2, <3>4 DEF Inv, Distinct
  <2>3. QED
    BY <2>2 DEF Distinct
<1>8. Exact'
  <2>1. came' + gone' # 0
    BY <1>2, <1>3
  <2>2. QED
    BY <2>1, ChangeExact
<1>9. Accounted'
  <2>1. CASE pc = "reading"
    <3>1. /\ Cardinality(Unread(server', offset, kept', ToSet(got)))
               <= Cardinality(Unread(server, offset, kept', ToSet(got))) + 1
          /\ Cardinality(Reread(server', offset, ToSet(got)))
               <= Cardinality(Reread(server, offset, ToSet(got)))
      BY <1>1, <1>3, RemoveUnread, RemoveReread
    <3>2. Cardinality(Unread(server, offset, kept', ToSet(got)))
            <= Cardinality(Unread(server, offset, kept, ToSet(got)))
      BY <1>1, <1>3, UnreadFewer
    <3>3. /\ Cardinality(Unread(server, offset, kept, ToSet(got))) <= gone
          /\ Len(got) - Cardinality(ToSet(got))
               + Cardinality(Reread(server, offset, ToSet(got))) <= came
      BY <2>1 DEF Inv, Accounted, Missed, Repeated
    <3>4. /\ Cardinality(Unread(server', offset, kept', ToSet(got))) \in Nat
          /\ Cardinality(Unread(server, offset, kept', ToSet(got))) \in Nat
          /\ Cardinality(Unread(server, offset, kept, ToSet(got))) \in Nat
          /\ Cardinality(Reread(server', offset, ToSet(got))) \in Nat
          /\ Cardinality(Reread(server, offset, ToSet(got))) \in Nat
          /\ Cardinality(ToSet(got)) \in Nat /\ Len(got) \in Nat
      BY <1>3, <1>5, Counts, ToSetFacts
    <3>5. Cardinality(Unread(server', offset, kept', ToSet(got))) <= gone + 1
      BY <1>3, <3>1, <3>2, <3>3, <3>4, SMTT(40)
    <3>6. Len(got) - Cardinality(ToSet(got))
            + Cardinality(Reread(server', offset, ToSet(got))) <= came
      BY SMTT(30), <1>3, <3>1, <3>3, <3>4
    <3>7. Missed' /\ Repeated'
      BY <1>2, <3>5, <3>6 DEF Missed, Repeated
    <3>8. QED
      BY <1>2, <2>1, <3>7 DEF Accounted
  <2>2. CASE pc = "done"
    BY <1>1, <1>2, <1>3, <2>2, DoneStays
  <2>3. QED
    BY <1>2, <2>1, <2>2 DEF Accounted
<1>10. QED
  BY <1>6, <1>7, <1>8, <1>9 DEF Inv

\* A move is a deletion and a creation in one.
LEMMA MoveInv == ASSUME Inv, Move PROVE Inv'
<1>1. PICK from \in 1..Len(server), to \in 1..Len(server) :
        /\ server' = InsertAt(RemoveAt(server, from), to, server[from])
        /\ kept' = kept \ {server[from]}
  BY DEF Move
<1> DEFINE mid == RemoveAt(server, from)
<1>2. /\ came' = came + 1 /\ gone' = gone + 1 /\ changes < MaxChanges /\ changes' = changes + 1
      /\ UNCHANGED <<got, offset, pc>>
  BY DEF Move, Change
<1>3. /\ server \in Seq(Ids) /\ came \in Nat /\ gone \in Nat /\ offset \in Nat
      /\ kept \subseteq ToSet(server) /\ got \in Seq(Ids) /\ changes \in 0..MaxChanges
  BY DEF Inv, TypeOK
<1>4. PICK x \in Ids : x = server[from] /\ x \notin kept'
  BY <1>1, <1>3
<1>5. /\ mid \in Seq(Ids) /\ Len(mid) = Len(server) - 1
      /\ \A i \in 1..from - 1 : mid[i] = server[i]
      /\ \A i \in from..Len(server) - 1 : mid[i] = server[i + 1]
  BY <1>3, RemoveFacts
<1> HIDE DEF mid
<1>6. to \in 1..Len(mid) + 1 /\ server' = InsertAt(mid, to, x)
  BY <1>1, <1>3, <1>4, <1>5 DEF mid
<1>7. /\ server' \in Seq(Ids) /\ Len(server') = Len(server) /\ server'[to] = x
      /\ \A i \in 1..to - 1 : server'[i] = mid[i]
      /\ \A i \in to..Len(mid) : server'[i + 1] = mid[i]
  <2>1. /\ server' \in Seq(Ids) /\ Len(server') = Len(mid) + 1 /\ server'[to] = x
        /\ \A i \in 1..to - 1 : server'[i] = mid[i]
        /\ \A i \in to..Len(mid) : server'[i + 1] = mid[i]
    <3>1. /\ InsertAt(mid, to, x) \in Seq(Ids) /\ Len(InsertAt(mid, to, x)) = Len(mid) + 1
          /\ InsertAt(mid, to, x)[to] = x
          /\ \A i \in 1..to - 1 : InsertAt(mid, to, x)[i] = mid[i]
          /\ \A i \in to..Len(mid) : InsertAt(mid, to, x)[i + 1] = mid[i]
      <4>1. mid \in Seq(Ids) /\ to \in 1..Len(mid) + 1
        BY <1>5, <1>6
      <4>2. QED
        BY <4>1, InsertFacts
    <3>2. QED
      BY <1>6, <3>1
  <2>2. QED
    BY <1>3, <1>5, <2>1
<1> DEFINE Old(i) == IF i < from THEN i ELSE i + 1
           New(i) == IF i < to THEN i ELSE i + 1
<1>8. \A i \in 1..Len(mid) : /\ Old(i) \in 1..Len(server) /\ Old(i) # from
                             /\ mid[i] = server[Old(i)]
  <2>1. ASSUME NEW i \in 1..Len(mid)
        PROVE  Old(i) \in 1..Len(server) /\ Old(i) # from /\ mid[i] = server[Old(i)]
    <3>1. CASE i < from
      BY <1>3, <1>5, <3>1
    <3>2. CASE i >= from
      BY <1>3, <1>5, <3>2
    <3>3. QED
      BY <1>3, <3>1, <3>2
  <2>2. QED
    BY <2>1
<1>9. ASSUME NEW i \in 1..Len(mid)
      PROVE  New(i) \in 1..Len(server') /\ server'[New(i)] = mid[i]
  <2>1. CASE i < to
    BY <1>3, <1>5, <1>7, <2>1
  <2>2. CASE i >= to
    BY <1>3, <1>5, <1>7, <2>2
  <2>3. QED
    BY <1>3, <2>1, <2>2
<1>10. TypeOK'
  <2>1. ASSUME NEW e \in ToSet(server), e # x PROVE e \in ToSet(server')
    <3>1. PICK i \in 1..Len(server) : e = server[i]
      BY <1>3, ToSetFacts
    <3>2. PICK k \in 1..Len(mid) : mid[k] = e
      <4>1. CASE i < from
        BY <1>3, <1>5, <3>1, <4>1
      <4>2. CASE i > from
        <5>1. i - 1 \in from..Len(server) - 1 /\ (i - 1) + 1 = i
          BY <1>3, <4>2
        <5>2. i - 1 \in 1..Len(mid) /\ mid[i - 1] = server[(i - 1) + 1]
          BY <1>3, <1>5, <5>1
        <5>3. QED
          BY <3>1, <5>1, <5>2
      <4>3. i # from
        BY <1>4, <2>1, <3>1
      <4>4. QED
        BY <4>1, <4>2, <4>3
    <3>3. New(k) \in 1..Len(server') /\ server'[New(k)] = e
      BY <1>9, <3>2
    <3>4. QED
      BY <1>7, <3>3, ToSetFacts
  <2>2. changes' \in 0..MaxChanges
    BY <1>2, <1>3, BoundAssumption
  <2>3. kept' \subseteq ToSet(server')
    BY <1>1, <1>3, <1>4, <2>1
  <2>4. QED
    BY <1>2, <1>3, <1>7, <2>2, <2>3 DEF Inv, TypeOK
<1>11. Distinct'
  <2>1. ASSUME NEW i \in 1..Len(server'), i # to
        PROVE  \E k \in 1..Len(mid) : server'[i] = mid[k] /\ k = IF i < to THEN i ELSE i - 1
    <3>1. CASE i < to
      BY <1>3, <1>5, <1>6, <1>7, <3>1
    <3>2. CASE i > to
      <4>1. i - 1 \in to..Len(mid) /\ (i - 1) + 1 = i
        BY <1>3, <1>5, <1>7, <3>2
      <4>2. server'[(i - 1) + 1] = mid[i - 1] /\ i - 1 \in 1..Len(mid)
        BY <1>7, <4>1
      <4>3. QED
        BY <3>2, <4>1, <4>2
    <3>3. QED
      BY <2>1, <1>3, <1>7, <3>1, <3>2
  <2>2. \A k \in 1..Len(mid) : mid[k] # x
    BY <1>4, <1>8 DEF Inv, Distinct
  <2>3. \A k, l \in 1..Len(mid) : k # l => mid[k] # mid[l]
    BY <1>5, <1>8 DEF Inv, Distinct
  <2>4. ASSUME NEW i \in 1..Len(server'), NEW j \in 1..Len(server'), i # j
        PROVE  server'[i] # server'[j]
    <3>1. CASE i = to \/ j = to
      BY <1>7, <2>1, <2>2, <2>4, <3>1
    <3>2. CASE i # to /\ j # to
      <4>1. PICK k \in 1..Len(mid) : server'[i] = mid[k] /\ k = IF i < to THEN i ELSE i - 1
        BY <2>1, <3>2
      <4>2. PICK l \in 1..Len(mid) : server'[j] = mid[l] /\ l = IF j < to THEN j ELSE j - 1
        BY <2>1, <3>2
      <4>3. k # l
        BY <1>3, <1>7, <2>4, <3>2, <4>1, <4>2
      <4>4. QED
        BY <2>3, <4>1, <4>2, <4>3
    <3>3. QED
      BY <3>1, <3>2
  <2>5. QED
    BY <2>4 DEF Distinct
<1>12. Exact'
  <2>1. came' + gone' # 0
    BY <1>2, <1>3
  <2>2. QED
    BY <2>1, ChangeExact
<1>13. Accounted'
  <2>1. CASE pc = "reading"
    <3>1. /\ Cardinality(Unread(server', offset, kept', ToSet(got)))
               <= Cardinality(Unread(mid, offset, kept', ToSet(got)))
          /\ Cardinality(Reread(server', offset, ToSet(got)))
               <= Cardinality(Reread(mid, offset, ToSet(got))) + 1
      BY <1>3, <1>4, <1>5, <1>6, InsertUnread, InsertReread
    <3>2. /\ Cardinality(Unread(mid, offset, kept', ToSet(got)))
               <= Cardinality(Unread(server, offset, kept', ToSet(got))) + 1
          /\ Cardinality(Reread(mid, offset, ToSet(got)))
               <= Cardinality(Reread(server, offset, ToSet(got)))
      BY <1>3, RemoveUnread, RemoveReread DEF mid
    <3>3. Cardinality(Unread(server, offset, kept', ToSet(got)))
            <= Cardinality(Unread(server, offset, kept, ToSet(got)))
      BY <1>1, <1>3, UnreadFewer
    <3>4. /\ Cardinality(Unread(server, offset, kept, ToSet(got))) <= gone
          /\ Len(got) - Cardinality(ToSet(got))
               + Cardinality(Reread(server, offset, ToSet(got))) <= came
      BY <2>1 DEF Inv, Accounted, Missed, Repeated
    <3>5. /\ Cardinality(Unread(server', offset, kept', ToSet(got))) \in Nat
          /\ Cardinality(Unread(mid, offset, kept', ToSet(got))) \in Nat
          /\ Cardinality(Unread(server, offset, kept', ToSet(got))) \in Nat
          /\ Cardinality(Unread(server, offset, kept, ToSet(got))) \in Nat
      BY <1>3, <1>5, <1>7, Counts
    <3>6. /\ Cardinality(Reread(server', offset, ToSet(got))) \in Nat
          /\ Cardinality(Reread(mid, offset, ToSet(got))) \in Nat
          /\ Cardinality(Reread(server, offset, ToSet(got))) \in Nat
          /\ Cardinality(ToSet(got)) \in Nat /\ Len(got) \in Nat
      <4>1. Cardinality(ToSet(got)) \in Nat /\ Len(got) \in Nat
        BY <1>3, ToSetFacts
      <4>2. QED
        BY <1>3, <1>5, <1>7, <4>1, Counts
    <3>7. Cardinality(Unread(server', offset, kept', ToSet(got))) <= gone + 1
      BY <1>3, <3>1, <3>2, <3>3, <3>4, <3>5
    <3>8. Len(got) - Cardinality(ToSet(got))
            + Cardinality(Reread(server', offset, ToSet(got))) <= came + 1
      BY SMTT(30), <1>3, <3>1, <3>2, <3>4, <3>6
    <3>9. Missed' /\ Repeated'
      BY <1>2, <3>7, <3>8 DEF Missed, Repeated
    <3>10. QED
      BY <1>2, <2>1, <3>9 DEF Accounted
  <2>2. CASE pc = "done"
    BY <1>1, <1>2, <1>3, <2>2, DoneStays
  <2>3. QED
    BY <1>2, <2>1, <2>2 DEF Accounted
<1>14. QED
  BY <1>10, <1>11, <1>12, <1>13 DEF Inv

-----------------------------------------------------------------------------
(* Reading a page *)

LEMMA TwoParts ==
  ASSUME NEW A, NEW B, IsFiniteSet(A), IsFiniteSet(B), A \cap B = {}
  PROVE  /\ IsFiniteSet(A \cup B) /\ Cardinality(A) \in Nat /\ Cardinality(B) \in Nat
         /\ Cardinality(A \cup B) = Cardinality(A) + Cardinality(B)
<1>1. Cardinality(A \cap B) = 0
  BY FS_EmptySet
<1>2. Cardinality(A) \in Nat /\ Cardinality(B) \in Nat
  BY FS_CardinalityType
<1>3. /\ IsFiniteSet(A \cup B)
      /\ Cardinality(A \cup B) = Cardinality(A) + Cardinality(B) - Cardinality(A \cap B)
  BY FS_Union
<1>4. QED
  BY <1>1, <1>2, <1>3

\* As many places as the page has elements.
LEMMA NextPlaces ==
  ASSUME NEW n \in Nat, NEW m \in Nat
  PROVE  IsFiniteSet(n + 1..n + m) /\ Cardinality(n + 1..n + m) = m
<1> DEFINE lo == n + 1
           hi == n + m
<1>1. lo \in Int /\ hi \in Int /\ (lo > hi <=> m = 0) /\ hi - lo + 1 = m
  OBVIOUS
<1> HIDE DEF lo, hi
<1>2. IsFiniteSet(lo..hi) /\ Cardinality(lo..hi) = IF lo > hi THEN 0 ELSE hi - lo + 1
  BY <1>1, FS_Interval
<1>3. IsFiniteSet(lo..hi) /\ Cardinality(lo..hi) = m
  BY <1>1, <1>2
<1>4. QED
  BY <1>3 DEF lo, hi

\* Where a page leads: its elements are the next ones of the list, in order.
LEMMA Step ==
  ASSUME Inv, GetPage
  PROVE  /\ pc = "reading" /\ Page \in Seq(Ids) /\ offset' = offset + Len(Page)
         /\ got' = got \o Page /\ got' \in Seq(Ids) /\ Len(got') = Len(got) + Len(Page)
         /\ ToSet(got') = ToSet(got) \cup ToSet(Page)
         /\ Page = <<>> \/ offset + Len(Page) <= Len(server)
         /\ \A i \in 1..Len(Page) : offset + i \in 1..Len(server) /\ Page[i] = server[offset + i]
         /\ pc' \in {"reading", "done"} /\ (pc' = "done" => offset' >= Len(server))
<1>1. server \in Seq(Ids) /\ offset \in Nat /\ got \in Seq(Ids)
  BY DEF Inv, TypeOK
<1>2. /\ Page \in Seq(Ids)
      /\ offset < Len(server) =>
           /\ End \in offset + 1..Len(server) /\ Len(Page) = End - offset
           /\ \A i \in 1..Len(Page) : Page[i] = server[offset + i]
      /\ offset >= Len(server) => Page = <<>>
  BY <1>1, PageFacts
<1>3. /\ pc = "reading" /\ offset' = offset + Len(Page) /\ got' = got \o Page
      /\ pc' = IF LastPage THEN "done" ELSE "reading"
  BY DEF GetPage, Advanced
<1>4. got \o Page \in Seq(Ids) /\ Len(got \o Page) = Len(got) + Len(Page)
  BY <1>1, <1>2
<1>5. ToSet(got \o Page) = ToSet(got) \cup ToSet(Page)
  <2>1. /\ \A i \in 1..Len(got) : (got \o Page)[i] = got[i] /\ i \in 1..Len(got \o Page)
        /\ \A i \in 1..Len(Page) : (got \o Page)[Len(got) + i] = Page[i]
                                   /\ Len(got) + i \in 1..Len(got \o Page)
    BY <1>1, <1>2, <1>4
  <2>2. ASSUME NEW i \in 1..Len(got \o Page)
        PROVE  (got \o Page)[i] \in ToSet(got) \cup ToSet(Page)
    <3>1. CASE i \in 1..Len(got)
      BY <1>1, <2>1, <3>1, ToSetFacts
    <3>2. CASE i \notin 1..Len(got)
      <4>1. i - Len(got) \in 1..Len(Page) /\ Len(got) + (i - Len(got)) = i
        BY <1>1, <1>2, <1>4, <3>2
      <4>2. (got \o Page)[i] = Page[i - Len(got)]
        BY <2>1, <4>1
      <4>3. QED
        BY <1>2, <4>1, <4>2, ToSetFacts
    <3>3. QED
      BY <3>1, <3>2
  <2>3. /\ ToSet(got \o Page) = {(got \o Page)[i] : i \in 1..Len(got \o Page)}
        /\ ToSet(got) = {got[i] : i \in 1..Len(got)}
        /\ ToSet(Page) = {Page[i] : i \in 1..Len(Page)}
    BY <1>1, <1>2, <1>4, ToSetFacts
  <2>4. ToSet(got \o Page) \subseteq ToSet(got) \cup ToSet(Page)
    BY <2>2, <2>3
  <2>5. ToSet(got) \subseteq ToSet(got \o Page)
    BY <2>1, <2>3
  <2>6. ToSet(Page) \subseteq ToSet(got \o Page)
    BY <2>1, <2>3
  <2>7. QED
    BY <2>4, <2>5, <2>6
<1>6. Page = <<>> \/ offset + Len(Page) <= Len(server)
  BY <1>1, <1>2
<1>7. ASSUME NEW i \in 1..Len(Page)
      PROVE  offset + i \in 1..Len(server) /\ Page[i] = server[offset + i]
  <2>1. offset < Len(server)
    BY <1>1, <1>2
  <2>2. QED
    BY <1>1, <1>2, <2>1
<1>8. LastPage => offset + Len(Page) >= Len(server)
  <2>1. Len(<<>>) = 0
    OBVIOUS
  <2>2. CASE Page = <<>>
    BY <1>1, <1>2, <2>1, <2>2
  <2>3. QED
    BY <2>2 DEF LastPage, Advanced
<1>9. QED
  BY <1>2, <1>3, <1>4, <1>5, <1>6, <1>7, <1>8

\* What has slipped past stays what it was: all of the page has been seen.
LEMMA GetPageMissed ==
  ASSUME Inv, GetPage PROVE Missed'
<1>1. /\ server \in Seq(Ids) /\ offset \in Nat /\ gone \in Nat
      /\ UNCHANGED <<server, kept, gone>>
  BY DEF Inv, TypeOK, GetPage
<1>2. Unread(server, offset', kept, ToSet(got')) \in SUBSET Unread(server, offset, kept, ToSet(got))
  <2>1. ASSUME NEW i \in Unread(server, offset', kept, ToSet(got')), i > offset PROVE FALSE
    <3>1. i \in 1..Len(server) /\ i <= offset + Len(Page) /\ server[i] \notin ToSet(Page)
      BY Step DEF Unread
    <3>2. Page \in Seq(Ids) /\ Len(Page) \in Nat
      BY Step
    <3>3. i - offset \in 1..Len(Page) /\ offset + (i - offset) = i
      BY <1>1, <2>1, <3>1, <3>2
    <3>4. Page[i - offset] = server[i]
      BY <3>3, Step
    <3>5. QED
      BY <3>1, <3>2, <3>3, <3>4, ToSetFacts
  <2>2. \A i \in Unread(server, offset', kept, ToSet(got')) : i <= offset
    BY <1>1, <2>1 DEF Unread
  <2>3. ToSet(got) \subseteq ToSet(got')
    BY Step
  <2>4. QED
    BY <2>2, <2>3 DEF Unread
<1>3. IsFiniteSet(Unread(server, offset, kept, ToSet(got)))
  BY <1>1, PlacesFinite DEF Unread
<1>4. Cardinality(Unread(server, offset', kept, ToSet(got')))
        <= Cardinality(Unread(server, offset, kept, ToSet(got)))
  BY <1>2, <1>3, FS_Subset
<1>5. Cardinality(Unread(server, offset, kept, ToSet(got))) <= gone
  BY Step DEF Inv, Accounted, Missed
<1>6. /\ Cardinality(Unread(server, offset', kept, ToSet(got'))) \in Nat
      /\ Cardinality(Unread(server, offset, kept, ToSet(got))) \in Nat
  BY <1>1, Counts
<1>7. Cardinality(Unread(server, offset', kept, ToSet(got'))) <= gone
  BY <1>1, <1>4, <1>5, <1>6
<1>8. QED
  BY <1>1, <1>7 DEF Missed

\* An element of the page is new, or was one that was going to come twice.
LEMMA GetPageRepeated ==
  ASSUME Inv, GetPage PROVE Repeated'
<1> DEFINE G == ToSet(got)
           H == ToSet(got')
           R == Reread(server, offset, G)
           S == Reread(server, offset', H)
           I == offset + 1..offset + Len(Page)
           B == {i \in I : server[i] \in G}
           N == {i \in I : server[i] \notin G}
           f == [i \in N |-> server[i]]
<1>1. /\ server \in Seq(Ids) /\ offset \in Nat /\ got \in Seq(Ids) /\ came \in Nat
      /\ UNCHANGED <<server, came>>
  BY DEF Inv, TypeOK, GetPage
<1>2. /\ Page \in Seq(Ids) /\ Len(Page) \in Nat /\ offset' = offset + Len(Page)
      /\ Len(got') = Len(got) + Len(Page) /\ got' \in Seq(Ids)
      /\ H = G \cup ToSet(Page)
  BY Step
<1>3. ASSUME NEW i \in I
      PROVE  i \in 1..Len(server) /\ server[i] \in ToSet(Page)
  <2>1. i - offset \in 1..Len(Page) /\ offset + (i - offset) = i
    BY <1>1, <1>2
  <2>2. i \in 1..Len(server) /\ Page[i - offset] = server[i]
    BY <2>1, Step
  <2>3. QED
    BY <1>2, <2>1, <2>2, ToSetFacts
<1>4. \A e \in ToSet(Page) : \E i \in I : e = server[i]
  <2>1. ASSUME NEW k \in 1..Len(Page) PROVE offset + k \in I /\ Page[k] = server[offset + k]
    BY <1>1, <1>2, Step
  <2>2. ToSet(Page) = {Page[k] : k \in 1..Len(Page)}
    BY <1>2, ToSetFacts
  <2>3. QED
    BY <2>1, <2>2
<1>5. IsFiniteSet(I) /\ Cardinality(I) = Len(Page)
  BY <1>1, <1>2, NextPlaces
<1>6. Cardinality(B) \in Nat /\ Cardinality(N) \in Nat /\ Len(Page) = Cardinality(B) + Cardinality(N)
  <2>1. IsFiniteSet(B) /\ IsFiniteSet(N)
    BY <1>5, FS_Subset
  <2>2. B \cap N = {} /\ B \cup N = I
    OBVIOUS
  <2> HIDE DEF B, N, I
  <2>3. QED
    BY <1>5, <2>1, <2>2, TwoParts
<1>7. Cardinality(S) \in Nat /\ Cardinality(R) = Cardinality(S) + Cardinality(B)
  <2>1. S \cup B \subseteq R
    <3>1. ASSUME NEW i \in S PROVE i \in R
      <4>1. i \in 1..Len(server) /\ i > offset + Len(Page) /\ server[i] \in H
        BY <1>2 DEF Reread
      <4>2. server[i] \notin ToSet(Page)
        <5>1. ASSUME NEW j \in I PROVE server[i] # server[j]
          BY <1>1, <1>2, <1>3, <4>1 DEF Inv, Distinct
        <5>2. QED
          BY <1>4, <5>1
      <4>3. QED
        BY <1>1, <1>2, <4>1, <4>2 DEF Reread
    <3>2. ASSUME NEW i \in B PROVE i \in R
      BY <1>1, <1>3 DEF Reread
    <3>3. QED
      BY <3>1, <3>2
  <2>2. ASSUME NEW i \in R PROVE i \in S \cup B
    <3>1. i \in 1..Len(server) /\ i > offset /\ server[i] \in G
      BY DEF Reread
    <3>2. CASE i \in I
      BY <3>1, <3>2
    <3>3. CASE i \notin I
      BY <1>1, <1>2, <3>1, <3>3 DEF Reread
    <3>4. QED
      BY <3>2, <3>3
  <2>3. S \cap B = {}
    BY <1>1, <1>2 DEF Reread
  <2>4. IsFiniteSet(S) /\ IsFiniteSet(B)
    <3>1. IsFiniteSet(S)
      BY <1>1, PlacesFinite DEF Reread
    <3>2. QED
      BY <1>5, <3>1, FS_Subset
  <2> HIDE DEF S, B, R
  <2>5. R = S \cup B
    BY <2>1, <2>2
  <2>6. QED
    BY <2>3, <2>4, <2>5, TwoParts
<1>8. IsFiniteSet(G) /\ IsFiniteSet(H \ G) /\ H = G \cup (H \ G)
  <2>1. IsFiniteSet(G) /\ IsFiniteSet(H)
    BY <1>1, <1>2, ToSetFacts
  <2>2. G \subseteq H
    BY <1>2
  <2> HIDE DEF G, H
  <2>3. QED
    BY <2>1, <2>2, FS_Subset
<1>9. Cardinality(N) <= Cardinality(H \ G)
  <2>1. ASSUME NEW i \in N PROVE f[i] \in H \ G
    BY <1>2, <1>3
  <2>2. ASSUME NEW i \in N, NEW j \in N, f[i] = f[j] PROVE i = j
    BY <1>3, <2>2 DEF Inv, Distinct
  <2>3. f \in Injection(N, H \ G)
    BY <2>1, <2>2 DEF Injection, IsInjective
  <2> HIDE DEF f, N, H, G
  <2>4. QED
    BY <1>8, <2>3, FS_Injection
<1>10. /\ Cardinality(G) \in Nat /\ Cardinality(H \ G) \in Nat
       /\ Cardinality(H) = Cardinality(G) + Cardinality(H \ G)
  <2> HIDE DEF G, H
  <2>1. G \cap (H \ G) = {}
    OBVIOUS
  <2>2. QED
    BY <1>8, <2>1, TwoParts
<1>11. Len(got) - Cardinality(G) + Cardinality(R) <= came
  BY Step DEF Inv, Accounted, Repeated
<1> HIDE DEF G, H, R, S, I, B, N, f
<1>12. /\ Len(got) \in Nat /\ Len(Page) \in Nat /\ came \in Nat
       /\ Len(got') = Len(got) + Len(Page)
  BY <1>1, <1>2
<1>13. Len(got') - Cardinality(H) + Cardinality(S) <= came
  <2>1. Cardinality(H) \in Nat /\ Cardinality(H) >= Cardinality(G) + Cardinality(N)
    BY <1>6, <1>9, <1>10
  <2>2. Cardinality(R) \in Nat /\ Cardinality(S) = Cardinality(R) - Cardinality(B)
    BY <1>6, <1>7
  <2>3. Len(got') \in Nat /\ Len(got') = Len(got) + Cardinality(B) + Cardinality(N)
    BY <1>6, <1>12
  <2>4. QED
    <3>1. /\ Cardinality(G) \in Nat /\ Cardinality(B) \in Nat /\ Cardinality(N) \in Nat
          /\ Cardinality(S) \in Nat /\ Len(got) \in Nat /\ came \in Nat
      BY <1>6, <1>7, <1>10, <1>12
    <3>2. Len(got) - Cardinality(G) + Cardinality(R) <= came
      BY <1>11
    <3>3. QED
      BY ONLY SMTT(30), <2>1, <2>2, <2>3, <3>1, <3>2
<1>14. QED
  BY <1>1, <1>13 DEF Repeated, H, S

\* At the end there is nothing left to be read: what is missing has slipped past.
LEMMA EndMissing ==
  ASSUME NEW S, NEW s \in Seq(S), NEW n \in Nat, n >= Len(s), NEW K \in SUBSET ToSet(s), NEW G
  PROVE  /\ Cardinality(K \ G) \in Nat
         /\ Cardinality(K \ G) <= Cardinality(Unread(s, n, K, G))
<1> DEFINE U == Unread(s, n, K, G)
           M == K \ G
           f == [i \in U |-> s[i]]
<1>1. f \in Surjection(U, M)
  <2>1. ASSUME NEW i \in U PROVE f[i] \in M
    BY DEF Unread
  <2>2. ASSUME NEW e \in M PROVE \E i \in U : f[i] = e
    <3>1. PICK i \in 1..Len(s) : s[i] = e
      BY ToSetFacts
    <3>2. i \in U
      BY <3>1 DEF Unread
    <3>3. QED
      BY <3>1, <3>2
  <2>3. QED
    BY <2>1, <2>2 DEF Surjection
<1>2. IsFiniteSet(U)
  BY PlacesFinite DEF Unread
<1> HIDE DEF U, M, f
<1>3. IsFiniteSet(M) /\ Cardinality(M) <= Cardinality(U)
  BY <1>1, <1>2, FS_Surjection
<1>4. Cardinality(M) \in Nat
  BY <1>3, FS_CardinalityType
<1>5. QED
  BY <1>3, <1>4 DEF M, U

LEMMA GetPageInv == ASSUME Inv, GetPage PROVE Inv'
<1>1. UNCHANGED <<server, kept, came, gone, changes>>
  BY DEF GetPage
<1>2. /\ server \in Seq(Ids) /\ offset \in Nat /\ got \in Seq(Ids) /\ offset = Len(got)
      /\ TypeOK /\ Distinct
  BY DEF Inv, TypeOK
<1>3. TypeOK'
  <2>1. offset' \in Nat /\ offset' = Len(got')
    BY <1>2, Step
  <2>2. got' \in Seq(Ids) /\ pc' \in {"idle", "reading", "done", "failed"}
    BY Step
  <2>3. QED
    BY <1>1, <1>2, <2>1, <2>2 DEF TypeOK
<1>4. Distinct'
  BY <1>1, <1>2 DEF Distinct
<1>5. Exact'
  <2>1. SUFFICES ASSUME came + gone = 0
                 PROVE  /\ offset' <= Len(server) /\ got' = SubSeq(server, 1, offset')
                        /\ pc' = "done" => offset' = Len(server)
    BY <1>1 DEF Exact
  <2>2. offset <= Len(server) /\ got = SubSeq(server, 1, offset)
    BY <2>1, Step DEF Inv, Exact
  <2>3. CASE offset = Len(server)
    <3>1. Page = <<>>
      BY <1>2, <2>3, PageFacts
    <3>2. Len(<<>>) = 0
      OBVIOUS
    <3>3. offset' = offset
      BY <1>2, <3>1, <3>2, Step
    <3>4. got' = got
      BY <1>2, <3>1, Step
    <3>5. QED
      BY <2>2, <2>3, <3>3, <3>4
  <2>4. CASE offset < Len(server)
    <3>1. /\ End \in offset + 1..Len(server) /\ Len(Page) = End - offset
          /\ Page = SubSeq(server, offset + 1, End)
      BY <1>2, <2>4, PageFacts
    <3>2. offset' = End /\ End <= Len(server)
      BY <1>2, <3>1, Step
    <3>3. SubSeq(server, 1, offset) \o SubSeq(server, offset + 1, End) = SubSeq(server, 1, End)
      <4>1. /\ offset \in 0..Len(server) /\ End \in offset..Len(server)
            /\ 1 \in 1..Len(server) + 1 /\ offset \in 1 - 1..Len(server)
        BY <1>2, <3>1
      <4>2. QED
        BY <1>2, <4>1, ConcatAdjacentSubSeq
    <3>4. got' = SubSeq(server, 1, offset')
      BY <2>2, <3>1, <3>2, <3>3, Step
    <3>5. pc' = "done" => offset' = Len(server)
      BY <1>2, <3>1, <3>2, Step
    <3>6. QED
      BY <3>2, <3>4, <3>5
  <2>5. QED
    BY <1>2, <2>2, <2>3, <2>4
<1>6. Accounted'
  <2>1. Missed' /\ Repeated'
    BY GetPageMissed, GetPageRepeated
  <2>2. ASSUME pc' = "done" PROVE ErrorsAreBounded'
    <3>1. offset' \in Nat /\ offset' >= Len(server) /\ got' \in Seq(Ids)
      BY <1>3, <2>2, Step DEF TypeOK
    <3>2. kept \in SUBSET ToSet(server) /\ gone \in Nat /\ came \in Nat
      BY <1>2 DEF TypeOK
    <3>3. /\ Cardinality(Unread(server, offset', kept, ToSet(got'))) <= gone
          /\ Len(got') - Cardinality(ToSet(got'))
               + Cardinality(Reread(server, offset', ToSet(got'))) <= came
      BY <1>1, <2>1 DEF Missed, Repeated
    <3>4. /\ Cardinality(Unread(server, offset', kept, ToSet(got'))) \in Nat
          /\ Cardinality(Reread(server, offset', ToSet(got'))) \in Nat
      BY <1>2, Counts
    <3>5. Cardinality(ToSet(got')) \in Nat /\ Len(got') \in Nat
      BY <3>1, ToSetFacts
    <3>6. /\ Cardinality(kept \ ToSet(got')) \in Nat
          /\ Cardinality(kept \ ToSet(got')) <= Cardinality(Unread(server, offset', kept, ToSet(got')))
      BY <1>2, <3>1, <3>2, EndMissing
    <3>7. Cardinality(kept \ ToSet(got')) <= gone
      BY <3>2, <3>3, <3>4, <3>6
    <3>8. Len(got') - Cardinality(ToSet(got')) <= came
      BY <3>2, <3>3, <3>4, <3>5
    <3>9. QED
      BY <1>1, <3>7, <3>8 DEF ErrorsAreBounded
  <2>3. QED
    BY <2>1, <2>2 DEF Accounted
<1>7. QED
  BY <1>3, <1>4, <1>5, <1>6 DEF Inv

-----------------------------------------------------------------------------
(* Theorems *)

LEMMA NextInv == Inv /\ [Next]_vars => Inv'
<1> SUFFICES ASSUME Inv, [Next]_vars PROVE Inv'
  OBVIOUS
<1>1. CASE Begin
  BY <1>1, BeginInv
<1>2. CASE GetPage
  BY <1>2, GetPageInv
<1>3. CASE Fail
  BY <1>3, FailInv
<1>4. CASE Create
  BY <1>4, CreateInv
<1>5. CASE Delete
  BY <1>5, DeleteInv
<1>6. CASE Move
  BY <1>6, MoveInv
<1>7. CASE UNCHANGED vars
  BY <1>7 DEF vars, Inv, TypeOK, Distinct, Exact, Accounted, Missed, Repeated, ErrorsAreBounded
<1>8. QED
  BY <1>1, <1>2, <1>3, <1>4, <1>5, <1>6, <1>7 DEF Next

\* The accounting holds however reading and changes interleave.
THEOREM Invariance == Spec => []Inv
<1>1. QED
  BY InitInv, NextInv, PTL DEF Spec

\* Reading keeps every variable in its type.
THEOREM TypeCorrect == Spec => []TypeOK
<1>1. Inv => TypeOK
  BY DEF Inv
<1>2. QED
  BY <1>1, Invariance, PTL

\* Of a console nothing changes, the list returns all, once, in order, for
\* every page size and every cap of the console.
THEOREM QuietReads == Spec => []QuietReadIsExact
<1>1. Inv => QuietReadIsExact
  <2>1. SUFFICES ASSUME Inv, pc = "done", came + gone = 0 PROVE got = server
    BY DEF QuietReadIsExact
  <2>2. server \in Seq(Ids) /\ got = SubSeq(server, 1, Len(server))
    BY <2>1 DEF Inv, TypeOK, Exact
  <2>3. QED
    BY <2>2, SubSeqFull
<1>2. QED
  BY <1>1, Invariance, PTL

\* Each change in between costs at most one element missed and one repeated.
THEOREM BoundedErrors == Spec => []ErrorsAreBounded
<1>1. Inv => ErrorsAreBounded
  BY DEF Inv, Accounted, ErrorsAreBounded
<1>2. QED
  BY <1>1, Invariance, PTL
================================================================================
