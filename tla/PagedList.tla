------------------------------- MODULE PagedList -------------------------------
(***************************************************************************)
(* Reading a list from the console (cmd/unifi/client.go, list): page after *)
(* page by offset, while objects are created, deleted and moved in the     *)
(* list between two requests.  Every resource type of a pass starts from   *)
(* such a list; ReconcileRun takes it for the console at one moment, and   *)
(* this module says when that is so and how far it can be off.             *)
(***************************************************************************)
EXTENDS Integers, FiniteSets, SequencesExt

CONSTANTS
  Ids,         \* objects of one resource type
  Lists,       \* what the console may hold at first
  PageLimit,   \* the page size asked for
  ServerCap,   \* the most the console puts on a page, whatever it is asked for
  MaxChanges   \* bound: creations, deletions and moves

ASSUME ListsAssumption ==
  \A s \in Lists : s \in Seq(Ids) /\ \A i, j \in DOMAIN s : i # j => s[i] # s[j]
ASSUME PageAssumption  == PageLimit \in Nat \ {0} /\ ServerCap \in Nat \ {0}
ASSUME BoundAssumption == MaxChanges \in Nat

VARIABLES
  server,   \* the console's list
  got,      \* all: what has been read
  offset,
  pc        \* "idle" | "reading" | "done" | "failed"

\* History, of the list being read.
VARIABLES
  kept,     \* objects in the list, and not moved, ever since reading began
  came,     \* creations and moves since
  gone,     \* deletions and moves since
  changes   \* creations, deletions and moves in all

vars == <<server, got, offset, pc, kept, came, gone, changes>>

Smaller(m, n) == IF m < n THEN m ELSE n

\* One page of the console's list, as the fake console of the tests serves it.
Page == SubSeq(server, offset + 1,
               Smaller(offset + Smaller(PageLimit, ServerCap), Len(server)))

-----------------------------------------------------------------------------
Begin ==
  /\ pc # "reading" /\ pc' = "reading"
  /\ got' = <<>> /\ offset' = 0
  /\ kept' = ToSet(server) /\ came' = 0 /\ gone' = 0
  /\ UNCHANGED <<server, changes>>

\* Mutant: on by what was asked for.
AdvancedByLimit == offset + PageLimit

\* Mutant: one element is skipped at every page boundary.
AdvancedOffByOne == offset + Len(Page) + 1

\* On by what the page holds, not by what was asked for.
Advanced == offset + Len(Page)

\* Mutant: a page shorter than the limit is taken for the last.
LastIfShort == Len(Page) < PageLimit

\* Mutant: the end is looked for behind the end.
LastPastEnd == Advanced > Len(server)

\* An empty page, or no more according to totalCount.
LastPage == Page = <<>> \/ Advanced >= Len(server)

GetPage ==
  /\ pc = "reading"
  /\ got' = got \o Page /\ offset' = Advanced
  /\ pc' = IF LastPage THEN "done" ELSE "reading"
  /\ UNCHANGED <<server, kept, came, gone, changes>>

\* A request fails: no list at all.
Fail ==
  /\ pc = "reading" /\ pc' = "failed"
  /\ got' = <<>> /\ offset' = 0
  /\ UNCHANGED <<server, kept, came, gone, changes>>

-----------------------------------------------------------------------------
(* The console's list changes *)

Change ==
  /\ changes < MaxChanges /\ changes' = changes + 1
  /\ UNCHANGED <<got, offset, pc>>

Create ==
  /\ \E x \in Ids \ ToSet(server), at \in 1..Len(server) + 1 :
       server' = InsertAt(server, at, x)
  /\ came' = came + 1
  /\ Change /\ UNCHANGED <<kept, gone>>

Delete ==
  /\ \E at \in 1..Len(server) : server' = RemoveAt(server, at) /\ kept' = kept \ {server[at]}
  /\ gone' = gone + 1
  /\ Change /\ UNCHANGED came

\* A rename or a reorder gives an object another place.
Move ==
  /\ \E from, to \in 1..Len(server) :
       /\ from # to
       /\ server' = InsertAt(RemoveAt(server, from), to, server[from])
       /\ kept' = kept \ {server[from]}
  /\ came' = came + 1 /\ gone' = gone + 1
  /\ Change

-----------------------------------------------------------------------------
Init ==
  /\ server \in Lists
  /\ got = <<>> /\ offset = 0 /\ pc = "idle"
  /\ kept = {} /\ came = 0 /\ gone = 0 /\ changes = 0

Next == Begin \/ GetPage \/ Fail \/ Create \/ Delete \/ Move

Spec == Init /\ [][Next]_vars

\* The loop goes on.
FairSpec == Spec /\ WF_vars(GetPage)

-----------------------------------------------------------------------------
(* Properties *)

\* Every variable has its type, and what was read is as long as the offset.
TypeOK ==
  /\ server \in Seq(Ids) /\ got \in Seq(Ids)
  /\ offset \in Nat /\ offset = Len(got)
  /\ pc \in {"idle", "reading", "done", "failed"}
  /\ kept \subseteq ToSet(server)
  /\ came \in Nat /\ gone \in Nat /\ changes \in 0..MaxChanges

\* client.go:173: the list returns every element. It does, in their order, of
\* a console that nothing changes, whatever page size the console insists on.
QuietReadIsExact == pc = "done" /\ came + gone = 0 => got = server

\* With changes in between, each that takes an object away from its place can
\* hide one other, which a sync then tries to create again; each that puts
\* one into a place can repeat one.
ErrorsAreBounded ==
  pc = "done" =>
    /\ Cardinality(kept \ ToSet(got)) <= gone
    /\ Len(got) - Cardinality(ToSet(got)) <= came

\* However the list changes, reading it comes to an end.
EventuallyReturns == pc = "reading" ~> pc # "reading"
=============================================================================
