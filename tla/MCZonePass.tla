------------------------------ MODULE MCZonePass ------------------------------
(* Instances of ZonePass for TLC. *)
EXTENDS ZonePass, TLC

CONSTANTS n1, n2, n3, A, B, C, c1, c2

Net(c, z) == [conf |-> c, zone |-> z]

\* n1 in the built-in zone A, which cannot be written, n2 in the user's zone B; the second console has
\* no zone-based firewall.
MCConsoles ==
  { [nets |-> (n1 :> Net(c1, A) @@ n2 :> Net(c1, B) @@ n3 :> Absent),
     zones |-> {A, B}, zbf |-> TRUE],
    [nets |-> (n1 :> Net(c1, NoZone) @@ n2 :> Absent @@ n3 :> Absent),
     zones |-> {}, zbf |-> FALSE] }

Doc(x1, x2, x3, za, zb, zc, p) ==
  [nets |-> (n1 :> x1 @@ n2 :> x2 @@ n3 :> x3),
   zones |-> (A :> za @@ B :> zb @@ C :> zc), prune |-> p]

\* n2 changes and moves to the new zone C, and B goes.
MoveToNew  == Doc(c1, c2, Absent, {n1}, Absent, {n2}, TRUE)
\* Two networks trade zones: the user's own, and one that cannot be written.
Swap       == Doc(c1, c1, c1, {n1}, {n3}, {n2}, TRUE)
SwapFixed  == Doc(c1, c1, Absent, {n2}, {n1}, Absent, FALSE)
\* n3 is new, in an existing zone and in a new one.
NewInOld   == Doc(c1, c1, c1, {n1}, {n2, n3}, Absent, FALSE)
NewInFixed == Doc(c1, c1, c1, {n1, n3}, {n2}, Absent, FALSE)
NewInNew   == Doc(c2, c1, c1, {n1}, {n2}, {n3}, TRUE)
\* n2 goes, and its zone with it.
DropBoth   == Doc(c1, Absent, Absent, {n1}, Absent, Absent, TRUE)
\* A new network in no zone; a new zone with an unknown network.
NoHome     == Doc(c1, c1, c1, {n1}, {n2}, Absent, FALSE)
BadMember  == Doc(Absent, c1, Absent, Absent, {n2}, {n3}, FALSE)
\* n2 goes, its zone B stays: once empty, once still naming it.
KeepZone   == Doc(c1, Absent, Absent, {n1}, {}, Absent, TRUE)
KeepMember == Doc(c1, Absent, Absent, {n1}, {n2}, Absent, TRUE)

\* n2 goes, the new zone C lists it.
TakeMember == Doc(c1, Absent, Absent, {n1}, Absent, {n2}, TRUE)

MCDocuments       == {MoveToNew, Swap, SwapFixed, NewInOld, NewInFixed, NewInNew,
                      DropBoth, NoHome, BadMember, KeepZone, KeepMember, TakeMember}
MCPruneDocuments  == {KeepZone, KeepMember}
=============================================================================
