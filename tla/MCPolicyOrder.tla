----------------------------- MODULE MCPolicyOrder -----------------------------
(* Instances of PolicyOrder for TLC. *)
EXTENDS PolicyOrder, TLC

CONSTANTS P, Q, a, b, c, d1, x, y, w

User(u, k, v)     == [uid |-> u, key |-> k, conf |-> v, system |-> FALSE, fixed |-> FALSE, hasId |-> TRUE]
System(u, k, v)   == [User(u, k, v) EXCEPT !.system = TRUE, !.fixed = TRUE]
Migrated(u, k, v) == [User(u, k, v) EXCEPT !.hasId = FALSE]
E(k, v, o)        == [key |-> k, conf |-> v, order |-> o]

Pa == <<P, a>>
Pb == <<P, b>>
Pc == <<P, c>>
Pd == <<P, d1>>
Qa == <<Q, a>>

\* Two pairs interleaved, with one of the console's own among them; then one
\* without an id, two with one identity, and one the schema cannot express.
MCConsoles ==
  { <<User(1, Pa, x), System(2, Pd, x), User(3, Qa, x), User(4, Pb, x), User(5, Pc, x)>>,
    <<Migrated(1, Pa, x), User(2, Pb, x), System(3, Pd, x)>>,
    <<User(1, Pa, x), User(2, Pa, y), User(3, Pb, w)>> }

MCDocuments ==
  { \* every order given, two the same, one new in the middle, pairs interleaved
    [entries |-> <<E(Pc, x, 1), E(Pb, y, 3), E(Qa, x, 1), E(Pa, x, 3)>>, prune |-> FALSE],
    \* one order only, the others omitted; an entry for the console's own
    [entries |-> <<E(Pd, x, 2), E(Pa, x, NoOrder), E(Pb, x, 5), E(Pc, y, NoOrder)>>, prune |-> TRUE],
    \* no order at all; the console's own cannot be changed
    [entries |-> <<E(Pb, x, NoOrder), E(Pa, x, NoOrder)>>, prune |-> TRUE],
    [entries |-> <<E(Pd, y, 1)>>, prune |-> FALSE],
    \* refused: an identity declared twice, a policy that may not be created
    [entries |-> <<E(Pa, x, 1), E(Pa, y, 2)>>, prune |-> FALSE],
    [entries |-> <<E(Qa, w, 1)>>, prune |-> FALSE] }

MCOmitted ==
  { [entries |-> <<E(Pa, x, NoOrder), E(Pb, x, 5)>>, prune |-> FALSE] }

================================================================================
