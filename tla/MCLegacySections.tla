--------------------------- MODULE MCLegacySections ---------------------------
(* Instances of LegacySections for TLC. *)
EXTENDS LegacySections

CONSTANTS nas, tv, ip1, ip2, lan, iot, label, all, custom

Net(onLan, onIot) == [n \in Nets |-> IF n = lan THEN onLan ELSE onIot]
Res(forNas, forTv) == [m \in Macs |-> IF m = nas THEN forNas ELSE forTv]
Held(ip, net, name) == [fixed |-> TRUE, ip |-> ip, net |-> net, name |-> name]
At(ip, net, name) == [ip |-> ip, net |-> net, name |-> name]

\* One network, with a reservation on it that stores no network; the other
\* client has never been seen.
MCSmall == [scope |-> all, nets |-> Net("off", None),
            clients |-> Res(Held(ip1, None, None), None), seen |-> Res(lan, None)]

MCSites == {MCSmall}

Both == {"networks", "reservations"}

\* tv takes the address nas had, on a new network that takes part in mDNS under
\* a new scope.
Trade == [mdns |-> custom, nets |-> Net("off", "on"),
          res |-> Res(At(ip2, lan, None), At(ip1, iot, None)),
          sections |-> Both, deletions |-> {}]

\* iot goes, and with it what was reserved there; nas takes its address back
\* and gets a name.
Shrink == [mdns |-> None, nets |-> Net("on", None),
           res |-> Res(At(ip1, lan, label), None),
           sections |-> Both, deletions |-> {iot, tv}]

\* The same without the approvals.
Unlisted == [Shrink EXCEPT !.deletions = {}]

\* Networks only: reservations and scope are not managed.
Partial == [mdns |-> None, nets |-> Net("off", "on"), res |-> Res(None, None),
            sections |-> {"networks"}, deletions |-> {}]

\* One address for two.
Double == [Trade EXCEPT !.res = Res(At(ip2, lan, None), At(ip2, iot, None))]

\* iot is not declared any more, but tv is still reserved on it.
Stranded == [Shrink EXCEPT !.res = Res(None, At(ip2, iot, None)), !.deletions = {iot, nas}]

Pruning  == [prune |-> TRUE, force |-> FALSE, snapshotDir |-> TRUE]
Adding   == [prune |-> FALSE, force |-> FALSE, snapshotDir |-> FALSE]

MCCommands ==
  { [doc |-> Trade, opts |-> Pruning], [doc |-> Shrink, opts |-> Pruning],
    [doc |-> Unlisted, opts |-> Pruning], [doc |-> Partial, opts |-> Adding],
    [doc |-> Double, opts |-> Pruning] }

MCStrandedCommands == { [doc |-> Stranded, opts |-> Pruning] }
=============================================================================
