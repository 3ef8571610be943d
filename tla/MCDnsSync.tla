------------------------------ MODULE MCDnsSync ------------------------------
(* Instances of DnsSync for TLC. *)
EXTENDS DnsSync, TLC

CONSTANTS d1, d2, apex, www, pre, x, y

R(i, t, n, c)  == [id |-> i, type |-> t, name |-> n, content |-> c, ttl |-> 1]
W(t, n, c, l)  == [type |-> t, name |-> n, content |-> c, ttl |-> l]
Zone(d, ws)    == [domain |-> d, records |-> ws]

\* The apex and www have an address, the apex a name server, a pull request
\* its preview; the other zone has a CNAME, and twice the same text.
MCZones ==
  { d1 :> {R(1, "A", apex, x), R(2, "A", www, x), R(3, "NS", apex, x), R(4, "CNAME", pre, x)}
    @@ d2 :> {R(1, "CNAME", www, x), R(2, "TXT", apex, x), R(3, "TXT", apex, x)} }

\* infraZone of sync_cname_test.go: the apex moves, www becomes a CNAME.
Infra   == Zone(d1, <<W("A", apex, y, 1), W("TXT", apex, x, 1), W("CNAME", www, y, 1)>>)
\* The CNAME becomes two addresses.
Back    == Zone(d2, <<W("A", www, x, 1), W("A", www, y, 1)>>)
\* The CNAME gets another target; of two equal texts one stays,
\* with another TTL.
Moved   == Zone(d2, <<W("CNAME", www, y, 1), W("TXT", apex, x, 2)>>)
\* Refused: two entries that break the CNAME rule, a name a preview has.
Clash   == Zone(d1, <<W("A", apex, x, 1), W("CNAME", apex, x, 1)>>)
Preview == Zone(d1, <<W("A", pre, x, 1)>>)
\* One domain twice, with different records.
Twice1  == Zone(d1, <<W("A", apex, x, 2), W("TXT", www, x, 1)>>)
Twice2  == Zone(d1, <<W("A", apex, x, 2)>>)

MCInputs == { <<Infra, Back>>, <<Moved>>, <<Clash>>, <<Moved, Preview>>, <<Twice1, Twice2>> }

\* Two texts at one name, one of which gets another TTL.
MCTexts      == { d1 :> {R(1, "TXT", apex, x), R(2, "TXT", apex, y)} @@ d2 :> {} }
MCTextInputs == { <<Zone(d1, <<W("TXT", apex, x, 2), W("TXT", apex, y, 1)>>)>> }
==============================================================================
