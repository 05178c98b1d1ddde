--------------------------- MODULE BootstrapLists ---------------------------
(***************************************************************************)
(* The lists of src/src/bootstrap.ts: what counts as an endpoint, what a   *)
(* domain's TXT records contribute, and how the sources of endpoints are   *)
(* merged into one bounded list.  Canon is parsing and formatting: the     *)
(* endpoint that a string stands for, or Junk, where it stands for none or *)
(* for one that the transport cannot reach.                                *)
(***************************************************************************)
EXTENDS Naturals, FiniteSets, Sequences, SequencesExt, FiniteSetsExt

CONSTANTS
    Endpoints,     \* canonical strings
    Hostnames,     \* those that are no address
    Canon,
    Junk,
    RememberedCap, BytesPerDomain, EndpointsPerDomain, EndpointsTotal, BootstrapTotal  \* LIMITS

ASSUME CanonAssumption ==
    /\ Hostnames \subseteq Endpoints /\ Junk \notin Endpoints
    /\ Endpoints \subseteq DOMAIN Canon /\ \A e \in Endpoints : Canon[e] = e
    /\ \A s \in DOMAIN Canon : Canon[s] \in Endpoints \cup {Junk}
ASSUME LimitsAssumption ==
    {RememberedCap, BytesPerDomain, EndpointsPerDomain, EndpointsTotal, BootstrapTotal} \subseteq Nat

First(s, n) == SubSeq(s, 1, Min({n, Len(s)}))

canonicalEndpoints(list) ==
    FoldLeft(LAMBDA out, s : IF Canon[s] = Junk \/ Contains(out, Canon[s]) THEN out ELSE Append(out, Canon[s]),
             <<>>, list)

-----------------------------------------------------------------------------
\* The TXT records of a domain that are read: those before the first that does not fit.
Read(records) ==
    LET fits == {k \in 0..Len(records) :
                   FoldLeft(LAMBDA n, r : n + r.bytes, 0, SubSeq(records, 1, k)) <= BytesPerDomain}
    IN  FoldLeft(LAMBDA out, r : out \o r.tokens, <<>>, SubSeq(records, 1, Max(fits)))

\* The addresses of a domain's answer, in order.
Addresses(records) == SelectSeq(canonicalEndpoints(Read(records)), LAMBDA e : e \notin Hostnames)

\* Fault: the domains before count for the limit of one domain.
Fresh_AllDomains(emitted, records) ==
    LET new == SelectSeq(Addresses(records), LAMBDA e : ~Contains(emitted, e))
    IN  First(new, Max({0, EndpointsPerDomain - Len(emitted)}))

\* What a domain adds to what others have emitted.
Fresh(emitted, records) ==
    LET new == SelectSeq(Addresses(records), LAMBDA e : ~Contains(emitted, e))
    IN  First(new, Min({EndpointsPerDomain, EndpointsTotal - Len(emitted)}))

-----------------------------------------------------------------------------
mergeBootstrap(builtin, remembered, dns, peers) ==
    LET b == canonicalEndpoints(builtin)
        p == canonicalEndpoints(peers)
        reserved == Range(b) \cup Range(p)
        others == First(canonicalEndpoints(remembered), RememberedCap)
                    \o First(canonicalEndpoints(dns), EndpointsTotal)
        room == IF Cardinality(reserved) < BootstrapTotal THEN BootstrapTotal - Cardinality(reserved) ELSE 0
        Room(out) == Cardinality(Range(out) \ reserved) < room
        merged == FoldLeft(LAMBDA out, e :
                      IF ~Contains(out, e) /\ (e \in reserved \/ Room(out)) THEN Append(out, e) ELSE out,
                      <<>>, b \o others \o p)
    IN  First(merged, BootstrapTotal)

startupPeerPings(bootstrap, peers) ==
    SelectSeq(canonicalEndpoints(peers), LAMBDA p : Contains(bootstrap, p))
=============================================================================
