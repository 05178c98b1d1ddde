----------------------------- MODULE Discovery ------------------------------
(***************************************************************************)
(* How a node that knows nobody finds others (src/src/node.ts): the list   *)
(* it starts with, the DNS seeds that come in while it runs, the one-shot  *)
(* discovery that waits for a first contact, the retries while the routing *)
(* table is empty, the check for isolation, and stop.                      *)
(*                                                                         *)
(* Of the routing table only matters whether it is empty.  The library     *)
(* says so when a node joins it ("node").                                  *)
(***************************************************************************)
EXTENDS BootstrapLists

CONSTANTS
    Domains,
    Answers,      \* the TXT records that each domain may have
    Sources,      \* builtin, remembered and --peer endpoints
    RetriesMax    \* DNS_RETRY.max

ASSUME RetriesAssumption == RetriesMax \in Nat

VARIABLES
    sources,
    up,            \* the node: starting, running, stopping
    queries,       \* the lookup of each domain
    answers,       \* what it brought
    emitted,       \* the endpoints that dnsSeeds has emitted
    dnsCandidates,
    table,         \* the routing table has a node
    listener,      \* discoveryListener
    timers,        \* the retry timers that will fire; dnsRetryTimer is the last of them
    dnsRetries,
    wasPopulated,
    sampling,      \* the interval that calls checkIsolation
    rounds,        \* retries since a node last joined the table
    pinged         \* seeds were pinged since then, and the table was empty

lists == <<sources, queries, answers, emitted, dnsCandidates>>
contact == <<table, listener, rounds, pinged>>
retry == <<timers, dnsRetries>>
discoveryVars == <<up, lists, contact, retry, wasPopulated, sampling>>

Bootstrap == mergeBootstrap(sources.builtin, sources.remembered, <<>>, sources.peers)

Asked == {d \in Domains : queries[d] = "asked"}

-----------------------------------------------------------------------------
\* Fault: discovery is armed on the first pings only.
Armed_Once == listener \/ (~table /\ dnsRetries = 0)

\* armDiscovery, while not stopping.
Armed == listener \/ ~table

\* Fault: whoever asks gets a timer.
Scheduled_Anyway(candidates) == IF candidates # {} THEN timers + 1 ELSE timers

\* scheduleDnsRetry, while not stopping.
Scheduled(candidates) == IF candidates # {} /\ timers = 0 THEN 1 ELSE timers

\* Pings, with discovery armed.
Ping == listener' = Armed /\ pinged' = (pinged \/ ~table)

\* Fault: the room is what the list would have if it were empty.
Room_Whole == BootstrapTotal

\* The room that the list leaves.
Room == BootstrapTotal - Len(Bootstrap)

\* admit: what mergeBootstrap would have admitted.
Admitted(seeds) ==
    FoldLeft(LAMBDA c, s :
        IF Cardinality(c) < Room /\ Cardinality(c) < EndpointsTotal /\ ~Contains(Bootstrap, s) THEN c \cup {s} ELSE c,
        dnsCandidates, seeds)

\* Fault: an answer that comes while the node stops is admitted.
Admitting_Anyway == TRUE

Admitting == up # "stopping"

\* A domain answers, though perhaps at the moment of stop, when nobody listens.
Reply(d) ==
    /\ d \in Asked
    /\ \E records \in Answers[d] :
         LET fresh == Fresh(emitted, records)
         IN  /\ queries' = [queries EXCEPT ![d] = "answered"]
             /\ answers' = [answers EXCEPT ![d] = records]
             /\ emitted' = emitted \o fresh
             /\ dnsCandidates' = IF Admitting THEN Admitted(fresh) ELSE dnsCandidates
    /\ IF dnsCandidates' = dnsCandidates THEN UNCHANGED <<contact, retry>>
       ELSE /\ Ping
            /\ timers' = Scheduled(dnsCandidates')
            /\ UNCHANGED <<table, rounds, dnsRetries>>
    /\ UNCHANGED <<up, sources, wasPopulated, sampling>>

\* A failure or a timeout; a timeout cancels the resolver, which others ask too.
NoReply(d) ==
    /\ d \in Asked
    /\ \E cancelled \in SUBSET Asked :
         queries' = [e \in Domains |-> IF e \in cancelled \cup {d} THEN "none" ELSE queries[e]]
    /\ UNCHANGED <<up, sources, answers, emitted, dnsCandidates, contact, retry, wasPopulated, sampling>>

\* The end of start, whether or not stop has been called.
Started ==
    /\ sampling = "unset" /\ sampling' = "on"
    /\ IF up = "starting"
       THEN up' = "running" /\ timers' = Scheduled(dnsCandidates)
       ELSE UNCHANGED <<up, timers>>
    /\ UNCHANGED <<lists, contact, dnsRetries, wasPopulated>>

\* The timer fires.
Tick ==
    /\ timers > 0
    /\ IF up = "stopping" \/ table \/ dnsRetries >= RetriesMax
       THEN timers' = timers - 1 /\ UNCHANGED <<dnsRetries, contact>>
       ELSE /\ dnsRetries' = dnsRetries + 1 /\ rounds' = rounds + 1
            /\ Ping
            /\ UNCHANGED <<timers, table>>
    /\ UNCHANGED <<up, lists, wasPopulated, sampling>>

\* Fault: each check that finds the table empty begins a new episode.
NewEpisode_Always == [was |-> wasPopulated, retries |-> 0]

NewEpisode == [was |-> FALSE, retries |-> dnsRetries]

\* Fault: a check that finds the table empty again leaves it at that.
Retrying_Not == UNCHANGED <<listener, timers>>

Retrying == listener' = Armed /\ timers' = Scheduled(dnsCandidates)

checkIsolation ==
    /\ sampling = "on" /\ up # "stopping"
    /\ IF table
       THEN dnsRetries' = 0 /\ wasPopulated' = TRUE /\ UNCHANGED <<listener, timers>>
       ELSE /\ wasPopulated
            /\ wasPopulated' = NewEpisode.was /\ dnsRetries' = NewEpisode.retries
            /\ Retrying
    /\ UNCHANGED <<up, lists, table, rounds, pinged, sampling>>

\* A node joins the table; who waits for a first contact has it, and looks up our id.
Contact ==
    /\ table' = TRUE /\ listener' = FALSE
    /\ rounds' = 0 /\ pinged' = FALSE
    /\ UNCHANGED <<up, lists, retry, wasPopulated, sampling>>

\* The last node of the table does not answer any more.
Isolated ==
    /\ table /\ table' = FALSE
    /\ UNCHANGED <<up, lists, listener, rounds, pinged, retry, wasPopulated, sampling>>

\* Up to its first await; the lookups still under way are aborted.
Stop ==
    /\ up # "stopping" /\ up' = "stopping"
    /\ sampling' = IF sampling = "on" THEN "off" ELSE sampling
    /\ timers' = IF timers > 0 THEN timers - 1 ELSE 0
    /\ listener' = FALSE
    /\ UNCHANGED <<lists, table, rounds, pinged, dnsRetries, wasPopulated>>

-----------------------------------------------------------------------------
DiscoveryInit ==
    /\ sources \in Sources /\ up = "starting"
    /\ queries = [d \in Domains |-> "asked"] /\ answers = [d \in Domains |-> <<>>]
    /\ emitted = <<>> /\ dnsCandidates = {}
    /\ table = FALSE /\ listener = FALSE /\ rounds = 0 /\ pinged = FALSE
    /\ timers = 0 /\ dnsRetries = 0 /\ wasPopulated = FALSE /\ sampling = "unset"

DiscoveryNext ==
    \/ \E d \in Domains : Reply(d) \/ NoReply(d)
    \/ Started \/ Tick \/ checkIsolation
    \/ Contact \/ Isolated
    \/ Stop

DiscoverySpec == DiscoveryInit /\ [][DiscoveryNext]_discoveryVars

\* Timers fire.  Nobody has to answer.
DiscoveryFairSpec == DiscoverySpec /\ WF_discoveryVars(Started) /\ WF_discoveryVars(Tick) /\ WF_discoveryVars(checkIsolation)

-----------------------------------------------------------------------------
DiscoveryTypeOK ==
    /\ sources \in Sources /\ up \in {"starting", "running", "stopping"}
    /\ queries \in [Domains -> {"asked", "answered", "none"}]
    /\ {table, listener, wasPopulated, pinged} \subseteq BOOLEAN /\ sampling \in {"unset", "on", "off"}
    /\ timers \in 0..1 /\ dnsRetries \in 0..RetriesMax /\ rounds \in Nat

\* In whatever order the domains answer, the node ends up with what merging all of
\* the lists at once would have given it, never more than the limit, and seeds or
\* remembered nodes never displace a --peer (node.ts:309, "Only what mergeBootstrap
\* would have admitted").  Where builtin and --peer endpoints alone exceed the limit,
\* no seed is admitted.
MergedAtOnce ==
    LET reserved == Range(canonicalEndpoints(sources.builtin \o sources.peers))
        merged == mergeBootstrap(sources.builtin, sources.remembered, emitted, sources.peers)
        pings == startupPeerPings(Bootstrap, sources.peers)
    IN  /\ Len(Bootstrap) + Cardinality(dnsCandidates) <= BootstrapTotal
        /\ IF Cardinality(reserved) <= BootstrapTotal
           THEN /\ up # "stopping" => Range(Bootstrap) \cup dnsCandidates = Range(merged)
                /\ Range(pings) = Range(canonicalEndpoints(sources.peers))
           ELSE dnsCandidates = {}

\* A domain that answered has all of its addresses taken, up to the limit of its
\* own, whatever the others did, unless the total is full (bootstrap.ts:247).
DomainsIndependent ==
    \A d \in Domains :
        queries[d] = "answered" /\ Len(emitted) < EndpointsTotal =>
            Cardinality(Range(Addresses(answers[d])) \cap Range(emitted))
                >= Min({EndpointsPerDomain, Len(Addresses(answers[d]))})

\* What has been emitted are addresses, each once and no more than may be, and only
\* they are admitted.
EmittedOnce ==
    /\ emitted \in Seq(Endpoints \ Hostnames) /\ IsInjective(emitted) /\ Len(emitted) <= EndpointsTotal
    /\ dnsCandidates \subseteq Range(emitted)

\* As long as the total is not full, who answers first makes no difference to how many
\* seeds are taken from whom; when it is, no limit and no --peer gives way.
SeedsAdmitted == EmittedOnce /\ MergedAtOnce /\ DomainsIndependent

\* One isolation, from the last contact to the next, is worth so many rounds of
\* pings at most, however the checks and the timer alternate (node.ts:371).
EpisodeBounded == rounds <= RetriesMax

\* One timer at most, and timers and retries stay within their limits.
Bounded == DiscoveryTypeOK /\ EpisodeBounded

\* The first node to answer pings that went out while the table was empty is never
\* missed: discovery is armed until one does (node.ts:321).
FirstContact == /\ pinged /\ ~table /\ up # "stopping" => listener
                /\ table => ~listener

\* Whatever was under way when stop was called, it leaves no timer and no listener
\* and nothing of DNS is admitted afterwards (node.ts:473).
StopIsClean ==
    [][up = "stopping" => /\ timers' = 0 /\ listener' = FALSE /\ timers = 0 /\ ~listener
                          /\ dnsCandidates' = dnsCandidates]_discoveryVars

\* A table that was found populated and then stays empty has the seeds pinged again
\* until it is not, or they have been pinged as often as they may be.
Retried ==
    (wasPopulated /\ ~table /\ dnsCandidates # {} /\ up = "running")
        ~> (table \/ up = "stopping" \/ dnsRetries = RetriesMax)
=============================================================================
