----------------------------- MODULE SearchWalk -----------------------------
(***************************************************************************)
(* search of src/src/node.ts: the breadth-first walk over the publishers   *)
(* that others endorse, with its budgets, and parseCatalog, which decides  *)
(* what of a catalog counts.  Each catalog the walk loads hands its nodes  *)
(* to AdoptNodes before the walk goes on.                                  *)
(*                                                                         *)
(* A web says what every publisher's catalog.json holds: "endorse" and     *)
(* "entries" as they are in the file, junk included.  An entry is an       *)
(* infohash and whether its name contains the needle.                      *)
(***************************************************************************)
EXTENDS AdoptNodes

CONSTANTS
    Self,
    Follows,         \* follows.json
    Webs,            \* what the publishers' catalogs may hold
    Infohashes,      \* what entries may list
    Options,         \* of the search: its depth and its budget of publishers
    MaxResults,      \* SEARCH_MAX_RESULTS
    MaxEntries, MaxEndorse  \* CATALOG_MAX_ENTRIES, CATALOG_MAX_ENDORSE

ASSUME SelfAssumption == Self \notin Pubs /\ Junk \notin Pubs \cup {Self}
ASSUME FollowsAssumption == Follows \in Seq(Pubs \cup {Self})
ASSUME WebsAssumption ==
    \A w \in Webs, pk \in Pubs : /\ w[pk].endorse \in Seq(Pubs \cup {Self, Junk})
                               /\ w[pk].entries \in Seq({Junk} \cup [ih : Infohashes, match : BOOLEAN])
ASSUME OptionsAssumption == Options \subseteq [depth : Nat, maxPublishers : Nat]
ASSUME BudgetsAssumption == {MaxResults, MaxEntries, MaxEndorse} \subseteq Nat

VARIABLES
    web,
    opts,
    pc,         \* idle, walk, load, adopt, done
    queued,     \* every publisher that was ever enqueued, and ourselves
    frontier, next, hops,
    hits,       \* what has been found, in the order it was found
    call,       \* the adoption that the load of a catalog waits for, or 0
    visited,    \* the publishers whose catalogs were asked for, in order
    answered,   \* those whose catalog came
    cut         \* a budget has cut the walk short

walkVars == <<web, opts, pc, queued, frontier, next, hops, hits, call, visited, answered, cut>>
vars == <<adoptVars, walkVars>>

-----------------------------------------------------------------------------
(***************************************************************************)
(* parseCatalog: at most so many, junk, ourselves and repetitions dropped. *)
(***************************************************************************)
\* The positions at which s has something of S for the first time.
Firsts(s, S) == {i \in DOMAIN s : s[i] \in S /\ \A j \in 1..i - 1 : s[j] # s[i]}

Rank(I, i) == Cardinality({j \in I : j <= i})

\* What s has at the positions I, in order.
Picked(s, I) == [n \in 1..Cardinality(I) |-> s[CHOOSE i \in I : Rank(I, i) = n]]

ParsedEndorse(pk) ==
    LET e == web[pk].endorse
        valid == Firsts(e, (Pubs \cup {Self}) \ {pk})
    IN  Picked(e, {i \in valid : Rank(valid, i) <= MaxEndorse})

ParsedEntries(pk) ==
    LET e == web[pk].entries
        valid == {i \in DOMAIN e : e[i] # Junk}
    IN  Picked(e, {i \in valid : Rank(valid, i) <= MaxEntries})

-----------------------------------------------------------------------------
(***************************************************************************)
(* What the walk makes of a catalog.                                       *)
(***************************************************************************)
\* The entries of es that match, once per infohash.
Matching(pk, es) ==
    LET I == {i \in DOMAIN es : es[i].match /\ \A j \in 1..i - 1 : es[j].match => es[j].ih # es[i].ih}
    IN  [n \in 1..Cardinality(I) |-> [pk |-> pk, ih |-> Picked(es, I)[n].ih, hops |-> hops]]

\* Fault: who is queued already may be queued again.
Enqueued_Again(q, list, pks) ==
    LET new == SelectSeq(pks, LAMBDA p : p # Self)
    IN  [queued |-> q \cup {pks[i] : i \in DOMAIN pks}, list |-> list \o new, cut |-> FALSE]

\* Publishers join a list until the budget of publishers is spent.
Enqueued(q, list, pks) ==
    LET new == Firsts(pks, (Pubs \cup {Self}) \ q)
        room == {i \in new : Cardinality(q) - 1 + Rank(new, i) <= opts.maxPublishers}
    IN  [queued |-> q \cup {pks[i] : i \in room}, list |-> list \o Picked(pks, room), cut |-> room # new]

Search ==
    /\ pc = "idle" /\ up = "running"
    /\ LET r == Enqueued(queued, <<>>, Follows)
       IN  /\ queued' = r.queued /\ frontier' = r.list /\ cut' = r.cut
           /\ pc' = IF r.list = <<>> THEN "done" ELSE "walk"
    /\ UNCHANGED <<adoptVars, web, opts, next, hops, hits, call, visited, answered>>

OutOfTime ==
    /\ pc = "walk" /\ pc' = "done" /\ cut' = TRUE
    /\ UNCHANGED <<adoptVars, web, opts, queued, frontier, next, hops, hits, call, visited, answered>>

Visit ==
    /\ pc = "walk" /\ pc' = "load"
    /\ visited' = Append(visited, Head(frontier))
    /\ UNCHANGED <<adoptVars, web, opts, queued, frontier, next, hops, hits, call, answered, cut>>

\* Fault: every publisher counts as a hop.
GoOn_EachHop(rest, following) ==
    /\ hops' = hops + 1
    /\ IF rest # <<>>
       THEN frontier' = rest /\ next' = following /\ pc' = "walk"
       ELSE /\ frontier' = following /\ next' = <<>>
            /\ pc' = IF hops < opts.depth /\ following # <<>> THEN "walk" ELSE "done"

\* Fault: the last level is not walked.
GoOn_OneLess(rest, following) ==
    IF rest # <<>>
    THEN frontier' = rest /\ next' = following /\ pc' = "walk" /\ UNCHANGED hops
    ELSE /\ frontier' = following /\ next' = <<>> /\ hops' = hops + 1
         /\ pc' = IF hops + 1 < opts.depth /\ following # <<>> THEN "walk" ELSE "done"

\* The rest of this level, or the next one.
GoOn(rest, following) ==
    IF rest # <<>>
    THEN frontier' = rest /\ next' = following /\ pc' = "walk" /\ UNCHANGED hops
    ELSE /\ frontier' = following /\ next' = <<>> /\ hops' = hops + 1
         /\ pc' = IF hops < opts.depth /\ following # <<>> THEN "walk" ELSE "done"

\* A catalog: its entries count unless the results are full, and below the last
\* level its endorsements are enqueued.
Take(pk) ==
    LET es == ParsedEntries(pk)
        found == hits \o Matching(pk, es)
        full == es # <<>> /\ Len(hits) + Len(Matching(pk, Front(es))) >= MaxResults
        r == Enqueued(queued, next, IF hops = opts.depth THEN <<>> ELSE ParsedEndorse(pk))
    IN  /\ answered' = answered \cup {pk}
        /\ hits' = SubSeq(found, 1, IF Len(found) < MaxResults THEN Len(found) ELSE MaxResults)
        /\ IF full
           THEN pc' = "done" /\ cut' = TRUE /\ UNCHANGED <<queued, frontier, next, hops>>
           ELSE queued' = r.queued /\ cut' = (cut \/ r.cut) /\ GoOn(Tail(frontier), r.list)

\* catalogFull gives up: no record, no answer in time, or a catalog that is refused.
NoCatalog ==
    /\ pc \in {"load", "adopt"}
    /\ GoOn(Tail(frontier), next)
    /\ call' = 0
    /\ UNCHANGED <<adoptVars, web, opts, queued, hits, visited, answered, cut>>

\* A catalog in the cache, or without nodes, is not handed to adoptNodes.
KnownCatalog ==
    /\ pc = "load"
    /\ Take(Head(frontier))
    /\ UNCHANGED <<adoptVars, web, opts, call, visited>>

LoadedCatalog ==
    /\ pc = "load" /\ pc' = "adopt"
    /\ \E nodes \in Lists[Head(frontier)] : Adopt(Head(frontier), nodes)
    /\ call' = Len(tx) + 1
    /\ UNCHANGED <<web, opts, queued, frontier, next, hops, hits, visited, answered, cut>>

\* loadCatalog goes on once adoptNodes has ended, however it has.
Adopted ==
    /\ pc = "adopt" /\ tx[call].pc = "done"
    /\ Take(Head(frontier))
    /\ call' = 0
    /\ UNCHANGED <<adoptVars, web, opts, visited>>

\* Another reader of catalogs.
OtherReader(pk) == (\E nodes \in Lists[pk] : Adopt(pk, nodes)) /\ UNCHANGED walkVars

-----------------------------------------------------------------------------
Init ==
    /\ AdoptInit
    /\ web \in Webs /\ opts \in Options
    /\ pc = "idle" /\ cut = FALSE
    /\ queued = {Self} /\ frontier = <<>> /\ next = <<>> /\ hops = 0
    /\ hits = <<>> /\ call = 0 /\ visited = <<>> /\ answered = {}

\* The search, and all it has found, ends with the process.
ProcessEnds ==
    /\ Crash
    /\ pc' = "done" /\ cut' = TRUE
    /\ queued' = {Self} /\ frontier' = <<>> /\ next' = <<>> /\ hops' = 0
    /\ hits' = <<>> /\ call' = 0 /\ visited' = <<>> /\ answered' = {}
    /\ UNCHANGED <<web, opts>>

AdoptGoesOn == (\E t \in Txs : AdoptTx(t)) /\ UNCHANGED walkVars

WalkStep ==
    Search \/ OutOfTime \/ Visit \/ NoCatalog \/ KnownCatalog \/ LoadedCatalog \/ Adopted

Next ==
    \/ WalkStep
    \/ \E pk \in Pubs : OtherReader(pk)
    \/ ProcessEnds
    \/ AdoptGoesOn
    \/ (Stop \/ Start \/ TimePasses) /\ UNCHANGED walkVars

Spec == Init /\ [][Next]_vars

\* catalogFull has a deadline, and reads and writes of a file end.
FairSpec == Spec /\ WF_vars(Visit \/ NoCatalog) /\ WF_vars(AdoptGoesOn)

-----------------------------------------------------------------------------
TypeOK ==
    /\ AdoptTypeOK
    /\ pc \in {"idle", "walk", "load", "adopt", "done"}
    /\ queued \subseteq Pubs \cup {Self}
    /\ frontier \in Seq(Pubs) /\ next \in Seq(Pubs) /\ hops \in 0..opts.depth + 1
    /\ Len(hits) <= MaxResults
    /\ call \in 0..Len(tx) /\ visited \in Seq(Pubs) /\ answered \subseteq Pubs /\ cut \in BOOLEAN

\* Whatever the catalogs endorse: no publisher is asked twice, we are not asked, and
\* no more are asked than the budget allows; no entry is found twice (node.ts:1309).
VisitsBounded ==
    /\ IsInjective(visited)
    /\ Len(visited) <= opts.maxPublishers
    /\ Len(hits) = Cardinality({<<hits[i].pk, hits[i].ih>> : i \in DOMAIN hits})

\* What is handed to the DHT stays within all budgets of adoption, and the walk within
\* its own, whatever the catalogs list and however the calls for them overlap, fail and
\* are cut short.
BudgetsHold == TypeOK /\ LifetimeBudget /\ SessionBudget /\ VisitsBounded

\* The publishers within so many endorsements of those we follow, over the
\* catalogs that came.
Within[n \in Nat] ==
    IF n = 0 THEN {Follows[i] : i \in DOMAIN Follows} \ {Self}
    ELSE Within[n - 1] \cup
         UNION {{ParsedEndorse(p)[i] : i \in DOMAIN ParsedEndorse(p)} \ {Self} : p \in Within[n - 1] \cap answered}

\* What a hit says of its distance is the length of the shortest chain of
\* endorsements to its publisher, also where a budget cuts the walk short.
HopsAreDistances ==
    \A i \in DOMAIN hits :
        LET h == hits[i] IN h.pk \in Within[h.hops] /\ (h.hops > 0 => h.pk \notin Within[h.hops - 1])

\* A walk that no budget cuts short asks every publisher within its depth, and
\* finds everything that matches in the catalogs that came.
FindsAll ==
    (pc = "done" /\ ~cut) =>
        /\ Range(visited) = Within[opts.depth]
        /\ {<<hits[i].pk, hits[i].ih>> : i \in DOMAIN hits}
             = UNION {{<<p, e.ih>> : e \in {x \in Range(ParsedEntries(p)) : x.match}} :
                        p \in Within[opts.depth] \cap answered}

\* The walk is the breadth-first search it is meant to be: it knows how far away
\* everybody is, and misses nobody unless it says so.
WalkIsExact == HopsAreDistances /\ FindsAll

\* A search ends, whoever fails to answer, and so do the adoptions that wait for
\* each other, whichever of them fails: the last calls leave nothing under way.
EverythingEnds == []<>(pc \in {"idle", "done"} /\ queue = <<>>)
=============================================================================
