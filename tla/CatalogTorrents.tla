--------------------------- MODULE CatalogTorrents ---------------------------
(***************************************************************************)
(* The life of the torrents a node downloads to read other publishers'     *)
(* catalogs (src/src/node.ts, "catalogs (issue #3)").                      *)
(*                                                                         *)
(* Calls of catalogFull share one load per publisher and infohash; a load  *)
(* takes a reader reference on the torrent of that infohash, downloads and *)
(* reads it, makes it the publisher's current catalog and releases it.     *)
(* Acquisition and destruction of one infohash go through one FIFO queue.  *)
(*                                                                         *)
(* The node is one JavaScript thread, so an action is what runs between    *)
(* two awaits.  The identity of a TorrentRef is the load that created it:  *)
(* a load creates at most one, and the generation number of its directory  *)
(* is as unique as the load.                                               *)
(*                                                                         *)
(* lastUse is not kept: it only orders the idle torrents capTorrents       *)
(* evicts, and here any choice of idle torrents may be evicted.            *)
(***************************************************************************)
EXTENDS Naturals, Sequences, FiniteSets

CONSTANTS
    Pubs,         \* publisher keys
    Infohashes,   \* infohashes of catalog torrents
    Loads,        \* identities of loadCatalog calls (and of the refs they create)
    Callers,      \* concurrent callers of catalogFull
    TorrentsMax,  \* opts.catalogTorrentsMax
    CacheMax,     \* opts.catalogCacheMax
    EventsMax,    \* bound on the events of the environment (below)
    NoRef, NoLoad

ASSUME KeysAssumption == Pubs # {} /\ Infohashes # {}
ASSUME NullsAssumption == NoRef \notin Loads /\ NoLoad \notin Loads
ASSUME LoadsAssumption == IsFiniteSet(Loads) /\ IsFiniteSet(Callers)
ASSUME LimitsAssumption == TorrentsMax \in Nat /\ CacheMax \in Nat /\ EventsMax \in Nat

VARIABLES
    rec,       \* rec[pk]: infohash of pk's newest catalog record in the DHT
    cache,     \* catalogCache: keys, least recently used first
    inflight,  \* catalogInflight: key -> the load a caller may join
    load,      \* the loadCatalog calls, with the waiters and the abort signal
    caller,    \* caller[c]: the load c waits for, or NoLoad
    ref,       \* the TorrentRef objects and their torrents
    refs,      \* refs: infohash -> registered TorrentRef
    current,   \* current: publisher -> TorrentRef it retains
    tail,      \* ihTails: per infohash, the queued operations, head first
    ext,       \* ext[ih]: the client holds a torrent of ih that is not ours
    disk,      \* download directories present under <home>/catalogs
    events     \* environment events so far

life == <<ref, refs, current, tail>>
calls == <<cache, inflight, load, caller>>
vars == <<rec, calls, life, ext, disk, events>>

Keys == Pubs \X Infohashes
Destroyed == {"failed", "closed", "reaped"}
States == {"none", "live"} \cup Destroyed
Waiting == {"meta", "body", "read"}
Holding == Waiting \cup {"adopt"}

Ref == [ih : Infohashes, owned : BOOLEAN, st : States, prog : 0..2,
        readers : Nat, retainedBy : SUBSET Pubs]
Load == [pc : {"unused", "queued", "get", "mkdir", "done"} \cup Holding,
         pk : Pubs, ih : Infohashes, ref : Loads \cup {NoRef},
         waiters : Nat, aborted : BOOLEAN]
Op == [op : {"acquire", "destroy", "rm"}, id : Loads]

InUse(t) == t.readers > 0 \/ t.retainedBy # {}
KeyOf(l) == <<load[l].pk, load[l].ih>>
Front(h) == tail[h] # <<>>
Tasks(h, kind) == Front(h) /\ Head(tail[h]).op = kind

\* join(home, 'catalogs', pk, ih, String(++gen)).
\* Fault: a directory shared by every generation.
DirOf_PerInfohash(r) == <<load[r].pk, load[r].ih>>
DirOf(r) == <<load[r].pk, load[r].ih, r>>

-----------------------------------------------------------------------------
(***************************************************************************)
(* The synchronous lifecycle methods, on the record of the four variables  *)
(* they change.                                                            *)
(***************************************************************************)
Now == [ref |-> ref, refs |-> refs, current |-> current, tail |-> tail]

Becomes(s) == /\ ref' = s.ref
              /\ refs' = s.refs
              /\ current' = s.current
              /\ tail' = s.tail

\* Forget a borrowed torrent nothing uses; queue an owned one for destruction.
\* Fault: the owned one is forgotten at once, before its torrent is destroyed.
MaybeDestroy_ForgetFirst(s, r) ==
    LET h == s.ref[r].ih IN
    IF InUse(s.ref[r]) THEN s
    ELSE [s EXCEPT !.refs[h] = IF @ = r THEN NoRef ELSE @,
                   !.tail[h] = IF s.ref[r].owned
                               THEN Append(@, [op |-> "destroy", id |-> r]) ELSE @]
MaybeDestroy(s, r) ==
    LET h == s.ref[r].ih IN
    IF InUse(s.ref[r]) THEN s
    ELSE IF s.ref[r].owned
         THEN [s EXCEPT !.tail[h] = Append(@, [op |-> "destroy", id |-> r])]
         ELSE [s EXCEPT !.refs[h] = IF @ = r THEN NoRef ELSE @]

Drop(s, r, pk) == [s EXCEPT !.ref[r].retainedBy = @ \ {pk}]

Retire(s, key) ==
    LET r == s.current[key[1]] IN
    IF r = NoRef THEN s
    ELSE IF s.ref[r].ih # key[2] THEN s
    ELSE MaybeDestroy(Drop([s EXCEPT !.current[key[1]] = NoRef], r, key[1]), r)

\* The part of retain before capTorrents, for an r that is not current already.
Retain(s, pk, r) ==
    LET prev == s.current[pk]
        s1 == IF prev = NoRef THEN s ELSE MaybeDestroy(Drop(s, prev, pk), prev)
    IN [s1 EXCEPT !.ref[r].retainedBy = @ \cup {pk}, !.current[pk] = r]

OwnedLive(s) == {r \in Loads : /\ \E h \in Infohashes : s.refs[h] = r
                               /\ s.ref[r].owned /\ s.ref[r].st = "live"}

\* The sets of idle torrents one call of capTorrents may evict.
Victims(s) ==
    LET owned == OwnedLive(s)
        idle == {r \in owned : s.ref[r].readers = 0}
        excess == Cardinality(owned) - TorrentsMax
    IN {V \in SUBSET idle :
          IF Cardinality(owned) <= TorrentsMax THEN V = {}
          ELSE \/ Cardinality(V) = excess
               \/ Cardinality(V) < excess /\ V = idle}

Evict(s, V) ==
    [s EXCEPT
       !.ref = [r \in Loads |-> IF r \in V THEN [s.ref[r] EXCEPT !.retainedBy = {}]
                                           ELSE s.ref[r]],
       !.current = [pk \in Pubs |-> IF s.current[pk] \in V THEN NoRef ELSE s.current[pk]],
       !.tail = [h \in Infohashes |->
                   IF s.refs[h] \in V
                   THEN Append(s.tail[h], [op |-> "destroy", id |-> s.refs[h]])
                   ELSE s.tail[h]]]

CapTorrents(s) == \E V \in Victims(s) : Becomes(Evict(s, V))

\* Fault: a torrent nobody uses any more is forgotten.
Release_Forget(s, r) == [s EXCEPT !.ref[r].readers = @ - 1]

\* The part of release before capTorrents.
Release(s, r) == MaybeDestroy([s EXCEPT !.ref[r].readers = @ - 1], r)

Pop(s, h) == [s EXCEPT !.tail[h] = Tail(@)]

-----------------------------------------------------------------------------
(***************************************************************************)
(* The callers: catalogFull.                                               *)
(***************************************************************************)
Cached(key) == \E i \in 1..Len(cache) : cache[i] = key

\* The record's catalog is cached: the key becomes the most recently used.
CatalogHit(c, pk) ==
    /\ caller[c] = NoLoad
    /\ \E i \in 1..Len(cache) :
          /\ cache[i] = <<pk, rec[pk]>>
          /\ cache' = SubSeq(cache, 1, i - 1) \o SubSeq(cache, i + 1, Len(cache))
                        \o <<cache[i]>>
    /\ UNCHANGED <<rec, inflight, load, caller, life, ext, disk, events>>

Miss(c, pk) == caller[c] = NoLoad /\ ~Cached(<<pk, rec[pk]>>)

\* A load of the key is under way and not aborted: wait for it.
CatalogJoin(c, pk) ==
    LET l == inflight[<<pk, rec[pk]>>] IN
    /\ Miss(c, pk)
    /\ l # NoLoad
    /\ ~load[l].aborted
    /\ caller' = [caller EXCEPT ![c] = l]
    /\ load' = [load EXCEPT ![l].waiters = @ + 1]
    /\ UNCHANGED <<rec, cache, inflight, life, ext, disk, events>>

\* Otherwise start one; its first step is to queue the acquisition.
CatalogStart(c, pk, l) ==
    LET h == rec[pk]
        old == inflight[<<pk, h>>]
    IN /\ Miss(c, pk)
       /\ old # NoLoad => load[old].aborted
       /\ load[l].pc = "unused"
       /\ load' = [load EXCEPT ![l] = [pc |-> "queued", pk |-> pk, ih |-> h,
                       ref |-> NoRef, waiters |-> 1, aborted |-> FALSE]]
       /\ inflight' = [inflight EXCEPT ![<<pk, h>>] = l]
       /\ caller' = [caller EXCEPT ![c] = l]
       /\ tail' = [tail EXCEPT ![h] = Append(@, [op |-> "acquire", id |-> l])]
       /\ UNCHANGED <<rec, cache, ref, refs, current, ext, disk, events>>

\* A caller leaves, with the load's result or at its own deadline.  The last
\* one to leave an unsettled load aborts it, and no newcomer can join it.
\* Fault: a caller that leaves aborts the load others still wait for.
Leave_AbortShared(c) ==
    LET l == caller[c] IN
    /\ l # NoLoad
    /\ caller' = [caller EXCEPT ![c] = NoLoad]
    /\ load' = [load EXCEPT ![l].waiters = @ - 1,
                            ![l].aborted = @ \/ load[l].pc # "done"]
    /\ UNCHANGED <<rec, cache, inflight, life, ext, disk, events>>
Leave(c) ==
    LET l == caller[c]
        last == load[l].waiters = 1 /\ load[l].pc # "done" /\ ~load[l].aborted
    IN /\ l # NoLoad
       /\ caller' = [caller EXCEPT ![c] = NoLoad]
       /\ load' = [load EXCEPT ![l].waiters = @ - 1, ![l].aborted = @ \/ last]
       /\ inflight' = IF last /\ inflight[KeyOf(l)] = l
                      THEN [inflight EXCEPT ![KeyOf(l)] = NoLoad] ELSE inflight
       /\ UNCHANGED <<rec, cache, life, ext, disk, events>>

\* The load's promise settles: it is no longer the key's load to join.
\* Fault: whatever load the key has now is forgotten.
Settle_AnyEntry(l) ==
    /\ load' = [load EXCEPT ![l].pc = "done"]
    /\ inflight' = [inflight EXCEPT ![KeyOf(l)] = NoLoad]
Settle(l) ==
    /\ load' = [load EXCEPT ![l].pc = "done"]
    /\ inflight' = IF inflight[KeyOf(l)] = l
                   THEN [inflight EXCEPT ![KeyOf(l)] = NoLoad] ELSE inflight

-----------------------------------------------------------------------------
(***************************************************************************)
(* acquire: the head of an infohash's queue, one step per await.           *)
(***************************************************************************)
Acquiring(h, pc) == Tasks(h, "acquire") /\ load[Head(tail[h]).id].pc = pc

\* The load was aborted while it was queued: it takes no reference.
AcquireAborted(h) ==
    /\ Acquiring(h, "queued")
    /\ LET l == Head(tail[h]).id IN load[l].aborted /\ Settle(l)
    /\ Becomes(Pop(Now, h))
    /\ UNCHANGED <<rec, cache, caller, ext, disk, events>>

Stale(h) == refs[h] # NoRef /\ ref[refs[h]].st \in Destroyed

\* l holds r: one more reader, and l goes on to wait for the metadata.
Take(s, l, r, h) ==
    /\ load' = [load EXCEPT ![l].pc = "meta", ![l].ref = r]
    /\ Becomes(Pop([s EXCEPT !.ref[r].readers = @ + 1], h))

AcquireReuse(h) ==
    /\ Acquiring(h, "queued")
    /\ ~load[Head(tail[h]).id].aborted
    /\ refs[h] # NoRef /\ ~Stale(h)
    /\ Take(Now, Head(tail[h]).id, refs[h], h)
    /\ UNCHANGED <<rec, cache, inflight, caller, ext, disk, events>>

\* A registered ref whose torrent is gone: every publisher that points at it
\* is detached and its cleanup is queued behind this acquisition.
\* Fault: the publishers keep pointing at the dead ref.
Detach_KeepCurrent(s, r) ==
    MaybeDestroy([s EXCEPT !.ref[r].retainedBy = {},
                           !.refs[s.ref[r].ih] = NoRef], r)
Detach(s, r) ==
    MaybeDestroy([s EXCEPT
        !.ref[r].retainedBy = {},
        !.refs[s.ref[r].ih] = NoRef,
        !.current = [pk \in Pubs |-> IF s.current[pk] = r /\ pk \in s.ref[r].retainedBy
                                     THEN NoRef ELSE s.current[pk]]], r)

AcquireLookup(h) ==
    /\ Acquiring(h, "queued")
    /\ ~load[Head(tail[h]).id].aborted
    /\ refs[h] # NoRef => Stale(h)
    /\ load' = [load EXCEPT ![Head(tail[h]).id].pc = "get"]
    /\ Becomes(IF Stale(h) THEN Detach(Now, refs[h]) ELSE Now)
    /\ UNCHANGED <<rec, cache, inflight, caller, ext, disk, events>>

\* A new TorrentRef, registered and held by the load that created it.
Create(l, h, owned, st) ==
    Take([Now EXCEPT
            !.ref[l] = [ih |-> h, owned |-> owned, st |-> st, prog |-> 0,
                        readers |-> 0, retainedBy |-> {}],
            !.refs[h] = l], l, l, h)

\* client.get(ih) found a torrent of somebody else's: borrow it.
AcquireBorrow(h) ==
    /\ Acquiring(h, "get")
    /\ ext[h]
    /\ Create(Head(tail[h]).id, h, FALSE, "live")
    /\ UNCHANGED <<rec, cache, inflight, caller, ext, disk, events>>

AcquireMiss(h) ==
    /\ Acquiring(h, "get")
    /\ ~ext[h]
    /\ load' = [load EXCEPT ![Head(tail[h]).id].pc = "mkdir"]
    /\ UNCHANGED <<rec, cache, inflight, caller, life, ext, disk, events>>

\* The directory exists: add the torrent.  The client closes a torrent that
\* duplicates one which was added while the directory was being made.
AcquireAdd(h) ==
    /\ Acquiring(h, "mkdir")
    /\ LET l == Head(tail[h]).id IN
          /\ Create(l, h, TRUE, IF ext[h] THEN "failed" ELSE "live")
          /\ disk' = disk \cup {DirOf(l)}
    /\ UNCHANGED <<rec, cache, inflight, caller, ext, events>>

\* mkdir fails: the load fails without a reference.
AcquireNoDir(h) ==
    /\ Acquiring(h, "mkdir")
    /\ Settle(Head(tail[h]).id)
    /\ Becomes(Pop(Now, h))
    /\ UNCHANGED <<rec, cache, caller, ext, disk, events>>

Acquire(h) == \/ AcquireAborted(h) \/ AcquireReuse(h) \/ AcquireLookup(h)
              \/ AcquireBorrow(h) \/ AcquireMiss(h) \/ AcquireAdd(h) \/ AcquireNoDir(h)

-----------------------------------------------------------------------------
(***************************************************************************)
(* The queued part of maybeDestroy.                                        *)
(***************************************************************************)
\* Nothing uses the ref: forget it and destroy its torrent; otherwise it was
\* acquired again while this was queued, and nothing happens.
\* Fault: the torrent is destroyed without asking again.
Destroy_NoRecheck(h) ==
    LET r == Head(tail[h]).id IN
    /\ Tasks(h, "destroy")
    /\ Becomes([Now EXCEPT !.refs[h] = IF @ = r THEN NoRef ELSE @,
                           !.ref[r].st = "reaped",
                           !.tail[h] = <<[op |-> "rm", id |-> r]>> \o Tail(@)])
    /\ UNCHANGED <<rec, calls, ext, disk, events>>
Destroy(h) ==
    LET r == Head(tail[h]).id IN
    /\ Tasks(h, "destroy")
    /\ Becomes(IF InUse(ref[r]) THEN Pop(Now, h)
               ELSE [Now EXCEPT !.refs[h] = IF @ = r THEN NoRef ELSE @,
                                !.ref[r].st = "reaped",
                                !.tail[h] = <<[op |-> "rm", id |-> r]>> \o Tail(@)])
    /\ UNCHANGED <<rec, calls, ext, disk, events>>

\* The torrent and its store are gone: remove its directory.
\* Fault: the directory stays.
Remove_KeepDir(h) == /\ Tasks(h, "rm")
                     /\ Becomes(Pop(Now, h))
                     /\ UNCHANGED <<rec, calls, ext, disk, events>>
Remove(h) == /\ Tasks(h, "rm")
             /\ disk' = disk \ {DirOf(Head(tail[h]).id)}
             /\ Becomes(Pop(Now, h))
             /\ UNCHANGED <<rec, calls, ext, events>>

-----------------------------------------------------------------------------
(***************************************************************************)
(* loadCatalog after acquire.                                              *)
(***************************************************************************)
Torrent(l) == ref[load[l].ref]

\* waitFor(files): the metadata is there and the size is acceptable.
Metadata(l) == /\ load[l].pc = "meta"
               /\ Torrent(l).prog >= 1
               /\ load' = [load EXCEPT ![l].pc = "body"]
               /\ UNCHANGED <<rec, cache, inflight, caller, life, ext, disk, events>>

\* waitFor(done): every piece is there.
Body(l) == /\ load[l].pc = "body"
           /\ Torrent(l).prog = 2
           /\ load' = [load EXCEPT ![l].pc = "read"]
           /\ UNCHANGED <<rec, cache, inflight, caller, life, ext, disk, events>>

\* catalog.json is read and parsed: this is now pk's current catalog.
Read(l) == /\ load[l].pc = "read"
           /\ load' = [load EXCEPT ![l].pc = "adopt"]
           /\ IF current[load[l].pk] = load[l].ref THEN UNCHANGED life
              ELSE CapTorrents(Retain(Now, load[l].pk, load[l].ref))
           /\ UNCHANGED <<rec, cache, inflight, caller, ext, disk, events>>

\* adoptNodes has settled (at once when the catalog carries no nodes): the
\* catalog is cached, the oldest key makes room, and the ref is released.
Finish(l) ==
    LET full == CacheMax > 0 /\ ~Cached(KeyOf(l)) /\ Len(cache) = CacheMax IN
    /\ load[l].pc = "adopt"
    /\ cache' = IF CacheMax = 0 \/ Cached(KeyOf(l)) THEN cache
                ELSE IF full THEN Append(Tail(cache), KeyOf(l))
                ELSE Append(cache, KeyOf(l))
    /\ CapTorrents(Release(IF full THEN Retire(Now, Head(cache)) ELSE Now, load[l].ref))
    /\ Settle(l)
    /\ UNCHANGED <<rec, caller, ext, disk, events>>

\* Fault: the wait for the torrent does not listen to the abort signal.
Fails_DeafToAbort(l) == \/ load[l].pc = "meta" /\ Torrent(l).prog >= 1
                        \/ load[l].pc \in {"meta", "body"} /\ Torrent(l).st \in Destroyed
                        \/ load[l].pc = "read"

\* The wait ends badly: the load was aborted, the torrent closed before what
\* is awaited came, it is too big, or its file cannot be read or parsed.
Fails(l) == \/ load[l].aborted
            \/ load[l].pc = "meta" /\ Torrent(l).prog >= 1
            \/ load[l].pc \in {"meta", "body"} /\ Torrent(l).st \in Destroyed
            \/ load[l].pc = "read"

\* Fault: the reference is not released.
Fail_KeepReader(l) == /\ load[l].pc \in Waiting
                      /\ Fails(l)
                      /\ Settle(l)
                      /\ UNCHANGED <<rec, cache, caller, life, ext, disk, events>>
\* Fault: the failed load is not over, and fails and releases again.
Fail_NoSettle(l) == /\ load[l].pc \in Waiting
                    /\ Fails(l)
                    /\ CapTorrents(Release(Now, load[l].ref))
                    /\ UNCHANGED <<rec, calls, ext, disk, events>>
Fail(l) == /\ load[l].pc \in Waiting
           /\ Fails(l)
           /\ CapTorrents(Release(Now, load[l].ref))
           /\ Settle(l)
           /\ UNCHANGED <<rec, cache, caller, ext, disk, events>>

LoadStep(l) == Metadata(l) \/ Body(l) \/ Read(l) \/ Finish(l) \/ Fail(l)

-----------------------------------------------------------------------------
(***************************************************************************)
(* What the rest of the program, the network and the publishers do.        *)
(***************************************************************************)
Event == events < EventsMax /\ events' = events + 1

\* A publisher points its record at another catalog.
Publish(pk, h) == /\ Event
                  /\ rec[pk] # h
                  /\ rec' = [rec EXCEPT ![pk] = h]
                  /\ UNCHANGED <<calls, life, ext, disk>>

Progress(r) == /\ ref[r].st = "live" /\ ref[r].prog < 2
               /\ ref' = [ref EXCEPT ![r].prog = @ + 1]
               /\ UNCHANGED <<rec, calls, refs, current, tail, ext, disk, events>>

\* The torrent ends with an error of its own.
TorrentError(r) == /\ Event
                   /\ ref[r].st = "live" /\ ref[r].owned
                   /\ ref' = [ref EXCEPT ![r].st = "failed"]
                   /\ UNCHANGED <<rec, calls, refs, current, tail, ext, disk>>

\* Another part of the node adds a torrent of this infohash (a share, a model
\* download); the client refuses it while a torrent of ours has the infohash.
Reseed(h) == /\ Event
             /\ ~ext[h]
             /\ \A r \in Loads : ~(ref[r].owned /\ ref[r].st = "live" /\ ref[r].ih = h)
             /\ ext' = [ext EXCEPT ![h] = TRUE]
             /\ UNCHANGED <<rec, calls, life, disk>>

\* ... and destroys it again: the refs that borrowed it are left with a dead torrent.
Unseed(h) == /\ Event
             /\ ext[h]
             /\ ext' = [ext EXCEPT ![h] = FALSE]
             /\ ref' = [r \in Loads |->
                          IF ref[r].ih = h /\ ~ref[r].owned /\ ref[r].st = "live"
                          THEN [ref[r] EXCEPT !.st = "failed"] ELSE ref[r]]
             /\ UNCHANGED <<rec, calls, refs, current, tail, disk>>

\* publishCatalog: to replace our own catalog torrent the node destroys every
\* torrent of the client that is named 'catalog', and so is every catalog.
PublishCatalog(r) == /\ Event
                     /\ ref[r].st = "live" /\ ref[r].owned /\ ref[r].prog >= 1
                     /\ ref' = [ref EXCEPT ![r].st = "closed"]
                     /\ UNCHANGED <<rec, calls, refs, current, tail, ext, disk>>

Running(l) == load[l].pc \notin {"unused", "done"}
Idle == (\A l \in Loads : ~Running(l)) /\ (\A h \in Infohashes : ~Front(h))

\* With no call under way and the bounds used up, the node rests.
Rest == /\ Idle
        /\ \A c \in Callers : caller[c] = NoLoad
        /\ \A l \in Loads : load[l].pc # "unused"
        /\ UNCHANGED vars

-----------------------------------------------------------------------------
\* What the fields of a load or ref that does not exist yet hold.
AnyPub == CHOOSE pk \in Pubs : TRUE
AnyInfohash == CHOOSE h \in Infohashes : TRUE

Init ==
    /\ rec \in [Pubs -> Infohashes]
    /\ cache = <<>>
    /\ inflight = [k \in Keys |-> NoLoad]
    /\ load = [l \in Loads |-> [pc |-> "unused", pk |-> AnyPub, ih |-> AnyInfohash,
                                ref |-> NoRef, waiters |-> 0, aborted |-> FALSE]]
    /\ caller = [c \in Callers |-> NoLoad]
    /\ ref = [r \in Loads |-> [ih |-> AnyInfohash, owned |-> FALSE, st |-> "none",
                               prog |-> 0, readers |-> 0, retainedBy |-> {}]]
    /\ refs = [h \in Infohashes |-> NoRef]
    /\ current = [pk \in Pubs |-> NoRef]
    /\ tail = [h \in Infohashes |-> <<>>]
    /\ ext \in [Infohashes -> BOOLEAN]
    /\ disk = {}
    /\ events = 0

Next ==
    \/ \E c \in Callers :
          \/ \E pk \in Pubs : \/ CatalogHit(c, pk)
                              \/ CatalogJoin(c, pk)
                              \/ \E l \in Loads : CatalogStart(c, pk, l)
          \/ Leave(c)
    \/ \E h \in Infohashes : Acquire(h) \/ Destroy(h) \/ Remove(h)
    \/ \E l \in Loads : LoadStep(l)
    \/ \E pk \in Pubs, h \in Infohashes : Publish(pk, h)
    \/ \E r \in Loads : Progress(r) \/ TorrentError(r) \/ PublishCatalog(r)
    \/ \E h \in Infohashes : Reseed(h) \/ Unseed(h)
    \/ Rest

Spec == Init /\ [][Next]_vars

\* The awaits of the queue and of the loads end, and every caller's deadline
\* passes; nothing is assumed of the network, the publishers or other torrents.
FairSpec == /\ Spec
            /\ \A h \in Infohashes : WF_vars(Acquire(h) \/ Destroy(h) \/ Remove(h))
            /\ \A l \in Loads : WF_vars(LoadStep(l))
            /\ \A c \in Callers : WF_vars(Leave(c))

-----------------------------------------------------------------------------
(***************************************************************************)
(* Invariants.                                                             *)
(***************************************************************************)
\* Every variable is what the program's types say: in particular the counters
\* readers and waiters, which the code decrements unguarded, never go below zero.
TypeOK ==
    /\ rec \in [Pubs -> Infohashes]
    /\ cache \in Seq(Keys)
    /\ inflight \in [Keys -> Loads \cup {NoLoad}]
    /\ load \in [Loads -> Load]
    /\ caller \in [Callers -> Loads \cup {NoLoad}]
    /\ ref \in [Loads -> Ref]
    /\ refs \in [Infohashes -> Loads \cup {NoRef}]
    /\ current \in [Pubs -> Loads \cup {NoRef}]
    /\ tail \in [Infohashes -> Seq(Op)]
    /\ ext \in [Infohashes -> BOOLEAN]
    /\ disk \subseteq Pubs \X Infohashes \X Loads
    /\ events \in Nat

Holders(r) == {l \in Loads : load[l].pc \in Holding /\ load[l].ref = r}

\* readers is the number of loads between acquire and release, over every exit
\* of loadCatalog (success, abort, refusal, error, a torrent destroyed elsewhere).
ReaderCount == \A r \in Loads : ref[r].readers = Cardinality(Holders(r))

\* current and retainedBy are two views of one relation, which retain, retire,
\* capTorrents and the detaching of stale records all update in both places.
RetentionAgrees ==
    \A pk \in Pubs, r \in Loads : current[pk] = r <=> pk \in ref[r].retainedBy

\* The lifecycle never destroys a torrent that a load reads or a publisher
\* retains, however acquisitions and queued destructions of it interleave.
InUseNotReaped == \A r \in Loads : InUse(ref[r]) => ref[r].st # "reaped"

\* Every live torrent we own is the registered one of its infohash, so the next
\* load of the infohash reuses it instead of adding a duplicate.
OwnedRegistered ==
    \A r \in Loads : ref[r].owned /\ ref[r].st = "live" => refs[ref[r].ih] = r

\* A live torrent we own has its directory: no cleanup of an earlier generation
\* of the same publisher and infohash removes it.
LiveHasDir ==
    \A r \in Loads : ref[r].owned /\ ref[r].st = "live" => DirOf(r) \in disk

\* A torrent of ours that lives is neither forgotten nor left without its files.
LiveIsKept == OwnedRegistered /\ LiveHasDir

\* waiters is the number of callers that wait, and nobody waits for a load that
\* has been aborted: a caller's deadline never cancels another caller's load.
WaitersCount ==
    \A l \in Loads : /\ load[l].waiters = Cardinality({c \in Callers : caller[c] = l})
                     /\ load[l].aborted => load[l].waiters = 0

\* Callers of one key share one load: of the running loads of a key at most one
\* has not been aborted, and it is the one a newcomer joins.
OneLoadPerKey ==
    \A l \in Loads : Running(l) /\ ~load[l].aborted => inflight[KeyOf(l)] = l

\* Once every load and every queued operation is over, at most TorrentsMax of our
\* torrents live and the only directories left are those of retained catalogs.
NothingLeaks ==
    Idle => /\ Cardinality({r \in Loads : ref[r].owned /\ ref[r].st = "live"}) <= TorrentsMax
            /\ \A r \in Loads : DirOf(r) \in disk => ref[r].retainedBy # {}

-----------------------------------------------------------------------------
(***************************************************************************)
(* Liveness (of FairSpec).                                                 *)
(***************************************************************************)
\* A load that every caller has left ends, even one queued behind the
\* destructions and acquisitions of other loads of the infohash.
AbortedLoadEnds == \A l \in Loads : load[l].aborted ~> load[l].pc = "done"

\* A torrent we own and nothing uses is destroyed and its directory removed,
\* unless it is used again first.
UnusedIsRemoved ==
    \A r \in Loads : (ref[r].owned /\ ~InUse(ref[r])) ~>
                        (InUse(ref[r]) \/ DirOf(r) \notin disk)

\* What nobody waits for or uses ends: loads, torrents and directories.
UnusedEnds == AbortedLoadEnds /\ UnusedIsRemoved
=============================================================================
