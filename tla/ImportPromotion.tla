-------------------------- MODULE ImportPromotion --------------------------
(***************************************************************************)
(* The versions of one imported model in a node's home directory: how an   *)
(* import stages, publishes and promotes a version (src/src/hf.ts,         *)
(* importLocked), and how the next start makes sense of what a crash left  *)
(* (src/src/versions.ts, recoverVersions; src/src/node.ts, recoverImports).*)
(*                                                                         *)
(* One process runs at a time (the README forbids more), but it runs an    *)
(* import and a recovery concurrently.  An action is what happens between  *)
(* two awaits that the other, or a crash, can tell apart.  Everything in   *)
(* files survives a crash.                                                 *)
(*                                                                         *)
(* A version's directory has all its files, some of them or does not       *)
(* exist; the infohash of its torrent is a function of the version.        *)
(***************************************************************************)
EXTENDS Naturals, FiniteSets

CONSTANTS
    Versions,      \* the versions (commit and origin) of the repository
    Infohashes,
    HashOf,        \* the infohash of a version's content
    CrashesMax,    \* bound on crashes
    Troubles,      \* the sets of troubles of which a behaviour has one
    None

ASSUME HashAssumption == HashOf \in [Versions -> Infohashes]
ASSUME CrashesAssumption == CrashesMax \in Nat

\* "publish": seeding, allocating a version or putting the record fails.
\* "write": current.json or the model link cannot be written.
\* "haste": a start comes before the crashed process's lock is stale.
\* "demand": recoverImports is called in a running process, too.
\* "delete": a version's directory is deleted by hand while no process runs.
\* "unsized": the manifests have files without a size and without a hash.
AllTroubles == {"publish", "write", "haste", "demand", "delete", "unsized"}
ASSUME TroublesAssumption == Troubles \subseteq SUBSET AllTroubles

Pointer == [version : Versions, ih : Infohashes]
ASSUME NoneAssumption == None \notin Versions \cup Infohashes \cup Pointer

VARIABLES
    share,     \* the model's own record in shares.json: its infohash
    dirs,      \* the version directories
    recs,      \* the versions with a staging record
    pend,      \* the versions with a pending journal
    ptr,       \* current.json
    link,      \* the version the model link points to
    lock,      \* the repository's lock
    name,      \* the infohash last published under the model's name
    up,        \* the process
    torrents,  \* the directory behind the process's torrent of an infohash
    imp,       \* the import under way
    rcv,       \* the recovery under way
    crashes,
    troubles   \* what may go wrong in this behaviour

files == <<share, dirs, recs, pend, ptr, link>>
env == <<crashes, troubles>>
vars == <<files, lock, name, up, torrents, imp, rcv, env>>

NoTorrents == [h \in Infohashes |-> None]
NoImport == [pc |-> "idle", v |-> None, again |-> FALSE, owned |-> FALSE,
             prevOwn |-> None, prev |-> None]
NoRecovery == [pc |-> "idle", share |-> None, remove |-> FALSE, restore |-> None]

IsCurrent(v) == ptr # None /\ ptr.version = v
IsBacking(v) == \E h \in Infohashes : torrents[h] = v

\* Faults: a staging record, a torrent or the kept version protects nothing.
Pruned_IgnoreStaged(keep, d) ==
    [v \in Versions |-> IF v \in keep \cup pend \/ IsBacking(v) THEN d[v] ELSE "none"]

Pruned_IgnoreLive(keep, d) ==
    [v \in Versions |-> IF v \in keep \cup recs \cup pend THEN d[v] ELSE "none"]

Pruned_IgnoreKeep(keep, d) ==
    [v \in Versions |-> IF v \in recs \cup pend \/ IsBacking(v) THEN d[v] ELSE "none"]

\* What pruneVersions leaves of the directories.
Pruned(keep, d) ==
    [v \in Versions |-> IF v \in keep \cup recs \cup pend \/ IsBacking(v) THEN d[v] ELSE "none"]

\* stopTorrent: no other name of ours has the infohash.
Stopped(h) == [torrents EXCEPT ![h] = None]

-----------------------------------------------------------------------------
(***************************************************************************)
(* importLocked.                                                           *)
(***************************************************************************)
At(pc) == imp.pc = pc
Goto(pc) == imp' = [imp EXCEPT !.pc = pc]
Leave == imp' = NoImport /\ lock' = "free"
Hash == HashOf[imp.v]

Import(v) ==
    /\ up = "up" /\ At("idle") /\ lock = "free"
    /\ lock' = "import"
    /\ imp' = [NoImport EXCEPT !.pc = "begin", !.v = v]
    /\ UNCHANGED <<files, name, up, torrents, rcv, env>>

\* The promoted version is shared again; another one is staged.
Begin ==
    /\ At("begin")
    /\ dirs' = [dirs EXCEPT ![imp.v] = IF @ = "none" THEN "part" ELSE @]
    /\ IF ~IsCurrent(imp.v) THEN Goto("unpend") /\ lock' = lock
       ELSE IF dirs[imp.v] = "full"
            THEN imp' = [imp EXCEPT !.pc = "seed", !.again = TRUE] /\ lock' = lock
            ELSE Leave
    /\ UNCHANGED <<share, recs, pend, ptr, link, name, up, torrents, rcv, env>>

\* The journal of an earlier attempt goes ("unpend"), or that of this one, because
\* it is cancelled ("cancel"), has brought nothing new ("same") or is complete ("clean").
RemovePending ==
    /\ pend' = pend \ {imp.v}
    /\ \/ At("unpend") /\ Goto("stage") /\ lock' = lock
       \/ At("cancel") /\ Leave
       \/ At("same") /\ Goto("unrecord") /\ lock' = lock
       \/ At("clean") /\ Goto("cleanrec") /\ lock' = lock
    /\ UNCHANGED <<share, dirs, recs, ptr, link, name, up, torrents, rcv, env>>

\* Files that no staging record vouches for are removed; it vouches for none without a size
\* and a hash.
Stage ==
    /\ At("stage")
    /\ dirs' = IF imp.v \in recs /\ "unsized" \notin troubles
               THEN dirs ELSE [dirs EXCEPT ![imp.v] = "part"]
    /\ Goto("record")
    /\ UNCHANGED <<share, recs, pend, ptr, link, lock, name, up, torrents, rcv, env>>

Record ==
    /\ At("record")
    /\ recs' = recs \cup {imp.v}
    /\ Goto("download")
    /\ UNCHANGED <<share, dirs, pend, ptr, link, lock, name, up, torrents, rcv, env>>

Download ==
    /\ At("download")
    /\ dirs' = [dirs EXCEPT ![imp.v] = "full"]
    /\ Goto("journal")
    /\ UNCHANGED <<share, recs, pend, ptr, link, lock, name, up, torrents, rcv, env>>

Journal ==
    /\ At("journal")
    /\ pend' = pend \cup {imp.v}
    /\ imp' = [imp EXCEPT !.pc = "seed", !.prevOwn = share]
    /\ UNCHANGED <<share, dirs, recs, ptr, link, lock, name, up, torrents, rcv, env>>

-----------------------------------------------------------------------------
(***************************************************************************)
(* prepareShare, of the version (keepPrevious) or of the promoted one      *)
(* again, where the previous torrent is stopped.                           *)
(***************************************************************************)
Seed ==
    /\ At("seed")
    /\ LET new == torrents[Hash] = None IN
       /\ torrents' = IF new THEN [torrents EXCEPT ![Hash] = imp.v] ELSE torrents
       /\ imp' = [imp EXCEPT !.pc = "upsert", !.owned = new, !.prev = share]
    /\ UNCHANGED <<files, lock, name, up, rcv, env>>

Upsert ==
    /\ At("upsert")
    /\ share' = Hash
    /\ Goto("publish")
    /\ UNCHANGED <<dirs, recs, pend, ptr, link, lock, name, up, torrents, rcv, env>>

Publish ==
    /\ At("publish")
    /\ name' = Hash
    /\ Goto(IF imp.again THEN "stopprev" ELSE "published")
    /\ UNCHANGED <<files, lock, up, torrents, rcv, env>>

StopPrevious ==
    /\ At("stopprev")
    /\ torrents' = IF imp.prev \notin {None, Hash} THEN Stopped(imp.prev) ELSE torrents
    /\ Leave
    /\ UNCHANGED <<files, name, up, rcv, env>>

\* Fault: the previous record is not restored.
ShareFails_KeepShare ==
    /\ "publish" \in troubles
    /\ imp.pc \in {"upsert", "publish"}
    /\ torrents' = IF imp.owned /\ imp.prev # Hash THEN Stopped(Hash) ELSE torrents
    /\ IF imp.again THEN Leave ELSE Goto("drop") /\ lock' = lock
    /\ UNCHANGED <<files, name, up, rcv, env>>

\* No version could be allocated, or the record not be put.
ShareFails ==
    /\ "publish" \in troubles
    /\ imp.pc \in {"upsert", "publish"}
    /\ share' = imp.prev
    /\ torrents' = IF imp.owned /\ imp.prev # Hash THEN Stopped(Hash) ELSE torrents
    /\ IF imp.again THEN Leave ELSE Goto("drop") /\ lock' = lock
    /\ UNCHANGED <<dirs, recs, pend, ptr, link, name, up, rcv, env>>

\* Nothing was committed: the new version is dropped, its files one by one.
Drop ==
    /\ At("drop")
    /\ dirs' = [dirs EXCEPT ![imp.v] = "part"]
    /\ Goto("dropped")
    /\ UNCHANGED <<share, recs, pend, ptr, link, lock, name, up, torrents, rcv, env>>

Dropped ==
    /\ At("dropped")
    /\ dirs' = [dirs EXCEPT ![imp.v] = "none"]
    /\ recs' = recs \ {imp.v}
    /\ Leave
    /\ UNCHANGED <<share, pend, ptr, link, name, up, torrents, rcv, env>>

-----------------------------------------------------------------------------
(***************************************************************************)
(* From publication to the commit point and on.                            *)
(***************************************************************************)
\* Cancelled: unshare.
Cancel ==
    /\ At("published")
    /\ share' = imp.prevOwn
    /\ torrents' = IF imp.prevOwn # Hash THEN Stopped(Hash) ELSE torrents
    /\ Goto("cancel")
    /\ UNCHANGED <<dirs, recs, pend, ptr, link, lock, name, up, rcv, env>>

Proceed ==
    /\ At("published")
    /\ Goto(IF ptr # None /\ ptr.ih = Hash THEN "same" ELSE "pointer")
    /\ UNCHANGED <<files, lock, name, up, torrents, rcv, env>>

\* Identical content: the duplicate goes, unless a torrent reads from it, and the
\* promoted version is shared again.
RemoveDuplicate ==
    /\ At("unrecord")
    /\ recs' = recs \ {imp.v}
    /\ dirs' = IF IsBacking(imp.v) THEN dirs ELSE [dirs EXCEPT ![imp.v] = "none"]
    /\ imp' = [imp EXCEPT !.pc = "seed", !.again = TRUE, !.v = ptr.version]
    /\ UNCHANGED <<share, pend, ptr, link, lock, name, up, torrents, rcv, env>>

WritePointer ==
    /\ At("pointer")
    /\ ptr' = [version |-> imp.v, ih |-> Hash]
    /\ Goto("link")
    /\ UNCHANGED <<share, dirs, recs, pend, link, lock, name, up, torrents, rcv, env>>

SetModelLink ==
    /\ At("link")
    /\ link' = imp.v
    /\ Goto("clean")
    /\ UNCHANGED <<share, dirs, recs, pend, ptr, lock, name, up, torrents, rcv, env>>

RemoveRecord ==
    /\ At("cleanrec")
    /\ recs' = recs \ {imp.v}
    /\ Goto("retire")
    /\ UNCHANGED <<share, dirs, pend, ptr, link, lock, name, up, torrents, rcv, env>>

StopOld ==
    /\ At("retire")
    /\ torrents' = IF imp.prevOwn \notin {None, Hash} THEN Stopped(imp.prevOwn) ELSE torrents
    /\ Goto("prune")
    /\ UNCHANGED <<files, lock, name, up, rcv, env>>

PruneOld ==
    /\ At("prune")
    /\ dirs' = Pruned({imp.v}, dirs)
    /\ Leave
    /\ UNCHANGED <<share, recs, pend, ptr, link, name, up, torrents, rcv, env>>

\* A file operation, the download or the seeding fails, or the import is cancelled.
Throws ==
    /\ imp.pc \in {"begin", "unpend", "stage", "record", "download", "journal", "seed",
                   "pointer", "link"}
    /\ imp.pc \in {"pointer", "link"} => "write" \in troubles
    /\ At("seed") => "publish" \in troubles
    /\ IF At("seed") /\ ~imp.again THEN Goto("drop") /\ lock' = lock ELSE Leave
    /\ UNCHANGED <<files, name, up, torrents, rcv, env>>

-----------------------------------------------------------------------------
(***************************************************************************)
(* recoverImports, at the start ("starting") or on demand.  The shares are *)
(* read before the lock is taken, and applied after it is released.        *)
(***************************************************************************)
RAt(pc) == rcv.pc = pc
RGoto(pc) == rcv' = [rcv EXCEPT !.pc = pc]

Recover ==
    /\ RAt("idle")
    /\ \/ up = "down" /\ up' = "starting" /\ (lock = "left" => "haste" \in troubles)
       \/ "demand" \in troubles /\ up = "up" /\ up' = up
    /\ rcv' = [NoRecovery EXCEPT !.pc = "lock", !.share = share]
    /\ UNCHANGED <<files, lock, name, torrents, imp, env>>

\* A repository whose lock another holds is skipped.
RLock ==
    /\ RAt("lock")
    /\ IF lock = "free" THEN lock' = "recovery" /\ RGoto("pending")
                        ELSE lock' = lock /\ RGoto("remove")
    /\ UNCHANGED <<files, name, up, torrents, imp, env>>

Journaled == {v \in pend : dirs[v] # "none"}

\* A journal of the promoted version has done its duty.
RCommitted(v) ==
    /\ RAt("pending") /\ v \in Journaled
    /\ IsCurrent(v)
    /\ pend' = pend \ {v}
    /\ UNCHANGED <<share, dirs, recs, ptr, link, lock, name, up, torrents, imp, rcv, env>>

\* Fault: completed also when there is a pointer.
RComplete_Always(v) ==
    /\ RAt("pending") /\ v \in Journaled
    /\ rcv.share # None
    /\ ptr' = [version |-> v, ih |-> rcv.share]
    /\ UNCHANGED <<share, dirs, recs, pend, link, lock, name, up, torrents, imp, rcv, env>>

\* Without a pointer the promotion is completed with the share that is recorded.
RComplete(v) ==
    /\ RAt("pending") /\ v \in Journaled
    /\ rcv.share # None /\ ptr = None
    /\ ptr' = [version |-> v, ih |-> rcv.share]
    /\ UNCHANGED <<share, dirs, recs, pend, link, lock, name, up, torrents, imp, rcv, env>>

\* Otherwise it is abandoned.
RAbandon(v) ==
    /\ RAt("pending") /\ v \in Journaled
    /\ ~IsCurrent(v) /\ ~(rcv.share # None /\ ptr = None)
    /\ pend' = pend \ {v}
    /\ rcv' = [rcv EXCEPT !.remove = @ \/ /\ rcv.share # None /\ ptr # None
                                          /\ rcv.share # ptr.ih]
    /\ UNCHANGED <<share, dirs, recs, ptr, link, lock, name, up, torrents, imp, env>>

Unlock == lock' = "free" /\ RGoto("remove")

RNoPointer ==
    /\ RAt("pending") /\ Journaled = {}
    /\ ptr = None
    /\ dirs' = Pruned({}, dirs)
    /\ Unlock
    /\ UNCHANGED <<share, recs, pend, ptr, link, name, up, torrents, imp, env>>

\* The promoted version is gone.
RNoContent ==
    /\ RAt("pending") /\ Journaled = {}
    /\ ptr # None /\ dirs[ptr.version] = "none"
    /\ ptr' = None
    /\ dirs' = Pruned({}, dirs)
    /\ lock' = "free"
    /\ rcv' = [rcv EXCEPT !.pc = "remove", !.remove = TRUE]
    /\ UNCHANGED <<share, recs, pend, link, name, up, torrents, imp, env>>

\* Fault: the link is left as it is.
RLink_Skip ==
    /\ RAt("pending") /\ Journaled = {}
    /\ ptr # None /\ dirs[ptr.version] # "none"
    /\ RGoto("unrecord")
    /\ UNCHANGED <<files, lock, name, up, torrents, imp, env>>

\* The link is repaired before anything is pruned.
RLink ==
    /\ RAt("pending") /\ Journaled = {}
    /\ ptr # None /\ dirs[ptr.version] # "none"
    /\ link' = ptr.version
    /\ RGoto("unrecord")
    /\ UNCHANGED <<share, dirs, recs, pend, ptr, lock, name, up, torrents, imp, env>>

\* current.json or the link cannot be written: the rest of the repository is left as it is.
RWriteFails ==
    /\ "write" \in troubles
    /\ RAt("pending")
    /\ \/ Journaled # {} /\ rcv.share # None /\ ptr = None
       \/ Journaled = {} /\ ptr # None /\ dirs[ptr.version] # "none" /\ link # ptr.version
    /\ Unlock
    /\ UNCHANGED <<files, name, up, torrents, imp, env>>

RUnrecord ==
    /\ RAt("unrecord")
    /\ recs' = recs \ {ptr.version}
    /\ rcv' = [rcv EXCEPT !.pc = "prune", !.restore = ptr.ih]
    /\ UNCHANGED <<share, dirs, pend, ptr, link, lock, name, up, torrents, imp, env>>

RPrune ==
    /\ RAt("prune")
    /\ dirs' = Pruned({ptr.version}, dirs)
    /\ Unlock
    /\ UNCHANGED <<share, recs, pend, ptr, link, name, up, torrents, imp, env>>

RRemove ==
    /\ RAt("remove")
    /\ share' = IF rcv.remove THEN None ELSE share
    /\ RGoto("restore")
    /\ UNCHANGED <<dirs, recs, pend, ptr, link, lock, name, up, torrents, imp, env>>

RNothing ==
    /\ RAt("restore") /\ rcv.restore = None
    /\ up' = "up"
    /\ rcv' = NoRecovery
    /\ UNCHANGED <<files, lock, name, torrents, imp, env>>

\* The torrents of other versions are retired; at the start there is no client yet
\* whose torrents could be listed, and the start fails.
RRestore ==
    /\ RAt("restore") /\ rcv.restore # None
    /\ share' = rcv.restore
    /\ IF up = "starting"
       THEN /\ up' = "down" /\ rcv' = NoRecovery
            /\ torrents' = torrents
       ELSE /\ up' = up /\ RGoto("reprune")
            /\ torrents' = [h \in Infohashes |-> IF h = rcv.restore THEN torrents[h] ELSE None]
    /\ UNCHANGED <<dirs, recs, pend, ptr, link, lock, name, imp, env>>

\* And the repository is pruned again, unless an import holds the lock.
RReprune ==
    /\ RAt("reprune")
    /\ dirs' = IF lock = "free" /\ ptr # None THEN Pruned({ptr.version}, dirs) ELSE dirs
    /\ rcv' = NoRecovery
    /\ UNCHANGED <<share, recs, pend, ptr, link, lock, name, up, torrents, imp, env>>

-----------------------------------------------------------------------------
Down == up' = "down" /\ torrents' = NoTorrents /\ imp' = NoImport /\ rcv' = NoRecovery

Stop ==
    /\ up = "up" /\ At("idle") /\ RAt("idle")
    /\ Down
    /\ UNCHANGED <<files, lock, name, env>>

Crash ==
    /\ up # "down" /\ (~At("idle") \/ ~RAt("idle"))
    /\ crashes < CrashesMax
    /\ crashes' = crashes + 1
    /\ Down
    /\ lock' = IF lock = "free" THEN "free" ELSE "left"
    /\ UNCHANGED <<files, name, troubles>>

\* What the crashed process left of the lock is stale after a while.
LockExpires ==
    /\ lock = "left"
    /\ lock' = "free"
    /\ UNCHANGED <<files, name, up, torrents, imp, rcv, env>>

Delete(v) ==
    /\ "delete" \in troubles
    /\ up = "down" /\ dirs[v] # "none"
    /\ dirs' = [dirs EXCEPT ![v] = "none"]
    /\ UNCHANGED <<share, recs, pend, ptr, link, lock, name, up, torrents, imp, rcv, env>>

-----------------------------------------------------------------------------
Importer ==
    \/ Begin \/ RemovePending \/ Stage \/ Record \/ Download \/ Journal
    \/ Seed \/ Upsert \/ Publish \/ StopPrevious \/ ShareFails \/ Drop \/ Dropped
    \/ Cancel \/ Proceed \/ RemoveDuplicate \/ WritePointer \/ SetModelLink
    \/ RemoveRecord \/ StopOld \/ PruneOld \/ Throws

Recoverer ==
    \/ RLock
    \/ \E v \in Versions : RCommitted(v) \/ RComplete(v) \/ RAbandon(v)
    \/ RNoPointer \/ RNoContent \/ RLink \/ RWriteFails \/ RUnrecord \/ RPrune
    \/ RRemove \/ RNothing \/ RRestore \/ RReprune

Init ==
    /\ share = None /\ dirs = [v \in Versions |-> "none"] /\ recs = {} /\ pend = {}
    /\ ptr = None /\ link = None /\ lock = "free"
    /\ name = None
    /\ up = "down" /\ torrents = NoTorrents /\ imp = NoImport /\ rcv = NoRecovery
    /\ crashes = 0 /\ troubles \in Troubles

Next ==
    \/ \E v \in Versions : Import(v) \/ Delete(v)
    \/ Importer \/ Recover \/ Recoverer \/ Stop \/ Crash \/ LockExpires

Spec == Init /\ [][Next]_vars

\* The program is started again and again, and a start goes on.
FairSpec == Spec /\ WF_vars(Recover) /\ WF_vars(Recoverer) /\ WF_vars(LockExpires)

-----------------------------------------------------------------------------
ImportPcs == {"idle", "begin", "unpend", "stage", "record", "download", "journal", "seed",
              "upsert", "publish", "stopprev", "drop", "dropped",
              "published", "cancel", "same",
              "unrecord", "pointer", "link", "clean", "cleanrec", "retire", "prune"}
RecoveryPcs == {"idle", "lock", "pending", "unrecord", "prune", "remove", "restore", "reprune"}

ImportState ==
    [pc : ImportPcs, v : Versions \cup {None}, again : BOOLEAN, owned : BOOLEAN,
     prevOwn : Infohashes \cup {None}, prev : Infohashes \cup {None}]
RecoveryState ==
    [pc : RecoveryPcs, share : Infohashes \cup {None}, remove : BOOLEAN,
     restore : Infohashes \cup {None}]

TypeOK ==
    /\ share \in Infohashes \cup {None}
    /\ dirs \in [Versions -> {"none", "part", "full"}]
    /\ recs \subseteq Versions /\ pend \subseteq Versions
    /\ ptr \in Pointer \cup {None}
    /\ link \in Versions \cup {None}
    /\ lock \in {"free", "import", "recovery", "left"}
    /\ name \in Infohashes \cup {None}
    /\ up \in {"down", "starting", "up"}
    /\ torrents \in [Infohashes -> Versions \cup {None}]
    /\ imp \in ImportState /\ rcv \in RecoveryState
    /\ crashes \in 0..CrashesMax /\ troubles \in Troubles

Available(h) == \E v \in Versions : HashOf[v] = h /\ dirs[v] = "full"

\* Each property names the troubles it stands.
Only(allowed) == troubles \subseteq allowed

\* "A crash at any step leaves either the old or the new version fully consistent":
\* the promoted version is complete, whatever crashed, was cancelled, started too early,
\* could not be written or has to be downloaded again.
CurrentComplete ==
    Only({"haste", "write", "demand", "unsized"}) /\ ptr # None => dirs[ptr.version] = "full"

\* The model link never dangles.
LinkComplete == Only({"demand"}) /\ link # None => dirs[link] = "full"

\* "The name is published: the new content is referenced and must never be deleted."
PublishedKept == Only({"demand"}) /\ name # None => Available(name)

\* The content of the model's own record is on the disk, also when a publication fails.
ShareKept == Only({"publish"}) /\ share # None => Available(share)

\* current.json joins the directory and the infohash of one version.
PointerMatches == Only({"demand"}) /\ ptr # None => ptr.ih = HashOf[ptr.version]

\* "No directory a live torrent is reading from is ever deleted."  Not where publications
\* fail and something else goes wrong: ShareFails keeps the torrent of a share that an early
\* start, or a promotion cut short, has left behind, and Drop deletes what it reads from.
LiveHasDir ==
    (\/ Only({"publish"})
     \/ Only({"haste", "write", "demand", "unsized"})
     \/ Only({"write", "demand", "delete"}))
        => \A h \in Infohashes : torrents[h] # None => dirs[torrents[h]] # "none"

\* What is referenced from outside the files, by the name or by a torrent, is kept.
ContentKept == PublishedKept /\ LiveHasDir

\* What the files say of each other is true.
RecordsMatch == ShareKept /\ PointerMatches

\* Whatever troubles there are: once a recovery has had the lock, current.json names a
\* version that is there and the link points to it, unless the link could not be written.
RecoveryRepairs ==
    [][lock = "recovery" /\ lock' = "free" =>
          \/ ptr' = None
          \/ /\ dirs'[ptr'.version] # "none"
             /\ link' = ptr'.version \/ RWriteFails]_vars

\* "The next start reconciles": a node that was stopped comes up again.
StartsAgain == up = "down" ~> up = "up"
=============================================================================
