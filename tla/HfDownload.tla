----------------------------- MODULE HfDownload -----------------------------
(***************************************************************************)
(* How an import fills the directory of a version: the staging loop and    *)
(* the downloads of importLocked, and downloadFile with its resumed ranges *)
(* (src/src/hf.ts).  What surrounds them is ImportPromotion.               *)
(*                                                                         *)
(* The filesystem folds names.  A file is known by where it is, how it is  *)
(* spelled, how long it is and what its bytes are of: one content, or a    *)
(* mixture.  Bodies come a byte at a time.  Whatever ends an import early  *)
(* (a crash, a cancellation, a stall, a reset, a refusal) ends it with the *)
(* files as they are, and it is tried again.                               *)
(***************************************************************************)
EXTENDS HfManifest

CONSTANTS
    Infos,       \* the answers of the API, with what the server has
    Published,   \* the files of the version that is current
    Whole,       \* the length of what a hash is of
    Wrong, Mixed,
    TroublesMax  \* bound on what goes wrong

Siblings == UNION {Range(info) : info \in Infos}
Paths == {s.path : s \in Siblings} \ {Junk}
Places == {Folded(p) : p \in Paths}
Contents == (UNION {{s.content, s.sha} : s \in Siblings} \ {None}) \cup {Wrong, Mixed}
Hashed == {s.sha : s \in Siblings} \ {None}
Blobs == [path : Paths, len : Nat, of : Contents]

Entries == [size : Nat \cup {None}, sha : Contents \cup {None}, blob : Blobs \cup {None}]
Records == UNION {[P -> Entries] : P \in SUBSET Paths}

ASSUME NoneAssumption ==
    None \notin Nat /\ None \notin Blobs /\ None \notin Entries /\ \A P \in SUBSET Paths : None \notin [P -> Entries]
ASSUME InfosAssumption ==
    Infos \subseteq Seq([path : {Junk} \cup Seq(DOMAIN Fold), size : Nat \cup {None}, lfsSize : Nat \cup {None},
                        sha : Contents \cup {None}, length : Nat, content : Contents])
ASSUME PublishedAssumption == Published \in [Places -> Blobs \cup {None}]
ASSUME WholeAssumption == Whole \in [Hashed -> Nat]
ASSUME TroublesAssumption == TroublesMax \in Nat

\* A commit's small files are the same in every answer about it, and empty where it says so.
ASSUME CommitAssumption ==
    \A s, t \in Siblings :
        s.path = t.path /\ s.sha = None =>
            /\ t.sha = None /\ t.length = s.length /\ t.content = s.content
            /\ Size(s) = 0 => s.length = 0

VARIABLES
    remote,   \* what the server has
    ranges,   \* what it makes of a range: honoured, ignored, mismatched
    disk,     \* the files of the version's directory
    dirs,     \* the directories in it, as the filesystem knows them
    rec,      \* the staging record
    imp,      \* the import
    wrong,    \* the paths of which the server has sent something wrong
    changed,  \* what the server has was not always the same
    troubles,
    promoted

server == <<remote, ranges, changed>>
vars == <<server, disk, dirs, rec, imp, wrong, troubles, promoted>>

NoImport == [pc |-> "idle", files |-> <<>>, prev |-> None, i |-> 0, start |-> 0,
             received |-> 0, body |-> None, total |-> 0]

File == imp.files[imp.i]
Place == Folded(File.path)
Here == disk[Place]
LenOf(d) == IF d = None THEN 0 ELSE d.len

\* What the URL of a path serves.
IsServed(path) == \E s \in Range(remote) : s.path = path
Served(path) == CHOOSE s \in Range(remote) : s.path = path

\* What a commit's small files hold, in every answer about it.
Truth(path) == CHOOSE s \in Siblings : s.path = path

\* Fault: the beginning of a content has its hash.
Hashes_Prefix(d, f) == d # None /\ d.of = f.sha

\* sha256File(dest) === f.sha256: the whole of what the hash is of, and nothing else.
Hashes(d, f) == d # None /\ d.len = Whole[f.sha] /\ (d.len > 0 => d.of = f.sha)

DirsOf(path) == {Folded(p) : p \in Directories(path)}

Goto(pc) == imp' = [imp EXCEPT !.pc = pc]
Fail == imp' = NoImport
Put(d) == disk' = [disk EXCEPT ![Place] = d]

-----------------------------------------------------------------------------
(***************************************************************************)
(* Staging: what an earlier attempt left is reused or removed.             *)
(***************************************************************************)
\* containedPath, of every file: no file is where a directory has to be, and no directory
\* where the file has to be.  After the pruning, the same test cannot fail again.
Contained(files) ==
    \A f \in Range(files) :
        /\ Folded(f.path) \notin dirs
        /\ \A l \in DirsOf(f.path) \cap Places : disk[l] = None

\* An answer that is not accepted, or does not fit what is there, ends the attempt at once.
Import ==
    /\ imp.pc = "idle" /\ ~promoted /\ Accepted(remote) /\ Contained(Files(remote))
    /\ imp' = [NoImport EXCEPT !.pc = "prune", !.files = Files(remote)]
    /\ UNCHANGED <<server, disk, dirs, rec, wrong, troubles, promoted>>

\* pruneTo, with the names as they are spelled.
Pruned ==
    LET keep == {f.path : f \in Range(imp.files)}
    IN  [l \in Places |-> IF disk[l] # None /\ disk[l].path \in keep THEN disk[l] ELSE None]

\* Directories that are empty go, too.
PrunedDirs == UNION {DirsOf(Pruned[l].path) : l \in {m \in Places : Pruned[m] # None}}

Prune ==
    /\ imp.pc = "prune"
    /\ disk' = Pruned /\ dirs' = PrunedDirs
    /\ imp' = [imp EXCEPT !.pc = "stage", !.prev = rec, !.i = 1]
    /\ UNCHANGED <<server, rec, wrong, troubles, promoted>>

Old(f) == IF imp.prev = None \/ f.path \notin DOMAIN imp.prev THEN None ELSE imp.prev[f.path]

\* Fault: only a file that is complete is reused.
Reusable_Whole(f, d) == d # None /\ Old(f) # None /\ f.size # None /\ d.len = f.size

Reusable(f, d) ==
    LET old == Old(f)
    IN  /\ old # None /\ old.size = f.size /\ old.sha = f.sha
        /\ f.sha = None =>
             /\ d # None /\ f.size # None
             /\ d.len < f.size \/ (d.len = f.size /\ old.blob = d)

Stage ==
    /\ imp.pc = "stage"
    /\ IF Reusable(File, Here) THEN UNCHANGED disk ELSE Put(None)
    /\ imp' = [imp EXCEPT
          !.pc = IF imp.i = Len(imp.files) THEN "record" ELSE "stage",
          !.i = IF @ = Len(imp.files) THEN 1 ELSE @ + 1,
          !.prev = IF Reusable(File, Here) THEN @
                   ELSE [p \in (IF @ = None THEN {} ELSE DOMAIN @) \ {File.path} |-> @[p]]]
    /\ UNCHANGED <<server, dirs, rec, wrong, troubles, promoted>>

Record ==
    /\ imp.pc = "record"
    /\ rec' = [p \in {f.path : f \in Range(imp.files)} |->
                 LET f == CHOOSE g \in Range(imp.files) : g.path = p
                 IN  [size |-> f.size, sha |-> f.sha, blob |-> IF Old(f) = None THEN None ELSE Old(f).blob]]
    /\ imp' = [imp EXCEPT !.pc = "next", !.prev = None]
    /\ UNCHANGED <<server, disk, dirs, wrong, troubles, promoted>>

-----------------------------------------------------------------------------
(***************************************************************************)
(* One file.                                                               *)
(***************************************************************************)
\* Fault: what the files before have used is forgotten.
Budget_Whole == MaxTotalBytes

Budget == MaxTotalBytes - imp.total

Cap == IF File.size # None THEN File.size ELSE Min({MaxFileBytes, Budget})

MakeDirs == dirs' = dirs \cup DirsOf(File.path)

Copyable ==
    /\ File.sha # None /\ Here = None
    /\ LET pub == Published[Place]
       IN  pub # None /\ pub.path = File.path /\ LenOf(pub) = File.size /\ Hashes(pub, File)

\* A file with the same hash is copied from the current version; the copy is not
\* whole at once.
Copy ==
    /\ imp.pc = "next" /\ Copyable
    /\ MakeDirs
    /\ \E n \in 0..File.size - 1 : Put([path |-> File.path, len |-> n, of |-> File.sha])
    /\ Goto("copy")
    /\ UNCHANGED <<server, rec, wrong, troubles, promoted>>

CopyEnds ==
    /\ imp.pc = "copy"
    /\ Put(Published[Place])
    /\ Goto("get")
    /\ UNCHANGED <<server, dirs, rec, wrong, troubles, promoted>>

\* Nothing to copy, or the copy is refused.
NoCopy ==
    /\ imp.pc = "next"
    /\ UNCHANGED dirs \/ (Copyable /\ MakeDirs)
    /\ Goto("get")
    /\ UNCHANGED <<server, disk, rec, wrong, troubles, promoted>>

\* downloadFile: the file is complete, its rest is asked for, or all of it is.
Get ==
    /\ imp.pc = "get"
    /\ IF File.size # None /\ File.size > Budget THEN UNCHANGED dirs ELSE MakeDirs
    /\ IF File.size # None /\ File.size > Budget THEN Fail /\ UNCHANGED disk
       ELSE IF File.size # None /\ Here # None /\ Here.len = File.size /\ (File.sha # None => Hashes(Here, File))
       THEN Goto("count") /\ UNCHANGED disk
       ELSE IF File.size = 0 /\ Here = None
       THEN Put([path |-> File.path, len |-> 0, of |-> Truth(File.path).content]) /\ Goto("check")
       ELSE LET resumes == File.size # None /\ LenOf(Here) \in 1..File.size - 1
            IN  /\ imp' = [imp EXCEPT !.pc = "ask", !.start = IF resumes THEN Here.len ELSE 0]
                /\ IF resumes THEN UNCHANGED disk ELSE Put(None)
    /\ UNCHANGED <<server, rec, wrong, troubles, promoted>>

\* Fault: an answer about another range ends the attempt, and the file stays.
NotThisRange_Throws == Fail /\ UNCHANGED disk

\* One clean retry from zero.
NotThisRange == Put(None) /\ imp' = [imp EXCEPT !.start = 0]

\* The answer: what was asked for, all of it, or a range that is not ours.
Answer ==
    /\ imp.pc = "ask" /\ IsServed(File.path)
    /\ LET s == Served(File.path)
           resumes == imp.start > 0 /\ ranges = "honoured" /\ s.length = File.size
       IN  IF imp.start > 0 /\ ranges # "ignored" /\ ~resumes THEN NotThisRange
           ELSE /\ imp' = [imp EXCEPT !.pc = "body", !.body = s,
                             !.start = IF resumes THEN @ ELSE 0,
                             !.received = IF resumes THEN imp.start ELSE 0]
                /\ IF resumes THEN UNCHANGED disk
                   ELSE Put([path |-> File.path, len |-> 0, of |-> s.content])
    /\ UNCHANGED <<server, dirs, rec, wrong, troubles, promoted>>

NotFound ==
    /\ imp.pc = "ask" /\ ~IsServed(File.path)
    /\ Fail
    /\ UNCHANGED <<server, disk, dirs, rec, wrong, troubles, promoted>>

Longer(d, c) ==
    [d EXCEPT !.len = @ + 1, !.of = IF d.len = 0 \/ d.of = c THEN c ELSE Mixed]

\* Fault: the cap is compared with what was received before.
Over_Late(n) == imp.received > Cap

\* One byte too many: the file is poisoned.
Over(n) == n > Cap

Byte(c) ==
    IF Over(imp.received + 1) THEN Put(None) /\ Fail
    ELSE Put(Longer(Here, c)) /\ imp' = [imp EXCEPT !.received = @ + 1]

Receive ==
    /\ imp.pc = "body" /\ imp.received < imp.body.length
    /\ Byte(imp.body.content)
    /\ UNCHANGED <<server, dirs, rec, wrong, troubles, promoted>>

EndBody ==
    /\ imp.pc = "body" /\ imp.received >= imp.body.length
    /\ Goto("check")
    /\ UNCHANGED <<server, disk, dirs, rec, wrong, troubles, promoted>>

\* Fault: a resumed file is known by its size.
Verified_BySize(d, f) == (f.size # None => d.len = f.size) /\ (imp.start = 0 /\ f.sha # None => Hashes(d, f))

Verified(d, f) == (f.size # None => d.len = f.size) /\ (f.sha # None => Hashes(d, f))

Check ==
    /\ imp.pc = "check"
    /\ IF Verified(Here, File) THEN Goto("count") /\ UNCHANGED disk ELSE Put(None) /\ Fail
    /\ UNCHANGED <<server, dirs, rec, wrong, troubles, promoted>>

\* The file counts, and its own hash is recorded where the API gave none.
Count ==
    /\ imp.pc = "count"
    /\ IF imp.total + Here.len > MaxTotalBytes
       THEN Put(None) /\ Fail /\ UNCHANGED rec
       ELSE /\ rec' = IF File.sha = None THEN [rec EXCEPT ![File.path].blob = Here] ELSE rec
            /\ imp' = [imp EXCEPT
                  !.pc = IF imp.i = Len(imp.files) THEN "promote" ELSE "next",
                  !.i = IF @ = Len(imp.files) THEN @ ELSE @ + 1,
                  !.total = @ + Here.len, !.start = 0, !.received = 0, !.body = None]
            /\ UNCHANGED disk
    /\ UNCHANGED <<server, dirs, wrong, troubles, promoted>>

Complete ==
    \A f \in Range(imp.files) :
        LET d == disk[Folded(f.path)] IN d # None /\ (f.size # None => d.len = f.size)

Promote ==
    /\ imp.pc = "promote"
    /\ disk' = Pruned /\ dirs' = PrunedDirs
    /\ IF Complete THEN Goto("done") /\ promoted' = TRUE ELSE Fail /\ UNCHANGED promoted
    /\ UNCHANGED <<server, rec, wrong, troubles>>

-----------------------------------------------------------------------------
(***************************************************************************)
(* What goes wrong.                                                        *)
(***************************************************************************)
Trouble == troubles < TroublesMax /\ troubles' = troubles + 1

GiveUp ==
    /\ Trouble
    /\ imp.pc \notin {"idle", "done"} /\ Fail
    /\ UNCHANGED <<server, disk, dirs, rec, wrong, promoted>>

\* A wrong byte, or one beyond the end.
Garbage ==
    /\ Trouble
    /\ imp.pc = "body" /\ Byte(Wrong)
    /\ wrong' = wrong \cup {File.path}
    /\ UNCHANGED <<server, dirs, rec, promoted>>

\* The body ends too early, without an error.
Truncate ==
    /\ Trouble
    /\ imp.pc = "body" /\ imp.received < imp.body.length
    /\ Goto("check")
    /\ wrong' = wrong \cup {File.path}
    /\ UNCHANGED <<server, disk, dirs, rec, promoted>>

\* The server answers differently for the same commit.
Change ==
    /\ Trouble
    /\ remote' \in Infos \ {remote} /\ changed' = TRUE
    /\ UNCHANGED <<ranges, disk, dirs, rec, imp, wrong, promoted>>

Init ==
    /\ remote \in Infos /\ ranges \in {"honoured", "ignored", "mismatched"} /\ changed = FALSE
    /\ disk = [l \in Places |-> None] /\ dirs = {} /\ rec = None
    /\ imp = NoImport /\ wrong = {} /\ troubles = 0 /\ promoted = FALSE

GoesOn ==
    \/ Import \/ Prune \/ Stage \/ Record
    \/ Copy \/ CopyEnds \/ NoCopy \/ Get \/ Answer \/ NotFound \/ Receive \/ EndBody \/ Check \/ Count
    \/ Promote

Next == GoesOn \/ GiveUp \/ Garbage \/ Truncate \/ Change

Spec == Init /\ [][Next]_vars

\* File operations end, a body that does not come is a stall, and an import that
\* has failed is tried again.
FairSpec == Spec /\ WF_vars(GoesOn)

-----------------------------------------------------------------------------
TypeOK ==
    /\ \A l \in Places : disk[l] # None =>
         /\ disk[l].path \in Paths /\ disk[l].len \in 0..MaxFileBytes /\ disk[l].of \in Contents
    /\ imp.pc \in {"idle", "prune", "stage", "record", "next", "copy", "get", "ask", "body",
                   "check", "count", "promote", "done"}
    /\ imp.pc # "idle" => imp.i \in 0..Len(imp.files)
    /\ imp.total \in 0..MaxTotalBytes
    /\ wrong \subseteq Paths /\ troubles \in 0..TroublesMax

\* A promoted version holds the files of its manifest and no others, also where
\* the filesystem folds names.  A file with a hash is what the hash says, whatever
\* the server sent over however many attempts; another is what the server has,
\* unless the server sent something else.
PromotedExact ==
    promoted =>
        /\ {disk[l].path : l \in {m \in Places : disk[m] # None}} = {f.path : f \in Range(imp.files)}
        /\ \A f \in Range(imp.files) :
             LET d == disk[Folded(f.path)]
             IN  /\ f.sha # None => d.len = Whole[f.sha] /\ (d.len > 0 => d.of = f.sha)
                 /\ f.sha = None /\ f.path \notin wrong =>
                      d.len = Truth(f.path).length /\ (d.len > 0 => d.of = Truth(f.path).content)

\* The file that grows never brings those that are complete over the limit of all
\* of them, though the sizes of some are known only when they end.
WithinTotal ==
    imp.pc \in {"ask", "body", "check", "count"} => imp.total + LenOf(Here) <= MaxTotalBytes

\* Neither a file nor all of them exceed their limits at any moment, even by a byte.
WithinLimits == TypeOK /\ WithinTotal

\* What the server sends of a file is what its hash and its size say.
Sound(s) ==
    /\ s.path # Junk /\ s.sha # None
    /\ s.content = s.sha /\ s.length = Size(s) /\ s.length = Whole[s.sha]

\* What has been downloaded of a file with a hash stays, however often the import
\* is interrupted, as long as the server honours ranges and sends what is right.
KeptForResume ==
    [][\A s \in Range(remote) :
         Sound(s) /\ ranges = "honoured" /\ wrong' = {} /\ ~changed'
            => LenOf(disk[Folded(s.path)]) <= LenOf(disk'[Folded(s.path)])]_vars

\* What the server sends is within the limits and is what its answer says.
Feasible(info) ==
    /\ Accepted(info)
    /\ \A s \in Range(info) :
         /\ s.length <= MaxFileBytes
         /\ Size(s) # None => s.length = Size(s)
         /\ s.sha # None => s.content = s.sha /\ s.length = Whole[s.sha]
    /\ FoldLeft(LAMBDA n, s : n + s.length, 0, info) <= MaxTotalBytes

\* The answer has changed, and what an attempt for the old one left is in the way.
Blocked == changed /\ imp.pc = "idle" /\ ~Contained(Files(remote))

\* Nothing that an attempt leaves behind keeps the next ones from succeeding, whatever the
\* server makes of ranges, unless it names a file where it had named a directory, or the
\* reverse.
Promoted == <>[](Feasible(remote)) => <>(promoted \/ Blocked)
=============================================================================
