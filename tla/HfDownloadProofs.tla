--------------------------- MODULE HfDownloadProofs ---------------------------
(***************************************************************************)
(* What is proved of HfDownload, for any answers of the API, any troubles  *)
(* and any number of imports: what is promoted is what was asked for, the  *)
(* limits hold at every byte, and what was downloaded of a file with a     *)
(* hash is not downloaded again.                                           *)
(***************************************************************************)
EXTENDS HfDownload, FiniteSetTheorems, TLAPS

FileRecs == [path : Paths, size : Nat \cup {None}, sha : Contents \cup {None}]
Pcs == {"idle", "prune", "stage", "record", "next", "copy", "get", "ask", "body", "check", "count", "promote", "done"}
Imports == [pc : Pcs, files : Seq(FileRecs), prev : Records \cup {None}, i : Nat, start : Nat, received : Nat,
            body : Siblings \cup {None}, total : 0..MaxTotalBytes]

-----------------------------------------------------------------------------
(***************************************************************************)
(* The manifest: its files are siblings of the answer, none of which the   *)
(* filesystem takes for another.                                           *)
(***************************************************************************)
Unhashed(p) == \E s \in Siblings : s.path = p /\ s.sha = None

Manifest(files) ==
    /\ files \in Seq(FileRecs) /\ Len(files) >= 1
    /\ \A k \in 1..Len(files) : files[k].size # None => files[k].size <= MaxFileBytes
    /\ \A k \in 1..Len(files) : \E s \in Siblings :
          s.path = files[k].path /\ s.sha = files[k].sha /\ Size(s) = files[k].size
    /\ \A k, l \in 1..Len(files) : Folded(files[k].path) = Folded(files[l].path) => k = l

\* They are siblings of this answer, and the answer has no two that are alike.
IsFrom(f, s) == s.path = f.path /\ s.sha = f.sha /\ Size(s) = f.size

From(files, info) ==
    /\ \A k \in 1..Len(files) : \E s \in Range(info) : IsFrom(files[k], s)
    /\ \A s, t \in Range(info) : Folded(s.path) = Folded(t.path) => s = t

LEMMA SiblingIs ==
    ASSUME NEW s \in Siblings
    PROVE  /\ s.path \in {Junk} \cup Seq(DOMAIN Fold) /\ s.size \in Nat \cup {None} /\ s.lfsSize \in Nat \cup {None}
           /\ s.sha \in Contents \cup {None} /\ s.length \in Nat /\ s.content \in Contents
           /\ Size(s) \in Nat \cup {None}
<1> DEFINE R == [path : {Junk} \cup Seq(DOMAIN Fold), size : Nat \cup {None}, lfsSize : Nat \cup {None},
                 sha : Contents \cup {None}, length : Nat, content : Contents]
<1>1. PICK info \in Infos : s \in Range(info)
  BY DEF Siblings
<1>2. info \in Seq(R)
  BY InfosAssumption
<1>3. s \in R
  <2> HIDE DEF R
  <2> QED  BY <1>1, <1>2 DEF Range
<1> QED  BY <1>3 DEF Size

LEMMA LimitsAre == MaxFiles \in Nat /\ MaxDepth \in Nat /\ MaxFileBytes \in Nat /\ MaxTotalBytes \in Nat
BY LimitsAssumption

\* The rank of the positions that are kept is their place in the list.
LEMMA RankIs ==
    ASSUME NEW n \in Nat, NEW I, I \subseteq 1..n
    PROVE  /\ Cardinality(I) \in Nat
           /\ \A k \in 1..Cardinality(I) : \E i \in I : Rank(I, i) = k
           /\ \A i \in I : Rank(I, i) \in 1..Cardinality(I)
<1>1. IsFiniteSet(I)
  <2>1. 1 \in Int /\ n \in Int
    OBVIOUS
  <2>2. IsFiniteSet(1..n)
    BY <2>1, FS_Interval, Zenon
  <2> QED  BY <2>2, FS_Subset
<1> DEFINE Up(i) == {j \in I : j <= i}
<1>2. \A i : IsFiniteSet(Up(i)) /\ Cardinality(Up(i)) \in Nat /\ Cardinality(Up(i)) <= Cardinality(I)
  <2>1. \A i : Up(i) \subseteq I
    OBVIOUS
  <2> HIDE DEF Up
  <2> QED  BY <1>1, <2>1, FS_Subset, FS_CardinalityType
<1>3. Cardinality(I) \in Nat
  BY <1>1, FS_CardinalityType
<1>4. \A i \in I : Cardinality(Up(i)) \in 1..Cardinality(I)
  <2> SUFFICES ASSUME NEW i \in I  PROVE Cardinality(Up(i)) # 0
    BY <1>2, <1>3
  <2>1. i \in Up(i)
    OBVIOUS
  <2> HIDE DEF Up
  <2> QED  BY <1>2, <2>1, FS_EmptySet
<1>5. ASSUME NEW i \in I, NEW j \in I, i < j  PROVE Cardinality(Up(i)) < Cardinality(Up(j))
  <2>1. Up(i) \subseteq Up(j) /\ j \in Up(j) /\ j \notin Up(i)
    <3>1. \A k \in I : k \in Int
      OBVIOUS
    <3>2. \A k \in I : k <= i => k <= j
      BY <1>5, <3>1
    <3>3. j <= j /\ ~(j <= i)
      BY <1>5, <3>1
    <3> QED  BY <3>2, <3>3
  <2> HIDE DEF Up
  <2>2. Cardinality(Up(i)) <= Cardinality(Up(j)) /\ Cardinality(Up(i)) # Cardinality(Up(j))
    BY <1>2, <2>1, FS_Subset
  <2> QED  BY <1>2, <2>2
<1>6. \A i, j \in I : Cardinality(Up(i)) = Cardinality(Up(j)) => i = j
  <2> SUFFICES ASSUME NEW i \in I, NEW j \in I, Cardinality(Up(i)) = Cardinality(Up(j))  PROVE i = j
    OBVIOUS
  <2>1. ~(i < j) /\ ~(j < i)
    <3> HIDE DEF Up
    <3> QED  BY <1>2, <1>5
  <2> QED  BY <2>1
<1>7. \A k \in 1..Cardinality(I) : \E i \in I : Cardinality(Up(i)) = k
  <2> DEFINE f == [i \in I |-> Cardinality(Up(i))]
             c == Cardinality(I)
  <2>1. f \in Injection(I, 1..c)
    <3> HIDE DEF Up, c
    <3>1. \A i \in I : Cardinality(Up(i)) \in 1..c
      BY <1>4 DEF c
    <3> QED  BY <1>6, <3>1 DEF Injection, IsInjective
  <2>2. IsFiniteSet(1..c) /\ Cardinality(1..c) = c
    <3>1. 1 \in Int /\ c \in Int /\ (c >= 1 \/ c = 0) /\ c \in Nat
      BY <1>3
    <3> HIDE DEF c
    <3>2. IsFiniteSet(1..c) /\ Cardinality(1..c) = IF 1 > c THEN 0 ELSE c - 1 + 1
      BY <3>1, FS_Interval, Zenon
    <3> QED  BY <3>1, <3>2
  <2>3. f \in Surjection(I, 1..c)
    <3> HIDE DEF f
    <3> QED  BY <2>1, <2>2, FS_Injection
  <2> HIDE DEF c
  <2>4. \A k \in 1..c : \E i \in I : f[i] = k
    BY <2>3 DEF Surjection
  <2> QED  BY <2>4 DEF c
<1> QED  BY <1>3, <1>4, <1>7, Zenon DEF Rank

LEMMA PathIsPrefix ==
    ASSUME NEW S, NEW p \in Seq(S)
    PROVE  p \in Prefixes(p)
<1>1. Len(p) \in 0..Len(p) /\ SubSeq(p, 1, Len(p)) = p
  OBVIOUS
<1> QED  BY <1>1, Zenon DEF Prefixes

\* What validateManifest accepts.
LEMMA AcceptedIs ==
    ASSUME NEW info \in Infos, Accepted(info)
    PROVE  Manifest(Files(info)) /\ From(Files(info), info)
<1> DEFINE kept == {i \in DOMAIN info : info[i].path # Skip}
           at(n) == CHOOSE i \in kept : Rank(kept, i) = n
           c == Cardinality(kept)
           F == Files(info)
           N == Len(info)
<1>1. N \in Nat /\ DOMAIN info = 1..N /\ \A i \in 1..N : info[i] \in Siblings
  <2>1. info \in Seq([path : {Junk} \cup Seq(DOMAIN Fold), size : Nat \cup {None}, lfsSize : Nat \cup {None},
                 sha : Contents \cup {None}, length : Nat, content : Contents])
    BY InfosAssumption
  <2>2. N \in Nat /\ DOMAIN info = 1..N
    BY <2>1
  <2>3. \A i \in 1..N : info[i] \in Siblings
    BY <2>2 DEF Range, Siblings
  <2> QED  BY <2>2, <2>3
<1> HIDE DEF N
<1>2. kept \subseteq 1..N
  BY <1>1
<1>3. /\ c \in Nat
      /\ \A k \in 1..c : \E i \in kept : Rank(kept, i) = k
  <2> HIDE DEF kept
  <2> QED  BY <1>1, <1>2, RankIs
<1>4. \A k \in 1..c : at(k) \in kept /\ Rank(kept, at(k)) = k
  <2> HIDE DEF kept
  <2> QED  BY <1>3
<1>5. F = [n \in 1..c |-> [path |-> info[at(n)].path, size |-> Size(info[at(n)]), sha |-> info[at(n)].sha]]
  BY DEF Files
<1>a. /\ \A i \in 1..N : SiblingOk(info[i])
      /\ \A i, j \in 1..N : i < j => ~Alias(info[i].path, info[j].path)
      /\ F # <<>>
  BY <1>1, Zenon DEF Accepted
<1>k. \A k \in 1..c : at(k) \in 1..N /\ info[at(k)].path # Skip
  <2> HIDE DEF at
  <2> QED  BY <1>1, <1>4
<1> HIDE DEF kept, at, c, F
<1>6. ASSUME NEW k \in 1..c
      PROVE  /\ F[k] \in FileRecs
             /\ F[k].path = info[at(k)].path /\ F[k].size = Size(info[at(k)]) /\ F[k].sha = info[at(k)].sha
             /\ info[at(k)] \in Siblings
             /\ F[k].size # None => F[k].size <= MaxFileBytes
  <2> DEFINE s == info[at(k)]
  <2>1. s \in Siblings /\ SiblingOk(s) /\ s.path # Skip
    BY <1>1, <1>a, <1>k
  <2>2. F[k] = [path |-> s.path, size |-> Size(s), sha |-> s.sha]
    BY <1>5
  <2> HIDE DEF s
  <2>3. s.path \in Paths
    BY <2>1 DEF Paths, SiblingOk, PathOk
  <2>4. Size(s) \in Nat \cup {None} /\ s.sha \in Contents \cup {None}
    BY <2>1, SiblingIs
  <2>5. Size(s) # None => Size(s) <= MaxFileBytes
    BY <2>1 DEF SiblingOk
  <2>6. F[k].path = s.path /\ F[k].size = Size(s) /\ F[k].sha = s.sha /\ F[k] \in FileRecs
    BY <2>2, <2>3, <2>4 DEF FileRecs
  <2> QED  BY <2>1, <2>5, <2>6 DEF s
<1>7. F \in [1..c -> FileRecs]
  BY <1>5, <1>6
<1>8. F \in Seq(FileRecs) /\ Len(F) = c /\ c >= 1
  <2>1. F \in Seq(FileRecs) /\ Len(F) = c
    BY <1>3, <1>7
  <2>2. c # 0
    BY <1>a, <2>1
  <2> QED  BY <1>3, <2>1, <2>2
<1>9. ASSUME NEW a \in 1..N, NEW b \in 1..N, Folded(info[a].path) = Folded(info[b].path)  PROVE a = b
  <2>1. \A i \in 1..N : info[i].path \in Prefixes(info[i].path)
    <3> SUFFICES ASSUME NEW i \in 1..N  PROVE info[i].path \in Prefixes(info[i].path)
      OBVIOUS
    <3>1. info[i].path \in Seq(DOMAIN Fold)
      BY <1>1, <1>a, SiblingIs DEF SiblingOk, PathOk
    <3> QED  BY <3>1, PathIsPrefix
  <2>2. \A i, j \in 1..N : Folded(info[i].path) = Folded(info[j].path) => Alias(info[i].path, info[j].path)
    BY <2>1, Zenon DEF Alias
  <2>3. Alias(info[a].path, info[b].path) /\ Alias(info[b].path, info[a].path)
    BY <1>9, <2>2
  <2>4. ~(a < b) /\ ~(b < a)
    BY <1>a, <2>3
  <2> QED  BY <1>1, <2>4
<1>10. ASSUME NEW k \in 1..c, NEW l \in 1..c, Folded(F[k].path) = Folded(F[l].path)  PROVE k = l
  <2>1. at(k) = at(l)
    BY <1>6, <1>9, <1>10, <1>k
  <2> QED  BY <1>4, <2>1
<1>11. \A i \in 1..N : info[i] \in Range(info)
  BY <1>1 DEF Range
<1>12. \A s \in Range(info) : \E i \in 1..N : s = info[i]
  BY <1>1 DEF Range
<1>13. From(F, info)
  <2>1. ASSUME NEW k \in 1..c  PROVE \E s \in Range(info) : IsFrom(F[k], s)
    BY <1>6, <1>11, <1>k DEF IsFrom
  <2>2. ASSUME NEW s \in Range(info), NEW t \in Range(info), Folded(s.path) = Folded(t.path)  PROVE s = t
    BY <1>9, <1>12, <2>2
  <2> QED  BY <1>8, <2>1, <2>2 DEF From
<1>14. Manifest(F)
  BY <1>6, <1>8, <1>10 DEF Manifest
<1> QED  BY <1>13, <1>14 DEF F

-----------------------------------------------------------------------------
(***************************************************************************)
(* The invariant.                                                          *)
(***************************************************************************)
\* All the bytes of a small file that was received whole, or as far as it was.
Intact(p, d) == d.len = Truth(p).length /\ (d.len > 0 => d.of = Truth(p).content)
Part(p, d) == d.len <= Truth(p).length /\ (d.len > 0 => d.of = Truth(p).content)

\* What staging leaves of a file, and what is there when it has been counted.
Staged(f, d, w) ==
    f.sha = None /\ d # None => /\ f.size # None
                                /\ d.len < f.size \/ (f.path \notin w => Intact(f.path, d))

Counted(f, d, w) ==
    /\ d # None /\ d.path = f.path
    /\ f.size # None => d.len = f.size
    /\ f.sha # None => Hashes(d, f)
    /\ f.sha = None /\ f.path \notin w => Intact(f.path, d)

Recorded(r, w) ==
    r # None => \A p \in DOMAIN r : r[p].blob # None /\ Unhashed(p) /\ p \notin w => Intact(p, r[p].blob)

OnDisk(dk, w) ==
    /\ dk \in [Places -> Blobs \cup {None}]
    /\ \A l \in Places : dk[l] # None => /\ Folded(dk[l].path) = l /\ dk[l].len <= MaxFileBytes
                                         /\ Unhashed(dk[l].path) /\ dk[l].path \notin w => Part(dk[l].path, dk[l])

Types ==
    /\ remote \in Infos /\ imp \in Imports
    /\ rec \in Records \cup {None} /\ wrong \subseteq Paths /\ troubles \in 0..TroublesMax
    /\ OnDisk(disk, wrong)
    /\ Recorded(rec, wrong) /\ Recorded(imp.prev, wrong)
    /\ imp.pc = "idle" => imp = NoImport

\* Files that are on the disk are those of the manifest, and the first of them are counted.
Listed(dk, fs) == \A l \in Places : dk[l] # None => \E k \in 1..Len(fs) : fs[k].path = dk[l].path

At(k) == disk[Folded(imp.files[k].path)]

Before == {"next", "copy", "get"}
During == {"ask", "body", "check", "count"}

Along ==
    imp.pc # "idle" =>
        /\ Manifest(imp.files)
        /\ imp.pc = "prune" => imp.i = 0
        /\ imp.pc # "prune" => Listed(disk, imp.files) /\ imp.i \in 1..Len(imp.files)
        /\ imp.pc = "stage" => \A k \in 1..Len(imp.files) : k < imp.i => Staged(imp.files[k], At(k), wrong)
        /\ imp.pc = "record" => imp.i = 1 /\ \A k \in 1..Len(imp.files) : Staged(imp.files[k], At(k), wrong)
        /\ imp.pc \in Before \cup During =>
             /\ rec # None
             /\ \A k \in 1..Len(imp.files) : /\ k < imp.i => Counted(imp.files[k], At(k), wrong)
                                             /\ k > imp.i => Staged(imp.files[k], At(k), wrong)
        /\ imp.pc = "promote" => \A k \in 1..Len(imp.files) : Counted(imp.files[k], At(k), wrong)

\* The file whose turn it is.
AtFile ==
    /\ imp.pc \in Before => Staged(File, Here, wrong)
    /\ imp.pc = "copy" => LET pub == Published[Place]
                          IN  /\ File.sha # None /\ pub # None /\ pub.path = File.path
                              /\ pub.len = File.size /\ (pub.len > 0 => pub.of = File.sha)
    /\ imp.pc \in During => (File.size # None => File.size <= Budget) /\ LenOf(Here) <= Cap
    /\ imp.pc = "ask" => /\ imp.start > 0 => Here # None /\ Here.len = imp.start /\ File.size # None
                         /\ imp.start = 0 => Here = None
    /\ imp.pc = "body" => /\ Here # None /\ Here.len = imp.received
                          /\ imp.body \in Siblings /\ imp.body.path = File.path
    /\ imp.pc = "check" => Here # None /\ (Unhashed(File.path) /\ File.path \notin wrong => Intact(File.path, Here))
    /\ imp.pc = "count" => Counted(File, Here, wrong)

Ended == (promoted <=> imp.pc = "done") /\ PromotedExact

FillInv == Types /\ Along /\ AtFile /\ Ended

-----------------------------------------------------------------------------
(***************************************************************************)
(* What the files are.                                                     *)
(***************************************************************************)
LEMMA TruthIs ==
    ASSUME NEW s \in Siblings, Unhashed(s.path)
    PROVE  /\ s.sha = None /\ Truth(s.path).length = s.length /\ Truth(s.path).content = s.content
           /\ Size(s) = 0 => s.length = 0
<1>1. PICK t \in Siblings : t.path = s.path /\ t.sha = None
  BY DEF Unhashed
<1>2. s.sha = None
  BY <1>1, CommitAssumption
<1>3. Truth(s.path) \in Siblings /\ Truth(s.path).path = s.path
  BY DEF Truth
<1>4. Size(s) = 0 => s.length = 0
  BY <1>2, CommitAssumption
<1> HIDE DEF Truth
<1> QED  BY <1>2, <1>3, <1>4, CommitAssumption DEF Truth

LEMMA TruthType ==
    ASSUME NEW p \in Paths
    PROVE  Truth(p).length \in Nat /\ Truth(p).content \in Contents
<1>1. Truth(p) \in Siblings
  BY DEF Truth, Paths
<1> QED  BY <1>1, SiblingIs

LEMMA UnhashedIs ==
    ASSUME NEW fs, Manifest(fs), NEW k \in 1..Len(fs)
    PROVE  /\ fs[k] \in FileRecs
           /\ fs[k].path \in Paths /\ fs[k].size \in Nat \cup {None} /\ fs[k].sha \in Contents \cup {None}
           /\ fs[k].size # None => fs[k].size <= MaxFileBytes
           /\ fs[k].sha = None <=> Unhashed(fs[k].path)
           /\ fs[k].sha = None /\ fs[k].size = 0 => Truth(fs[k].path).length = 0
           /\ Folded(fs[k].path) \in Places
<1>1. fs[k] \in FileRecs
  BY DEF Manifest
<1>2. PICK s \in Siblings : s.path = fs[k].path /\ s.sha = fs[k].sha /\ Size(s) = fs[k].size
  BY DEF Manifest
<1>3. fs[k].sha = None <=> Unhashed(fs[k].path)
  BY <1>2, TruthIs DEF Unhashed
<1>4. fs[k].sha = None /\ fs[k].size = 0 => Truth(fs[k].path).length = 0
  BY <1>2, <1>3, TruthIs
<1>5. fs[k].path \in Paths /\ fs[k].size \in Nat \cup {None} /\ fs[k].sha \in Contents \cup {None}
  BY <1>1 DEF FileRecs
<1>6. Folded(fs[k].path) \in Places
  BY <1>5 DEF Places
<1>7. fs[k].size # None => fs[k].size <= MaxFileBytes
  BY DEF Manifest
<1> QED  BY <1>1, <1>3, <1>4, <1>5, <1>6, <1>7

LEMMA ImpIs ==
    ASSUME NEW r \in Imports
    PROVE  /\ r.pc \in Pcs /\ r.files \in Seq(FileRecs) /\ r.prev \in Records \cup {None} /\ r.i \in Nat
           /\ r.start \in Nat /\ r.received \in Nat /\ r.body \in Siblings \cup {None} /\ r.total \in 0..MaxTotalBytes
BY DEF Imports

LEMMA NoImportIs == NoImport \in Imports /\ NoImport.pc = "idle" /\ NoImport.prev = None
<1>1. <<>> \in Seq(FileRecs) /\ 0 \in 0..MaxTotalBytes /\ "idle" \in Pcs
  BY LimitsAre, SMTT(60) DEF Pcs
<1> QED  BY <1>1 DEF NoImport, Imports

\* The file whose turn it is, and what is there of it.
LEMMA HereIs ==
    ASSUME Types, Along, imp.pc \notin {"idle", "prune"}
    PROVE  /\ Manifest(imp.files) /\ imp.i \in 1..Len(imp.files) /\ Len(imp.files) \in Nat
           /\ File = imp.files[imp.i] /\ Here = At(imp.i)
           /\ File \in FileRecs /\ File.path \in Paths /\ File.size \in Nat \cup {None} /\ File.sha \in Contents \cup {None}
           /\ File.size # None => File.size <= MaxFileBytes
           /\ File.sha = None <=> Unhashed(File.path)
           /\ File.sha = None /\ File.size = 0 => Truth(File.path).length = 0
           /\ Place \in Places /\ Place = Folded(File.path) /\ Here = disk[Place] /\ Here \in Blobs \cup {None}
           /\ Here # None => /\ Here.path = File.path /\ Here.len \in Nat /\ Here.len <= MaxFileBytes
                             /\ Here.of \in Contents
           /\ LenOf(Here) \in Nat /\ LenOf(Here) <= MaxFileBytes
<1>1. Manifest(imp.files) /\ imp.i \in 1..Len(imp.files) /\ Listed(disk, imp.files)
  BY DEF Along
<1>2. Len(imp.files) \in Nat
  BY <1>1 DEF Manifest
<1>3. /\ File \in FileRecs /\ File.path \in Paths /\ File.size \in Nat \cup {None} /\ File.sha \in Contents \cup {None}
      /\ File.size # None => File.size <= MaxFileBytes
      /\ File.sha = None <=> Unhashed(File.path)
      /\ File.sha = None /\ File.size = 0 => Truth(File.path).length = 0
      /\ Place \in Places
  BY <1>1, UnhashedIs DEF File, Place
<1>4. Here \in Blobs \cup {None} /\ (Here # None => Folded(Here.path) = Place /\ Here.len <= MaxFileBytes)
  BY <1>3 DEF Types, OnDisk, Here
<1>5. Here # None => Here.path = File.path
  <2> SUFFICES ASSUME Here # None  PROVE Here.path = File.path
    OBVIOUS
  <2>1. PICK k \in 1..Len(imp.files) : imp.files[k].path = Here.path
    BY <1>1, <1>3 DEF Listed, Here
  <2>2. Folded(imp.files[k].path) = Folded(imp.files[imp.i].path)
    BY <1>4, <2>1 DEF Place, File
  <2>3. k = imp.i
    BY <1>1, <2>2 DEF Manifest
  <2> QED  BY <2>1, <2>3 DEF File
<1>6. Here # None => Here.len \in Nat /\ Here.of \in Contents
  BY <1>4 DEF Blobs
<1>7. File = imp.files[imp.i] /\ Here = At(imp.i) /\ Place = Folded(File.path) /\ Here = disk[Place]
  BY DEF File, Here, Place, At
<1>8. LenOf(Here) \in Nat /\ LenOf(Here) <= MaxFileBytes
  BY <1>4, <1>6, LimitsAre DEF LenOf
<1> QED  BY <1>1, <1>2, <1>3, <1>4, <1>5, <1>6, <1>7, <1>8

LEMMA WrongGrows ==
    ASSUME NEW w, NEW v, w \subseteq v
    PROVE  /\ \A f, d : Staged(f, d, w) => Staged(f, d, v)
           /\ \A f, d : Counted(f, d, w) => Counted(f, d, v)
           /\ \A r : Recorded(r, w) => Recorded(r, v)
           /\ \A dk : OnDisk(dk, w) => OnDisk(dk, v)
BY DEF Staged, Counted, Recorded, OnDisk

\* A file with its new content.
Fits(p, d, w) ==
    d # None => d.path = p /\ d.len <= MaxFileBytes /\ (Unhashed(p) /\ p \notin w => Part(p, d))

With(dk, p, d) == [dk EXCEPT ![Folded(p)] = d]

LEMMA DiskIs ==
    ASSUME NEW dk, NEW w, OnDisk(dk, w), NEW p \in Paths, NEW d \in Blobs \cup {None}, NEW v, w \subseteq v,
           Fits(p, d, v)
    PROVE  /\ OnDisk(With(dk, p, d), v) /\ With(dk, p, d)[Folded(p)] = d
           /\ \A l \in Places \ {Folded(p)} : With(dk, p, d)[l] = dk[l]
<1> DEFINE ek == With(dk, p, d)
<1>1. Folded(p) \in Places
  BY DEF Places
<1>2. dk \in [Places -> Blobs \cup {None}]
  BY DEF OnDisk
<1>3. ek \in [Places -> Blobs \cup {None}] /\ ek[Folded(p)] = d /\ \A l \in Places \ {Folded(p)} : ek[l] = dk[l]
  BY <1>1, <1>2 DEF With
<1> HIDE DEF ek
<1>4. ASSUME NEW l \in Places, ek[l] # None
      PROVE  /\ Folded(ek[l].path) = l /\ ek[l].len <= MaxFileBytes
             /\ Unhashed(ek[l].path) /\ ek[l].path \notin v => Part(ek[l].path, ek[l])
  <2>1. CASE l = Folded(p)
    BY <1>3, <1>4, <2>1 DEF Fits
  <2>2. CASE l # Folded(p)
    BY <1>3, <1>4, <2>2 DEF OnDisk
  <2> QED  BY <2>1, <2>2
<1>5. OnDisk(ek, v)
  BY <1>3, <1>4 DEF OnDisk
<1> QED  BY <1>3, <1>5 DEF ek

\* An import that fails leaves files that a later one can go on from.
LEMMA FailKeeps ==
    ASSUME FillInv, imp.pc # "done", imp' = NoImport, OnDisk(disk', wrong'), wrong \subseteq wrong', wrong' \subseteq Paths,
           remote' \in Infos, rec' = rec, troubles' \in 0..TroublesMax, promoted' = promoted
    PROVE  FillInv'
<1>1. Types'
  <2>1. Recorded(rec', wrong') /\ Recorded(None, wrong')
    BY WrongGrows DEF FillInv, Types, Recorded
  <2> QED  BY <2>1, NoImportIs DEF FillInv, Types
<1>2. imp'.pc = "idle"
  BY NoImportIs
<1>3. Along'
  BY <1>2 DEF Along
<1>4. AtFile'
  BY <1>2 DEF AtFile, Before, During
<1>5. Ended'
  BY <1>2 DEF FillInv, Ended, PromotedExact
<1> QED  BY <1>1, <1>3, <1>4, <1>5 DEF FillInv

\* A step of the file whose turn it is leaves the others as they are.
LEMMA FileKeeps ==
    ASSUME FillInv, imp.pc \in Before \cup During, NEW d \in Blobs \cup {None}, Fits(File.path, d, wrong'),
           disk' = [disk EXCEPT ![Place] = d],
           imp' \in Imports, imp'.pc \in Before \cup During, imp'.files = imp.files, imp'.i = imp.i, imp'.prev = imp.prev,
           remote' \in Infos, rec' = rec, wrong \subseteq wrong', wrong' \subseteq Paths, troubles' \in 0..TroublesMax,
           promoted' = promoted
    PROVE  Types' /\ Along' /\ Ended' /\ File' = File /\ Place' = Place /\ Here' = d
<1>t. Types /\ Along /\ Ended
  BY DEF FillInv
<1>1. /\ Manifest(imp.files) /\ imp.i \in 1..Len(imp.files) /\ File.path \in Paths /\ Place = Folded(File.path)
      /\ File = imp.files[imp.i]
  BY <1>t, HereIs DEF Before, During
<1>2. OnDisk(disk', wrong') /\ disk'[Place] = d /\ \A l \in Places \ {Place} : disk'[l] = disk[l]
  <2>1. OnDisk(disk, wrong)
    BY <1>t DEF Types
  <2>2. disk' = With(disk, File.path, d)
    BY <1>1 DEF With
  <2>3. ASSUME NEW p \in Paths, Fits(p, d, wrong')
        PROVE  /\ OnDisk(With(disk, p, d), wrong') /\ With(disk, p, d)[Folded(p)] = d
               /\ \A l \in Places \ {Folded(p)} : With(disk, p, d)[l] = disk[l]
    BY <2>1, <2>3, DiskIs, SMTT(60)
  <2>4. /\ OnDisk(disk', wrong') /\ disk'[Folded(File.path)] = d
        /\ \A l \in Places \ {Folded(File.path)} : disk'[l] = disk[l]
    BY <1>1, <2>2, <2>3, ZenonT(60)
  <2> QED  BY <1>1, <2>4
<1>3. File' = File /\ Place' = Place /\ Here' = d
  BY <1>2 DEF File, Place, Here
<1>p. imp'.pc \notin {"idle", "prune", "stage", "record", "promote", "done"} /\ imp.pc \notin {"idle", "done", "prune"}
  BY DEF Before, During
<1>4. Types'
  <2>1. Recorded(rec', wrong') /\ Recorded(imp'.prev, wrong')
    BY <1>t, WrongGrows DEF Types
  <2> QED  BY <1>2, <1>p, <1>t, <2>1 DEF Types
<1>5. Along'
  <2>1. Listed(disk', imp'.files)
    <3> SUFFICES ASSUME NEW l \in Places, disk'[l] # None
                 PROVE  \E k \in 1..Len(imp.files) : imp.files[k].path = disk'[l].path
      BY DEF Listed
    <3>1. CASE l = Place
      <4>1. disk'[l] = d /\ d # None
        BY <1>2, <3>1
      <4>2. d.path = File.path
        BY <4>1 DEF Fits
      <4> QED  BY <1>1, <4>1, <4>2
    <3>2. CASE l # Place
      <4>1. Listed(disk, imp.files)
        BY <1>p, <1>t DEF Along
      <4> QED  BY <1>2, <3>2, <4>1 DEF Listed
    <3> QED  BY <3>1, <3>2
  <2>2. ASSUME NEW k \in 1..Len(imp.files), k # imp.i
        PROVE  disk'[Folded(imp.files[k].path)] = disk[Folded(imp.files[k].path)]
    <3>1. Folded(imp.files[k].path) \in Places
      BY <1>1, UnhashedIs
    <3>2. Folded(imp.files[k].path) # Place
      BY <1>1, <2>2 DEF Manifest
    <3> QED  BY <1>2, <3>1, <3>2
  <2>3. rec' # None
    BY <1>t DEF Along, Before, During
  <2>4. \A k \in 1..Len(imp'.files) :
           /\ k < imp'.i => Counted(imp'.files[k], disk'[Folded(imp'.files[k].path)], wrong')
           /\ k > imp'.i => Staged(imp'.files[k], disk'[Folded(imp'.files[k].path)], wrong')
    <3> SUFFICES ASSUME NEW k \in 1..Len(imp.files)
                 PROVE  /\ k < imp.i => Counted(imp.files[k], disk'[Folded(imp.files[k].path)], wrong')
                        /\ k > imp.i => Staged(imp.files[k], disk'[Folded(imp.files[k].path)], wrong')
      OBVIOUS
    <3>1. /\ k < imp.i => Counted(imp.files[k], At(k), wrong)
          /\ k > imp.i => Staged(imp.files[k], At(k), wrong)
      BY <1>p, <1>t DEF Along
    <3>2. k # imp.i => disk'[Folded(imp.files[k].path)] = At(k)
      BY <2>2 DEF At
    <3>3. k < imp.i => k # imp.i
      BY <1>1
    <3>4. k > imp.i => k # imp.i
      BY <1>1
    <3> QED  BY <3>1, <3>2, <3>3, <3>4, WrongGrows
  <2> QED  BY <1>1, <1>p, <2>1, <2>3, <2>4 DEF Along, At
<1>6. Ended'
  BY <1>p, <1>t DEF Ended, PromotedExact
<1> QED  BY <1>3, <1>4, <1>5, <1>6


\* What is there of the file stays.
LEMMA FileStays ==
    ASSUME FillInv, imp.pc \in Before \cup During, disk' = disk,
           imp' \in Imports, imp'.pc \in Before \cup During, imp'.files = imp.files, imp'.i = imp.i, imp'.prev = imp.prev,
           remote' \in Infos, rec' = rec, wrong \subseteq wrong', wrong' \subseteq Paths, troubles' \in 0..TroublesMax,
           promoted' = promoted
    PROVE  Types' /\ Along' /\ Ended' /\ File' = File /\ Place' = Place /\ Here' = Here
<1>1. /\ Place \in Places /\ Here = disk[Place] /\ Here \in Blobs \cup {None} /\ Place = Folded(File.path)
      /\ Here # None => Here.path = File.path /\ Here.len <= MaxFileBytes
  BY HereIs DEF FillInv, Before, During
<1>2. OnDisk(disk, wrong)
  BY DEF FillInv, Types
<1>3. disk' = [disk EXCEPT ![Place] = Here]
  BY <1>1, <1>2 DEF OnDisk
<1>4. Fits(File.path, Here, wrong')
  <2> SUFFICES ASSUME Here # None, Unhashed(Here.path), Here.path \notin wrong'  PROVE Part(Here.path, Here)
    BY <1>1, Zenon DEF Fits
  <2> QED  BY <1>1, <1>2 DEF OnDisk
<1> QED  BY <1>1, <1>3, <1>4, FileKeeps

\* What is left of the limits.
LEMMA CapIs ==
    ASSUME Types, Along, imp.pc \notin {"idle", "prune"}
    PROVE  /\ Budget \in Nat /\ Cap \in Nat
           /\ imp.total \in Nat /\ Budget = MaxTotalBytes - imp.total
           /\ File.size # None => Cap = File.size
           /\ File.size = None => Cap <= Budget /\ Cap <= MaxFileBytes
           /\ Cap <= MaxFileBytes
<1>1. imp.total \in Nat /\ imp.total <= MaxTotalBytes
  BY LimitsAre, ImpIs DEF Types
<1>2. Budget \in Nat /\ Budget = MaxTotalBytes - imp.total
  BY <1>1, LimitsAre DEF Budget
<1>3. File.size \in Nat \cup {None} /\ (File.size # None => File.size <= MaxFileBytes)
  BY HereIs
<1>4. CASE File.size = None
  <2> DEFINE b == Budget
  <2>1. Cap = Min({MaxFileBytes, b})
    BY <1>4 DEF Cap
  <2>2. b \in Nat
    BY <1>2
  <2> HIDE DEF b
  <2>3. Min({MaxFileBytes, b}) \in {MaxFileBytes, b} /\ Min({MaxFileBytes, b}) <= b /\ Min({MaxFileBytes, b}) <= MaxFileBytes
    <3>1. \E x \in {MaxFileBytes, b} : \A y \in {MaxFileBytes, b} : x <= y
      BY <2>2, LimitsAre
    <3>2. /\ Min({MaxFileBytes, b}) \in {MaxFileBytes, b}
          /\ \A y \in {MaxFileBytes, b} : Min({MaxFileBytes, b}) <= y
      BY <3>1 DEF Min
    <3> QED  BY <3>2
  <2> QED  BY <1>1, <1>2, <1>4, <2>1, <2>2, <2>3, LimitsAre DEF b
<1>5. CASE File.size # None
  BY <1>1, <1>2, <1>3, <1>5 DEF Cap
<1> QED  BY <1>4, <1>5

-----------------------------------------------------------------------------
(***************************************************************************)
(* The import, with some of its fields changed.                            *)
(***************************************************************************)
\* It is at the same file.
SameFile(r, q) == q.files = r.files /\ q.i = r.i /\ q.prev = r.prev /\ q.total = r.total

LEMMA PcIs ==
    ASSUME NEW r \in Imports, NEW p \in Pcs, NEW q, q = [r EXCEPT !.pc = p]
    PROVE  q \in Imports /\ q.pc = p /\ SameFile(r, q) /\ q.start = r.start /\ q.received = r.received /\ q.body = r.body
BY DEF Imports, SameFile

Asks(r, s) == [r EXCEPT !.pc = "ask", !.start = s]
Gets(r, b, s, n) == [r EXCEPT !.pc = "body", !.body = b, !.start = s, !.received = n]
Stages(r, p, i, v) == [r EXCEPT !.pc = p, !.i = i, !.prev = v]
Prunes(r, v) == [r EXCEPT !.pc = "stage", !.prev = v, !.i = 1]
Noted(r) == [r EXCEPT !.pc = "next", !.prev = None]
Counts(r, p, i, t) == [r EXCEPT !.pc = p, !.i = i, !.total = t, !.start = 0, !.received = 0, !.body = None]

LEMMA AsksIs ==
    ASSUME NEW r \in Imports, NEW s \in Nat
    PROVE  Asks(r, s) \in Imports /\ Asks(r, s).pc = "ask" /\ SameFile(r, Asks(r, s)) /\ Asks(r, s).start = s
BY DEF Imports, SameFile, Asks, Pcs

LEMMA StartIs ==
    ASSUME NEW r \in Imports, NEW s \in Nat, NEW q, q = [r EXCEPT !.start = s]
    PROVE  q \in Imports /\ q.pc = r.pc /\ SameFile(r, q) /\ q.start = s
BY DEF Imports, SameFile

LEMMA ReceivedIs ==
    ASSUME NEW r \in Imports, NEW n \in Nat, NEW q, q = [r EXCEPT !.received = n]
    PROVE  q \in Imports /\ q.pc = r.pc /\ SameFile(r, q) /\ q.received = n /\ q.body = r.body
BY DEF Imports, SameFile

LEMMA GetsIs ==
    ASSUME NEW r \in Imports, NEW b \in Siblings, NEW s \in Nat, NEW n \in Nat
    PROVE  /\ Gets(r, b, s, n) \in Imports /\ Gets(r, b, s, n).pc = "body" /\ SameFile(r, Gets(r, b, s, n))
           /\ Gets(r, b, s, n).received = n /\ Gets(r, b, s, n).body = b
BY DEF Imports, SameFile, Gets, Pcs

LEMMA StagesIs ==
    ASSUME NEW r \in Imports, NEW p \in Pcs, NEW i \in Nat, NEW v \in Records \cup {None}
    PROVE  /\ Stages(r, p, i, v) \in Imports /\ Stages(r, p, i, v).pc = p /\ Stages(r, p, i, v).files = r.files
           /\ Stages(r, p, i, v).i = i /\ Stages(r, p, i, v).prev = v
BY DEF Imports, Stages

LEMMA PrunesIs ==
    ASSUME NEW r \in Imports, NEW v \in Records \cup {None}
    PROVE  /\ Prunes(r, v) \in Imports /\ Prunes(r, v).pc = "stage" /\ Prunes(r, v).files = r.files
           /\ Prunes(r, v).i = 1 /\ Prunes(r, v).prev = v
BY DEF Imports, Prunes, Pcs

LEMMA NotedIs ==
    ASSUME NEW r \in Imports
    PROVE  /\ Noted(r) \in Imports /\ Noted(r).pc = "next" /\ Noted(r).files = r.files
           /\ Noted(r).i = r.i /\ Noted(r).prev = None
BY DEF Imports, Noted, Pcs

LEMMA CountsIs ==
    ASSUME NEW r \in Imports, NEW p \in Pcs, NEW i \in Nat, NEW t \in 0..MaxTotalBytes
    PROVE  /\ Counts(r, p, i, t) \in Imports /\ Counts(r, p, i, t).pc = p /\ Counts(r, p, i, t).files = r.files
           /\ Counts(r, p, i, t).i = i /\ Counts(r, p, i, t).prev = r.prev
BY DEF Imports, Counts

-----------------------------------------------------------------------------
(***************************************************************************)
(* The file whose turn it is, action by action.                            *)
(***************************************************************************)
LEMMA CopyKeeps ==
    ASSUME FillInv, Copy
    PROVE  FillInv'
<1> DEFINE pub == Published[Place]
<1>1. /\ imp.pc = "next" /\ File.sha # None /\ Here = None
      /\ pub # None /\ pub.path = File.path /\ LenOf(pub) = File.size /\ Hashes(pub, File)
      /\ imp' = [imp EXCEPT !.pc = "copy"] /\ remote' = remote /\ rec' = rec /\ wrong' = wrong /\ troubles' = troubles
      /\ promoted' = promoted
  BY DEF Copy, Copyable, Goto, server
<1>2. PICK n \in 0..File.size - 1 : disk' = [disk EXCEPT ![Place] = [path |-> File.path, len |-> n, of |-> File.sha]]
  BY DEF Copy, Put
<1> DEFINE d == [path |-> File.path, len |-> n, of |-> File.sha]
<1>3. /\ File.path \in Paths /\ File.sha \in Contents /\ Place \in Places /\ ~Unhashed(File.path)
      /\ File.size \in Nat \cup {None} /\ (File.size # None => File.size <= MaxFileBytes)
  BY <1>1, HereIs DEF FillInv
<1>4. pub \in Blobs
  BY <1>1, <1>3, PublishedAssumption
<1>5. pub.len = File.size /\ File.size \in Nat
  BY <1>1, <1>3, <1>4 DEF LenOf, Blobs
<1>6. d \in Blobs /\ Fits(File.path, d, wrong')
  <2>1. n \in Nat /\ n <= MaxFileBytes
    BY <1>3, <1>5, NoneAssumption, LimitsAre
  <2> HIDE DEF pub
  <2>2. d \in Blobs
    BY <1>3, <2>1 DEF Blobs
  <2> QED  BY <1>3, <2>1, <2>2 DEF Fits
<1>7. imp' \in Imports /\ imp'.pc = "copy" /\ imp'.files = imp.files /\ imp'.i = imp.i /\ imp'.prev = imp.prev
  BY <1>1, PcIs DEF FillInv, Types, Pcs, SameFile
<1>8. Types' /\ Along' /\ Ended' /\ File' = File /\ Place' = Place /\ Here' = d
  <2> HIDE DEF d, pub
  <2> QED  BY <1>1, <1>2, <1>6, <1>7, FileKeeps DEF FillInv, Types, Before, During, d
<1>9. AtFile'
  <2>1. Published[Place'].len > 0 => Published[Place'].of = File.sha
    BY <1>1, <1>8 DEF Hashes
  <2> HIDE DEF d
  <2> QED  BY <1>1, <1>5, <1>7, <1>8, <2>1 DEF AtFile, Before, During, Staged, pub
<1> QED  BY <1>8, <1>9 DEF FillInv

LEMMA CopyEndsKeeps ==
    ASSUME FillInv, CopyEnds
    PROVE  FillInv'
<1> DEFINE pub == Published[Place]
<1>1. /\ imp.pc = "copy" /\ disk' = [disk EXCEPT ![Place] = pub]
      /\ imp' = [imp EXCEPT !.pc = "get"] /\ remote' = remote /\ rec' = rec /\ wrong' = wrong /\ troubles' = troubles
      /\ promoted' = promoted
  BY DEF CopyEnds, Goto, Put, server
<1>2. File.sha # None /\ pub # None /\ pub.path = File.path /\ pub.len = File.size /\ (pub.len > 0 => pub.of = File.sha)
  BY <1>1 DEF FillInv, AtFile
<1>3. /\ Place \in Places /\ ~Unhashed(File.path) /\ File.size \in Nat \cup {None}
      /\ File.size # None => File.size <= MaxFileBytes
  BY <1>1, <1>2, HereIs DEF FillInv
<1>4. pub \in Blobs
  BY <1>2, <1>3, PublishedAssumption
<1>5. Fits(File.path, pub, wrong')
  BY <1>2, <1>3, <1>4, NoneAssumption DEF Fits, Blobs
<1>6. imp' \in Imports /\ imp'.pc = "get" /\ imp'.files = imp.files /\ imp'.i = imp.i /\ imp'.prev = imp.prev
  BY <1>1, PcIs DEF FillInv, Types, Pcs, SameFile
<1>7. Types' /\ Along' /\ Ended' /\ File' = File
  <2> HIDE DEF pub
  <2> QED  BY <1>1, <1>4, <1>5, <1>6, FileKeeps DEF FillInv, Types, Before, During
<1>8. AtFile'
  BY <1>2, <1>6, <1>7 DEF AtFile, Before, During, Staged
<1> QED  BY <1>7, <1>8 DEF FillInv

LEMMA NoCopyKeeps ==
    ASSUME FillInv, NoCopy
    PROVE  FillInv'
<1>1. /\ imp.pc = "next" /\ disk' = disk
      /\ imp' = [imp EXCEPT !.pc = "get"] /\ remote' = remote /\ rec' = rec /\ wrong' = wrong /\ troubles' = troubles
      /\ promoted' = promoted
  BY DEF NoCopy, Goto, server
<1>2. imp' \in Imports /\ imp'.pc = "get" /\ imp'.files = imp.files /\ imp'.i = imp.i /\ imp'.prev = imp.prev
  BY <1>1, PcIs DEF FillInv, Types, Pcs, SameFile
<1>3. Types' /\ Along' /\ Ended' /\ File' = File /\ Here' = Here
  BY <1>1, <1>2, FileStays DEF FillInv, Types, Before, During
<1>4. AtFile'
  BY <1>1, <1>2, <1>3 DEF FillInv, AtFile, Before, During
<1> QED  BY <1>3, <1>4 DEF FillInv

\* An import that fails after it has removed the file.
LEMMA EmptyKeeps ==
    ASSUME FillInv, imp.pc \in Before \cup During, disk' = [disk EXCEPT ![Place] = None], imp' = NoImport,
           remote' \in Infos, rec' = rec, wrong \subseteq wrong', wrong' \subseteq Paths, troubles' \in 0..TroublesMax,
           promoted' = promoted
    PROVE  FillInv'
<1>1. File.path \in Paths /\ Place = Folded(File.path)
  BY HereIs DEF FillInv, Before, During
<1>2. OnDisk(disk, wrong) /\ Fits(File.path, None, wrong')
  BY DEF FillInv, Types, Fits
<1>3. ASSUME NEW p \in Paths, Fits(p, None, wrong')  PROVE OnDisk(With(disk, p, None), wrong')
  BY <1>2, <1>3, DiskIs
<1>4. OnDisk(disk', wrong')
  BY <1>1, <1>2, <1>3 DEF With
<1> QED  BY <1>4, FailKeeps DEF Before, During

LEMMA GetKeeps ==
    ASSUME FillInv, Get
    PROVE  FillInv'
<1>1. /\ imp.pc = "get" /\ remote' = remote /\ rec' = rec /\ wrong' = wrong /\ troubles' = troubles /\ promoted' = promoted
      /\ imp \in Imports /\ remote \in Infos /\ wrong \subseteq Paths /\ troubles \in 0..TroublesMax
  BY DEF Get, server, FillInv, Types
<1>2. /\ Types /\ Along /\ OnDisk(disk, wrong) /\ Staged(File, Here, wrong)
  BY <1>1 DEF FillInv, Types, AtFile, Before
<1>h. /\ File.path \in Paths /\ File.size \in Nat \cup {None} /\ File.sha \in Contents \cup {None}
      /\ File.size # None => File.size <= MaxFileBytes
      /\ File.sha = None <=> Unhashed(File.path)
      /\ File.sha = None /\ File.size = 0 => Truth(File.path).length = 0
      /\ Here # None => Here.path = File.path /\ Here.len \in Nat
      /\ LenOf(Here) \in Nat /\ LenOf(Here) <= MaxFileBytes
  BY <1>1, <1>2, HereIs
<1>c. /\ Budget \in Nat /\ Cap \in Nat /\ (File.size # None => Cap = File.size)
  BY <1>1, <1>2, CapIs
<1> DEFINE Fits0 == ~(File.size # None /\ File.size > Budget)
<1>3. CASE ~Fits0
  <2>1. imp' = NoImport /\ disk' = disk
    BY <1>3 DEF Get, Fail
  <2>2. OnDisk(disk', wrong')
    BY <1>1, <1>2, <2>1
  <2> QED  BY <1>1, <2>1, <2>2, FailKeeps
<1>f. Fits0 => (File.size # None => File.size <= Budget)
  BY <1>h, <1>c, NoneAssumption
<1> DEFINE Full0 == File.size # None /\ Here # None /\ Here.len = File.size /\ (File.sha # None => Hashes(Here, File))
<1>4. CASE Fits0 /\ Full0
  <2>1. imp' = [imp EXCEPT !.pc = "count"] /\ disk' = disk
    BY <1>4 DEF Get, Goto
  <2>2. imp' \in Imports /\ imp'.pc = "count" /\ SameFile(imp, imp')
    BY <1>1, <2>1, PcIs DEF Pcs
  <2>3. Types' /\ Along' /\ Ended' /\ File' = File /\ Here' = Here
    BY <1>1, <2>1, <2>2, FileStays DEF Before, During, SameFile
  <2>4. Counted(File, Here, wrong)
    <3>1. File.sha = None /\ File.path \notin wrong => Intact(File.path, Here)
      BY <1>2, <1>4, <1>h, NoneAssumption DEF Staged
    <3> QED  BY <1>4, <1>h, <3>1 DEF Counted
  <2>5. (File.size # None => File.size <= Budget) /\ LenOf(Here) <= Cap
    BY <1>4, <1>f, <1>h, <1>c DEF LenOf
  <2>6. Budget' = Budget /\ Cap' = Cap
    BY <2>2, <2>3 DEF Budget, Cap, SameFile
  <2>7. AtFile'
    BY <1>1, <2>2, <2>3, <2>4, <2>5, <2>6 DEF AtFile, Before, During
  <2> QED  BY <2>3, <2>7 DEF FillInv
<1>5. CASE Fits0 /\ ~Full0 /\ File.size = 0 /\ Here = None
  <2> DEFINE d == [path |-> File.path, len |-> 0, of |-> Truth(File.path).content]
  <2>1. imp' = [imp EXCEPT !.pc = "check"] /\ disk' = [disk EXCEPT ![Place] = d]
    BY <1>5 DEF Get, Goto, Put
  <2>2. imp' \in Imports /\ imp'.pc = "check" /\ SameFile(imp, imp')
    BY <1>1, <2>1, PcIs DEF Pcs
  <2>3. /\ d \in Blobs /\ Fits(File.path, d, wrong') /\ d # None /\ d.len = 0
        /\ Unhashed(File.path) => Intact(File.path, d)
    <3>1. Truth(File.path).content \in Contents /\ Truth(File.path).length \in Nat
      BY <1>h, TruthType
    <3>2. d \in Blobs /\ d.len = 0 /\ d.path = File.path
      BY <1>h, <3>1 DEF Blobs
    <3> HIDE DEF d
    <3> QED  BY <1>h, <1>5, <3>1, <3>2, NoneAssumption, LimitsAre DEF Fits, Part, Intact
  <2> HIDE DEF d
  <2>4. Types' /\ Along' /\ Ended' /\ File' = File /\ Here' = d
    BY <1>1, <2>1, <2>2, <2>3, FileKeeps DEF Before, During, SameFile
  <2>5. Budget' = Budget /\ Cap' = Cap
    BY <2>2, <2>4 DEF Budget, Cap, SameFile
  <2>6. LenOf(d) = 0 /\ 0 <= Cap
    BY <1>c, <2>3 DEF LenOf
  <2>7. AtFile'
    BY <1>1, <1>5, <1>f, <2>2, <2>3, <2>4, <2>5, <2>6 DEF AtFile, Before, During
  <2> QED  BY <2>4, <2>7 DEF FillInv
<1> DEFINE resumes == File.size # None /\ LenOf(Here) \in 1..File.size - 1
<1>6. CASE Fits0 /\ ~Full0 /\ ~(File.size = 0 /\ Here = None) /\ resumes
  <2>1. imp' = [imp EXCEPT !.pc = "ask", !.start = Here.len] /\ disk' = disk
    BY <1>6 DEF Get
  <2>0. Here # None /\ Here.len \in Nat /\ Here.len > 0 /\ LenOf(Here) = Here.len /\ Here.len <= File.size /\ File.size # None
    BY <1>6, <1>h DEF LenOf
  <2>2. imp' \in Imports /\ imp'.pc = "ask" /\ SameFile(imp, imp') /\ imp'.start = Here.len
    <3> DEFINE n == Here.len
    <3>1. n \in Nat /\ imp' = Asks(imp, n)
      BY <2>0, <2>1 DEF Asks
    <3> HIDE DEF n
    <3>2. imp' \in Imports /\ imp'.pc = "ask" /\ SameFile(imp, imp') /\ imp'.start = n
      BY <1>1, <3>1, AsksIs
    <3> QED  BY <3>2 DEF n
  <2>3. Types' /\ Along' /\ Ended' /\ File' = File /\ Here' = Here
    BY <1>1, <2>1, <2>2, FileStays DEF Before, During, SameFile
  <2>5. Budget' = Budget /\ Cap' = Cap
    BY <2>2, <2>3 DEF Budget, Cap, SameFile
  <2>6. LenOf(Here) <= Cap
    BY <1>c, <2>0
  <2>7. AtFile'
    BY <1>1, <1>6, <1>f, <2>0, <2>2, <2>3, <2>5, <2>6 DEF AtFile, Before, During
  <2> QED  BY <2>3, <2>7 DEF FillInv
<1>7. CASE Fits0 /\ ~Full0 /\ ~(File.size = 0 /\ Here = None) /\ ~resumes
  <2>1. imp' = Asks(imp, 0) /\ disk' = [disk EXCEPT ![Place] = None]
    BY <1>7 DEF Get, Put, Asks
  <2>2. imp' \in Imports /\ imp'.pc = "ask" /\ SameFile(imp, imp') /\ imp'.start = 0
    BY <1>1, <2>1, AsksIs
  <2>3. Fits(File.path, None, wrong')
    BY DEF Fits
  <2>4. Types' /\ Along' /\ Ended' /\ File' = File /\ Here' = None
    BY <1>1, <2>1, <2>2, <2>3, FileKeeps DEF Before, During, SameFile
  <2>5. Budget' = Budget /\ Cap' = Cap
    BY <2>2, <2>4 DEF Budget, Cap, SameFile
  <2>6. LenOf(None) = 0 /\ 0 <= Cap
    BY <1>c DEF LenOf
  <2>7. AtFile'
    BY <1>1, <1>7, <1>f, <2>2, <2>4, <2>5, <2>6 DEF AtFile, Before, During
  <2> QED  BY <2>4, <2>7 DEF FillInv
<1> QED  BY <1>3, <1>4, <1>5, <1>6, <1>7

LEMMA AnswerKeeps ==
    ASSUME FillInv, Answer
    PROVE  FillInv'
<1> DEFINE s == Served(File.path)
           resumes == imp.start > 0 /\ ranges = "honoured" /\ s.length = File.size
<1>1. /\ imp.pc = "ask" /\ remote' = remote /\ rec' = rec /\ wrong' = wrong /\ troubles' = troubles /\ promoted' = promoted
      /\ imp \in Imports /\ remote \in Infos /\ wrong \subseteq Paths /\ troubles \in 0..TroublesMax
      /\ IsServed(File.path)
  BY DEF Answer, server, FillInv, Types
<1>2. /\ Types /\ Along
      /\ imp.start > 0 => Here # None /\ Here.len = imp.start /\ File.size # None
      /\ imp.start = 0 => Here = None
      /\ File.size # None => File.size <= Budget
      /\ LenOf(Here) <= Cap
  BY <1>1 DEF FillInv, AtFile, During
<1>h. /\ File.path \in Paths /\ File.size \in Nat \cup {None} /\ File.sha \in Contents \cup {None}
  BY <1>1, <1>2, HereIs
<1>c. Budget \in Nat /\ Cap \in Nat
  BY <1>1, <1>2, CapIs
<1>s. s \in Siblings /\ s.path = File.path /\ s.content \in Contents
  <2>1. s \in Range(remote) /\ s.path = File.path
    BY <1>1 DEF IsServed, Served
  <2>2. s \in Siblings
    BY <1>1, <2>1 DEF Siblings
  <2> QED  BY <2>1, <2>2, SiblingIs
<1>n. imp.start \in Nat
  BY <1>1, ImpIs
<1>3. CASE imp.start > 0 /\ ranges # "ignored" /\ ~resumes
  <2>1. imp' = [imp EXCEPT !.start = 0] /\ disk' = [disk EXCEPT ![Place] = None]
    BY <1>3 DEF Answer, NotThisRange, Put
  <2>2. imp' \in Imports /\ imp'.pc = "ask" /\ SameFile(imp, imp') /\ imp'.start = 0
    BY <1>1, <2>1, StartIs
  <2>3. Fits(File.path, None, wrong')
    BY DEF Fits
  <2>4. Types' /\ Along' /\ Ended' /\ File' = File /\ Here' = None
    BY <1>1, <2>1, <2>2, <2>3, FileKeeps DEF Before, During, SameFile
  <2>5. Budget' = Budget /\ Cap' = Cap
    BY <2>2, <2>4 DEF Budget, Cap, SameFile
  <2>6. LenOf(None) = 0 /\ 0 <= Cap
    BY <1>c DEF LenOf
  <2>7. AtFile'
    BY <1>2, <2>2, <2>4, <2>5, <2>6 DEF AtFile, Before, During
  <2> QED  BY <2>4, <2>7 DEF FillInv
<1>4. CASE ~(imp.start > 0 /\ ranges # "ignored" /\ ~resumes) /\ resumes
  <2>1. imp' = Gets(imp, s, imp.start, imp.start) /\ disk' = disk
    BY <1>4 DEF Answer, Gets
  <2>2. imp' \in Imports /\ imp'.pc = "body" /\ SameFile(imp, imp') /\ imp'.received = imp.start /\ imp'.body = s
    <3> HIDE DEF s
    <3> QED  BY <1>1, <1>s, <1>n, <2>1, GetsIs, SMTT(60)
  <2>3. Types' /\ Along' /\ Ended' /\ File' = File /\ Here' = Here
    BY <1>1, <2>1, <2>2, FileStays DEF Before, During, SameFile
  <2>5. Budget' = Budget /\ Cap' = Cap
    BY <2>2, <2>3 DEF Budget, Cap, SameFile
  <2>7. AtFile'
    <3> HIDE DEF s
    <3> QED  BY <1>2, <1>4, <1>s, <2>2, <2>3, <2>5 DEF AtFile, Before, During
  <2> QED  BY <2>3, <2>7 DEF FillInv
<1>5. CASE ~(imp.start > 0 /\ ranges # "ignored" /\ ~resumes) /\ ~resumes
  <2> DEFINE d == [path |-> File.path, len |-> 0, of |-> s.content]
  <2>1. imp' = Gets(imp, s, 0, 0) /\ disk' = [disk EXCEPT ![Place] = d]
    BY <1>5 DEF Answer, Gets, Put
  <2>2. imp' \in Imports /\ imp'.pc = "body" /\ SameFile(imp, imp') /\ imp'.received = 0 /\ imp'.body = s
    <3>1. PICK z \in Nat : z = 0
      OBVIOUS
    <3>2. imp' = Gets(imp, s, z, z)
      BY <2>1, <3>1
    <3> HIDE DEF s, d
    <3>3. imp' \in Imports /\ imp'.pc = "body" /\ SameFile(imp, imp') /\ imp'.received = z /\ imp'.body = s
      BY <1>1, <1>s, <3>2, GetsIs, SMTT(60)
    <3> QED  BY <3>1, <3>3
  <2>3. d \in Blobs /\ Fits(File.path, d, wrong') /\ d # None /\ d.len = 0
    <3>1. Truth(File.path).length \in Nat
      BY <1>h, TruthType
    <3>2. d \in Blobs /\ d.len = 0 /\ d.path = File.path
      BY <1>h, <1>s DEF Blobs
    <3> HIDE DEF d
    <3> QED  BY <3>1, <3>2, NoneAssumption, LimitsAre DEF Fits, Part
  <2> HIDE DEF d
  <2>4. Types' /\ Along' /\ Ended' /\ File' = File /\ Here' = d
    BY <1>1, <2>1, <2>2, <2>3, FileKeeps DEF Before, During, SameFile
  <2>5. Budget' = Budget /\ Cap' = Cap
    BY <2>2, <2>4 DEF Budget, Cap, SameFile
  <2>6. LenOf(d) = 0 /\ 0 <= Cap
    BY <1>c, <2>3 DEF LenOf
  <2>7. AtFile'
    <3> HIDE DEF s
    <3> QED  BY <1>2, <1>s, <2>2, <2>3, <2>4, <2>5, <2>6 DEF AtFile, Before, During
  <2> QED  BY <2>4, <2>7 DEF FillInv
<1> QED  BY <1>3, <1>4, <1>5

LEMMA NotFoundKeeps ==
    ASSUME FillInv, NotFound
    PROVE  FillInv'
<1>1. OnDisk(disk', wrong')
  BY DEF NotFound, FillInv, Types
<1> QED  BY <1>1, FailKeeps DEF NotFound, Fail, server, FillInv, Types

Grown(d, n, o) == [d EXCEPT !.len = n, !.of = o]

LEMMA GrownIs ==
    ASSUME NEW d \in Blobs, NEW n \in Nat, NEW o \in Contents
    PROVE  Grown(d, n, o) \in Blobs /\ Grown(d, n, o).path = d.path /\ Grown(d, n, o).len = n /\ Grown(d, n, o).of = o
BY DEF Blobs, Grown

LEMMA LongerIs ==
    ASSUME NEW d \in Blobs, NEW c \in Contents
    PROVE  /\ Longer(d, c) \in Blobs /\ Longer(d, c).path = d.path /\ Longer(d, c).len = d.len + 1
           /\ Longer(d, c).of = IF d.len = 0 \/ d.of = c THEN c ELSE Mixed
<1>1. Mixed \in Contents
  BY DEF Contents
<1> DEFINE o == IF d.len = 0 \/ d.of = c THEN c ELSE Mixed
<1>2. Longer(d, c) = [d EXCEPT !.len = d.len + 1, !.of = o]
  BY DEF Longer
<1>3. o \in Contents
  BY <1>1
<1> HIDE DEF o
<1>4. Longer(d, c) \in Blobs /\ Longer(d, c).path = d.path /\ Longer(d, c).len = d.len + 1 /\ Longer(d, c).of = o
  <2>1. d.len + 1 \in Nat
    BY DEF Blobs
  <2>2. Longer(d, c) = Grown(d, d.len + 1, o)
    BY <1>2 DEF Grown
  <2>3. LET g == Grown(d, d.len + 1, o)
        IN  g \in Blobs /\ g.path = d.path /\ g.len = d.len + 1 /\ g.of = o
    BY <1>3, <2>1, GrownIs, ZenonT(60)
  <2> QED  BY <2>2, <2>3, Zenon
<1> QED  BY <1>4 DEF o

\* A byte of c arrives; w is what the server has sent wrong with it.
LEMMA ByteKeeps ==
    ASSUME FillInv, imp.pc = "body", NEW c \in Contents, Byte(c),
           remote' \in Infos, rec' = rec, wrong \subseteq wrong', wrong' \subseteq Paths, troubles' \in 0..TroublesMax,
           promoted' = promoted,
           \/ File.path \in wrong'
           \/ Unhashed(File.path) => imp.received < Truth(File.path).length /\ c = Truth(File.path).content
    PROVE  FillInv'
<1>1. /\ Types /\ Along /\ OnDisk(disk, wrong) /\ imp \in Imports
      /\ Here # None /\ Here.len = imp.received
      /\ imp.body \in Siblings /\ imp.body.path = File.path
      /\ File.size # None => File.size <= Budget
  BY DEF FillInv, Types, AtFile, During
<1>h. /\ File.path \in Paths /\ File.size \in Nat \cup {None} /\ File.sha \in Contents \cup {None}
      /\ Place \in Places /\ Here = disk[Place] /\ Here \in Blobs \cup {None}
      /\ Here.path = File.path /\ Here.len \in Nat /\ Here.of \in Contents
  BY <1>1, HereIs
<1>c. Budget \in Nat /\ Cap \in Nat /\ Cap <= MaxFileBytes
  BY <1>1, CapIs
<1>3. CASE Over(imp.received + 1)
  BY <1>3, EmptyKeeps DEF Byte, Put, Fail, During
<1>4. CASE ~Over(imp.received + 1)
  <2> DEFINE d == Longer(Here, c)
             n == imp.received + 1
  <2>0. n \in Nat /\ n <= Cap
    BY <1>1, <1>4, <1>h, <1>c DEF Over
  <2>1. imp' = [imp EXCEPT !.received = n] /\ disk' = [disk EXCEPT ![Place] = d]
    BY <1>4 DEF Byte, Put
  <2> HIDE DEF n
  <2>2. imp' \in Imports /\ imp'.pc = "body" /\ SameFile(imp, imp') /\ imp'.received = n /\ imp'.body = imp.body
    BY <1>1, <2>0, <2>1, ReceivedIs
  <2>3. /\ d \in Blobs /\ d.path = File.path /\ d.len = n
        /\ d.of = IF Here.len = 0 \/ Here.of = c THEN c ELSE Mixed
    <3>1. Here \in Blobs /\ Mixed \in Contents
      BY <1>1, <1>h DEF Contents
    <3>2. /\ d \in Blobs /\ d.path = Here.path /\ d.len = Here.len + 1
          /\ d.of = IF Here.len = 0 \/ Here.of = c THEN c ELSE Mixed
      <4> HIDE DEF d
      <4> QED  BY <3>1, LongerIs DEF d
    <3> QED  BY <1>1, <1>h, <3>2 DEF n
  <2> HIDE DEF d
  <2>4. Fits(File.path, d, wrong')
    <3> SUFFICES ASSUME Unhashed(File.path), File.path \notin wrong'  PROVE Part(File.path, d)
      BY <1>c, <2>0, <2>3, LimitsAre DEF Fits
    <3>1. imp.received < Truth(File.path).length /\ c = Truth(File.path).content /\ Truth(File.path).length \in Nat
      BY <1>h, TruthType
    <3>2. Part(File.path, Here)
      BY <1>1, <1>h DEF OnDisk
    <3>3. Here.len > 0 => Here.of = c
      BY <3>1, <3>2 DEF Part
    <3>4. d.of = c
      BY <1>h, <2>3, <3>3
    <3> QED  BY <1>1, <1>h, <2>3, <3>1, <3>4 DEF Part, n
  <2>5. d # None
    BY <2>3, NoneAssumption
  <2>6. Types' /\ Along' /\ Ended' /\ File' = File /\ Here' = d
    BY <1>1, <2>1, <2>2, <2>3, <2>4, FileKeeps DEF Before, During, SameFile
  <2>7. Budget' = Budget /\ Cap' = Cap
    BY <2>2, <2>6 DEF Budget, Cap, SameFile
  <2>8. LenOf(d) <= Cap
    BY <2>0, <2>3, <2>5 DEF LenOf
  <2>9. AtFile'
    BY <1>1, <2>2, <2>3, <2>5, <2>6, <2>7, <2>8 DEF AtFile, Before, During
  <2> QED  BY <2>6, <2>9 DEF FillInv
<1> QED  BY <1>3, <1>4

LEMMA ReceiveKeeps ==
    ASSUME FillInv, Receive
    PROVE  FillInv'
<1>1. /\ imp.pc = "body" /\ imp.received < imp.body.length /\ Byte(imp.body.content)
      /\ remote' = remote /\ rec' = rec /\ wrong' = wrong /\ troubles' = troubles /\ promoted' = promoted
      /\ remote \in Infos /\ wrong \subseteq Paths /\ troubles \in 0..TroublesMax
      /\ imp.body \in Siblings /\ imp.body.path = File.path
  BY DEF Receive, server, FillInv, Types, AtFile
<1>2. imp.body.content \in Contents
  BY <1>1, SiblingIs
<1>3. Unhashed(File.path) =>
        Truth(File.path).length = imp.body.length /\ Truth(File.path).content = imp.body.content
  BY <1>1, TruthIs
<1> QED  BY <1>1, <1>2, <1>3, ByteKeeps

LEMMA GarbageKeeps ==
    ASSUME FillInv, Garbage
    PROVE  FillInv'
<1>1. /\ imp.pc = "body" /\ Byte(Wrong) /\ remote' = remote /\ rec' = rec /\ promoted' = promoted
      /\ wrong' = wrong \cup {File.path} /\ remote \in Infos
  BY DEF Garbage, server, FillInv, Types
<1>2. File.path \in Paths
  BY <1>1, HereIs DEF FillInv
<1>3. troubles' \in 0..TroublesMax
  BY TroublesAssumption DEF Garbage, Trouble, FillInv, Types
<1>4. Wrong \in Contents /\ wrong \subseteq wrong' /\ wrong' \subseteq Paths /\ File.path \in wrong'
  BY <1>1, <1>2 DEF Contents, FillInv, Types
<1> QED  BY <1>1, <1>3, <1>4, ByteKeeps

\* The body has ended.
LEMMA EndKeeps ==
    ASSUME FillInv, imp.pc = "body", imp' = [imp EXCEPT !.pc = "check"], disk' = disk,
           remote' \in Infos, rec' = rec, wrong \subseteq wrong', wrong' \subseteq Paths, troubles' \in 0..TroublesMax,
           promoted' = promoted,
           File.path \in wrong' \/ imp.received >= imp.body.length
    PROVE  FillInv'
<1>1. /\ Types /\ Along /\ OnDisk(disk, wrong) /\ imp \in Imports
      /\ Here # None /\ Here.len = imp.received
      /\ imp.body \in Siblings /\ imp.body.path = File.path
      /\ (File.size # None => File.size <= Budget) /\ LenOf(Here) <= Cap
  BY DEF FillInv, Types, AtFile, During
<1>h. /\ File.path \in Paths /\ Place \in Places /\ Here = disk[Place] /\ Here.path = File.path /\ Here.len \in Nat
  BY <1>1, HereIs
<1>2. imp' \in Imports /\ imp'.pc = "check" /\ SameFile(imp, imp')
  BY <1>1, PcIs DEF Pcs
<1>3. Types' /\ Along' /\ Ended' /\ File' = File /\ Here' = Here
  BY <1>2, FileStays DEF Before, During, SameFile
<1>4. ASSUME Unhashed(File.path), File.path \notin wrong'
      PROVE  Intact(File.path, Here)
  <2>1. Truth(File.path).length = imp.body.length /\ Truth(File.path).length \in Nat
    BY <1>1, <1>4, <1>h, TruthIs, TruthType
  <2>2. Part(File.path, Here)
    BY <1>1, <1>4, <1>h DEF OnDisk
  <2> QED  BY <1>1, <1>4, <1>h, <2>1, <2>2 DEF Part, Intact
<1>5. Budget' = Budget /\ Cap' = Cap
  BY <1>2, <1>3 DEF Budget, Cap, SameFile
<1>6. AtFile'
  BY <1>1, <1>2, <1>3, <1>4, <1>5 DEF AtFile, Before, During
<1> QED  BY <1>3, <1>6 DEF FillInv

LEMMA EndBodyKeeps ==
    ASSUME FillInv, EndBody
    PROVE  FillInv'
BY EndKeeps DEF EndBody, Goto, server, FillInv, Types

LEMMA TruncateKeeps ==
    ASSUME FillInv, Truncate
    PROVE  FillInv'
<1>1. /\ imp.pc = "body" /\ imp' = [imp EXCEPT !.pc = "check"] /\ disk' = disk /\ remote' = remote /\ rec' = rec
      /\ promoted' = promoted /\ wrong' = wrong \cup {File.path} /\ remote \in Infos
  BY DEF Truncate, Goto, server, FillInv, Types
<1>2. File.path \in Paths
  BY <1>1, HereIs DEF FillInv
<1>3. troubles' \in 0..TroublesMax
  BY TroublesAssumption DEF Truncate, Trouble, FillInv, Types
<1>4. wrong \subseteq wrong' /\ wrong' \subseteq Paths /\ File.path \in wrong'
  BY <1>1, <1>2 DEF FillInv, Types
<1> QED  BY <1>1, <1>3, <1>4, EndKeeps

LEMMA CheckKeeps ==
    ASSUME FillInv, Check
    PROVE  FillInv'
<1>1. /\ imp.pc = "check" /\ remote' = remote /\ rec' = rec /\ wrong' = wrong /\ troubles' = troubles /\ promoted' = promoted
      /\ imp \in Imports /\ remote \in Infos /\ wrong \subseteq Paths /\ troubles \in 0..TroublesMax
      /\ Types /\ Along
      /\ Here # None /\ (Unhashed(File.path) /\ File.path \notin wrong => Intact(File.path, Here))
      /\ (File.size # None => File.size <= Budget) /\ LenOf(Here) <= Cap
  BY DEF Check, server, FillInv, Types, AtFile, During
<1>h. Here.path = File.path /\ (File.sha = None <=> Unhashed(File.path))
  BY <1>1, HereIs
<1>2. CASE Verified(Here, File)
  <2>1. imp' = [imp EXCEPT !.pc = "count"] /\ disk' = disk
    BY <1>2 DEF Check, Goto
  <2>2. imp' \in Imports /\ imp'.pc = "count" /\ SameFile(imp, imp')
    BY <1>1, <2>1, PcIs DEF Pcs
  <2>3. Types' /\ Along' /\ Ended' /\ File' = File /\ Here' = Here
    BY <1>1, <2>1, <2>2, FileStays DEF Before, During, SameFile
  <2>4. Counted(File, Here, wrong)
    BY <1>1, <1>2, <1>h DEF Counted, Verified
  <2>5. Budget' = Budget /\ Cap' = Cap
    BY <2>2, <2>3 DEF Budget, Cap, SameFile
  <2>6. AtFile'
    BY <1>1, <2>2, <2>3, <2>4, <2>5 DEF AtFile, Before, During
  <2> QED  BY <2>3, <2>6 DEF FillInv
<1>3. CASE ~Verified(Here, File)
  <2>1. imp' = NoImport /\ disk' = [disk EXCEPT ![Place] = None]
    BY <1>3 DEF Check, Fail, Put
  <2> QED  BY <1>1, <2>1, EmptyKeeps DEF During
<1> QED  BY <1>2, <1>3

-----------------------------------------------------------------------------
(***************************************************************************)
(* Staging.                                                                *)
(***************************************************************************)
LEMMA RangeIs ==
    ASSUME NEW fs, Manifest(fs)
    PROVE  \A f : f \in Range(fs) <=> \E k \in 1..Len(fs) : f = fs[k]
<1>1. DOMAIN fs = 1..Len(fs)
  BY DEF Manifest
<1> QED  BY <1>1 DEF Range

\* Pruning removes what is not in the manifest and leaves the rest as it is.
LEMMA PrunedIs ==
    ASSUME OnDisk(disk, wrong), Manifest(imp.files)
    PROVE  /\ OnDisk(Pruned, wrong) /\ Listed(Pruned, imp.files)
           /\ \A l \in Places : Pruned[l] # None => Pruned[l] = disk[l]
           /\ \A k \in 1..Len(imp.files), l \in Places :
                disk[l] # None /\ disk[l].path = imp.files[k].path => Pruned[l] = disk[l]
<1> DEFINE keep == {f.path : f \in Range(imp.files)}
           pk == Pruned
<1>1. pk = [l \in Places |-> IF disk[l] # None /\ disk[l].path \in keep THEN disk[l] ELSE None]
  BY DEF Pruned
<1>2. \A p : p \in keep <=> \E k \in 1..Len(imp.files) : imp.files[k].path = p
  BY RangeIs
<1> HIDE DEF keep, pk
<1>3. /\ disk \in [Places -> Blobs \cup {None}]
      /\ \A l \in Places : disk[l] # None => /\ Folded(disk[l].path) = l /\ disk[l].len <= MaxFileBytes
                                             /\ Unhashed(disk[l].path) /\ disk[l].path \notin wrong => Part(disk[l].path, disk[l])
  BY DEF OnDisk
<1>4. \A l \in Places : pk[l] = IF disk[l] # None /\ disk[l].path \in keep THEN disk[l] ELSE None
  BY <1>1
<1>5. \A l \in Places : pk[l] # None => pk[l] = disk[l] /\ disk[l] # None /\ disk[l].path \in keep
  BY <1>4
<1>6. pk \in [Places -> Blobs \cup {None}]
  BY <1>1, <1>3
<1>7. OnDisk(pk, wrong)
  BY <1>3, <1>5, <1>6 DEF OnDisk
<1>8. Listed(pk, imp.files)
  BY <1>2, <1>5 DEF Listed
<1>9. \A k \in 1..Len(imp.files), l \in Places :
         disk[l] # None /\ disk[l].path = imp.files[k].path => pk[l] = disk[l]
  BY <1>2, <1>4
<1> QED  BY <1>5, <1>7, <1>8, <1>9 DEF pk

LEMMA ImportKeeps ==
    ASSUME FillInv, Import
    PROVE  FillInv'
<1>1. /\ remote \in Infos /\ Accepted(remote) /\ remote' = remote /\ disk' = disk /\ rec' = rec /\ wrong' = wrong
      /\ troubles' = troubles /\ promoted' = promoted /\ ~promoted
      /\ imp' = [NoImport EXCEPT !.pc = "prune", !.files = Files(remote)]
  BY DEF Import, server, FillInv, Types
<1>2. Manifest(Files(remote))
  BY <1>1, AcceptedIs
<1>3. imp' \in Imports /\ imp'.pc = "prune" /\ imp'.files = Files(remote) /\ imp'.prev = None /\ imp'.i = 0
  <2> DEFINE fs == Files(remote)
  <2>1. fs \in Seq(FileRecs)
    BY <1>2 DEF Manifest
  <2>2. imp' = [NoImport EXCEPT !.pc = "prune", !.files = fs]
    BY <1>1
  <2> HIDE DEF fs
  <2>3. 0 \in 0..MaxTotalBytes
    BY LimitsAre
  <2>4. imp' \in Imports /\ imp'.pc = "prune" /\ imp'.files = fs /\ imp'.prev = None /\ imp'.i = 0
    BY <2>1, <2>2, <2>3 DEF NoImport, Imports, Pcs
  <2> QED  BY <2>4 DEF fs
<1>4. Types'
  BY <1>1, <1>3 DEF FillInv, Types, Recorded
<1>5. Along'
  BY <1>2, <1>3 DEF Along, Before, During
<1>6. AtFile'
  BY <1>3 DEF AtFile, Before, During
<1>7. Ended'
  BY <1>1, <1>3 DEF FillInv, Ended, PromotedExact
<1> QED  BY <1>4, <1>5, <1>6, <1>7 DEF FillInv

LEMMA PruneKeeps ==
    ASSUME FillInv, Prune
    PROVE  FillInv'
<1>1. /\ imp.pc = "prune" /\ disk' = Pruned /\ imp' = Prunes(imp, rec)
      /\ remote' = remote /\ rec' = rec /\ wrong' = wrong /\ troubles' = troubles /\ promoted' = promoted
  BY DEF Prune, Prunes, server
<1>2. Manifest(imp.files) /\ OnDisk(disk, wrong) /\ ~promoted /\ Recorded(rec, wrong) /\ imp \in Imports
      /\ rec \in Records \cup {None}
  BY <1>1 DEF FillInv, Types, Along, Ended
<1>3. imp' \in Imports /\ imp'.pc = "stage" /\ imp'.files = imp.files /\ imp'.i = 1 /\ imp'.prev = rec
  BY <1>1, <1>2, PrunesIs
<1>4. OnDisk(disk', wrong') /\ Listed(disk', imp'.files)
  BY <1>1, <1>2, <1>3, PrunedIs
<1>5. Types'
  BY <1>1, <1>2, <1>3, <1>4 DEF FillInv, Types
<1>6. Along'
  <2>1. 1 \in 1..Len(imp.files) /\ \A k \in 1..Len(imp.files) : ~(k < 1)
    BY <1>2 DEF Manifest
  <2> QED  BY <1>2, <1>3, <1>4, <2>1 DEF Along, Before, During
<1>7. AtFile'
  BY <1>3 DEF AtFile, Before, During
<1>8. Ended'
  BY <1>1, <1>2, <1>3 DEF FillInv, Ended, PromotedExact
<1> QED  BY <1>5, <1>6, <1>7, <1>8 DEF FillInv

LEMMA RecordsAre ==
    ASSUME NEW r \in Records
    PROVE  r # None /\ DOMAIN r \subseteq Paths /\ r \in [DOMAIN r -> Entries]
<1>1. PICK P \in SUBSET Paths : r \in [P -> Entries]
  BY DEF Records
<1>2. r # None
  BY <1>1, NoneAssumption
<1> QED  BY <1>1, <1>2

LEMMA IsRecord ==
    ASSUME NEW P, P \subseteq Paths, NEW r \in [P -> Entries]
    PROVE  r \in Records
BY DEF Records

\* The record of what is reused.
LEMMA RestOf ==
    ASSUME NEW r \in Records \cup {None}, NEW p, NEW w, Recorded(r, w),
           NEW q, q = [x \in (IF r = None THEN {} ELSE DOMAIN r) \ {p} |-> r[x]]
    PROVE  q \in Records /\ Recorded(q, w)
<1> DEFINE D == (IF r = None THEN {} ELSE DOMAIN r) \ {p}
<1>1. D \subseteq Paths /\ (\A x \in D : r[x] \in Entries) /\ (D # {} => r # None /\ D \subseteq DOMAIN r)
  BY RecordsAre
<1>2. q = [x \in D |-> r[x]]
  OBVIOUS
<1> HIDE DEF D
<1>3. q \in [D -> Entries] /\ DOMAIN q = D /\ \A x \in D : q[x] = r[x]
  BY <1>1, <1>2
<1>4. q \in Records
  BY <1>1, <1>3, IsRecord
<1>5. Recorded(q, w)
  <2> SUFFICES ASSUME NEW x \in D, q[x].blob # None, Unhashed(x), x \notin w  PROVE Intact(x, q[x].blob)
    BY <1>3 DEF Recorded
  <2>1. r # None /\ x \in DOMAIN r /\ q[x] = r[x]
    BY <1>1, <1>3
  <2> QED  BY <2>1 DEF Recorded
<1> QED  BY <1>4, <1>5

LEMMA StageKeeps ==
    ASSUME FillInv, Stage
    PROVE  FillInv'
<1> DEFINE Re == Reusable(File, Here)
           N == Len(imp.files)
           pc1 == IF imp.i = N THEN "record" ELSE "stage"
           i1 == IF imp.i = N THEN 1 ELSE imp.i + 1
           left == [p \in (IF imp.prev = None THEN {} ELSE DOMAIN imp.prev) \ {File.path} |-> imp.prev[p]]
           prev1 == IF Re THEN imp.prev ELSE left
           d == IF Re THEN Here ELSE None
<1>1. /\ imp.pc = "stage"
      /\ IF Re THEN disk' = disk ELSE disk' = [disk EXCEPT ![Place] = None]
      /\ imp' = Stages(imp, pc1, i1, prev1)
      /\ remote' = remote /\ rec' = rec /\ wrong' = wrong /\ troubles' = troubles /\ promoted' = promoted
  BY DEF Stage, Stages, Put, server
<1>2. /\ Types /\ Along /\ OnDisk(disk, wrong) /\ Recorded(rec, wrong) /\ Recorded(imp.prev, wrong) /\ ~promoted /\ imp \in Imports
      /\ Manifest(imp.files) /\ Listed(disk, imp.files) /\ imp.i \in 1..N /\ N \in Nat
      /\ \A k \in 1..N : k < imp.i => Staged(imp.files[k], At(k), wrong)
  <2>1. N \in Nat
    BY <1>1, HereIs DEF FillInv
  <2> QED  BY <1>1, <2>1 DEF FillInv, Types, Along, Ended
<1>h. /\ File.path \in Paths /\ Place \in Places /\ Place = Folded(File.path) /\ Here = disk[Place] /\ Here \in Blobs \cup {None}
      /\ File = imp.files[imp.i] /\ (File.sha = None <=> Unhashed(File.path))
  BY <1>1, <1>2, HereIs
<1>p. imp.prev \in Records \cup {None}
  BY <1>2, ImpIs
<1>3. left \in Records /\ Recorded(left, wrong)
  BY <1>2, <1>p, RestOf
<1>4. prev1 \in Records \cup {None} /\ Recorded(prev1, wrong)
  <2> HIDE DEF left
  <2> QED  BY <1>2, <1>3, <1>p
<1>5. imp' \in Imports /\ imp'.pc = pc1 /\ imp'.files = imp.files /\ imp'.i = i1 /\ imp'.prev = prev1
  <2>1. pc1 \in Pcs /\ i1 \in Nat
    BY <1>2 DEF Pcs
  <2>2. imp' = Stages(imp, pc1, i1, prev1)
    BY <1>1
  <2> HIDE DEF pc1, i1, prev1
  <2> QED  BY <1>2, <1>4, <2>1, <2>2, StagesIs
<1>6. pc1 \in {"record", "stage"} /\ i1 \in 1..N /\ (pc1 = "record" => imp.i = N /\ i1 = 1)
      /\ (pc1 = "stage" => i1 = imp.i + 1)
  BY <1>2
<1> HIDE DEF pc1, i1, prev1, left
<1>7. /\ OnDisk(disk', wrong') /\ disk'[Place] = d
      /\ \A l \in Places \ {Place} : disk'[l] = disk[l]
  <2>1. CASE Re
    <3>1. disk' = disk /\ d = Here
      BY <1>1, <2>1, SMTT(60)
    <3> QED  BY <1>1, <1>2, <1>h, <3>1, Zenon
  <2>2. CASE ~Re
    <3>1. ASSUME NEW p \in Paths
          PROVE  /\ OnDisk(With(disk, p, None), wrong) /\ With(disk, p, None)[Folded(p)] = None
                 /\ \A l \in Places \ {Folded(p)} : With(disk, p, None)[l] = disk[l]
      <4>1. Fits(p, None, wrong)
        BY DEF Fits
      <4> QED  BY <1>2, <4>1, DiskIs
    <3>2. disk' = With(disk, File.path, None)
      BY <1>1, <1>h, <2>2 DEF With
    <3> QED  BY <1>1, <1>h, <2>2, <3>1, <3>2
  <2> QED  BY <2>1, <2>2
<1>8. Staged(File, d, wrong)
  <2> SUFFICES ASSUME File.sha = None, Re
               PROVE  Here # None /\ File.size # None /\ (Here.len < File.size \/ (File.path \notin wrong => Intact(File.path, Here)))
    BY Zenon DEF Staged
  <2>1. /\ Old(File) # None /\ Here # None /\ File.size # None
        /\ Here.len < File.size \/ (Here.len = File.size /\ Old(File).blob = Here)
    BY DEF Reusable
  <2>2. imp.prev # None /\ File.path \in DOMAIN imp.prev /\ Old(File) = imp.prev[File.path]
    BY <2>1, ZenonT(60) DEF Old
  <2>3. Old(File).blob = Here /\ File.path \notin wrong => Intact(File.path, Here)
    BY <1>2, <1>h, <2>1, <2>2 DEF Recorded
  <2> QED  BY <2>1, <2>3
<1> HIDE DEF d, Re
<1>9. ASSUME NEW k \in 1..N, k <= imp.i
      PROVE  Staged(imp.files[k], disk'[Folded(imp.files[k].path)], wrong)
  <2>1. CASE k = imp.i
    BY <1>7, <1>8, <1>h, <2>1
  <2>2. CASE k # imp.i
    <3>1. Folded(imp.files[k].path) \in Places /\ Folded(imp.files[k].path) # Place
      BY <1>2, <1>h, <2>2, UnhashedIs DEF Manifest
    <3>2. disk'[Folded(imp.files[k].path)] = At(k)
      BY <1>7, <3>1 DEF At
    <3>3. k < imp.i
      BY <1>2, <1>9, <2>2
    <3> QED  BY <1>2, <3>2, <3>3
  <2> QED  BY <2>1, <2>2
<1>10. Types'
  BY <1>1, <1>2, <1>4, <1>5, <1>6, <1>7 DEF Types
<1>11. Along'
  <2>1. Listed(disk', imp'.files)
    <3> SUFFICES ASSUME NEW l \in Places, disk'[l] # None
                 PROVE  \E k \in 1..Len(imp.files) : imp.files[k].path = disk'[l].path
      BY <1>5 DEF Listed
    <3>1. disk'[l] = disk[l]
      BY <1>7, <1>h DEF d
    <3> QED  BY <1>2, <3>1 DEF Listed
  <2>2. \A k \in 1..Len(imp'.files) :
            (pc1 = "stage" /\ k < imp'.i) \/ pc1 = "record"
               => Staged(imp'.files[k], disk'[Folded(imp'.files[k].path)], wrong')
    <3> SUFFICES ASSUME NEW k \in 1..N, (pc1 = "stage" /\ k < i1) \/ pc1 = "record"
                 PROVE  k <= imp.i
      BY <1>1, <1>5, <1>9
    <3> QED  BY <1>2, <1>6
  <2>3. Manifest(imp'.files) /\ imp'.i \in 1..Len(imp'.files)
    BY <1>2, <1>5, <1>6
  <2>4. imp'.pc \notin Before \cup During /\ imp'.pc # "promote" /\ imp'.pc \in {"record", "stage"}
    BY <1>5, <1>6 DEF Before, During
  <2> HIDE DEF N
  <2> QED  BY <1>5, <1>6, <2>1, <2>2, <2>3, <2>4 DEF Along, At
<1>12. AtFile'
  BY <1>5, <1>6 DEF AtFile, Before, During
<1>13. Ended'
  BY <1>1, <1>2, <1>5, <1>6 DEF Ended, PromotedExact
<1> QED  BY <1>10, <1>11, <1>12, <1>13 DEF FillInv

LEMMA RecordKeeps ==
    ASSUME FillInv, Record
    PROVE  FillInv'
<1> DEFINE P == {f.path : f \in Range(imp.files)}
           at(p) == CHOOSE g \in Range(imp.files) : g.path = p
           b(f) == IF Old(f) = None THEN None ELSE Old(f).blob
           e(p) == [size |-> at(p).size, sha |-> at(p).sha, blob |-> b(at(p))]
<1>1. /\ imp.pc = "record" /\ disk' = disk /\ rec' = [p \in P |-> e(p)] /\ imp' = Noted(imp)
      /\ remote' = remote /\ wrong' = wrong /\ troubles' = troubles /\ promoted' = promoted
  BY DEF Record, Noted, server
<1>2. /\ Types /\ Along /\ OnDisk(disk, wrong) /\ Recorded(imp.prev, wrong) /\ ~promoted /\ imp \in Imports
      /\ Manifest(imp.files) /\ Listed(disk, imp.files) /\ imp.i = 1 /\ 1 \in 1..Len(imp.files)
      /\ \A k \in 1..Len(imp.files) : Staged(imp.files[k], At(k), wrong)
  BY <1>1 DEF FillInv, Types, Along, Ended
<1>h. File = imp.files[1] /\ Here = At(1)
  BY <1>1, <1>2, HereIs
<1>p. imp.prev \in Records \cup {None}
  BY <1>2, ImpIs
<1>3. ASSUME NEW p \in P  PROVE at(p) \in Range(imp.files) /\ at(p).path = p /\ at(p) \in FileRecs
  <2>1. at(p) \in Range(imp.files) /\ at(p).path = p
    OBVIOUS
  <2> HIDE DEF at
  <2>2. at(p) \in FileRecs
    BY <1>2, <2>1, RangeIs, UnhashedIs
  <2> QED  BY <2>1, <2>2
<1> HIDE DEF at
<1>4. ASSUME NEW f
      PROVE  /\ b(f) \in Blobs \cup {None}
             /\ b(f) # None /\ Unhashed(f.path) /\ f.path \notin wrong => Intact(f.path, b(f))
  <2>1. CASE Old(f) = None
    BY <2>1
  <2>2. CASE Old(f) # None
    <3>1. imp.prev # None /\ f.path \in DOMAIN imp.prev /\ Old(f) = imp.prev[f.path] /\ b(f) = Old(f).blob
      BY <2>2 DEF Old
    <3>2. Old(f) \in Entries
      BY <1>p, <3>1, RecordsAre
    <3>3. Old(f).blob \in Blobs \cup {None}
      BY <3>2 DEF Entries
    <3> QED  BY <1>2, <3>1, <3>3 DEF Recorded
  <2> QED  BY <2>1, <2>2
<1> HIDE DEF b
<1>5. ASSUME NEW p \in P  PROVE e(p) \in Entries /\ e(p).blob = b(at(p)) /\ p \in Paths
  <2>1. at(p).path \in Paths /\ at(p).size \in Nat \cup {None} /\ at(p).sha \in Contents \cup {None}
    BY <1>3 DEF FileRecs
  <2> QED  BY <1>3, <1>4, <2>1 DEF Entries
<1> HIDE DEF e, P
<1>6. rec' \in [P -> Entries] /\ DOMAIN rec' = P /\ \A p \in P : rec'[p] = e(p)
  BY <1>1, <1>5
<1>7. rec' \in Records /\ rec' # None
  <2>1. P \subseteq Paths
    BY <1>5
  <2>2. rec' \in Records
    BY <1>6, <2>1, IsRecord
  <2> QED  BY <2>2, RecordsAre
<1>8. Recorded(rec', wrong')
  <2> SUFFICES ASSUME NEW p \in P, e(p).blob # None, Unhashed(p), p \notin wrong  PROVE Intact(p, e(p).blob)
    BY <1>1, <1>6 DEF Recorded
  <2> QED  BY <1>3, <1>4, <1>5
<1>9. imp' \in Imports /\ imp'.pc = "next" /\ imp'.files = imp.files /\ imp'.i = imp.i /\ imp'.prev = None
  BY <1>1, <1>2, NotedIs
<1>10. Types'
  BY <1>1, <1>2, <1>7, <1>8, <1>9 DEF Types, Recorded
<1>11. Along'
  <2>1. \A k \in 1..Len(imp.files) : ~(k < 1)
    OBVIOUS
  <2> QED  BY <1>1, <1>2, <1>7, <1>9, <2>1 DEF Along, At, Before, During
<1>12. AtFile'
  <2>1. File' = File /\ Here' = Here
    BY <1>1, <1>9 DEF File, Here, Place
  <2>2. Staged(File, Here, wrong)
    BY <1>2, <1>h
  <2> QED  BY <1>1, <1>9, <2>1, <2>2 DEF AtFile, Before, During
<1>13. Ended'
  BY <1>1, <1>2, <1>9 DEF Ended, PromotedExact
<1> QED  BY <1>10, <1>11, <1>12, <1>13 DEF FillInv

-----------------------------------------------------------------------------
(***************************************************************************)
(* A file that is complete, and the version.                               *)
(***************************************************************************)
LEMMA NotesHash ==
    ASSUME NEW r \in Records, NEW p, NEW d \in Blobs, NEW w, Recorded(r, w),
           Unhashed(p) /\ p \notin w => Intact(p, d),
           NEW q, q = [r EXCEPT ![p].blob = d]
    PROVE  q \in Records /\ Recorded(q, w)
<1> DEFINE D == DOMAIN r
<1>1. D \subseteq Paths /\ r \in [D -> Entries]
  BY RecordsAre
<1>2. ASSUME NEW e \in Entries
      PROVE  [e EXCEPT !.blob = d] \in Entries /\ [e EXCEPT !.blob = d].blob = d
  BY DEF Entries
<1> HIDE DEF D
<1>3. \A x \in D : q[x] = IF x = p THEN [r[x] EXCEPT !.blob = d] ELSE r[x]
  BY <1>1
<1>4. \A x \in D : r[x] \in Entries
  BY <1>1
<1>5. \A x \in D : q[x] \in Entries /\ (x = p => q[x].blob = d) /\ (x # p => q[x] = r[x])
  <2> TAKE x \in D
  <2>1. r[x] \in Entries
    BY <1>4
  <2>2. CASE x = p
    <3>1. q[x] = [r[x] EXCEPT !.blob = d]
      BY <1>3, <2>2
    <3> QED  BY <1>2, <2>1, <2>2, <3>1, Zenon
  <2>3. CASE x # p
    BY <1>3, <2>1, <2>3
  <2> QED  BY <2>2, <2>3
<1>6. DOMAIN q = D /\ q = [x \in D |-> q[x]]
  BY <1>1
<1>7. q \in [D -> Entries]
  BY <1>5, <1>6
<1>8. q \in Records
  BY <1>1, <1>7, IsRecord
<1>9. Recorded(q, w)
  <2> SUFFICES ASSUME NEW x \in D, q[x].blob # None, Unhashed(x), x \notin w  PROVE Intact(x, q[x].blob)
    BY <1>6 DEF Recorded
  <2>1. CASE x = p
    BY <1>5, <2>1
  <2>2. CASE x # p
    <3>1. q[x] = r[x] /\ x \in DOMAIN r /\ r # None
      BY <1>5, <2>2, RecordsAre DEF D
    <3> QED  BY <3>1 DEF Recorded
  <2> QED  BY <2>1, <2>2
<1> QED  BY <1>8, <1>9

LEMMA CountKeeps ==
    ASSUME FillInv, Count
    PROVE  FillInv'
<1> DEFINE N == Len(imp.files)
           pc1 == IF imp.i = N THEN "promote" ELSE "next"
           i1 == IF imp.i = N THEN imp.i ELSE imp.i + 1
           t1 == imp.total + Here.len
<1>1. /\ imp.pc = "count"
      /\ remote' = remote /\ wrong' = wrong /\ troubles' = troubles /\ promoted' = promoted
  BY DEF Count, server
<1>2. /\ Types /\ Along /\ OnDisk(disk, wrong) /\ Recorded(rec, wrong) /\ Recorded(imp.prev, wrong) /\ ~promoted /\ imp \in Imports
      /\ Manifest(imp.files) /\ Listed(disk, imp.files) /\ imp.i \in 1..N /\ N \in Nat
      /\ rec # None /\ rec \in Records
      /\ \A k \in 1..N : /\ k < imp.i => Counted(imp.files[k], At(k), wrong)
                         /\ k > imp.i => Staged(imp.files[k], At(k), wrong)
      /\ Counted(File, Here, wrong)
  <2>1. N \in Nat
    BY <1>1, HereIs DEF FillInv
  <2>2. Counted(File, Here, wrong)
    BY <1>1 DEF FillInv, AtFile
  <2>3. rec \in Records \cup {None} /\ rec # None
    BY <1>1 DEF FillInv, Types, Along, During
  <2> QED  BY <1>1, <2>1, <2>2, <2>3 DEF FillInv, Types, Along, Ended, During
<1>h. /\ File.path \in Paths /\ Here = At(imp.i) /\ Here \in Blobs /\ Here.len \in Nat
      /\ File = imp.files[imp.i] /\ (File.sha = None <=> Unhashed(File.path))
  BY <1>1, <1>2, HereIs DEF Counted
<1>t. imp.total \in Nat
  BY <1>2, ImpIs, LimitsAre
<1>3. CASE t1 > MaxTotalBytes
  <2>1. imp' = NoImport /\ disk' = [disk EXCEPT ![Place] = None] /\ rec' = rec
    BY <1>3 DEF Count, Fail, Put
  <2> QED  BY <1>1, <1>2, <2>1, EmptyKeeps DEF During, Types
<1>4. CASE ~(t1 > MaxTotalBytes)
  <2>1. /\ rec' = IF File.sha = None THEN [rec EXCEPT ![File.path].blob = Here] ELSE rec
        /\ imp' = Counts(imp, pc1, i1, t1) /\ disk' = disk
    BY <1>4 DEF Count, Counts
  <2>2. pc1 \in {"promote", "next"} /\ i1 \in 1..N /\ (pc1 = "promote" => imp.i = N)
        /\ (pc1 = "next" => i1 = imp.i + 1) /\ t1 \in 0..MaxTotalBytes
    BY <1>2, <1>4, <1>h, <1>t, LimitsAre, SMTT(60)
  <2> HIDE DEF pc1, i1, t1
  <2>3. imp' \in Imports /\ imp'.pc = pc1 /\ imp'.files = imp.files /\ imp'.i = i1 /\ imp'.prev = imp.prev
    <3>1. pc1 \in Pcs /\ i1 \in Nat
      BY <1>2, <2>2 DEF Pcs
    <3> QED  BY <1>2, <2>1, <2>2, <3>1, CountsIs
  <2>4. rec' \in Records /\ Recorded(rec', wrong) /\ rec' # None
    <3>1. CASE File.sha = None
      <4>1. Unhashed(File.path) /\ File.path \notin wrong => Intact(File.path, Here)
        BY <1>2, <3>1 DEF Counted
      <4>2. rec' = [rec EXCEPT ![File.path].blob = Here]
        BY <2>1, <3>1
      <4>3. rec' \in Records /\ Recorded(rec', wrong)
        BY <1>2, <1>h, <4>1, <4>2, NotesHash
      <4> QED  BY <4>3, RecordsAre
    <3>2. CASE File.sha # None
      BY <1>2, <2>1, <3>2
    <3> QED  BY <3>1, <3>2
  <2>5. Types'
    BY <1>1, <1>2, <2>1, <2>2, <2>3, <2>4 DEF Types
  <2>6. Along'
    <3>1. \A k \in 1..N : k < i1 \/ pc1 = "promote" => Counted(imp.files[k], At(k), wrong)
      <4> SUFFICES ASSUME NEW k \in 1..N, k < i1 \/ pc1 = "promote"  PROVE Counted(imp.files[k], At(k), wrong)
        OBVIOUS
      <4>1. k < imp.i \/ k = imp.i
        BY <1>2, <2>2
      <4> QED  BY <1>2, <1>h, <4>1
    <3>2. \A k \in 1..N : k > i1 /\ pc1 = "next" => Staged(imp.files[k], At(k), wrong)
      <4> SUFFICES ASSUME NEW k \in 1..N, k > i1, pc1 = "next"  PROVE Staged(imp.files[k], At(k), wrong)
        OBVIOUS
      <4>1. k > imp.i
        BY <1>2, <2>2
      <4> QED  BY <1>2, <4>1
    <3>3. \A k : At(k)' = disk[Folded(imp.files[k].path)]
      BY <2>1, <2>3 DEF At
    <3>4. pc1 # "idle" /\ pc1 # "stage" /\ pc1 # "record"
      BY <2>2
    <3>5. \A k : At(k)' = At(k)
      BY <3>3 DEF At
    <3> QED  BY <1>1, <1>2, <2>1, <2>2, <2>3, <2>4, <3>1, <3>2, <3>4, <3>5 DEF Along, Before, During
  <2>7. AtFile'
    <3>1. CASE pc1 = "next"
      <4>1. i1 > imp.i
        BY <1>2, <2>2, <3>1
      <4>2. Staged(imp.files[i1], At(i1), wrong)
        BY <1>2, <2>2, <4>1
      <4>3. File' = imp.files[i1] /\ Here' = At(i1)
        BY <2>1, <2>3 DEF File, Here, Place, At
      <4> QED  BY <1>1, <2>3, <3>1, <4>2, <4>3 DEF AtFile, Before, During
    <3>2. CASE pc1 = "promote"
      BY <2>3, <3>2 DEF AtFile, Before, During
    <3> QED  BY <2>2, <3>1, <3>2
  <2>8. Ended'
    BY <1>1, <1>2, <2>2, <2>3 DEF Ended, PromotedExact
  <2> QED  BY <2>5, <2>6, <2>7, <2>8 DEF FillInv
<1> QED  BY <1>3, <1>4

LEMMA PromoteKeeps ==
    ASSUME FillInv, Promote
    PROVE  FillInv'
<1> DEFINE N == Len(imp.files)
<1>1. /\ imp.pc = "promote" /\ disk' = Pruned
      /\ remote' = remote /\ rec' = rec /\ wrong' = wrong /\ troubles' = troubles
  BY DEF Promote, server
<1>2. /\ Types /\ Along /\ OnDisk(disk, wrong) /\ ~promoted /\ imp \in Imports /\ remote \in Infos
      /\ wrong \subseteq Paths /\ troubles \in 0..TroublesMax
      /\ Manifest(imp.files) /\ imp.i \in 1..N
      /\ \A k \in 1..N : Counted(imp.files[k], At(k), wrong)
      /\ Recorded(rec, wrong) /\ Recorded(imp.prev, wrong) /\ rec \in Records \cup {None}
  BY <1>1 DEF FillInv, Types, Along, Ended
<1>3. OnDisk(disk', wrong') /\ Listed(disk', imp.files)
  BY <1>1, <1>2, PrunedIs
<1>4. ASSUME NEW k \in 1..N
      PROVE  /\ Folded(imp.files[k].path) \in Places
             /\ Counted(imp.files[k], disk'[Folded(imp.files[k].path)], wrong)
  <2>1. Folded(imp.files[k].path) \in Places
    BY <1>2, UnhashedIs
  <2>2. At(k) # None /\ At(k).path = imp.files[k].path
    BY <1>2 DEF Counted
  <2>3. disk'[Folded(imp.files[k].path)] = At(k)
    BY <1>1, <1>2, <2>1, <2>2, PrunedIs DEF At
  <2> QED  BY <1>2, <2>1, <2>3
<1>5. CASE ~Complete
  BY <1>1, <1>2, <1>3, <1>5, FailKeeps DEF Promote, Fail
<1>6. CASE Complete
  <2>1. imp' = [imp EXCEPT !.pc = "done"] /\ promoted'
    BY <1>6 DEF Promote, Goto
  <2>2. imp' \in Imports /\ imp'.pc = "done" /\ SameFile(imp, imp')
    BY <1>2, <2>1, PcIs DEF Pcs
  <2>3. Types'
    BY <1>1, <1>2, <1>3, <2>2 DEF Types, SameFile
  <2>4. Along'
    BY <1>2, <1>3, <2>2 DEF Along, Before, During, SameFile
  <2>5. AtFile'
    BY <2>2 DEF AtFile, Before, During
  <2>6. PromotedExact'
    <3>1. \A f : f \in Range(imp.files) <=> \E k \in 1..N : f = imp.files[k]
      BY <1>2, RangeIs
    <3>2. {disk'[l].path : l \in {m \in Places : disk'[m] # None}} = {f.path : f \in Range(imp.files)}
      <4>1. ASSUME NEW l \in Places, disk'[l] # None
            PROVE  \E f \in Range(imp.files) : f.path = disk'[l].path
        BY <1>3, <3>1, <4>1 DEF Listed
      <4>2. ASSUME NEW f \in Range(imp.files)
            PROVE  \E l \in Places : disk'[l] # None /\ disk'[l].path = f.path
        <5>1. PICK k \in 1..N : f = imp.files[k]
          BY <3>1
        <5> QED  BY <1>4, <5>1 DEF Counted
      <4> QED  BY <4>1, <4>2
    <3>3. imp'.files = imp.files /\ wrong' = wrong
      BY <1>1, <2>2 DEF SameFile
    <3>4. {disk'[l].path : l \in {m \in Places : disk'[m] # None}} = {f.path : f \in Range(imp'.files)}
      BY <3>2, <3>3
    <3>5. ASSUME NEW f \in Range(imp'.files)
          PROVE  /\ f.sha # None => /\ disk'[Folded(f.path)].len = Whole[f.sha]
                                    /\ disk'[Folded(f.path)].len > 0 => disk'[Folded(f.path)].of = f.sha
                 /\ f.sha = None /\ f.path \notin wrong' =>
                      /\ disk'[Folded(f.path)].len = Truth(f.path).length
                      /\ disk'[Folded(f.path)].len > 0 => disk'[Folded(f.path)].of = Truth(f.path).content
      <4>1. PICK k \in 1..N : f = imp.files[k]
        BY <3>1, <3>3
      <4>2. Counted(f, disk'[Folded(f.path)], wrong)
        BY <1>4, <4>1
      <4> QED  BY <3>3, <4>2 DEF Counted, Hashes, Intact
    <3> QED  BY <3>4, <3>5, Zenon DEF PromotedExact
  <2> QED  BY <2>1, <2>2, <2>3, <2>4, <2>5, <2>6 DEF FillInv, Ended
<1> QED  BY <1>5, <1>6

-----------------------------------------------------------------------------
(***************************************************************************)
(* What goes wrong, and the theorems.                                      *)
(***************************************************************************)
LEMMA GiveUpKeeps ==
    ASSUME FillInv, GiveUp
    PROVE  FillInv'
<1>1. /\ imp.pc # "done" /\ imp' = NoImport /\ remote' = remote /\ disk' = disk /\ rec' = rec /\ wrong' = wrong
      /\ promoted' = promoted
  BY DEF GiveUp, Fail, server
<1>2. troubles' \in 0..TroublesMax
  BY TroublesAssumption DEF GiveUp, Trouble, FillInv, Types
<1>3. OnDisk(disk', wrong') /\ remote \in Infos /\ wrong \subseteq Paths
  BY <1>1 DEF FillInv, Types
<1> QED  BY <1>1, <1>2, <1>3, FailKeeps

\* The server's answer is read when it is used.
LEMMA RestKeeps ==
    ASSUME FillInv, remote' \in Infos, troubles' \in 0..TroublesMax,
           disk' = disk, rec' = rec, imp' = imp, wrong' = wrong, promoted' = promoted
    PROVE  FillInv'
<1>1. Types'
  BY DEF FillInv, Types
<1>2. File' = File /\ Place' = Place /\ Here' = Here /\ Budget' = Budget /\ Cap' = Cap
  BY DEF File, Place, Here, Budget, Cap
<1>3. Along'
  BY DEF FillInv, Along, At
<1>4. AtFile'
  BY <1>2 DEF FillInv, AtFile
<1>5. Ended'
  BY DEF FillInv, Ended, PromotedExact
<1> QED  BY <1>1, <1>3, <1>4, <1>5 DEF FillInv

LEMMA ChangeKeeps ==
    ASSUME FillInv, Change
    PROVE  FillInv'
<1>1. troubles' \in 0..TroublesMax
  BY TroublesAssumption DEF Change, Trouble, FillInv, Types
<1> QED  BY <1>1, RestKeeps DEF Change

LEMMA FillInit == Init => FillInv
<1> SUFFICES ASSUME Init  PROVE FillInv
  OBVIOUS
<1>1. imp \in Imports /\ imp.pc = "idle" /\ imp.prev = None /\ imp = NoImport
  BY NoImportIs DEF Init
<1>2. OnDisk(disk, wrong)
  BY DEF Init, OnDisk
<1>3. Types
  BY <1>1, <1>2, TroublesAssumption DEF Init, Types, Recorded
<1>4. Along /\ AtFile
  BY <1>1 DEF Along, AtFile, Before, During
<1>5. Ended
  BY <1>1 DEF Init, Ended, PromotedExact
<1> QED  BY <1>3, <1>4, <1>5 DEF FillInv

LEMMA FillStep == FillInv /\ [Next]_vars => FillInv'
<1> SUFFICES ASSUME FillInv, [Next]_vars  PROVE FillInv'
  OBVIOUS
<1>1. CASE Import  BY <1>1, ImportKeeps
<1>2. CASE Prune  BY <1>2, PruneKeeps
<1>3. CASE Stage  BY <1>3, StageKeeps
<1>4. CASE Record  BY <1>4, RecordKeeps
<1>5. CASE Copy  BY <1>5, CopyKeeps
<1>6. CASE CopyEnds  BY <1>6, CopyEndsKeeps
<1>7. CASE NoCopy  BY <1>7, NoCopyKeeps
<1>8. CASE Get  BY <1>8, GetKeeps
<1>9. CASE Answer  BY <1>9, AnswerKeeps
<1>10. CASE NotFound  BY <1>10, NotFoundKeeps
<1>11. CASE Receive  BY <1>11, ReceiveKeeps
<1>12. CASE EndBody  BY <1>12, EndBodyKeeps
<1>13. CASE Check  BY <1>13, CheckKeeps
<1>14. CASE Count  BY <1>14, CountKeeps
<1>15. CASE Promote  BY <1>15, PromoteKeeps
<1>16. CASE GiveUp  BY <1>16, GiveUpKeeps
<1>17. CASE Garbage  BY <1>17, GarbageKeeps
<1>18. CASE Truncate  BY <1>18, TruncateKeeps
<1>19. CASE Change  BY <1>19, ChangeKeeps
<1>20. CASE UNCHANGED vars
  <2>1. remote \in Infos /\ troubles \in 0..TroublesMax
    BY DEF FillInv, Types
  <2> QED  BY <1>20, <2>1, RestKeeps DEF vars, server
<1> QED  BY <1>1, <1>2, <1>3, <1>4, <1>5, <1>6, <1>7, <1>8, <1>9, <1>10, <1>11, <1>12, <1>13, <1>14, <1>15, <1>16,
            <1>17, <1>18, <1>19, <1>20 DEF Next, GoesOn

LEMMA InLimits == FillInv => WithinLimits
<1> SUFFICES ASSUME FillInv  PROVE WithinLimits
  OBVIOUS
<1>1. Types /\ Along /\ imp \in Imports /\ OnDisk(disk, wrong)
  BY DEF FillInv, Types
<1>2. TypeOK
  <2>1. ASSUME NEW l \in Places, disk[l] # None
        PROVE  disk[l].path \in Paths /\ disk[l].len \in 0..MaxFileBytes /\ disk[l].of \in Contents
    <3>1. disk[l] \in Blobs /\ disk[l].len <= MaxFileBytes
      BY <1>1, <2>1 DEF OnDisk
    <3> QED  BY <3>1, LimitsAre DEF Blobs
  <2>2. imp.pc # "idle" => imp.i \in 0..Len(imp.files)
    <3>1. CASE imp.pc = "prune"
      <4>1. Len(imp.files) \in Nat
        BY <1>1, <3>1 DEF Along, Manifest
      <4>2. imp.i = 0
        BY <3>1 DEF FillInv, Along
      <4> QED  BY <4>1, <4>2
    <3>2. CASE imp.pc \notin {"idle", "prune"}
      BY <1>1, <3>2, HereIs
    <3> QED  BY <3>1, <3>2
  <2>3. imp.pc \in Pcs /\ imp.total \in 0..MaxTotalBytes
    BY <1>1, ImpIs
  <2> QED  BY <1>1, <2>1, <2>2, <2>3 DEF TypeOK, Types, Pcs
<1>3. WithinTotal
  <2> SUFFICES ASSUME imp.pc \in During  PROVE imp.total + LenOf(Here) <= MaxTotalBytes
    BY DEF WithinTotal, During
  <2>1. (File.size # None => File.size <= Budget) /\ LenOf(Here) <= Cap
    BY DEF FillInv, AtFile
  <2>2. imp.pc \notin {"idle", "prune"}
    BY DEF During
  <2>3. LenOf(Here) \in Nat
    BY <1>1, <2>2, HereIs
  <2>4. LenOf(Here) <= Budget /\ Budget = MaxTotalBytes - imp.total /\ imp.total \in Nat
    <3>1. Cap <= Budget /\ Cap \in Nat /\ Budget \in Nat
      BY <1>1, <2>1, <2>2, CapIs
    <3> QED  BY <1>1, <2>1, <2>2, <2>3, <3>1, CapIs
  <2> QED  BY <2>3, <2>4, LimitsAre
<1> QED  BY <1>2, <1>3 DEF WithinLimits

\* At every byte of every attempt, no file and no version is longer than the limits of hf.ts allow.
THEOREM LimitsHold == Spec => []WithinLimits
<1>1. Init => FillInv
  BY FillInit
<1>2. FillInv /\ [Next]_vars => FillInv'
  BY FillStep
<1>3. FillInv => WithinLimits
  BY InLimits
<1> QED  BY <1>1, <1>2, <1>3, PTL DEF Spec

\* What is promoted is the manifest, and its files are what the hashes say or what the server has,
\* over any number of attempts that end anywhere.
THEOREM PromotedIsExact == Spec => []PromotedExact
<1>1. Init => FillInv
  BY FillInit
<1>2. FillInv /\ [Next]_vars => FillInv'
  BY FillStep
<1>3. FillInv => PromotedExact
  BY DEF FillInv, Ended
<1> QED  BY <1>1, <1>2, <1>3, PTL DEF Spec

-----------------------------------------------------------------------------
(***************************************************************************)
(* What is downloaded of a file with a hash is kept and used: as long as   *)
(* nothing wrong was sent, it is a part of that file, and the record of    *)
(* the staging knows the file.                                             *)
(***************************************************************************)
Right == ranges = "honoured" /\ wrong = {} /\ ~changed

Good(info, f) == \E s \in Range(info) : Sound(s) /\ IsFrom(f, s)
Keep(f, d) == d # None => d.len <= f.size /\ (d.len > 0 => d.of = f.sha)
Knows(r, f) == r # None /\ f.path \in DOMAIN r /\ r[f.path].size = f.size /\ r[f.path].sha = f.sha

On(dk, f) == dk[Folded(f.path)]

Kept(info, dk, r) ==
    \A k \in 1..Len(Files(info)) :
        Good(info, Files(info)[k]) => /\ Keep(Files(info)[k], On(dk, Files(info)[k]))
                                      /\ On(dk, Files(info)[k]) # None => Knows(r, Files(info)[k])

Lasting ==
    /\ imp.pc # "idle" => Accepted(remote) /\ imp.files = Files(remote)
    /\ Accepted(remote) => Listed(disk, Files(remote)) /\ Kept(remote, disk, rec)
    /\ imp.pc = "stage" => \A k \in 1..Len(imp.files) :
         k >= imp.i /\ Good(remote, imp.files[k]) /\ At(k) # None => Knows(imp.prev, imp.files[k])
    /\ imp.pc \in Before \cup During \cup {"promote"} =>
         \A k \in 1..Len(imp.files) : Good(remote, imp.files[k]) => Knows(rec, imp.files[k])

\* The body that comes is the file's, and has all of it when it ends.
AtByte ==
    /\ imp.pc = "body" /\ Good(remote, File) => imp.body.length = File.size /\ imp.body.content = File.sha
    /\ imp.pc = "check" /\ Good(remote, File) => Here.len = File.size

Resumable == Right => Lasting /\ AtByte

ResumeInv == FillInv /\ Resumable

\* A step that keeps all that there is of such files.
Grows ==
    \A k \in 1..Len(Files(remote)) :
        Good(remote, Files(remote)[k]) => LenOf(On(disk, Files(remote)[k])) <= LenOf(On(disk', Files(remote)[k]))

\* Steps of a server that stays as it is.
Steady == FillInv /\ Right /\ Lasting /\ AtByte /\ FillInv' /\ remote' = remote

Holds == Lasting' /\ AtByte' /\ Grows

\* What the server has for such a file.
LEMMA GoodIs ==
    ASSUME remote \in Infos, Accepted(remote), NEW k \in 1..Len(Files(remote)), NEW f, f = Files(remote)[k], Good(remote, f)
    PROVE  /\ f.size \in Nat /\ f.sha \in Contents /\ f.sha # None /\ f.path \in Paths
           /\ IsServed(f.path) /\ Served(f.path) \in Siblings
           /\ Served(f.path).path = f.path /\ Served(f.path).length = f.size /\ Served(f.path).content = f.sha
           /\ f.size = Whole[f.sha]
<1>1. PICK s \in Range(remote) : Sound(s) /\ IsFrom(f, s)
  BY DEF Good
<1>2. Manifest(Files(remote)) /\ From(Files(remote), remote)
  BY AcceptedIs
<1>3. f.size \in Nat \cup {None} /\ f.sha \in Contents \cup {None} /\ f.path \in Paths
  BY <1>2, UnhashedIs
<1>4. \A t \in Range(remote) : t \in Siblings
  BY DEF Siblings
<1>5. s.length \in Nat
  BY <1>1, <1>4, SiblingIs
<1>6. f.size = s.length /\ f.sha = s.content /\ f.sha # None /\ s.path = f.path /\ s.length = Whole[f.sha]
  BY <1>1 DEF Sound, IsFrom
<1>7. IsServed(f.path) /\ Served(f.path) \in Range(remote) /\ Served(f.path).path = f.path
  <2>1. IsServed(f.path)
    BY <1>1, <1>6 DEF IsServed
  <2> QED  BY <2>1 DEF IsServed, Served
<1>8. Served(f.path) = s
  BY <1>1, <1>2, <1>6, <1>7 DEF From
<1> QED  BY <1>3, <1>4, <1>5, <1>6, <1>7, <1>8

\* What is there of a file has a length.
LEMMA LenIs ==
    ASSUME NEW dk, NEW w, OnDisk(dk, w), NEW l \in Places
    PROVE  dk[l] \in Blobs \cup {None} /\ LenOf(dk[l]) \in Nat
<1>1. dk[l] \in Blobs \cup {None}
  BY DEF OnDisk
<1> QED  BY <1>1 DEF LenOf, Blobs

LEMMA FileIs ==
    ASSUME remote \in Infos, Accepted(remote), NEW k \in 1..Len(Files(remote))
    PROVE  /\ Files(remote)[k].path \in Paths /\ Folded(Files(remote)[k].path) \in Places
           /\ \A n \in 1..Len(Files(remote)) :
                Folded(Files(remote)[n].path) = Folded(Files(remote)[k].path) => n = k
<1>1. Manifest(Files(remote))
  BY AcceptedIs
<1>2. \A n \in 1..Len(Files(remote)) :
                Folded(Files(remote)[n].path) = Folded(Files(remote)[k].path) => n = k
  BY <1>1 DEF Manifest
<1> QED  BY <1>1, <1>2, UnhashedIs

\* A step that leaves the disk as it is.
LEMMA SameGrows ==
    ASSUME remote \in Infos, Accepted(remote), OnDisk(disk, wrong), disk' = disk
    PROVE  Grows
<1> SUFFICES ASSUME NEW k \in 1..Len(Files(remote))
             PROVE  LenOf(On(disk, Files(remote)[k])) <= LenOf(On(disk', Files(remote)[k]))
  BY DEF Grows
<1>1. LenOf(On(disk, Files(remote)[k])) \in Nat
  BY FileIs, LenIs DEF On
<1>2. On(disk', Files(remote)[k]) = On(disk, Files(remote)[k])
  BY DEF On
<1> QED  BY <1>1, <1>2

\* An import that ends and leaves everything as it is.
LEMMA EndHolds ==
    ASSUME Steady, Accepted(remote), imp' = NoImport, disk' = disk, rec' = rec
    PROVE  Holds
<1>1. imp'.pc = "idle"
  BY NoImportIs
<1>2. Lasting'
  <2>1. Listed(disk, Files(remote)) /\ Kept(remote, disk, rec)
    BY DEF Steady, Lasting
  <2>2. Listed(disk', Files(remote')) /\ Kept(remote', disk', rec')
    BY <2>1 DEF Steady
  <2> QED  BY <1>1, <2>2 DEF Lasting, Before, During
<1>3. AtByte'
  BY <1>1 DEF AtByte
<1>4. Grows
  BY SameGrows DEF Steady, FillInv, Types
<1> QED  BY <1>2, <1>3, <1>4 DEF Holds

\* A step of the file whose turn it is.
LEMMA FileLasts ==
    ASSUME Steady, imp.pc \in Before \cup During, NEW d, disk' = [disk EXCEPT ![Place] = d],
           d # None => d.path = File.path,
           Good(remote, File) => Keep(File, d) /\ LenOf(Here) <= LenOf(d),
           imp'.pc \in Before \cup During \cup {"promote", "idle"},
           imp'.pc # "idle" => imp'.files = imp.files,
           \A f : Knows(rec, f) => Knows(rec', f)
    PROVE  Lasting' /\ Grows
<1> DEFINE fs == Files(remote)
<1>1. /\ Types /\ Along /\ OnDisk(disk, wrong) /\ remote \in Infos /\ Accepted(remote) /\ imp.files = fs
      /\ Listed(disk, fs) /\ Kept(remote, disk, rec)
      /\ \A k \in 1..Len(fs) : Good(remote, fs[k]) => Knows(rec, fs[k])
  BY DEF Steady, FillInv, Types, Lasting, Before, During
<1>p. imp.pc \notin {"idle", "prune"} /\ imp'.pc # "stage"
  BY DEF Before, During
<1>2. /\ imp.i \in 1..Len(fs) /\ File = fs[imp.i] /\ Place \in Places /\ Place = Folded(File.path) /\ Here = disk[Place]
  BY <1>1, <1>p, HereIs
<1>3. disk'[Place] = d /\ \A l \in Places : l # Place => disk'[l] = disk[l]
  BY <1>1, <1>2 DEF OnDisk
<1> HIDE DEF fs
<1>4. ASSUME NEW k \in 1..Len(fs), k # imp.i
      PROVE  On(disk', fs[k]) = On(disk, fs[k])
  <2>1. Folded(fs[k].path) \in Places /\ Folded(fs[k].path) # Place
    BY <1>1, <1>2, <1>4, FileIs DEF fs
  <2> QED  BY <1>3, <2>1 DEF On
<1>5. On(disk', fs[imp.i]) = d /\ On(disk, fs[imp.i]) = Here
  BY <1>2, <1>3 DEF On
<1>6. Listed(disk', fs)
  <2> SUFFICES ASSUME NEW l \in Places, disk'[l] # None  PROVE \E k \in 1..Len(fs) : fs[k].path = disk'[l].path
    BY DEF Listed
  <2>1. CASE l = Place
    BY <1>2, <1>3, <2>1
  <2>2. CASE l # Place
    BY <1>1, <1>3, <2>2 DEF Listed
  <2> QED  BY <2>1, <2>2
<1>7. ASSUME NEW k \in 1..Len(fs), Good(remote, fs[k])
      PROVE  /\ Keep(fs[k], On(disk', fs[k])) /\ Knows(rec', fs[k])
             /\ LenOf(On(disk, fs[k])) <= LenOf(On(disk', fs[k]))
  <2>1. Knows(rec', fs[k])
    BY <1>1, <1>7
  <2>2. CASE k = imp.i
    BY <1>2, <1>5, <1>7, <2>1, <2>2
  <2>3. CASE k # imp.i
    <3>1. Keep(fs[k], On(disk, fs[k]))
      BY <1>1, <1>7 DEF Kept, fs
    <3>2. LenOf(On(disk, fs[k])) \in Nat
      BY <1>1, FileIs, LenIs DEF On, fs
    <3>3. On(disk', fs[k]) = On(disk, fs[k])
      BY <1>4, <2>3
    <3>4. LenOf(On(disk, fs[k])) <= LenOf(On(disk', fs[k]))
      BY <3>2, <3>3
    <3> QED  BY <2>1, <3>1, <3>3, <3>4
  <2> QED  BY <2>2, <2>3
<1>8. Grows
  BY <1>7 DEF Grows, fs
<1>9. Kept(remote', disk', rec')
  BY <1>7 DEF Steady, Kept, fs
<1>10. Lasting'
  <2>1. Files(remote') = fs /\ Accepted(remote') /\ (imp'.pc # "idle" => imp'.files = fs)
    BY <1>1 DEF Steady, fs
  <2>2. \A k \in 1..Len(fs) : Good(remote', fs[k]) => Knows(rec', fs[k])
    BY <1>7 DEF Steady
  <2> HIDE DEF fs
  <2> QED  BY <1>6, <1>9, <1>p, <2>1, <2>2 DEF Lasting, Before, During
<1> QED  BY <1>8, <1>10

\* What there is of the file whose turn it is.
LEMMA TurnIs ==
    ASSUME Steady, imp.pc \notin {"idle", "prune"}
    PROVE  /\ imp \in Imports /\ Types /\ Along /\ AtFile /\ OnDisk(disk, wrong) /\ remote \in Infos /\ Accepted(remote)
           /\ imp.files = Files(remote) /\ imp.i \in 1..Len(imp.files) /\ Len(imp.files) \in Nat
           /\ Listed(disk, imp.files) /\ Kept(remote, disk, rec)
           /\ Here = disk[Place] /\ Place \in Places /\ Here \in Blobs \cup {None} /\ LenOf(Here) \in Nat
           /\ Here # None => Here.path = File.path /\ Here.len \in Nat /\ LenOf(Here) = Here.len
           /\ disk = [disk EXCEPT ![Place] = Here]
           /\ Good(remote, File) =>
                /\ File.size \in Nat /\ File.size # None /\ File.sha \in Contents /\ File.sha # None
                /\ IsServed(File.path) /\ Served(File.path) \in Siblings /\ Served(File.path).path = File.path
                /\ Served(File.path).length = File.size /\ Served(File.path).content = File.sha
                /\ File.size = Whole[File.sha] /\ Keep(File, Here)
                /\ Here # None => Knows(rec, File)
<1>1. /\ imp \in Imports /\ Types /\ Along /\ AtFile /\ OnDisk(disk, wrong) /\ remote \in Infos /\ Accepted(remote)
      /\ imp.files = Files(remote) /\ Listed(disk, imp.files) /\ Kept(remote, disk, rec)
  BY DEF Steady, FillInv, Types, Lasting
<1>2. /\ imp.i \in 1..Len(imp.files) /\ Len(imp.files) \in Nat /\ File = imp.files[imp.i]
      /\ Here = disk[Place] /\ Place \in Places /\ Place = Folded(File.path) /\ Here \in Blobs \cup {None}
      /\ LenOf(Here) \in Nat
      /\ Here # None => Here.path = File.path /\ Here.len \in Nat
  BY <1>1, HereIs
<1>3. Here # None => LenOf(Here) = Here.len
  BY DEF LenOf
<1>4. disk = [disk EXCEPT ![Place] = Here]
  BY <1>1, <1>2 DEF OnDisk
<1>5. ASSUME Good(remote, File)
      PROVE  /\ File.size \in Nat /\ File.size # None /\ File.sha \in Contents /\ File.sha # None
             /\ IsServed(File.path) /\ Served(File.path) \in Siblings /\ Served(File.path).path = File.path
             /\ Served(File.path).length = File.size /\ Served(File.path).content = File.sha
             /\ File.size = Whole[File.sha]
             /\ Keep(File, Here)
             /\ Here # None => Knows(rec, File)
  <2>1. imp.i \in 1..Len(Files(remote)) /\ File = Files(remote)[imp.i]
    BY <1>1, <1>2
  <2>2. /\ File.size \in Nat /\ File.sha \in Contents /\ File.sha # None
        /\ IsServed(File.path) /\ Served(File.path) \in Siblings /\ Served(File.path).path = File.path
        /\ Served(File.path).length = File.size /\ Served(File.path).content = File.sha
        /\ File.size = Whole[File.sha]
    BY <1>1, <1>5, <2>1, GoodIs
  <2>3. On(disk, File) = Here
    BY <1>2 DEF On
  <2>4. Keep(File, Here) /\ (Here # None => Knows(rec, File))
    BY <1>1, <1>5, <2>1, <2>3 DEF Kept
  <2> QED  BY <2>2, <2>4, NoneAssumption
<1> QED  BY <1>1, <1>2, <1>3, <1>4, <1>5

\* The import goes on with the file, and the disk stays as it is.
LEMMA GoesLasts ==
    ASSUME Steady, imp.pc \in Before \cup During, disk' = disk,
           imp'.pc \in Before \cup During \cup {"promote"}, imp'.files = imp.files,
           \A f : Knows(rec, f) => Knows(rec', f)
    PROVE  Lasting' /\ Grows
<1>1. /\ disk' = [disk EXCEPT ![Place] = Here]
      /\ Here # None => Here.path = File.path
      /\ Good(remote, File) => Keep(File, Here)
      /\ LenOf(Here) \in Nat
  BY TurnIs DEF Before, During
<1>2. LenOf(Here) <= LenOf(Here)
  BY <1>1
<1> QED  BY <1>1, <1>2, FileLasts

LEMMA CopyHolds ==
    ASSUME Steady, Copy
    PROVE  Holds
<1> DEFINE pub == Published[Place]
<1>1. /\ imp.pc = "next" /\ Here = None /\ imp' = [imp EXCEPT !.pc = "copy"] /\ rec' = rec
      /\ pub # None /\ LenOf(pub) = File.size
  BY DEF Copy, Copyable, Goto
<1>2. PICK n \in 0..File.size - 1 : disk' = [disk EXCEPT ![Place] = [path |-> File.path, len |-> n, of |-> File.sha]]
  BY DEF Copy, Put
<1> DEFINE d == [path |-> File.path, len |-> n, of |-> File.sha]
<1>3. /\ imp \in Imports /\ Place \in Places /\ (Good(remote, File) => File.size \in Nat)
  BY <1>1, TurnIs
<1>4. imp' \in Imports /\ imp'.pc = "copy" /\ imp'.files = imp.files
  BY <1>1, <1>3, PcIs DEF Pcs, SameFile
<1>5. File.size \in Nat
  <2>1. pub \in Blobs
    BY <1>1, <1>3, PublishedAssumption
  <2> QED  BY <1>1, <2>1 DEF LenOf, Blobs
<1>6. Keep(File, d) /\ LenOf(Here) <= LenOf(d) /\ d.path = File.path
  <2>1. d.len = n /\ d.of = File.sha /\ d.path = File.path /\ n \in Nat /\ n <= File.size /\ LenOf(Here) = 0
    BY <1>1, <1>5 DEF LenOf
  <2> HIDE DEF d
  <2>2. LenOf(d) = 0 \/ LenOf(d) = n
    BY <2>1 DEF LenOf
  <2> QED  BY <2>1, <2>2 DEF Keep
<1>7. Lasting' /\ Grows
  <2> HIDE DEF d
  <2> QED  BY <1>1, <1>2, <1>4, <1>6, FileLasts DEF Before, d
<1>8. AtByte'
  BY <1>4 DEF AtByte
<1> QED  BY <1>7, <1>8 DEF Holds

LEMMA CopyEndsHolds ==
    ASSUME Steady, CopyEnds
    PROVE  Holds
<1> DEFINE pub == Published[Place]
<1>1. /\ imp.pc = "copy" /\ disk' = [disk EXCEPT ![Place] = pub] /\ imp' = [imp EXCEPT !.pc = "get"] /\ rec' = rec
  BY DEF CopyEnds, Goto, Put
<1>2. pub # None /\ pub.path = File.path /\ pub.len = File.size /\ (pub.len > 0 => pub.of = File.sha)
  BY <1>1 DEF Steady, FillInv, AtFile
<1>3. /\ imp \in Imports /\ LenOf(Here) \in Nat /\ (Here # None => LenOf(Here) = Here.len)
      /\ Good(remote, File) => File.size \in Nat /\ Keep(File, Here)
  BY <1>1, TurnIs
<1>4. imp' \in Imports /\ imp'.pc = "get" /\ imp'.files = imp.files
  BY <1>1, <1>3, PcIs DEF Pcs, SameFile
<1>5. Good(remote, File) => Keep(File, pub) /\ LenOf(Here) <= LenOf(pub)
  <2> HIDE DEF pub
  <2> SUFFICES ASSUME Good(remote, File)  PROVE Keep(File, pub) /\ LenOf(Here) <= LenOf(pub)
    OBVIOUS
  <2>1. LenOf(pub) = File.size /\ File.size \in Nat
    BY <1>2, <1>3 DEF LenOf
  <2>2. LenOf(Here) <= File.size
    <3>1. CASE Here = None
      BY <2>1, <3>1 DEF LenOf
    <3>2. CASE Here # None
      BY <1>3, <3>2 DEF Keep
    <3> QED  BY <3>1, <3>2
  <2> QED  BY <1>2, <2>1, <2>2 DEF Keep
<1>6. Lasting' /\ Grows
  <2> HIDE DEF pub
  <2> QED  BY <1>1, <1>2, <1>4, <1>5, FileLasts DEF Before
<1>7. AtByte'
  BY <1>4 DEF AtByte
<1> QED  BY <1>6, <1>7 DEF Holds

LEMMA NoCopyHolds ==
    ASSUME Steady, NoCopy
    PROVE  Holds
<1>1. imp.pc = "next" /\ disk' = disk /\ imp' = [imp EXCEPT !.pc = "get"] /\ rec' = rec
  BY DEF NoCopy, Goto
<1>2. imp \in Imports
  BY <1>1, TurnIs
<1>3. imp' \in Imports /\ imp'.pc = "get" /\ imp'.files = imp.files
  BY <1>1, <1>2, PcIs DEF Pcs, SameFile
<1>4. Lasting' /\ Grows
  BY <1>1, <1>3, GoesLasts DEF Before
<1>5. AtByte'
  BY <1>3 DEF AtByte
<1> QED  BY <1>4, <1>5 DEF Holds

\* The file is removed, or begun anew, where there was nothing of it that counts.
LEMMA NewLasts ==
    ASSUME Steady, imp.pc \in Before \cup During, NEW d, disk' = [disk EXCEPT ![Place] = d], rec' = rec,
           Good(remote, File) => LenOf(Here) = 0,
           d # None => d.path = File.path /\ d.len = 0,
           imp'.pc \in Before \cup During \cup {"idle"}, imp'.pc # "idle" => imp'.files = imp.files
    PROVE  Lasting' /\ Grows
<1>1. LenOf(d) = 0
  BY DEF LenOf
<1>2. Good(remote, File) => Keep(File, d) /\ LenOf(Here) <= LenOf(d)
  <2>1. Good(remote, File) => File.size \in Nat
    BY TurnIs DEF Before, During
  <2> QED  BY <1>1, <2>1 DEF Keep
<1> QED  BY <1>2, FileLasts

LEMMA GetHolds ==
    ASSUME Steady, Get
    PROVE  Holds
<1>1. imp.pc = "get" /\ rec' = rec
  BY DEF Get
<1>2. /\ imp \in Imports /\ Accepted(remote) /\ LenOf(Here) \in Nat /\ (Here # None => LenOf(Here) = Here.len)
      /\ Good(remote, File) => /\ File.size \in Nat /\ File.size # None /\ Keep(File, Here)
                               /\ File.size = Whole[File.sha]
  BY <1>1, TurnIs
<1> DEFINE big == File.size # None /\ File.size > Budget
           all == File.size # None /\ Here # None /\ Here.len = File.size /\ (File.sha # None => Hashes(Here, File))
           nil == File.size = 0 /\ Here = None
           resumes == File.size # None /\ LenOf(Here) \in 1..File.size - 1
           e == [path |-> File.path, len |-> 0, of |-> Truth(File.path).content]
           n == IF resumes THEN Here.len ELSE 0
<1>3. CASE big
  BY <1>1, <1>2, <1>3, EndHolds DEF Get, Fail
<1>4. CASE ~big /\ all
  <2>1. imp' = [imp EXCEPT !.pc = "count"] /\ disk' = disk
    BY <1>4 DEF Get, Goto
  <2>2. imp' \in Imports /\ imp'.pc = "count" /\ imp'.files = imp.files
    BY <1>2, <2>1, PcIs DEF Pcs, SameFile
  <2> QED  BY <1>1, <2>1, <2>2, GoesLasts DEF Before, During, Holds, AtByte
<1>5. CASE ~big /\ ~all /\ nil
  <2>1. imp' = [imp EXCEPT !.pc = "check"] /\ disk' = [disk EXCEPT ![Place] = e]
    BY <1>5 DEF Get, Goto, Put
  <2>2. imp' \in Imports /\ imp'.pc = "check" /\ SameFile(imp, imp')
    BY <1>2, <2>1, PcIs DEF Pcs
  <2>3. LenOf(Here) = 0 /\ e.path = File.path /\ e.len = 0
    BY <1>5 DEF LenOf
  <2>4. Lasting' /\ Grows
    <3> HIDE DEF e
    <3> QED  BY <1>1, <2>1, <2>2, <2>3, NewLasts DEF Before, During, SameFile
  <2>5. AtByte'
    <3>1. File' = File /\ Place' = Place
      BY <2>2 DEF File, Place, SameFile
    <3>2. Here' = e
      BY <1>1, <2>1, <3>1, TurnIs DEF Here, OnDisk
    <3> QED  BY <1>5, <2>2, <2>3, <3>1, <3>2 DEF AtByte
  <2> QED  BY <2>4, <2>5 DEF Holds
<1>6. CASE ~big /\ ~all /\ ~nil
  <2>1. imp' = Asks(imp, n) /\ (IF resumes THEN disk' = disk ELSE disk' = [disk EXCEPT ![Place] = None])
    <3>1. imp' = [imp EXCEPT !.pc = "ask", !.start = n] /\ (IF resumes THEN UNCHANGED disk ELSE Put(None))
      BY <1>6 DEF Get
    <3> QED  BY <3>1 DEF Asks, Put
  <2>2. n \in Nat
    <3>1. CASE resumes
      <4>1. Here # None
        BY <3>1 DEF LenOf
      <4> QED  BY <1>2, <3>1, <4>1
    <3>2. CASE ~resumes
      BY <3>2
    <3> QED  BY <3>1, <3>2
  <2> HIDE DEF n
  <2>3. imp' \in Imports /\ imp'.pc = "ask" /\ imp'.files = imp.files
    BY <1>2, <2>1, <2>2, AsksIs DEF SameFile
  <2>4. AtByte'
    BY <2>3 DEF AtByte
  <2>5. CASE resumes
    BY <1>1, <2>1, <2>3, <2>4, <2>5, GoesLasts DEF Before, During, Holds
  <2>6. CASE ~resumes
    <3>1. ASSUME Good(remote, File)  PROVE LenOf(Here) = 0
      <4>1. CASE Here = None
        BY <4>1 DEF LenOf
      <4>2. CASE Here # None
        <5>1. Here.len <= File.size /\ (Here.len > 0 => Here.of = File.sha) /\ File.size \in Nat /\ File.size # None
          BY <1>2, <3>1, <4>2 DEF Keep
        <5>2. ~(Here.len = File.size /\ Here.len > 0)
          BY <1>2, <1>6, <3>1, <4>2, <5>1 DEF Hashes
        <5>3. Here.len \notin 1..File.size - 1
          BY <1>2, <2>6, <4>2, <5>1
        <5> QED  BY <1>2, <4>2, <5>1, <5>2, <5>3
      <4> QED  BY <4>1, <4>2
    <3> QED  BY <1>1, <2>1, <2>3, <2>4, <2>6, <3>1, NewLasts DEF Before, During, Holds
  <2> QED  BY <2>5, <2>6
<1> QED  BY <1>3, <1>4, <1>5, <1>6

LEMMA AnswerHolds ==
    ASSUME Steady, Answer
    PROVE  Holds
<1> DEFINE s == Served(File.path)
           resumes == imp.start > 0 /\ ranges = "honoured" /\ s.length = File.size
           no == imp.start > 0 /\ ranges # "ignored" /\ ~resumes
           b == IF resumes THEN imp.start ELSE 0
           e == [path |-> File.path, len |-> 0, of |-> s.content]
<1>1. imp.pc = "ask" /\ rec' = rec /\ IsServed(File.path) /\ ranges = "honoured"
  BY DEF Answer, Steady, Right
<1>2. /\ imp \in Imports /\ imp.start \in Nat
      /\ Good(remote, File) => s.length = File.size /\ s.content = File.sha
      /\ imp.start = 0 => Here = None
      /\ s \in Siblings
  <2>1. s \in Range(remote)
    BY <1>1 DEF IsServed, Served
  <2>2. s \in Siblings
    BY <1>1, <2>1, TurnIs DEF Siblings
  <2>3. AtFile /\ imp \in Imports
    BY <1>1, TurnIs
  <2>4. imp.start = 0 => Here = None
    BY <1>1, <2>3 DEF AtFile
  <2> HIDE DEF s
  <2>5. Good(remote, File) => s.length = File.size /\ s.content = File.sha
    BY <1>1, TurnIs DEF s
  <2> QED  BY <2>2, <2>3, <2>4, <2>5, ImpIs
<1>3. Good(remote, File) /\ ~resumes => LenOf(Here) = 0
  <2> HIDE DEF s
  <2>1. Good(remote, File) /\ ~resumes => imp.start = 0
    BY <1>1, <1>2
  <2> QED  BY <1>2, <2>1 DEF LenOf
<1>4. CASE no
  <2>1. disk' = [disk EXCEPT ![Place] = None] /\ imp' = [imp EXCEPT !.start = 0]
    BY <1>4 DEF Answer, NotThisRange, Put
  <2>2. imp' \in Imports /\ imp'.pc = "ask" /\ imp'.files = imp.files
    BY <1>1, <1>2, <2>1, StartIs DEF SameFile
  <2>3. Good(remote, File) => LenOf(Here) = 0
    BY <1>3, <1>4
  <2>4. Lasting' /\ Grows
    BY <1>1, <2>1, <2>2, <2>3, NewLasts DEF During
  <2> QED  BY <2>2, <2>4 DEF Holds, AtByte
<1>5. CASE ~no
  <2>1. imp' = Gets(imp, s, b, b) /\ (IF resumes THEN disk' = disk ELSE disk' = [disk EXCEPT ![Place] = e])
    <3>1. /\ imp' = [imp EXCEPT !.pc = "body", !.body = s, !.start = IF resumes THEN imp.start ELSE 0,
                             !.received = IF resumes THEN imp.start ELSE 0]
          /\ IF resumes THEN UNCHANGED disk ELSE Put([path |-> File.path, len |-> 0, of |-> s.content])
      <4>1. imp.start = imp.start
        OBVIOUS
      <4> QED  BY <1>5, <1>2 DEF Answer, Imports
    <3> QED  BY <3>1 DEF Gets, Put
  <2>2. b \in Nat
    BY <1>2
  <2> HIDE DEF b
  <2>3. imp' \in Imports /\ imp'.pc = "body" /\ SameFile(imp, imp') /\ imp'.body = s
    <3> HIDE DEF s
    <3> QED  BY <1>2, <2>1, <2>2, GetsIs, SMTT(60)
  <2>4. Lasting' /\ Grows
    <3>1. CASE resumes
      BY <1>1, <2>1, <2>3, <3>1, GoesLasts DEF During, SameFile
    <3>2. CASE ~resumes
      <4>1. e.path = File.path /\ e.len = 0
        OBVIOUS
      <4>2. disk' = [disk EXCEPT ![Place] = e] /\ (Good(remote, File) => LenOf(Here) = 0)
        BY <1>3, <2>1, <3>2
      <4> HIDE DEF e
      <4> QED  BY <1>1, <2>3, <4>1, <4>2, NewLasts DEF During, SameFile
    <3> QED  BY <3>1, <3>2
  <2>5. AtByte'
    <3>1. File' = File
      BY <2>3 DEF File, SameFile
    <3>2. Good(remote', File') => imp'.body.length = File'.size /\ imp'.body.content = File'.sha
      <4> HIDE DEF s
      <4> QED  BY <1>2, <2>3, <3>1 DEF Steady
    <3> QED  BY <2>3, <3>2 DEF AtByte
  <2> QED  BY <2>4, <2>5 DEF Holds
<1> QED  BY <1>4, <1>5

LEMMA NotFoundHolds ==
    ASSUME Steady, NotFound
    PROVE  Holds
<1>1. imp.pc = "ask" /\ imp' = NoImport /\ disk' = disk /\ rec' = rec
  BY DEF NotFound, Fail
<1>2. Accepted(remote)
  BY <1>1, TurnIs
<1> QED  BY <1>1, <1>2, EndHolds

\* A body that is all that it should be is never a byte too long.
LEMMA ReceiveHolds ==
    ASSUME Steady, Receive
    PROVE  Holds
<1> DEFINE c == imp.body.content
<1>1. imp.pc = "body" /\ rec' = rec /\ imp.received < imp.body.length /\ Byte(c)
  BY DEF Receive
<1>2. /\ imp \in Imports /\ Types /\ Along
      /\ Here # None /\ Here.len = imp.received /\ Here \in Blobs /\ Here.len \in Nat /\ LenOf(Here) = Here.len
      /\ Here.path = File.path /\ imp.body \in Siblings
      /\ Good(remote, File) => /\ File.size \in Nat /\ File.size # None /\ Keep(File, Here)
                               /\ imp.body.length = File.size /\ c = File.sha
  BY <1>1, TurnIs DEF AtFile, Steady, AtByte
<1>3. c \in Contents /\ imp.body.length \in Nat
  BY <1>2, SiblingIs
<1> HIDE DEF c
<1>c. File.size # None => Cap = File.size
  BY <1>1, <1>2, CapIs
<1>4. CASE Over(imp.received + 1)
  <2>1. disk' = [disk EXCEPT ![Place] = None] /\ imp' = NoImport
    BY <1>1, <1>4 DEF Byte, Put, Fail
  <2>2. ~Good(remote, File)
    BY <1>1, <1>2, <1>3, <1>4, <1>c DEF Over
  <2>3. imp'.pc = "idle"
    BY <2>1, NoImportIs
  <2>4. Lasting' /\ Grows
    BY <1>1, <2>1, <2>2, <2>3, NewLasts DEF During
  <2> QED  BY <2>3, <2>4 DEF Holds, AtByte
<1>5. CASE ~Over(imp.received + 1)
  <2> DEFINE d == Longer(Here, c)
             n == imp.received + 1
  <2>1. imp' = [imp EXCEPT !.received = n] /\ disk' = [disk EXCEPT ![Place] = d]
    BY <1>1, <1>5 DEF Byte, Put
  <2>2. n \in Nat /\ n = Here.len + 1
    BY <1>2
  <2> HIDE DEF n
  <2>3. imp' \in Imports /\ imp'.pc = "body" /\ SameFile(imp, imp') /\ imp'.body = imp.body
    BY <1>1, <1>2, <2>1, <2>2, ReceivedIs
  <2>4. /\ d \in Blobs /\ d.path = File.path /\ d.len = Here.len + 1
        /\ d.of = IF Here.len = 0 \/ Here.of = c THEN c ELSE Mixed
    <3> HIDE DEF d
    <3> QED  BY <1>2, <1>3, LongerIs DEF d
  <2> HIDE DEF d
  <2>5. d # None /\ LenOf(d) = Here.len + 1
    BY <2>4, NoneAssumption DEF LenOf
  <2>6. Good(remote, File) => Keep(File, d) /\ LenOf(Here) <= LenOf(d)
    BY <1>1, <1>2, <2>4, <2>5 DEF Keep
  <2>7. Lasting' /\ Grows
    BY <1>1, <2>1, <2>3, <2>4, <2>6, FileLasts DEF During, SameFile
  <2>8. AtByte'
    <3>1. File' = File
      BY <2>3 DEF File, SameFile
    <3> QED  BY <1>2, <2>3, <3>1 DEF AtByte, Steady, c
  <2> QED  BY <2>7, <2>8 DEF Holds
<1> QED  BY <1>4, <1>5

LEMMA EndBodyHolds ==
    ASSUME Steady, EndBody
    PROVE  Holds
<1>1. imp.pc = "body" /\ imp' = [imp EXCEPT !.pc = "check"] /\ disk' = disk /\ rec' = rec /\ imp.received >= imp.body.length
  BY DEF EndBody, Goto
<1>2. /\ imp \in Imports
      /\ Here # None /\ Here.len = imp.received /\ Here.len \in Nat
      /\ Good(remote, File) => File.size \in Nat /\ Keep(File, Here) /\ imp.body.length = File.size
  BY <1>1, TurnIs DEF AtFile, Steady, AtByte
<1>3. imp' \in Imports /\ imp'.pc = "check" /\ SameFile(imp, imp')
  BY <1>1, <1>2, PcIs DEF Pcs
<1>4. Lasting' /\ Grows
  BY <1>1, <1>3, GoesLasts DEF During, SameFile
<1>5. AtByte'
  <2>1. File' = File /\ Here' = Here
    BY <1>1, <1>3 DEF File, Here, Place, SameFile
  <2>2. Good(remote, File) => Here.len = File.size
    BY <1>1, <1>2 DEF Keep
  <2> QED  BY <1>3, <2>1, <2>2 DEF AtByte, Steady
<1> QED  BY <1>4, <1>5 DEF Holds

LEMMA CheckHolds ==
    ASSUME Steady, Check
    PROVE  Holds
<1>1. imp.pc = "check" /\ rec' = rec
  BY DEF Check
<1>2. /\ imp \in Imports /\ Here # None /\ Here.len \in Nat /\ LenOf(Here) = Here.len
      /\ Good(remote, File) => /\ File.size \in Nat /\ Keep(File, Here) /\ Here.len = File.size
                               /\ File.size = Whole[File.sha]
  BY <1>1, TurnIs DEF AtFile, Steady, AtByte
<1>3. CASE Verified(Here, File)
  <2>1. imp' = [imp EXCEPT !.pc = "count"] /\ disk' = disk
    BY <1>3 DEF Check, Goto
  <2>2. imp' \in Imports /\ imp'.pc = "count" /\ imp'.files = imp.files
    BY <1>2, <2>1, PcIs DEF Pcs, SameFile
  <2> QED  BY <1>1, <2>1, <2>2, GoesLasts DEF During, Holds, AtByte
<1>4. CASE ~Verified(Here, File)
  <2>1. imp' = NoImport /\ disk' = [disk EXCEPT ![Place] = None]
    BY <1>4 DEF Check, Fail, Put
  <2>2. imp'.pc = "idle"
    BY <2>1, NoImportIs
  <2>3. Good(remote, File) => LenOf(Here) = 0
    BY <1>2, <1>4 DEF Verified, Hashes, Keep
  <2>4. Lasting' /\ Grows
    BY <1>1, <2>1, <2>2, <2>3, NewLasts DEF During
  <2> QED  BY <2>2, <2>4 DEF Holds, AtByte
<1> QED  BY <1>3, <1>4

\* What is recorded of a file's own hash leaves what the API said of the files.
Notes(r, p, d) == [r EXCEPT ![p].blob = d]

LEMMA NotedKnows ==
    ASSUME NEW r \in Records, NEW p, NEW d, NEW q, q = Notes(r, p, d), q # None
    PROVE  \A f : Knows(r, f) => Knows(q, f)
<1> SUFFICES ASSUME NEW f, Knows(r, f)  PROVE Knows(q, f)
  OBVIOUS
<1>1. DOMAIN r \subseteq Paths /\ r \in [DOMAIN r -> Entries] /\ f.path \in DOMAIN r
  BY RecordsAre DEF Knows
<1>2. \A e \in Entries : [e EXCEPT !.blob = d].size = e.size /\ [e EXCEPT !.blob = d].sha = e.sha
  BY DEF Entries
<1>3. DOMAIN q = DOMAIN r /\ q[f.path] = IF f.path = p THEN [r[f.path] EXCEPT !.blob = d] ELSE r[f.path]
  BY <1>1 DEF Notes
<1>4. r[f.path] \in Entries
  BY <1>1
<1>5. q[f.path].size = r[f.path].size /\ q[f.path].sha = r[f.path].sha
  BY <1>2, <1>3, <1>4
<1> QED  BY <1>3, <1>5 DEF Knows

LEMMA CountHolds ==
    ASSUME Steady, Count
    PROVE  Holds
<1> DEFINE N == Len(imp.files)
           pc1 == IF imp.i = N THEN "promote" ELSE "next"
           i1 == IF imp.i = N THEN imp.i ELSE imp.i + 1
           t1 == imp.total + Here.len
<1>1. imp.pc = "count"
  BY DEF Count
<1>2. /\ imp \in Imports /\ imp.i \in Nat /\ rec \in Records /\ Recorded(rec, wrong)
      /\ Counted(File, Here, wrong) /\ Here \in Blobs /\ Here.len \in Nat /\ LenOf(Here) = Here.len
      /\ File.sha = None <=> Unhashed(File.path)
  <2>1. /\ imp \in Imports /\ imp.i \in 1..N /\ N \in Nat /\ AtFile /\ Types /\ Along /\ Here \in Blobs \cup {None}
        /\ Here # None => Here.len \in Nat /\ LenOf(Here) = Here.len
    BY <1>1, TurnIs
  <2>2. Counted(File, Here, wrong) /\ rec # None /\ rec \in Records \cup {None} /\ Recorded(rec, wrong)
    BY <1>1, <2>1 DEF AtFile, Along, Types, During
  <2>3. File.sha = None <=> Unhashed(File.path)
    BY <1>1, <2>1, HereIs
  <2> QED  BY <2>1, <2>2, <2>3 DEF Counted
<1>3. ~(t1 > MaxTotalBytes)
  <2>1. imp.total + LenOf(Here) <= MaxTotalBytes
    BY <1>1, InLimits DEF Steady, WithinLimits, WithinTotal
  <2>2. imp.total \in Nat
    BY <1>2, ImpIs, LimitsAre
  <2> QED  BY <1>2, <2>1, <2>2, LimitsAre
<1>4. /\ rec' = IF File.sha = None THEN [rec EXCEPT ![File.path].blob = Here] ELSE rec
      /\ imp' = Counts(imp, pc1, i1, t1) /\ disk' = disk
  BY <1>3 DEF Count, Counts
<1>5. imp' \in Imports /\ imp'.pc = pc1 /\ imp'.files = imp.files
  <2>1. pc1 \in Pcs /\ i1 \in Nat
    BY <1>2 DEF Pcs
  <2>2. t1 \in 0..MaxTotalBytes
    BY <1>2, <1>3, ImpIs, LimitsAre
  <2> HIDE DEF pc1, i1, t1
  <2> QED  BY <1>2, <1>4, <2>1, <2>2, CountsIs
<1>6. \A f : Knows(rec, f) => Knows(rec', f)
  <2>1. CASE File.sha = None
    <3>1. rec' = [rec EXCEPT ![File.path].blob = Here]
      BY <1>4, <2>1
    <3>2. Unhashed(File.path) /\ File.path \notin wrong => Intact(File.path, Here)
      BY <1>2, <2>1 DEF Counted
    <3>3. rec' \in Records
      BY <1>2, <3>1, <3>2, NotesHash
    <3>4. rec' # None
      BY <3>3, RecordsAre
    <3>5. rec' = Notes(rec, File.path, Here)
      BY <3>1 DEF Notes
    <3> QED  BY <1>2, <3>4, <3>5, NotedKnows
  <2>2. CASE File.sha # None
    BY <1>4, <2>2
  <2> QED  BY <2>1, <2>2
<1>7. Lasting' /\ Grows
  BY <1>1, <1>4, <1>5, <1>6, GoesLasts DEF Before, During
<1>8. AtByte'
  BY <1>5 DEF AtByte
<1> QED  BY <1>7, <1>8 DEF Holds

\* Nothing is pruned of what an attempt at the same manifest has left.
LEMMA PruneSame ==
    ASSUME Steady, imp.pc \in {"prune", "promote"}
    PROVE  Pruned = disk
<1>1. /\ OnDisk(disk, wrong) /\ imp.files = Files(remote) /\ Listed(disk, imp.files) /\ Manifest(imp.files)
  BY DEF Steady, FillInv, Types, Along, Lasting
<1>2. /\ OnDisk(Pruned, wrong)
      /\ \A l \in Places : Pruned[l] # None => Pruned[l] = disk[l]
      /\ \A k \in 1..Len(imp.files), l \in Places :
           disk[l] # None /\ disk[l].path = imp.files[k].path => Pruned[l] = disk[l]
  BY <1>1, PrunedIs
<1>3. ASSUME NEW l \in Places  PROVE Pruned[l] = disk[l]
  <2>1. CASE disk[l] = None
    BY <1>2, <2>1
  <2>2. CASE disk[l] # None
    BY <1>1, <1>2, <2>2 DEF Listed
  <2> QED  BY <2>1, <2>2
<1>4. Pruned \in [Places -> Blobs \cup {None}] /\ disk \in [Places -> Blobs \cup {None}]
  BY <1>1, <1>2 DEF OnDisk
<1> DEFINE pk == Pruned
<1> HIDE DEF pk
<1>5. pk = disk
  BY <1>3, <1>4 DEF pk
<1> QED  BY <1>5 DEF pk

\* A step outside of the files that leaves what was downloaded and recorded as it is.
LEMMA QuietHolds ==
    ASSUME Steady, Accepted(remote), disk' = disk, rec' = rec, imp'.pc \in {"idle", "prune", "record", "done"},
           imp'.pc # "idle" => imp'.files = Files(remote)
    PROVE  Holds
<1>1. Listed(disk', Files(remote')) /\ Kept(remote', disk', rec') /\ Accepted(remote')
  BY DEF Steady, Lasting
<1>2. Lasting'
  BY <1>1 DEF Lasting, Before, During, Steady
<1>3. AtByte'
  BY DEF AtByte
<1>4. Grows
  BY SameGrows DEF Steady, FillInv, Types
<1> QED  BY <1>2, <1>3, <1>4 DEF Holds

LEMMA ImportHolds ==
    ASSUME Steady, Import
    PROVE  Holds
<1> DEFINE fs == Files(remote)
<1>1. Accepted(remote) /\ disk' = disk /\ rec' = rec /\ imp' = [NoImport EXCEPT !.pc = "prune", !.files = fs]
  BY DEF Import
<1> HIDE DEF fs
<1>2. imp'.pc = "prune" /\ imp'.files = fs
  BY <1>1 DEF NoImport
<1> QED  BY <1>1, <1>2, QuietHolds DEF fs

LEMMA PruneHolds ==
    ASSUME Steady, Prune
    PROVE  Holds
<1>1. /\ imp.pc = "prune" /\ imp' = Prunes(imp, rec) /\ rec' = rec /\ disk' = Pruned
  BY DEF Prune, Prunes
<1>2. disk' = disk
  BY <1>1, PruneSame
<1>3. /\ imp \in Imports /\ rec \in Records \cup {None} /\ OnDisk(disk, wrong) /\ remote \in Infos
      /\ Accepted(remote) /\ imp.files = Files(remote) /\ Listed(disk, imp.files) /\ Kept(remote, disk, rec)
  BY <1>1 DEF Steady, FillInv, Types, Lasting
<1>4. imp'.pc = "stage" /\ imp'.files = imp.files /\ imp'.i = 1 /\ imp'.prev = rec
  BY <1>1, <1>3, PrunesIs
<1>5. \A k \in 1..Len(imp'.files) :
         k >= imp'.i /\ Good(remote', imp'.files[k]) /\ At(k)' # None => Knows(imp'.prev, imp'.files[k])
  <2> SUFFICES ASSUME NEW k \in 1..Len(Files(remote)), Good(remote, Files(remote)[k]), On(disk, Files(remote)[k]) # None
               PROVE  Knows(rec, Files(remote)[k])
    BY <1>2, <1>3, <1>4 DEF Steady, At, On
  <2> QED  BY <1>3 DEF Kept
<1>6. Lasting'
  BY <1>1, <1>2, <1>3, <1>4, <1>5 DEF Lasting, Steady, Before, During
<1>7. Grows
  BY <1>2, <1>3, SameGrows
<1>8. AtByte'
  BY <1>4 DEF AtByte
<1> QED  BY <1>6, <1>7, <1>8 DEF Holds

\* A file with a hash that an earlier attempt knew is not touched.
LEMMA StageHolds ==
    ASSUME Steady, Stage
    PROVE  Holds
<1> DEFINE Re == Reusable(File, Here)
           N == Len(imp.files)
           pc1 == IF imp.i = N THEN "record" ELSE "stage"
           i1 == IF imp.i = N THEN 1 ELSE imp.i + 1
           rest == [p \in (IF imp.prev = None THEN {} ELSE DOMAIN imp.prev) \ {File.path} |-> imp.prev[p]]
           v1 == IF Re THEN imp.prev ELSE rest
<1>1. imp.pc = "stage" /\ rec' = rec /\ (IF Re THEN disk' = disk ELSE disk' = [disk EXCEPT ![Place] = None])
  BY DEF Stage, Put
<1>2. /\ imp \in Imports /\ Types /\ Along /\ OnDisk(disk, wrong) /\ remote \in Infos /\ Accepted(remote)
      /\ imp.files = Files(remote) /\ imp.i \in 1..N /\ N \in Nat /\ Listed(disk, imp.files) /\ Kept(remote, disk, rec)
      /\ Here = disk[Place] /\ Place \in Places /\ File = imp.files[imp.i] /\ Place = Folded(File.path) /\ Here = At(imp.i)
      /\ imp.prev \in Records \cup {None} /\ Recorded(imp.prev, wrong)
      /\ \A k \in 1..N : k >= imp.i /\ Good(remote, imp.files[k]) /\ At(k) # None => Knows(imp.prev, imp.files[k])
  <2>1. /\ imp \in Imports /\ Types /\ Along /\ OnDisk(disk, wrong) /\ remote \in Infos /\ Accepted(remote)
        /\ imp.files = Files(remote) /\ imp.i \in 1..N /\ N \in Nat /\ Listed(disk, imp.files) /\ Kept(remote, disk, rec)
    BY <1>1, TurnIs
  <2>2. /\ Here = disk[Place] /\ Place \in Places /\ File = imp.files[imp.i] /\ Place = Folded(File.path) /\ Here = At(imp.i)
    BY <1>1, <2>1, HereIs
  <2>3. \A k \in 1..N : k >= imp.i /\ Good(remote, imp.files[k]) /\ At(k) # None => Knows(imp.prev, imp.files[k])
    BY <1>1 DEF Steady, Lasting
  <2> QED  BY <2>1, <2>2, <2>3, ImpIs DEF Types
<1>3. imp' = Stages(imp, pc1, i1, v1)
  <2>1. imp' = [imp EXCEPT !.pc = pc1, !.i = i1, !.prev = v1]
    BY <1>2 DEF Stage, Imports
  <2> QED  BY <2>1 DEF Stages
<1>4. rest \in Records
  <2> DEFINE q == rest
  <2>1. q = [x \in (IF imp.prev = None THEN {} ELSE DOMAIN imp.prev) \ {File.path} |-> imp.prev[x]]
    OBVIOUS
  <2> HIDE DEF q
  <2>2. q \in Records
    BY <1>2, <2>1, RestOf
  <2> QED  BY <2>2 DEF q
<1>5. imp'.pc = pc1 /\ imp'.files = imp.files /\ imp'.i = i1 /\ imp'.prev = v1
  <2>1. pc1 \in Pcs /\ i1 \in Nat /\ v1 \in Records \cup {None}
    BY <1>2, <1>4 DEF Pcs
  <2>2. imp \in Imports
    BY <1>2
  <2> HIDE DEF pc1, i1, v1
  <2>3. imp' = Stages(imp, pc1, i1, v1)
    BY <1>3
  <2> QED  BY <2>1, <2>2, <2>3, StagesIs
<1>6. Good(remote, File) /\ Here # None => Re
  <2> SUFFICES ASSUME Good(remote, File), Here # None  PROVE Re
    OBVIOUS
  <2>1. Knows(imp.prev, File)
    BY <1>2
  <2>2. File.sha # None /\ File.size # None
    BY <1>1, TurnIs
  <2>3. Old(File) = imp.prev[File.path] /\ Old(File).size = File.size /\ Old(File).sha = File.sha
    BY <2>1 DEF Knows, Old
  <2>4. Old(File) # None
    <3>1. imp.prev[File.path] \in Entries
      BY <1>2, <2>1, RecordsAre DEF Knows
    <3>2. Old(File) \in Entries
      BY <2>3, <3>1
    <3> QED  BY <3>2, NoneAssumption
  <2> QED  BY <2>2, <2>3, <2>4 DEF Reusable
<1>7. disk' = disk \/ ~Good(remote, File)
  <2>1. CASE Re
    BY <1>1, <2>1
  <2>2. CASE ~Re /\ Here = None
    <3>1. disk' = [disk EXCEPT ![Place] = Here]
      BY <1>1, <2>2
    <3> QED  BY <1>1, <3>1, TurnIs
  <2>3. CASE ~Re /\ Here # None
    BY <1>6, <2>3
  <2> QED  BY <2>1, <2>2, <2>3
<1> HIDE DEF Re, N, pc1, i1, v1
<1>8. \A l \in Places : l # Place => disk'[l] = disk[l]
  BY <1>1, <1>2 DEF OnDisk
<1>9. ASSUME NEW k \in 1..N
      PROVE  /\ Folded(imp.files[k].path) \in Places
             /\ k # imp.i => Folded(imp.files[k].path) # Place /\ imp.files[k].path # File.path
             /\ Good(remote, imp.files[k]) => On(disk', imp.files[k]) = On(disk, imp.files[k])
  <2>1. Folded(imp.files[k].path) \in Places
    BY <1>2, FileIs DEF N
  <2>2. k # imp.i => Folded(imp.files[k].path) # Place
    BY <1>2, FileIs DEF N
  <2>3. k # imp.i => imp.files[k].path # File.path
    BY <1>2, <2>2
  <2>4. k = imp.i => imp.files[k] = File
    BY <1>2
  <2> QED  BY <1>7, <1>8, <2>1, <2>2, <2>3, <2>4 DEF On
<1>10. Kept(remote', disk', rec') /\ Grows
  <2> SUFFICES ASSUME NEW k \in 1..N, Good(remote, imp.files[k])
               PROVE  /\ Keep(imp.files[k], On(disk', imp.files[k]))
                      /\ On(disk', imp.files[k]) # None => Knows(rec, imp.files[k])
                      /\ LenOf(On(disk, imp.files[k])) <= LenOf(On(disk', imp.files[k]))
    BY <1>1, <1>2 DEF Kept, Grows, Steady, N
  <2>1. On(disk', imp.files[k]) = On(disk, imp.files[k])
    BY <1>9
  <2>2. Keep(imp.files[k], On(disk, imp.files[k])) /\ (On(disk, imp.files[k]) # None => Knows(rec, imp.files[k]))
    BY <1>2 DEF Kept, N
  <2>3. LenOf(On(disk, imp.files[k])) \in Nat
    BY <1>2, <1>9, LenIs DEF On
  <2>4. LenOf(On(disk, imp.files[k])) <= LenOf(On(disk', imp.files[k]))
    BY <2>1, <2>3
  <2> QED  BY <2>1, <2>2, <2>4
<1>11. Listed(disk', imp.files)
  BY <1>1, <1>2, <1>8 DEF Listed, OnDisk
<1>12. ASSUME pc1 = "stage", NEW k \in 1..N, k >= i1, Good(remote, imp.files[k]), On(disk', imp.files[k]) # None
       PROVE  Knows(v1, imp.files[k])
  <2>1. k >= imp.i /\ k # imp.i
    BY <1>2, <1>12 DEF pc1, i1
  <2>2. At(k) # None
    BY <1>9, <1>12 DEF On, At
  <2>3. Knows(imp.prev, imp.files[k])
    BY <1>2, <1>12, <2>1, <2>2
  <2>4. CASE Re
    BY <2>3, <2>4 DEF v1
  <2>5. CASE ~Re
    <3>1. v1 = rest
      BY <2>5 DEF v1
    <3>2. imp.files[k].path \in DOMAIN rest /\ rest[imp.files[k].path] = imp.prev[imp.files[k].path]
      BY <1>9, <2>1, <2>3 DEF Knows
    <3>3. rest # None
      BY <1>4, RecordsAre
    <3> HIDE DEF rest
    <3> QED  BY <2>3, <3>1, <3>2, <3>3 DEF Knows
  <2> QED  BY <2>4, <2>5
<1>13. Lasting'
  <2>1. \A k : At(k)' = On(disk', imp.files[k])
    BY <1>5 DEF At, On
  <2>2. pc1 \in {"record", "stage"}
    BY DEF pc1
  <2>3. imp'.pc = "stage" => \A k \in 1..Len(imp'.files) :
           k >= imp'.i /\ Good(remote', imp'.files[k]) /\ At(k)' # None => Knows(imp'.prev, imp'.files[k])
    BY <1>5, <1>12, <2>1 DEF Steady, N
  <2>4. Accepted(remote') /\ imp'.files = Files(remote') /\ Listed(disk', Files(remote'))
    BY <1>2, <1>5, <1>11 DEF Steady
  <2> QED  BY <1>5, <1>10, <2>2, <2>3, <2>4 DEF Lasting, Before, During
<1>14. AtByte'
  BY <1>5 DEF AtByte, pc1
<1> QED  BY <1>10, <1>13, <1>14 DEF Holds

\* The record of the staging knows every file of the manifest.
LEMMA RecordHolds ==
    ASSUME Steady, Record
    PROVE  Holds
<1> DEFINE P == {f.path : f \in Range(imp.files)}
           at(p) == CHOOSE g \in Range(imp.files) : g.path = p
           e(p) == [size |-> at(p).size, sha |-> at(p).sha, blob |-> IF Old(at(p)) = None THEN None ELSE Old(at(p)).blob]
<1>1. imp.pc = "record" /\ disk' = disk /\ rec' = [p \in P |-> e(p)] /\ imp' = Noted(imp)
  BY DEF Record, Noted
<1>2. /\ imp \in Imports /\ remote \in Infos /\ Accepted(remote) /\ OnDisk(disk, wrong)
      /\ imp.files = Files(remote) /\ Listed(disk, imp.files) /\ Kept(remote, disk, rec)
  BY <1>1, TurnIs
<1>3. Manifest(imp.files)
  BY <1>1 DEF Steady, FillInv, Along
<1>4. imp'.pc = "next" /\ imp'.files = imp.files
  BY <1>1, <1>2, NotedIs
<1>5. rec' # None
  BY <1>4 DEF Steady, FillInv, Along, Before
<1>6. ASSUME NEW k \in 1..Len(imp.files)  PROVE Knows(rec', imp.files[k])
  <2> DEFINE f == imp.files[k]
  <2>1. f \in Range(imp.files)
    BY <1>3, RangeIs
  <2>2. f.path \in P /\ at(f.path) \in Range(imp.files) /\ at(f.path).path = f.path
    BY <2>1
  <2> HIDE DEF at
  <2>3. PICK n \in 1..Len(imp.files) : at(f.path) = imp.files[n]
    BY <1>3, <2>2, RangeIs
  <2>4. n = k
    BY <1>3, <2>2, <2>3 DEF Manifest
  <2>5. rec'[f.path] = e(f.path) /\ f.path \in DOMAIN rec' /\ at(f.path) = f
    BY <1>1, <2>2, <2>3, <2>4
  <2>6. e(f.path).size = f.size /\ e(f.path).sha = f.sha
    BY <2>5
  <2> QED  BY <1>5, <2>5, <2>6 DEF Knows
<1> HIDE DEF P, e, at
<1>7. Kept(remote', disk', rec')
  BY <1>1, <1>2, <1>6 DEF Kept, Steady
<1>8. Lasting'
  <2>1. Accepted(remote') /\ imp'.files = Files(remote') /\ Listed(disk', Files(remote'))
    BY <1>1, <1>2, <1>4 DEF Steady
  <2>2. \A k \in 1..Len(imp'.files) : Knows(rec', imp'.files[k])
    BY <1>4, <1>6
  <2> QED  BY <1>4, <1>7, <2>1, <2>2 DEF Lasting, Before, During
<1>9. AtByte'
  BY <1>4 DEF AtByte
<1>10. Grows
  BY <1>1, <1>2, SameGrows
<1> QED  BY <1>8, <1>9, <1>10 DEF Holds

LEMMA PromoteHolds ==
    ASSUME Steady, Promote
    PROVE  Holds
<1>1. imp.pc = "promote" /\ disk' = Pruned /\ rec' = rec /\ (imp' = NoImport \/ imp' = [imp EXCEPT !.pc = "done"])
  BY DEF Promote, Goto, Fail
<1>2. disk' = disk
  BY <1>1, PruneSame
<1>3. imp \in Imports /\ Accepted(remote) /\ imp.files = Files(remote)
  BY <1>1, TurnIs
<1>4. imp' = NoImport => imp'.pc = "idle"
  BY NoImportIs
<1>5. imp' = [imp EXCEPT !.pc = "done"] => imp'.pc = "done" /\ imp'.files = imp.files
  BY <1>3, PcIs DEF Pcs, SameFile
<1> QED  BY <1>1, <1>2, <1>3, <1>4, <1>5, QuietHolds

LEMMA GiveUpHolds ==
    ASSUME Steady, GiveUp
    PROVE  Holds
<1>1. imp' = NoImport /\ disk' = disk /\ rec' = rec /\ imp.pc # "idle"
  BY DEF GiveUp, Fail
<1>2. Accepted(remote)
  BY <1>1 DEF Steady, Lasting
<1> QED  BY <1>1, <1>2, EndHolds

LEMMA StillHolds ==
    ASSUME Steady, UNCHANGED vars
    PROVE  Lasting' /\ AtByte' /\ (Accepted(remote) => Grows)
<1>1. imp' = imp /\ disk' = disk /\ rec' = rec /\ remote' = remote /\ \A k : At(k)' = At(k)
  BY DEF vars, server, At
<1>2. Lasting'
  BY <1>1 DEF Steady, Lasting
<1>3. AtByte'
  BY <1>1 DEF Steady, AtByte, File, Here, Place
<1>4. Accepted(remote) => Grows
  BY <1>1, SameGrows DEF Steady, FillInv, Types
<1> QED  BY <1>2, <1>3, <1>4

\* A server that is right now was right, and its answer is what it was.
LEMMA WasRight ==
    ASSUME FillInv, [Next]_vars, Right'
    PROVE  Right /\ remote' = remote /\ ~Garbage /\ ~Truncate /\ ~Change
<1>1. ~Garbage /\ ~Truncate /\ ~Change
  BY DEF Garbage, Truncate, Change, Right
<1>2. CASE UNCHANGED vars
  BY <1>1, <1>2 DEF vars, server, Right
<1>3. CASE Next
  <2>1. ranges' = ranges /\ changed' = changed /\ remote' = remote /\ wrong' = wrong
    BY <1>1, <1>3 DEF Next, GoesOn, Import, Prune, Stage, Record, Copy, CopyEnds, NoCopy, Get, Answer, NotFound,
       Receive, EndBody, Check, Count, Promote, GiveUp, server
  <2> QED  BY <1>1, <2>1 DEF Right
<1> QED  BY <1>2, <1>3

LEMMA ResumeStep ==
    ASSUME ResumeInv, [Next]_vars
    PROVE  FillInv' /\ (Right' => Lasting' /\ AtByte' /\ (Accepted(remote) => Grows))
<1>1. FillInv'
  BY FillStep DEF ResumeInv
<1> SUFFICES ASSUME Right'  PROVE Lasting' /\ AtByte' /\ (Accepted(remote) => Grows)
  BY <1>1
<1>2. Right /\ remote' = remote /\ ~Garbage /\ ~Truncate /\ ~Change
  BY WasRight DEF ResumeInv
<1>3. Steady
  BY <1>1, <1>2 DEF ResumeInv, Resumable, Steady
<1>4. CASE UNCHANGED vars
  BY <1>3, <1>4, StillHolds
<1>5. CASE Next
  <2>1. Holds
    BY <1>2, <1>3, <1>5, ImportHolds, PruneHolds, StageHolds, RecordHolds, CopyHolds, CopyEndsHolds, NoCopyHolds,
       GetHolds, AnswerHolds, NotFoundHolds, ReceiveHolds, EndBodyHolds, CheckHolds, CountHolds, PromoteHolds,
       GiveUpHolds DEF Next, GoesOn
  <2> QED  BY <2>1 DEF Holds
<1> QED  BY <1>4, <1>5

LEMMA ResumeInit == Init => ResumeInv
<1> SUFFICES ASSUME Init  PROVE ResumeInv
  OBVIOUS
<1>1. imp.pc = "idle" /\ disk = [l \in Places |-> None]
  BY NoImportIs DEF Init
<1>2. remote \in Infos /\ Accepted(remote) => Listed(disk, Files(remote)) /\ Kept(remote, disk, rec)
  <2> SUFFICES ASSUME remote \in Infos, Accepted(remote)  PROVE Listed(disk, Files(remote)) /\ Kept(remote, disk, rec)
    OBVIOUS
  <2>1. \A k \in 1..Len(Files(remote)) : On(disk, Files(remote)[k]) = None
    BY <1>1, FileIs DEF On
  <2> QED  BY <1>1, <2>1 DEF Listed, Kept, Keep
<1>3. Lasting /\ AtByte
  BY <1>1, <1>2 DEF Init, Lasting, AtByte, Before, During
<1> QED  BY <1>3, FillInit DEF ResumeInv, Resumable

\* What a sibling's place holds is what its file has, or nothing.
LEMMA KeepsStep ==
    ASSUME ResumeInv, [Next]_vars, NEW s \in Range(remote),
           Sound(s), ranges = "honoured", wrong' = {}, ~changed'
    PROVE  LenOf(disk[Folded(s.path)]) <= LenOf(disk'[Folded(s.path)])
<1> DEFINE l == Folded(s.path)
           fs == Files(remote)
<1>1. Types /\ OnDisk(disk, wrong) /\ remote \in Infos /\ FillInv' /\ OnDisk(disk', wrong')
  BY ResumeStep DEF ResumeInv, FillInv, Types
<1>2. l \in Places
  <2>1. s \in Siblings
    BY <1>1 DEF Siblings
  <2> QED  BY <2>1 DEF Sound, Paths, Places
<1>3. LenOf(disk[l]) \in Nat /\ LenOf(disk'[l]) \in Nat
  <2> HIDE DEF l
  <2> QED  BY <1>1, <1>2, LenIs
<1>4. Right'
  <2>1. ranges' = ranges
    BY DEF Next, GoesOn, Import, Prune, Stage, Record, Copy, CopyEnds, NoCopy, Get, Answer, NotFound, Receive, EndBody,
       Check, Count, Promote, GiveUp, Garbage, Truncate, Change, server, vars
  <2> QED  BY <2>1 DEF Right
<1>5. Right /\ Lasting /\ ~Garbage /\ ~Truncate /\ ~Change
  BY <1>4, WasRight DEF ResumeInv, Resumable
<1>6. CASE ~Accepted(remote)
  <2>1. imp.pc = "idle"
    BY <1>5, <1>6 DEF Lasting
  <2>2. disk' = disk
    BY <1>5, <1>6, <2>1 DEF Next, GoesOn, Import, Prune, Stage, Record, Copy, CopyEnds, NoCopy, Get, Answer, NotFound,
       Receive, EndBody, Check, Count, Promote, GiveUp, vars
  <2> QED  BY <1>3, <2>2
<1>7. CASE Accepted(remote)
  <2>1. Grows /\ Listed(disk, fs) /\ From(fs, remote)
    BY <1>1, <1>4, <1>5, <1>7, ResumeStep, AcceptedIs DEF Lasting
  <2>2. CASE disk[l] = None
    BY <1>3, <2>2 DEF LenOf
  <2>3. CASE disk[l] # None
    <3>1. Folded(disk[l].path) = l
      BY <1>1, <1>2, <2>3 DEF OnDisk
    <3>2. PICK k \in 1..Len(fs) : fs[k].path = disk[l].path
      BY <1>2, <2>1, <2>3 DEF Listed
    <3>3. PICK t \in Range(remote) : IsFrom(fs[k], t)
      BY <2>1 DEF From
    <3>4. t = s
      BY <2>1, <3>1, <3>2, <3>3 DEF From, IsFrom
    <3>5. Good(remote, fs[k])
      BY <3>3, <3>4 DEF Good
    <3>6. On(disk, fs[k]) = disk[l] /\ On(disk', fs[k]) = disk'[l]
      BY <3>1, <3>2 DEF On
    <3>7. LenOf(On(disk, fs[k])) <= LenOf(On(disk', fs[k]))
      BY <2>1, <3>5 DEF Grows
    <3> QED  BY <3>6, <3>7
  <2> QED  BY <2>2, <2>3
<1> QED  BY <1>6, <1>7

\* No step of any attempt gives up a byte of a file with a hash, as long as what the server sends is right:
\* whatever is downloaded of it is there for the next attempt.
THEOREM DownloadedIsKept == Spec => KeptForResume
<1>1. Init => ResumeInv
  BY ResumeInit
<1>2. ResumeInv /\ [Next]_vars => ResumeInv'
  BY ResumeStep DEF ResumeInv, Resumable
<1>3. ResumeInv /\ [Next]_vars
        => [\A s \in Range(remote) :
              Sound(s) /\ ranges = "honoured" /\ wrong' = {} /\ ~changed'
                => LenOf(disk[Folded(s.path)]) <= LenOf(disk'[Folded(s.path)])]_vars
  BY KeepsStep
<1> QED  BY <1>1, <1>2, <1>3, PTL DEF Spec, KeptForResume
=============================================================================
