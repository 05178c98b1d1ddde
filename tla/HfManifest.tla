----------------------------- MODULE HfManifest -----------------------------
(***************************************************************************)
(* validateManifest and validatePath of src/src/hf.ts: which answers of    *)
(* the model API an import works with.  An answer is the sequence of its   *)
(* siblings.  A path is the sequence of its components, or Junk where one  *)
(* of the tests on its characters refuses it.  A sibling's length and      *)
(* content are not part of the answer: they are what its URL serves.       *)
(***************************************************************************)
EXTENDS Naturals, FiniteSets, Sequences, SequencesExt, FiniteSetsExt

CONSTANTS
    Fold,          \* fold, on the components of paths
    Skip,          \* the path in SKIP
    Junk, None,
    MaxFiles, MaxDepth, MaxFileBytes, MaxTotalBytes  \* Limits

ASSUME LimitsAssumption == {MaxFiles, MaxDepth, MaxFileBytes, MaxTotalBytes} \subseteq Nat

Folded(path) == [k \in DOMAIN path |-> Fold[path[k]]]
Directories(path) == Prefixes(path) \ {path}

PathOk(path) == path # Junk /\ Len(path) \in 1..MaxDepth

Size(s) == IF s.size # None THEN s.size ELSE s.lfsSize

SiblingOk(s) ==
    /\ PathOk(s.path)
    /\ s.size # None /\ s.lfsSize # None => s.size = s.lfsSize
    /\ s.path # Skip /\ Size(s) # None => Size(s) <= MaxFileBytes

\* One file or directory, or two that a filesystem may take for one.
Alias(p, q) ==
    p = q \/ \E x \in Prefixes(p), y \in Prefixes(q) : x # y /\ Folded(x) = Folded(y)

\* How many of I come up to i.
Rank(I, i) == Cardinality({j \in I : j <= i})

\* The files, in the order of the siblings.
Files(info) ==
    LET kept == {i \in DOMAIN info : info[i].path # Skip}
        nth(n) == info[CHOOSE i \in kept : Rank(kept, i) = n]
    IN  [n \in 1..Cardinality(kept) |-> [path |-> nth(n).path, size |-> Size(nth(n)), sha |-> nth(n).sha]]

KnownTotal(files) ==
    FoldLeft(LAMBDA n, f : IF f.size = None THEN n ELSE n + f.size, 0, files)

Accepted(info) ==
    /\ Len(info) <= MaxFiles
    /\ \A i \in DOMAIN info : SiblingOk(info[i])
    /\ \A i, j \in DOMAIN info : i < j => ~Alias(info[i].path, info[j].path)
    /\ \A f \in Range(Files(info)), s \in Range(info) :
         Folded(f.path) \notin {Folded(d) : d \in Directories(s.path)}
    /\ KnownTotal(Files(info)) <= MaxTotalBytes
    /\ Files(info) # <<>>
=============================================================================
