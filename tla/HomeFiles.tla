----------------------------- MODULE HomeFiles ------------------------------
(***************************************************************************)
(* The writes of one JSON file under the home directory: atomicWriteJson   *)
(* (src/src/atomic.ts) and the read-modify-write calls built on it in      *)
(* src/src/node.ts.  Txns go through a promise chain of their own, as      *)
(* mutateShares does (nextSeq, remember and adoptNodes have such chains    *)
(* too); Loose calls read and write without one, as follow and unshare do. *)
(*                                                                         *)
(* The content of the file is the set of calls whose change it contains:   *)
(* a call adds its own to what it has read.  An action is one file system  *)
(* operation or what runs between two awaits.                              *)
(***************************************************************************)
EXTENDS Naturals, Sequences, SequencesExt

CONSTANTS
    Txns,        \* calls of mutateShares
    Loose,       \* calls of follow
    CrashesMax,  \* bound on crashes
    None

Calls == Txns \cup Loose
Contents == SUBSET Calls
Torn == {None}   \* half a file: no JSON

ASSUME CallsAssumption == None \notin Calls
ASSUME CrashesAssumption == CrashesMax \in Nat

VARIABLES
    disk,     \* the content of the file
    tmp,      \* the temporary file of each call
    value,    \* what each call is going to write
    pc,
    chain,    \* chains.get(target): the last write, unless it has been removed
    after,    \* the write that each call's write waits for
    txn,      \* sharesTxn: the last transaction
    before,   \* the transaction that each transaction waits for
    hooked,   \* settled writes that have yet to remove their entry of chains
    line,     \* the writes asked for that have not ended, in the order of the calls
    misread,  \* a read has failed, and the default was taken for the content
    crashes

files == <<disk, tmp>>
queues == <<chain, after, txn, before>>
vars == <<disk, tmp, value, pc, chain, after, txn, before, hooked, line, misread, crashes>>

Settled(c) == pc[c] \in {"done", "failed"}
Go(c, to) == pc' = [pc EXCEPT ![c] = to]

-----------------------------------------------------------------------------
(***************************************************************************)
(* The callers.                                                            *)
(***************************************************************************)
Begin(c) ==
    /\ pc[c] = "idle"
    /\ IF c \in Txns
       THEN /\ before' = [before EXCEPT ![c] = txn]
            /\ txn' = c
            /\ Go(c, "turn")
       ELSE Go(c, "read") /\ UNCHANGED <<before, txn>>
    /\ UNCHANGED <<files, value, chain, after, hooked, line, misread, crashes>>

\* Fault: the transaction does not wait for the one before it.
Turn_AtOnce(c) == pc[c] = "turn"

Turn(c) == pc[c] = "turn" /\ (before[c] # None => Settled(before[c]))

\* readJson answers the default for any error.
Read(c) ==
    /\ pc[c] = "read" \/ Turn(c)
    /\ \E ok \in BOOLEAN :
         /\ value' = [value EXCEPT ![c] = (IF ok THEN disk ELSE {}) \cup {c}]
         /\ misread' = (misread \/ ~ok)
    /\ Go(c, "have")
    /\ UNCHANGED <<files, queues, hooked, line, crashes>>

-----------------------------------------------------------------------------
(***************************************************************************)
(* atomicWriteJson.                                                        *)
(***************************************************************************)
Ask(c) ==
    /\ pc[c] = "have"
    /\ after' = [after EXCEPT ![c] = chain]
    /\ chain' = c
    /\ line' = Append(line, c)
    /\ Go(c, "queued")
    /\ UNCHANGED <<files, value, txn, before, hooked, misread, crashes>>

Ends(c, how) ==
    /\ Go(c, how)
    /\ hooked' = hooked \cup {c}
    /\ UNCHANGED <<value, queues, misread, crashes>>

\* mkdir and the creation of the temporary file, whose name no other has.
Open(c) ==
    /\ pc[c] = "queued"
    /\ after[c] # None => Settled(after[c])
    /\ \/ /\ tmp' = [tmp EXCEPT ![c] = Torn]
          /\ Go(c, "fill")
          /\ UNCHANGED <<disk, value, queues, hooked, line, misread, crashes>>
       \/ Ends(c, "failed") /\ line' = RemoveFirst(line, c) /\ UNCHANGED files

\* A failed writeFile leaves what it has written.
Fill(c) ==
    /\ pc[c] = "fill"
    /\ \/ /\ tmp' = [tmp EXCEPT ![c] = value[c]]
          /\ Go(c, "rename")
          /\ UNCHANGED <<disk, value, queues, hooked, line, misread, crashes>>
       \/ Ends(c, "failed") /\ line' = RemoveFirst(line, c) /\ UNCHANGED files

\* Fault: no writeFile has to end before the rename.
Ready_Early(c) == pc[c] \in {"fill", "rename"}

Ready(c) == pc[c] = "rename"

Rename(c) ==
    /\ Ready(c)
    /\ line' = RemoveFirst(line, c)
    /\ \/ /\ disk' = tmp[c]
          /\ tmp' = [tmp EXCEPT ![c] = None]
          /\ Ends(c, "done")
       \/ Go(c, "unlink") /\ UNCHANGED <<files, value, queues, hooked, misread, crashes>>

Unlink(c) ==
    /\ pc[c] = "unlink"
    /\ \/ tmp' = [tmp EXCEPT ![c] = None]
       \/ UNCHANGED tmp
    /\ Ends(c, "failed")
    /\ UNCHANGED <<disk, line>>

\* Fault: a write removes the entry of a later one.
Entry_Any(c) == None

Entry(c) == IF chain = c THEN None ELSE chain

\* settled.then(...)
Forget(c) ==
    /\ c \in hooked
    /\ hooked' = hooked \ {c}
    /\ chain' = Entry(c)
    /\ UNCHANGED <<files, value, pc, after, txn, before, line, misread, crashes>>

-----------------------------------------------------------------------------
\* The files stay; who waited for a call never learns how it ended.
Crash ==
    /\ crashes < CrashesMax
    /\ crashes' = crashes + 1
    /\ pc' = [c \in Calls |-> IF pc[c] = "idle" \/ Settled(c) THEN pc[c] ELSE "dead"]
    /\ chain' = None
    /\ txn' = None
    /\ hooked' = {}
    /\ line' = <<>>
    /\ UNCHANGED <<files, value, after, before, misread>>

Init ==
    /\ disk = {}
    /\ tmp = [c \in Calls |-> None]
    /\ value = [c \in Calls |-> {}]
    /\ pc = [c \in Calls |-> "idle"]
    /\ chain = None /\ after = [c \in Calls |-> None]
    /\ txn = None /\ before = [c \in Calls |-> None]
    /\ hooked = {} /\ line = <<>>
    /\ misread = FALSE /\ crashes = 0

Step(c) == Read(c) \/ Ask(c) \/ Open(c) \/ Fill(c) \/ Rename(c) \/ Unlink(c) \/ Forget(c)

Next == Crash \/ \E c \in Calls : Begin(c) \/ Step(c)

Spec == Init /\ [][Next]_vars

\* File operations end, one way or the other.
FairSpec == Spec /\ \A c \in Calls : WF_vars(Step(c))

-----------------------------------------------------------------------------
TypeOK ==
    /\ disk \in Contents
    /\ tmp \in [Calls -> Contents \cup {None, Torn}]
    /\ value \in [Calls -> Contents]
    /\ pc \in [Calls -> {"idle", "turn", "read", "have", "queued", "fill", "rename",
                         "unlink", "done", "failed", "dead"}]
    /\ chain \in Calls \cup {None} /\ after \in [Calls -> Calls \cup {None}]
    /\ txn \in Txns \cup {None} /\ before \in [Calls -> Txns \cup {None}]
    /\ hooked \subseteq Calls
    /\ line \in Seq(Calls)
    /\ misread \in BOOLEAN /\ crashes \in 0..CrashesMax

\* A change that a transaction has confirmed is never lost: not to a later
\* transaction, not to one that fails, not to a crash (node.ts:513, "All
\* shares.json writes go through one serialised, atomic transaction chain").
\* Only where every call that writes the file is a transaction, and no read fails.
ConfirmedStays ==
    (~misread /\ \A c \in Loose : pc[c] = "idle")
        => \A c \in Txns : pc[c] = "done" => c \in disk

\* The file behaves as an atomic one: what is on the disk is always the whole
\* content that some call asked to write, the writes take effect in the order of
\* the calls whoever fails (atomic.ts:27, "the last call to resolve is the
\* content on disk"), and every one of them ends.
Abstract == INSTANCE AtomicFile WITH
    Values <- Contents,
    Empty <- {},
    content <- disk,
    waiting <- [i \in 1..Len(line) |-> value[line[i]]]

ImplementsAtomicFile == Abstract!Spec
=============================================================================
