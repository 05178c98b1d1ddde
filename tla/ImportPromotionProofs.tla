---------------------- MODULE ImportPromotionProofs ----------------------
(***************************************************************************)
(* What holds of ImportPromotion for any versions, any number of crashes   *)
(* and any troubles: types, mutual exclusion and what a recovery achieves  *)
(* whatever goes wrong; that what is promoted, linked, published, shared   *)
(* or read by a torrent is there, and that the records match, under the    *)
(* troubles that each of these stands.                                     *)
(***************************************************************************)
EXTENDS ImportPromotion, TLAPS

-----------------------------------------------------------------------------
(***************************************************************************)
(* The inductive invariants.                                               *)
(***************************************************************************)
\* From the commit point on; and before, when a version is staged.
Committed == {"link", "clean", "cleanrec", "retire", "prune"}
Staging == imp.pc \notin {"idle", "begin"} \cup Committed /\ ~imp.again

\* The importer and the recoverer exclude each other.
Locked ==
    /\ imp.pc # "idle" <=> lock = "import"
    /\ rcv.pc \in {"pending", "unrecord", "prune"} <=> lock = "recovery"

\* What is staged is not the promoted version, until it is promoted.
Importing ==
    /\ imp.pc # "idle" => imp.v \in Versions
    /\ imp.again => imp.pc \in {"seed", "upsert", "publish", "stopprev"} /\ IsCurrent(imp.v)
    /\ imp.pc = "stopprev" => imp.again
    /\ Staging => ~IsCurrent(imp.v)
    /\ imp.pc \in {"same", "unrecord"} => ptr # None
    /\ imp.pc \in Committed => IsCurrent(imp.v)

Recovering == rcv.pc \in {"unrecord", "prune"} => ptr # None

ControlInv == TypeOK /\ Locked /\ Importing /\ Recovering

\* What is staged is complete before it is journaled, and what is journaled, or
\* promoted, is complete.
Whole == Only({"haste", "write", "demand", "unsized"})
Staged ==
    /\ imp.pc \notin {"drop", "dropped"}
    /\ Staging /\ imp.pc \in {"stage", "record", "download", "unrecord"} => imp.v \notin pend
    /\ Staging /\ imp.pc \notin {"unpend", "stage", "record", "download"} => dirs[imp.v] = "full"
PendingComplete == \A v \in pend : dirs[v] = "full"
PromotedComplete == ptr # None => dirs[ptr.version] = "full"

CompleteInv == Staged /\ PendingComplete /\ PromotedComplete

\* The link is behind current.json only from the commit point until the link is set, or
\* from a crash in between until a recovery has repaired it.
Untroubled == Only({"demand"})
Phases ==
    /\ up = "down" => imp.pc = "idle" /\ rcv.pc = "idle"
    /\ up = "starting" => imp.pc = "idle" /\ rcv.pc # "idle" /\ rcv.pc # "reprune"
    /\ up # "down" => lock # "left"
LinkFollows ==
    /\ link # None => ptr # None
    /\ link # None /\ link # ptr.version =>
          \/ imp.pc = "link" \/ up = "down"
          \/ up = "starting" /\ rcv.pc = "lock"
          \/ rcv.pc = "pending"
LinkInv == Phases /\ LinkFollows /\ (link # None => dirs[link] = "full")

-----------------------------------------------------------------------------
(***************************************************************************)
(* The records of an import and of a recovery.                             *)
(***************************************************************************)
\* An import that leaves, or goes on to the next step, is in a proper state.
LEMMA LeaveType == Leave => imp' \in ImportState
BY DEF Leave, NoImport, ImportState, ImportPcs

LEMMA GotoType ==
    ASSUME imp \in ImportState, NEW pc \in ImportPcs, Goto(pc)
    PROVE  imp' \in ImportState
BY DEF Goto, ImportState

\* So is a recovery that is over.
LEMMA NoRecoveryType == NoRecovery \in RecoveryState
BY DEF NoRecovery, RecoveryState, RecoveryPcs

-----------------------------------------------------------------------------
(***************************************************************************)
(* Types and control, whatever goes wrong.                                 *)
(***************************************************************************)
\* Begin stages no promoted version.
LEMMA BeginControl == ControlInv /\ Begin => ControlInv'
<1> SUFFICES ASSUME ControlInv, Begin PROVE ControlInv'
    OBVIOUS
<1> USE NoneAssumption DEF ControlInv, Begin, At, env
<1>1. imp.v \in Versions /\ imp \in ImportState /\ imp.pc = "begin" /\ ~imp.again
    BY DEF Importing, TypeOK
<1>2. dirs' \in [Versions -> {"none", "part", "full"}]
    BY <1>1 DEF TypeOK
<1>3. CASE ~IsCurrent(imp.v)
    <2>1. imp' = [imp EXCEPT !.pc = "unpend"] /\ lock' = lock
        BY <1>3 DEF Goto
    <2>2. TypeOK'
        BY <1>1, <1>2, <2>1 DEF TypeOK, ImportPcs, ImportState
    <2> QED
        BY <1>1, <1>3, <2>1, <2>2
        DEF Locked, Recovering, Importing, Staging, Committed, IsCurrent, ImportState
<1>4. CASE IsCurrent(imp.v) /\ dirs[imp.v] = "full"
    <2>1. imp' = [imp EXCEPT !.pc = "seed", !.again = TRUE] /\ lock' = lock
        BY <1>4
    <2>2. TypeOK'
        BY <1>1, <1>2, <2>1, ZenonT(60) DEF TypeOK, ImportPcs, ImportState
    <2> QED
        BY <1>1, <1>4, <2>1, <2>2
        DEF Locked, Recovering, Importing, Staging, Committed, IsCurrent, ImportState
<1>5. CASE Leave
    <2>1. TypeOK'
        BY <1>2, <1>5, LeaveType DEF TypeOK, Leave
    <2> QED
        BY <1>1, <1>5, <2>1 DEF Locked, Recovering, Importing, Staging, Committed, Leave, NoImport
<1> QED
    BY <1>3, <1>4, <1>5

\* So do the steps that remove a journal.
LEMMA RemovePendingControl == ControlInv /\ RemovePending => ControlInv'
<1> SUFFICES ASSUME ControlInv, RemovePending PROVE ControlInv'
    OBVIOUS
<1> USE NoneAssumption DEF ControlInv, RemovePending, At, env
<1>1. imp' \in ImportState
    BY LeaveType, GotoType DEF TypeOK, ImportPcs
<1>2. TypeOK'
    BY <1>1 DEF TypeOK, Leave
<1> QED
    BY <1>2 DEF Locked, Importing, Staging, Committed, Recovering, Goto, Leave, NoImport, IsCurrent,
       TypeOK, ImportState

\* A failure drops the staged version, or ends the import.
LEMMA FailureControl ==
    ControlInv /\ (Throws \/ ShareFails) => ControlInv'
<1> SUFFICES ASSUME ControlInv, Throws \/ ShareFails PROVE ControlInv'
    OBVIOUS
<1> USE HashAssumption, NoneAssumption DEF ControlInv, At, env
<1>1. imp.v \in Versions /\ Hash \in Infohashes /\ imp.prev \in Infohashes \cup {None}
    BY DEF Throws, ShareFails, Importing, Hash, TypeOK, ImportState
<1>2. \/ Leave
      \/ ~imp.again /\ imp.pc \in {"seed", "upsert", "publish"} /\ Goto("drop") /\ lock' = lock
    BY DEF Throws, ShareFails
<1>3. imp' \in ImportState
    BY <1>2, LeaveType, GotoType DEF TypeOK, ImportPcs
<1>4. TypeOK'
    BY <1>1, <1>2, <1>3 DEF TypeOK, Throws, ShareFails, Stopped, Leave, files
<1>5. ptr' = ptr /\ rcv' = rcv
    BY DEF Throws, ShareFails, files
<1>6. imp.pc # "idle"
    BY DEF Throws, ShareFails
<1> QED
    BY <1>2, <1>4, <1>5, <1>6
    DEF Locked, Importing, Staging, Committed, Recovering, Goto, Leave, NoImport, IsCurrent, TypeOK,
        ImportState

\* The seeding remembers what it replaces.
LEMMA SeedControl == ControlInv /\ Seed => ControlInv'
<1> SUFFICES ASSUME ControlInv, Seed PROVE ControlInv'
    OBVIOUS
<1> USE HashAssumption DEF ControlInv, Seed, At, env
<1>1. imp' \in ImportState /\ Hash \in Infohashes /\ imp.v \in Versions
    BY ZenonT(60) DEF TypeOK, Importing, ImportState, ImportPcs, Hash
<1>2. TypeOK'
    BY <1>1 DEF TypeOK, files
<1> QED
    BY <1>2 DEF TypeOK, ImportState, Locked, Importing, Staging, Committed, Recovering, IsCurrent, files

\* The journal remembers the share of the moment.
LEMMA JournalControl == ControlInv /\ Journal => ControlInv'
<1> SUFFICES ASSUME ControlInv, Journal PROVE ControlInv'
    OBVIOUS
<1> USE DEF ControlInv, Journal, At, env
<1>1. imp' \in ImportState /\ imp.v \in Versions
    BY DEF TypeOK, Importing, ImportState, ImportPcs
<1>2. TypeOK'
    BY <1>1 DEF TypeOK
<1> QED
    BY <1>2 DEF TypeOK, ImportState, Locked, Importing, Staging, Committed, Recovering, IsCurrent

\* Every step of an import keeps the lock until it ends, and promotes only at the commit point.
LEMMA ImporterControl == ControlInv /\ Importer => ControlInv'
<1> SUFFICES ASSUME ControlInv, Importer PROVE ControlInv'
    OBVIOUS
<1> USE HashAssumption, NoneAssumption
    DEF ControlInv, TypeOK, ImportState, ImportPcs, Locked, Importing, Staging, Committed,
        Recovering, IsCurrent, At, Goto, Hash, files, env
<1>1. CASE Stage \/ Record \/ Download
    BY <1>1 DEF Stage, Record, Download
<1>2. CASE Upsert \/ Publish
    BY <1>2 DEF Upsert, Publish
<1>3. CASE StopPrevious
    BY <1>3 DEF StopPrevious, Stopped, Leave, NoImport
<1>4. CASE Drop
    BY <1>4 DEF Drop
<1>5. CASE Dropped
    BY <1>5 DEF Dropped, Leave, NoImport
<1>6. CASE Cancel
    BY <1>6 DEF Cancel, Stopped
<1>7. CASE Proceed
    BY <1>7 DEF Proceed
<1>8. CASE RemoveDuplicate
    BY <1>8 DEF RemoveDuplicate, Pointer
<1>9. CASE WritePointer
    BY <1>9 DEF WritePointer, Pointer
<1>10. CASE SetModelLink \/ RemoveRecord
    BY <1>10 DEF SetModelLink, RemoveRecord
<1>11. CASE StopOld
    BY <1>11 DEF StopOld, Stopped
<1>12. CASE PruneOld
    BY <1>12 DEF PruneOld, Pruned, Leave, NoImport
<1> QED
    BY <1>1, <1>2, <1>3, <1>4, <1>5, <1>6, <1>7, <1>8, <1>9, <1>10, <1>11, <1>12, BeginControl,
       RemovePendingControl, FailureControl, SeedControl, JournalControl DEF Importer

\* A recovery changes current.json only under the lock.
LEMMA RecovererControl == ControlInv /\ (Recover \/ Recoverer) => ControlInv'
<1> SUFFICES ASSUME ControlInv, Recover \/ Recoverer PROVE ControlInv'
    OBVIOUS
<1> USE HashAssumption, NoneAssumption
    DEF ControlInv, TypeOK, RecoveryPcs, Locked, Importing, Staging, Committed, Recovering,
        IsCurrent, RAt, RGoto, Unlock, files, env, Journaled
<1>1. CASE Recover
    <2>1. rcv' \in RecoveryState
        BY <1>1 DEF Recover, NoRecovery, RecoveryState
    <2> QED
        BY <1>1, <2>1 DEF Recover, NoRecovery
<1>2. CASE RLock
    BY <1>2 DEF RLock, RecoveryState
<1>3. ASSUME NEW v \in Versions, RCommitted(v) PROVE ControlInv'
    BY <1>3 DEF RCommitted
<1>4. ASSUME NEW v \in Versions, RComplete(v) PROVE ControlInv'
    BY <1>4 DEF RComplete, Pointer, RecoveryState
<1>5. ASSUME NEW v \in Versions, RAbandon(v) PROVE ControlInv'
    <2>1. rcv' \in RecoveryState
        BY <1>5 DEF RAbandon, RecoveryState
    <2> QED
        BY <1>5, <2>1 DEF RAbandon, RecoveryState
<1>6. CASE RNoPointer
    BY <1>6 DEF RNoPointer, Pruned, RecoveryState
<1>7. CASE RNoContent
    BY <1>7 DEF RNoContent, Pruned, RecoveryState
<1>8. CASE RLink \/ RWriteFails
    BY <1>8 DEF RLink, RWriteFails, RecoveryState, Pointer
<1>9. CASE RUnrecord
    BY <1>9 DEF RUnrecord, RecoveryState, Pointer
<1>10. CASE RPrune
    BY <1>10 DEF RPrune, Pruned, RecoveryState, Pointer
<1>11. CASE RRemove
    BY <1>11 DEF RRemove, RecoveryState
<1>12. CASE RNothing
    BY <1>12, NoRecoveryType DEF RNothing, NoRecovery
<1>13. CASE RRestore
    <2>1. rcv' \in RecoveryState
        BY <1>13, NoRecoveryType DEF RRestore, RecoveryState
    <2>2. rcv.restore \in Infohashes /\ rcv'.pc \notin {"pending", "unrecord", "prune"}
        BY <1>13, NoRecoveryType DEF RRestore, RecoveryState, NoRecovery
    <2>3. torrents' \in [Infohashes -> Versions \cup {None}]
        BY <1>13 DEF RRestore
    <2> QED
        BY <1>13, <2>1, <2>2, <2>3 DEF RRestore
<1>14. CASE RReprune
    BY <1>14, NoRecoveryType DEF RReprune, NoRecovery, Pruned, Pointer
<1> QED
    BY <1>1, <1>2, <1>3, <1>4, <1>5, <1>6, <1>7, <1>8, <1>9, <1>10, <1>11, <1>12, <1>13, <1>14
    DEF Recoverer

\* The process starts an import or ends; the files stay, but for what is deleted by hand.
LEMMA ProcessControl ==
    ASSUME ControlInv, \/ \E v \in Versions : Import(v) \/ Delete(v)
                       \/ Stop \/ Crash \/ LockExpires \/ UNCHANGED vars
    PROVE  ControlInv'
<1> USE HashAssumption, NoneAssumption, CrashesAssumption
    DEF ControlInv, TypeOK, Locked, Importing, Staging, Committed, Recovering, IsCurrent, At, RAt,
        files, env
<1>1. ASSUME NEW v \in Versions, Import(v) PROVE ControlInv'
    <2>1. imp' \in ImportState
        BY <1>1, Zenon DEF Import, NoImport, ImportState, ImportPcs
    <2> QED
        BY <1>1, <2>1, Zenon DEF Import, NoImport
<1>2. ASSUME NEW v \in Versions, Delete(v) PROVE ControlInv'
    BY <1>2 DEF Delete
<1>3. Down => imp' \in ImportState /\ rcv' \in RecoveryState /\ up' = "down"
                /\ torrents' \in [Infohashes -> Versions \cup {None}]
    BY NoRecoveryType DEF Down, NoImport, ImportState, ImportPcs, NoTorrents
<1>4. CASE Stop
    BY <1>3, <1>4 DEF Stop, Down, NoImport, NoRecovery
<1>5. CASE Crash
    BY <1>3, <1>5 DEF Crash, Down, NoImport, NoRecovery
<1>6. CASE LockExpires
    BY <1>6 DEF LockExpires
<1>7. CASE UNCHANGED vars
    BY <1>7 DEF vars
<1> QED
    BY <1>1, <1>2, <1>4, <1>5, <1>6, <1>7

\* At the start no import and no recovery is under way.
LEMMA InitControl == Init => ControlInv
BY HashAssumption, CrashesAssumption, NoRecoveryType
DEF Init, ControlInv, TypeOK, Locked, Importing, Staging, Committed, Recovering, NoTorrents,
    NoImport, NoRecovery, ImportState, ImportPcs

\* Every step is one of the importer, of the recoverer or of the process.
LEMMA NextControl == ControlInv /\ [Next]_vars => ControlInv'
BY ImporterControl, RecovererControl, ProcessControl DEF Next

\* So the control is right in every reachable state.
LEMMA Control == Spec => []ControlInv
BY InitControl, NextControl, PTL DEF Spec

\* Whatever goes wrong, every variable keeps its type.
THEOREM TypeCorrect == Spec => []TypeOK
<1>1. ControlInv => TypeOK
    BY DEF ControlInv
<1> QED
    BY <1>1, Control, PTL
-----------------------------------------------------------------------------
(***************************************************************************)
(* The promoted version stays complete.                                    *)
(***************************************************************************)
\* A step of an import takes files only from what is neither promoted nor journaled.
LEMMA ImporterComplete ==
    ControlInv /\ CompleteInv /\ Whole /\ Importer => CompleteInv'
<1> SUFFICES ASSUME ControlInv, CompleteInv, Whole, Importer PROVE CompleteInv'
    OBVIOUS
<1> USE NoneAssumption
    DEF ControlInv, CompleteInv, Staged, PendingComplete, PromotedComplete, Staging, Committed,
        Importing, IsCurrent, TypeOK, ImportState, At, Goto, files
<1>1. "publish" \notin troubles
    BY DEF Whole, Only
<1>2. CASE Begin
    BY <1>2, ZenonT(60) DEF Begin, Leave, NoImport, Pointer
<1>3. CASE RemovePending
    BY <1>3 DEF RemovePending, Leave, NoImport
<1>4. CASE Stage \/ Record \/ Download
    BY <1>4 DEF Stage, Record, Download, Pointer
<1>5. CASE Journal
    BY <1>5 DEF Journal
<1>13. CASE Seed
    BY <1>13 DEF Seed
<1>6. CASE Upsert \/ Publish \/ Proceed
    BY <1>6 DEF Upsert, Publish, Proceed
<1>7. CASE StopPrevious \/ StopOld \/ Cancel
    BY <1>7 DEF StopPrevious, StopOld, Cancel, Leave, NoImport
<1>8. CASE ShareFails \/ Drop \/ Dropped
    BY <1>1, <1>8 DEF ShareFails, Drop, Dropped
<1>9. CASE RemoveDuplicate
    BY <1>9 DEF RemoveDuplicate, Pointer
<1>10. CASE WritePointer \/ SetModelLink \/ RemoveRecord
    BY <1>10 DEF WritePointer, SetModelLink, RemoveRecord
<1>11. CASE PruneOld
    BY <1>11 DEF PruneOld, Pruned, Leave, NoImport
<1>12. CASE Throws
    BY <1>1, <1>12 DEF Throws, Leave, NoImport
<1> QED
    BY <1>2, <1>3, <1>4, <1>5, <1>6, <1>7, <1>8, <1>9, <1>10, <1>11, <1>12, <1>13
    DEF Importer

\* A recovery prunes neither what is promoted nor what is journaled, and completes only
\* the latter; and an import that is under way keeps it from pruning what is staged.
LEMMA RecovererComplete ==
    ControlInv /\ CompleteInv /\ (Recover \/ Recoverer) => CompleteInv'
<1> SUFFICES ASSUME ControlInv, CompleteInv, Recover \/ Recoverer PROVE CompleteInv'
    OBVIOUS
<1> USE NoneAssumption
    DEF ControlInv, CompleteInv, Staged, PendingComplete, PromotedComplete, Staging, TypeOK,
        Importing, Locked, Recovering, RAt, Unlock, files
<1>1. CASE \/ Recover \/ RLock \/ RLink \/ RWriteFails \/ RUnrecord \/ RRemove \/ RNothing
           \/ RRestore
    BY <1>1 DEF Recover, RLock, RLink, RWriteFails, RUnrecord, RRemove, RNothing, RRestore
<1>2. ASSUME NEW v \in Versions, RCommitted(v) \/ RComplete(v) \/ RAbandon(v)
      PROVE  CompleteInv'
    BY <1>2 DEF RCommitted, RComplete, RAbandon, Journaled, Pointer
<1>3. CASE RNoPointer \/ RNoContent
    BY <1>3 DEF RNoPointer, RNoContent, Pruned
<1>4. CASE RPrune \/ RReprune
    BY <1>4 DEF RPrune, RReprune, Pruned, Pointer
<1> QED
    BY <1>1, <1>2, <1>3, <1>4 DEF Recoverer

\* The end of the process leaves the files as they are.
LEMMA ProcessComplete ==
    ASSUME ControlInv, CompleteInv, Whole,
           \/ \E v \in Versions : Import(v) \/ Delete(v)
           \/ Stop \/ Crash \/ LockExpires \/ UNCHANGED vars
    PROVE  CompleteInv'
<1> USE DEF CompleteInv, Staged, PendingComplete, PromotedComplete, Staging, files
<1>1. ASSUME NEW v \in Versions, Import(v) PROVE CompleteInv'
    BY <1>1, Zenon DEF Import, NoImport
<1>2. ASSUME NEW v \in Versions, Delete(v) PROVE FALSE
    BY <1>2 DEF Delete, Whole, Only
<1>3. CASE Stop
    BY <1>3 DEF Stop, Down, NoImport
<1>4. CASE Crash
    BY <1>4 DEF Crash, Down, NoImport
<1>5. CASE LockExpires \/ UNCHANGED vars
    BY <1>5 DEF LockExpires, vars
<1> QED
    BY <1>1, <1>2, <1>3, <1>4, <1>5

\* What may go wrong is chosen at the beginning.
LEMMA SameTroubles == [Next]_vars => troubles' = troubles
BY Zenon DEF Next, Import, Delete, Importer, Begin, RemovePending, Stage, Record, Download, Journal,
       Seed, Upsert, Publish, StopPrevious, ShareFails, Drop, Dropped, Cancel, Proceed,
       RemoveDuplicate, WritePointer, SetModelLink, RemoveRecord, StopOld, PruneOld, Throws, Recover,
       Recoverer, RLock, RCommitted, RComplete, RAbandon, RNoPointer, RNoContent, RLink, RWriteFails,
       RUnrecord, RPrune, RRemove, RNothing, RRestore, RReprune, Stop, Crash, LockExpires, env, vars

\* Under the troubles that Whole allows, CompleteInv is inductive.
LEMMA NextComplete ==
    ControlInv /\ (Whole => CompleteInv) /\ [Next]_vars => (Whole => CompleteInv)'
<1> SUFFICES ASSUME ControlInv, Whole => CompleteInv, [Next]_vars, Whole' PROVE CompleteInv'
    OBVIOUS
<1>1. troubles' = troubles
    BY SameTroubles
<1>2. Whole /\ CompleteInv
    BY <1>1 DEF Whole, Only
<1> QED
    BY <1>2, ImporterComplete, RecovererComplete, ProcessComplete DEF Next

\* So it holds in every reachable state.
LEMMA Complete == Spec => [](Whole => CompleteInv)
<1>1. Init => (Whole => CompleteInv)
    BY DEF Init, CompleteInv, Staged, PendingComplete, PromotedComplete, Staging, NoImport
<1> QED
    BY <1>1, Control, NextComplete, PTL DEF Spec

\* However often the process crashes, whatever starts too early or cannot be written,
\* and whenever recoverImports is called: the promoted version is complete.
THEOREM PromotedStaysComplete == Spec => []CurrentComplete
<1>1. (Whole => CompleteInv) => CurrentComplete
    BY DEF Whole, CompleteInv, PromotedComplete, CurrentComplete
<1> QED
    BY <1>1, Complete, PTL

-----------------------------------------------------------------------------
(***************************************************************************)
(* The link stays complete.                                                *)
(***************************************************************************)
\* The link is set while the lock is held, to what is promoted.
LEMMA ImporterLink ==
    ControlInv /\ CompleteInv /\ LinkInv /\ Untroubled /\ Importer => LinkInv'
<1> SUFFICES ASSUME ControlInv, CompleteInv, LinkInv, Untroubled, Importer PROVE LinkInv'
    OBVIOUS
<1> USE NoneAssumption
    DEF ControlInv, CompleteInv, Staged, PromotedComplete, Staging, Committed, Importing, IsCurrent,
        Locked, TypeOK, ImportState, LinkInv, Phases, LinkFollows, At, Goto, files
<1>1. "publish" \notin troubles /\ "write" \notin troubles
    BY DEF Untroubled, Only
<1>2. CASE Begin
    BY <1>2 DEF Begin, Leave, NoImport, Pointer
<1>3. CASE RemovePending
    BY <1>3 DEF RemovePending, Leave, NoImport
<1>4. CASE Stage \/ Record \/ Download
    BY <1>4 DEF Stage, Record, Download, Pointer
<1>5. CASE Journal \/ Seed
    BY <1>5 DEF Journal, Seed
<1>6. CASE Upsert \/ Publish \/ Proceed
    BY <1>6 DEF Upsert, Publish, Proceed
<1>7. CASE StopPrevious \/ StopOld \/ Cancel
    BY <1>7 DEF StopPrevious, StopOld, Cancel, Leave, NoImport
<1>8. CASE ShareFails \/ Drop \/ Dropped
    BY <1>1, <1>8 DEF ShareFails, Drop, Dropped
<1>9. CASE RemoveDuplicate
    BY <1>9 DEF RemoveDuplicate, Pointer
<1>10. CASE WritePointer
    <2>1. ptr' \in Pointer
        BY <1>10, HashAssumption DEF WritePointer, Pointer, Hash
    <2> QED
        BY <1>10, <2>1 DEF WritePointer
<1>13. CASE SetModelLink \/ RemoveRecord
    BY <1>13 DEF SetModelLink, RemoveRecord
<1>11. CASE PruneOld
    BY <1>11 DEF PruneOld, Pruned, Leave, NoImport
<1>12. CASE Throws
    BY <1>1, <1>12 DEF Throws, Leave, NoImport
<1> QED
    BY <1>2, <1>3, <1>4, <1>5, <1>6, <1>7, <1>8, <1>9, <1>10, <1>11, <1>12, <1>13
    DEF Importer

\* A recovery repairs the link before it prunes, and a start that found the lock free
\* takes it.
LEMMA RecovererLink ==
    ControlInv /\ CompleteInv /\ LinkInv /\ Untroubled /\ (Recover \/ Recoverer) => LinkInv'
<1> SUFFICES ASSUME ControlInv, CompleteInv, LinkInv, Untroubled, Recover \/ Recoverer
             PROVE  LinkInv'
    OBVIOUS
<1> USE NoneAssumption
    DEF ControlInv, CompleteInv, PromotedComplete, TypeOK, Locked, Recovering, RecoveryState,
        LinkInv, Phases, LinkFollows, RAt, RGoto, Unlock, files
<1>1. "write" \notin troubles /\ "haste" \notin troubles
    BY DEF Untroubled, Only
<1>2. CASE Recover
    BY <1>1, <1>2 DEF Recover, NoRecovery
<1>3. CASE RLock
    BY <1>3 DEF RLock
<1>4. ASSUME NEW v \in Versions, RCommitted(v) \/ RComplete(v) \/ RAbandon(v)
      PROVE  LinkInv'
    BY <1>4 DEF RCommitted, RComplete, RAbandon
<1>5. CASE RNoPointer
    BY <1>5 DEF RNoPointer
<1>6. CASE RNoContent
    BY <1>6 DEF RNoContent
<1>7. CASE RLink \/ RWriteFails
    BY <1>1, <1>7 DEF RLink, RWriteFails, Pointer
<1>8. CASE RUnrecord
    BY <1>8 DEF RUnrecord
<1>9. CASE RPrune
    BY <1>9 DEF RPrune, Pruned, Pointer
<1>10. CASE RRemove
    BY <1>10 DEF RRemove
<1>11. CASE RNothing
    BY <1>11 DEF RNothing, NoRecovery
<1>12. CASE RRestore
    BY <1>12 DEF RRestore, NoRecovery
<1>13. CASE RReprune
    BY <1>13 DEF RReprune, Pruned, NoRecovery, Pointer
<1> QED
    BY <1>2, <1>3, <1>4, <1>5, <1>6, <1>7, <1>8, <1>9, <1>10, <1>11, <1>12, <1>13 DEF Recoverer

\* A crash leaves the link as it is; the next start comes first.
LEMMA ProcessLink ==
    ASSUME ControlInv, LinkInv, Untroubled,
           \/ \E v \in Versions : Import(v) \/ Delete(v)
           \/ Stop \/ Crash \/ LockExpires \/ UNCHANGED vars
    PROVE  LinkInv'
<1> USE DEF ControlInv, Locked, LinkInv, Phases, LinkFollows, At, RAt, files
<1>1. ASSUME NEW v \in Versions, Import(v) PROVE LinkInv'
    BY <1>1, Zenon DEF Import, NoImport
<1>2. ASSUME NEW v \in Versions, Delete(v) PROVE FALSE
    BY <1>2 DEF Delete, Untroubled, Only
<1>3. CASE Stop
    BY <1>3 DEF Stop, Down, NoImport, NoRecovery
<1>4. CASE Crash
    BY <1>4 DEF Crash, Down, NoImport, NoRecovery
<1>5. CASE LockExpires \/ UNCHANGED vars
    BY <1>5 DEF LockExpires, vars
<1> QED
    BY <1>1, <1>2, <1>3, <1>4, <1>5

\* If nothing goes wrong but crashes, LinkInv is inductive.
LEMMA NextLink ==
    /\ ControlInv /\ (Whole => CompleteInv) /\ (Untroubled => LinkInv)
    /\ [Next]_vars
    => (Untroubled => LinkInv)'
<1> SUFFICES ASSUME ControlInv, Whole => CompleteInv, Untroubled => LinkInv, [Next]_vars,
                    Untroubled'
             PROVE  LinkInv'
    OBVIOUS
<1>1. troubles' = troubles
    BY SameTroubles
<1>2. Untroubled /\ Whole
    BY <1>1 DEF Untroubled, Whole, Only
<1> QED
    BY <1>2, ImporterLink, RecovererLink, ProcessLink DEF Next

\* Wherever a promotion crashes, and though recoverImports may be called at any time: the
\* model link points to a complete version.
THEOREM LinkStaysComplete == Spec => []LinkComplete
<1>1. Init => (Untroubled => LinkInv)
    BY DEF Init, LinkInv, Phases, LinkFollows, NoImport, NoRecovery
<1>2. (Untroubled => LinkInv) => LinkComplete
    BY DEF Untroubled, LinkInv, LinkComplete
<1> QED
    BY <1>1, <1>2, Control, Complete, NextLink, PTL DEF Spec

-----------------------------------------------------------------------------
(***************************************************************************)
(* Where each step of an import goes.                                      *)
(***************************************************************************)
Same == /\ imp'.v = imp.v /\ (imp'.again <=> imp.again) /\ (imp'.owned <=> imp.owned)
        /\ imp'.prevOwn = imp.prevOwn /\ imp'.prev = imp.prev
Moves(pc) == imp'.pc = pc /\ Same
Leaves == imp'.pc = "idle" /\ ~imp'.again

\* Goto changes the step only, and Leave ends the import.
LEMMA GotoMoves == ASSUME imp \in ImportState, NEW pc, Goto(pc) PROVE Moves(pc)
BY DEF Goto, ImportState, Moves, Same

LEMMA LeaveLeaves == Leave => Leaves
BY DEF Leave, Leaves, NoImport

\* The steps that set more than the step.
LEMMA BeginMoves ==
    ASSUME ControlInv, Begin
    PROVE  \/ Moves("unpend") /\ ~imp'.again
           \/ imp'.pc = "seed" /\ imp'.again /\ imp'.v = imp.v /\ IsCurrent(imp.v) /\ dirs[imp.v] = "full"
           \/ Leaves
<1>1. imp \in ImportState /\ imp.pc = "begin" /\ ~imp.again
    BY DEF ControlInv, TypeOK, Begin, At, Importing
<1>2. \/ Goto("unpend")
      \/ imp' = [imp EXCEPT !.pc = "seed", !.again = TRUE] /\ IsCurrent(imp.v) /\ dirs[imp.v] = "full"
      \/ Leave
    BY DEF Begin
<1>3. Goto("unpend") => Moves("unpend") /\ ~imp'.again
    BY <1>1, GotoMoves DEF Moves, Same
<1>4. imp' = [imp EXCEPT !.pc = "seed", !.again = TRUE] => imp'.pc = "seed" /\ imp'.again /\ imp'.v = imp.v
    BY <1>1 DEF ImportState
<1> QED
    BY <1>2, <1>3, <1>4, LeaveLeaves, Zenon

LEMMA JournalMoves ==
    ASSUME ControlInv, Journal
    PROVE  /\ imp'.pc = "seed" /\ imp'.v = imp.v /\ (imp'.again <=> imp.again) /\ imp'.prevOwn = share
           /\ (imp'.owned <=> imp.owned) /\ imp'.prev = imp.prev
BY DEF ControlInv, TypeOK, Journal, ImportState

LEMMA SeedMoves ==
    ASSUME ControlInv, Seed
    PROVE  /\ imp'.pc = "upsert" /\ imp'.v = imp.v /\ (imp'.again <=> imp.again)
           /\ imp'.prevOwn = imp.prevOwn
           /\ (imp'.owned <=> torrents[Hash] = None) /\ imp'.prev = share
<1>1. imp \in ImportState /\ imp' = [imp EXCEPT !.pc = "upsert", !.owned = (torrents[Hash] = None), !.prev = share]
    BY DEF ControlInv, TypeOK, Seed
<1>2. imp'.owned <=> torrents[Hash] = None
    BY <1>1, Zenon DEF ImportState
<1> QED
    BY <1>1, <1>2 DEF ImportState

LEMMA DuplicateMoves ==
    ASSUME ControlInv, RemoveDuplicate
    PROVE  /\ imp'.pc = "seed" /\ imp'.again /\ imp'.v = ptr.version /\ imp'.prevOwn = imp.prevOwn
BY DEF ControlInv, TypeOK, RemoveDuplicate, ImportState

LEMMA PendingMoves ==
    ASSUME ControlInv, RemovePending
    PROVE  \/ At("unpend") /\ Moves("stage")
           \/ At("cancel") /\ Leaves
           \/ At("same") /\ Moves("unrecord")
           \/ At("clean") /\ Moves("cleanrec")
BY GotoMoves, LeaveLeaves DEF ControlInv, TypeOK, RemovePending

LEMMA StepMoves ==
    ASSUME ControlInv
    PROVE  /\ Stage => At("stage") /\ Moves("record")
           /\ Record => At("record") /\ Moves("download")
           /\ Download => At("download") /\ Moves("journal")
           /\ Upsert => At("upsert") /\ Moves("publish")
           /\ Drop => At("drop") /\ Moves("dropped")
           /\ Dropped => At("dropped") /\ Leaves
           /\ Cancel => At("published") /\ Moves("cancel")
           /\ WritePointer => At("pointer") /\ Moves("link")
           /\ SetModelLink => At("link") /\ Moves("clean")
           /\ RemoveRecord => At("cleanrec") /\ Moves("retire")
           /\ StopOld => At("retire") /\ Moves("prune")
           /\ PruneOld => At("prune") /\ Leaves
           /\ StopPrevious => At("stopprev") /\ Leaves
BY GotoMoves, LeaveLeaves
DEF ControlInv, TypeOK, Stage, Record, Download, Upsert, Drop, Dropped, Cancel, WritePointer, SetModelLink,
    RemoveRecord, StopOld, PruneOld, StopPrevious

LEMMA BranchMoves ==
    ASSUME ControlInv
    PROVE  /\ Publish => At("publish") /\ Moves(IF imp.again THEN "stopprev" ELSE "published")
           /\ Proceed => At("published") /\ Moves(IF ptr # None /\ ptr.ih = Hash THEN "same" ELSE "pointer")
           /\ ShareFails => IF imp.again THEN Leaves ELSE Moves("drop")
           /\ Throws => IF At("seed") /\ ~imp.again THEN Moves("drop") ELSE Leaves
BY GotoMoves, LeaveLeaves DEF ControlInv, TypeOK, Publish, Proceed, ShareFails, Throws

\* No other step takes an import further; it may begin one or end it.
OtherStep ==
    \/ Recover \/ Recoverer
    \/ \E v \in Versions : Import(v) \/ Delete(v)
    \/ Stop \/ Crash \/ LockExpires \/ UNCHANGED vars

LEMMA OtherMoves ==
    ASSUME ControlInv, OtherStep
    PROVE  imp' = imp \/ (~imp'.again /\ imp'.pc \in {"idle", "begin"})
<1>1. CASE Recover \/ Recoverer
    BY <1>1
    DEF Recover, Recoverer, RLock, RCommitted, RComplete, RAbandon, RNoPointer, RNoContent, RLink,
        RWriteFails, RUnrecord, RPrune, RRemove, RNothing, RRestore, RReprune
<1>2. CASE \E v \in Versions : Import(v) \/ Delete(v)
    BY <1>2 DEF Import, Delete, NoImport
<1>3. CASE Stop \/ Crash \/ LockExpires \/ UNCHANGED vars
    BY <1>3 DEF Stop, Crash, Down, NoImport, LockExpires, vars
<1> QED
    BY <1>1, <1>2, <1>3 DEF OtherStep

-----------------------------------------------------------------------------
(***************************************************************************)
(* Starts that wait for the lock.                                          *)
(***************************************************************************)
Punctual == "haste" \notin troubles

\* A recovery that is under way has the lock, has had it or waits for it.
LEMMA NextPhases == ControlInv /\ (Punctual => Phases) /\ [Next]_vars => (Punctual => Phases)'
<1> SUFFICES ASSUME ControlInv, Punctual => Phases, [Next]_vars, Punctual'
             PROVE  Phases'
    OBVIOUS
<1>1. Punctual /\ Phases
    BY SameTroubles DEF Punctual
<1> USE DEF ControlInv, Locked, TypeOK, ImportState, RecoveryState, Phases, At, Goto, RAt, RGoto, files
<1>2. CASE \/ Begin \/ RemovePending \/ StopPrevious \/ ShareFails \/ Dropped \/ PruneOld \/ Throws
    BY <1>1, <1>2 DEF Begin, RemovePending, StopPrevious, ShareFails, Dropped, PruneOld, Throws, Leave, NoImport
<1>3. CASE \/ Stage \/ Record \/ Download \/ Journal \/ Seed \/ Upsert \/ Publish \/ Drop \/ Cancel
           \/ Proceed \/ RemoveDuplicate \/ WritePointer \/ SetModelLink \/ RemoveRecord \/ StopOld
    BY <1>1, <1>3
    DEF Stage, Record, Download, Journal, Seed, Upsert, Publish, Drop, Cancel, Proceed, RemoveDuplicate,
        WritePointer, SetModelLink, RemoveRecord, StopOld
<1>4. CASE Recover
    BY <1>1, <1>4 DEF Recover, NoRecovery, Punctual
<1>5. CASE RLock \/ RNoPointer \/ RNoContent \/ RLink \/ RWriteFails \/ RUnrecord \/ RPrune \/ RRemove
    BY <1>1, <1>5 DEF RLock, RNoPointer, RNoContent, RLink, RWriteFails, RUnrecord, RPrune, RRemove, Unlock
<1>6. CASE \E v \in Versions : RCommitted(v) \/ RComplete(v) \/ RAbandon(v)
    BY <1>1, <1>6 DEF RCommitted, RComplete, RAbandon
<1>7. CASE RNothing \/ RRestore \/ RReprune
    BY <1>1, <1>7 DEF RNothing, RRestore, RReprune, NoRecovery
<1>8. CASE \E v \in Versions : Import(v) \/ Delete(v)
    BY <1>1, <1>8 DEF Import, Delete, NoImport
<1>9. CASE Stop \/ Crash \/ LockExpires
    BY <1>1, <1>9 DEF Stop, Crash, Down, LockExpires, NoImport, NoRecovery
<1>10. CASE UNCHANGED vars
    BY <1>1, <1>10 DEF vars
<1> QED
    BY <1>2, <1>3, <1>4, <1>5, <1>6, <1>7, <1>8, <1>9, <1>10, Zenon DEF Next, Importer, Recoverer

LEMMA PhasesHold == Spec => [](Punctual => Phases)
<1>1. Init => Phases
    BY DEF Init, Phases, NoImport, NoRecovery
<1> QED
    BY <1>1, Control, NextPhases, PTL DEF Spec

-----------------------------------------------------------------------------
(***************************************************************************)
(* What a crash leaves is completed as what was published.                 *)
(***************************************************************************)
\* What is journaled is the version that is being promoted, or the one whose promotion
\* a crash has cut short; without a promoted version it is the one that is shared.
Interrupted == imp.pc = "idle" /\ up # "up" /\ rcv.pc \in {"idle", "lock", "pending"}
Journaling ==
    /\ imp.pc \in {"seed", "upsert", "publish", "published", "cancel", "same", "pointer", "link", "clean"}
    /\ ~imp.again

Journals ==
    /\ \A v \in pend : Interrupted \/ (Journaling /\ v = imp.v)
    /\ \A v, w \in pend : v = w
    /\ Journaling => imp.v \in pend
Shared ==
    /\ ptr = None => /\ share # None => \E v \in pend : HashOf[v] = share
                     /\ Journaling => imp.prevOwn = None
                     /\ imp.pc = "cancel" => share = None
                     /\ rcv.restore = None
    /\ up = "starting" /\ rcv.pc \in {"lock", "pending"} => rcv.share = share
Matching == ptr # None => ptr.ih = HashOf[ptr.version]

Agreed == Journals /\ Shared /\ Matching

LEMMA ImporterAgreed ==
    ControlInv /\ CompleteInv /\ Phases /\ Agreed /\ Untroubled /\ Importer => Agreed'
<1> SUFFICES ASSUME ControlInv, CompleteInv, Phases, Agreed, Untroubled, Importer PROVE Agreed'
    OBVIOUS
<1> USE NoneAssumption
    DEF ControlInv, CompleteInv, Staged, Staging, Committed, Importing, IsCurrent, Locked, TypeOK,
        ImportState, Phases, Agreed, Journals, Shared, Matching, Interrupted, Journaling, At, Goto, files
<1>1. "publish" \notin troubles /\ "write" \notin troubles
    BY DEF Untroubled, Only
<1>2. CASE Begin
    <2>1. pend = {} /\ imp.prevOwn \in Infohashes \cup {None}
        BY <1>2 DEF Begin
    <2>3. \/ imp' = [imp EXCEPT !.pc = "unpend"]
          \/ imp' = [imp EXCEPT !.pc = "seed", !.again = TRUE]
          \/ imp' = NoImport
        BY <1>2 DEF Begin, Leave
    <2>4. imp'.pc # "cancel" /\ ~Journaling'
        <3>1. imp'.pc \in {"unpend", "idle"} \/ (imp'.pc = "seed" /\ imp'.again)
            <4>1. imp \in ImportState
                OBVIOUS
            <4>2. imp' = NoImport => imp'.pc = "idle"
                BY DEF NoImport
            <4>3. imp' = [imp EXCEPT !.pc = "unpend"] => imp'.pc = "unpend"
                BY <4>1
            <4>4. imp' = [imp EXCEPT !.pc = "seed", !.again = TRUE] => imp'.pc = "seed" /\ imp'.again
                BY <4>1
            <4> QED
                BY <2>3, <4>2, <4>3, <4>4, Zenon
        <3> QED
            BY <3>1
    <2>2. UNCHANGED <<share, pend, ptr, rcv, up>> /\ imp'.pc # "cancel" /\ ~Journaling'
        BY <1>2, <2>4 DEF Begin
    <2> QED
        BY <2>1, <2>2
<1>3. CASE RemovePending
    BY <1>3 DEF RemovePending, Leave, NoImport
<1>4. CASE Stage \/ Record \/ Download
    BY <1>4 DEF Stage, Record, Download, Pointer
<1>5. CASE Journal
    BY <1>5 DEF Journal
<1>13. CASE Seed
    BY <1>13 DEF Seed
<1>6. CASE Upsert
    <2>1. ptr = None => Journaling /\ imp.v \in pend
        BY <1>6 DEF Upsert
    <2> QED
        BY <1>6, <2>1 DEF Upsert, Hash
<1>15. CASE Publish
    BY <1>15 DEF Publish
<1>16. CASE Proceed
    BY <1>16 DEF Proceed
<1>7. CASE StopPrevious \/ StopOld \/ Cancel
    BY <1>7 DEF StopPrevious, StopOld, Cancel, Leave, NoImport
<1>8. CASE ShareFails \/ Drop \/ Dropped
    BY <1>1, <1>8 DEF ShareFails, Drop, Dropped
<1>9. CASE RemoveDuplicate
    BY <1>9 DEF RemoveDuplicate, Pointer
<1>10. CASE WritePointer
    BY <1>10, HashAssumption DEF WritePointer, Pointer, Hash
<1>14. CASE SetModelLink \/ RemoveRecord
    BY <1>14 DEF SetModelLink, RemoveRecord
<1>11. CASE PruneOld
    BY <1>11 DEF PruneOld, Pruned, Leave, NoImport
<1>12. CASE Throws
    BY <1>1, <1>12 DEF Throws, Leave, NoImport
<1> QED
    BY <1>2, <1>3, <1>4, <1>5, <1>6, <1>7, <1>8, <1>9, <1>10, <1>11, <1>12, <1>13, <1>14, <1>15, <1>16, Zenon
    DEF Importer

LEMMA RecovererAgreed ==
    ControlInv /\ CompleteInv /\ Phases /\ Agreed /\ Untroubled /\ (Recover \/ Recoverer) => Agreed'
<1> SUFFICES ASSUME ControlInv, CompleteInv, Phases, Agreed, Untroubled, Recover \/ Recoverer
             PROVE  Agreed'
    OBVIOUS
<1> USE NoneAssumption
    DEF ControlInv, CompleteInv, PromotedComplete, PendingComplete, TypeOK, Locked, Recovering, RecoveryState,
        Phases, Agreed, Journals, Shared, Matching, Interrupted, Journaling, RAt, RGoto, Unlock, files
<1>1. "write" \notin troubles /\ "haste" \notin troubles
    BY DEF Untroubled, Only
<1>2. CASE Recover
    BY <1>1, <1>2 DEF Recover, NoRecovery
<1>3. CASE RLock
    BY <1>3 DEF RLock
<1>4. ASSUME NEW v \in Versions, RCommitted(v) \/ RAbandon(v)
      PROVE  Agreed'
    BY <1>4 DEF RCommitted, RAbandon, Journaled, IsCurrent
<1>14. ASSUME NEW v \in Versions, RComplete(v)
      PROVE  Agreed'
    BY <1>14, HashAssumption DEF RComplete, Journaled, Pointer
<1>5. CASE RNoPointer
    BY <1>5 DEF RNoPointer, Journaled
<1>6. CASE RNoContent
    BY <1>6 DEF RNoContent
<1>7. CASE RLink \/ RWriteFails
    BY <1>1, <1>7 DEF RLink, RWriteFails, Pointer, Journaled
<1>8. CASE RUnrecord
    BY <1>8 DEF RUnrecord
<1>9. CASE RPrune
    BY <1>9 DEF RPrune
<1>10. CASE RRemove
    BY <1>10 DEF RRemove
<1>11. CASE RNothing
    BY <1>11 DEF RNothing, NoRecovery
<1>12. CASE RRestore
    BY <1>12 DEF RRestore, NoRecovery
<1>13. CASE RReprune
    BY <1>13 DEF RReprune, NoRecovery
<1> QED
    BY <1>2, <1>3, <1>4, <1>5, <1>6, <1>7, <1>8, <1>9, <1>10, <1>11, <1>12, <1>13, <1>14, Zenon DEF Recoverer

LEMMA ProcessAgreed ==
    ASSUME ControlInv, Phases, Agreed, Untroubled,
           \/ \E v \in Versions : Import(v) \/ Delete(v)
           \/ Stop \/ Crash \/ LockExpires \/ UNCHANGED vars
    PROVE  Agreed'
<1> USE DEF ControlInv, TypeOK, Locked, Phases, Agreed, Journals, Shared, Matching, Interrupted, Journaling,
            At, RAt, files
<1>1. ASSUME NEW v \in Versions, Import(v) PROVE Agreed'
    BY <1>1, Zenon DEF Import, NoImport
<1>2. ASSUME NEW v \in Versions, Delete(v) PROVE FALSE
    BY <1>2 DEF Delete, Untroubled, Only
<1>3. CASE Stop
    BY <1>3 DEF Stop, Down, NoImport, NoRecovery
<1>4. CASE Crash
    BY <1>4 DEF Crash, Down, NoImport, NoRecovery
<1>5. CASE LockExpires \/ UNCHANGED vars
    BY <1>5 DEF LockExpires, vars
<1> QED
    BY <1>1, <1>2, <1>3, <1>4, <1>5

LEMMA NextAgreed ==
    /\ ControlInv /\ (Whole => CompleteInv) /\ (Punctual => Phases) /\ (Untroubled => Agreed)
    /\ [Next]_vars
    => (Untroubled => Agreed)'
<1> SUFFICES ASSUME ControlInv, Whole => CompleteInv, Punctual => Phases, Untroubled => Agreed,
                    [Next]_vars, Untroubled'
             PROVE  Agreed'
    OBVIOUS
<1>1. troubles' = troubles
    BY SameTroubles
<1>2. Untroubled /\ Whole /\ Punctual
    BY <1>1 DEF Untroubled, Whole, Punctual, Only
<1> QED
    BY <1>2, ImporterAgreed, RecovererAgreed, ProcessAgreed DEF Next

LEMMA AgreedHolds == Spec => [](Untroubled => Agreed)
<1>1. Init => Agreed
    BY DEF Init, Agreed, Journals, Shared, Matching, Interrupted, Journaling, NoImport, NoRecovery
<1> QED
    BY <1>1, Control, Complete, PhasesHold, NextAgreed, PTL DEF Spec

-----------------------------------------------------------------------------
(***************************************************************************)
(* What the name refers to is kept.                                        *)
(***************************************************************************)
\* What is complete and promoted, or staged, is kept.
Held(v) == dirs[v] = "full" /\ (v \in recs \/ IsCurrent(v))
Kept(h) == \E v \in Versions : HashOf[v] = h /\ Held(v)

\* What is staged has its record from its download on, and its name until it is promoted.
Vouched == Staging /\ imp.pc \notin {"unpend", "stage", "record"} => imp.v \in recs
NameKept == name # None => Kept(name)
NameFits ==
    /\ imp.pc \in {"published", "same", "unrecord", "pointer"} => name = Hash
    /\ imp.pc \in {"same", "unrecord"} => ptr.ih = Hash
Named == NameKept /\ NameFits

\* What is held stays kept.
LEMMA KeptStays ==
    ASSUME NEW h, Kept(h), \A v \in Versions : Held(v) => Held(v)'
    PROVE  \E v \in Versions : HashOf[v] = h /\ Held(v)'
BY Zenon DEF Kept

LEMMA NameStays ==
    ASSUME NameKept, name' = name, \A v \in Versions : Held(v) => Held(v)'
    PROVE  NameKept'
<1>1. CASE name = None
    BY <1>1 DEF NameKept
<1>2. CASE name # None
    <2>1. Kept(name)
        BY <1>2 DEF NameKept
    <2>2. \E v \in Versions : HashOf[v] = name /\ Held(v)'
        BY <2>1, KeptStays
    <2>3. Kept(name)'
        BY <2>2 DEF Kept
    <2> QED
        BY <2>3 DEF NameKept
<1> QED
    BY <1>1, <1>2

\* Whatever goes wrong, the record stays until the version is promoted or dropped.
LEMMA NextVouched == ControlInv /\ Vouched /\ [Next]_vars => Vouched'
<1> SUFFICES ASSUME ControlInv, Vouched, [Next]_vars PROVE Vouched'
    OBVIOUS
<1>c. Importing /\ Locked
    BY DEF ControlInv
<1> USE DEF Vouched, Staging, Committed, At, Moves, Same, Leaves
<1>1. CASE Begin
    BY <1>1, BeginMoves
<1>2. CASE RemovePending
    <2>1. recs' = recs
        BY <1>2 DEF RemovePending
    <2> QED
        BY <1>2, <1>c, <2>1, PendingMoves
<1>3. CASE Stage \/ Drop \/ Upsert
    BY <1>3, <1>c, StepMoves DEF Stage, Drop, Upsert
<1>4. CASE Record
    BY <1>4, <1>c, StepMoves DEF Record
<1>5. CASE Download \/ Cancel
    BY <1>5, <1>c, StepMoves DEF Download, Cancel
<1>6. CASE Journal
    BY <1>6, <1>c, JournalMoves DEF Journal
<1>7. CASE Seed
    BY <1>7, <1>c, SeedMoves DEF Seed, files
<1>8. CASE Publish
    BY <1>8, <1>c, BranchMoves DEF Publish, files
<1>9. CASE Proceed
    BY <1>9, <1>c, BranchMoves DEF Proceed, files
<1>10. CASE ShareFails
    BY <1>10, <1>c, BranchMoves DEF ShareFails
<1>11. CASE Throws
    BY <1>11, <1>c, BranchMoves DEF Throws, files
<1>12. CASE StopPrevious \/ Dropped \/ PruneOld \/ WritePointer \/ SetModelLink \/ RemoveRecord \/ StopOld
    BY <1>12, StepMoves
<1>13. CASE RemoveDuplicate
    BY <1>13, DuplicateMoves
<1>14. CASE OtherStep
    <2>1. recs' = recs \/ (RUnrecord /\ recs' = recs \ {ptr.version} /\ imp.pc = "idle")
        BY <1>14, <1>c, Zenon
        DEF OtherStep, Recover, Recoverer, RLock, RCommitted, RComplete, RAbandon, RNoPointer, RNoContent, RLink,
            RWriteFails, RUnrecord, RPrune, RRemove, RNothing, RRestore, RReprune, Import, Delete, Stop, Crash,
            LockExpires, vars, files, Locked, RAt
    <2> QED
        BY <1>14, <2>1, OtherMoves
<1> QED
    BY <1>1, <1>2, <1>3, <1>4, <1>5, <1>6, <1>7, <1>8, <1>9, <1>10, <1>11, <1>12, <1>13, <1>14, Zenon
    DEF Next, Importer, OtherStep

LEMMA VouchedHolds == Spec => []Vouched
<1>1. Init => Vouched
    BY DEF Init, Vouched, Staging, NoImport
<1> QED
    BY <1>1, Control, NextVouched, PTL DEF Spec

\* What an import removes is not held: its own version until it is promoted, and what
\* is pruned.
LEMMA ImporterHolds ==
    ASSUME ControlInv, CompleteInv, Untroubled, Importer, ~RemoveDuplicate, ~WritePointer
    PROVE  \A v \in Versions : Held(v) => Held(v)'
<1> USE DEF ControlInv, Importing, Staging, Committed, IsCurrent, TypeOK, At, Held, files
<1>1. CASE Begin \/ RemovePending \/ Seed \/ Upsert \/ StopPrevious \/ StopOld \/ Cancel
    BY <1>1 DEF Begin, RemovePending, Seed, Upsert, StopPrevious, StopOld, Cancel
<1>2. CASE Stage \/ Record \/ Download \/ Journal
    BY <1>2 DEF Stage, Record, Download, Journal, Untroubled, Only
<1>3. CASE Publish \/ Proceed \/ ShareFails \/ Throws \/ SetModelLink
    BY <1>3 DEF Publish, Proceed, ShareFails, Throws, SetModelLink
<1>4. CASE Drop \/ Dropped
    BY <1>4 DEF Drop, Dropped, CompleteInv, Staged
<1>5. CASE RemoveRecord
    BY <1>5 DEF RemoveRecord
<1>6. CASE PruneOld
    BY <1>6 DEF PruneOld, Pruned
<1> QED
    BY <1>1, <1>2, <1>3, <1>4, <1>5, <1>6, Zenon DEF Importer

\* A recovery prunes neither the promoted version nor a recorded one.
LEMMA OthersHold ==
    ASSUME ControlInv, CompleteInv, Untroubled, OtherStep
    PROVE  \A v \in Versions : Held(v) => Held(v)'
<1> USE NoneAssumption DEF ControlInv, TypeOK, Recovering, PromotedComplete, IsCurrent, RAt, Held, files
<1>1. CASE Recover \/ RLock \/ RLink \/ RWriteFails \/ RRemove \/ RNothing \/ RRestore
    BY <1>1 DEF Recover, RLock, RLink, RWriteFails, RRemove, RNothing, RRestore
<1>2. ASSUME NEW v \in Versions, RCommitted(v) \/ RComplete(v) \/ RAbandon(v)
      PROVE  \A w \in Versions : Held(w) => Held(w)'
    BY <1>2 DEF RCommitted, RComplete, RAbandon
<1>3. CASE RNoPointer
    BY <1>3 DEF RNoPointer, Pruned
<1>4. CASE RNoContent
    BY <1>4 DEF RNoContent, CompleteInv
<1>5. CASE RUnrecord
    BY <1>5 DEF RUnrecord
<1>6. CASE RPrune \/ RReprune
    BY <1>6 DEF RPrune, RReprune, Pruned
<1>7. CASE \E v \in Versions : Import(v) \/ Delete(v)
    BY <1>7 DEF Import, Delete, Untroubled, Only
<1>8. CASE Stop \/ Crash \/ LockExpires \/ UNCHANGED vars
    BY <1>8 DEF Stop, Crash, LockExpires, vars
<1> QED
    BY <1>1, <1>2, <1>3, <1>4, <1>5, <1>6, <1>7, <1>8 DEF Recoverer, OtherStep

\* The name changes only at the publication of what is held, and moves to the promoted
\* version when the staged one turns out to be a duplicate.
LEMMA ImporterKeepsName ==
    ASSUME ControlInv, CompleteInv, Untroubled, Vouched, Agreed, Named, Importer
    PROVE  NameKept'
<1>1. CASE Publish
    <2>1. imp.v \in Versions /\ Held(imp.v) /\ name' = HashOf[imp.v]
        BY <1>1
        DEF Publish, ControlInv, Importing, CompleteInv, Staged, PromotedComplete, IsCurrent, Vouched, Staging,
            Committed, At, Held, Hash
    <2>2. Held(imp.v)' => Kept(name)'
        BY <2>1, <1>1, BranchMoves DEF Kept, Moves, Same
    <2>3. UNCHANGED <<dirs, recs, ptr>> /\ imp'.v = imp.v
        BY <1>1, BranchMoves DEF Publish, files, Moves, Same
    <2> QED
        BY <2>1, <2>2, <2>3 DEF NameKept, Held, IsCurrent
<1>2. CASE RemoveDuplicate
    <2>1. name' = name /\ name = ptr.ih /\ ptr' = ptr /\ ptr # None
        BY <1>2 DEF RemoveDuplicate, Named, NameFits, ControlInv, Importing, At
    <2>2. ptr.version \in Versions /\ ptr.ih = HashOf[ptr.version] /\ dirs[ptr.version] = "full"
        BY <2>1 DEF ControlInv, TypeOK, Pointer, CompleteInv, PromotedComplete, Agreed, Matching
    <2>3. ptr.version # imp.v
        BY <1>2, <2>1 DEF RemoveDuplicate, ControlInv, Importing, Staging, Committed, IsCurrent, At
    <2>4. dirs'[ptr.version] = "full"
        BY <1>2, <2>2, <2>3 DEF RemoveDuplicate, ControlInv, TypeOK
    <2>5. \E v \in Versions : /\ HashOf[v] = name' /\ dirs'[v] = "full"
                              /\ v \in recs' \/ (ptr' # None /\ ptr'.version = v)
        BY <2>1, <2>2, <2>4
    <2> QED
        BY <2>5 DEF NameKept, Kept, Held, IsCurrent
<1>3. CASE WritePointer
    <2>1. name' = name /\ name = HashOf[imp.v] /\ dirs' = dirs /\ ptr'.version = imp.v /\ ptr' # None
        BY <1>3, NoneAssumption, HashAssumption
        DEF WritePointer, Named, NameFits, Hash, At, ControlInv, TypeOK, ImportState, Importing, Pointer
    <2>2. imp.v \in Versions /\ dirs[imp.v] = "full"
        BY <1>3 DEF WritePointer, ControlInv, Importing, CompleteInv, Staged, Staging, Committed, At
    <2> QED
        BY <2>1, <2>2 DEF NameKept, Kept, Held, IsCurrent
<1>4. CASE ~Publish /\ ~RemoveDuplicate /\ ~WritePointer
    <2>1. name' = name
        BY <1>4
        DEF Importer, Begin, RemovePending, Stage, Record, Download, Journal, Seed, Upsert, StopPrevious, ShareFails,
            Drop, Dropped, Cancel, Proceed, SetModelLink, RemoveRecord, StopOld, PruneOld, Throws
    <2>2. \A v \in Versions : Held(v) => Held(v)'
        BY <1>4, ImporterHolds
    <2> QED
        BY <2>1, <2>2, NameStays DEF Named
<1> QED
    BY <1>1, <1>2, <1>3, <1>4

\* From the publication to the commit point the name is that of the staged version.
LEMMA ImporterFits ==
    ASSUME ControlInv, Named, Importer
    PROVE  NameFits'
<1> USE DEF Named, NameFits, At, Moves, Same, Leaves, Hash
<1>1. CASE Begin
    BY <1>1, BeginMoves
<1>2. CASE RemovePending
    BY <1>2, PendingMoves DEF RemovePending
<1>3. CASE \/ Stage \/ Record \/ Download \/ Upsert \/ Drop \/ Dropped \/ Cancel \/ WritePointer \/ SetModelLink
           \/ RemoveRecord \/ StopOld \/ PruneOld \/ StopPrevious
    BY <1>3, StepMoves
<1>4. CASE Journal
    BY <1>4, JournalMoves
<1>5. CASE Seed
    BY <1>5, SeedMoves
<1>6. CASE Publish
    BY <1>6, BranchMoves DEF Publish
<1>7. CASE Proceed
    BY <1>7, BranchMoves DEF Proceed, files
<1>8. CASE ShareFails \/ Throws
    BY <1>8, BranchMoves
<1>9. CASE RemoveDuplicate
    BY <1>9, DuplicateMoves
<1> QED
    BY <1>1, <1>2, <1>3, <1>4, <1>5, <1>6, <1>7, <1>8, <1>9 DEF Importer

LEMMA OthersNamed ==
    ASSUME ControlInv, CompleteInv, Agreed, Named, Untroubled, OtherStep
    PROVE  Named'
<1>1. name' = name
    BY Zenon
    DEF OtherStep, Recover, Recoverer, RLock, RCommitted, RComplete, RAbandon, RNoPointer, RNoContent, RLink,
        RWriteFails, RUnrecord, RPrune, RRemove, RNothing, RRestore, RReprune, Import, Delete, Stop, Crash,
        LockExpires, vars
<1>2. NameKept'
    BY <1>1, OthersHold, NameStays DEF Named
<1>3. imp.pc \in {"published", "same", "unrecord", "pointer"} => ptr' = ptr
    BY Zenon
    DEF OtherStep, Recover, Recoverer, RLock, RCommitted, RComplete, RAbandon, RNoPointer, RNoContent, RLink,
        RWriteFails, RUnrecord, RPrune, RRemove, RNothing, RRestore, RReprune, Import, Delete, Stop, Crash,
        LockExpires, vars, files, ControlInv, Locked, RAt
<1>4. NameFits'
    BY <1>1, <1>3, OtherMoves DEF Named, NameFits, Hash
<1> QED
    BY <1>2, <1>4 DEF Named

LEMMA NextNamed ==
    /\ ControlInv /\ (Whole => CompleteInv) /\ Vouched /\ (Untroubled => Agreed) /\ (Untroubled => Named)
    /\ [Next]_vars
    => (Untroubled => Named)'
<1> SUFFICES ASSUME ControlInv, Whole => CompleteInv, Vouched, Untroubled => Agreed, Untroubled => Named,
                    [Next]_vars, Untroubled'
             PROVE  Named'
    OBVIOUS
<1>1. troubles' = troubles
    BY SameTroubles
<1>2. Untroubled /\ Whole
    BY <1>1 DEF Untroubled, Whole, Only
<1>3. CASE Importer
    BY <1>2, <1>3, ImporterKeepsName, ImporterFits DEF Named
<1>4. CASE OtherStep
    BY <1>2, <1>4, OthersNamed
<1> QED
    BY <1>3, <1>4 DEF Next, OtherStep

LEMMA NamedHolds == Spec => [](Untroubled => Named)
<1>1. Init => Named
    BY NoneAssumption DEF Init, Named, NameKept, NameFits, NoImport
<1> QED
    BY <1>1, Control, Complete, VouchedHolds, AgreedHolds, NextNamed, PTL DEF Spec

-----------------------------------------------------------------------------
(***************************************************************************)
(* What a torrent reads from is there.                                     *)
(***************************************************************************)
\* A process that is not up neither imports nor has torrents, whatever goes wrong.
Asleep == up # "up" => imp.pc = "idle" /\ \A h \in Infohashes : torrents[h] = None
Backed == \A h \in Infohashes : torrents[h] # None => dirs[torrents[h]] # "none"

\* Where directories may be deleted: the promoted version is there once a start has
\* looked, and a staged one once it is complete.
Removable == Only({"write", "demand", "delete"})
Handled == up = "up" \/ (up = "starting" /\ rcv.pc \notin {"lock", "pending"})
There ==
    /\ imp.pc \notin {"drop", "dropped"}
    /\ Staging /\ imp.pc \notin {"unpend", "stage", "record", "download"} => dirs[imp.v] # "none"
    /\ Handled /\ ptr # None => dirs[ptr.version] # "none"

LEMMA NextAsleep == ControlInv /\ Asleep /\ [Next]_vars => Asleep'
<1> SUFFICES ASSUME ControlInv, Asleep, [Next]_vars PROVE Asleep'
    OBVIOUS
<1>1. CASE Importer
    <2>1. imp.pc # "idle" /\ up' = up
        BY <1>1
        DEF Importer, Begin, RemovePending, Stage, Record, Download, Journal, Seed, Upsert, Publish, StopPrevious,
            ShareFails, Drop, Dropped, Cancel, Proceed, RemoveDuplicate, WritePointer, SetModelLink, RemoveRecord,
            StopOld, PruneOld, Throws, At
    <2> QED
        BY <2>1 DEF Asleep
<1>2. CASE Recover
    BY <1>2 DEF Recover, Asleep
<1>3. CASE Recoverer
    <2>1. CASE RRestore
        BY <2>1 DEF RRestore, Asleep
    <2>2. CASE ~RRestore
        <3>1. imp' = imp /\ torrents' = torrents /\ (up' = up \/ up' = "up")
            BY <1>3, <2>2
            DEF Recoverer, RLock, RCommitted, RComplete, RAbandon, RNoPointer, RNoContent, RLink, RWriteFails,
                RUnrecord, RPrune, RRemove, RNothing, RReprune, files
        <3> QED
            BY <3>1 DEF Asleep
    <2> QED
        BY <2>1, <2>2
<1>4. CASE \E v \in Versions : Import(v) \/ Delete(v)
    BY <1>4 DEF Import, Delete, Asleep
<1>5. CASE Stop \/ Crash
    BY <1>5 DEF Stop, Crash, Down, NoImport, NoTorrents, Asleep
<1>6. CASE LockExpires \/ UNCHANGED vars
    BY <1>6 DEF LockExpires, vars, Asleep
<1> QED
    BY <1>1, <1>2, <1>3, <1>4, <1>5, <1>6 DEF Next

LEMMA AsleepHolds == Spec => []Asleep
<1>1. Init => Asleep
    BY DEF Init, Asleep, NoTorrents, NoImport
<1> QED
    BY <1>1, Control, NextAsleep, PTL DEF Spec

\* No torrent begins, and what one reads from is left.
LEMMA BackedStays ==
    ASSUME Backed, TypeOK,
           \A h \in Infohashes : torrents'[h] \in {torrents[h], None},
           \A v \in Versions : IsBacking(v) /\ dirs[v] # "none" => dirs'[v] # "none"
    PROVE  Backed'
<1> SUFFICES ASSUME NEW h \in Infohashes, torrents'[h] # None PROVE dirs'[torrents'[h]] # "none"
    BY DEF Backed
<1>1. torrents'[h] = torrents[h] /\ torrents[h] \in Versions
    BY DEF TypeOK
<1>2. IsBacking(torrents[h]) /\ dirs[torrents[h]] # "none"
    BY <1>1 DEF IsBacking, Backed
<1> QED
    BY <1>1, <1>2

\* Pruning leaves what a torrent reads from, with whatever the caller keeps.
LEMMA PrunedLeaves ==
    ASSUME NEW keep
    PROVE  /\ \A v \in Versions : IsBacking(v) \/ v \in keep => Pruned(keep, dirs)[v] = dirs[v]
           /\ \A v \in Versions : Pruned(keep, dirs)[v] \in {dirs[v], "none"}
BY DEF Pruned

\* Of an import's steps only the last of a dropped version removes what a torrent might
\* read from, and only the seeding adds a torrent.
LEMMA ImporterBacked ==
    ASSUME ControlInv, Backed, Importer, Seed => dirs[imp.v] # "none", Dropped => ~IsBacking(imp.v)
    PROVE  Backed'
<1> USE DEF ControlInv, TypeOK
<1>1. CASE Seed
    <2>1. imp.v \in Versions /\ dirs' = dirs
        BY <1>1 DEF Seed, Importing, At, files
    <2>2. \A h \in Infohashes : torrents'[h] \in {torrents[h], imp.v}
        BY <1>1 DEF Seed
    <2> QED
        BY <1>1, <2>1, <2>2 DEF Backed
<1>2. CASE ~Seed
    <2>1. \A h \in Infohashes : torrents'[h] \in {torrents[h], None}
        BY <1>2, Zenon
        DEF Importer, Begin, RemovePending, Stage, Record, Download, Journal, Upsert, Publish, StopPrevious,
            ShareFails, Drop, Dropped, Cancel, Proceed, RemoveDuplicate, WritePointer, SetModelLink, RemoveRecord,
            StopOld, PruneOld, Throws, Stopped
    <2>2. \A v \in Versions : IsBacking(v) /\ dirs[v] # "none" => dirs'[v] # "none"
        <3>1. CASE Begin \/ Stage \/ Download \/ Drop
            BY <3>1 DEF Begin, Stage, Download, Drop
        <3>2. CASE Dropped
            BY <3>2 DEF Dropped
        <3>3. CASE RemoveDuplicate
            BY <3>3 DEF RemoveDuplicate
        <3>4. CASE PruneOld
            BY <3>4, PrunedLeaves DEF PruneOld
        <3>5. CASE ~(Begin \/ Stage \/ Download \/ Drop \/ Dropped \/ RemoveDuplicate \/ PruneOld)
            BY <1>2, <3>5
            DEF Importer, RemovePending, Record, Journal, Upsert, Publish, StopPrevious, ShareFails, Cancel, Proceed,
                WritePointer, SetModelLink, RemoveRecord, StopOld, Throws, files
        <3> QED
            BY <3>1, <3>2, <3>3, <3>4, <3>5
    <2> QED
        BY <2>1, <2>2, BackedStays
<1> QED
    BY <1>1, <1>2

\* A recovery prunes around the torrents, and a process that has none may lose directories.
LEMMA OthersBacked ==
    ASSUME ControlInv, Asleep, Backed, OtherStep
    PROVE  Backed'
<1> USE DEF ControlInv, TypeOK
<1>1. CASE \E v \in Versions : Delete(v)
    BY <1>1 DEF Delete, Asleep, Backed
<1>2. CASE ~\E v \in Versions : Delete(v)
    <2>1. \A h \in Infohashes : torrents'[h] \in {torrents[h], None}
        <3>1. CASE RRestore
            BY <3>1 DEF RRestore
        <3>2. CASE Stop \/ Crash
            BY <3>2 DEF Stop, Crash, Down, NoTorrents
        <3>3. CASE ~RRestore /\ ~Stop /\ ~Crash
            <4>1. torrents' = torrents
                BY <1>2, <3>3, Zenon
                DEF OtherStep, Recover, Recoverer, RLock, RCommitted, RComplete, RAbandon, RNoPointer, RNoContent,
                    RLink, RWriteFails, RUnrecord, RPrune, RRemove, RNothing, RReprune, Import, LockExpires, vars
            <4> QED
                BY <4>1
        <3> QED
            BY <3>1, <3>2, <3>3
    <2>2. \A v \in Versions : IsBacking(v) /\ dirs[v] # "none" => dirs'[v] # "none"
        <3>1. dirs' = dirs \/ \E keep \in SUBSET Versions : dirs' = Pruned(keep, dirs)
            <4>1. CASE RNoPointer \/ RNoContent
                BY <4>1 DEF RNoPointer, RNoContent
            <4>2. CASE RPrune
                BY <4>2 DEF RPrune, Recovering, RAt, Pointer
            <4>3. CASE RReprune
                BY <4>3 DEF RReprune, Pointer
            <4>4. CASE ~RNoPointer /\ ~RNoContent /\ ~RPrune /\ ~RReprune
                BY <1>2, <4>4, Zenon
                DEF OtherStep, Recover, Recoverer, RLock, RCommitted, RComplete, RAbandon,
                    RLink, RWriteFails, RUnrecord, RRemove, RNothing, RRestore, Import, Stop, Crash,
                    LockExpires, vars, files
            <4> QED
                BY <4>1, <4>2, <4>3, <4>4
        <3> QED
            BY <3>1, PrunedLeaves
    <2> QED
        BY <2>1, <2>2, BackedStays
<1> QED
    BY <1>1, <1>2

\* Where a publication cannot fail, no version is dropped and none that is there goes but
\* a duplicate, which is not the promoted one.
LEMMA ImporterThere ==
    ASSUME ControlInv, Phases, There, Removable, Importer
    PROVE  There'
<1>1. "publish" \notin troubles /\ up = "up" /\ up' = "up" /\ imp.pc # "idle"
    <2>1. imp.pc # "idle" /\ up' = up
        BY DEF Importer, Begin, RemovePending, Stage, Record, Download, Journal, Seed, Upsert, Publish, StopPrevious,
            ShareFails, Drop, Dropped, Cancel, Proceed, RemoveDuplicate, WritePointer, SetModelLink, RemoveRecord,
            StopOld, PruneOld, Throws, At
    <2> QED
        BY <2>1 DEF Removable, Only, Phases, ControlInv, TypeOK
<1>c. Importing
    BY DEF ControlInv
<1>p. ptr # None => ptr.version \in Versions /\ dirs[ptr.version] # "none"
    BY <1>1 DEF There, Handled, ControlInv, TypeOK, Pointer
<1>d. dirs \in [Versions -> {"none", "part", "full"}]
    BY DEF ControlInv, TypeOK
<1> USE DEF There, Staging, Committed, At, Moves, Same, Leaves
<1>2. CASE Begin
    <2>1. ptr' = ptr /\ \A v \in Versions : dirs[v] # "none" => dirs'[v] # "none"
        BY <1>2, <1>d DEF Begin
    <2>2. imp'.pc \notin {"drop", "dropped"} /\ ~(Staging' /\ imp'.pc \notin {"unpend"})
        BY <1>2, BeginMoves
    <2> QED
        BY <1>p, <2>1, <2>2
<1>3. CASE RemovePending
    <2>1. dirs' = dirs /\ ptr' = ptr
        BY <1>3 DEF RemovePending
    <2> QED
        BY <1>3, <1>c, <1>p, <2>1, PendingMoves
<1>4. CASE Stage \/ Record \/ Download
    <2>1. ptr' = ptr /\ \A v \in Versions : dirs[v] # "none" => dirs'[v] # "none"
        BY <1>4, <1>d DEF Stage, Record, Download
    <2>2. Download => dirs'[imp.v] = "full" /\ imp'.v = imp.v
        BY <1>1, <1>c, <1>d, StepMoves DEF Download, Importing
    <2> QED
        BY <1>4, <1>p, <2>1, <2>2, StepMoves
<1>5. CASE Journal
    BY <1>5, <1>c, <1>p, JournalMoves DEF Journal, Importing
<1>6. CASE Seed
    BY <1>6, <1>c, <1>p, SeedMoves DEF Seed, Importing, files
<1>7. CASE Upsert \/ Cancel \/ StopPrevious \/ StopOld \/ SetModelLink \/ RemoveRecord
    <2>1. dirs' = dirs /\ ptr' = ptr
        BY <1>7 DEF Upsert, Cancel, StopPrevious, StopOld, SetModelLink, RemoveRecord, files
    <2> QED
        BY <1>7, <1>c, <1>p, <2>1, StepMoves
<1>8. CASE Publish
    BY <1>8, <1>c, <1>p, BranchMoves DEF Publish, Importing, files
<1>9. CASE Proceed
    BY <1>9, <1>c, <1>p, BranchMoves DEF Proceed, Importing, files
<1>10. CASE ShareFails \/ Drop \/ Dropped
    BY <1>1, <1>10 DEF ShareFails, Drop, Dropped
<1>11. CASE RemoveDuplicate
    <2>1. ptr # None /\ ptr.version # imp.v /\ ptr' = ptr
        BY <1>11, <1>c DEF RemoveDuplicate, Importing, IsCurrent
    <2>2. dirs'[ptr.version] # "none"
        BY <1>11, <1>d, <1>p, <2>1 DEF RemoveDuplicate
    <2> QED
        BY <1>11, <2>1, <2>2, DuplicateMoves
<1>12. CASE WritePointer
    <2>1. dirs' = dirs /\ dirs[imp.v] # "none" /\ ptr'.version = imp.v
        BY <1>12, <1>c DEF WritePointer, Importing
    <2> QED
        BY <1>12, <2>1, StepMoves
<1>13. CASE PruneOld
    <2>1. ptr' = ptr /\ ptr # None /\ ptr.version = imp.v
        BY <1>13, <1>c DEF PruneOld, Importing, IsCurrent
    <2>2. dirs'[ptr.version] # "none"
        BY <1>13, <1>p, <2>1, PrunedLeaves, ZenonT(60) DEF PruneOld
    <2> QED
        BY <1>13, <2>1, <2>2, StepMoves
<1>14. CASE Throws
    <2>1. dirs' = dirs /\ ptr' = ptr
        BY <1>14 DEF Throws, files
    <2> QED
        BY <1>1, <1>14, <1>p, <2>1, BranchMoves DEF Throws
<1> QED
    BY <1>2, <1>3, <1>4, <1>5, <1>6, <1>7, <1>8, <1>9, <1>10, <1>11, <1>12, <1>13, <1>14, Zenon DEF Importer

\* A start handles what it finds: a promoted version that is gone is not promoted any more.
LEMMA RecovererThere ==
    ASSUME ControlInv, Phases, There, Recover \/ Recoverer
    PROVE  There'
<1>1. imp' = imp
    BY Zenon
    DEF Recover, Recoverer, RLock, RCommitted, RComplete, RAbandon, RNoPointer, RNoContent, RLink, RWriteFails,
        RUnrecord, RPrune, RRemove, RNothing, RRestore, RReprune
<1>2. Staging /\ imp.pc \notin {"unpend", "stage", "record", "download"} => dirs'[imp.v] # "none"
    <2>1. ASSUME imp.pc # "idle" PROVE dirs' = dirs
        BY <2>1
        DEF Recover, Recoverer, RLock, RCommitted, RComplete, RAbandon, RNoPointer, RNoContent, RLink, RWriteFails,
            RUnrecord, RPrune, RRemove, RNothing, RRestore, RReprune, files, ControlInv, Locked, RAt
    <2> QED
        BY <2>1 DEF There, Staging
<1>3. Handled' /\ ptr' # None => dirs'[ptr'.version] # "none"
    <2> USE DEF There, Handled, RAt
    <2>0. /\ rcv \in RecoveryState
          /\ ptr # None => ptr.version \in Versions
          /\ up \in {"down", "starting", "up"}
        BY DEF ControlInv, TypeOK, Pointer
    <2>1. CASE Recover
        BY <2>0, <2>1 DEF Recover, NoRecovery, files
    <2>2. CASE RLock
        <3>1. UNCHANGED <<ptr, dirs, up>>
            BY <2>2 DEF RLock, files
        <3>2. up = "starting" => lock = "free"
            BY <2>2 DEF RLock, Phases, ControlInv, Locked, TypeOK
        <3>3. up = "starting" => rcv'.pc = "pending"
            BY <2>0, <2>2, <3>2 DEF RLock, RGoto, RecoveryState
        <3> QED
            BY <2>0, <3>1, <3>3
    <2>3. ASSUME NEW v \in Versions, RCommitted(v) \/ RAbandon(v)
          PROVE  Handled' /\ ptr' # None => dirs'[ptr'.version] # "none"
        <3>1. UNCHANGED <<ptr, dirs, up>> /\ rcv'.pc = rcv.pc
            BY <2>0, <2>3 DEF RCommitted, RAbandon, RecoveryState
        <3> QED
            BY <3>1
    <2>4. ASSUME NEW v \in Versions, RComplete(v)
          PROVE  dirs'[ptr'.version] # "none"
        BY <2>4 DEF RComplete, Journaled
    <2>5. CASE RNoPointer \/ RNoContent
        BY <2>5 DEF RNoPointer, RNoContent
    <2>6. CASE RLink \/ RWriteFails
        BY <2>6 DEF RLink, RWriteFails, files
    <2>7. CASE RUnrecord \/ RRemove
        <3>1. UNCHANGED <<ptr, dirs, up>>
            BY <2>7 DEF RUnrecord, RRemove
        <3>2. rcv.pc \notin {"lock", "pending", "idle"}
            BY <2>7 DEF RUnrecord, RRemove
        <3>3. up = "starting" \/ up = "up"
            BY <2>0, <3>2 DEF Phases
        <3> QED
            BY <3>1, <3>2, <3>3
    <2>8. CASE RPrune
        <3>1. ptr # None /\ ptr.version \in Versions /\ dirs[ptr.version] # "none" /\ ptr' = ptr
            BY <2>0, <2>8 DEF RPrune, ControlInv, Recovering, Phases
        <3>2. dirs'[ptr.version] = dirs[ptr.version]
            <4>1. dirs' = Pruned({ptr.version}, dirs)
                BY <2>8 DEF RPrune
            <4>2. Pruned({ptr.version}, dirs)[ptr.version] = dirs[ptr.version]
                BY <3>1, PrunedLeaves
            <4> QED
                BY <4>1, <4>2
        <3> QED
            BY <3>1, <3>2
    <2>9. CASE RNothing \/ RRestore
        <3>1. UNCHANGED <<ptr, dirs>> /\ Handled
            BY <2>0, <2>9 DEF RNothing, RRestore, Phases, files
        <3> QED
            BY <3>1
    <2>10. CASE RReprune
        <3>1. up = "up" /\ up' = up /\ ptr' = ptr
            BY <2>0, <2>10 DEF RReprune, Phases
        <3>2. ptr # None => dirs'[ptr.version] = dirs[ptr.version]
            BY <2>0, <2>10, PrunedLeaves, ZenonT(60) DEF RReprune
        <3> QED
            BY <3>1, <3>2
    <2> QED
        BY <2>1, <2>2, <2>3, <2>4, <2>5, <2>6, <2>7, <2>8, <2>9, <2>10, Zenon DEF Recoverer
<1> QED
    BY <1>1, <1>2, <1>3 DEF There, Staging

LEMMA NextThere ==
    /\ ControlInv /\ (Punctual => Phases) /\ (Removable => There) /\ [Next]_vars
    => (Removable => There)'
<1> SUFFICES ASSUME ControlInv, Punctual => Phases, Removable => There, [Next]_vars, Removable'
             PROVE  There'
    OBVIOUS
<1>1. troubles' = troubles
    BY SameTroubles
<1>2. Removable /\ Phases /\ There
    BY <1>1 DEF Removable, Punctual, Only
<1>3. CASE Importer
    BY <1>2, <1>3, ImporterThere
<1>4. CASE Recover \/ Recoverer
    BY <1>2, <1>4, RecovererThere
<1> USE DEF There, Staging, Handled
<1>5. ASSUME NEW v \in Versions, Import(v) PROVE There'
    BY <1>2, <1>5 DEF Import, NoImport, files
<1>6. ASSUME NEW v \in Versions, Delete(v) PROVE There'
    BY <1>2, <1>6 DEF Delete, Phases
<1>7. CASE Stop \/ Crash
    BY <1>7 DEF Stop, Crash, Down, NoImport
<1>8. CASE LockExpires \/ UNCHANGED vars
    BY <1>2, <1>8 DEF LockExpires, vars, files
<1> QED
    BY <1>3, <1>4, <1>5, <1>6, <1>7, <1>8 DEF Next

LEMMA ThereHolds == Spec => [](Removable => There)
<1>1. Init => There
    BY DEF Init, There, Handled, Staging, NoImport
<1> QED
    BY <1>1, Control, PhasesHold, NextThere, PTL DEF Spec

\* So no torrent loses its directory to an import, a recovery or a hand.
LEMMA NextBacked ==
    /\ ControlInv /\ Asleep /\ (Whole => CompleteInv) /\ (Removable => There)
    /\ (Whole \/ Removable => Backed) /\ [Next]_vars
    => (Whole \/ Removable => Backed)'
<1> SUFFICES ASSUME ControlInv, Asleep, Whole => CompleteInv, Removable => There, Whole \/ Removable => Backed,
                    [Next]_vars, (Whole \/ Removable)'
             PROVE  Backed'
    OBVIOUS
<1>1. (Whole \/ Removable) /\ Backed
    BY SameTroubles DEF Whole, Removable, Only
<1>2. CASE Importer
    <2>1. Dropped => ~IsBacking(imp.v)
        BY <1>1 DEF Dropped, At, CompleteInv, Staged, There
    <2>2. Seed => dirs[imp.v] # "none"
        <3> SUFFICES ASSUME Seed PROVE dirs[imp.v] # "none"
            OBVIOUS
        <3>1. imp.pc = "seed" /\ up = "up" /\ (imp.again => IsCurrent(imp.v))
            BY DEF Seed, At, Asleep, ControlInv, Importing
        <3> QED
            BY <1>1, <3>1
            DEF CompleteInv, Staged, PromotedComplete, There, Handled, Staging, Committed, IsCurrent
    <2> QED
        BY <1>1, <1>2, <2>1, <2>2, ImporterBacked
<1>3. CASE OtherStep
    BY <1>1, <1>3, OthersBacked
<1> QED
    BY <1>2, <1>3 DEF Next, OtherStep

LEMMA BackedHolds == Spec => [](Whole \/ Removable => Backed)
<1>1. Init => Backed
    BY DEF Init, Backed, NoTorrents
<1> QED
    BY <1>1, Control, AsleepHolds, Complete, ThereHolds, NextBacked, PTL DEF Spec

-----------------------------------------------------------------------------
(***************************************************************************)
(* Where publications fail, but nothing else goes wrong.                   *)
(***************************************************************************)
Unpublished == Only({"publish"})
Own == IF ptr = None THEN None ELSE ptr.ih

\* While no process is up, the content of the share is kept, by the promoted version or
\* by one whose promotion a start completes.
ShareRests ==
    /\ share # None => Kept(share)
    /\ ptr # None => Kept(ptr.ih) /\ dirs[ptr.version] # "none"
    /\ ptr = None /\ share # None => \E v \in pend : dirs[v] = "full" /\ HashOf[v] = share
Starting ==
    /\ rcv.pc \in {"lock", "pending"} => rcv.share = share /\ rcv.restore = None
    /\ rcv.pc \in {"prune", "remove", "restore"} => rcv.restore = Own
    /\ rcv.pc \in {"remove", "restore"} /\ ptr = None => share = None
AtRest == (up # "up" => ShareRests) /\ (up = "starting" => Starting)

\* In a process that is up the share is that of the promoted version, or of the one that
\* is being published, and so are the torrents.
Promoted ==
    ptr # None => ptr.ih = HashOf[ptr.version] /\ dirs[ptr.version] = "full" /\ torrents[ptr.ih] = ptr.version
Shares == share = IF imp.pc \in {"publish", "published", "pointer"} THEN Hash ELSE Own
Offering == imp.pc \in {"upsert", "publish", "published", "pointer"}
Reads ==
    /\ \A h \in Infohashes : torrents[h] # None =>
          \/ h = Own
          \/ Offering /\ h = Hash /\ torrents[h] = imp.v
          \/ imp.pc \in {"link", "clean", "cleanrec", "retire"} /\ h = imp.prevOwn
    /\ Offering => torrents[Hash] # None
Offers ==
    /\ Staging /\ (Offering \/ imp.pc \in {"journal", "seed"}) => dirs[imp.v] = "full"
    /\ Staging /\ (Offering \/ imp.pc = "seed") => imp.v \in pend /\ imp.prevOwn = Own
    /\ imp.pc \in {"pointer", "link", "clean", "cleanrec", "retire"} => imp.prevOwn # Hash
    /\ imp.pc \in {"same", "unrecord"} => ptr.ih = Hash
    /\ imp.pc \in {"upsert", "publish", "stopprev"} => imp.prev = Own
    /\ imp.pc \in {"upsert", "publish"} => (imp.owned <=> Own # Hash)
Runs == rcv.pc = "idle" /\ Promoted /\ Shares /\ Reads /\ Offers
Running == up = "up" => Runs

\* A process that stops or crashes leaves its share at rest.
LEMMA RunsRests == ASSUME ControlInv, Vouched, Runs PROVE ShareRests
<1>1. ptr # None => Kept(ptr.ih) /\ dirs[ptr.version] # "none"
    BY DEF Runs, Promoted, Kept, Held, IsCurrent, ControlInv, TypeOK, Pointer
<1>2. CASE share = Own
    BY <1>1, <1>2 DEF Own, ShareRests
<1>3. CASE share # Own
    <2>1. imp.pc \in {"publish", "published", "pointer"} /\ share = HashOf[imp.v]
        BY <1>3 DEF Runs, Shares, Hash
    <2>2. ~imp.again
        BY <1>3, <2>1 DEF ControlInv, Importing, Runs, Promoted, IsCurrent, Own
    <2>3. imp.v \in Versions /\ dirs[imp.v] = "full" /\ imp.v \in pend /\ imp.v \in recs
        BY <2>1, <2>2 DEF ControlInv, Importing, Runs, Offers, Offering, Vouched, Staging, Committed
    <2> QED
        BY <1>1, <2>1, <2>3 DEF ShareRests, Kept, Held
<1> QED
    BY <1>2, <1>3

LEMMA ImporterRuns == ASSUME ControlInv, Runs, Unpublished, Importer PROVE Runs'
<1>i. Importing /\ imp \in ImportState
    BY DEF ControlInv, TypeOK
<1>t. /\ torrents \in [Infohashes -> Versions \cup {None}]
      /\ dirs \in [Versions -> {"none", "part", "full"}]
      /\ ptr # None => ptr.version \in Versions /\ ptr.ih \in Infohashes
      /\ imp.v \in Versions /\ Hash \in Infohashes /\ Hash # None
      /\ share \in Infohashes \cup {None}
    <2>1. imp.v \in Versions
        BY <1>i
        DEF Importer, Begin, RemovePending, Stage, Record, Download, Journal, Seed, Upsert, Publish, StopPrevious,
            ShareFails, Drop, Dropped, Cancel, Proceed, RemoveDuplicate, WritePointer, SetModelLink, RemoveRecord,
            StopOld, PruneOld, Throws, At, Importing
    <2> QED
        BY <2>1, HashAssumption, NoneAssumption DEF ControlInv, TypeOK, Pointer, Hash
<1>r. rcv' = rcv
    BY DEF Importer, Begin, RemovePending, Stage, Record, Download, Journal, Seed, Upsert, Publish, StopPrevious,
        ShareFails, Drop, Dropped, Cancel, Proceed, RemoveDuplicate, WritePointer, SetModelLink, RemoveRecord,
        StopOld, PruneOld, Throws
<1>w. "write" \notin troubles
    BY DEF Unpublished, Only
<1> USE <1>i, <1>t, <1>r, NoneAssumption
    DEF Runs, Promoted, Shares, Reads, Offering, Offers, Own, Staging, Committed, Importing, IsCurrent,
        At, Moves, Same, Leaves, Hash
<1>1. CASE Begin
    BY <1>1, BeginMoves DEF Begin
<1>2. CASE RemovePending
    BY <1>2, PendingMoves DEF RemovePending
<1>3. CASE Stage
    BY <1>3, StepMoves DEF Stage
<1>4. CASE Record
    BY <1>4, StepMoves DEF Record
<1>5. CASE Download
    BY <1>5, StepMoves DEF Download
<1>6. CASE Journal
    BY <1>6, JournalMoves DEF Journal
<1>7. CASE Seed
    <2>1. /\ imp.pc = "seed" /\ imp'.pc = "upsert" /\ imp'.v = imp.v /\ (imp'.again <=> imp.again)
          /\ imp'.prevOwn = imp.prevOwn /\ imp'.prev = share
          /\ (imp'.owned <=> torrents[Hash] = None)
          /\ UNCHANGED <<ptr, share, dirs, pend>>
        BY <1>7, SeedMoves DEF Seed, files
    <2>2. torrents' = IF torrents[Hash] = None THEN [torrents EXCEPT ![Hash] = imp.v] ELSE torrents
        BY <1>7 DEF Seed
    <2>3. torrents[Hash] = None <=> Own # Hash
        BY <2>1
    <2>4. Promoted' /\ Shares' /\ Offers'
        BY <2>1, <2>2, <2>3
    <2>5. Reads'
        BY <2>1, <2>2, <2>3
    <2> QED
        BY <2>4, <2>5
<1>8. CASE Upsert
    BY <1>8, StepMoves DEF Upsert
<1>9. CASE Publish
    BY <1>9, BranchMoves DEF Publish, files
<1>10. CASE StopPrevious
    BY <1>10, StepMoves DEF StopPrevious, files
<1>11. CASE ShareFails
    BY <1>11, BranchMoves DEF ShareFails, Stopped
<1>12. CASE Drop
    BY <1>12, StepMoves DEF Drop
<1>13. CASE Dropped
    BY <1>13, StepMoves DEF Dropped
<1>14. CASE Cancel
    BY <1>14, StepMoves DEF Cancel, Stopped
<1>15. CASE Proceed
    BY <1>15, BranchMoves DEF Proceed, files
<1>16. CASE RemoveDuplicate
    BY <1>16, DuplicateMoves DEF RemoveDuplicate
<1>17. CASE WritePointer
    <2>1. imp.pc = "pointer" /\ ~imp.again /\ imp'.pc = "link" /\ Same
        BY <1>17, StepMoves DEF WritePointer
    <2>2. ptr' # None /\ ptr'.version = imp.v /\ ptr'.ih = Hash /\ UNCHANGED <<share, dirs, torrents>>
        BY <1>17 DEF WritePointer, Pointer
    <2>3. imp.prevOwn = Own /\ imp.prevOwn # Hash /\ dirs[imp.v] = "full" /\ torrents[Hash] = imp.v
        BY <2>1
    <2>4. share' = Hash
        BY <1>17, <2>1, <2>2, <2>3
    <2> QED
        BY <2>1, <2>2, <2>3, <2>4
<1>18. CASE SetModelLink
    BY <1>18, StepMoves DEF SetModelLink
<1>19. CASE RemoveRecord
    BY <1>19, StepMoves DEF RemoveRecord
<1>20. CASE StopOld
    BY <1>20, StepMoves DEF StopOld, Stopped, files
<1>21. CASE PruneOld
    BY <1>21, StepMoves DEF PruneOld, Pruned
<1>22. CASE Throws
    BY <1>22, <1>w, BranchMoves DEF Throws, files
<1> QED
    BY <1>1, <1>2, <1>3, <1>4, <1>5, <1>6, <1>7, <1>8, <1>9, <1>10, <1>11, <1>12, <1>13, <1>14, <1>15, <1>16,
       <1>17, <1>18, <1>19, <1>20, <1>21, <1>22, Zenon DEF Importer

\* A start completes a promotion or gives the share back to the promoted version, and
\* prunes nothing of either.
LEMMA StartRests ==
    ASSUME ControlInv, Phases, ShareRests, Starting, up = "starting", Unpublished, Recoverer, ~RNothing
    PROVE  ShareRests' /\ (up' = "starting" => Starting')
<1>r. /\ rcv \in RecoveryState /\ rcv.pc # "reprune"
      /\ ptr # None => ptr \in Pointer
      /\ dirs \in [Versions -> {"none", "part", "full"}]
      /\ share \in Infohashes \cup {None}
    BY DEF ControlInv, TypeOK, Phases
<1>w. "write" \notin troubles
    BY DEF Unpublished, Only
<1>h. rcv.pc \in {"unrecord", "prune"} => ptr # None
    BY DEF ControlInv, Recovering
<1>k. ASSUME UNCHANGED <<share, dirs, recs, pend, ptr>> PROVE ShareRests'
    BY <1>k DEF ShareRests, Kept, Held, IsCurrent
<1> USE <1>r, NoneAssumption DEF RAt, RGoto, RecoveryState, Starting, Own
<1>1. CASE RLock
    <2>1. lock = "free"
        BY <1>1 DEF RLock, Phases, ControlInv, Locked, TypeOK
    <2> QED
        BY <1>1, <1>k, <2>1 DEF RLock, files
<1>2. ASSUME NEW v \in Versions, RCommitted(v) PROVE ShareRests' /\ (up' = "starting" => Starting')
    <2>1. ptr # None /\ UNCHANGED <<share, dirs, recs, ptr, rcv>>
        BY <1>2 DEF RCommitted, IsCurrent
    <2> QED
        BY <1>2, <2>1 DEF RCommitted, ShareRests, Kept, Held, IsCurrent
<1>3. ASSUME NEW v \in Versions, RAbandon(v) PROVE ShareRests' /\ (up' = "starting" => Starting')
    <2>1. ptr # None \/ share = None
        BY <1>3 DEF RAbandon
    <2>2. UNCHANGED <<share, dirs, recs, ptr>> /\ rcv'.pc = "pending" /\ rcv'.share = rcv.share
          /\ rcv'.restore = rcv.restore
        BY <1>3 DEF RAbandon
    <2>3. ShareRests'
        BY <2>1, <2>2 DEF ShareRests, Kept, Held, IsCurrent
    <2> QED
        BY <1>3, <2>2, <2>3 DEF RAbandon
<1>4. ASSUME NEW v \in Versions, RComplete(v) PROVE ShareRests' /\ (up' = "starting" => Starting')
    <2>1. /\ rcv.pc = "pending" /\ share # None /\ ptr = None /\ dirs[v] # "none"
          /\ ptr' = [version |-> v, ih |-> share] /\ UNCHANGED <<share, dirs, recs, pend, rcv>>
        BY <1>4 DEF RComplete, Journaled
    <2>2. ptr' # None /\ ptr'.ih = share /\ ptr'.version = v
        BY <2>1 DEF Pointer
    <2>3. \E w \in Versions : HashOf[w] = share /\ dirs[w] = "full" /\ w \in recs
        BY <2>1 DEF ShareRests, Kept, Held, IsCurrent
    <2>4. \E w \in Versions : HashOf[w] = share' /\ dirs'[w] = "full" /\ w \in recs'
        BY <2>1, <2>3
    <2> QED
        BY <2>1, <2>2, <2>4 DEF ShareRests, Kept, Held, IsCurrent
<1>5. CASE RNoPointer
    <2>1. ptr = None /\ rcv.pc = "pending"
        BY <1>5 DEF RNoPointer
    <2>2. share = None
        BY <1>5, <2>1 DEF RNoPointer, Journaled, ShareRests
    <2>3. rcv'.pc = "remove" /\ rcv'.restore = None /\ ptr' = None /\ share' = None
        BY <1>5, <2>1, <2>2 DEF RNoPointer, Unlock
    <2> QED
        BY <2>3 DEF ShareRests
<1>6. CASE RNoContent \/ RWriteFails \/ RReprune
    BY <1>6, <1>w DEF RNoContent, RWriteFails, RReprune, ShareRests
<1>7. CASE RLink
    BY <1>7, <1>k DEF RLink
<1>8. CASE RUnrecord
    <2>1. /\ ptr # None /\ recs' = recs \ {ptr.version} /\ UNCHANGED <<share, dirs, pend, ptr>>
          /\ rcv'.pc = "prune" /\ rcv'.restore = ptr.ih
        BY <1>8, <1>h DEF RUnrecord
    <2>2. \A v \in Versions : Held(v) => Held(v)'
        BY <2>1 DEF Held, IsCurrent
    <2> QED
        BY <2>1, <2>2 DEF ShareRests, Kept
<1>9. CASE RPrune
    <2>1. /\ ptr # None /\ dirs' = Pruned({ptr.version}, dirs) /\ UNCHANGED <<share, recs, pend, ptr>>
          /\ rcv'.pc = "remove" /\ rcv'.restore = rcv.restore /\ rcv.restore = Own
        BY <1>9, <1>h DEF RPrune, Unlock
    <2>2. \A v \in Versions : Held(v) => Held(v)'
        BY <2>1 DEF Held, IsCurrent, Pruned
    <2>3. dirs'[ptr.version] # "none"
        BY <2>1 DEF ShareRests, Pruned, Pointer
    <2> QED
        BY <2>1, <2>2, <2>3 DEF ShareRests, Kept
<1>10. CASE RRemove
    <2>1. UNCHANGED <<dirs, recs, pend, ptr>> /\ share' \in {share, None} /\ rcv'.pc = "restore"
          /\ rcv'.restore = rcv.restore /\ rcv.pc = "remove"
        BY <1>10 DEF RRemove
    <2>2. ShareRests'
        BY <2>1 DEF ShareRests, Kept, Held, IsCurrent
    <2> QED
        BY <2>1, <2>2
<1>11. CASE RRestore
    <2>1. UNCHANGED <<dirs, recs, pend, ptr>> /\ share' = ptr.ih /\ ptr # None /\ up' = "down"
        BY <1>11 DEF RRestore
    <2> QED
        BY <2>1 DEF ShareRests, Kept, Held, IsCurrent
<1> QED
    BY <1>1, <1>2, <1>3, <1>4, <1>5, <1>6, <1>7, <1>8, <1>9, <1>10, <1>11 DEF Recoverer

LEMMA OthersRest ==
    ASSUME ControlInv, Phases, Asleep, Vouched, AtRest, Running, Unpublished, OtherStep
    PROVE  AtRest' /\ Running'
<1>t. "demand" \notin troubles /\ "delete" \notin troubles /\ up \in {"down", "starting", "up"}
    BY DEF Unpublished, Only, ControlInv, TypeOK
<1>r. ShareRests
    BY RunsRests DEF AtRest, Running
<1>k. ASSUME UNCHANGED <<share, dirs, recs, pend, ptr>> PROVE ShareRests'
    BY <1>k, <1>r DEF ShareRests, Kept, Held, IsCurrent
<1>1. CASE Recover
    <2>1. UNCHANGED <<share, dirs, recs, pend, ptr>> /\ up' = "starting" /\ rcv'.pc = "lock"
          /\ rcv'.share = share' /\ rcv'.restore = None
        BY <1>1, <1>t DEF Recover, NoRecovery, files
    <2> QED
        BY <2>1, <1>k DEF AtRest, Starting, Running
<1>2. CASE Recoverer
    <2>1. rcv.pc # "idle"
        BY <1>2
        DEF Recoverer, RLock, RCommitted, RComplete, RAbandon, RNoPointer, RNoContent, RLink, RWriteFails, RUnrecord,
            RPrune, RRemove, RNothing, RRestore, RReprune, RAt
    <2>2. up = "starting" /\ Starting
        BY <2>1, <1>t DEF Phases, Running, Runs, AtRest
    <2>3. CASE RNothing
        <3>1. ptr = None /\ share = None /\ imp.pc = "idle"
            BY <2>2, <2>3, NoneAssumption DEF RNothing, Starting, RAt, Own, Phases, ControlInv, TypeOK, Pointer
        <3>2. /\ up' = "up" /\ rcv'.pc = "idle" /\ ptr' = None /\ share' = None /\ imp' = imp
              /\ \A h \in Infohashes : torrents'[h] = None
            BY <2>2, <2>3, <3>1 DEF RNothing, NoRecovery, Asleep, files
        <3>3. Runs'
            BY <3>1, <3>2 DEF Runs, Promoted, Shares, Reads, Offers, Offering, Staging, Own
        <3> QED
            BY <3>2, <3>3 DEF AtRest, Running
    <2>4. CASE ~RNothing
        <3>1. ShareRests' /\ (up' = "starting" => Starting')
            BY <1>2, <1>r, <2>2, <2>4, StartRests
        <3>2. up' # "up"
            BY <1>2, <2>2, <2>4
            DEF Recoverer, RLock, RCommitted, RComplete, RAbandon, RNoPointer, RNoContent, RLink, RWriteFails,
                RUnrecord, RPrune, RRemove, RRestore, RReprune
        <3> QED
            BY <3>1, <3>2 DEF AtRest, Running
    <2> QED
        BY <2>3, <2>4
<1>3. ASSUME NEW v \in Versions, Import(v) PROVE AtRest' /\ Running'
    <2>1. up = "up" /\ up' = "up" /\ imp.pc = "idle" /\ imp'.pc = "begin" /\ ~imp'.again
          /\ UNCHANGED <<share, dirs, pend, ptr, rcv, torrents>>
        BY <1>3 DEF Import, NoImport, At, files
    <2> QED
        BY <2>1 DEF AtRest, Running, Runs, Promoted, Shares, Reads, Offers, Offering, Staging, Own
<1>4. ASSUME NEW v \in Versions, Delete(v) PROVE FALSE
    BY <1>4, <1>t DEF Delete
<1>5. CASE Stop \/ Crash
    BY <1>5, <1>k DEF Stop, Crash, Down, AtRest, Running, files
<1>6. CASE LockExpires \/ UNCHANGED vars
    <2>1. UNCHANGED <<share, dirs, recs, pend, ptr, rcv, imp, up, torrents>>
        BY <1>6 DEF LockExpires, vars, files
    <2> QED
        BY <2>1
        DEF AtRest, Starting, ShareRests, Kept, Held, IsCurrent, Running, Runs, Promoted, Shares, Reads, Offers,
            Offering, Staging, Own, Hash
<1> QED
    BY <1>1, <1>2, <1>3, <1>4, <1>5, <1>6 DEF OtherStep

\* In such a process what is dropped backs no torrent, and what is seeded is complete.
LEMMA RunsBacked ==
    ASSUME ControlInv, Runs, Backed, Importer
    PROVE  Backed'
<1>1. ASSUME Dropped PROVE ~IsBacking(imp.v)
    <2>1. imp.pc = "dropped" /\ ~IsCurrent(imp.v) /\ imp.v \in Versions
        BY <1>1 DEF Dropped, At, ControlInv, Importing, Staging, Committed
    <2>2. ASSUME NEW h \in Infohashes, torrents[h] = imp.v PROVE FALSE
        <3>1. h = Own
            BY <2>1, <2>2, NoneAssumption DEF Runs, Reads, Offering
        <3>2. ptr # None /\ torrents[h] = ptr.version
            BY <3>1, NoneAssumption DEF Own, Runs, Promoted
        <3> QED
            BY <2>1, <2>2, <3>2 DEF IsCurrent
    <2> QED
        BY <2>2 DEF IsBacking
<1>2. ASSUME Seed PROVE dirs[imp.v] # "none"
    <2>1. imp.pc = "seed"
        BY <1>2 DEF Seed, At
    <2> QED
        BY <2>1 DEF Runs, Promoted, Offers, Staging, Committed, ControlInv, Importing, IsCurrent
<1> QED
    BY <1>1, <1>2, ImporterBacked

LEMMA NextRunning ==
    /\ ControlInv /\ Asleep /\ Vouched /\ (Punctual => Phases)
    /\ (Unpublished => AtRest /\ Running /\ Backed) /\ [Next]_vars
    => (Unpublished => AtRest /\ Running /\ Backed)'
<1> SUFFICES ASSUME ControlInv, Asleep, Vouched, Punctual => Phases, Unpublished => AtRest /\ Running /\ Backed,
                    [Next]_vars, Unpublished'
             PROVE  AtRest' /\ Running' /\ Backed'
    OBVIOUS
<1>0. troubles' = troubles
    BY SameTroubles
<1>1. Unpublished /\ AtRest /\ Running /\ Backed /\ Phases
    BY <1>0 DEF Unpublished, Punctual, Only
<1>2. CASE Importer
    <2>1. up = "up" /\ up' = up
        BY <1>2
        DEF Importer, Begin, RemovePending, Stage, Record, Download, Journal, Seed, Upsert, Publish, StopPrevious,
            ShareFails, Drop, Dropped, Cancel, Proceed, RemoveDuplicate, WritePointer, SetModelLink, RemoveRecord,
            StopOld, PruneOld, Throws, At, Asleep
    <2> QED
        BY <1>1, <1>2, <2>1, ImporterRuns, RunsBacked DEF AtRest, Running
<1>3. CASE OtherStep
    BY <1>1, <1>3, OthersRest, OthersBacked
<1> QED
    BY <1>2, <1>3 DEF Next, OtherStep

LEMMA RunningHolds == Spec => [](Unpublished => AtRest /\ Running /\ Backed)
<1>1. Init => AtRest /\ Running /\ Backed
    BY DEF Init, AtRest, ShareRests, Running, Backed, NoTorrents
<1> QED
    BY <1>1, Control, AsleepHolds, VouchedHolds, PhasesHold, NextRunning, PTL DEF Spec

-----------------------------------------------------------------------------
\* "The name is published: the new content is referenced and must never be deleted", and
\* "No directory a live torrent is reading from is ever deleted" (README): what the name
\* was last published with, and what a torrent reads from, stays on the disk, under the
\* troubles that each of the two names.
THEOREM ReferencedIsKept == Spec => []ContentKept
<1>1. (Untroubled => Named) => PublishedKept
    BY DEF Untroubled, Named, NameKept, Kept, Held, PublishedKept, Available
<1>2. (Whole \/ Removable => Backed) /\ (Unpublished => AtRest /\ Running /\ Backed) => LiveHasDir
    BY DEF Whole, Removable, Unpublished, Backed, LiveHasDir
<1> QED
    BY <1>1, <1>2, NamedHolds, BackedHolds, RunningHolds, PTL DEF ContentKept

\* shares.json and current.json say what is so (hf.ts, versions.ts): the content of the
\* model's share is on the disk also when a publication fails, and current.json joins the
\* directory and the infohash of one version.
THEOREM RecordsAlwaysMatch == Spec => []RecordsMatch
<1>1. ControlInv /\ Vouched /\ (Unpublished => AtRest /\ Running /\ Backed) => ShareKept
    <2> SUFFICES ASSUME ControlInv, Vouched, Unpublished => AtRest /\ Running /\ Backed, Unpublished, share # None
                 PROVE  Available(share)
        BY DEF ShareKept, Unpublished
    <2>1. ShareRests
        BY RunsRests DEF AtRest, Running
    <2> QED
        BY <2>1 DEF ShareRests, Kept, Held, Available
<1>2. (Untroubled => Agreed) => PointerMatches
    BY DEF Untroubled, Agreed, Matching, PointerMatches
<1> QED
    BY <1>1, <1>2, Control, VouchedHolds, RunningHolds, AgreedHolds, PTL DEF RecordsMatch

-----------------------------------------------------------------------------
(***************************************************************************)
(* What a recovery achieves, whatever goes wrong.                          *)
(***************************************************************************)
\* From the repair of the link until the lock is released, current.json names a version
\* that is there and the link points to it.
Repaired ==
    /\ up = "down" => rcv.pc = "idle"
    /\ rcv.pc \in {"unrecord", "prune"} => link = ptr.version /\ dirs[ptr.version] # "none"

LEMMA NextRepaired == ControlInv /\ Repaired /\ [Next]_vars => Repaired'
<1> SUFFICES ASSUME ControlInv, Repaired, [Next]_vars PROVE Repaired'
    OBVIOUS
<1>1. CASE Importer
    <2>1. imp.pc # "idle" /\ up' = up /\ rcv' = rcv
        BY <1>1
        DEF Importer, Begin, RemovePending, Stage, Record, Download, Journal, Seed, Upsert, Publish, StopPrevious,
            ShareFails, Drop, Dropped, Cancel, Proceed, RemoveDuplicate, WritePointer, SetModelLink, RemoveRecord,
            StopOld, PruneOld, Throws, At
    <2> QED
        BY <2>1 DEF Repaired, ControlInv, Locked
<1>2. CASE Recover \/ RLock \/ RRemove
    BY <1>2
    DEF Recover, RLock, RRemove, RAt, RGoto, NoRecovery, Repaired, ControlInv, TypeOK, RecoveryState
<1>3. CASE \E v \in Versions : RCommitted(v) \/ RComplete(v) \/ RAbandon(v)
    BY <1>3 DEF RCommitted, RComplete, RAbandon, RAt, Repaired, ControlInv, TypeOK, RecoveryState
<1>4. CASE RNoPointer \/ RNoContent \/ RWriteFails \/ RPrune
    BY <1>4
    DEF RNoPointer, RNoContent, RWriteFails, RPrune, RAt, RGoto, Unlock, Repaired, ControlInv, TypeOK, RecoveryState
<1>5. CASE RLink
    BY <1>5 DEF RLink, RAt, RGoto, Repaired, ControlInv, TypeOK, RecoveryState
<1>6. CASE RUnrecord
    BY <1>6 DEF RUnrecord, RAt, Repaired, ControlInv, TypeOK, RecoveryState
<1>7. CASE RNothing \/ RReprune
    BY <1>7 DEF RNothing, RReprune, NoRecovery, Repaired
<1>8. CASE RRestore
    BY <1>8 DEF RRestore, RAt, RGoto, NoRecovery, Repaired, ControlInv, TypeOK, RecoveryState
<1>9. CASE \E v \in Versions : Import(v) \/ Delete(v)
    BY <1>9 DEF Import, Delete, Repaired, files
<1>10. CASE Stop \/ Crash
    BY <1>10 DEF Stop, Crash, Down, NoRecovery, Repaired
<1>11. CASE LockExpires \/ UNCHANGED vars
    BY <1>11 DEF LockExpires, vars, Repaired, files
<1> QED
    BY <1>1, <1>2, <1>3, <1>4, <1>5, <1>6, <1>7, <1>8, <1>9, <1>10, <1>11 DEF Next, Recoverer

\* Once a recovery has had the lock (versions.ts, recoverVersions), there is no promoted
\* version, or it is there and the link points to it, unless the link could not be written.
THEOREM RecoveriesRepair == Spec => RecoveryRepairs
<1> DEFINE Repairs ==
        lock = "recovery" /\ lock' = "free" =>
            \/ ptr' = None
            \/ dirs'[ptr'.version] # "none" /\ (link' = ptr'.version \/ RWriteFails)
<1>1. Init => Repaired
    BY DEF Init, Repaired, NoRecovery
<1>2. ControlInv /\ Repaired /\ [Next]_vars => Repairs
    <2> SUFFICES ASSUME ControlInv, Repaired, [Next]_vars, lock = "recovery", lock' = "free"
                 PROVE  \/ ptr' = None
                        \/ dirs'[ptr'.version] # "none" /\ (link' = ptr'.version \/ RWriteFails)
        OBVIOUS
    <2>1. RNoPointer \/ RNoContent \/ RWriteFails \/ RPrune
        <3>1. ~Importer
            BY DEF Importer, Begin, RemovePending, Stage, Record, Download, Journal, Seed, Upsert, Publish,
                StopPrevious, ShareFails, Drop, Dropped, Cancel, Proceed, RemoveDuplicate, WritePointer, SetModelLink,
                RemoveRecord, StopOld, PruneOld, Throws, At, ControlInv, Locked
        <3>2. ~Stop /\ ~Crash /\ ~LockExpires /\ ~UNCHANGED vars /\ ~Recover
            BY DEF Stop, Crash, LockExpires, vars, Recover
        <3>3. \A v \in Versions : ~Import(v) /\ ~Delete(v) /\ ~RCommitted(v) /\ ~RComplete(v) /\ ~RAbandon(v)
            BY DEF Import, Delete, RCommitted, RComplete, RAbandon
        <3>4. ~RLock /\ ~RLink /\ ~RUnrecord /\ ~RRemove /\ ~RNothing /\ ~RRestore /\ ~RReprune
            BY DEF RLock, RLink, RUnrecord, RRemove, RNothing, RRestore, RReprune, files
        <3> QED
            BY <3>1, <3>2, <3>3, <3>4 DEF Next, Recoverer
    <2>2. CASE RNoPointer \/ RNoContent
        BY <2>2 DEF RNoPointer, RNoContent
    <2>3. CASE RWriteFails
        BY <2>3 DEF RWriteFails, files
    <2>4. CASE RPrune
        <3>1. ptr' = ptr /\ link' = ptr.version /\ ptr # None /\ ptr.version \in Versions /\ dirs[ptr.version] # "none"
            BY <2>4 DEF RPrune, RAt, Repaired, ControlInv, Recovering, TypeOK, Pointer
        <3>2. dirs'[ptr.version] # "none"
            BY <2>4, <3>1 DEF RPrune, Pruned
        <3> QED
            BY <3>1, <3>2
    <2> QED
        BY <2>1, <2>2, <2>3, <2>4
<1> QED
    BY <1>1, <1>2, Control, NextRepaired, PTL DEF Spec, RecoveryRepairs
=============================================================================
