----------------------- MODULE LockDiscoveryProofs -------------------------
(***************************************************************************)
(* Two small components that share nothing: the lock of a repository and   *)
(* the discovery of other nodes.                                           *)
(***************************************************************************)
EXTENDS RepoLock, Discovery, TLAPS

-----------------------------------------------------------------------------
(***************************************************************************)
(* The lock.  Any number of processes that crash anywhere, release and     *)
(* reclaim share it safely, up to the first step that takes away what was  *)
(* made since the check that led to it ("blind").                          *)
(***************************************************************************)

\* The guard is that of the process in the guarded section.
GuardInv == \A p \in Procs : pc[p] \in Guarding => guard = NewGuard(p)

\* Between its mkdir and the end of its release, the directory at the lock's path is
\* the process's, and it is fresh.
MakerInv ==
    \A p \in Procs : /\ pc[p] \in Working => lock # None /\ lock.by = p /\ ~lock.old
                     /\ pc[p] \in {"keep", "held"} => lock.owner = p

\* What is to be renamed aside is old still.
RenameInv == \A p \in Procs : pc[p] \in {"reowner", "rename"} => lock # None /\ lock.old

Safe == GuardInv /\ MakerInv /\ RenameInv
LockInv == TypeOK /\ (~blind => Safe)

LEMMA Names ==
    ASSUME NEW p \in Procs
    PROVE  /\ Made(p) \in Dir /\ Made(p).by = p /\ Made(p).old = FALSE
           /\ Made(p) # None
           /\ NewGuard(p) \in GuardDir /\ NewGuard(p).by = p
           /\ NewGuard(p).old = FALSE /\ NewGuard(p) # None
<1>1. Made(p) \in Dir /\ Made(p).by = p /\ Made(p).old = FALSE
  BY DEF Made, Dir, Makers
<1>2. NewGuard(p) \in GuardDir /\ NewGuard(p).by = p /\ NewGuard(p).old = FALSE
  BY DEF NewGuard, GuardDir, Makers
<1> QED  BY <1>1, <1>2, NoneAssumption

\* Where a process goes, and that no other one moves.
LEMMA Moves ==
    ASSUME pc \in [Procs -> Pcs], NEW p \in Procs, NEW to \in Pcs, Go(p, to)
    PROVE  /\ pc' \in [Procs -> Pcs]
           /\ \A q \in Procs : pc'[q] = IF q = p THEN to ELSE pc[q]
BY DEF Go

\* One process at a time is in the guarded section, and one at work on the lock.
LEMMA Single ==
    ASSUME Safe, NEW p \in Procs, NEW q \in Procs
    PROVE  /\ pc[p] \in Guarding /\ pc[q] \in Guarding => p = q
           /\ pc[p] \in Working /\ pc[q] \in Working => p = q
<1>1. ASSUME pc[p] \in Guarding, pc[q] \in Guarding
      PROVE  p = q
  <2>1. NewGuard(p) = NewGuard(q)
    BY <1>1 DEF Safe, GuardInv
  <2>2. NewGuard(p).by = p /\ NewGuard(q).by = q
    BY Names
  <2> QED  BY <2>1, <2>2
<1>2. ASSUME pc[p] \in Working, pc[q] \in Working
      PROVE  p = q
  BY <1>2 DEF Safe, MakerInv
<1> QED  BY <1>1, <1>2

\* A process moves and touches no file.
LEMMA WalkInv ==
    ASSUME LockInv, NEW p \in Procs, NEW to \in Pcs, Go(p, to),
           UNCHANGED <<lock, guard, blind>>, crashes' \in 0..CrashesMax,
           to \in Guarding => pc[p] \in Guarding,
           to \in Working => pc[p] \in Working,
           to \in {"keep", "held"} => pc[p] \in {"keep", "held"},
           ~blind /\ to \in {"reowner", "rename"} => lock # None /\ lock.old
    PROVE  LockInv'
<1>1. /\ pc' \in [Procs -> Pcs]
      /\ \A q \in Procs : pc'[q] = IF q = p THEN to ELSE pc[q]
  BY Moves DEF LockInv, TypeOK
<1>2. TypeOK'
  BY <1>1 DEF LockInv, TypeOK
<1>3. ASSUME ~blind
      PROVE  Safe'
  <2>1. Safe
    BY <1>3 DEF LockInv
  <2>2. GuardInv'
    BY <2>1, <1>1 DEF Safe, GuardInv
  <2>3. MakerInv'
    BY <2>1, <1>1 DEF Safe, MakerInv
  <2>4. RenameInv'
    BY <2>1, <1>1, <1>3 DEF Safe, RenameInv
  <2> QED  BY <2>2, <2>3, <2>4 DEF Safe
<1> QED  BY <1>2, <1>3 DEF LockInv

\* A process makes the lock directory where there is none.
LEMMA MakeInv ==
    ASSUME LockInv, NEW p \in Procs, NEW to \in {"write", "rewrite"}, Go(p, to),
           to \in Guarding => pc[p] \in Guarding,
           lock = None, lock' = Made(p), UNCHANGED <<guard, crashes, blind>>
    PROVE  LockInv'
<1>1. to \in Pcs /\ to \in Working /\ to \notin {"keep", "held", "reowner", "rename"}
  BY DEF Pcs, Guarding, Working
<1>2. /\ pc' \in [Procs -> Pcs]
      /\ \A q \in Procs : pc'[q] = IF q = p THEN to ELSE pc[q]
  BY <1>1, Moves DEF LockInv, TypeOK
<1>3. /\ lock' \in Dir /\ lock' # None /\ lock'.by = p /\ lock'.old = FALSE
  BY Names
<1>4. TypeOK'
  BY <1>2, <1>3 DEF LockInv, TypeOK
<1>5. ASSUME ~blind
      PROVE  Safe'
  <2>1. Safe
    BY <1>5 DEF LockInv
  <2>2. GuardInv'
    BY <2>1, <1>2 DEF Safe, GuardInv
  <2>3. \A q \in Procs : /\ pc[q] \notin Working /\ pc[q] \notin {"keep", "held"}
                         /\ pc[q] \notin {"reowner", "rename"}
    BY <2>1 DEF Safe, MakerInv, RenameInv, Working
  <2>4. MakerInv' /\ RenameInv'
    BY <2>3, <1>1, <1>2, <1>3 DEF MakerInv, RenameInv
  <2> QED  BY <2>2, <2>4 DEF Safe
<1> QED  BY <1>4, <1>5 DEF LockInv

LEMMA CrashesType == LockInv => crashes \in 0..CrashesMax
BY DEF LockInv, TypeOK

LEMMA TryInv ==
    ASSUME LockInv, NEW p \in Procs, Try(p)
    PROVE  LockInv'
<1>1. CASE lock = None
  <2>1. Go(p, "write") /\ lock' = Made(p) /\ UNCHANGED <<guard, crashes, blind>>
    BY <1>1 DEF Try
  <2>2. "write" \in {"write", "rewrite"} /\ "write" \notin Guarding
    BY DEF Guarding
  <2> QED  BY <1>1, <2>1, <2>2, MakeInv
<1>2. CASE lock # None
  <2>1. Go(p, "stat") /\ UNCHANGED <<lock, guard, crashes, blind>>
    BY <1>2 DEF Try
  <2>2. /\ "stat" \in Pcs /\ "stat" \notin Guarding /\ "stat" \notin Working
        /\ "stat" \notin {"keep", "held", "reowner", "rename"}
    BY DEF Pcs, Guarding, Working
  <2> QED  BY <2>1, <2>2, CrashesType, WalkInv
<1> QED  BY <1>1, <1>2

\* Until a directory was taken away blindly, its maker finds it there.
LEMMA EnsureInv ==
    ASSUME LockInv, NEW p \in Procs,
           EnsureDir(p, "write", "own") \/ EnsureDir(p, "rewrite", "reown")
    PROVE  LockInv'
<1>1. PICK to \in {"own", "reown"} :
        /\ Go(p, to) /\ (to = "reown" => pc[p] = "rewrite")
        /\ pc[p] \in {"write", "rewrite"}
        /\ lock' = IF lock = None THEN Made(p) ELSE lock
        /\ UNCHANGED <<guard, crashes, blind>>
  BY DEF EnsureDir
<1>2. /\ to \in Pcs /\ (to \in Guarding => pc[p] \in Guarding) /\ pc[p] \in Working
      /\ to \notin {"keep", "held"} /\ to \notin {"reowner", "rename"}
  BY <1>1 DEF Pcs, Guarding, Working
<1>3. CASE lock # None
  <2>1. UNCHANGED <<lock, guard, blind>> /\ crashes' \in 0..CrashesMax
    BY <1>1, <1>3, CrashesType
  <2> QED  BY <1>1, <1>2, <2>1, WalkInv
<1>4. CASE lock = None
  <2>1. blind
    BY <1>2, <1>4 DEF LockInv, Safe, MakerInv
  <2>2. pc' \in [Procs -> Pcs]
    BY <1>1, <1>2, Moves DEF LockInv, TypeOK
  <2>3. lock' \in Dir
    BY <1>1, <1>4, Names
  <2> QED  BY <1>1, <2>1, <2>2, <2>3 DEF LockInv, TypeOK
<1> QED  BY <1>3, <1>4

\* The maker of the directory writes its name in it.
LEMMA OwnInv ==
    ASSUME LockInv, NEW p \in Procs,
           WriteOwner(p, "own", "held", "idle") \/ WriteOwner(p, "reown", "keep", "drop")
    PROVE  LockInv'
<1>1. pc[p] \in {"own", "reown"} /\ UNCHANGED <<guard, crashes, blind>>
  BY DEF WriteOwner
<1>2. pc[p] \in Working
  BY <1>1 DEF Working
<1>3. CASE lock = None
  <2>1. blind
    BY <1>2, <1>3 DEF LockInv, Safe, MakerInv
  <2>2. PICK to \in {"idle", "drop"} : Go(p, to)
    BY <1>3 DEF WriteOwner
  <2>3. to \in Pcs /\ lock' = lock
    BY <1>3 DEF Pcs, Guarding, WriteOwner
  <2>4. pc' \in [Procs -> Pcs]
    BY <2>2, <2>3, Moves DEF LockInv, TypeOK
  <2> QED  BY <1>1, <2>1, <2>3, <2>4 DEF LockInv, TypeOK
<1>4. CASE lock # None
  <2>1. PICK to \in {"held", "keep"} :
          Go(p, to) /\ (to = "keep" => pc[p] = "reown")
    BY <1>4 DEF WriteOwner
  <2>2. lock' = [by |-> p, owner |-> p, old |-> FALSE]
    BY <1>4 DEF WriteOwner
  <2>3. lock' \in Dir /\ lock'.by = p /\ lock'.owner = p /\ lock'.old = FALSE
    BY <2>2 DEF Dir, Makers
  <2>4. lock' # None
    BY <2>3, NoneAssumption
  <2>5. to \in Pcs /\ (to \in Guarding => pc[p] \in Guarding) /\ to \notin {"reowner", "rename"}
    BY <2>1 DEF Pcs, Guarding
  <2>6. /\ pc' \in [Procs -> Pcs]
        /\ \A q \in Procs : pc'[q] = IF q = p THEN to ELSE pc[q]
    BY <2>1, <2>5, Moves DEF LockInv, TypeOK
  <2>7. TypeOK'
    BY <1>1, <2>3, <2>6 DEF LockInv, TypeOK
  <2>8. ASSUME ~blind
        PROVE  Safe'
    <3>1. Safe
      BY <2>8 DEF LockInv
    <3>2. GuardInv'
      BY <3>1, <1>1, <2>5, <2>6 DEF Safe, GuardInv
    <3>3. \A q \in Procs : q # p => pc[q] \notin Working /\ pc[q] \notin {"keep", "held"}
      BY <3>1, <1>2, Single DEF Working
    <3>4. MakerInv'
      BY <3>3, <2>3, <2>4, <2>6 DEF MakerInv
    <3>5. \A q \in Procs : pc[q] \notin {"reowner", "rename"}
      BY <3>1, <1>2 DEF Safe, MakerInv, RenameInv
    <3>6. RenameInv'
      BY <3>5, <2>5, <2>6 DEF RenameInv
    <3> QED  BY <3>2, <3>4, <3>6 DEF Safe
  <2> QED  BY <1>1, <2>7, <2>8 DEF LockInv
<1> QED  BY <1>3, <1>4

LEMMA StatInv ==
    ASSUME LockInv, NEW p \in Procs,
           \/ Stat(p, "stat", "owner", "guard", "idle")
           \/ ReadOwner(p, "owner", "guard", "guard", "idle")
           \/ GuardStat(p)
    PROVE  LockInv'
<1>1. PICK to \in {"owner", "guard", "idle", "grm"} : Go(p, to)
  BY DEF Stat, ReadOwner, GuardStat
<1>2. UNCHANGED <<lock, guard, crashes, blind>>
  BY DEF Stat, ReadOwner, GuardStat
<1>3. /\ to \in Pcs /\ to \notin Guarding /\ to \notin Working
      /\ to \notin {"keep", "held"} /\ to \notin {"reowner", "rename"}
  BY <1>1 DEF Pcs, Guarding, Working
<1> QED  BY <1>1, <1>2, <1>3, CrashesType, WalkInv

\* A guard is made where there is none.
LEMMA NewGuardInv ==
    ASSUME LockInv, NEW p \in Procs, guard = None, guard' = NewGuard(p),
           Go(p, "restat"), UNCHANGED <<lock, crashes, blind>>
    PROVE  LockInv'
<1>1. /\ "restat" \in Pcs /\ "restat" \notin Working
      /\ "restat" \notin {"keep", "held", "reowner", "rename"}
  BY DEF Pcs, Guarding, Working
<1>2. /\ pc' \in [Procs -> Pcs]
      /\ \A q \in Procs : pc'[q] = IF q = p THEN "restat" ELSE pc[q]
  BY <1>1, Moves DEF LockInv, TypeOK
<1>3. TypeOK'
  BY <1>2, Names DEF LockInv, TypeOK
<1>4. ASSUME ~blind
      PROVE  Safe'
  <2>1. Safe
    BY <1>4 DEF LockInv
  <2>2. \A q \in Procs : pc[q] \notin Guarding
    BY <2>1, Names DEF Safe, GuardInv
  <2>3. GuardInv'
    BY <2>2, <1>2 DEF GuardInv
  <2>4. MakerInv' /\ RenameInv'
    BY <2>1, <1>1, <1>2 DEF Safe, MakerInv, RenameInv
  <2> QED  BY <2>3, <2>4 DEF Safe
<1> QED  BY <1>3, <1>4 DEF LockInv

LEMMA GuardInvs ==
    ASSUME LockInv, NEW p \in Procs, TakeGuard(p) \/ GuardMake(p)
    PROVE  LockInv'
<1>1. CASE guard # None
  <2>1. PICK to \in {"gstat", "idle"} : Go(p, to)
    BY <1>1 DEF TakeGuard, GuardMake
  <2>2. UNCHANGED <<lock, guard, crashes, blind>>
    BY <1>1 DEF TakeGuard, GuardMake
  <2>3. /\ to \in Pcs /\ to \notin Guarding /\ to \notin Working
        /\ to \notin {"keep", "held"} /\ to \notin {"reowner", "rename"}
    BY <2>1 DEF Pcs, Guarding, Working
  <2> QED  BY <2>1, <2>2, <2>3, CrashesType, WalkInv
<1>2. CASE guard = None
  BY <1>2, NewGuardInv DEF TakeGuard, GuardMake
<1> QED  BY <1>1, <1>2

\* An old guard is nobody's who is in the section.
LEMMA GuardRemoveInv ==
    ASSUME LockInv, NEW p \in Procs, GuardRemove(p)
    PROVE  LockInv'
<1>1. /\ guard' = None /\ Go(p, "gmk") /\ UNCHANGED <<lock, crashes>>
      /\ blind' = (blind \/ (guard # None /\ ~guard.old))
  BY DEF GuardRemove
<1>2. /\ "gmk" \in Pcs /\ "gmk" \notin Guarding /\ "gmk" \notin Working
      /\ "gmk" \notin {"keep", "held", "reowner", "rename"}
  BY DEF Pcs, Guarding, Working
<1>3. /\ pc' \in [Procs -> Pcs]
      /\ \A q \in Procs : pc'[q] = IF q = p THEN "gmk" ELSE pc[q]
  BY <1>1, <1>2, Moves DEF LockInv, TypeOK
<1>4. TypeOK'
  BY <1>1, <1>3 DEF LockInv, TypeOK
<1>5. ASSUME ~blind'
      PROVE  Safe'
  <2>1. Safe /\ (guard = None \/ guard.old)
    BY <1>1, <1>5 DEF LockInv
  <2>2. \A q \in Procs : pc[q] \notin Guarding
    BY <2>1, Names DEF Safe, GuardInv
  <2>3. GuardInv'
    BY <2>2, <1>2, <1>3 DEF GuardInv
  <2>4. MakerInv' /\ RenameInv'
    BY <2>1, <1>1, <1>2, <1>3 DEF Safe, MakerInv, RenameInv
  <2> QED  BY <2>3, <2>4 DEF Safe
<1> QED  BY <1>4, <1>5 DEF LockInv

LEMMA RestatInv ==
    ASSUME LockInv, NEW p \in Procs,
           Restat(p) \/ ReadOwner(p, "reowner", "rename", "gone", "drop")
    PROVE  LockInv'
<1>1. pc[p] \in {"restat", "reowner"} /\ UNCHANGED <<lock, guard, crashes, blind>>
  BY DEF Restat, Stat, ReadOwner
<1>2. ~blind /\ pc[p] = "reowner" => lock # None /\ lock.old
  BY DEF LockInv, Safe, RenameInv
<1>3. PICK to \in {"reowner", "rename", "gone", "drop"} :
        Go(p, to) /\ (~blind /\ to \in {"reowner", "rename"} => lock # None /\ lock.old)
  BY <1>2 DEF Restat, Stat, ReadOwner
<1>4. /\ to \in Pcs /\ pc[p] \in Guarding /\ to \notin Working /\ to \notin {"keep", "held"}
  BY <1>1, <1>3 DEF Pcs, Guarding, Working
<1> QED  BY <1>1, <1>3, <1>4, CrashesType, WalkInv

\* What is renamed aside is old, hence nobody's, or was made after the check.
LEMMA RenameStepInv ==
    ASSUME LockInv, NEW p \in Procs, Rename(p)
    PROVE  LockInv'
<1>1. /\ pc[p] \in {"rename", "gone"} /\ lock' = None /\ Go(p, "remake")
      /\ UNCHANGED <<guard, crashes>>
      /\ blind' = (blind \/ (pc[p] = "gone" /\ lock # None))
  BY DEF Rename
<1>2. /\ "remake" \in Pcs /\ pc[p] \in Guarding /\ "remake" \notin Working
      /\ "remake" \notin {"keep", "held", "reowner", "rename"}
  BY <1>1 DEF Pcs, Guarding, Working
<1>3. /\ pc' \in [Procs -> Pcs]
      /\ \A q \in Procs : pc'[q] = IF q = p THEN "remake" ELSE pc[q]
  BY <1>1, <1>2, Moves DEF LockInv, TypeOK
<1>4. TypeOK'
  BY <1>1, <1>3 DEF LockInv, TypeOK
<1>5. ASSUME ~blind'
      PROVE  Safe'
  <2>1. Safe /\ (pc[p] = "gone" => lock = None)
    BY <1>1, <1>5 DEF LockInv
  <2>2. GuardInv'
    BY <2>1, <1>1, <1>2, <1>3 DEF Safe, GuardInv
  <2>3. \A q \in Procs : pc[q] \notin Working
    BY <2>1, <1>1 DEF Safe, MakerInv, RenameInv
  <2>4. MakerInv'
    BY <2>3, <1>2, <1>3 DEF MakerInv, Working
  <2>5. \A q \in Procs : q # p => pc[q] \notin Guarding
    BY <2>1, <1>2, Single
  <2>6. RenameInv'
    BY <2>5, <1>2, <1>3 DEF RenameInv, Guarding
  <2> QED  BY <2>2, <2>4, <2>6 DEF Safe
<1> QED  BY <1>4, <1>5 DEF LockInv

LEMMA RemakeInv ==
    ASSUME LockInv, NEW p \in Procs, Remake(p)
    PROVE  LockInv'
<1>1. CASE lock = None
  <2>1. /\ Go(p, "rewrite") /\ pc[p] = "remake" /\ lock' = Made(p)
        /\ UNCHANGED <<guard, crashes, blind>>
    BY <1>1 DEF Remake
  <2>2. "rewrite" \in {"write", "rewrite"} /\ pc[p] \in Guarding
    BY <2>1 DEF Guarding
  <2> QED  BY <1>1, <2>1, <2>2, MakeInv
<1>2. CASE lock # None
  <2>1. pc[p] = "remake" /\ Go(p, "drop") /\ UNCHANGED <<lock, guard, crashes, blind>>
    BY <1>2 DEF Remake
  <2>2. /\ "drop" \in Pcs /\ pc[p] \in Guarding /\ "drop" \notin Working
        /\ "drop" \notin {"keep", "held"} /\ "drop" \notin {"reowner", "rename"}
    BY <2>1 DEF Pcs, Guarding, Working
  <2> QED  BY <2>1, <2>2, CrashesType, WalkInv
<1> QED  BY <1>1, <1>2

LEMMA UnguardInv ==
    ASSUME LockInv, NEW p \in Procs, Unguard(p)
    PROVE  LockInv'
<1>1. PICK to \in {"held", "idle"} :
        /\ pc[p] \in {"keep", "drop"} /\ Go(p, to) /\ (to = "held" => pc[p] = "keep")
        /\ guard' = None /\ UNCHANGED <<lock, crashes, blind>>
  BY DEF Unguard
<1>2. /\ to \in Pcs /\ to \notin Guarding /\ pc[p] \in Guarding
      /\ (to \in Working => pc[p] \in Working) /\ (to \in {"keep", "held"} => pc[p] = "keep")
      /\ to \notin {"reowner", "rename"}
  BY <1>1 DEF Pcs, Guarding, Working
<1>3. /\ pc' \in [Procs -> Pcs]
      /\ \A q \in Procs : pc'[q] = IF q = p THEN to ELSE pc[q]
  BY <1>1, <1>2, Moves DEF LockInv, TypeOK
<1>4. TypeOK'
  BY <1>1, <1>3 DEF LockInv, TypeOK
<1>5. ASSUME ~blind
      PROVE  Safe'
  <2>1. Safe
    BY <1>5 DEF LockInv
  <2>2. \A q \in Procs : q # p => pc[q] \notin Guarding
    BY <2>1, <1>2, Single
  <2>3. GuardInv'
    BY <2>2, <1>2, <1>3 DEF GuardInv
  <2>4. MakerInv' /\ RenameInv'
    BY <2>1, <1>1, <1>2, <1>3 DEF Safe, MakerInv, RenameInv
  <2> QED  BY <2>3, <2>4 DEF Safe
<1> QED  BY <1>1, <1>4, <1>5 DEF LockInv

LEMMA FinishInv ==
    ASSUME LockInv, NEW p \in Procs, Finish(p)
    PROVE  LockInv'
<1>1. pc[p] = "held" /\ Go(p, "unlink") /\ UNCHANGED <<lock, guard, crashes, blind>>
  BY DEF Finish
<1>2. /\ "unlink" \in Pcs /\ "unlink" \notin Guarding /\ pc[p] \in Working
      /\ "unlink" \notin {"keep", "held"} /\ "unlink" \notin {"reowner", "rename"}
  BY <1>1 DEF Pcs, Guarding, Working
<1> QED  BY <1>1, <1>2, CrashesType, WalkInv

\* A release takes away its own directory only.
LEMMA RemoveInv ==
    ASSUME LockInv, NEW p \in Procs, Unlink(p) \/ Rmdir(p)
    PROVE  LockInv'
<1>1. PICK to \in {"rmdir", "idle"} : Go(p, to) /\ (to = "rmdir" => pc[p] = "unlink")
  BY DEF Unlink, Rmdir
<1>2. /\ pc[p] \in {"unlink", "rmdir"} /\ UNCHANGED <<guard, crashes, blind>>
  BY DEF Unlink, Rmdir
<1>3. \/ lock # None /\ lock' = Made(p)
      \/ to = "idle" /\ lock' = lock
      \/ to = "idle" /\ lock' = None
      \/ lock = None /\ lock' = None
  BY <1>1, <1>2 DEF Unlink, Rmdir
<1>4. /\ to \in Pcs /\ to \notin Guarding /\ pc[p] \in Working
      /\ to \notin {"keep", "held"} /\ to \notin {"reowner", "rename"}
  BY <1>1, <1>2 DEF Pcs, Guarding, Working
<1>5. /\ pc' \in [Procs -> Pcs]
      /\ \A q \in Procs : pc'[q] = IF q = p THEN to ELSE pc[q]
  BY <1>1, <1>4, Moves DEF LockInv, TypeOK
<1>6. Made(p) \in Dir /\ Made(p) # None /\ Made(p).by = p /\ Made(p).old = FALSE
  BY Names
<1>7. TypeOK'
  <2>1. lock' \in Dir \cup {None}
    BY <1>3, <1>6 DEF LockInv, TypeOK
  <2> QED  BY <2>1, <1>2, <1>5 DEF LockInv, TypeOK
<1>8. ASSUME ~blind
      PROVE  Safe'
  <2>1. Safe
    BY <1>8 DEF LockInv
  <2>2. GuardInv'
    BY <2>1, <1>2, <1>4, <1>5 DEF Safe, GuardInv
  <2>3. \A q \in Procs : q # p => pc[q] \notin Working /\ pc[q] \notin {"keep", "held"}
    BY <2>1, <1>4, Single DEF Working
  <2>4. lock # None
    BY <2>1, <1>4 DEF Safe, MakerInv
  <2>5. to = "rmdir" => lock' = Made(p)
    BY <1>3, <2>4
  <2>6. "idle" \notin Working
    BY DEF Working
  <2>7. MakerInv'
    <3>1. CASE to = "rmdir"
      BY <3>1, <2>3, <2>5, <1>4, <1>5, <1>6 DEF MakerInv
    <3>2. CASE to = "idle"
      BY <3>2, <2>3, <2>6, <1>4, <1>5 DEF MakerInv
    <3> QED  BY <3>1, <3>2
  <2>8. \A q \in Procs : pc[q] \notin {"reowner", "rename"}
    BY <2>1, <1>4 DEF Safe, MakerInv, RenameInv
  <2>9. RenameInv'
    BY <2>8, <1>4, <1>5 DEF RenameInv
  <2> QED  BY <2>2, <2>7, <2>9 DEF Safe
<1> QED  BY <1>2, <1>7, <1>8 DEF LockInv

LEMMA CrashInv ==
    ASSUME LockInv, NEW p \in Procs, Crash(p)
    PROVE  LockInv'
<1>1. /\ crashes < CrashesMax /\ crashes' = crashes + 1
      /\ Go(p, "crashed") /\ UNCHANGED <<lock, guard, blind>>
  BY DEF Crash
<1>2. crashes' \in 0..CrashesMax
  BY <1>1, CrashesType, CrashesAssumption
<1>3. /\ "crashed" \in Pcs /\ "crashed" \notin Guarding /\ "crashed" \notin Working
      /\ "crashed" \notin {"keep", "held"} /\ "crashed" \notin {"reowner", "rename"}
  BY DEF Pcs, Guarding, Working
<1> QED  BY <1>1, <1>2, <1>3, WalkInv

\* What ages is nobody's who is at work.
LEMMA AgeInv ==
    ASSUME LockInv, Age
    PROVE  LockInv'
<1>1. CASE /\ lock # None /\ ~Busy(lock.by) /\ lock' = [lock EXCEPT !.old = TRUE]
           /\ UNCHANGED <<guard, pc, crashes, blind>>
  <2>1. lock \in Dir
    BY <1>1 DEF LockInv, TypeOK
  <2>2. lock' \in Dir /\ lock'.old = TRUE
    BY <1>1, <2>1 DEF Dir
  <2>3. lock' # None
    BY <2>2, NoneAssumption
  <2>4. TypeOK'
    BY <1>1, <2>2 DEF LockInv, TypeOK
  <2>5. ASSUME ~blind
        PROVE  Safe'
    <3>1. Safe
      BY <2>5 DEF LockInv
    <3>2. \A q \in Procs : pc[q] \notin Working
      BY <3>1, <1>1 DEF Safe, MakerInv, Busy
    <3>3. MakerInv'
      BY <3>2, <1>1 DEF MakerInv, Working
    <3>4. GuardInv' /\ RenameInv'
      BY <3>1, <1>1, <2>2, <2>3 DEF Safe, GuardInv, RenameInv
    <3> QED  BY <3>3, <3>4 DEF Safe
  <2> QED  BY <1>1, <2>4, <2>5 DEF LockInv
<1>2. CASE /\ guard # None /\ ~Alive(guard.by) /\ guard' = [guard EXCEPT !.old = TRUE]
           /\ UNCHANGED <<lock, pc, crashes, blind>>
  <2>1. guard \in GuardDir
    BY <1>2 DEF LockInv, TypeOK
  <2>2. guard' \in GuardDir
    BY <1>2, <2>1 DEF GuardDir
  <2>3. TypeOK'
    BY <1>2, <2>2 DEF LockInv, TypeOK
  <2>4. ASSUME ~blind
        PROVE  Safe'
    <3>1. Safe
      BY <2>4 DEF LockInv
    <3>2. \A q \in Procs : pc[q] \notin Guarding
      BY <3>1, <1>2, Names DEF Safe, GuardInv, Alive, Guarding
    <3>3. GuardInv'
      BY <3>2, <1>2 DEF GuardInv
    <3>4. MakerInv' /\ RenameInv'
      BY <3>1, <1>2 DEF Safe, MakerInv, RenameInv
    <3> QED  BY <3>3, <3>4 DEF Safe
  <2> QED  BY <1>2, <2>3, <2>4 DEF LockInv
<1> QED  BY <1>1, <1>2 DEF Age

LEMMA LockInit == Init => LockInv
<1> SUFFICES ASSUME Init
             PROVE  LockInv
  OBVIOUS
<1>1. /\ guard \in {None, NewGuard(Gone)} /\ pc = [p \in Procs |-> "idle"]
      /\ crashes = 0 /\ blind = FALSE
  BY DEF Init
<1>2. lock \in Dir \cup {None}
  <2>1. CASE lock = None
    BY <2>1
  <2>2. CASE lock = [by |-> Gone, owner |-> None, old |-> FALSE]
    BY <2>2 DEF Dir, Makers
  <2>3. CASE lock = [by |-> Gone, owner |-> Gone, old |-> FALSE]
    BY <2>3 DEF Dir, Makers
  <2> QED  BY <2>1, <2>2, <2>3 DEF Init
<1>3. guard \in GuardDir \cup {None}
  <2>1. CASE guard = None
    BY <2>1
  <2>2. CASE guard = NewGuard(Gone)
    BY <2>2 DEF NewGuard, GuardDir, Makers
  <2> QED  BY <1>1, <2>1, <2>2
<1>4. TypeOK
  <2>1. pc \in [Procs -> Pcs] /\ crashes \in 0..CrashesMax
    BY <1>1, CrashesAssumption DEF Pcs
  <2>2. blind \in BOOLEAN
    BY <1>1
  <2> QED  BY <1>2, <1>3, <2>1, <2>2 DEF TypeOK
<1>5. Safe
  BY <1>1 DEF Safe, GuardInv, MakerInv, RenameInv, Guarding, Working
<1> QED  BY <1>4, <1>5 DEF LockInv

LEMMA LockNext == LockInv /\ [Next]_vars => LockInv'
<1> SUFFICES ASSUME LockInv, [Next]_vars
             PROVE  LockInv'
  OBVIOUS
<1>1. ASSUME NEW p \in Procs, Acquire(p)
      PROVE  LockInv'
  BY <1>1, TryInv, EnsureInv, OwnInv, StatInv, GuardInvs, GuardRemoveInv, RestatInv,
     RenameStepInv, RemakeInv, UnguardInv DEF Acquire
<1>2. ASSUME NEW p \in Procs, Release(p)
      PROVE  LockInv'
  BY <1>2, FinishInv, RemoveInv DEF Release
<1>3. CASE UNCHANGED vars
  BY <1>3 DEF vars, LockInv, TypeOK, Safe, GuardInv, MakerInv, RenameInv
<1> QED  BY <1>1, <1>2, <1>3, CrashInv, AgeInv DEF Next

LEMMA LockImplies == LockInv => MutualExclusion /\ HolderHasLock /\ OneReclaimer
<1> SUFFICES ASSUME LockInv, ~blind
             PROVE  /\ ImportsExclude
                    /\ \A p \in Procs : pc[p] = "held" =>
                          lock # None /\ lock.by = p /\ lock.owner = p /\ ~lock.old
                    /\ \A p, q \in Procs : pc[p] \in Guarding /\ pc[q] \in Guarding => p = q
  BY DEF MutualExclusion, HolderHasLock, OneReclaimer
<1>1. Safe
  BY DEF LockInv
<1>2. ImportsExclude
  <2> SUFFICES ASSUME NEW p \in Procs, NEW q \in Procs,
                      pc[p] \in {"held", "unlink", "rmdir"}, pc[q] \in {"held", "unlink", "rmdir"}
               PROVE  p = q
    BY DEF ImportsExclude, Holders
  <2>1. pc[p] \in Working /\ pc[q] \in Working
    BY DEF Working
  <2> QED  BY <1>1, <2>1, Single
<1>3. ASSUME NEW p \in Procs, pc[p] = "held"
      PROVE  lock # None /\ lock.by = p /\ lock.owner = p /\ ~lock.old
  BY <1>1, <1>3 DEF Safe, MakerInv, Working
<1> QED  BY <1>1, <1>2, <1>3, Single

\* Whatever the number of processes, wherever they crash and whenever imports end: two
\* hold the lock only after a reclaimer has taken away what was made after its check.
THEOREM Exclusion == Spec => []MutualExclusion
BY LockInit, LockNext, LockImplies, PTL DEF Spec

\* Until then the directory of a holder is never renamed aside, removed, taken over or
\* left to grow old.
THEOREM HolderKeepsLock == Spec => []HolderHasLock
BY LockInit, LockNext, LockImplies, PTL DEF Spec

\* Until then the guard admits one reclaimer at a time.
THEOREM GuardAdmitsOne == Spec => []OneReclaimer
BY LockInit, LockNext, LockImplies, PTL DEF Spec

-----------------------------------------------------------------------------
(***************************************************************************)
(* Discovery, with any domains and answers and any number of retries.      *)
(* What is admitted is left to the folds; what is done about it is here.   *)
(***************************************************************************)
\* The rounds of an episode are paid for by retries, which only a check that finds
\* the table populated gives back; a contact begins the next episode.
Paid == /\ table => rounds = 0
        /\ ~table => rounds <= dnsRetries

\* Only pings since the table was last empty count.
Awaited == /\ FirstContact
           /\ table => ~pinged

\* Stop leaves nothing that could fire.
Wound == up = "stopping" => timers = 0 /\ ~listener

DiscoveryInv == DiscoveryTypeOK /\ Paid /\ Awaited /\ Wound

LEMMA DiscoveryTypes ==
    DiscoveryTypeOK <=>
        /\ sources \in Sources /\ up \in {"starting", "running", "stopping"}
        /\ queries \in [Domains -> {"asked", "answered", "none"}]
        /\ table \in BOOLEAN /\ listener \in BOOLEAN
        /\ wasPopulated \in BOOLEAN /\ pinged \in BOOLEAN
        /\ sampling \in {"unset", "on", "off"}
        /\ timers \in 0..1 /\ dnsRetries \in 0..RetriesMax /\ rounds \in Nat
BY DEF DiscoveryTypeOK

LEMMA BeginsWell == DiscoveryInit => DiscoveryInv
<1> SUFFICES ASSUME DiscoveryInit
             PROVE  DiscoveryInv
  OBVIOUS
<1>1. DiscoveryTypeOK
  <2>1. /\ queries \in [Domains -> {"asked", "answered", "none"}]
        /\ sources \in Sources /\ up = "starting" /\ sampling = "unset"
        /\ timers = 0 /\ dnsRetries \in 0..RetriesMax /\ rounds = 0
    BY RetriesAssumption DEF DiscoveryInit
  <2>2. {table, listener, wasPopulated, pinged} \subseteq BOOLEAN
    BY Zenon DEF DiscoveryInit
  <2> QED  BY <2>1, <2>2 DEF DiscoveryTypeOK
<1>2. Paid /\ Awaited /\ Wound
  BY DEF DiscoveryInit, Paid, Awaited, FirstContact, Wound
<1> QED  BY <1>1, <1>2 DEF DiscoveryInv

\* Whoever asks for a timer leaves one at most.
LEMMA OneTimer ==
    ASSUME timers \in 0..1, NEW candidates
    PROVE  Scheduled(candidates) \in 0..1
BY DEF Scheduled

\* Pings go out with discovery armed, if they are to be answered by a first contact.
LEMMA PingInv ==
    ASSUME DiscoveryInv, Ping, up # "stopping", UNCHANGED <<up, table>>
    PROVE  listener' \in BOOLEAN /\ pinged' \in BOOLEAN /\ Awaited'
<1>1. listener \in BOOLEAN /\ pinged \in BOOLEAN /\ table \in BOOLEAN
  BY DiscoveryTypes DEF DiscoveryInv
<1>2. listener' \in BOOLEAN /\ pinged' \in BOOLEAN
  BY <1>1 DEF Ping, Armed
<1>3. Awaited'
  BY <1>1, Zenon DEF Ping, Armed, DiscoveryInv, Awaited, FirstContact
<1> QED  BY <1>2, <1>3

LEMMA ReplyInv ==
    ASSUME DiscoveryInv, NEW d \in Domains, Reply(d)
    PROVE  DiscoveryInv'
<1>1. /\ queries' = [queries EXCEPT ![d] = "answered"]
      /\ up = "stopping" => dnsCandidates' = dnsCandidates
      /\ UNCHANGED <<up, sources, wasPopulated, sampling>>
  BY DEF Reply, Admitting
<1>2. queries' \in [Domains -> {"asked", "answered", "none"}]
  BY <1>1, DiscoveryTypes DEF DiscoveryInv
<1>3. CASE UNCHANGED <<contact, retry>>
  <2>1. UNCHANGED <<table, listener, rounds, pinged, timers, dnsRetries>>
    BY <1>3 DEF contact, retry
  <2>2. DiscoveryTypeOK'
    BY <1>1, <1>2, <2>1 DEF DiscoveryInv, DiscoveryTypeOK
  <2>3. Paid' /\ Awaited' /\ Wound'
    BY <1>1, <2>1 DEF DiscoveryInv, Paid, Awaited, FirstContact, Wound
  <2> QED  BY <2>2, <2>3 DEF DiscoveryInv
<1>4. CASE dnsCandidates' # dnsCandidates
  <2>1. /\ Ping /\ timers' = Scheduled(dnsCandidates')
        /\ UNCHANGED <<table, rounds, dnsRetries>>
    BY <1>4 DEF Reply
  <2>2. up # "stopping" /\ up' # "stopping"
    BY <1>1, <1>4
  <2>3. timers' \in 0..1
    BY <2>1, OneTimer DEF DiscoveryInv, DiscoveryTypeOK
  <2>4. listener' \in BOOLEAN /\ pinged' \in BOOLEAN /\ Awaited'
    BY <1>1, <2>1, <2>2, PingInv
  <2>5. DiscoveryTypeOK'
    BY <1>1, <1>2, <2>1, <2>3, <2>4 DEF DiscoveryInv, DiscoveryTypeOK
  <2>6. Paid' /\ Wound'
    BY <2>1, <2>2 DEF DiscoveryInv, Paid, Wound
  <2> QED  BY <2>4, <2>5, <2>6 DEF DiscoveryInv
<1> QED  BY <1>3, <1>4 DEF Reply

LEMMA NoReplyInv ==
    ASSUME DiscoveryInv, NEW d \in Domains, NoReply(d)
    PROVE  DiscoveryInv'
<1>1. UNCHANGED <<up, sources, table, listener, rounds, pinged, timers, dnsRetries,
                  wasPopulated, sampling>>
  BY DEF NoReply, contact, retry
<1>2. queries' \in [Domains -> {"asked", "answered", "none"}]
  BY DEF NoReply, DiscoveryInv, DiscoveryTypeOK
<1>3. DiscoveryTypeOK'
  BY <1>1, <1>2 DEF DiscoveryInv, DiscoveryTypeOK
<1>4. Paid' /\ Awaited' /\ Wound'
  BY <1>1 DEF DiscoveryInv, Paid, Awaited, FirstContact, Wound
<1> QED  BY <1>3, <1>4 DEF DiscoveryInv

LEMMA StartedInv ==
    ASSUME DiscoveryInv, Started
    PROVE  DiscoveryInv'
<1>1. /\ up' \in {"starting", "running", "stopping"}
      /\ up' = "stopping" <=> up = "stopping"
      /\ sampling' = "on"
      /\ UNCHANGED <<sources, queries, table, listener, rounds, pinged, dnsRetries,
                     wasPopulated>>
  BY DEF Started, lists, contact, DiscoveryInv, DiscoveryTypeOK
<1>2. timers' \in 0..1 /\ (up = "stopping" => timers' = timers)
  BY OneTimer DEF Started, DiscoveryInv, DiscoveryTypeOK
<1>3. DiscoveryTypeOK'
  BY <1>1, <1>2 DEF DiscoveryInv, DiscoveryTypeOK
<1>4. Paid' /\ Awaited' /\ Wound'
  BY <1>1, <1>2 DEF DiscoveryInv, Paid, Awaited, FirstContact, Wound
<1> QED  BY <1>3, <1>4 DEF DiscoveryInv

\* A round is pinged only while retries are left, and the table is empty.
LEMMA TickInv ==
    ASSUME DiscoveryInv, Tick
    PROVE  DiscoveryInv'
<1>1. UNCHANGED <<up, sources, queries, wasPopulated, sampling>>
  BY DEF Tick, lists
<1>2. /\ up # "stopping" /\ timers \in 0..1 /\ dnsRetries \in 0..RetriesMax /\ rounds \in Nat
  BY DEF Tick, DiscoveryInv, Wound, DiscoveryTypeOK
<1>3. CASE table \/ dnsRetries >= RetriesMax
  <2>1. timers' \in 0..1 /\ UNCHANGED <<table, listener, rounds, pinged, dnsRetries>>
    BY <1>2, <1>3 DEF Tick, contact
  <2>2. DiscoveryTypeOK'
    BY <1>1, <2>1 DEF DiscoveryInv, DiscoveryTypeOK
  <2>3. Paid' /\ Awaited' /\ Wound'
    BY <1>1, <1>2, <2>1 DEF DiscoveryInv, Paid, Awaited, FirstContact, Wound
  <2> QED  BY <2>2, <2>3 DEF DiscoveryInv
<1>4. CASE ~table /\ ~(dnsRetries >= RetriesMax)
  <2>1. /\ dnsRetries' = dnsRetries + 1 /\ rounds' = rounds + 1
        /\ Ping /\ UNCHANGED <<timers, table>>
    BY <1>2, <1>4 DEF Tick
  <2>2. listener' \in BOOLEAN /\ pinged' \in BOOLEAN /\ Awaited'
    BY <1>1, <1>2, <2>1, PingInv
  <2>3. dnsRetries' \in 0..RetriesMax /\ rounds' \in Nat
    BY <1>2, <1>4, <2>1, RetriesAssumption
  <2>4. DiscoveryTypeOK'
    BY <1>1, <2>1, <2>2, <2>3 DEF DiscoveryInv, DiscoveryTypeOK
  <2>5. Paid' /\ Wound'
    BY <1>1, <1>2, <1>4, <2>1 DEF DiscoveryInv, Paid, Wound
  <2> QED  BY <2>2, <2>4, <2>5 DEF DiscoveryInv
<1> QED  BY <1>3, <1>4

\* Retries are given back only while the table is populated, when no round counts.
LEMMA IsolationInv ==
    ASSUME DiscoveryInv, checkIsolation
    PROVE  DiscoveryInv'
<1>1. /\ up # "stopping"
      /\ UNCHANGED <<up, sources, queries, table, rounds, pinged, sampling>>
  BY DEF checkIsolation, lists
<1>2. CASE table
  <2>1. dnsRetries' = 0 /\ wasPopulated' = TRUE /\ UNCHANGED <<listener, timers>>
    BY <1>2 DEF checkIsolation
  <2>2. DiscoveryTypeOK'
    BY <1>1, <2>1, RetriesAssumption DEF DiscoveryInv, DiscoveryTypeOK
  <2>3. Paid' /\ Awaited' /\ Wound'
    BY <1>1, <1>2, <2>1 DEF DiscoveryInv, Paid, Awaited, FirstContact, Wound
  <2> QED  BY <2>2, <2>3 DEF DiscoveryInv
<1>3. CASE ~table
  <2>1. /\ wasPopulated' = FALSE /\ dnsRetries' = dnsRetries
        /\ listener' = TRUE /\ timers' = Scheduled(dnsCandidates)
    BY <1>3 DEF checkIsolation, NewEpisode, Retrying, Armed
  <2>2. timers' \in 0..1
    BY <2>1, OneTimer DEF DiscoveryInv, DiscoveryTypeOK
  <2>3. DiscoveryTypeOK'
    BY <1>1, <2>1, <2>2 DEF DiscoveryInv, DiscoveryTypeOK
  <2>4. Paid' /\ Awaited' /\ Wound'
    BY <1>1, <1>3, <2>1 DEF DiscoveryInv, Paid, Awaited, FirstContact, Wound
  <2> QED  BY <2>3, <2>4 DEF DiscoveryInv
<1> QED  BY <1>2, <1>3

LEMMA ContactInv ==
    ASSUME DiscoveryInv, Contact \/ Isolated
    PROVE  DiscoveryInv'
<1>1. UNCHANGED <<up, sources, queries, timers, dnsRetries, wasPopulated, sampling>>
  BY DEF Contact, Isolated, lists, retry
<1>2. CASE Contact
  <2>1. table' = TRUE /\ listener' = FALSE /\ rounds' = 0 /\ pinged' = FALSE
    BY <1>2 DEF Contact
  <2>2. DiscoveryTypeOK'
    BY <1>1, <2>1 DEF DiscoveryInv, DiscoveryTypeOK
  <2>3. Paid' /\ Awaited' /\ Wound'
    BY <1>1, <2>1 DEF DiscoveryInv, Paid, Awaited, FirstContact, Wound
  <2> QED  BY <2>2, <2>3 DEF DiscoveryInv
<1>3. CASE Isolated
  <2>1. table /\ table' = FALSE /\ UNCHANGED <<listener, rounds, pinged>>
    BY <1>3 DEF Isolated
  <2>2. DiscoveryTypeOK'
    BY <1>1, <2>1 DEF DiscoveryInv, DiscoveryTypeOK
  <2>3. Paid'
    BY <1>1, <2>1 DEF DiscoveryInv, DiscoveryTypeOK, Paid
  <2>4. Awaited' /\ Wound'
    BY <1>1, <2>1 DEF DiscoveryInv, Awaited, FirstContact, Wound
  <2> QED  BY <2>2, <2>3, <2>4 DEF DiscoveryInv
<1> QED  BY <1>2, <1>3

\* There was one timer at most, and stop clears the last one.
LEMMA StopInv ==
    ASSUME DiscoveryInv, Stop
    PROVE  DiscoveryInv'
<1>1. UNCHANGED <<sources, queries, table, rounds, pinged, dnsRetries, wasPopulated>>
  BY DEF Stop, lists
<1>2. up' = "stopping" /\ ~listener' /\ timers' = 0
  BY DEF Stop, DiscoveryInv, DiscoveryTypeOK
<1>3. listener' \in BOOLEAN /\ sampling' \in {"unset", "on", "off"}
  BY DEF Stop, DiscoveryInv, DiscoveryTypeOK
<1>4. DiscoveryTypeOK'
  BY <1>1, <1>2, <1>3, DiscoveryTypes DEF DiscoveryInv, DiscoveryTypeOK
<1>5. Paid' /\ Awaited' /\ Wound'
  BY <1>1, <1>2 DEF DiscoveryInv, Paid, Awaited, FirstContact, Wound
<1> QED  BY <1>4, <1>5 DEF DiscoveryInv

LEMMA DiscoveryKeeps == DiscoveryInv /\ [DiscoveryNext]_discoveryVars => DiscoveryInv'
<1> SUFFICES ASSUME DiscoveryInv, [DiscoveryNext]_discoveryVars
             PROVE  DiscoveryInv'
  OBVIOUS
<1>1. CASE UNCHANGED discoveryVars
  <2>1. UNCHANGED <<up, sources, queries, table, listener, rounds, pinged, timers,
                    dnsRetries, wasPopulated, sampling>>
    BY <1>1 DEF discoveryVars, lists, contact, retry
  <2> QED  BY <2>1 DEF DiscoveryInv, DiscoveryTypeOK, Paid, Awaited, FirstContact, Wound
<1> QED  BY <1>1, ReplyInv, NoReplyInv, StartedInv, TickInv, IsolationInv, ContactInv, StopInv
         DEF DiscoveryNext

LEMMA DiscoveryImplies == DiscoveryInv => Bounded /\ FirstContact
<1> SUFFICES ASSUME DiscoveryInv
             PROVE  Bounded /\ FirstContact
  OBVIOUS
<1>1. rounds <= RetriesMax
  BY RetriesAssumption, DiscoveryTypes DEF DiscoveryInv, Paid
<1> QED  BY <1>1 DEF DiscoveryInv, Awaited, Bounded, EpisodeBounded

LEMMA StoppedStep ==
    ASSUME DiscoveryInv, DiscoveryInv', [DiscoveryNext]_discoveryVars, up = "stopping"
    PROVE  /\ timers' = 0 /\ listener' = FALSE /\ timers = 0 /\ ~listener
           /\ dnsCandidates' = dnsCandidates
<1>1. up' = "stopping"
  BY DEF DiscoveryNext, Reply, NoReply, Started, Tick, checkIsolation, Contact, Isolated, Stop,
         discoveryVars
<1>2. timers' = 0 /\ listener' = FALSE /\ timers = 0 /\ ~listener
  BY <1>1, DiscoveryTypes DEF DiscoveryInv, DiscoveryTypeOK, Wound
<1>3. ASSUME NEW d \in Domains, Reply(d)
      PROVE  dnsCandidates' = dnsCandidates
  BY <1>3 DEF Reply, Admitting
<1>4. ASSUME NEW d \in Domains, NoReply(d)
      PROVE  dnsCandidates' = dnsCandidates
  BY <1>4 DEF NoReply
<1>5. /\ Started => UNCHANGED lists
      /\ Tick => UNCHANGED lists
      /\ checkIsolation => UNCHANGED lists
      /\ Contact => UNCHANGED lists
      /\ Isolated => UNCHANGED lists
      /\ Stop => UNCHANGED lists
      /\ UNCHANGED discoveryVars => UNCHANGED lists
  BY DEF Started, Tick, checkIsolation, Contact, Isolated, Stop, discoveryVars
<1>6. UNCHANGED lists => dnsCandidates' = dnsCandidates
  BY DEF lists
<1>7. dnsCandidates' = dnsCandidates
  BY <1>3, <1>4, <1>5, <1>6 DEF DiscoveryNext
<1> QED  BY <1>2, <1>7

\* However the checks and the timer alternate, the seeds are pinged no more often in
\* one isolation than its retries allow, and by one timer.
THEOREM RetriesAreBounded == DiscoverySpec => []Bounded
BY BeginsWell, DiscoveryKeeps, DiscoveryImplies, PTL DEF DiscoverySpec

\* Whenever a seed answers a ping that went out while the table was empty, somebody
\* waits for it, unless the node stops.
THEOREM FirstContactIsAwaited == DiscoverySpec => []FirstContact
BY BeginsWell, DiscoveryKeeps, DiscoveryImplies, PTL DEF DiscoverySpec

\* After stop nothing of discovery fires, waits or is admitted.
THEOREM StopsClean == DiscoverySpec => StopIsClean
<1>1. DiscoveryInv /\ DiscoveryInv' /\ [DiscoveryNext]_discoveryVars =>
        [up = "stopping" => /\ timers' = 0 /\ listener' = FALSE /\ timers = 0 /\ ~listener
                            /\ dnsCandidates' = dnsCandidates]_discoveryVars
  BY StoppedStep
<1> QED  BY <1>1, BeginsWell, DiscoveryKeeps, PTL DEF DiscoverySpec, StopIsClean
=============================================================================
