------------------------------ MODULE RepoLock ------------------------------
(***************************************************************************)
(* The lock an import holds on a repository (src/src/versions.ts, "per-    *)
(* repo lock"): a directory, made by mkdir, with an owner file in it.      *)
(*                                                                         *)
(* Processes share nothing but the file system, so an action is one file   *)
(* system operation.  They try again and again, and may crash anywhere.    *)
(*                                                                         *)
(* Time is abstract: a directory that nobody touches grows old (its mtime  *)
(* is more than staleMs ago).  A live process is fast enough: the steps    *)
(* from its mkdir to its heartbeat, the heartbeat, and the steps of its    *)
(* reclaiming and of its release keep within staleMs of each other, so     *)
(* only what nobody works on any more grows old.                           *)
(* A pid is never taken for another process's (that is what startedAt is   *)
(* for), and all processes run on one host.                                *)
(***************************************************************************)
EXTENDS Naturals, FiniteSets

CONSTANTS
    Procs,       \* the processes that import the repository
    Gone,        \* a process of the past
    CrashesMax,  \* bound on crashes
    None

ASSUME ProcsAssumption == Gone \notin Procs /\ None \notin Procs \cup {Gone}
ASSUME CrashesAssumption == CrashesMax \in Nat

VARIABLES
    lock,     \* the lock directory: last touched by, named in owner.json, old; or None
    guard,    \* <dir>.reclaim: made by, old; or None
    pc,       \* what each process does next
    crashes,
    blind     \* history: was a directory taken away that was made after the check?

vars == <<lock, guard, pc, crashes, blind>>

Guarding == {"restat", "reowner", "gone", "rename", "remake", "rewrite", "reown",
             "keep", "drop"}
Pcs == {"idle", "write", "own", "stat", "owner", "guard", "gstat", "grm", "gmk", "held",
        "unlink", "rmdir", "crashed"} \cup Guarding
\* Between the mkdir of the lock and the end of its release.
Working == {"write", "own", "rewrite", "reown", "keep", "held", "unlink", "rmdir"}

Makers == Procs \cup {Gone}
Dir == [by : Makers, owner : Makers \cup {None}, old : BOOLEAN]
GuardDir == [by : Makers, old : BOOLEAN]

ASSUME NoneAssumption == None \notin Dir \cup GuardDir

Alive(p) == p \in Procs /\ pc[p] # "crashed"
Busy(p) == p \in Procs /\ pc[p] \in Working
Made(p) == [by |-> p, owner |-> None, old |-> FALSE]
NewGuard(p) == [by |-> p, old |-> FALSE]
Go(p, to) == pc' = [pc EXCEPT ![p] = to]

-----------------------------------------------------------------------------
(***************************************************************************)
(* tryAcquire without contention: make().                                  *)
(***************************************************************************)
Try(p) ==
    /\ pc[p] = "idle"
    /\ IF lock = None THEN lock' = Made(p) /\ Go(p, "write")
                      ELSE lock' = lock /\ Go(p, "stat")
    /\ UNCHANGED <<guard, crashes, blind>>

\* writeJsonAtomic makes the directory anew if it is gone,
EnsureDir(p, from, to) ==
    /\ pc[p] = from
    /\ lock' = IF lock = None THEN Made(p) ELSE lock
    /\ Go(p, to)
    /\ UNCHANGED <<guard, crashes, blind>>

\* and writes owner.json (a temporary file, renamed) into whatever directory is
\* there then; if it is gone again, the attempt fails.
WriteOwner(p, from, done, failed) ==
    /\ pc[p] = from
    /\ IF lock = None
       THEN lock' = lock /\ Go(p, failed)
       ELSE lock' = [by |-> p, owner |-> p, old |-> FALSE] /\ Go(p, done)
    /\ UNCHANGED <<guard, crashes, blind>>

-----------------------------------------------------------------------------
(***************************************************************************)
(* isStale, in two file operations: it is called before the guard is taken *)
(* and again under the guard.                                              *)
(***************************************************************************)
Stat(p, from, look, stale, fresh) ==
    /\ pc[p] = from
    /\ Go(p, IF lock = None THEN stale ELSE IF lock.old THEN look ELSE fresh)
    /\ UNCHANGED <<lock, guard, crashes, blind>>

\* No directory or no owner any more, or an owner that is gone.
ReadOwner(p, from, stale, gone, fresh) ==
    /\ pc[p] = from
    /\ Go(p, IF lock = None THEN gone
             ELSE IF lock.owner = None \/ ~Alive(lock.owner) THEN stale ELSE fresh)
    /\ UNCHANGED <<lock, guard, crashes, blind>>

-----------------------------------------------------------------------------
(***************************************************************************)
(* takeGuard.                                                              *)
(***************************************************************************)
\* Fault: the guard of another reclaimer is no obstacle.
TakeGuard_Shared(p) ==
    /\ pc[p] = "guard"
    /\ guard' = NewGuard(p)
    /\ Go(p, "restat")
    /\ UNCHANGED <<lock, crashes, blind>>
TakeGuard(p) ==
    /\ pc[p] = "guard"
    /\ IF guard = None THEN guard' = NewGuard(p) /\ Go(p, "restat")
                       ELSE guard' = guard /\ Go(p, "gstat")
    /\ UNCHANGED <<lock, crashes, blind>>

\* A live reclaimer's guard: give up.  An old one belongs to a crashed one.
GuardStat(p) ==
    /\ pc[p] = "gstat"
    /\ Go(p, IF guard = None THEN "idle" ELSE IF guard.old THEN "grm" ELSE "idle")
    /\ UNCHANGED <<lock, guard, crashes, blind>>

\* The guard that is removed may be another one, made since.
GuardRemove(p) ==
    /\ pc[p] = "grm"
    /\ blind' = (blind \/ (guard # None /\ ~guard.old))
    /\ guard' = None
    /\ Go(p, "gmk")
    /\ UNCHANGED <<lock, crashes>>

GuardMake(p) ==
    /\ pc[p] = "gmk"
    /\ IF guard = None THEN guard' = NewGuard(p) /\ Go(p, "restat")
                       ELSE guard' = guard /\ Go(p, "idle")
    /\ UNCHANGED <<lock, crashes, blind>>

-----------------------------------------------------------------------------
(***************************************************************************)
(* Reclaiming, under the guard.                                            *)
(***************************************************************************)
\* The lock is asked again: it may have been reclaimed meanwhile.
\* Fault: it is taken for stale still.
Restat_Trust(p) ==
    /\ pc[p] = "restat"
    /\ Go(p, "rename")
    /\ UNCHANGED <<lock, guard, crashes, blind>>
Restat(p) == Stat(p, "restat", "reowner", "gone", "drop")

\* The stale directory is renamed aside (and deleted there, unobserved); so is one
\* that was made since the check that found none ("gone").
Rename(p) ==
    /\ pc[p] \in {"rename", "gone"}
    /\ blind' = (blind \/ (pc[p] = "gone" /\ lock # None))
    /\ lock' = None
    /\ Go(p, "remake")
    /\ UNCHANGED <<guard, crashes>>

\* A fresh acquirer may have slipped in: then it holds the lock.
\* Fault: its directory is taken over.
Remake_TakeOver(p) ==
    /\ pc[p] = "remake"
    /\ lock' = Made(p)
    /\ Go(p, "rewrite")
    /\ UNCHANGED <<guard, crashes, blind>>
Remake(p) ==
    /\ pc[p] = "remake"
    /\ IF lock = None THEN lock' = Made(p) /\ Go(p, "rewrite")
                      ELSE lock' = lock /\ Go(p, "drop")
    /\ UNCHANGED <<guard, crashes, blind>>

\* The finally clause, with the lock ("keep") or without.
\* Fault: the guard is removed only when the lock was won.
Unguard_WhenWon(p) ==
    /\ pc[p] \in {"keep", "drop"}
    /\ guard' = IF pc[p] = "keep" THEN None ELSE guard
    /\ Go(p, IF pc[p] = "keep" THEN "held" ELSE "idle")
    /\ UNCHANGED <<lock, crashes, blind>>
Unguard(p) ==
    /\ pc[p] \in {"keep", "drop"}
    /\ guard' = None
    /\ Go(p, IF pc[p] = "keep" THEN "held" ELSE "idle")
    /\ UNCHANGED <<lock, crashes, blind>>

-----------------------------------------------------------------------------
(***************************************************************************)
(* release: rm -r of the lock's path, first the owner file, which renews   *)
(* the directory's mtime, then the directory, which must be empty.         *)
(***************************************************************************)
Finish(p) ==
    /\ pc[p] = "held"
    /\ Go(p, "unlink")
    /\ UNCHANGED <<lock, guard, crashes, blind>>

Unlink(p) ==
    /\ pc[p] = "unlink"
    /\ lock' = IF lock = None THEN None ELSE Made(p)
    /\ Go(p, "rmdir")
    /\ UNCHANGED <<guard, crashes, blind>>

Rmdir(p) ==
    /\ pc[p] = "rmdir"
    /\ lock' = IF lock # None /\ lock.owner # None THEN lock ELSE None
    /\ Go(p, "idle")
    /\ UNCHANGED <<guard, crashes, blind>>

-----------------------------------------------------------------------------
Acquire(p) ==
    \/ Try(p)
    \/ EnsureDir(p, "write", "own") \/ WriteOwner(p, "own", "held", "idle")
    \/ Stat(p, "stat", "owner", "guard", "idle")
    \/ ReadOwner(p, "owner", "guard", "guard", "idle")
    \/ TakeGuard(p) \/ GuardStat(p) \/ GuardRemove(p) \/ GuardMake(p)
    \/ Restat(p)
    \/ ReadOwner(p, "reowner", "rename", "gone", "drop")
    \/ Rename(p) \/ Remake(p)
    \/ EnsureDir(p, "rewrite", "reown") \/ WriteOwner(p, "reown", "keep", "drop")
    \/ Unguard(p)

Release(p) == Finish(p) \/ Unlink(p) \/ Rmdir(p)

Crash(p) ==
    /\ crashes < CrashesMax
    /\ pc[p] # "crashed"
    /\ crashes' = crashes + 1
    /\ Go(p, "crashed")
    /\ UNCHANGED <<lock, guard, blind>>

\* What nobody works on any more grows old; a heartbeat touches whatever directory is
\* at the lock's path.
Age ==
    /\ \/ /\ lock # None /\ ~lock.old /\ ~Busy(lock.by)
          /\ \A p \in Procs : pc[p] # "held"
          /\ lock' = [lock EXCEPT !.old = TRUE]
          /\ guard' = guard
       \/ /\ guard # None /\ ~guard.old /\ ~Alive(guard.by)
          /\ guard' = [guard EXCEPT !.old = TRUE]
          /\ lock' = lock
    /\ UNCHANGED <<pc, crashes, blind>>

\* The home directory is as processes of the past left it.
Init ==
    /\ lock \in {None, [by |-> Gone, owner |-> None, old |-> FALSE],
                       [by |-> Gone, owner |-> Gone, old |-> FALSE]}
    /\ guard \in {None, NewGuard(Gone)}
    /\ pc = [p \in Procs |-> "idle"]
    /\ crashes = 0
    /\ blind = FALSE

Next == \/ \E p \in Procs : Acquire(p) \/ Release(p) \/ Crash(p)
        \/ Age

Spec == Init /\ [][Next]_vars

\* Processes that are alive go on, an import ends, and time passes.
FairSpec == /\ Spec
            /\ WF_vars(Age)
            /\ \A p \in Procs : WF_vars(Acquire(p)) /\ WF_vars(Release(p))

-----------------------------------------------------------------------------
TypeOK == /\ lock \in Dir \cup {None}
          /\ guard \in GuardDir \cup {None}
          /\ pc \in [Procs -> Pcs]
          /\ crashes \in 0..CrashesMax
          /\ blind \in BOOLEAN

\* Who runs the locked function, or is still to give its lock back.
Holders == {p \in Procs : pc[p] \in {"held", "unlink", "rmdir"}}

\* "A concurrent import of the same repo fails fast": no two hold the lock.
ImportsExclude == \A p, q \in Holders : p = q

\* Two imports get to hold the lock in no other way than this: a reclaimer that found
\* nothing to reclaim any more, or an old guard, has taken away what was made since.
\* Whatever else happens, crashes anywhere, releases and reclaiming, one at most does.
MutualExclusion == ~blind => ImportsExclude

\* Until then a lock that is held is the directory at the lock's path and names its
\* holder: nobody renamed it aside, removed it or put its own name in it.
HolderHasLock == ~blind =>
    \A p \in Procs : pc[p] = "held" =>
        lock # None /\ lock.by = p /\ lock.owner = p /\ ~lock.old

\* "Only the reclaimer that creates <dir>.reclaim proceeds": until then, a process is
\* alone between the guard's creation and its removal.
OneReclaimer == ~blind =>
    \A p, q \in Procs : pc[p] \in Guarding /\ pc[q] \in Guarding => p = q

\* A lock that nobody works on any more is reclaimed when imports are tried again.
LeftoverReclaimed ==
    (lock # None /\ ~Busy(lock.by)) ~> (lock = None \/ Busy(lock.by))
=============================================================================
