----------------------------- MODULE AtomicFile -----------------------------
(***************************************************************************)
(* What src/src/atomic.ts promises of one file: writes are taken one at a  *)
(* time in the order in which they were asked for, each of them replaces   *)
(* the whole content or leaves it alone, and a crash loses those that are  *)
(* still waiting and nothing else.                                         *)
(***************************************************************************)
EXTENDS Sequences

CONSTANTS Values, Empty

VARIABLES content, waiting

vars == <<content, waiting>>

Init == content = Empty /\ waiting = <<>>

Ask(v) == waiting' = Append(waiting, v) /\ UNCHANGED content

Replace == waiting # <<>> /\ content' = Head(waiting) /\ waiting' = Tail(waiting)

Refuse == waiting # <<>> /\ waiting' = Tail(waiting) /\ UNCHANGED content

Crash == waiting' = <<>> /\ UNCHANGED content

Next == (\E v \in Values : Ask(v)) \/ Replace \/ Refuse \/ Crash

\* Every write that was asked for ends.
Spec == Init /\ [][Next]_vars /\ WF_vars(Replace \/ Refuse)
=============================================================================
