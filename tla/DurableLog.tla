------------------------------ MODULE DurableLog ------------------------------
(***************************************************************************)
(* What a run directory promises about the games written to it: they form  *)
(* one log that only grows while the run goes on, a crash may cost a tail  *)
(* of it, and what was once durable is never lost, changed or reordered.   *)
(* DurableRun implements it.                                               *)
(***************************************************************************)
EXTENDS Naturals, SequencesExt

CONSTANT Games

VARIABLES log, durable

vars == <<log, durable>>

TypeOK ==
    /\ log \in Seq(Games)
    /\ durable \in 0..Len(log)

Init ==
    /\ log = << >>
    /\ durable = 0

AppendGame ==
    /\ \E game \in Games : log' = Append(log, game)
    /\ UNCHANGED durable

Sync ==
    /\ durable' \in durable..Len(log)
    /\ UNCHANGED log

\* What is left after a crash is on the disk.
Crash ==
    \E kept \in durable..Len(log) :
        /\ log' = SubSeq(log, 1, kept)
        /\ durable' = kept

Next == AppendGame \/ Sync \/ Crash

Spec == Init /\ [][Next]_vars

=============================================================================
