----------------------------- MODULE GameLedger -----------------------------
(***************************************************************************)
(* What a tournament promises about each of its games, whatever commands,  *)
(* crashes and restarts it goes through: a game is open until it is        *)
(* decided, a scored game is scored for good and appears in the PGN file   *)
(* once at most, a game that could not be played counts for nothing and    *)
(* may be opened again, and the games of a deleted tournament stay gone.   *)
(* Scheduler implements it.                                                *)
(***************************************************************************)
EXTENDS Integers

CONSTANT Games

VARIABLES verdict, exported

vars == <<verdict, exported>>

TypeOK ==
    /\ verdict \in [Games -> {"open", "scored", "void", "gone"}]
    /\ exported \in [Games -> {0, 1}]

Init ==
    /\ verdict = [g \in Games |-> "open"]
    /\ exported = [g \in Games |-> 0]

Score(g) ==
    /\ verdict[g] = "open"
    /\ verdict' = [verdict EXCEPT ![g] = "scored"]
    /\ UNCHANGED exported

Void(g) ==
    /\ verdict[g] = "open"
    /\ verdict' = [verdict EXCEPT ![g] = "void"]
    /\ UNCHANGED exported

\* What was scored as the tournament was deleted may still reach the file.
Export(g) ==
    /\ verdict[g] \in {"scored", "gone"}
    /\ exported[g] = 0
    /\ exported' = [exported EXCEPT ![g] = 1]
    /\ UNCHANGED verdict

\* Every void game is opened again at once.
Reopen ==
    /\ verdict' = [g \in Games |-> IF verdict[g] = "void" THEN "open" ELSE verdict[g]]
    /\ UNCHANGED exported

Delete ==
    /\ verdict' = [g \in Games |-> "gone"]
    /\ UNCHANGED exported

Next ==
    \/ \E g \in Games : Score(g) \/ Void(g) \/ Export(g)
    \/ Reopen \/ Delete

Spec == Init /\ [][Next]_vars

=============================================================================
