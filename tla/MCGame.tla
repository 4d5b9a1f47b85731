------------------------------- MODULE MCGame -------------------------------
(* Instances of Game for TLC. *)
EXTENDS Game

\* Adjudications of one move each: with both engines asked, and with one.
Resigns(twoSided) == [Off EXCEPT !.resign = [moves |-> 1, cp |-> 1, twoSided |-> twoSided],
                                 !.draw = [moves |-> 1, cp |-> 0, minPly |-> 2]]
BothAsked == {Off, Resigns(TRUE)}
OneAsked == {Resigns(FALSE)}
MCScores == {-1, 1}
=============================================================================
