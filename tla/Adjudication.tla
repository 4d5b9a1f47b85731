---------------------------- MODULE Adjudication ----------------------------
(***************************************************************************)
(* When a game is decided on what the engines say of it: `adjudicate` of   *)
(* adjudication.rs, as a function from the scores of the plies played so   *)
(* far, all from White's point of view, to a verdict.                      *)
(*                                                                         *)
(* A rule that is not asked for and one with a count of 0 never fire: both *)
(* have the count 0 here.  `by` says whose score an entry is; the code     *)
(* does not keep it and no operator here reads it.                         *)
(***************************************************************************)
EXTENDS Integers, Sequences, FiniteSets

\* AdjudicationConfig.
IsRule(r) ==
    /\ r.resign.moves \in Nat /\ r.resign.cp \in Nat /\ r.resign.twoSided \in BOOLEAN
    /\ r.draw.moves \in Nat /\ r.draw.cp \in Nat /\ r.draw.minPly \in Nat
    /\ r.maxMoves \in Nat

Off == [resign |-> [moves |-> 0, cp |-> 0, twoSided |-> TRUE],
        draw |-> [moves |-> 0, cp |-> 0, minPly |-> 0],
        maxMoves |-> 0]

\* The last 2 * moves plies, if there are as many.
Window(pov, moves) ==
    IF moves = 0 \/ Len(pov) < 2 * moves THEN {} ELSE (Len(pov) - 2 * moves + 1)..Len(pov)

\* engine_reports_past_threshold: the last plies of one parity, counted from
\* the first ply of the game.
OfParity(pov, parity, moves) ==
    LET own == {i \in DOMAIN pov : (i - 1) % 2 = parity}
        last == {i \in own : Cardinality({k \in own : k > i}) < moves}
    IN  IF Cardinality(last) < moves THEN {} ELSE last

\* The plies a resignation of White (sign -1) or of Black (sign 1) rests on.
ResignPlies(pov, resign, sign) ==
    IF resign.twoSided THEN Window(pov, resign.moves)
    ELSE OfParity(pov, IF sign = -1 THEN 0 ELSE 1, resign.moves)

Hopeless(pov, resign, sign) ==
    LET plies == ResignPlies(pov, resign, sign)
    IN  plies # {} /\ \A i \in plies : sign * pov[i].cp >= resign.cp

Drawn(pov, draw) ==
    /\ Len(pov) >= draw.minPly /\ Window(pov, draw.moves) # {}
    /\ \A i \in Window(pov, draw.moves) : pov[i].cp \in -draw.cp..draw.cp

\* A resignation comes before a draw, and both before the cap.
Adjudicate(pov, rule) ==
    CASE Hopeless(pov, rule.resign, -1) -> "black"
      [] ~Hopeless(pov, rule.resign, -1) /\ Hopeless(pov, rule.resign, 1) -> "white"
      [] OTHER ->
            IF \/ Drawn(pov, rule.draw)
               \/ rule.maxMoves > 0 /\ Len(pov) >= 2 * rule.maxMoves
            THEN "draw" ELSE "none"

=============================================================================
