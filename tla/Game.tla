-------------------------------- MODULE Game --------------------------------
(***************************************************************************)
(* The games of one slot: `play` of runner.rs, which readies two engine    *)
(* processes, lets them search in turn, keeps their clocks, judges what    *)
(* they answer and ends them or keeps them for the slot's next game.       *)
(*                                                                         *)
(* A call on an engine process is one step with the outcomes EngineProcess *)
(* shows it to have: it answers within its deadline, or it fails because   *)
(* the engine is late, talks nonsense or is gone.  The chess is left out:  *)
(* a move is legal or not, it ends the game or not, and it is the reply    *)
(* the opponent predicted or not.                                          *)
(*                                                                         *)
(* A definition named X_Y is X with a mistake in it, for trying whether    *)
(* the properties notice; no specification uses it.                        *)
(***************************************************************************)
EXTENDS Adjudication

CONSTANTS
    Controls,      \* the time controls a side may have
    Base, Inc,     \* a clock's start and increment; "permove" gives Base
    Margin,        \* the forfeit tolerance
    Rules,         \* the adjudications a game may be asked for
    Scores,        \* what an engine may say of its position
    MaxBook,       \* bound: plies of an opening
    MaxPlies,      \* MAX_PLIES
    NumGames       \* bound: games played on the slot

Side == {"white", "black"}
Other(s) == IF s = "white" THEN "black" ELSE "white"

ASSUME ControlsAssumption == Controls \subseteq {"clock", "permove", "fixed"}
ASSUME TimeAssumption == Base \in Nat /\ Inc \in Nat /\ Margin \in Nat
ASSUME RulesAssumption == (\A r \in Rules : IsRule(r)) /\ Scores \subseteq Int /\ MaxBook \in Nat
ASSUME LimitsAssumption == MaxPlies \in Nat /\ NumGames \in Nat

\* FIXED_SEARCH_DEADLINE: the ticks a nodes or depth search may take.
FixedDeadline == Base + Margin
NoOne == "none"
Prepared == {"none", "ready", "failed", "nospawn", "infrastructure"}
FaultKind == {"timeout", "protocol", "disconnect", "illegal"}
Kind == FaultKind \cup {"infrastructure", "none"}
Result == {"white", "black", "draw"}
Report == [result : Result, scorable : BOOLEAN, side : Side \cup {NoOne}, kind : Kind,
           adjudicated : BOOLEAN]
NoReport == [result |-> "draw", scorable |-> FALSE, side |-> NoOne, kind |-> "none",
             adjudicated |-> FALSE]

VARIABLES
    \* The operating system: the two engines' processes.
    proc,      \* "none", "up", or "dead": exited, its handle not dropped yet
    owes,      \* the search a live engine has not answered: "none", "think", "ponder"
    \* The slot, between games.
    keep,      \* its games are run_game_keeping, not run_game
    kept,      \* whether a KeptEngine is there for the side
    played,    \* bound: games so far
    \* The game task.
    pc,        \* "between", "setup", "turn", "search", "arm", "over"
    control,   \* spec.white_time_control and spec.black_time_control
    ponder,    \* spec.ponder
    prep,      \* what preparing each side came to
    rule,      \* spec.adjudication
    mover, plies, clocks,
    pov,       \* white_pov
    pred,      \* ponder_pred: "none", "pending", then "hit" or "miss"
    ended,     \* sides whose finish_engine returned
    outcome,   \* the report, from the moment the game is decided
    \* The sides that did something an engine must not do in this game.
    wrong

processes == <<proc, owes>>
slot == <<keep, kept, played>>
setup == <<control, ponder, rule, prep>>
board == <<mover, plies, clocks, pov, pred>>
vars == <<processes, slot, pc, setup, board, ended, outcome, wrong>>

Natural(result) == [NoReport EXCEPT !.result = result, !.scorable = TRUE]
Adjudicated(result) == [Natural(result) EXCEPT !.adjudicated = TRUE]

\* The side that is at fault loses.
EngineLoss(s, kind) ==
    [Natural(Other(s)) EXCEPT !.side = s, !.kind = kind]

Infrastructure == [NoReport EXCEPT !.kind = "infrastructure"]

-----------------------------------------------------------------------------
(* Setting up. *)

\* The opening: either side moves first in the position it starts from, and its
\* plies have no score.  The scores are read by the adjudication alone.
OpeningScores(book) ==
    IF rule' = Off THEN << >> ELSE [i \in 1..book |-> [by |-> NoOne, cp |-> 0]]

NewGame ==
    /\ pc = "between" /\ played < NumGames
    /\ pc' = "setup"
    /\ control' \in [Side -> Controls] /\ ponder' \in BOOLEAN
    /\ prep' = [s \in Side |-> "none"]
    /\ rule' \in Rules
    /\ mover' \in Side
    /\ plies' \in 0..MaxBook /\ pov' = OpeningScores(plies')
    /\ clocks' = [s \in Side |-> IF control'[s] = "clock" THEN Base ELSE 0]
    /\ pred' = [s \in Side |-> "none"]
    /\ wrong' = {} /\ ended' = {} /\ outcome' = NoReport
    /\ UNCHANGED <<processes, slot>>

\* The kept engine fits: the changed options, isready, ucinewgame, isready.
RefreshKept(s) ==
    /\ pc = "setup" /\ prep[s] = "none" /\ kept[s]
    /\ \/ /\ proc[s] = "up"
          /\ prep' = [prep EXCEPT ![s] = "ready"]
          /\ UNCHANGED wrong
       \/ /\ prep' = [prep EXCEPT ![s] = "failed"]
          /\ wrong' = wrong \cup {s}
    /\ kept' = [kept EXCEPT ![s] = FALSE]
    /\ UNCHANGED <<processes, keep, played, pc, control, ponder, rule, board, ended, outcome>>

\* It does not fit: it is quit, and a fresh one is started in its place.
QuitMisfit(s) ==
    /\ pc = "setup" /\ prep[s] = "none" /\ kept[s]
    /\ proc' = [proc EXCEPT ![s] = "none"]
    /\ kept' = [kept EXCEPT ![s] = FALSE]
    /\ UNCHANGED <<owes, keep, played, pc, setup, board, ended, outcome, wrong>>

\* Spawn, pin to its CPUs, handshake, options, isready, ucinewgame, isready.
StartFresh(s) ==
    /\ pc = "setup" /\ prep[s] = "none" /\ ~kept[s]
    /\ \/ /\ prep' = [prep EXCEPT ![s] = "nospawn"]
          /\ UNCHANGED <<proc, wrong>>
       \/ /\ \E came \in {"ready", "infrastructure"} : prep' = [prep EXCEPT ![s] = came]
          /\ proc' = [proc EXCEPT ![s] = "up"]
          /\ UNCHANGED wrong
       \/ /\ prep' = [prep EXCEPT ![s] = "failed"]
          /\ \E left \in {"up", "dead"} : proc' = [proc EXCEPT ![s] = left]
          /\ wrong' = wrong \cup {s}
    /\ UNCHANGED <<owes, slot, pc, control, ponder, rule, board, ended, outcome>>

Failed(s) == prep[s] \in {"failed", "nospawn", "infrastructure"}

SetupVerdict(s) == IF prep[s] = "failed"
                   THEN {EngineLoss(s, kind) : kind \in {"timeout", "protocol", "disconnect"}}
                   ELSE {Infrastructure}

\* White takes precedence when both failed.
Blamed == IF Failed("white") THEN "white" ELSE "black"

\* The survivor is quit, the failed processes are killed, none is kept.
SetupFails ==
    /\ pc = "setup" /\ \A s \in Side : prep[s] # "none"
    /\ \E s \in Side : Failed(s)
    /\ outcome' \in SetupVerdict(Blamed)
    /\ proc' = [s \in Side |-> "none"]
    /\ owes' = [s \in Side |-> "none"]
    /\ pc' = "between"
    /\ played' = played + 1
    /\ pov' = << >>
    /\ UNCHANGED <<keep, kept, setup, mover, plies, clocks, pred, ended, wrong>>

GameBegins ==
    /\ pc = "setup" /\ \A s \in Side : prep[s] = "ready"
    /\ pc' = "turn"
    /\ UNCHANGED <<processes, slot, setup, board, ended, outcome, wrong>>

-----------------------------------------------------------------------------
(* A turn. *)

Decide(verdict) == outcome' = verdict /\ pc' = "over"

MaxMoves ==
    /\ pc = "turn" /\ plies >= MaxPlies
    /\ Decide(Natural("draw"))
    /\ UNCHANGED <<processes, slot, setup, board, ended, wrong>>

\* The prediction missed: the ponder search is stopped and its move discarded.
AbortPonder ==
    /\ pc = "turn" /\ plies < MaxPlies /\ pred[mover] = "miss"
    /\ pred' = [pred EXCEPT ![mover] = "none"]
    /\ \/ /\ proc[mover] = "up"
          /\ owes' = [owes EXCEPT ![mover] = "none"]
          /\ UNCHANGED <<pc, outcome, wrong>>
       \/ /\ \E kind \in {"timeout", "protocol", "disconnect"} : Decide(EngineLoss(mover, kind))
          /\ wrong' = wrong \cup {mover}
          /\ UNCHANGED owes
    /\ UNCHANGED <<proc, slot, setup, mover, plies, clocks, pov, ended>>

\* `go`, or `ponderhit` when the predicted move was played.  An engine that is
\* gone owes no answer, but one it gave early while pondering still counts.
BeginSearch ==
    /\ pc = "turn" /\ plies < MaxPlies /\ pred[mover] # "miss"
    /\ pred' = [pred EXCEPT ![mover] = "none"]
    /\ \/ /\ proc[mover] = "up" \/ pred[mover] = "hit"
          /\ owes' = [owes EXCEPT ![mover] = "think"]
       \/ /\ proc[mover] = "dead"
          /\ UNCHANGED owes
    /\ pc' = "search"
    /\ UNCHANGED <<proc, slot, setup, mover, plies, clocks, pov, ended, outcome, wrong>>

\* What a move may take, margin left out: None for nodes and depth.
Budget(s) == CASE control[s] = "permove" -> Base
               [] control[s] = "clock" -> clocks[s]
               [] OTHER -> FixedDeadline - Margin

\* The deadline move_limits gives the search.
SearchDeadline(s) == Budget(s) + Margin

\* max(0, R - E) + I.
Charge(s, elapsed) ==
    IF control[s] # "clock" THEN clocks
    ELSE [clocks EXCEPT ![s] = (IF elapsed > @ THEN 0 ELSE @ - elapsed) + Inc]

\* Mutant: the margin ends one tick before the deadline the search was given.
Accepts_Before(s, elapsed) == control[s] = "fixed" \/ elapsed < Budget(s) + Margin

\* accept_and_charge: exactly the budget plus the margin is still accepted.
Accepts(s, elapsed) == control[s] = "fixed" \/ elapsed <= Budget(s) + Margin

\* The opponent's prediction is now right or wrong.
Predicted(s) == IF pred[s] = "pending" THEN {"hit", "miss"} ELSE {pred[s]}

\* Charged more than it had.
Refused ==
    /\ Decide(EngineLoss(mover, "timeout"))
    /\ UNCHANGED <<plies, clocks, pov, pred, wrong>>

\* What the mover says, from White's side; a mover that says nothing is taken
\* to say what was said last.
LastSaid == IF pov = << >> THEN 0 ELSE pov[Len(pov)].cp
Said ==
    {[by |-> mover, cp |-> IF mover = "white" THEN score ELSE -score] : score \in Scores}
        \cup {[by |-> NoOne, cp |-> LastSaid]}

Scored == IF rule = Off THEN pov' = pov ELSE \E entry \in Said : pov' = Append(pov, entry)

\* A move that is legal in no reading; or a legal one, which may end the game
\* by mate or as a draw, or else by adjudication.
Taken(elapsed) ==
    /\ clocks' = Charge(mover, elapsed)
    /\ \/ /\ Decide(EngineLoss(mover, "illegal"))
          /\ wrong' = wrong \cup {mover}
          /\ UNCHANGED <<plies, pov, pred>>
       \/ /\ plies' = plies + 1
          /\ Scored
          /\ \E p \in Predicted(Other(mover)) : pred' = [pred EXCEPT ![Other(mover)] = p]
          /\ LET verdict == Adjudicate(pov', rule)
             IN  \/ \E result \in Result : Decide(Natural(result))
                 \/ verdict # "none" /\ Decide(Adjudicated(verdict))
                 \/ verdict = "none" /\ pc' = "arm" /\ UNCHANGED outcome
          /\ UNCHANGED wrong

\* The engine answered in time.
Answers ==
    /\ pc = "search" /\ owes[mover] = "think"
    /\ \E elapsed \in 0..SearchDeadline(mover) :
          IF Accepts(mover, elapsed) THEN Taken(elapsed) ELSE Refused
    /\ owes' = [owes EXCEPT ![mover] = "none"]
    /\ UNCHANGED <<proc, slot, setup, mover, ended>>

\* Mutant: a search to a depth or a number of nodes may take forever.
TimesOut_Clocked ==
    /\ pc = "search" /\ control[mover] # "fixed"
    /\ Decide(EngineLoss(mover, "timeout"))
    /\ wrong' = wrong \cup {mover}
    /\ owes' \in {owes, [owes EXCEPT ![mover] = "none"]}
    /\ UNCHANGED <<proc, slot, setup, board, ended>>

\* The deadline passed.  Within the late window it may still answer.
TimesOut ==
    /\ pc = "search"
    /\ Decide(EngineLoss(mover, "timeout"))
    /\ wrong' = wrong \cup {mover}
    /\ owes' \in {owes, [owes EXCEPT ![mover] = "none"]}
    /\ UNCHANGED <<proc, slot, setup, board, ended>>

Faults(kind) ==
    /\ Decide(EngineLoss(mover, kind))
    /\ wrong' = wrong \cup {mover}
    /\ UNCHANGED <<processes, slot, setup, board, ended>>

\* An overlong line.
SpeaksNonsense == pc = "search" /\ Faults("protocol")

\* The pipe is closed: the engine is gone.
Disconnects == pc = "search" /\ proc[mover] = "dead" /\ Faults("disconnect")

\* Arm the mover's ponder on a legal hint; a failed arm means no ponder.
Arm ==
    /\ pc = "arm"
    /\ \/ /\ ponder
          /\ pred' = [pred EXCEPT ![mover] = "pending"]
          /\ owes' = [owes EXCEPT ![mover] = IF proc[mover] = "up" THEN "ponder" ELSE @]
       \/ UNCHANGED <<pred, owes>>
    /\ mover' = Other(mover)
    /\ pc' = "turn"
    /\ UNCHANGED <<proc, slot, setup, plies, clocks, pov, ended, outcome, wrong>>

-----------------------------------------------------------------------------
(* The end of a game. *)

\* Mutant: an engine that faulted is kept if it still answers.
Keeps_Faulted(s) == keep /\ outcome.kind # "infrastructure"

Keeps(s) == keep /\ outcome.kind # "infrastructure" /\ outcome.side # s

\* Mutant: only a ponder whose move has not been played counts.
Ponders_Pending(s) == pred[s] = "pending"

Ponders(s) == pred[s] # "none"

\* finish_engine: stop a ponder, ask isready, keep; or quit, killing in the end.
FinishEngine(s) ==
    /\ pc = "over" /\ s \notin ended
    /\ ended' = ended \cup {s}
    /\ \/ /\ Keeps(s) /\ proc[s] = "up"
          /\ kept' = [kept EXCEPT ![s] = TRUE]
          /\ owes' = [owes EXCEPT ![s] = IF Ponders(s) THEN "none" ELSE @]
          /\ UNCHANGED proc
       \/ /\ proc' = [proc EXCEPT ![s] = "none"]
          /\ owes' = [owes EXCEPT ![s] = "none"]
          /\ UNCHANGED kept
    /\ UNCHANGED <<keep, played, pc, setup, board, outcome, wrong>>

Reports ==
    /\ pc = "over" /\ ended = Side
    /\ pc' = "between"
    /\ played' = played + 1
    /\ pov' = << >>
    /\ UNCHANGED <<processes, keep, kept, setup, mover, plies, clocks, pred, ended, outcome, wrong>>

\* The run is over: what the slot still keeps is quit.
QuitKept(s) ==
    /\ pc = "between" /\ played = NumGames /\ kept[s]
    /\ kept' = [kept EXCEPT ![s] = FALSE]
    /\ proc' = [proc EXCEPT ![s] = "none"]
    /\ UNCHANGED <<owes, keep, played, pc, setup, board, ended, outcome, wrong>>

\* An engine may exit at any time, in a game or between two.
Dies(s) ==
    /\ proc[s] = "up"
    /\ proc' = [proc EXCEPT ![s] = "dead"]
    /\ owes' = [owes EXCEPT ![s] = "none"]
    /\ UNCHANGED <<slot, pc, setup, board, ended, outcome, wrong>>

-----------------------------------------------------------------------------

Init ==
    /\ proc = [s \in Side |-> "none"] /\ owes = [s \in Side |-> "none"]
    /\ kept = [s \in Side |-> FALSE] /\ played = 0
    /\ keep \in BOOLEAN /\ pc = "between"
    /\ control \in [Side -> Controls] /\ ponder = FALSE /\ rule = Off
    /\ prep = [s \in Side |-> "none"]
    /\ mover = "white" /\ plies = 0 /\ clocks = [s \in Side |-> 0]
    /\ pov = << >> /\ pred = [s \in Side |-> "none"]
    /\ ended = {} /\ outcome = NoReport /\ wrong = {}

Prepare(s) == RefreshKept(s) \/ QuitMisfit(s) \/ StartFresh(s)

\* What the game task does itself, each of its calls having a deadline; what an
\* engine writes, and when, is its own affair.
Task ==
    \/ \E s \in Side : Prepare(s)
    \/ SetupFails \/ GameBegins
    \/ MaxMoves \/ AbortPonder \/ BeginSearch \/ TimesOut \/ Disconnects \/ Arm
    \/ \E s \in Side : FinishEngine(s)
    \/ Reports

Next ==
    \/ NewGame \/ Task \/ Answers \/ SpeaksNonsense
    \/ \E s \in Side : QuitKept(s) \/ Dies(s)

Spec == Init /\ [][Next]_vars

\* Each call on an engine returns: EngineProcess!CallsReturn.
FairSpec == Spec /\ WF_vars(Task)

-----------------------------------------------------------------------------
(* Properties. *)

TypeOK ==
    /\ proc \in [Side -> {"none", "up", "dead"}]
    /\ owes \in [Side -> {"none", "think", "ponder"}]
    /\ kept \in [Side -> BOOLEAN] /\ played \in Nat
    /\ pc \in {"between", "setup", "turn", "search", "arm", "over"}
    /\ keep \in BOOLEAN /\ ponder \in BOOLEAN
    /\ control \in [Side -> Controls]
    /\ prep \in [Side -> Prepared]
    /\ mover \in Side /\ plies \in Nat /\ clocks \in [Side -> Nat]
    /\ pred \in [Side -> {"none", "pending", "hit", "miss"}]
    /\ ended \subseteq Side /\ outcome \in Report /\ wrong \subseteq Side

\* The runner's note of a ponder and the engine's state agree, so that a `go`
\* never reaches an engine that is still searching: a side to move is asked to
\* stop exactly the ponder it has, and one that is kept has none left.
NoSearchForgotten ==
    \A s \in Side : proc[s] = "up" =>
        /\ pc \in {"turn", "arm"} => (owes[s] = "ponder" <=> pred[s] # "none") /\ owes[s] # "think"
        /\ pc = "search" => IF s = mover THEN owes[s] # "ponder"
                            ELSE owes[s] = "ponder" <=> pred[s] # "none"
        /\ pc \in {"between", "setup"} => owes[s] = "none"

\* Once a game has reported, the only processes left are the kept ones, and an
\* engine is kept only by a game that was asked to keep it, ended properly and
\* did not blame it.
OnlyFitEnginesStay ==
    pc = "between" => \A s \in Side :
        /\ proc[s] # "none" => kept[s]
        /\ kept[s] => keep /\ outcome.side # s /\ outcome.kind # "infrastructure"

\* The engine a report blames did something wrong, and it lost; a game that
\* the infrastructure spoiled blames no one and is not scored.
BlameIsEarned ==
    /\ outcome.side # NoOne => outcome.side \in wrong /\ outcome.result = Other(outcome.side)
    /\ outcome.kind = "infrastructure" =>
          ~outcome.scorable /\ outcome.side = NoOne /\ \E s \in Side : prep[s] \in {"nospawn", "infrastructure"}

\* docs/cli/command-reference.md: a one-sided resignation uses only the scores
\* of the engine that loses, so the last one it gave must be past the threshold.
ResignsOnOwnScore ==
    pc = "over" /\ outcome.adjudicated /\ outcome.result # "draw" /\ ~rule.resign.twoSided =>
        LET loser == Other(outcome.result)
            own == {i \in DOMAIN pov : pov[i].by = loser}
        IN  \E i \in own : /\ \A k \in own : k <= i
                           /\ pov[i].cp * (IF loser = "white" THEN -1 ELSE 1) >= rule.resign.cp

\* Every game that was started comes to a report.
GameEnds == pc # "between" ~> pc = "between"
=============================================================================
