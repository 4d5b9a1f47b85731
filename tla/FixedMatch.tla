----------------------------- MODULE FixedMatch -----------------------------
(***************************************************************************)
(* A fixed match: run_fixed_match of match_runner.rs with its workers,     *)
(* their CPU slots (SlotPool) and the engines a slot keeps between its     *)
(* games (SlotEngines), the colours a game is played and reported under,   *)
(* the score and the fault counts made from the reports, the status, and   *)
(* the next invocation of match_command.rs, which plays the numbers the    *)
(* journal lacks.                                                          *)
(*                                                                         *)
(* Engines are called A and B whichever colour they play; a report names   *)
(* colours only.  The field `truth` of a game says which engine it was     *)
(* about and is for the properties: the program has no such field.  What a *)
(* crash leaves of the journal is a prefix that covers every published     *)
(* report, as DurableRun shows.                                            *)
(*                                                                         *)
(* A definition named X_Y is X with a mistake in it, for trying whether    *)
(* the properties notice; no specification uses it.                        *)
(***************************************************************************)
EXTENDS Integers, FiniteSets, Sequences

CONSTANTS
    Games,             \* the games requested
    Concurrency,       \* execution.concurrency, and the number of CPU slots
    MaxEngineFaults, MaxTimeLosses,    \* FaultPolicy
    KeepEngines,       \* engine_processes is per-slot
    MaxSessions        \* bound: invocations of the command

ASSUME SizeAssumption == Games \in Nat \ {0} /\ Concurrency \in Nat \ {0}
ASSUME PolicyAssumption ==
    MaxEngineFaults \in Nat /\ MaxTimeLosses \in Nat /\ KeepEngines \in BOOLEAN
ASSUME BoundsAssumption == MaxSessions \in Nat

Numbers == 1..Games
Slots == 1..Concurrency
Side == {"A", "B"}
Color == {"white", "black"}
Other(side) == IF side = "A" THEN "B" ELSE "A"

\* What a game came to, in terms of the engines.  A game whose engines could
\* not be started, or that the harness failed, is "unplayed".
Truth == [kind : {"win", "forfeit", "timeloss"}, by : Side] \cup [kind : {"draw", "unplayed"}, by : {"A"}]
\* What is reported of it: the winner's colour, and whose fault it was.
Fault == [kind : {"none", "forfeit", "timeloss", "infrastructure"}, side : Color]
Game == [number : Numbers, white : Side, winner : Color \cup {"none"},
         scorable : BOOLEAN, fault : Fault, truth : Truth]
Status == {"infrastructure-error", "invalid", "cancelled", "completed"}

VARIABLES
    journal,           \* the directory: the committed games
    published,         \* the directory: the newest report
    pc,                \* "down", "loop" or "ended"
    games,             \* report.games
    pending,           \* the numbers not launched yet
    workers,           \* the live games
    held,              \* SlotPool
    stored,            \* SlotEngines: the idle engine of each side of a slot
    stage,             \* Cancellation
    ending,            \* how run_fixed_match returned
    sessions           \* bound: invocations so far

directory == <<journal, published>>
slots == <<held, stored>>
vars == <<directory, pc, games, pending, workers, slots, stage, ending, sessions>>

-----------------------------------------------------------------------------
(* Sides and colours. *)

White(number) == IF number % 2 = 1 THEN "A" ELSE "B"
ColorOf(number, side) == IF side = White(number) THEN "white" ELSE "black"
Playing(number, color) == IF color = "white" THEN White(number) ELSE Other(White(number))

\* MatchGame, as play_game returns it.
MatchGame(number, truth) ==
    [number |-> number,
     white |-> White(number),
     winner |-> CASE truth.kind = "win" -> ColorOf(number, truth.by)
                  [] truth.kind \in {"forfeit", "timeloss"} -> ColorOf(number, Other(truth.by))
                  [] OTHER -> "none",
     scorable |-> truth.kind # "unplayed",
     fault |-> [kind |-> CASE truth.kind \in {"forfeit", "timeloss"} -> truth.kind
                           [] truth.kind = "unplayed" -> "infrastructure"
                           [] OTHER -> "none",
                side |-> ColorOf(number, truth.by)],
     truth |-> truth]

\* Mutant: the engines go back by colour.
PutBack_ByColor(number, seats) == [A |-> seats["white"], B |-> seats["black"]]

\* The engines the game leaves running, from their colours to their sides.
PutBack(number, seats) ==
    [A |-> seats[ColorOf(number, "A")], B |-> seats[ColorOf(number, "B")]]

-----------------------------------------------------------------------------
(* The report. *)

\* Mutant: a fault is charged as if A were always White.
Named_AsWhite(game, color) == IF color = "white" THEN "A" ELSE "B"

\* record_score and record_fault: the engine behind a colour.
Named(game, color) == IF color = "white" THEN game.white ELSE Other(game.white)

Won(list, side) ==
    {i \in DOMAIN list : /\ list[i].scorable
                         /\ list[i].winner # "none"
                         /\ Named(list[i], list[i].winner) = side}
Drawn(list) == {i \in DOMAIN list : list[i].scorable /\ list[i].winner = "none"}
Faulted(list, side, kinds) ==
    {i \in DOMAIN list : /\ list[i].fault.kind \in kinds
                         /\ Named(list[i], list[i].fault.side) = side}

Score(list, side) ==
    [wins |-> Cardinality(Won(list, side)),
     losses |-> Cardinality(Won(list, Other(side))),
     draws |-> Cardinality(Drawn(list)),
     faults |-> Cardinality(Faulted(list, side, {"forfeit", "timeloss"})),
     timeLosses |-> Cardinality(Faulted(list, side, {"timeloss"}))]

\* FaultPolicy::exceeded: both sides together, against limits that are fixed.
Exceeded(list) ==
    \/ Score(list, "A").faults + Score(list, "B").faults > MaxEngineFaults
    \/ Score(list, "A").timeLosses + Score(list, "B").timeLosses > MaxTimeLosses

Infrastructure(list) == \E i \in DOMAIN list : list[i].fault.kind = "infrastructure"

Stopping == stage # "running"

\* Mutant: a stop that arrives with the last game cancels the match.
MatchStatus_StopCancels ==
    IF Infrastructure(games) THEN "infrastructure-error"
    ELSE IF Exceeded(games) THEN "invalid"
    ELSE IF Stopping THEN "cancelled"
    ELSE "completed"

MatchStatus ==
    IF Infrastructure(games) THEN "infrastructure-error"
    ELSE IF Exceeded(games) THEN "invalid"
    ELSE IF Stopping /\ Len(games) < Games THEN "cancelled"
    ELSE "completed"

-----------------------------------------------------------------------------
(* The loop. *)

CanLaunch == pending # {} /\ ~Stopping /\ Cardinality(workers) < Concurrency

Least(S) == CHOOSE n \in S : \A other \in S : n <= other

\* SlotPool::take gives the lowest free slot.
Take == Least({s \in Slots : ~held[s]})

NoTruth == [kind |-> "draw", by |-> "A"]

Launch ==
    /\ pc = "loop" /\ CanLaunch
    /\ workers' = workers \cup
           {[number |-> Least(pending), slot |-> Take, phase |-> "launched", truth |-> NoTruth]}
    /\ held' = [held EXCEPT ![Take] = TRUE]
    /\ pending' = pending \ {Least(pending)}
    /\ UNCHANGED <<directory, pc, games, stored, stage, ending, sessions>>

\* The worker returned: its slot is free, and its game is committed.
Join ==
    /\ pc = "loop" /\ ~CanLaunch
    /\ \E worker \in workers :
        /\ worker.phase = "returned"
        /\ workers' = workers \ {worker}
        /\ held' = [held EXCEPT ![worker.slot] = FALSE]
        /\ journal' = Append(journal, MatchGame(worker.number, worker.truth))
        /\ games' = Append(games, MatchGame(worker.number, worker.truth))
    /\ UNCHANGED <<published, pc, pending, stored, stage, ending, sessions>>

\* An error return drops the JoinSet and the store: tasks and engines with them.
Ends(reason) ==
    /\ pc' = "ended" /\ ending' = reason
    /\ workers' = {}
    /\ stored' = [s \in Slots |-> [side \in Side |-> "none"]]

\* The worker panicked, or the observer could not write its game.
JoinFails ==
    /\ pc = "loop" /\ ~CanLaunch /\ workers # {}
    /\ Ends("failed")
    /\ UNCHANGED <<directory, games, pending, held, stage, sessions>>

\* Nothing to launch and nothing live: the slots' engines are shut down.
EndLoop ==
    /\ pc = "loop" /\ ~CanLaunch /\ workers = {}
    /\ Ends("played out")
    /\ UNCHANGED <<directory, games, pending, held, stage, sessions>>

\* cancellation.abandon() resolves: the live workers are aborted.
Abandon ==
    /\ pc = "loop" /\ ~CanLaunch /\ workers # {} /\ stage = "abandon"
    /\ Ends("abandoned")
    /\ UNCHANGED <<directory, games, pending, held, stage, sessions>>

-----------------------------------------------------------------------------
(* play_game *)

Becomes(worker, phase, truth) ==
    workers' = (workers \ {worker}) \cup {[worker EXCEPT !.phase = phase, !.truth = truth]}

\* The game takes what its slot keeps, and quits or replaces what does not fit.
TakeEngines ==
    \E worker \in workers :
        /\ worker.phase = "launched"
        /\ Becomes(worker, "playing", NoTruth)
        /\ stored' = [stored EXCEPT ![worker.slot] = [side \in Side |-> "none"]]
        /\ UNCHANGED <<directory, pc, games, pending, held, stage, ending, sessions>>

\* An engine at fault never stays; the others may.
EndGame ==
    \E worker \in workers, truth \in Truth, ready \in {{}, Side} :
        LET fit == {s \in ready : truth.kind \notin {"forfeit", "timeloss"} \/ s # truth.by}
            Seat(color) == LET side == Playing(worker.number, color)
                           IN  IF KeepEngines /\ side \in fit THEN side ELSE "none"
        IN  /\ worker.phase = "playing"
            /\ Becomes(worker, "returned", truth)
            /\ stored' = [stored EXCEPT
                             ![worker.slot] = PutBack(worker.number, [c \in Color |-> Seat(c)])]
            /\ UNCHANGED <<directory, pc, games, pending, held, stage, ending, sessions>>

-----------------------------------------------------------------------------
(* Cancellation. *)

Interrupt ==
    /\ pc = "loop" /\ stage # "abandon"
    /\ stage' = IF stage = "running" THEN "stopping" ELSE "abandon"
    /\ UNCHANGED <<directory, pc, games, pending, workers, slots, ending, sessions>>

\* The grace period runs from the stop; its end counts as a second interrupt.
GraceExpires ==
    /\ pc = "loop" /\ stage = "stopping"
    /\ stage' = "abandon"
    /\ UNCHANGED <<directory, pc, games, pending, workers, slots, ending, sessions>>

-----------------------------------------------------------------------------
(* The command. *)

Down ==
    /\ pc' = "down" /\ ending' = "none"
    /\ games' = << >> /\ pending' = {} /\ workers' = {}
    /\ held' = [s \in Slots |-> FALSE]
    /\ stored' = [s \in Slots |-> [side \in Side |-> "none"]]
    /\ stage' = "running"

Exit ==
    /\ pc = "ended"
    /\ published' = IF ending = "failed" THEN published
                    ELSE [status |-> MatchStatus, games |-> games]
    /\ Down
    /\ UNCHANGED <<journal, sessions>>

\* A crash costs a tail of the journal, unless its games were reported.
Crash ==
    /\ pc # "down"
    /\ \E kept \in Len(published.games)..Len(journal) : journal' = SubSeq(journal, 1, kept)
    /\ Down
    /\ UNCHANGED <<published, sessions>>

\* Mutant: games that could not be played are left out, and so played again.
Loaded_Scorable ==
    LET Scorable(game) == game.scorable IN SelectSeq(journal, Scorable)

\* completed_games: every game of the journal, scorable or not.
Loaded == journal

Resume ==
    /\ pc = "down" /\ sessions < MaxSessions
    /\ pc' = "loop"
    /\ sessions' = sessions + 1
    /\ games' = Loaded
    /\ pending' = Numbers \ {Loaded[i].number : i \in DOMAIN Loaded}
    /\ UNCHANGED <<directory, workers, slots, stage, ending>>

-----------------------------------------------------------------------------
Init ==
    /\ journal = << >>
    /\ published = [status |-> "none", games |-> << >>]
    /\ pc = "down" /\ ending = "none"
    /\ games = << >> /\ pending = {} /\ workers = {}
    /\ held = [s \in Slots |-> FALSE]
    /\ stored = [s \in Slots |-> [side \in Side |-> "none"]]
    /\ stage = "running"
    /\ sessions = 0

LoopNext == Launch \/ Join \/ EndLoop \/ Abandon
WorkerNext == TakeEngines \/ EndGame

Next ==
    \/ LoopNext \/ JoinFails
    \/ WorkerNext
    \/ Interrupt \/ GraceExpires
    \/ Exit \/ Crash \/ Resume

Spec == Init /\ [][Next]_vars

-----------------------------------------------------------------------------
(* Properties. *)

\* The state of the match, its slots and its directory is well formed.
TypeOK ==
    /\ journal \in Seq(Game) /\ games \in Seq(Game)
    /\ published \in [status : Status \cup {"none"}, games : Seq(Game)]
    /\ pc \in {"down", "loop", "ended"}
    /\ pending \subseteq Numbers
    /\ workers \subseteq [number : Numbers, slot : Slots,
                          phase : {"launched", "playing", "returned"}, truth : Truth]
    /\ held \in [Slots -> BOOLEAN]
    /\ stored \in [Slots -> [Side -> Side \cup {"none"}]]
    /\ stage \in {"running", "stopping", "abandon"}
    /\ ending \in {"none", "played out", "abandoned", "failed"}
    /\ sessions \in 0..MaxSessions

Committed == {journal[i].number : i \in DOMAIN journal}

\* No number is lost, played twice or journalled twice, over any sequence of
\* stops, crashes and resumes: each is journalled, live or still to be played.
EveryGameOnce ==
    /\ \A i, k \in DOMAIN journal : journal[i].number = journal[k].number => i = k
    /\ \A v, w \in workers : v.number = w.number => v = w
    /\ pc = "loop" =>
          /\ Committed \cup {w.number : w \in workers} \cup pending = Numbers
          /\ \A w \in workers : w.number \notin Committed \cup pending
          /\ Committed \cap pending = {}

\* A game in flight has its CPU slot and the engines of that slot to itself, and
\* the engine a slot keeps for a side is that side's, whatever colours it played.
SlotToItself ==
    pc = "loop" =>
        /\ \A v, w \in workers : v.slot = w.slot => v = w
        /\ \A s \in Slots : held[s] <=> \E w \in workers : w.slot = s
        /\ \A w \in workers : w.phase = "playing" => stored[w.slot] = [side \in Side |-> "none"]
        /\ \A s \in Slots, side \in Side : stored[s][side] \in {"none", side}

\* Each engine is credited with its own wins and charged with its own faults,
\* though the colours change from game to game.
CreditIsRight ==
    LET Of(side, kinds) ==
            Cardinality({i \in DOMAIN games : games[i].truth.kind \in kinds
                                              /\ games[i].truth.by = side})
    IN  \A side \in Side :
            /\ Score(games, side).wins = Of(side, {"win"}) + Of(Other(side), {"forfeit", "timeloss"})
            /\ Score(games, side).faults = Of(side, {"forfeit", "timeloss"})
            /\ Score(games, side).timeLosses = Of(side, {"timeloss"})

\* A match is cancelled only if it left a game unplayed, and one that is neither
\* cancelled, void nor failed has played every game.
StatusIsRight ==
    ending \in {"played out", "abandoned"} =>
        /\ MatchStatus = "cancelled" => Stopping /\ Len(games) < Games
        /\ MatchStatus = "completed" => Len(games) = Games

\* A match is reported as its games and its stop say, and what it was reported to
\* be stands: a complete one is never touched, and no resume makes good a match
\* that was void or that the harness failed.
VerdictStands ==
    [][/\ published' # published => StatusIsRight
       /\ published.status = "completed" => published' = published
       /\ published.status = "invalid" =>
              published'.status \in {"invalid", "infrastructure-error"}
       /\ published.status = "infrastructure-error" =>
              published'.status = "infrastructure-error"]_vars

=============================================================================
