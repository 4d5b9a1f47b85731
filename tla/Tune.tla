-------------------------------- MODULE Tune --------------------------------
(***************************************************************************)
(* An SPSA tune: run_spsa of spsa_driver.rs with its mini-matches, the     *)
(* policy state it advances (SpsaTuningState of colosseum-application),    *)
(* the games its observer journals (DurableSpsaOutput of                   *)
(* composition/spsa.rs), and the next invocation, which rebuilds the       *)
(* committed iterations from the journal (iterations_from_journal of       *)
(* durable.rs and replay_iterations) and recomputes every centre.          *)
(*                                                                         *)
(* The centres after an iteration are a function of the schedule, which is *)
(* fixed, and of the scores up to it, so the sequence of scores stands for *)
(* the centre vector.  A score is the plus arm's wins less its losses, and *)
(* the plus arm is engine A; it is White in the odd game of a pair.        *)
(*                                                                         *)
(* A definition named X_Y is X with a mistake in it, for trying whether    *)
(* the properties notice; no specification uses it.                        *)
(***************************************************************************)
EXTENDS Integers, FiniteSets, SequencesExt

CONSTANTS
    Iterations,        \* settings.iterations
    PairsPerIteration, \* settings.pairs_per_iteration()
    Concurrency,       \* execution.concurrency, and the number of CPU slots
    FaultFloor, FaultPerMille,  \* FaultPolicy: a floor that grows with the games
    StopLimits,        \* bound: what --stop-after-iteration is; Iterations for none
    Outcomes,          \* bound: the outcomes games come to
    CutAnywhere,       \* a crash cuts inside an iteration, too
    MaxSessions        \* bound: invocations of the command

ASSUME SizeAssumption ==
    /\ Iterations \in Nat \ {0}
    /\ PairsPerIteration \in Nat \ {0}
    /\ Concurrency \in Nat \ {0}
ASSUME PolicyAssumption == FaultFloor \in Nat /\ FaultPerMille \in Nat
ASSUME BoundsAssumption ==
    /\ Outcomes \subseteq {"win", "loss", "forfeit", "unscorable"}
    /\ StopLimits \subseteq Nat
    /\ CutAnywhere \in BOOLEAN
    /\ MaxSessions \in Nat

GamesPerIteration == 2 * PairsPerIteration
Numbers == 1..(Iterations * GamesPerIteration)
Slots == 1..Concurrency

\* The outcome is the plus arm's, a forfeit its own; an "unscorable" game is one
\* the harness could not play.
Game == [number : Numbers, outcome : Outcomes]
Class == {"official", "invalid"}
Line == [number : Numbers, outcome : Outcomes, iteration : 0..(Iterations - 1), class : Class]
Status == {"completed", "cancelled", "invalid"}

VARIABLES
    \* The directory.
    journal,
    published,         \* the status and scores of the newest result.json
    settled,           \* the lines of the journal behind it
    \* run_spsa.
    pc,                \* "down", "loop", "mini" or "ended"
    scores,            \* completed_iterations, and with it the centres
    faults,            \* run_faults
    ending,            \* how run_spsa returned
    \* play_mini_match.
    nextGame, workers, held,
    halves, pending, nextPair, pairs,
    stopping,          \* Cancellation: no more than this is looked at
    stopAfter,         \* stop_after_iteration of this invocation
    sessions           \* bound: invocations so far

directory == <<journal, published, settled>>
driver == <<scores, faults, ending>>
slots == <<nextGame, workers, held>>
assembly == <<halves, pending, nextPair, pairs>>
vars == <<directory, pc, driver, slots, assembly, stopping, stopAfter, sessions>>

-----------------------------------------------------------------------------
(* Numbers and scores. *)

PairOf(number) == (number + 1) \div 2
FirstGame(iteration) == iteration * GamesPerIteration + 1
FirstPair(iteration) == iteration * PairsPerIteration + 1
Iteration == Len(scores)

GamesOf(somePairs) ==
    {somePairs[i].first : i \in DOMAIN somePairs} \cup {somePairs[i].second : i \in DOMAIN somePairs}

Count(somePairs, outcomes) ==
    Cardinality({i \in DOMAIN somePairs : somePairs[i].first.outcome \in outcomes})
    + Cardinality({i \in DOMAIN somePairs : somePairs[i].second.outcome \in outcomes})

\* score_mini_match: the difference.
ScoreOf(somePairs) == Count(somePairs, {"win"}) - Count(somePairs, {"loss", "forfeit"})

\* FaultPolicy::exceeded, over the whole tune.
Exceeded(count, games) ==
    LET grown == (games * FaultPerMille) \div 1000
    IN  count > (IF grown > FaultFloor THEN grown ELSE FaultFloor)

-----------------------------------------------------------------------------
(* The journal, and the iterations it holds. *)

LineOf(game, iteration, class) ==
    [number |-> game.number, outcome |-> game.outcome, iteration |-> iteration, class |-> class]

\* A pair's two games one after the other.
LinesOf(somePairs, iteration, class) ==
    [k \in 1..(2 * Len(somePairs)) |->
        LET pair == somePairs[(k + 1) \div 2]
        IN  LineOf(IF k % 2 = 1 THEN pair.first ELSE pair.second, iteration, class)]

GameOf(line) == [number |-> line.number, outcome |-> line.outcome]

\* The two games of a pair in the order of their numbers.
Joined(waiting, arrived) ==
    IF waiting.number < arrived.number THEN [first |-> waiting, second |-> arrived]
                                       ELSE [first |-> arrived, second |-> waiting]

IdAt(i) == PairOf(journal[i].number)

\* Every second line of one pair number completes a pair: `halves` holds the
\* line before it.
Completing(mine) ==
    {i \in mine : Cardinality({k \in mine : k <= i /\ IdAt(k) = IdAt(i)}) % 2 = 0}

Other(mine, i) ==
    CHOOSE k \in mine : /\ k < i /\ IdAt(k) = IdAt(i)
                        /\ \A j \in mine : k < j /\ j < i => IdAt(j) # IdAt(i)

\* sort_by_key: in pair order, the pairs of one number as they were completed.
Precedes(i, k) == IdAt(i) < IdAt(k) \/ (IdAt(i) = IdAt(k) /\ i < k)

\* pairs_from_journal, of some lines of the journal.
PairsFrom(mine) ==
    LET complete == Completing(mine)
        At(n) == CHOOSE i \in complete :
                     Cardinality({k \in complete : Precedes(k, i)}) = n - 1
    IN  [n \in 1..Cardinality(complete) |->
            Joined(GameOf(journal[Other(mine, At(n))]), GameOf(journal[At(n)]))]

\* Mutant: the games of an invalid iteration are read, too.
IterationPairs_AllClasses(iteration) ==
    PairsFrom({i \in DOMAIN journal : journal[i].iteration = iteration})

Official(iteration) ==
    {i \in DOMAIN journal : journal[i].class = "official" /\ journal[i].iteration = iteration}

\* iterations_from_journal
IterationPairs(iteration) == PairsFrom(Official(iteration))

RightPairs(iteration, somePairs) ==
    \A i \in DOMAIN somePairs : PairOf(somePairs[i].first.number) = FirstPair(iteration) + i - 1

\* replay_iterations goes on up to the first iteration that is not all there.
Replayed ==
    LET Whole(i) == Len(IterationPairs(i)) = PairsPerIteration
    IN  Cardinality({n \in 1..Iterations : \A i \in 0..(n - 1) : Whole(i)})

ReplayedScores == [i \in 1..Replayed |-> ScoreOf(IterationPairs(i - 1))]
ReplayedFaults ==
    LET sum[n \in 0..Replayed] ==
            IF n = 0 THEN 0 ELSE sum[n - 1] + Count(IterationPairs(n - 1), {"forfeit"})
    IN  sum[Replayed]

\* A tune with an invalid iteration cannot be extended, and one whose journal
\* does not replay is refused.
CanResume ==
    /\ \A i \in DOMAIN journal : journal[i].class # "invalid"
    /\ \A i \in 0..(Replayed - 1) :
           /\ RightPairs(i, IterationPairs(i))
           /\ \A g \in GamesOf(IterationPairs(i)) : g.outcome # "unscorable"

-----------------------------------------------------------------------------
(* The tune, between two mini-matches. *)

NoAssembly ==
    /\ halves' = {} /\ pending' = {} /\ pairs' = << >>

Returns(reason) ==
    /\ pc' = "ended" /\ ending' = reason
    /\ workers' = {}

Complete ==
    /\ pc = "loop" /\ Iteration = Iterations
    /\ Returns("completed")
    /\ UNCHANGED <<directory, scores, faults, nextGame, held, assembly, stopping, stopAfter, sessions>>

\* The limit counts every iteration the directory holds.
StagedStop == Iteration >= stopAfter

\* A stop and the staged limit are looked at here, and nowhere else.
StopAtBoundary ==
    /\ pc = "loop" /\ Iteration < Iterations
    /\ stopping \/ StagedStop
    /\ Returns("cancelled")
    /\ UNCHANGED <<directory, scores, faults, nextGame, held, assembly, stopping, stopAfter, sessions>>

StartMiniMatch ==
    /\ pc = "loop" /\ Iteration < Iterations
    /\ ~stopping /\ ~StagedStop
    /\ pc' = "mini"
    /\ nextGame' = FirstGame(Iteration)
    /\ nextPair' = FirstPair(Iteration)
    /\ workers' = {} /\ held' = [s \in Slots |-> FALSE]
    /\ NoAssembly
    /\ UNCHANGED <<directory, driver, stopping, stopAfter, sessions>>

-----------------------------------------------------------------------------
(* play_mini_match *)

LastGame == FirstGame(Iteration) + GamesPerIteration - 1
CanLaunch == nextGame <= LastGame /\ Cardinality(workers) < Concurrency

Least(S) == CHOOSE n \in S : \A other \in S : n <= other

\* SlotPool::take gives the lowest free slot.
Take == Least({s \in Slots : ~held[s]})

\* The unit that holds a slot is the game: both games of a pair may be live.
Launch ==
    /\ pc = "mini" /\ CanLaunch
    /\ workers' = workers \cup {[number |-> nextGame, slot |-> Take]}
    /\ held' = [held EXCEPT ![Take] = TRUE]
    /\ nextGame' = nextGame + 1
    /\ UNCHANGED <<directory, pc, driver, assembly, stopping, stopAfter, sessions>>

IdOf(pair) == PairOf(pair.first.number)

ReleasedUpTo(waiting, next) ==
    /\ pending' = {p \in waiting : IdOf(p) >= next}
    /\ nextPair' = next
    /\ pairs' = pairs \o [k \in 1..(next - nextPair) |->
                             CHOOSE p \in waiting : IdOf(p) = nextPair + k - 1]

\* Mutant: only one pair is released at a time.
Released_One(waiting) ==
    ReleasedUpTo(waiting, nextPair + Cardinality({p \in waiting : IdOf(p) = nextPair}))

\* PairCommitQueue::complete releases every pair that has become contiguous.
Released(waiting) ==
    LET missing == (nextPair..(Iterations * PairsPerIteration + 1)) \ {IdOf(p) : p \in waiting}
    IN  ReleasedUpTo(waiting, Least(missing))

\* A game joins the other half of its pair, or waits for it.
Join ==
    /\ pc = "mini" /\ ~CanLaunch
    /\ \E worker \in workers, outcome \in Outcomes :
        LET game == [number |-> worker.number, outcome |-> outcome]
            mates == {g \in halves : PairOf(g.number) = PairOf(game.number)}
        IN  /\ workers' = workers \ {worker}
            /\ held' = [held EXCEPT ![worker.slot] = FALSE]
            /\ IF mates = {}
               THEN halves' = halves \cup {game} /\ UNCHANGED <<pending, nextPair, pairs>>
               ELSE /\ halves' = halves \ mates
                    /\ Released(pending \cup {Joined(CHOOSE g \in mates : TRUE, game)})
    /\ UNCHANGED <<directory, pc, driver, nextGame, stopping, stopAfter, sessions>>

JoinFails ==
    /\ pc = "mini" /\ ~CanLaunch /\ workers # {}
    /\ Returns("failed")
    /\ UNCHANGED <<directory, scores, faults, nextGame, held, assembly, stopping, stopAfter, sessions>>

-----------------------------------------------------------------------------
(* What becomes of a mini-match. *)

Played == pc = "mini" /\ nextGame > LastGame /\ workers = {}
Unscorable == \E g \in GamesOf(pairs) : g.outcome = "unscorable"
RunFaults == faults + Count(pairs, {"forfeit"})
Void == Exceeded(RunFaults, (Iteration + 1) * GamesPerIteration)

\* Nothing of it is journalled.
RefuseMiniMatch ==
    /\ Played /\ Unscorable
    /\ Returns("failed")
    /\ UNCHANGED <<directory, scores, faults, nextGame, held, assembly, stopping, stopAfter, sessions>>

\* Mutant: the games of an invalid iteration are journalled as any others.
Invalidate_Official ==
    /\ Played /\ ~Unscorable /\ Void
    /\ journal' = journal \o LinesOf(pairs, Iteration, "official")
    /\ faults' = RunFaults
    /\ Returns("invalid")
    /\ UNCHANGED <<published, settled, scores, nextGame, held, assembly, stopping, stopAfter, sessions>>

\* Too many faults end the tune; the centres stay as they were.
Invalidate ==
    /\ Played /\ ~Unscorable /\ Void
    /\ journal' = journal \o LinesOf(pairs, Iteration, "invalid")
    /\ faults' = RunFaults
    /\ Returns("invalid")
    /\ UNCHANGED <<published, settled, scores, nextGame, held, assembly, stopping, stopAfter, sessions>>

\* SpsaTuningState::commit_iteration, of a scored mini-match.
CommitIteration == scores' = Append(scores, ScoreOf(pairs))

\* The whole mini-match moves the centres, and only then is it journalled.
\* record_committed_unit has no budget here.
Commit ==
    /\ Played /\ ~Unscorable /\ ~Void
    /\ CommitIteration
    /\ faults' = RunFaults
    /\ journal' = journal \o LinesOf(pairs, Iteration, "official")
    /\ pc' = "loop"
    /\ NoAssembly
    /\ UNCHANGED <<published, settled, ending, slots, nextPair, stopping, stopAfter, sessions>>

\* Both interrupts, and the end of the grace period, come to the same.
Interrupt ==
    /\ pc \in {"loop", "mini"} /\ ~stopping
    /\ stopping' = TRUE
    /\ UNCHANGED <<directory, pc, driver, slots, assembly, stopAfter, sessions>>

-----------------------------------------------------------------------------
(* The command. *)

Down ==
    /\ pc' = "down" /\ ending' = "none"
    /\ scores' = << >> /\ faults' = 0
    /\ nextGame' = 1 /\ workers' = {} /\ held' = [s \in Slots |-> FALSE]
    /\ nextPair' = 1 /\ NoAssembly
    /\ stopping' = FALSE /\ stopAfter' = Iterations

\* The result is written once the journal behind it is settled.
Exit ==
    /\ pc = "ended"
    /\ IF ending = "failed" THEN UNCHANGED <<published, settled>>
       ELSE /\ published' = [status |-> ending, scores |-> scores]
            /\ settled' = Len(journal)
    /\ Down
    /\ UNCHANGED <<journal, sessions>>

\* A crash costs a tail of the journal, down to what a result was written for.
Crash ==
    /\ pc # "down"
    /\ \E kept \in settled..Len(journal) :
        /\ CutAnywhere \/ kept % GamesPerIteration = 0
        /\ journal' = SubSeq(journal, 1, kept)
    /\ Down
    /\ UNCHANGED <<published, settled, sessions>>

Resume ==
    /\ pc = "down" /\ sessions < MaxSessions /\ CanResume
    /\ pc' = "loop"
    /\ sessions' = sessions + 1
    /\ scores' = ReplayedScores
    /\ faults' = ReplayedFaults
    /\ stopAfter' \in StopLimits
    /\ UNCHANGED <<directory, ending, slots, assembly, stopping>>

-----------------------------------------------------------------------------
Init ==
    /\ journal = << >> /\ settled = 0
    /\ published = [status |-> "none", scores |-> << >>]
    /\ pc = "down" /\ ending = "none"
    /\ scores = << >> /\ faults = 0
    /\ nextGame = 1 /\ workers = {} /\ held = [s \in Slots |-> FALSE]
    /\ halves = {} /\ pending = {} /\ nextPair = 1 /\ pairs = << >>
    /\ stopping = FALSE /\ stopAfter = Iterations
    /\ sessions = 0

Next ==
    \/ Complete \/ StopAtBoundary \/ StartMiniMatch
    \/ Launch \/ Join \/ JoinFails
    \/ RefuseMiniMatch \/ Invalidate \/ Commit
    \/ Interrupt
    \/ Exit \/ Crash \/ Resume

Spec == Init /\ [][Next]_vars

-----------------------------------------------------------------------------
(* Properties. *)

\* Whatever order the games of a mini-match end in, what is scored is every game
\* of the iteration once, as pairs in order, the plus arm White in each first
\* game; and no game shares its slot.
MiniMatchIsWhole ==
    /\ Played =>
           /\ halves = {} /\ pending = {}
           /\ Len(pairs) = PairsPerIteration /\ RightPairs(Iteration, pairs)
           /\ \A i \in DOMAIN pairs : pairs[i].first.number % 2 = 1
                                      /\ pairs[i].second.number = pairs[i].first.number + 1
    /\ pc = "mini" =>
           /\ \A v, w \in workers : v.slot = w.slot => v = w
           /\ \A s \in Slots : held[s] <=> \E w \in workers : w.slot = s

\* The journal gives back what the tune stood on: the iterations of a published
\* result, with their scores, and so every centre.
ReplayIsFaithful == IsPrefix(published.scores, ReplayedScores)

\* The driver's centres are those of whole mini-matches in its journal, and no
\* invalid iteration is among them.
CentresAreJournalled == pc # "down" => scores = ReplayedScores

\* An invalid tune stays so: a trace of the iteration that voided it lets no
\* later invocation play another game.
InvalidStands ==
    [][/\ published.status = "invalid" => published' = published /\ workers' = {}
       /\ (\E i \in DOMAIN journal : journal[i].class = "invalid") => workers' \subseteq workers]_vars

=============================================================================
