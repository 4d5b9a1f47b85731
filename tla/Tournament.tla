----------------------------- MODULE Tournament -----------------------------
(***************************************************************************)
(* A tournament of the command line: the schedule (round_robin and         *)
(* gauntlet of pairing.rs, numbered by PlanTournament), and run_tournament *)
(* of tournament_driver.rs, which plays each game as a one-game match,     *)
(* hands the engines a slot keeps to the participants they belong to, and  *)
(* decides what the tournament came to; with the next invocation, which    *)
(* plays what the journal lacks.  Its slots are those Placement gives it,  *)
(* its openings those Openings gives it; the book's file is taken to stay  *)
(* what it is while invocations use it.                                    *)
(*                                                                         *)
(* Participants are numbers from 0, as the schedule's indices are, and no  *)
(* two have the same launch: a kept process is named after the participant *)
(* it was started for and the cores it was pinned to.  A crash leaves a    *)
(* prefix of the journal that covers every published report, as DurableRun *)
(* shows.                                                                  *)
(*                                                                         *)
(* A definition named X_Y is X with a mistake in it, for trying whether    *)
(* the properties notice; no specification uses it.                        *)
(***************************************************************************)
EXTENDS Placement, Openings

CONSTANTS
    Plans,             \* the tournaments planned, each with its placement and book
    MaxThreads,        \* bound: available_parallelism of the machine
    MaxPlayed,         \* bound: longer schedules are planned and not played
    MaxEngineFaults,   \* max_engine_faults
    KeepEngines,       \* engine_processes is per-slot
    MaxSessions        \* bound: invocations of the command

Design == [format : {"round-robin", "gauntlet"}, participants : Nat \ {0, 1},
           seeds : Nat, cycles : Nat \ {0}, games : Nat \ {0}]

\* What `validate` of the plan lets through.
ASSUME PlanAssumption ==
    \A p \in Plans :
        /\ p.design \in Design
        /\ p.design.format = "gauntlet" => p.design.seeds \in 1..(p.design.participants - 1)
        /\ IsRequest(p.request)
        /\ IsBook(p.book)
ASSUME SizeAssumption ==
    /\ MaxEngineFaults \in Nat /\ KeepEngines \in BOOLEAN
    /\ MaxSessions \in Nat /\ MaxPlayed \in Nat /\ MaxThreads \in Nat \ {0}

Color == {"white", "black"}
Nobody == -1

-----------------------------------------------------------------------------
(* The schedule. *)

\* Mutant: the rotation takes the first place along.
Rotated_All(a, m) == [i \in 0..(m - 1) |-> a[(i + m - 1) % m]]

\* Everything but the first place moves on by one, the last to the second.
Rotated(a, m) ==
    [i \in 0..(m - 1) |-> CASE i = 0 -> a[0]
                            [] i = 1 -> a[m - 1]
                            [] OTHER -> a[i - 1]]

\* The circle: the places of m players after r rotations.
Arrangement(m, r) ==
    LET arrangement[k \in 0..r] == IF k = 0 THEN [i \in 0..(m - 1) |-> i]
                                   ELSE Rotated(arrangement[k - 1], m)
    IN  arrangement[r]

\* The circle method over n players: with n odd, player n is the bye.
CircleRound(n, r) ==
    LET m == n + (n % 2)
        a == Arrangement(m, r)
        Met(i) == IF n \in {a[i - 1], a[m - i]} THEN << >> ELSE << <<a[i - 1], a[m - i]>> >>
    IN  FlattenSeq([i \in 1..(m \div 2) |-> Met(i)])

\* The encounters of each round, in the order they are played.
Rounds(d) ==
    LET circle == d.participants + (d.participants % 2) - 1
        opponents == d.participants - d.seeds
    IN  IF d.format = "round-robin"
        THEN [r \in 1..(d.cycles * circle) |-> CircleRound(d.participants, (r - 1) % circle)]
        ELSE [r \in 1..d.cycles |->
                 [k \in 1..(d.seeds * opponents) |->
                     <<(k - 1) \div opponents, d.seeds + ((k - 1) % opponents)>>]]

\* Each encounter is d.games games, White and Black in turn.
Pairings(d) ==
    LET rounds == Rounds(d)
        Games(r, pair) == [g \in 1..d.games |->
            [round |-> r, white |-> pair[2 - (g % 2)], black |-> pair[1 + (g % 2)]]]
        OfRound(r) == FlattenSeq([k \in DOMAIN rounds[r] |-> Games(r, rounds[r][k])])
    IN  FlattenSeq([r \in DOMAIN rounds |-> OfRound(r)])

\* PlanTournament: a game's number is its index.
Schedule(d) ==
    LET pairings == Pairings(d)
    IN  [i \in DOMAIN pairings |->
            [encounter |-> (i - 1) \div d.games + 1,
             gameInEncounter |-> ((i - 1) % d.games) + 1,
             round |-> pairings[i].round,
             white |-> pairings[i].white,
             black |-> pairings[i].black]]

-----------------------------------------------------------------------------
VARIABLES
    design, schedule,  \* TournamentPlan
    request, execution,    \* MatchExecutionPlan
    book,              \* OpeningBook
    journal,           \* the directory: the committed games
    published,         \* the directory: the newest report
    pc,                \* "down", "loop" or "ended"
    openings,          \* MatchOpenings
    games,             \* the games of this run, those of the journal among them
    pending,           \* the numbers not launched yet
    workers,           \* the live games
    infrastructure,    \* infrastructure_error
    cancelled,         \* cancelled
    keptFrom,          \* kept_from: whose engines each slot's last game left
    stored,            \* SlotEngines: the processes each slot keeps
    stage,             \* Cancellation
    sessions           \* bound: invocations so far

plan == <<design, schedule, request, execution, book>>
directory == <<journal, published>>
flags == <<infrastructure, cancelled>>
kept == <<keptFrom, stored>>
vars == <<plan, directory, pc, openings, games, pending, workers, flags, kept, stage, sessions>>

Numbers == DOMAIN schedule
Encounters == {schedule[n].encounter : n \in Numbers}
Side(number) == [white |-> schedule[number].white, black |-> schedule[number].black]
Slots == DOMAIN execution
\* The one-game match plays its engine A as White.
CoresOf(slot) == [white |-> execution[slot][1], black |-> execution[slot][2]]
NoOpenings == [ok |-> FALSE, entries |-> << >>, start |-> 0, reused |-> 0]
NoEngine == [of |-> Nobody, on |-> << >>]
NoSides == [c \in Color |-> Nobody]
NoEngines == [c \in Color |-> NoEngine]
Stopping == stage # "running"

-----------------------------------------------------------------------------
(* The engines of a slot. *)

\* Mutant: each side gets the engine that played its colour.
Assigned_ByColor(engines, from, side) == engines

\* assign_kept_engines: a side gets the engine its own participant left.  What
\* is left over goes to a side without one, where it does not fit and is quit.
Assigned(engines, from, side) ==
    LET Own(c) == {k \in Color : from[k] = side[c] /\ engines[k] # NoEngine}
    IN  [c \in Color |-> IF Own(c) = {} THEN NoEngine ELSE engines[CHOOSE k \in Own(c) : TRUE]]

\* KeptEngine::fits: the launch and the CPUs of the process are those of the
\* side.  A process that does not fit is quit and replaced.
Fits(engine, slot, side, c) == engine = [of |-> side[c], on |-> CoresOf(slot)[c]]
Reused(engines, slot, side) == {c \in Color : Fits(engines[c], slot, side, c)}

-----------------------------------------------------------------------------
(* What the tournament came to. *)

\* The one-game match plays its game 1 from the openings it is handed, and
\* scores everything but an infrastructure fault; the index is the book's.
Report(number, fault) ==
    [number |-> number,
     white |-> schedule[number].white,
     black |-> schedule[number].black,
     index |-> BookIndex(openings, schedule[number].encounter),
     opening |-> Assignment(SelectEncounter(openings, schedule[number].encounter), 1),
     scorable |-> fault # "infrastructure",
     fault |-> fault]

Faults(kind) == Cardinality({i \in DOMAIN games : games[i].fault = kind})

\* Mutant: only what this invocation saw counts.
Status_ThisInvocation ==
    IF infrastructure THEN "infrastructure-error"
    ELSE IF Faults("engine") > MaxEngineFaults THEN "invalid"
    ELSE IF cancelled \/ Stopping THEN "cancelled"
    ELSE "completed"

\* A stop makes a tournament cancelled though every game of it was played.
Status ==
    IF infrastructure \/ Faults("infrastructure") > 0 THEN "infrastructure-error"
    ELSE IF Faults("engine") > MaxEngineFaults THEN "invalid"
    ELSE IF cancelled \/ Stopping THEN "cancelled"
    ELSE "completed"

-----------------------------------------------------------------------------
(* The loop. *)

CanLaunch ==
    /\ ~infrastructure /\ ~Stopping
    /\ pending # {} /\ Cardinality(workers) < Len(execution)

Least(S) == CHOOSE n \in S : \A other \in S : n <= other
Free == Slots \ {w.slot : w \in workers}

Launch ==
    /\ pc = "loop" /\ CanLaunch
    /\ LET number == Least(pending)
           slot == Least(Free)
       IN  /\ workers' = workers \cup
                  {[number |-> number, slot |-> slot, phase |-> "launched",
                    previous |-> keptFrom[slot], reused |-> {}, fault |-> "none"]}
           /\ keptFrom' = [keptFrom EXCEPT ![slot] = Side(number)]
           /\ pending' = pending \ {number}
    /\ UNCHANGED <<plan, openings, directory, pc, games, flags, stored, stage, sessions>>

\* The game is committed before anything else is launched.
Join ==
    /\ pc = "loop" /\ ~CanLaunch
    /\ \E worker \in workers :
        LET report == Report(worker.number, worker.fault)
        IN  /\ worker.phase = "returned"
            /\ workers' = workers \ {worker}
            /\ infrastructure' = (infrastructure \/ worker.fault = "infrastructure")
            /\ journal' = Append(journal, report)
            /\ games' = Append(games, report)
    /\ UNCHANGED <<plan, openings, published, pc, pending, cancelled, kept, stage, sessions>>

\* The report, and the end of the process with its tasks and its engines.
Returns(status) ==
    /\ pc' = "ended"
    /\ published' = IF status = "none" THEN published
                    ELSE [status |-> status, games |-> games]
    /\ workers' = {}
    /\ stored' = [s \in Slots |-> NoEngines]

\* The task failed, or the observer could not write its game: no report.
JoinFails ==
    /\ pc = "loop" /\ ~CanLaunch /\ workers # {}
    /\ Returns("none")
    /\ UNCHANGED <<plan, openings, journal, games, pending, flags, keptFrom, stage, sessions>>

\* Mutant: with games pending the loop waits for one to be joined.
EndLoop_Waits ==
    /\ pc = "loop" /\ workers = {}
    /\ pending = {} \/ Stopping
    /\ Returns(Status)
    /\ UNCHANGED <<plan, openings, journal, games, pending, flags, keptFrom, stage, sessions>>

\* The loop's condition fails, or nothing is left to join.
EndLoop ==
    /\ pc = "loop" /\ ~CanLaunch /\ workers = {}
    /\ Returns(Status)
    /\ UNCHANGED <<plan, openings, journal, games, pending, flags, keptFrom, stage, sessions>>

\* A second interrupt: the live games are aborted.
Abandon ==
    /\ pc = "loop" /\ ~CanLaunch /\ workers # {} /\ stage = "abandon"
    /\ cancelled' = TRUE
    /\ Returns(Status)
    /\ UNCHANGED <<plan, openings, journal, games, pending, infrastructure, keptFrom, stage, sessions>>

-----------------------------------------------------------------------------
(* A worker. *)

\* The kept engines are handed to their participants.
TakeEngines ==
    \E worker \in workers :
        LET side == Side(worker.number)
            engines == Assigned(stored[worker.slot], worker.previous, side)
        IN  /\ worker.phase = "launched"
            /\ workers' = (workers \ {worker}) \cup
                   {[worker EXCEPT !.phase = "playing", !.reused = Reused(engines, worker.slot, side)]}
            /\ stored' = [stored EXCEPT ![worker.slot] = NoEngines]
            /\ UNCHANGED <<plan, openings, directory, pc, games, pending, flags, keptFrom, stage, sessions>>

\* The game ends.  An engine at fault does not stay, and an engine that does
\* not answer afterwards does not either.
EndGame ==
    \E worker \in workers, fault \in {"none", "engine", "infrastructure"},
       stay \in SUBSET Color :
        /\ worker.phase = "playing"
        /\ ~KeepEngines => stay = {}
        /\ fault = "engine" => stay # Color
        /\ workers' = (workers \ {worker}) \cup
               {[worker EXCEPT !.phase = "returned", !.fault = fault]}
        /\ stored' = [stored EXCEPT ![worker.slot] =
                         [c \in Color |-> IF c \in stay
                                            THEN [of |-> Side(worker.number)[c],
                                                  on |-> CoresOf(worker.slot)[c]]
                                            ELSE NoEngine]]
        /\ UNCHANGED <<plan, openings, directory, pc, games, pending, flags, keptFrom, stage, sessions>>

-----------------------------------------------------------------------------
(* The stop, and the command. *)

\* An interrupt; the end of the grace period counts as the second.
Interrupt ==
    /\ pc = "loop" /\ stage # "abandon"
    /\ stage' = IF stage = "running" THEN "stopping" ELSE "abandon"
    /\ UNCHANGED <<plan, openings, directory, pc, games, pending, workers, flags, kept, sessions>>

GraceExpires ==
    /\ pc = "loop" /\ stage = "stopping"
    /\ stage' = "abandon"
    /\ UNCHANGED <<plan, openings, directory, pc, games, pending, workers, flags, kept, sessions>>

Down ==
    /\ pc' = "down" /\ openings' = NoOpenings
    /\ games' = << >> /\ pending' = {} /\ workers' = {}
    /\ infrastructure' = FALSE /\ cancelled' = FALSE
    /\ keptFrom' = [s \in Slots |-> NoSides]
    /\ stored' = [s \in Slots |-> NoEngines]
    /\ stage' = "running"

Exit ==
    /\ pc = "ended"
    /\ Down
    /\ UNCHANGED <<plan, directory, sessions>>

Crash ==
    /\ pc # "down"
    /\ \E n \in Len(published.games)..Len(journal) : journal' = SubSeq(journal, 1, n)
    /\ Down
    /\ UNCHANGED <<plan, published, sessions>>

\* The book, the validation of the completed games, and the schedule less their
\* numbers.
Resume ==
    /\ pc = "down" /\ sessions < MaxSessions
    /\ execution # << >> /\ Len(schedule) <= MaxPlayed
    /\ \A i \in DOMAIN journal :
          /\ journal[i].number \in Numbers
          /\ journal[i].white = schedule[journal[i].number].white
          /\ journal[i].black = schedule[journal[i].number].black
          /\ \A k \in DOMAIN journal : journal[k].number = journal[i].number => k = i
    /\ \E threads \in 1..MaxThreads :
          openings' = ResolveOpenings(book, Cardinality(Encounters), threads)
    /\ openings'.ok
    /\ pc' = "loop"
    /\ sessions' = sessions + 1
    /\ games' = journal
    /\ pending' = Numbers \ {journal[i].number : i \in DOMAIN journal}
    /\ UNCHANGED <<plan, directory, workers, flags, kept, stage>>

-----------------------------------------------------------------------------
Init ==
    /\ \E p \in Plans : design = p.design /\ request = p.request /\ book = p.book
    /\ schedule = Schedule(design)
    /\ execution = Allocation(request).slots
    /\ journal = << >>
    /\ published = [status |-> "none", games |-> << >>]
    /\ pc = "down" /\ openings = NoOpenings
    /\ games = << >> /\ pending = {} /\ workers = {}
    /\ infrastructure = FALSE /\ cancelled = FALSE
    /\ keptFrom = [s \in Slots |-> NoSides]
    /\ stored = [s \in Slots |-> NoEngines]
    /\ stage = "running"
    /\ sessions = 0

LoopNext == Launch \/ Join \/ EndLoop \/ Abandon
WorkerNext == TakeEngines \/ EndGame

Next ==
    \/ LoopNext \/ JoinFails
    \/ WorkerNext
    \/ Interrupt \/ GraceExpires
    \/ Exit \/ Crash \/ Resume

Spec == Init /\ [][Next]_vars

\* The tasks are polled; that a game ends of itself is GameEnds of Game.
FairSpec == Spec /\ WF_vars(LoopNext) /\ WF_vars(WorkerNext)

-----------------------------------------------------------------------------
(* Properties. *)

\* Every two participants the format opposes meet in one encounter a cycle, and
\* no others meet; an encounter is d.games games in a row, numbered from 1, of
\* one round and with White and Black in turn; and nobody has two encounters in
\* one round of a round robin.  The plan never changes: it is looked at before
\* the first invocation.
ScheduleIsFair ==
    sessions = 0 =>
    LET Everyone == 0..(design.participants - 1)
        Seeded(a) == a < design.seeds
        Opposed(a, b) == a # b /\ (design.format = "gauntlet" => Seeded(a) # Seeded(b))
        Players(i) == {schedule[i].white, schedule[i].black}
        Encounter(e) == {i \in Numbers : schedule[i].encounter = e}
        Meetings(a, b) == {schedule[i].encounter : i \in {k \in Numbers : Players(k) = {a, b}}}
    IN  /\ \A a, b \in Everyone :
              Cardinality(Meetings(a, b)) = IF Opposed(a, b) THEN design.cycles ELSE 0
        /\ \A i \in Numbers :
              /\ schedule[i].gameInEncounter \in 1..design.games
              /\ Cardinality(Encounter(schedule[i].encounter)) = design.games
              /\ \A k \in Encounter(schedule[i].encounter) :
                    /\ schedule[k].round = schedule[i].round
                    /\ k - i = schedule[k].gameInEncounter - schedule[i].gameInEncounter
                    /\ IF (k - i) % 2 = 0
                       THEN schedule[k].white = schedule[i].white /\ schedule[k].black = schedule[i].black
                       ELSE schedule[k].white = schedule[i].black /\ schedule[k].black = schedule[i].white
        /\ design.format = "round-robin" =>
              \A i, k \in Numbers :
                  schedule[i].round = schedule[k].round /\ Players(i) \cap Players(k) # {}
                      => schedule[i].encounter = schedule[k].encounter

\* Over any number of invocations every game of the schedule is played once: it
\* is pending, or in flight in a slot of its own, or in the journal.
EveryGameOnce ==
    LET played == {journal[i].number : i \in DOMAIN journal}
        inFlight == {w.number : w \in workers}
    IN  /\ \A i, k \in DOMAIN journal : journal[i].number = journal[k].number => i = k
        /\ \A v, w \in workers : v # w => v.number # w.number /\ v.slot # w.slot
        /\ pc = "loop" => /\ Numbers = pending \cup inFlight \cup played
                          /\ pending \cap inFlight = {} /\ pending \cap played = {}
                          /\ inFlight \cap played = {}

\* The games in flight are pinned to CPUs of their own, whatever the order they
\* end in, and the slots of every placement are apart.
GamesAreApart ==
    /\ sessions = 0 => IsApart(request, execution, Allocation(request).lefts)
    /\ \A v, w \in workers :
          v # w => /\ v.slot # w.slot
                   /\ \A a \in ToSet(execution[v.slot]), b \in ToSet(execution[w.slot]) :
                         CpusOf(a) \cap CpusOf(b) = {}

\* The games of one encounter are played from one opening, whichever invocation
\* played them, and it is the one of the book whose index they report; the book
\* is read in full, and shared out among the encounters as evenly as it can be.
OpeningsAreFair ==
    LET EncounterOf(game) == schedule[game.number].encounter
    IN  /\ sessions = 0 =>
              /\ IsFaithful(book, 1..MaxThreads)
              /\ IsSharedOut(ResolveOpenings(book, Cardinality(Encounters), 1), Encounters, book.wrap)
        /\ \A i, k \in DOMAIN journal :
              EncounterOf(journal[i]) = EncounterOf(journal[k]) =>
                  /\ journal[i].opening = journal[k].opening
                  /\ journal[i].index = journal[k].index
        /\ openings.entries # << >> =>
              \A i \in DOMAIN games : games[i].opening = openings.entries[games[i].index + 1]

\* A slot's engines serve their own participants: a game that starts takes over
\* every process its slot kept of its two sides, whichever colour they had,
\* unless that colour's cores are not this one's; and none of another
\* participant.
KeptEnginesServe ==
    [][\A old \in workers, new \in workers' :
          old.number = new.number /\ old.phase = "launched" /\ new.phase = "playing" =>
              new.reused = {c \in Color :
                  \E k \in Color : /\ stored[new.slot][k].of = Side(new.number)[c]
                                   /\ CoresOf(new.slot)[k] = CoresOf(new.slot)[c]}]_vars

\* A report says completed only of a tournament whose every game was played and
\* scored within the allowance, and once the harness failed a game, or the
\* engines failed too many, no later report says otherwise.
VerdictIsRight ==
    [][/\ published' # published /\ published'.status = "completed" =>
              /\ {published'.games[i].number : i \in DOMAIN published'.games} = Numbers
              /\ \A i \in DOMAIN published'.games : published'.games[i].scorable
              /\ Faults("engine") <= MaxEngineFaults
       /\ published.status = "invalid" =>
              published'.status \in {"invalid", "infrastructure-error"}
       /\ published.status = "infrastructure-error" =>
              published'.status = "infrastructure-error"]_vars

\* A tournament comes to its end, stopped or not, with an infrastructure fault
\* that leaves games pending and without one.
TournamentEnds == pc = "loop" ~> pc # "loop"

=============================================================================
