# Formal models of Colosseum

Colosseum plays UCI chess engines against each other: as a desktop application
that runs tournaments (`colosseum-gui`, `colosseum-engine`) and as a command line
that runs matches, sequential tests (SPRT), parameter tunes (SPSA), tournaments
and test suites (`colosseum-cli`, `colosseum-application`).  Runs last hours or
days, so what has to be right is what happens *between* moves and *between* games:
engines that lag or die, stops, crashes, power losses, resumes, games that end in
any order, writes that fail half-way.

This directory models that in TLA+, checks it with TLC on small instances and
proves the central results with TLAPS for every size.

```
tlc   -workers 2 -config MCScheduler.cfg MCScheduler.tla    # one run
tlapm SchedulerProofs.tla                                   # one proof module
```

`PROJECT.json` lists components, runs, mutants, findings, hazards and theorems,
and maps every definition to the source lines it stands for.

## 1. The system

### 1.1 Components

| Component | State it keeps | Operations | Modelled by |
|---|---|---|---|
| GUI tournament driver (`engine/scheduler.rs`) and its database (`engine/store.rs`) | launch queue `pending`, `in_flight`, a `JoinSet` of game tasks, flags `running`/`finished`, standings, the published `Snapshot`; rows of `games` and `tournaments`; the PGN file | create, `Go`, `Stop`, `ForceStop`, `SetConcurrency`, game ends, `resume_tournament`, delete | `Scheduler`, `GameLedger` |
| Game runner (`engine/runner.rs`, `core/adjudication.rs`) | clocks, plies, scores, a ponder per side, kept engines | setup, turn, search, ponder, adjudicate, finish or keep an engine | `Game`, `Adjudication` |
| UCI process (`uci/process.rs`) | a reader thread, a line channel, an early or late bestmove | `go`, `ponderhit`, `stop`, `isready`, the late window, `quit`, kill | `EngineProcess` |
| Placement (`engine/placement.rs`) | none | CPU pool of a policy, disjoint slots | `Placement` |
| Fixed match (`cli/match_runner.rs`, `match_command.rs`) | games, workers, slots, each slot's engines, fault counts | launch, join, abort, stop, report, resume | `FixedMatch` |
| Sequential test (`cli/sprt_runner.rs`, `application/pair_commit.rs`, `cli/cancellation.rs`, `SlotPool` in `cli/match_runner.rs`) | next pair, live workers, slots, commit queue, accumulator, stop state | launch, join, release in order, admit, stop, abandon, report, resume | `PairSchedule` |
| SPRT command (`cli/composition/sprt.rs`) | official pairs, checkpoint cadence, report | `commit_pair`, `settle`, resume | client of `DurableRun`; `Commit` and `CanResume` of `PairSchedule` |
| SPSA (`cli/spsa_driver.rs`, `application/spsa.rs`, `cli/composition/spsa.rs`) | centres, fault count, the mini-match being assembled | mini-match, invalidate, commit, staged stop, replay and resume | `Tune` |
| CLI tournament (`cli/tournament_driver.rs`, `core/pairing.rs`) | schedule, games, kept engines | schedule, run, verdict, resume | `Tournament` |
| Openings (`engine/openings.rs`, `core/rng.rs`, `MatchOpenings` in `cli/match_runner.rs`) | the list of a run | parse, audit, shuffle, share out, select | `Openings` |
| Suite (`cli/suite_driver.rs`, `application` use case, `cli/run_record.rs`) | results so far, the run record | open, identify, search, commit, report, finish, resume | `Suite` |
| Run writer (`cli/run_writer.rs`) | bounded channel, `dirty`, `unsynced_games`, first failure, the journal position | `append_game`, `log_line`, `write_checkpoint`, `replace`, `barrier`, sync by count, time or barrier | `DurableRun`, `DurableLog` |
| Journal (`cli/journal.rs`, `composition/durable.rs`) | `games.jsonl`, `games.pgn`, the anchor in the checkpoint | verify, repair, rebuild pairs and iterations | `DurableRun`, `Tune` |
| Checkpoint generations (`cli/run_directory.rs`) | `current`, `previous` and a temporary | `write_checkpoint`, `read_checkpoint_snapshot` by a resume or a live status reader | `CheckpointFiles` |
| GUI | library of engines, edit buffers, drawing | commands, rendering, close guard, delete | as the source of `Scheduler`'s commands, the owner of its handle and the reader of its snapshot |
| NPS and calibration, statistics, ratings, PGN output, arguments, reports, build tools | none that lasts | - | not modelled (section 6) |

### 1.2 How they interact

*A game.*  `play` of the runner readies two engine processes, on the CPUs its slot
was given, and calls them in turn.  Each call (`Search`, `Ponderhit`, ... of
`EngineProcess`) talks to a process through a writer thread and a reader thread;
`Game` uses what `EngineProcess` shows of them: a call returns, with the answer to
its own `go` or with an error.  What a game comes to is a report that names
colours; the four schedulers above it (`Scheduler`, `PairSchedule`,
`FixedMatch`, `Tune`, with `Tournament` over one-game matches) start games as tasks
and use `GameEnds` of `Game`.

*GUI side.*  The GUI sends commands over an unbounded channel and renders from
a snapshot behind a mutex.  The driver task owns the queue; every game is a task
of its own whose report comes back through the `JoinSet`.  Each change is written
to SQLite row by row, and the result of the write is ignored.  When the
application is started again, `resume_tournament` rebuilds a driver from the rows.

*CLI side.*  A schedule's task launches pairs or games on CPU slots, puts what they
return back in order where order matters, and calls an observer.  The observer
sends `Game` commands, and now and then a `Checkpoint`, to the writer thread
over a channel of 256 commands.  The writer alone touches the files.  At the end a
checkpoint, the report and a barrier go the same way, and the command succeeds
only if the barrier says so.  The next invocation reads the newest checkpoint,
verifies the journal against its anchor, cuts both files to what they agree on,
and continues from the games in it.  The suite has no writer: it commits each
position by a checkpoint rotation of its own.

### 1.3 What is hard

`PROJECT.json` has the full list, each hazard at its line.  In short:

- **Order.**  Any command may follow any other, in any state, with game tasks
  ended but not joined yet.  Pairs end in any order, but the sample must be
  the same as if they had ended in the order of the schedule.
- **Races with an engine.**  `bestmove` does not say which `go` it answers, is read
  some time after it came, and may cross a `stop` or a `ponderhit`.
- **Identity.**  Engines change colours from game to game, kept processes change
  participants, reports name colours, and fault limits count engines.
- **Crashes.**  Between any two writes, in the middle of one, between the two
  truncations of a repair, between the two renames of a rotation; and the host
  as well as the process, which brings back what was not synced.
- **Partial failure.**  A task that panics, an engine that cannot be started, a
  worker that fails, a write that returns an error although it reached the disk.
- **Stale state.**  The snapshot published at half a dozen places; the rows a
  resume reads before it resets them; a writer that starts "clean" over a tail
  that is not on disk; a verdict of an earlier invocation.
- **Liveness.**  A bounded queue whose consumer has failed, a drain whose end is
  decided by an empty `JoinSet`, an engine that goes silent, a game that hangs
  while the user wants to stop.

## 2. Modules

| Module | What it is |
|---|---|
| `EngineProcess` | one engine process, its reader thread and the calls of a game |
| `Adjudication` | resignation, draw and length rules, as functions of the scores |
| `Game` | the games of one slot, over two engine processes |
| `GameLedger` | abstract: what a tournament promises of each game |
| `Scheduler` | the GUI driver, its database, crash and resume, and the delete of its tournament; implements `GameLedger` |
| `DurableLog` | abstract: what a run directory promises of the games written to it |
| `DurableRun` | client, channel, writer thread, files, power loss, verify and repair; implements `DurableLog` |
| `CheckpointFiles` | the file operations behind `DurableRun`'s one-step checkpoint |
| `Suite` | the suite command over `CheckpointFiles`; every step of it is a step of that module or none |
| `PairSchedule` | the schedule of a sequential test, its stop and its resume |
| `FixedMatch` | a fixed match, its slots and engines, its stop and its resume |
| `Tune` | a tune, its mini-matches, its journal and its replay |
| `Order` | numbers in increasing order, and what a list has at them: what a filter or a sort comes to |
| `Placement` | which CPUs a game slot gets, as functions of the reported host |
| `Openings` | from a book file to the opening of each game, as functions |
| `Tournament` | schedule, run and resume of a tournament of the command line, over `Placement` and `Openings` |
| `XProofs` | the theorems of module `X`, for `Scheduler`, `DurableRun`, `PairSchedule`, `Game`, `FixedMatch`, `Tune`, `Tournament` and `Suite`; those of `EngineProcess`, whose calls `Game` takes as steps, are in `GameProofs`, and those of `CheckpointFiles`, which `Suite` extends, in `SuiteProofs` |
| `MCxxx` | instances for TLC; each extends its module and at most names values for its constants |

The modules abstract one another.  `Game` takes a call on a process as one
step: that it returns, and with its own answer, is what `EngineProcess` shows
(`CallsReturn`, `OwnAnswer`, `JudgedByArrival`).  The schedules take a game as one
step that ends: `GameEnds` of `Game`.  They lose a *tail* of their journal in a
crash: that this is all a crash does, and that a published report keeps its games,
is what `DurableRun` shows (`ImplementsLog`, `AlwaysResumable`, `ResultBacked`).
`DurableRun` replaces a checkpoint in one step: that an acknowledged one survives
the steps it really takes is what `CheckpointFiles` shows.  `Suite` composes with
`CheckpointFiles` directly, file operation by file operation.

**Naming.**  An operator named `X_Y` is the definition `X` with a plausible mistake
in it.  It is part of no specification.  Substituted for `X`, it must make TLC
refute the property `PROJECT.json` lists with it, which shows that the property
depends on what the code does.

### 2.1 Scheduler

A game is its position in the schedule.  The variables are in three groups: what
survives the process (`row`, `dbStatus`, `dbConcurrency`, `exported`), what the
driver holds, and the snapshot.  `pc` says where the loop of `drive` stands:

| `pc` | place in `drive` |
|---|---|
| `top` | head of the loop |
| `launched` | launch loop, after at least one launch; the snapshot lags |
| `select` | `tokio::select!` over the command channel and `join_next` |
| `record` | a report's row is written, the rest of the arm is not |
| `down` | no process |

A step ends where the database, the file or the snapshot changes or the loop
waits, so a crash falls between any two of these.  `LaunchGame`, `Settle` and
`FinishTournament` are the part before the `select!`; `Go`, `Stop`, `ForceStop`
and `SetConcurrency` are its command arm; `RecordReport` with `PublishReport`,
and `PanicLogged`, are its join arm.  `TaskEnds` is a game task that ends on
another thread, seen by the driver only when it joins.  `Resume` is
`resume_tournament` with what `drive` does up to its loop.

To delete a tournament the GUI force-stops it, drops its handle (`Unload`) and deletes
the rows (`DeleteRows`, or `DeleteFails`), without waiting for the driver: it may be
in the middle of a launch or a report, whose updates then change nothing
(`Persist` once `Deleted`), and ends when it finds the channel closed
(`HandleDropped`).  `handle` is the GUI's side of this.

Abstracted: `launched` and `in_flight` hold the same games and are one variable;
a result is only "scored" or "aborted" (`Termination::Aborted`); ratings, pair
statistics, live boards and error texts are left out.  A write that may be lost
(`StoreMayFail`) leaves the old value.  `resume_tournament` itself propagates its
errors, so its writes are not lost.  A force-stopped driver whose delete failed is
taken to have ended before the user loads the tournament again.

### 2.2 DurableRun

A file is a sequence of entries and an offset is a number of them.  An entry whose
write did not come to its end is `Torn` and fails every checksum.  A journal line
carries its sequence number, its game and where its moves are; the anchor of a
checkpoint is the lines it covers and an offset into `games.pgn`.

`wpc` is where the writer thread stands in a command: `moves`, `line` (the two
appends of `append_game`), `sync`, `syncPgn`, `checkpoint`, `result`.  Every file
operation is its own action, so kills, power losses and errors come between any
two, and `TornWrite` leaves half of one behind.

- `Kill` loses the process: the page cache survives.
- `PowerLoss` keeps of each file what was synced and any longer prefix, its
  last entry possibly torn; independently for the two files; and it may take back
  the `result.json` that was renamed in without a directory sync.
- `WriteFails` covers both that nothing and that all of the operation reached
  the disk.
- `RepairInterrupted` is a process that ends between the two truncations of a load.

Left out: `run.log` and the run record, from which nothing else is derived.  The
one log line that matters is the one a resume announces itself with, since it sets
`dirty`; the others would only make the writer sync more often.  The report of an
earlier session, should a power loss bring it back, counts as none: it rests on
fewer games.  The sync interval may have passed at any moment.  A read-only load,
as `stats` does it, is not modelled.  Games of pairs behind a verdict are appended
the same way as official ones and add no case here.

### 2.3 CheckpointFiles

`listing` is the directory as the process sees it.  `unsynced` holds every
listing since the directory was last synced; a power loss brings back any one of
them, and a file that was not synced comes back `Damaged`.  This is the contract
of a file system whose directory operations are ordered; one that persists the
renames of a directory out of order is not covered.

### 2.4 PairSchedule

What a pair came to is `win`, `loss`, `forfeit` or `unscorable`.  The test
statistic is floating point; a walk with steps of one between two boundaries
stands for it.  What the properties rely on is only that the decision is a
function of the official sample, in order.  A draw, which would leave the walk
where it is, adds no behaviour to the schedule's control and is left out.

`stage` is the stop state of `Cancellation`: the first interrupt, or a spent unit
budget, asks for a stop, a second interrupt or the end of the grace period
abandons the live games.  `Crash` loses a tail of the journal.  `CanResume` holds
the two refusals of the next invocation.

### 2.5 EngineProcess

Three parties move.  The engine (external) writes a line (`EngineMoves`,
`EngineReady`, `EngineNoise`) or exits; it answers each search at most once and in
its own time.  The reader thread stamps a line and then, in another step, sends it
(`ReaderSends`), or sends `Eof` and ends.  The game task begins a call (`Calls`),
takes lines off the channel against the call's deadline (`Reads`), and is told the
time by `Tick`; how late it looks is open.  `op` is the call in hand and `verdict`
what the last one returned; `early` and `lateLine` are `ponder_early` and
`late_line`.  `Until` is the deadline of a call, or the late window.  `DrainPonder`
and `DropDrain` are the `drain_ponder` future and its cancellation: the ponder's
answer may be taken before the opponent moves, and the future dropped at any line.

Left out: the handshake and the option values; what an info line says; the
writer thread, because commands and answers are each first-in first-out (see the
module's head); `session.rs`, which is the GUI's engine check.

### 2.6 Game and Adjudication

`pc` is the place in `play`: `setup` (a kept engine is refreshed, quit because it
does not fit, or a process is started, for each side), `turn` (adjudication, the
ply limit, the stop or ponderhit of a ponder), `search`, `arm` (the ponder after a
move), `over` (`finish_engine` for each side) and `between`.  Budgets, margins and
charges are ticks; `Accepts` is the comparison of a move's time with them.  The chess
is left out: a move is legal or not, ends the game or not, and is the predicted
reply or not.  `wrong` is for the properties: the sides that did something an
engine must not do.

`Adjudicate` is `adjudicate` of `adjudication.rs`, over the scores so far from
White's point of view.  `by` of an entry says whose score it is; the code does not
have it and no operator reads it.

### 2.7 FixedMatch

A worker is launched, takes its slot's engines (`TakeEngines`), plays and puts them
back (`EndGame`, `PutBack`), and is joined in any order (`Join`).  `truth` of a game is
which *engine* it was about; the program only has colours and `White`, so
`CreditIsRight` compares what it makes of the colours with the truth.  `Resume` plays the
numbers the journal lacks, `Loaded` being every line, the unscorable ones included.
Left out: openings, telemetry, the estimate of the rating difference.

### 2.8 Tune

The centres after an iteration are a function of the fixed schedule and of the
scores up to it, so the sequence of scores stands for the centre vector: gains and
perturbations are floating point and a pseudo-random generator.  `halves`,
`pending`, `nextPair` and `pairs` are the assembly of a mini-match's games into
pairs in order: `Released` lets go of every pair up to the first that is missing,
as `PairCommitQueue` does.  `Commit` and `Invalidate` journal an iteration, `Crash` cuts the
journal (inside an iteration only with `CutAnywhere`), `Replayed` is
`replay_iterations` over what is left, `CanResume` the refusals.

### 2.9 Placement, Openings and Tournament

`Placement` is functions only: `PlanCpuPlacement` (the policies auto, explicit and
off) and `Allocation` (shared cores, or cores for each engine apart or symmetric)
from the host's cores, each with its CPUs and its class, node and cache.  Selecting and
sorting cores is written by the numbers that order them (`InOrder`): the k-th is the
one with k - 1 below it, which a proof can use where a fold cannot.
`Tournament` builds the schedule of a design, allocates its slots and runs it:
each game is a one-game match whose kept engines are handed to the participants
they belong to (`Assigned`, `Fits`).  `Status` is the verdict, taken from all games and
from the flags of this invocation, as the code does.

`Openings` is functions only too.  An EPD file is a sequence of characters, of which
only a line's first and its end count, so that `ParseEpd` can cut it anywhere, as the
program does to read it on several threads; a PGN file is a sequence of lines.
`Shuffled` draws from given words, of which `WordValues` are possible (2^64 in the
program), and `Accepted` says which of them a draw may take.  `IsBook` takes it that a
book has no more openings than there are words and that the generator gives its
last word some time, without which the program would draw for ever.  What a parse keeps
of a file is written by `Order` as well.  `ResolveOpenings` refuses a book that is too
short; `SelectEncounter` hands a one-game match its opening.  Every invocation of `Tournament` reads the book
again, on a machine with any number of threads up to `MaxThreads`, since a resume may run
elsewhere.  The file itself is taken to stay what it was: the run's identity covers
its path and how many openings it has, not what is in it.

### 2.10 Suite

`phase` follows the driver: the directory is made, identified (`config.sha256`),
the record begun; the results are loaded; entries are searched and committed one
by one, each commit the whole rotation of `CheckpointFiles`; then the report and the
record.  `Aborts` is `Drop for RunRecorder`.  `snapshots` holds every state of the
directory's *names* since its last sync, the checkpoint's and the two papers'
together: a power loss brings back the directory of one moment.  Malformed lines
are committed without a search.

## 3. What is checked

### 3.1 Runs that pass

| Run | Instance | States | What it shows |
|---|---|---|---|
| `MCScheduler` | 3 games, limit 2, 3 commands per driver, 2 drivers, panics, deletes, fairness | 227,226 | the driver's history, snapshot and close guard; `ImplementsLedger`; it ends and drains |
| `MCDurableRun` | 2 pairs, window 2, channel 2, 2 sessions, power loss, failing writes, fairness | 28,601 | the safety of a run directory; `ImplementsLog`; `RunEnds` |
| `MCSuite` | 2 entries, 3 checkpoints, power loss, failing writes, a status reader | 142,659 | no checkpoint and no search lost; the record is whole |
| `MCPairSchedule` | 4 pairs, 3 slots, boundary 2, 1 fault allowed, budget 3, 2 sessions, fairness | 48,374 | sample, status, resume and stop of a sequential test |
| `MCEngineProcess` | deadline 2, window 1, 3 searches, 1 noise line, fairness | 166,830 | whose answer, judged by when; calls return |
| `MCGame` | 2 games, 3 plies, clock or fixed control, margin 1, both-sided rules, fairness | 411,992 | no forgotten search, no left-over process, blame, an end |
| `MCFixedMatch` | 3 games, 2 slots, 1 engine fault and no time loss allowed, 2 sessions | 415,815 | slots, credit, reports that are right and stand |
| `MCTune` | 2 iterations of 2 pairs, 2 slots, 2 sessions, whole-iteration crashes | 677,036 | whole mini-matches, centres, invalidity |
| `MCTournament` | 49 designs, 1944 hosts and requests, 686 book files; tournaments of 3 games on 2 slots, 2 sessions, fairness | 270,928 | schedule, CPUs, openings, kept engines, verdict, an end |

**Driver.**  `ImplementsLedger` says that Force-Stops, crashes and resumes leave
every undecided game queued exactly once, no played game without its result, and
none exported twice, and that nothing a driver still writes brings a deleted
tournament back.  `HistoryAgrees` ties the live standings to what a history view
computes from the rows; the resume reads rows *before* it resets them, and an
aborted row carries a placeholder draw, so this is where a phantom result would come
from.  `BusyWhilePlaying` is what the close guard relies on; `SnapshotFresh` says
that no path through the loop forgets to publish.  `FinishedIsComplete`,
`PlayEnds` and `StopDrains` are about the end: it comes, with nothing left to play,
although panicked games never leave `in_flight`, and the driver of a deleted
tournament ends too.

**Run directory.**  `AlwaysResumable`: after whatever crash, the next invocation
accepts the directory.  `LinesHaveMoves`: a journal line never points at moves
that are missing.  `ResultBacked` and `SettledIsDurable`: a report, and a success of
the command, rest on games that are on disk.  `ImplementsLog` sums up: a log that
only grows, of which a crash takes an unsynced tail.  `RunEnds`: no full channel,
failed writer or barrier leaves the command waiting.

**Suite and checkpoints.**  `AcknowledgedStays`: no crash takes back a checkpoint
whose write returned.  `ReadsAreFresh`: the status reader, which opens the two
files one after the other, reads no older generation than the one acknowledged
when it began.  `SearchedOnce`: a committed position, which may have cost ten
minutes, is never searched again.  `CompletedIsWhole`: three files are replaced one
after another and only one of them with a sync of the directory; whatever a power
loss leaves, a record that says completed stands beside a whole report and a whole
checkpoint.  (With three entries and four checkpoints, without malformed
lines: 1.0 million states, the same result.)

**Sequential test.**  `SampleEndsAtBoundary` compares the incremental accumulator,
through crashes and resumes, with a decision counted afresh over the sample, which
is the same whatever order the pairs end in.  `StatusIsRight` and `StopEnds` are about
how a schedule ends, `ResumesUnlessTerminal` about the invocation after it.

**Engine process.**  `OwnAnswer`: a search never takes the answer to another `go`,
though an aborted ponder answers one too, early or late, and the drain of one may be
dropped at any line.  `JudgedByArrival`: a search is lost on time only if no
answer stamped in time waits in the channel, however late the task looks.
`CallsReturn`: silent, flooding or exiting engines hold no call up.

**Game.**  `NoSearchForgotten`: the runner's note of a ponder and the engine's state
agree at every place of a game, and a kept engine owes nothing.  `OnlyFitEnginesStay`:
after a report only the kept processes are left, none blamed.  `BlameIsEarned`: a
loser by fault or time did what it is blamed for; an infrastructure failure
blames no one.  `GameEnds`.

**Fixed match.**  `SlotToItself`: games in flight share neither a slot nor an engine,
and an engine comes back to its own side of its own slot though it changes colours.
`CreditIsRight`: wins, faults and time losses go to the engine that had them.
`VerdictStands` is about a stop that races the last join, an allowance that is spent,
and the invocation after either: each report is what its games say, and no later
one makes good what it said.

**Tune.**  `MiniMatchIsWhole`: what is scored is every game of an iteration once,
paired in order.  `CentresAreJournalled`: the tune stands on what its journal
gives back.  `InvalidStands`: no later invocation builds on a void iteration, a
crash between the journal and the report included.

**Tournament.**  `ScheduleIsFair` compares the circle method and the gauntlet with
what a schedule must be.  `GamesAreApart`: no two games in flight share a CPU, and
no two slots of any placement do.  `KeptEnginesServe`: a game takes over exactly
the processes of its own participants that are on its colours' cores.
`OpeningsAreFair`: however many threads read a book, in whichever invocation, it gives
the same openings in the same order, all that the audit calls usable; they are shared
out evenly among the encounters, and the games of one encounter have one opening.
`VerdictIsRight` and `TournamentEnds` are about the verdict over several invocations and
the end.

### 3.2 Runs that find a violation

| Run | What the code does |
|---|---|
| `MCHalfPair` | `pairs_from_journal` (`durable.rs:272`) says a half pair is dropped and played again "and because pairs are journalled in pair order nothing after it can exist".  The half's line is kept by the repair, though.  The resume plays both games again behind it, and after another kill the replay pairs game 1 of the first session with game 1 of the second: the official sample holds a pair of one colour. |
| `MCTuneReplay` | The same in a tune: a crash inside an iteration's lines leaves some of them, the iteration is played and journalled again behind them, and the next resume finds too many pairs (or two first games) in it.  It drops the iteration and every one after it, published ones included.  `spsa.md:339`: "a resume rebuilds the completed iterations from it". |
| `MCOneSidedResign` | One-sided resignation takes even plies as White's reports (`adjudication.rs:91`).  In a game whose opening has Black to move they are Black's, so Black's own reports of a won position resign the game for White.  `command-reference.md:238`: "Use only the losing engine's evaluations". |

So that these do not hide everything behind them, `MCTune` crashes only between
iterations and `MCGame` asks only for two-sided rules.

### 3.3 Bounds, and why they are enough

- **Games, pairs.**  Three games with a limit of two give a game in flight, one
  that ended unjoined and one queued, and every order of two flights ending.  Four
  pairs on three slots give a sample that crosses its boundary while two later
  pairs are live, and a pair waiting in the commit queue for two earlier ones.
  Two iterations of two pairs give an iteration behind a journalled one, and every
  interleaving of the halves of two pairs.
- **Commands** are bounded per driver; three reach every command after every
  other in every state of a drain.
- **Sessions and loads.**  Two: a resume that itself crashes finds nothing a
  second would not.  `MCHalfPair` needs three: a resume of a resumed run.
- **Window and channel** of two: one game in the window and one in the
  channel behind it, a full window, and a full channel.
- **Checkpoints.**  Three: the first with nothing to rotate, the second with
  no previous, the third with both.
- **Time.**  A deadline of two ticks has a moment before, at and after it; every
  clock of `EngineProcess` stops one tick past the last deadline.  In `Game` a
  budget, a margin and an increment of one tick give a move within its budget, one
  within the margin only, one exactly at the limit, and one past it.
- **Searches and plies.**  Three `go`s: a ponder, the search after it, and the one
  after that.  Three plies: both engines ponder, and the first to move moves
  again.  Two games: one that keeps engines and one that finds them.
- **Allowances.**  One engine fault and no time loss: within, at and over an
  allowance, and the two counted apart.
- **Schedules** with up to six participants have byes and none, one and several
  cycles, odd and even numbers of games.  **Hosts** of five cores in every mix of
  three locations have symmetric and lopsided ones, with a core over.  **Books** are
  every text of up to four characters or lines, blank, broken and commented ones
  included, and longer ones of each format; four threads cut the short ones at every
  place, and six words of eight have draws that are rejected.
- `CHECK_DEADLOCK FALSE` everywhere: tournaments finish, sessions run out.

### 3.4 Fairness

- `Scheduler`: `WF(Drive)`, since the driver task is polled by the runtime while
  it can go on; `WF(TaskEnds(g))`, which is `GameEnds`.  Nothing is assumed of
  the user: commands may or may not come.
- `DurableRun`: `WF` of the client's task and of the writer's blocking thread.
- `PairSchedule`: `WF(ScheduleNext)` and `WF(GraceExpires)` (a tokio timer).
  `Join` is *not* fair: `StopEnds` holds although no game ever ends.
- `EngineProcess`: `WF(Tick)` (time passes), `WF(Reads)` (the runtime polls the game
  task), `WF(Reader)` (the thread runs).  The engine owes nothing.
- `Game`: `WF(Task)`, which `CallsReturn` justifies: a call fails if it is not
  answered.  `Answers` and `SpeaksNonsense`, the engine's steps, are not fair.
- `Tournament`: `WF(LoopNext)` and `WF(WorkerNext)`, by `GameEnds`.

## 4. What is proved

TLAPS checks these for every value of the constants; the runs of section 3 check
on instances those that a run names.

| Theorem | Statement | Assumes |
|---|---|---|
| `TypeCorrect`, `QueueOrderTheorem`, `WaitingIsOpenTheorem`, `NothingLostTheorem`, `PlayedStaysTheorem` | types; the queue in schedule order; no waiting game has a result; no game lost; a played game stays (`Scheduler`) | - |
| `BusyTheorem`, `SnapshotFreshTheorem` | the close guard and the snapshot (`Scheduler`) | - |
| `ExportedOnceTheorem`, `LedgerTheorem`, `HistoryTheorem`, `FinishedTheorem` | a game is exported once; `Spec => ImplementsLedger`; standings and rows agree; Finished is complete | `~StoreMayFail` |
| `DurableRunInvariant` | the inductive invariant of `DurableRun` | - |
| `DirectoryStaysResumable`, `MovesComeFirst`, `SettleMeansDurable`, `ReportsAreBacked` | `AlwaysResumable`, `LinesHaveMoves`, `SettledIsDurable`, `ResultBacked` of `DurableRun` | - |
| `DirectoryIsALog` | `Spec => ImplementsLog` (`DurableRun`) | - |
| `EveryPairOnceTheorem`, `SlotsExclusiveTheorem`, `NoLaunchAfterStopTheorem`, `StatusIsRightTheorem`, `SampleEndsAtBoundaryTheorem`, `ResumesUnlessTerminalTheorem` | of `PairSchedule` | - |
| `AcknowledgedStaysTheorem` | of `CheckpointFiles` | `SyncsDirectory` |
| `ReadsAreFreshTheorem` | of `CheckpointFiles`: a live reader | - |
| `QuietTheorem`, `OwnAnswerTheorem`, `JudgedByArrivalTheorem` | of `EngineProcess` | - |
| `GameTypeTheorem`, `NoSearchForgottenTheorem`, `OnlyFitEnginesStayTheorem`, `BlameIsEarnedTheorem` | of `Game` | - |
| `MatchTypeTheorem`, `EveryGameOnceTheorem`, `SlotToItselfTheorem`, `StatusIsRightTheorem`, `VerdictStandsTheorem`, `CreditIsRightTheorem` | of `FixedMatch` | - |
| `MiniMatchIsWholeTheorem`, `InvalidStandsTheorem` | of `Tune` | - |
| `CentresAreJournalledTheorem`, `ReplayIsFaithfulTheorem` | of `Tune` | `CutAnywhere = FALSE` |
| `TournamentInvariant`, `EveryGameOnceTheorem`, `KeptEnginesServeTheorem`, `VerdictIsRightTheorem`, `GamesAreApartTheorem`, `ScheduleIsFairTheorem`, `OpeningsAreFairTheorem` | of `Tournament` | - |
| `SuiteWritesCheckpoints` | a behaviour of `Suite` is one of `CheckpointFiles`, so that module's theorem holds of it | - |
| `SearchedOnceTheorem`, `SuiteTypeTheorem`, `CompletedIsWholeTheorem` | of `Suite` | `SyncsDirectory` |

The assumptions on the constants are those the modules name (`SizeAssumption`,
`DeadlineAssumption`, ...); TLC evaluates them on every run.

**Scheduler.**  `QueueInv` joins the type invariant, the order of
`Waiting == inFlight \o pending`, that no game of it is decided, the count of
games, and that a dead driver holds nothing.  None of these is inductive alone: a
Force-Stop keeps the order only because it moves `inFlight`, in order, in front
of `pending`; a report keeps the count only because exactly one flight goes; a
resume re-establishes all of it from the rows, where the order is that of
`list_games` and the count that of the rows it does not queue.  Two lemmas about
sequences carry the steps: launching a game leaves `Waiting` as it is, and taking
a flight back removes one element of it.  `LedgerInv` adds `ExportedOnce` and
`RecordMatches`, which relates the report in the driver's hand to the row
it has just written; it is what makes `PublishReport` an `Export` of the ledger.
The assumption is needed: a lost row loses that relation.  A delete takes the rows
away, and with them the reason why a waiting game is not exported yet; so
`WaitingIsUnexported` says it without them, and `GoneTogether` that the rows go
together and stay gone.  `ShownInv` is about the snapshot: it is fresh at the head of
the loop, not only where the loop waits, *or* a panic has left a flight without a
task, and such a flight stays until the driver ends or is force-stopped.
`HistoryInv` adds that a game without a result waits (`Accounted`); the resume
restores it because the queue it builds, in order and as long as the set of open
games, has them all (`OrderHasAll`, by cardinality).

**DurableRun.**  `DurableInv` has three parts, none of which is inductive without the
others.  `DirectoryInv` is what is true of the files at any moment, so also of
what a power loss leaves: only the last line may be torn, every line carries its own
number and points behind the one before it, and what the newest checkpoint
covers is synced, lines and moves.  A cut keeps all of it, because it takes a tail and
never one that a checkpoint covers.  That the *games* of such a journal are a
resumable schedule is arithmetic of its own: `SchedulePairs` shows, by well-founded
induction, that games which each carry the number their session expects next are pairs
in order, with a half game only where a session broke off.  `WriterInv` says where the
writer stands in a command: at the end of both files, with the moves of a line
written before the line, and with nothing unsynced unless it is `dirty` or will be by the
line in `run.log`.  `ClientInv` follows the games: behind the game the writer is at, the
queue holds every game sent, each once and in order (`Stream`), so a game the run
counts is on file, in the writer's hand or in the queue (`OfficialInHand`); and the
checkpoint, the report and the barrier are behind them all (`EndInOrder`), so a
settle that succeeds speaks for every game.  After a failed write nothing is claimed
of where the writer stands in its files or of the games on their way: the next
invocation relies on the directory alone.

`DirectoryIsALog` maps each step to one of `DurableLog`, or to none: a line of the
journal to `AppendGame`, a sync of either file or a checkpoint to `Sync`, a power
loss to `Crash`.  A kill, a torn line or a step of the repair changes the files and not
the log.  `ReportsAreBacked` follows from it: a report is written only over games that
are durable (`EndInOrder` again), and what is durable stays.

**PairSchedule.**  `ScheduleInv` is `EveryPairOnce` and `SlotsExclusive` with the
types, the emptiness between invocations and `JournalInv`, which ties the journal's
length to `nextPair` so that a crash and a resume restore the count.  `FreeSlot`, by
cardinality, shows that a launch always finds a free slot, which
`run_pair_schedule` takes for granted.  `EndingInv` says what is true of a schedule
that ends: `PlayedOut` shows that one which neither a stop nor the test ended has
nothing left to schedule, to join or to release, so its official pairs are the cap.
Nothing is assumed there of what the test decides, so those theorems hold for any
statistic.

`SampleEndsAtBoundary` compares an accumulator kept through crashes and resumes with one
that counts the pairs afresh.  The replay is a fold, and a fold has no equation the
provers can use for every length; `ReplayedIsCounted` shows that it is what the wins,
losses and faults among the first `n` pairs give (`Counted`), by the least prefix
for which it would not.  In that closed form the argument is short: `SampleInv`
says that no prefix of the official pairs but the whole was decided, and that the
journal's official lines are those pairs, in order, with every line behind them
post-terminal.  `ResumesUnlessTerminal` rests on the same: what a cut leaves of the
journal is a shorter prefix, of which the same holds.

**CheckpointFiles and Suite.**  `FilesInv` says of *every* listing a power loss may
bring back that both generations are whole and that the newest is no older than the
acknowledged one (`Recoverable`), and of each step what it may rely on (`Steps`).
The acknowledged number grows only in `SyncDirectory`, which at the same time
forgets the older listings; so where directories are not synced (Windows) the
theorem does not hold for power losses, and does not claim to.  `SuiteInv` adds what
the checkpoints *hold* (`Kept`): each that a crash may leave has every committed
entry, and so has an invocation that loaded one.  `ReportInv` adds, for every listing a
crash may leave, that a record of completion stands only beside a whole report and a
whole checkpoint; the argument is that `finish` comes after the checkpoint's sync,
so no older listing has both.  `ReaderInv` is about the two opens of a live reader:
once the first has failed, no generation that can still be read is older than the one
acknowledged when it began, because a rotation only ever moves a newer one into
`previous`.  It needs no synced directory, for a reader shares the process's view of it.

**EngineProcess.**  `ProcessInv`: `Owed` is a count, at most one bestmove is
outstanding and it answers the last `go`, with exactly one place it may be (engine,
reader, channel, `ponder_early`) for each call; `InOrder` says that within a call lines
wait in the order of their stamps, so the first the task reads decides; `Sound` that
every call but the last follows calls that went well; `EofIsTrue` that the reader says
`Eof` only of a dead engine.

**Game.**  What an engine owes and what the runner notes of it change in different
steps, so `GameInv` strengthens each property by what holds at every place of the
game in between: `Books`, `Keeping`, `Blame` and `Undecided` (a report is written
once).

**FixedMatch.**  `MatchInv` joins the types, that games and journal agree, that
nothing is held between invocations, that a match which ended without an error was
stopped or has every game (`EndsRight`), `EveryGameOnce` and `SlotToItself`.
`LeastExists`, by well-founded induction on `<`, is what the least free slot and the
least pending number rest on.  `ReportInv` says of the newest report that the journal
still goes on where its games end, which is what a crash must leave, and that its
status is what those games give.  `FaultsStay`, by cardinality, shows that more games
make good neither a fault of the harness nor an allowance overspent, so no later
report can; and a report of every game leaves nothing that a later one could add.
`CreditIsRight` is a comparison of cardinalities: every recorded game is what
`MatchGame` makes of its truth, and which engine has White depends on the game's
number alone, so the games counted for a side by colour are those that were about
it; `ReportedInv` says that the report counts the games it was written over.

**Tune.**  `Assembled` says of every game launched that it is in one place: live,
waiting for its other half, waiting with it for an earlier pair, or in a released
pair.  When the last game has ended there is no live one; a half without its mate would
have the mate in none of the places, and so would the first game of a pair not
released: so `nextPair` is past the last pair and nothing waits.  `ReleasedPairs` is
about the queue alone, and `FreeSlot` about the slots, as for `PairSchedule`.
`VoidInv` follows the line of a void iteration: the driver that wrote it ends with
it, a crash keeps it whenever a result was written for it, and a resume that sees
it refuses the directory; that there *is* such a line is `MiniMatchIsWhole`, since an
iteration has at least one pair.  Neither assumes anything of the centres.

`BlocksInv` says that the journal is a row of blocks: one for each committed iteration,
every game's line in the order of the numbers, and at most the block of the
iteration that voided the tune behind them; that the driver's scores are those of the
blocks; and that a published result has the scores of blocks that were
settled with it.  Both theorems follow, for the replay walks block by block.
They assume that no crash cuts *inside* an iteration, and `MCTuneReplay` shows that
the assumption is needed (section 5): together they say that such a cut is the only
thing that undoes a result.

**Tournament.**  `TournamentInv` is what every step keeps, for any design, host and
book.  `PlanInv` has all that the argument needs of the recursive constructions: the
schedule and the slots are lists, and nobody is scheduled against himself.  Each is
shown by the least number for which it would fail (`FlattenIs`, `TakenIsListed`,
`ArrangementIs`): the circle opposes nobody to himself because a rotation is a
permutation and the two places of an encounter differ.  `FilesInv` ties the games of
a run to the journal, of which the newest report's games are a beginning, and its
verdict to the faults of *those* games.  `LoopInv` is `EveryGameOnce` with the types;
`FreeSlot`, by cardinality, shows that a launch finds a free slot.
`EnginesInv` says of a slot whose game has not taken its engines yet, or has given them
back, that what it keeps on either side is the process of the participant its last game
had there, on that side's cores; a game in play leaves the slot empty.
`KeptEnginesServeTheorem` follows because the two participants of a game differ
(`OwnEngines`): at most one kept process can be a side's own.  In `VerdictIsRightTheorem`
`CompletedIsWhole` shows that a loop which ends with nothing against it has nothing
pending and nothing in flight, so by `EveryGameOnce` every number is in the journal; and
faults only grow from a report to the next (`FaultsGrow`), so none is made good.

`GamesAreApartTheorem` is about the placement, for every host.  `PlacementInv` is that the
request is a host's (disjoint cores, none without a CPU) and that the slots are those of
`Allocate`.  The numbers of a finite set are enumerated in order by `InOrder`
(`InOrderIs`), so what is picked or sorted of a pool is again a list of
disjoint cores, and each policy's pool is one.  One slot takes from the pool exactly the
cores it asks for and leaves the others, whichever key it prefers; the pairs of the
symmetric mode are two such takes.  That every slot is apart from the ones before it
follows by the least slot for which it would not be (`TakenIs`); and the games in flight
are in slots of their own.

`ScheduleIsFairTheorem` is about the schedule, for any number of participants, seeds,
cycles and games.  Lists of lists of one length are joined by rows (`Joined`,
`JoinedRows`), so a game's number is its encounter's number times the games of one, plus
its place in it (`PlanOf`), and encounters repeat cycle for cycle (`TurnsRepeat`).  What
is left is one cycle.  After r rotations of the circle everyone but the first has moved r
places (`ArrangementAt`), and two sit opposite each other when their places add up to the
last one's: that is a linear equation in r, which has one solution below the number of
rounds, because that number is odd (`OppositeOnce`).  With an odd number of participants
the row of the bye is left out, and the others move up (`ByeIs`, `CircleRoundAt`).  In a
gauntlet a seed and an opponent are the quotient and the remainder of one number.

`OpeningsAreFairTheorem` is about the book, for any text, order, words and width of them,
any number of threads and any run of invocations.  A part of an EPD file gives the openings
that the whole gives of its place, because every cut is behind a line's end and so a part
begins with a line; parts side by side, joined, are then the whole, however many there are.
What an audit calls usable is as many, and for PGN what is left of the parsed games.
A shuffle is a row of swaps, each of which has every place once.  A list that wraps is
shared out by remainders: of any number of encounters in a row each remainder has as many
as another, or one more.  `OpeningsInv` says that the list in hand is the one that one thread
makes of the book, so that a resume elsewhere has it again, and that every game in the
journal has the opening which that list gives its encounter.

Every safety property that a run checks is stated by a theorem.  Only model-checked is
liveness (`PlayEnds`, `StopDrains`, `RunEnds`, `StopEnds`, `CallsReturn`, `GameEnds`,
`TournamentEnds`), which these provers cannot do, nor `ENABLED`.  The recursive
constructions are reached without induction: each argument takes the least number for
which its claim would fail.

## 5. Where the code and its texts differ

Besides the three findings of section 3.2, seen while modelling and not turned into
runs.  None of them loses a game.

*GUI.*  `Stop` and `ForceStop` do not look at `finished`, so a finished tournament
becomes Stopped (`scheduler.rs:554` against 421).  A comment says an aborted game
is queued again "the next time the tournament starts" (`scheduler.rs:639`); `Go`
queues nothing (547), only loading the tournament does.  "Stop & quit" promises to
let games finish and record their results (`app.rs` about 190) but closes at once,
so they are dropped and played again.  The engine editor keeps the rating from when
an engine was selected and writes it back over what the tournament has stored since
(`engines_tab.rs:1381`, 1416).  A tournament resumed after a close never writes the
last game's rating to the library (`try_resume` in `backend.rs`).

*Run directory.*  "A hard kill loses at most the games of that window"
(`run_writer.rs:13`, `run-directories.md:114`) holds for the files, not for games
committed: the channel in front holds 256.  `admit` returns `UnscorablePair` before
the observer hears of the pair (`sprt_runner.rs:252`), so it is not journalled as
`run-directories.md:161` says.  `config.sha256` is never synced (`config.rs:600`), and a
kill between the directory and it leaves a directory only `--restart` replaces.
Nothing keeps two processes off one run directory.

*Game.*  A bestmove in time is judged by its stamp, but the stamp is put on when
the reader thread gets to the line (`process.rs:714`).  A setup failure of both
sides blames White only (`runner.rs:1552`).  The moves of an opening book count
as draw-score plies with score zero (`runner.rs:751`), and an engine that reports no
score repeats its last one (`runner.rs:984`).  The mover's increment is sent for both
sides (`runner.rs:1381`).

*Commands.*  A tune looks at a stop only between mini-matches
(`spsa_driver.rs:301`; `run-directories.md:184`).  A tournament stopped as its last
game is joined is "cancelled" though every game was played, and an invocation of a
completed one may make it so (`tournament_driver.rs:27` against 459).  With
`--cores-per-engine` kept engines are restarted on a colour swap
(`tournament.md:72`; `match.md:186` says otherwise).  With an odd number of games a
pair the colours are the same in every cycle.  A suite that fails before its first
commit cannot be resumed (`suite_driver.rs:292` against `suite.md:46`); a stopped one
with a malformed line is recorded invalid and refused; it ignores the second
interrupt and looks at a stop only after a searched position.

## 6. Not modelled

- **Statistics, ratings, gains** (`core/stats.rs`, `core/spsa.rs`, `core/rating*`): floating
  point and a pseudo-random generator.  The models use what the control depends on:
  that a decision is a function of the sample, a centre one of the scores.
- **NPS and calibration drivers**: sequential measurements over the calls that
  `EngineProcess` has, whose result is an estimate.
- **Parsing and formatting** (UCI info lines, what a line of a book or of movetext
  says, TOML, reports, exports, argument resolution): pure functions on text with no
  state that lasts.  They and the drawing of the GUI are more than half of the
  repository's lines, which is why the map covers a small share of them: there is no
  state or order in them for these tools to check, and a transliteration would show
  nothing.  The GUI's own shuffle of a book (`openings.rs:528`) is left out as well.
- **The GUI's own state**: tabs, dialogs, edit buffers, and the writing of ratings
  into the engine library.  `Scheduler` has what the driver can see of it.
- **Swiss pairing**: no command uses it.
- **The operating system's part**: reading a topology, pinning, spawning, signals.
- `--restart` with its archive directory, the read-only load of `stats`, the suite's
  baseline comparison.
