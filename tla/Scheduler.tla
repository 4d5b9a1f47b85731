------------------------------ MODULE Scheduler ------------------------------
(***************************************************************************)
(* The GUI tournament driver: the loop of colosseum-engine scheduler.rs,   *)
(* the database rows of store.rs it writes, and resume_tournament, which   *)
(* rebuilds a driver from those rows after the process died; with the GUI  *)
(* as far as it sends commands, drops the driver's handle and deletes the  *)
(* tournament's rows.                                                      *)
(*                                                                         *)
(* A game is its position in the schedule (list_games orders by round and  *)
(* rowid, the order of insertion).  Its result is left out: a finished row *)
(* is "finished" when the game was scored and "aborted" when it carries    *)
(* Termination::Aborted, the runner's mark for a game nobody played.       *)
(* `in_flight`, a map whose entries carry the launch number `launch_seq`,  *)
(* is the sequence of its games in launch order; `launched` always holds   *)
(* the same games and is the same variable here.                           *)
(*                                                                         *)
(* A definition named X_Y is X with a mistake in it, for trying whether    *)
(* the properties notice; no specification uses it.                        *)
(***************************************************************************)
EXTENDS Integers, FiniteSets, SequencesExt

CONSTANTS
    NumGames,          \* the games of the schedule are 1..NumGames
    MaxConcurrency,    \* the largest parallel-games limit a user picks
    MaxCommands,       \* bound: commands the GUI sends to one driver
    MaxLoads,          \* bound: drivers started (the first, then resumes)
    MayPanic,          \* whether the task that plays a game may panic
    StoreMayFail       \* whether a driver's database write may be lost

ASSUME NumGamesAssumption == NumGames \in Nat \ {0}
ASSUME ConcurrencyAssumption == MaxConcurrency \in Nat \ {0}
ASSUME BoundsAssumption == MaxCommands \in Nat /\ MaxLoads \in Nat
ASSUME FaultsAssumption == MayPanic \in BOOLEAN /\ StoreMayFail \in BOOLEAN

Games == 1..NumGames
Limits == 1..MaxConcurrency
RowStatus == {"pending", "running", "discarded", "finished", "aborted", "gone"}
DbStatus == {"running", "stopped", "finished", "gone"}
TournamentStatus == {"Idle", "Running", "Stopping", "Stopped", "Finished"}
Outcome == {"scored", "aborted"}
Command == [type : {"Go", "Stop", "ForceStop"}]
             \cup [type : {"SetConcurrency"}, limit : Limits]

VARIABLES
    \* The SQLite database and the PGN file: what survives the process.
    row,               \* games.status of each game
    dbStatus,          \* tournaments.status
    dbConcurrency,     \* the limit in tournaments.config_json
    exported,          \* how often a game was appended to the PGN file
    \* The driver task, gone when the process dies.
    pc,                \* "down", or where the loop of `drive` stands
    running, finished, \* the loop's two flags
    concurrency,
    pending,           \* the launch queue
    inFlight,          \* launched and not yet taken back, in launch order
    tasks,             \* the JoinSet: what each spawned game task came to
    joined,            \* the report being recorded while pc = "record"
    standings,         \* how often each game was recorded
    finishedCount,
    clockOn,           \* running_since.is_some()
    commands,          \* the channel from the GUI
    snap,              \* the snapshot the GUI renders from
    \* The GUI.
    handle,            \* its handle of the driver: "held", "none", or "deleting":
                       \* dropped by a delete whose rows are still there
    \* Bounds.
    sent, loads

store == <<row, dbStatus, dbConcurrency, exported>>
loop == <<running, finished, concurrency>>
games == <<pending, inFlight, tasks, joined>>
tally == <<standings, finishedCount, clockOn>>
bounds == <<sent, loads>>
vars == <<store, pc, loop, games, tally, commands, snap, handle, bounds>>

-----------------------------------------------------------------------------
(* The database.  The driver ignores the result of every write it makes    *)
(* (`let _ = driver.store...`), so a write may leave the old value behind. *)
(* Each write is an UPDATE: it changes nothing once the rows are deleted.  *)

Deleted == dbStatus = "gone"

Persist(new, old) ==
    IF Deleted THEN {old} ELSE {new} \cup (IF StoreMayFail THEN {old} ELSE {})

SetStatus(status) == dbStatus' \in Persist(status, dbStatus)

SetRow(g, status) == row' \in Persist([row EXCEPT ![g] = status], row)

\* Each in-flight row is discarded by a statement of its own.
DiscardRows(ids) ==
    \E lost \in SUBSET (IF StoreMayFail THEN ids ELSE {}) :
        row' \in Persist([g \in Games |-> IF g \in ids \ lost THEN "discarded" ELSE row[g]], row)

\* What reset_unfinished_games leaves: everything but a played result.
ResetRow_Everything(status) == "pending"
ResetRow(status) == IF status = "finished" THEN "finished" ELSE "pending"

\* The games a stored tournament counts as results, wherever it is read.
PlayedRows == {g \in Games : row[g] = "finished"}

-----------------------------------------------------------------------------
(* The loop of `drive`.  Only the driver reads its own variables, so a     *)
(* step ends where the database or the file changes, where the snapshot is *)
(* published, or where the loop waits.                                     *)

SnapshotStatus(status) == snap' = [snap EXCEPT !.status = status]

Publish(status, ids) ==
    snap' = [status |-> status, inFlight |-> ids,
             finished |-> finishedCount', clockOn |-> clockOn']

\* Sequence `pending` after a force-stop pushed the discarded games back to
\* its front, the earliest launched first.
Requeued == inFlight \o pending

\* All games launched and drained.
Drained_IgnoringTasks == running /\ pending = <<>>
Drained_ByCount == running /\ finishedCount = NumGames
Drained == running /\ DOMAIN tasks = {} /\ pending = <<>>

\* The snapshot after the launches of one turn of the loop.
Synced_Never == snap
Synced == IF pc = "launched"
          THEN [snap EXCEPT !.inFlight = ToSet(inFlight), !.clockOn = clockOn]
          ELSE snap

\* The status shown while nothing new is launched.
DrainStatus_Stopped(ids) == "Stopped"
DrainStatus_Stopping(ids) == "Stopping"
DrainStatus(ids) == IF ids = <<>> THEN "Stopped" ELSE "Stopping"

\* Whether the play clock goes on after a game ended.
ClockGoesOn(ids) == clockOn /\ (running \/ ids # <<>>)

\* 1 for a report of a game that was played, 0 for the placeholder draw of
\* one that could not be.
Scorable_Always(end) == 1
Scorable(end) == IF end = "scored" THEN 1 ELSE 0

\* The iteration of the launch loop that takes one game.
LaunchGame ==
    /\ pc \in {"top", "launched"}
    /\ running
    /\ Cardinality(DOMAIN tasks) < concurrency
    /\ pending # <<>>
    /\ LET g == Head(pending) IN
        /\ pending' = Tail(pending)
        /\ inFlight' = Append(inFlight, g)
        /\ tasks' = [t \in DOMAIN tasks \cup {g} |->
                        IF t = g THEN "playing" ELSE tasks[t]]
        /\ SetRow(g, "running")
    /\ clockOn' = TRUE
    /\ pc' = "launched"
    /\ UNCHANGED <<dbStatus, dbConcurrency, exported, loop, joined, standings,
                   finishedCount, commands, snap, handle, bounds>>

\* Nothing more can be launched now.
LaunchDone ==
    \/ ~running
    \/ Cardinality(DOMAIN tasks) >= concurrency
    \/ pending = <<>>

\* The snapshot learns of the games just launched; the loop goes on to wait.
Settle ==
    /\ pc \in {"top", "launched"}
    /\ LaunchDone
    /\ ~Drained
    /\ pc' = "select"
    /\ snap' = Synced
    /\ UNCHANGED <<store, loop, games, tally, commands, handle, bounds>>

\* All games launched and drained: the tournament is finished.
FinishTournament ==
    /\ pc \in {"top", "launched"}
    /\ LaunchDone
    /\ Drained
    /\ running' = FALSE
    /\ finished' = TRUE
    /\ clockOn' = FALSE
    /\ SetStatus("finished")
    /\ pc' = "select"
    /\ UNCHANGED <<standings, finishedCount>>
    /\ Publish("Finished", {})
    /\ UNCHANGED <<row, dbConcurrency, exported, concurrency, games, commands,
                   handle, bounds>>

\* The loop takes a command from the channel.
Receive(type) ==
    /\ pc = "select"
    /\ commands # <<>>
    /\ Head(commands).type = type
    /\ commands' = Tail(commands)
    /\ pc' = "top"
    /\ UNCHANGED <<exported, joined, standings, finishedCount, handle, bounds>>

Go ==
    /\ Receive("Go")
    /\ IF finished
       THEN UNCHANGED <<running, dbStatus, snap>>
       ELSE /\ running' = TRUE
            /\ SetStatus("running")
            /\ SnapshotStatus("Running")
    /\ UNCHANGED <<row, dbConcurrency, finished, concurrency, pending, inFlight,
                   tasks, clockOn>>

Stop ==
    /\ Receive("Stop")
    /\ running' = FALSE
    /\ SetStatus("stopped")
    /\ SnapshotStatus(DrainStatus(inFlight))
    /\ UNCHANGED <<row, dbConcurrency, finished, concurrency, pending, inFlight,
                   tasks, clockOn>>

\* The tasks are aborted whatever they had come to, and every in-flight game
\* goes back to the front of the queue in launch order.
ForceStop ==
    /\ Receive("ForceStop")
    /\ tasks' = [t \in {} |-> "playing"]
    /\ DiscardRows(ToSet(inFlight))
    /\ pending' = Requeued
    /\ inFlight' = <<>>
    /\ running' = FALSE
    /\ clockOn' = FALSE
    /\ SetStatus("stopped")
    /\ snap' = [snap EXCEPT !.status = "Stopped", !.inFlight = {}, !.clockOn = FALSE]
    /\ UNCHANGED <<dbConcurrency, finished, concurrency>>

\* The control the limit comes from starts at one.
SetConcurrency ==
    /\ Receive("SetConcurrency")
    /\ concurrency' = Head(commands).limit
    /\ dbConcurrency' \in Persist(concurrency', dbConcurrency)
    /\ UNCHANGED <<row, dbStatus, running, finished, pending, inFlight, tasks,
                   clockOn, snap>>

\* A game task ends, on a thread of its own: with a report that scores, with
\* the report of a game that could not be played, or by panicking.
TaskEnds(g) ==
    /\ pc # "down"
    /\ g \in DOMAIN tasks
    /\ tasks[g] = "playing"
    /\ \E end \in Outcome \cup (IF MayPanic THEN {"panicked"} ELSE {}) :
        tasks' = [tasks EXCEPT ![g] = end]
    /\ UNCHANGED <<store, pc, loop, pending, inFlight, joined, tally, commands,
                   snap, handle, bounds>>

Spawned(except) == [t \in DOMAIN tasks \ {except} |-> tasks[t]]

\* The flights left when the i-th is taken back.
TakenBack(i) == RemoveAt(inFlight, i)

\* join_next with a report, as far as the row: finish_game.
RecordReport(g) ==
    /\ pc = "select"
    /\ g \in DOMAIN tasks
    /\ tasks[g] \in Outcome
    /\ \E i \in 1..Len(inFlight) :
        inFlight[i] = g /\ inFlight' = TakenBack(i)
    /\ joined' = <<g, tasks[g]>>
    /\ tasks' = Spawned(g)
    /\ SetRow(g, IF tasks[g] = "scored" THEN "finished" ELSE "aborted")
    /\ pc' = "record"
    /\ UNCHANGED <<dbStatus, dbConcurrency, exported, loop, pending, tally,
                   commands, snap, handle, bounds>>

\* The rest of that arm: the PGN file, the standings, the snapshot.
PublishReport ==
    /\ pc = "record"
    /\ LET g == joined[1] IN
        /\ exported' = [exported EXCEPT ![g] = @ + Scorable(joined[2])]
        /\ standings' = [standings EXCEPT ![g] = @ + Scorable(joined[2])]
    /\ finishedCount' = finishedCount + 1
    /\ clockOn' = ClockGoesOn(inFlight)
    /\ Publish(IF running THEN "Running" ELSE DrainStatus(inFlight), ToSet(inFlight))
    /\ joined' = <<>>
    /\ pc' = "top"
    /\ UNCHANGED <<row, dbStatus, dbConcurrency, loop, pending, inFlight, tasks,
                   commands, handle, bounds>>

\* join_next with a panic: it is logged and nothing else, so the game stays
\* in flight.
PanicLogged(g) ==
    /\ pc = "select"
    /\ g \in DOMAIN tasks
    /\ tasks[g] = "panicked"
    /\ tasks' = Spawned(g)
    /\ pc' = "top"
    /\ UNCHANGED <<store, loop, pending, inFlight, joined, tally, commands,
                   snap, handle, bounds>>

-----------------------------------------------------------------------------
(* The GUI and the process.  The list's context menu sends Start, Stop and *)
(* Force-stop whatever the snapshot says, so any command may come.         *)

Send(c) ==
    /\ pc # "down" /\ handle = "held"
    /\ sent < MaxCommands
    /\ sent' = sent + 1
    /\ commands' = Append(commands, c)
    /\ UNCHANGED <<store, pc, loop, games, tally, snap, handle, loads>>

\* Deleting a loaded tournament: it is force-stopped and its handle dropped...
Unload ==
    /\ pc # "down" /\ handle = "held"
    /\ sent < MaxCommands
    /\ sent' = sent + 1
    /\ commands' = Append(commands, [type |-> "ForceStop"])
    /\ handle' = "deleting"
    /\ UNCHANGED <<store, pc, loop, games, tally, snap, loads>>

\* ...and its rows are deleted, while the driver may still be at work.  The rows
\* of one that is not loaded are deleted at once.
DeleteRows ==
    /\ handle = "deleting" \/ (pc = "down" /\ handle = "none" /\ ~Deleted)
    /\ row' = [g \in Games |-> "gone"]
    /\ dbStatus' = "gone"
    /\ handle' = "none"
    /\ UNCHANGED <<dbConcurrency, exported, pc, loop, games, tally, commands, snap, bounds>>

\* A delete that fails is reported and leaves a tournament that is not loaded.
DeleteFails ==
    /\ handle = "deleting"
    /\ loads < MaxLoads
    /\ handle' = "none"
    /\ UNCHANGED <<store, pc, loop, games, tally, commands, snap, bounds>>

\* The variables of a driver that is not there.
NoDriver ==
    /\ pc' = "down"
    /\ running' = FALSE /\ finished' = FALSE /\ concurrency' = 1
    /\ pending' = <<>> /\ inFlight' = <<>> /\ joined' = <<>>
    /\ tasks' = [t \in {} |-> "playing"]
    /\ standings' = [g \in Games |-> 0]
    /\ finishedCount' = 0
    /\ clockOn' = FALSE
    /\ commands' = <<>>
    /\ snap' = [status |-> "Idle", inFlight |-> {}, finished |-> 0, clockOn |-> FALSE]

\* recv without a sender: the loop is left, and the tasks go with the JoinSet.
HandleDropped ==
    /\ pc = "select" /\ commands = <<>> /\ handle # "held"
    /\ NoDriver
    /\ UNCHANGED <<store, handle, bounds>>

\* The application is closed, or dies, at any point of the loop or of a delete.
Crash ==
    /\ pc # "down" \/ handle = "deleting"
    /\ loads < MaxLoads
    /\ NoDriver
    /\ handle' = "none"
    /\ UNCHANGED <<store, bounds>>

\* list_games' order of a set of games: the one sequence of them all that goes
\* up.
Increasing(s) == \A i, j \in 1..Len(s) : i < j => s[i] < s[j]
InScheduleOrder(S) == {s \in [1..Cardinality(S) -> S] : Increasing(s)}

\* resume_tournament, then `drive` up to its loop.  A driver that was force-stopped
\* and let go is taken to have ended before its tournament is resumed.
Resume ==
    /\ pc = "down" /\ handle = "none" /\ ~Deleted
    /\ handle' = "held"
    /\ loads' = loads + 1
    /\ sent' = 0
    /\ row' = [g \in Games |-> ResetRow(row[g])]
    /\ pending' \in InScheduleOrder(Games \ PlayedRows)
    /\ standings' = [g \in Games |-> IF g \in PlayedRows THEN 1 ELSE 0]
    /\ finishedCount' = Cardinality(PlayedRows)
    /\ finished' = (PlayedRows = Games)
    /\ dbStatus' = IF PlayedRows = Games THEN "finished" ELSE "stopped"
    /\ concurrency' = dbConcurrency
    /\ snap' = [status |-> IF PlayedRows = Games THEN "Finished" ELSE "Stopped",
                inFlight |-> {}, finished |-> Cardinality(PlayedRows),
                clockOn |-> FALSE]
    /\ pc' = "top"
    /\ UNCHANGED <<dbConcurrency, exported, running, inFlight, tasks, joined,
                   clockOn, commands>>

\* create_tournament and the Go start_tournament sends with it.
Init ==
    /\ row = [g \in Games |-> "pending"]
    /\ dbStatus = "running"
    /\ dbConcurrency \in Limits
    /\ exported = [g \in Games |-> 0]
    /\ pc = "top"
    /\ running = FALSE /\ finished = FALSE
    /\ concurrency = dbConcurrency
    /\ pending = [i \in Games |-> i]
    /\ inFlight = <<>>
    /\ tasks = [t \in {} |-> "playing"]
    /\ joined = <<>>
    /\ standings = [g \in Games |-> 0]
    /\ finishedCount = 0
    /\ clockOn = FALSE
    /\ commands = << [type |-> "Go"] >>
    /\ snap = [status |-> "Idle", inFlight |-> {}, finished |-> 0, clockOn |-> FALSE]
    /\ handle = "held"
    /\ sent = 1
    /\ loads = 1

Handle == Go \/ Stop \/ ForceStop \/ SetConcurrency

\* The steps the driver task takes on its own.
Drive ==
    \/ LaunchGame \/ Settle \/ FinishTournament
    \/ Handle \/ HandleDropped
    \/ \E g \in Games : RecordReport(g) \/ PanicLogged(g)
    \/ PublishReport

Next ==
    \/ Drive
    \/ \E g \in Games : TaskEnds(g)
    \/ \E c \in Command : Send(c)
    \/ Unload \/ DeleteRows \/ DeleteFails
    \/ Crash
    \/ Resume

Spec == Init /\ [][Next]_vars

\* The driver task is polled while it can go on, and every game task ends:
\* each wait of a game has a deadline.
Fairness ==
    /\ WF_vars(Drive)
    /\ \A g \in Games : WF_vars(TaskEnds(g))

FairSpec == Spec /\ Fairness

-----------------------------------------------------------------------------
(* Properties.                                                             *)

\* The database, the driver's queues and the snapshot are well formed; the
\* status column, free text in the code, holds one of its three words.
TypeOK ==
    /\ row \in [Games -> RowStatus]
    /\ dbStatus \in DbStatus
    /\ dbConcurrency \in Limits
    /\ exported \in [Games -> Nat]
    /\ pc \in {"down", "top", "launched", "select", "record"}
    /\ running \in BOOLEAN
    /\ finished \in BOOLEAN
    /\ concurrency \in Limits
    /\ pending \in Seq(Games)
    /\ inFlight \in Seq(Games)
    /\ DOMAIN tasks \in SUBSET Games
    /\ tasks \in [DOMAIN tasks -> Outcome \cup {"playing", "panicked"}]
    /\ joined \in {<<>>} \cup (Games \X Outcome)
    /\ pc = "record" => joined \in Games \X Outcome
    /\ standings \in [Games -> Nat]
    /\ finishedCount \in Nat
    /\ clockOn \in BOOLEAN
    /\ commands \in Seq(Command)
    /\ snap \in [status : TournamentStatus, inFlight : SUBSET Games,
                 finished : Nat, clockOn : BOOLEAN]
    /\ handle \in {"held", "deleting", "none"}
    /\ sent \in Nat
    /\ loads \in Nat

\* The games in flight, then the queue, are in schedule order and without
\* repetition: whatever Force-Stops, crashes and resumes came between, a game
\* is played neither twice at once nor ahead of an earlier round's.
Waiting == inFlight \o pending
QueueInScheduleOrder == Increasing(Waiting)

\* A game that is queued or in flight has no result: whatever Force-Stop puts
\* back, and whatever a resume reads, no decided game is played again over its
\* own result.
WaitingIsOpen ==
    \A i \in 1..Len(Waiting) : row[Waiting[i]] \notin {"finished", "aborted"}

\* No game falls out of the tournament: each is counted as finished, queued,
\* in flight, or in the hands of the driver.
NothingLost ==
    pc # "down" =>
        finishedCount + Len(pending) + Len(inFlight)
            + (IF pc = "record" THEN 1 ELSE 0) = NumGames

\* While the loop is between two reports the live standings hold exactly the
\* games a history view or a resume would read from the database, each once.
HistoryAgrees ==
    pc \notin {"down", "record"} /\ ~Deleted =>
        \A g \in Games : standings[g] = IF g \in PlayedRows THEN 1 ELSE 0

\* A game reaches the PGN file once at most, and only as a played one, though
\* a game that could not be played is played again after a resume.
ExportedOnce ==
    \A g \in Games : exported[g] <= 1 /\ (exported[g] = 1 => Deleted \/ g \in PlayedRows)

\* Unless the snapshot says Running or Stopping no game task is alive, so
\* leaving the application then interrupts no game.
BusyWhilePlaying ==
    snap.status \notin {"Running", "Stopping"} => DOMAIN tasks = {}

\* A game whose task panicked stays in flight, and shown so, until the driver ends.
NonePanicked == ToSet(inFlight) \subseteq DOMAIN tasks /\ "panicked" \notin ToSet(tasks)

\* A driver that waits has told the GUI of every game in flight and of the
\* clock: the Playing panel never lags a launch behind.
SnapshotFresh ==
    pc = "select" /\ NonePanicked =>
                     /\ snap.inFlight = ToSet(inFlight)
                     /\ snap.clockOn = clockOn
                     /\ snap.finished = finishedCount

\* A tournament shown Finished has nothing left to play.
FinishedIsComplete ==
    snap.status = "Finished" /\ NonePanicked /\ ~Deleted =>
        \A g \in Games : row[g] \in {"finished", "aborted"}

\* The result of a played game stays in the database through every command,
\* crash and resume, until the tournament is deleted.
PlayedStays ==
    [][\A g \in Games : row[g] = "finished" => row'[g] = "finished" \/ Deleted']_vars

\* A running tournament does not stay running without end: it finishes unless
\* it is stopped or its process ends, though tasks may panic.  Nor does the
\* driver of one that was deleted: it ends, and the engines of its games with it.
PlayEnds ==
    /\ (snap.status = "Running") ~> (snap.status # "Running")
    /\ (handle # "held") ~> (pc = "down" \/ handle = "held")

\* A stop drains: Stopping gives way to Stopped, or the user starts again,
\* unless a task panicked, whose game is in flight for good.
StopDrains ==
    (snap.status = "Stopping") ~>
        (snap.status # "Stopping" \/ ToSet(inFlight) # DOMAIN tasks)

\* The driver and its database implement the ledger of games.
Verdict == [g \in Games |-> CASE row[g] = "finished" -> "scored"
                              [] row[g] = "aborted" -> "void"
                              [] row[g] = "gone" -> "gone"
                              [] OTHER -> "open"]
Ledger == INSTANCE GameLedger WITH verdict <- Verdict
ImplementsLedger == Ledger!Spec

=============================================================================
