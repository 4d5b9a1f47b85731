------------------------------ MODULE DurableRun ------------------------------
(***************************************************************************)
(* A run directory while a sequential test writes it, crashes and resumes: *)
(* the writer thread of run_writer.rs with its bounded queue, the journal  *)
(* games.jsonl and games.pgn it appends to, the checkpoint whose anchor    *)
(* covers them, load_journal, which verifies and repairs them, and the     *)
(* client (composition/sprt.rs) that commits colour-reversed pairs through *)
(* the writer and rebuilds its sample from the journal.                    *)
(*                                                                         *)
(* A file is the sequence of its entries and an offset a number of them.   *)
(* An entry a write left unfinished is Torn, which no checksum accepts.  A *)
(* game is told apart by its pair, its half of the pair and the session    *)
(* that played it, which stand for its moves.  A journal line holds its    *)
(* sequence number, its game and `at`, the entry of games.pgn with the     *)
(* game's moves.  The anchor's hash over the covered bytes is the covered  *)
(* lines themselves.                                                       *)
(***************************************************************************)
EXTENDS Integers, FiniteSets, SequencesExt

CONSTANTS
    MaxPairs,          \* design.max_pairs
    SyncEvery,         \* SYNC_EVERY_GAMES
    QueueCapacity,     \* WRITER_QUEUE_CAPACITY
    MaxSessions,       \* bound: invocations of the command
    MaxCheckpoints,    \* bound: checkpoints the cadence makes due in one session
    MayLosePower,      \* whether the host, not only the process, may go down
    WritesMayFail      \* whether a write or a sync may return an error

ASSUME SizeAssumption ==
    /\ MaxPairs \in Nat \ {0}
    /\ SyncEvery \in Nat \ {0}
    /\ QueueCapacity \in Nat \ {0}
ASSUME BoundsAssumption == MaxSessions \in Nat \ {0} /\ MaxCheckpoints \in Nat
ASSUME FaultsAssumption == MayLosePower \in BOOLEAN /\ WritesMayFail \in BOOLEAN

Pairs == 1..MaxPairs
Halves == 1..2
Games == [pair : Pairs, half : Halves, session : 1..MaxSessions]

Torn == [pair |-> 0, half |-> 0, session |-> 0]
TornLine == [seq |-> 0, game |-> Torn, at |-> 0]
EmptyAnchor == [lines |-> << >>, pgn |-> 0]
NoResult == {}

VARIABLES
    \* The directory.  Everything written is in the page cache, which outlives
    \* the process; the first syncedJournal and syncedPgn entries are on disk.
    journal, pgn, syncedJournal, syncedPgn,
    checkpoint,        \* the anchor of the newest checkpoint
    result,            \* the games of the official pairs in result.json
    \* The process.
    session,           \* how many invocations there have been
    \* The client: DurableSprtOutput and the schedule that calls it.
    client,            \* "down" between two sessions, or where the run stands
    half,              \* the games of the pair in hand already sent
    official,          \* the official pairs, resumed ones first
    queue,             \* the writer's channel
    \* The writer thread.
    task,              \* the command in hand, or Idle
    wpc,               \* where `run` stands in it
    nextSeq, pgnOffset, \* JournalResume: the next line and the next moves
    dirty, unsyncedGames,
    failure,           \* the first write failed; nothing more is written
    reply,             \* the barrier's answer
    checkpoints        \* bound: cadence checkpoints sent this session

files == <<journal, pgn, syncedJournal, syncedPgn, checkpoint, result>>
appended == <<journal, pgn>>
synced == <<syncedJournal, syncedPgn>>
clientVars == <<client, half, official, checkpoints>>
position == <<nextSeq, pgnOffset>>
writerVars == <<task, wpc, position, dirty, unsyncedGames, failure, reply>>
vars == <<files, session, clientVars, queue, writerVars>>

Idle == [type |-> "Idle"]
Tick == [type |-> "Tick"]
Command ==
    [type : {"Game"}, game : Games]
        \cup [type : {"Result"}, games : SUBSET Games]
        \cup [type : {"Log", "Checkpoint", "Barrier"}]

-----------------------------------------------------------------------------
(* Loading a directory: load_journal. *)

Valid(line) == line # TornLine

MovesPresent(line) == line.at \in 1..Len(pgn) /\ pgn[line.at] = line.game

Covered == Len(checkpoint.lines)

\* The lines before the first one that fails its own checksum.
ValidLines ==
    CHOOSE n \in Covered..Len(journal) :
        /\ \A i \in (Covered + 1)..n : Valid(journal[i])
        /\ n < Len(journal) => ~Valid(journal[n + 1])

\* The covered bytes hash to what the checkpoint recorded.
AnchorMatches ==
    /\ Len(journal) >= Covered
    /\ SubSeq(journal, 1, Covered) = checkpoint.lines
    /\ \A i \in 1..Covered : Valid(journal[i])

\* load_journal returns an error: an anchor mismatch, a valid line behind an
\* invalid one, a wrong sequence number or a games.pgn behind its checkpoint.
Refused ==
    \/ ~AnchorMatches
    \/ \E i \in (ValidLines + 1)..Len(journal) : Valid(journal[i])
    \/ \E i \in 1..ValidLines : journal[i].seq # i
    \/ Len(pgn) < checkpoint.pgn

\* The lines whose moves are all in games.pgn; the covered ones are not
\* looked at again.
Kept ==
    CHOOSE n \in Covered..ValidLines :
        /\ \A i \in (Covered + 1)..n : MovesPresent(journal[i])
        /\ n < ValidLines => ~MovesPresent(journal[n + 1])

\* Mutant: games.pgn is cut to the checkpoint, whatever lines are kept.
PgnEnd_Checkpoint == checkpoint.pgn

PgnEnd == IF Kept > Covered THEN journal[Kept].at ELSE checkpoint.pgn

Records == [i \in 1..Kept |-> journal[i].game]

\* Every second record of one pair number completes a pair: `halves` holds the
\* one before it.
Completing(records) ==
    {i \in DOMAIN records :
        Cardinality({k \in 1..i : records[k].pair = records[i].pair}) % 2 = 0}

Other(records, i) ==
    CHOOSE k \in 1..(i - 1) :
        /\ records[k].pair = records[i].pair
        /\ \A j \in (k + 1)..(i - 1) : records[j].pair # records[i].pair

\* The lower game number comes first.
InPairOrder(other, game) ==
    IF other.half < game.half THEN <<other, game>> ELSE <<game, other>>

\* sort_by_key: in pair order, the pairs of one number as they were completed.
Precedes(records, i, k) ==
    \/ records[i].pair < records[k].pair
    \/ records[i].pair = records[k].pair /\ i < k

PairsFromJournal(records) ==
    LET complete == Completing(records)
        At(n) == CHOOSE i \in complete :
                     Cardinality({k \in complete : Precedes(records, k, i)}) = n - 1
    IN  [n \in 1..Cardinality(complete) |->
            InPairOrder(records[Other(records, At(n))], records[At(n)])]

GamesOf(pairs) == UNION {ToSet(pairs[i]) : i \in DOMAIN pairs}

\* validate_completed_prefix: the schedule resumes behind a full prefix only.
IsPrefixOfSchedule(pairs) ==
    Len(pairs) <= MaxPairs /\ \A i \in DOMAIN pairs : pairs[i][1].pair = i

-----------------------------------------------------------------------------
(* The client.  `send` returns the writer's failure at once and otherwise  *)
(* waits for room in the channel; a failure it meets while waiting drops   *)
(* the command, and the next send returns it.                              *)

ClientState == {"down", "commit", "cadence", "result", "barrier", "settling", "done", "failed"}

Up == client # "down"

Send(command) ==
    /\ ~failure
    /\ Len(queue) < QueueCapacity
    /\ queue' = Append(queue, command)

SendFails ==
    /\ client \in {"commit", "cadence", "result", "barrier"}
    /\ failure
    /\ client' = "failed"
    /\ UNCHANGED <<files, session, half, official, checkpoints, queue, writerVars>>

NextPair == Len(official) + 1

\* commit_pair: the two games of the pair, one after the other.
CommitGame ==
    /\ client = "commit" /\ NextPair <= MaxPairs
    /\ Send([type |-> "Game", game |-> [pair |-> NextPair, half |-> half + 1, session |-> session]])
    /\ IF half = 0
       THEN /\ half' = 1
            /\ UNCHANGED <<client, official>>
       ELSE /\ half' = 0
            /\ official' = Append(official,
                   [h \in Halves |-> [pair |-> NextPair, half |-> h, session |-> session]])
            /\ client' = "cadence"
    /\ UNCHANGED <<files, session, checkpoints, writerVars>>

\* CheckpointCadence::record says whether a checkpoint is due.
CheckpointDue ==
    /\ client = "cadence" /\ checkpoints < MaxCheckpoints
    /\ Send([type |-> "Checkpoint"])
    /\ client' = "commit"
    /\ checkpoints' = checkpoints + 1
    /\ UNCHANGED <<files, session, half, official, writerVars>>

CheckpointNotDue ==
    /\ client = "cadence"
    /\ client' = "commit"
    /\ UNCHANGED <<files, session, half, official, checkpoints, queue, writerVars>>

\* run_pair_schedule returns an error of its own, a worker's or an unscorable
\* pair's: the command ends without a report.
ScheduleFails ==
    /\ client = "commit" /\ half = 0
    /\ client' = "failed"
    /\ UNCHANGED <<files, session, half, official, checkpoints, queue, writerVars>>

\* Mutant: the report is sent with no checkpoint before it.
Finish_Uncheckpointed ==
    /\ client = "commit" /\ half = 0
    /\ client' = "result"
    /\ UNCHANGED <<files, session, half, official, checkpoints, queue, writerVars>>

\* The schedule ends between two pairs: at the cap, at a verdict or on a stop.
Finish ==
    /\ client = "commit" /\ half = 0
    /\ Send([type |-> "Checkpoint"])
    /\ client' = "result"
    /\ UNCHANGED <<files, session, half, official, checkpoints, writerVars>>

SendResult ==
    /\ client = "result"
    /\ Send([type |-> "Result", games |-> GamesOf(official)])
    /\ client' = "barrier"
    /\ UNCHANGED <<files, session, half, official, checkpoints, writerVars>>

Settle ==
    /\ client = "barrier"
    /\ Send([type |-> "Barrier"])
    /\ client' = "settling"
    /\ UNCHANGED <<files, session, half, official, checkpoints, writerVars>>

\* Mutant: any answer of the barrier is taken for a yes.
Settled_Regardless ==
    /\ client = "settling" /\ reply # "none"
    /\ client' = "done"
    /\ UNCHANGED <<files, session, half, official, checkpoints, queue, writerVars>>

Settled ==
    /\ client = "settling" /\ reply # "none"
    /\ client' = IF reply = "ok" THEN "done" ELSE "failed"
    /\ UNCHANGED <<files, session, half, official, checkpoints, queue, writerVars>>

-----------------------------------------------------------------------------
(* The writer thread. *)

\* The command is dealt with; the loop receives the next one.
Finished ==
    /\ task' = Idle
    /\ wpc' = "idle"

\* Mutant: a checkpoint does not sync what it covers.
FirstStep_Unsynced(command) ==
    CASE command.type = "Game" -> "moves"
      [] command.type = "Result" -> "result"
      [] command.type = "Checkpoint" -> "checkpoint"
      [] command.type = "Barrier" -> "sync"

\* Where the handling of a command starts.
FirstStep(command) ==
    CASE command.type = "Game" -> "moves"
      [] command.type = "Result" -> "result"
      [] command.type \in {"Checkpoint", "Barrier"} -> "sync"

Receive ==
    /\ Up /\ task = Idle /\ queue # << >> /\ ~failure
    /\ Head(queue).type # "Log"
    /\ task' = Head(queue)
    /\ wpc' = FirstStep(Head(queue))
    /\ queue' = Tail(queue)
    /\ UNCHANGED <<files, session, clientVars, position, dirty, unsyncedGames, failure, reply>>

\* Mutant: a barrier behind a failure is dropped like any other command.
Discard_Silently ==
    /\ Up /\ task = Idle /\ queue # << >> /\ failure
    /\ queue' = Tail(queue)
    /\ UNCHANGED <<files, session, clientVars, task, wpc, position, dirty, unsyncedGames, failure, reply>>

\* Once a write has failed, nothing more is written, and a barrier says so.
Discard ==
    /\ Up /\ task = Idle /\ queue # << >> /\ failure
    /\ reply' = IF Head(queue).type = "Barrier" THEN "failed" ELSE reply
    /\ queue' = Tail(queue)
    /\ UNCHANGED <<files, session, clientVars, task, wpc, position, dirty, unsyncedGames, failure>>

\* recv_timeout returns Timeout: nothing came for what is left of SYNC_INTERVAL.
Timeout ==
    /\ Up /\ task = Idle /\ queue = << >> /\ dirty
    /\ task' = Tick
    /\ wpc' = "sync"
    /\ UNCHANGED <<files, session, clientVars, queue, position, dirty, unsyncedGames, failure, reply>>

\* append_game: moves first, then the line that points at them.
AppendMoves ==
    /\ wpc = "moves"
    /\ pgn' = Append(pgn, task.game)
    /\ pgnOffset' = pgnOffset + 1
    /\ wpc' = "line"
    /\ UNCHANGED <<journal, synced, checkpoint, result, session, clientVars, queue, task,
                   nextSeq, dirty, unsyncedGames, failure, reply>>

Line == [seq |-> nextSeq, game |-> task.game, at |-> pgnOffset]

\* One more game may wait for its sync.
WindowHasRoom == unsyncedGames + 1 < SyncEvery

\* The sync window is full, or SYNC_INTERVAL has passed since the last sync.
AppendLine ==
    /\ wpc = "line"
    /\ journal' = Append(journal, Line)
    /\ nextSeq' = nextSeq + 1
    /\ dirty' = TRUE
    /\ unsyncedGames' = unsyncedGames + 1
    /\ \/ task' = task /\ wpc' = "sync"
       \/ WindowHasRoom /\ Finished
    /\ UNCHANGED <<pgn, synced, checkpoint, result, session, clientVars, queue, pgnOffset,
                   failure, reply>>

\* What follows a sync that succeeded.
AfterSync ==
    /\ unsyncedGames' = 0
    /\ dirty' = FALSE
    /\ IF task.type = "Checkpoint" THEN task' = task /\ wpc' = "checkpoint" ELSE Finished
    /\ reply' = IF task.type = "Barrier" THEN "ok" ELSE reply

SyncJournal ==
    /\ wpc = "sync" /\ dirty
    /\ syncedJournal' = Len(journal)
    /\ wpc' = "syncPgn"
    /\ UNCHANGED <<appended, syncedPgn, checkpoint, result, session, clientVars, queue, task,
                   position, dirty, unsyncedGames, failure, reply>>

SyncPgn ==
    /\ wpc = "syncPgn"
    /\ syncedPgn' = Len(pgn)
    /\ AfterSync
    /\ UNCHANGED <<appended, syncedJournal, checkpoint, result, session, clientVars, queue,
                   position, failure>>

NothingToSync ==
    /\ wpc = "sync" /\ ~dirty
    /\ AfterSync
    /\ UNCHANGED <<files, session, clientVars, queue, position, failure>>

\* The journal position this writer stands at.
Anchor == [lines |-> SubSeq(journal, 1, nextSeq - 1), pgn |-> pgnOffset]

WriteCheckpoint ==
    /\ wpc = "checkpoint"
    /\ checkpoint' = Anchor
    /\ Finished
    /\ UNCHANGED <<appended, synced, result, session, clientVars, queue, position, dirty,
                   unsyncedGames, failure, reply>>

WriteResult ==
    /\ wpc = "result"
    /\ result' = task.games
    /\ Finished
    /\ UNCHANGED <<appended, synced, checkpoint, session, clientVars, queue, position, dirty,
                   unsyncedGames, failure, reply>>

\* What a write leaves behind that did not come to its end.
TornWrite ==
    /\ pgn' \in {pgn} \cup (IF wpc = "moves" THEN {Append(pgn, Torn)} ELSE {})
    /\ journal' \in {journal} \cup (IF wpc = "line" THEN {Append(journal, TornLine)} ELSE {})

\* Mutant: the writer carries on behind an error.
KeepFailure_Forgotten == failure' = failure

\* The first failure is kept for every later command.
KeepFailure == failure' = TRUE

\* A run.log line; the log itself is left out, but the next sync is for it too.
ReceiveLog ==
    /\ Up /\ task = Idle /\ queue # << >> /\ ~failure
    /\ Head(queue).type = "Log"
    /\ queue' = Tail(queue)
    /\ \/ dirty' = TRUE /\ UNCHANGED failure
       \/ WritesMayFail /\ KeepFailure /\ UNCHANGED dirty
    /\ UNCHANGED <<files, session, clientVars, task, wpc, position, unsyncedGames, reply>>

\* A write or a sync returns an error, though all of it may have reached the
\* disk: a failed checkpoint may be in place, a failed sync complete.
WriteFails ==
    /\ WritesMayFail /\ wpc # "idle" /\ (wpc = "sync" => dirty)
    /\ TornWrite
    /\ syncedJournal' \in {syncedJournal} \cup (IF wpc = "sync" THEN {Len(journal)} ELSE {})
    /\ syncedPgn' \in {syncedPgn} \cup (IF wpc = "syncPgn" THEN {Len(pgn)} ELSE {})
    /\ checkpoint' \in {checkpoint} \cup (IF wpc = "checkpoint" THEN {Anchor} ELSE {})
    /\ KeepFailure
    /\ reply' = IF task.type = "Barrier" THEN "failed" ELSE reply
    /\ Finished
    /\ UNCHANGED <<result, session, clientVars, queue, position, dirty, unsyncedGames>>

-----------------------------------------------------------------------------
(* Crashes and resumes. *)

\* The process is gone and all it held in memory.
Down ==
    /\ client' = "down" /\ half' = 0 /\ official' = << >> /\ checkpoints' = 0
    /\ queue' = << >>
    /\ task' = Idle /\ wpc' = "idle"
    /\ nextSeq' = 1 /\ pgnOffset' = 0
    /\ dirty' = FALSE /\ unsyncedGames' = 0 /\ failure' = FALSE /\ reply' = "none"

Kill ==
    /\ Up
    /\ TornWrite
    /\ Down
    /\ UNCHANGED <<synced, checkpoint, result, session>>

\* Every file keeps what was synced and any more of it, the last entry cut.
Survives(file, length, torn) ==
    {SubSeq(file, 1, n) : n \in length..Len(file)}
        \cup {Append(SubSeq(file, 1, n), torn) : n \in length..(Len(file) - 1)}

\* result.json is renamed into place without a sync of the directory, so it may
\* be gone again (or be the one of an earlier session, which holds less).
PowerLoss ==
    /\ MayLosePower /\ session > 0
    /\ journal' \in Survives(journal, syncedJournal, TornLine)
    /\ pgn' \in Survives(pgn, syncedPgn, Torn)
    /\ syncedJournal' = Len(journal')
    /\ syncedPgn' = Len(pgn')
    /\ result' \in {result, NoResult}
    /\ Down
    /\ UNCHANGED <<checkpoint, session>>

\* The command returns; the writer syncs what is left once its channel is
\* closed, and ignores an error of that sync.
Exit ==
    /\ client \in {"done", "failed"} /\ task = Idle /\ queue = << >>
    /\ \/ ~dirty /\ UNCHANGED synced
       \/ dirty /\ syncedJournal' = Len(journal) /\ syncedPgn' = Len(pgn)
       \/ dirty /\ WritesMayFail /\ UNCHANGED synced
    /\ Down
    /\ UNCHANGED <<appended, checkpoint, result, session>>

\* truncate_to syncs the file, but only when there is something to cut.
Truncated(file, length, syncedLength) ==
    IF length < Len(file) THEN length ELSE syncedLength

RepairJournal ==
    /\ journal' = SubSeq(journal, 1, Kept)
    /\ syncedJournal' = Truncated(journal, Kept, syncedJournal)

RepairPgn ==
    /\ pgn' = SubSeq(pgn, 1, PgnEnd)
    /\ syncedPgn' = Truncated(pgn, PgnEnd, syncedPgn)

\* The process ends between the two truncations.
RepairInterrupted ==
    /\ ~Up /\ session > 0 /\ ~Refused
    /\ RepairJournal
    /\ UNCHANGED <<pgn, syncedPgn, checkpoint, result, session, clientVars, queue, writerVars>>

\* announce_resume sends a run.log line before anything else is sent.
Announced == IF session = 0 THEN << >> ELSE <<[type |-> "Log"]>>

Resume ==
    /\ ~Up /\ session < MaxSessions
    /\ ~Refused /\ IsPrefixOfSchedule(PairsFromJournal(Records))
    /\ RepairJournal /\ RepairPgn
    /\ session' = session + 1
    /\ client' = "commit"
    /\ official' = PairsFromJournal(Records)
    /\ nextSeq' = Kept + 1
    /\ pgnOffset' = PgnEnd
    /\ queue' = Announced
    /\ UNCHANGED <<checkpoint, result, half, checkpoints, task, wpc, dirty, unsyncedGames, failure, reply>>

-----------------------------------------------------------------------------
Init ==
    /\ journal = << >> /\ pgn = << >> /\ syncedJournal = 0 /\ syncedPgn = 0
    /\ checkpoint = EmptyAnchor
    /\ result = NoResult
    /\ session = 0
    /\ client = "down" /\ half = 0 /\ official = << >> /\ checkpoints = 0
    /\ queue = << >>
    /\ task = Idle /\ wpc = "idle"
    /\ nextSeq = 1 /\ pgnOffset = 0
    /\ dirty = FALSE /\ unsyncedGames = 0 /\ failure = FALSE /\ reply = "none"

ClientNext ==
    \/ CommitGame \/ CheckpointDue \/ CheckpointNotDue
    \/ Finish \/ ScheduleFails \/ SendResult \/ Settle \/ Settled \/ SendFails

WriterNext ==
    \/ Receive \/ ReceiveLog \/ Discard \/ Timeout
    \/ AppendMoves \/ AppendLine
    \/ SyncJournal \/ SyncPgn \/ NothingToSync
    \/ WriteCheckpoint \/ WriteResult \/ WriteFails

Next ==
    \/ ClientNext \/ WriterNext
    \/ Kill \/ PowerLoss \/ Exit \/ RepairInterrupted \/ Resume

Spec == Init /\ [][Next]_vars

\* The client's task and the writer's blocking thread are both scheduled.
FairSpec == Spec /\ WF_vars(ClientNext) /\ WF_vars(WriterNext)

-----------------------------------------------------------------------------
(* Properties. *)

\* Whatever the run was doing when it ended, its directory can be resumed:
\* load_journal accepts it and the pairs it holds are a full prefix of the
\* schedule, so that validate_completed_prefix accepts them too.
AlwaysResumable ==
    ~Refused /\ IsPrefixOfSchedule(PairsFromJournal(Records))

\* While a run is up, failed or not, every complete journal line names the place
\* in games.pgn where its game's moves are, and no line is missing before it: a
\* line whose moves are missing is worse than no line at all.
LinesHaveMoves ==
    Up => \A i \in DOMAIN journal :
              Valid(journal[i]) => journal[i].seq = i /\ MovesPresent(journal[i])

\* The lines a load keeps whose line and moves are both on disk.
Durable ==
    Cardinality({i \in 1..Kept : i <= syncedJournal /\ journal[i].at <= syncedPgn})

\* A final report in the directory rests on games that are all on disk.
ResultBacked ==
    result \subseteq {journal[i].game : i \in 1..Durable}

\* Once settle has answered, every game the run counts is on disk.
SettledIsDurable ==
    client = "done" => GamesOf(official) \subseteq {journal[i].game : i \in 1..Durable}

\* The games of the directory are a log that crashes cut at its unsynced end.
RunLog == INSTANCE DurableLog WITH log <- Records, durable <- Durable

ImplementsLog == RunLog!Spec

\* Every pair a resume counts is a pair of opposite colours.
PairsAreColourReversed ==
    \A i \in DOMAIN PairsFromJournal(Records) :
        LET pair == PairsFromJournal(Records)[i] IN pair[1].half # pair[2].half

\* A run that is not killed ends: neither the bounded queue, nor a writer that
\* has failed, nor the barrier the command ends on leaves it waiting.
RunEnds == (client = "commit") ~> (client \in {"done", "failed", "down"})

=============================================================================
