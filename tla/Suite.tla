-------------------------------- MODULE Suite --------------------------------
(***************************************************************************)
(* `colosseum-cli suite`: RunSuite::execute searches the entries of a      *)
(* position set one by one and commits each to a checkpoint, the suite     *)
(* driver opens, resumes, reports and records the run, and RunRecorder     *)
(* keeps run-record.json.  The checkpoint is the one of CheckpointFiles,   *)
(* each of its file operations a step of the suite; here is what each      *)
(* checkpoint holds and who reads it.                                      *)
(*                                                                         *)
(* The run directory is one a user names with --dir, so that a later       *)
(* invocation finds it.  --restart, which starts from another directory,   *)
(* and the search itself, which is a call of EngineProcess, are left out.  *)
(***************************************************************************)
EXTENDS CheckpointFiles, FiniteSetsExt

CONSTANT
    EntryCount         \* lines of the position set

\* A position set without an entry is refused.
ASSUME SuiteAssumption == EntryCount \in Nat \ {0}

Entries == 1..EntryCount
NoEntry == 0
Status == {"absent", "running", "completed", "cancelled", "aborted", "invalid"}
Papers == [result : SUBSET Entries, record : Status]

VARIABLES
    malformed,         \* the lines the parser could not make a position of
    directory,         \* "none", "made", or "identified": config.sha256 is in it
    identityOnDisk,    \* whether the bytes of config.sha256 have reached the disk
    papers,            \* the entries in result.json and the status in run-record.json
    snapshots,         \* the checkpoints' listing and the papers, since the last sync
    contents,          \* the entries each checkpoint holds
    phase,             \* where the invocation stands, "off" when there is none
    held,              \* the results it has
    entry,             \* the entry it searches or commits
    stopping,          \* Cancellation::stopping
    committed          \* the entries whose commit returned Ok, of all invocations

onDisk == <<directory, identityOnDisk, papers, contents>>
invocation == <<phase, held, entry, stopping>>
suiteVars == <<onDisk, invocation, committed>>

\* A power loss brings back the directory as it was at one moment since its last
\* sync, not each name as it was at another.
Snapshot == [files |-> listing, papers |-> papers]

Leave == phase' = "off" /\ held' = {} /\ entry' = NoEntry /\ stopping' = FALSE

\* Drop for RunRecorder: an owner that returns early records an abort, if it can.
Aborts ==
    /\ \/ papers' = [papers EXCEPT !.record = "aborted"]
       \/ WritesMayFail /\ UNCHANGED papers
    /\ Leave
    /\ UNCHANGED <<directory, identityOnDisk, contents, committed>>

-----------------------------------------------------------------------------
(* Opening the run directory, and the record. *)

MakeDirectory ==
    /\ phase = "off" /\ directory = "none"
    /\ directory' = "made" /\ phase' = "initialize"
    /\ UNCHANGED <<identityOnDisk, papers, contents, held, entry, stopping,
                   committed, vars>>

\* ResolvedConfig::write_to writes three files and syncs none of them.
Initialize ==
    /\ phase = "initialize"
    /\ directory' = "identified" /\ phase' = "begin"
    /\ UNCHANGED <<identityOnDisk, papers, contents, held, entry, stopping,
                   committed, vars>>

InitializeFails ==
    /\ WritesMayFail /\ phase = "initialize"
    /\ directory' \in {"made", "identified"}
    /\ Leave
    /\ UNCHANGED <<identityOnDisk, papers, contents, committed, vars>>

Begin ==
    /\ phase = "begin"
    /\ papers' = [papers EXCEPT !.record = "running"]
    /\ phase' = "run"
    /\ UNCHANGED <<directory, identityOnDisk, contents, held, entry, stopping, committed, vars>>

BeginFails ==
    /\ WritesMayFail /\ phase = "begin"
    /\ Leave
    /\ UNCHANGED <<onDisk, committed, vars>>

\* open_explicit wants the identity, RunRecorder::resume a record that is
\* neither completed nor invalid.
Resumable == directory = "identified" /\ papers.record \in {"running", "cancelled", "aborted"}

Resume ==
    /\ phase = "off" /\ Resumable
    /\ papers' = [papers EXCEPT !.record = "running"]
    /\ phase' = "load"
    /\ UNCHANGED <<directory, identityOnDisk, contents, held, entry, stopping, committed, vars>>

\* Mutant: a checkpoint that is not the current one is taken for none.
Load_CurrentOnly ==
    /\ phase = "load"
    /\ held' = IF Readable(listing.current) THEN contents[listing.current] ELSE {}
    /\ phase' = "run"
    /\ UNCHANGED <<onDisk, entry, stopping, committed, vars>>

Load ==
    /\ phase = "load" /\ Readable(Read(listing))
    /\ held' = contents[Read(listing)]
    /\ phase' = "run"
    /\ UNCHANGED <<onDisk, entry, stopping, committed, vars>>

\* No checkpoint was ever written: the run cannot be resumed.
LoadFails ==
    /\ phase = "load" /\ ~Readable(Read(listing))
    /\ Aborts
    /\ UNCHANGED vars

-----------------------------------------------------------------------------
(* RunSuite::execute *)

Pending == Entries \ held

Search ==
    /\ phase = "run" /\ Pending # {} /\ Pending \cap malformed = {}
    /\ entry' = Min(Pending)
    /\ phase' = "search"
    /\ UNCHANGED <<onDisk, held, stopping, committed, vars>>

\* DurableSuiteProgress::commit, as far as the checkpoint's first operation.
Commit(e) ==
    /\ Create
    /\ contents' = [contents EXCEPT ![writing'] = held \cup {e}]
    /\ held' = held \cup {e} /\ entry' = e
    /\ phase' = "commit"
    /\ UNCHANGED <<directory, identityOnDisk, papers, stopping, committed>>

CommitMalformed ==
    /\ phase = "run" /\ Pending \cap malformed # {}
    /\ Commit(Min(Pending \cap malformed))

Answer ==
    /\ phase = "search"
    /\ Commit(entry)

\* The file operations in between.
WriteOn ==
    /\ Write \/ SyncTemporary \/ NothingToRotate \/ RemovePrevious \/ Rotate \/ Publish
    /\ UNCHANGED suiteVars

Committed ==
    /\ SyncDirectory
    /\ committed' = committed \cup {entry}
    /\ phase' = "sample"
    /\ UNCHANGED <<onDisk, held, entry, stopping>>

WriteFails ==
    /\ Fails
    /\ Aborts

\* update_sample, which leaves the status as it is.  The stop is looked at after
\* a position, not after a malformed line.
Sample ==
    /\ phase = "sample"
    /\ phase' = IF stopping /\ entry \notin malformed THEN "report" ELSE "run"
    /\ entry' = NoEntry
    /\ UNCHANGED <<onDisk, held, stopping, committed, vars>>

NothingPending ==
    /\ phase = "run" /\ Pending = {}
    /\ phase' = "report"
    /\ UNCHANGED <<onDisk, held, entry, stopping, committed, vars>>

\* The engine does not open, loses its protocol, misses its deadline or does
\* not shut down; the baseline cannot be compared; or the workflow, the sample
\* or the report cannot be written.
RunFails ==
    /\ \/ phase = "run" /\ Pending # {} /\ Pending \cap malformed = {}
       \/ phase \in {"search", "report"}
       \/ phase \in {"load", "run", "sample"} /\ WritesMayFail
    /\ Aborts
    /\ UNCHANGED vars

-----------------------------------------------------------------------------
(* The report and the record of a run that returned. *)

Report ==
    /\ phase = "report"
    /\ papers' = [papers EXCEPT !.result = held]
    /\ phase' = "finish"
    /\ UNCHANGED <<directory, identityOnDisk, contents, held, entry, stopping, committed, vars>>

\* Mutant: whatever was searched is the suite.
FinalStatus_Unchecked ==
    IF held \cap malformed # {} THEN "invalid" ELSE "completed"

FinalStatus ==
    IF held \cap malformed # {} THEN "invalid"
    ELSE IF held # Entries THEN "cancelled"
    ELSE "completed"

\* The status in memory is final, so Drop does not write when finish fails.
Finish ==
    /\ phase = "finish"
    /\ \/ papers' = [papers EXCEPT !.record = FinalStatus]
       \/ WritesMayFail /\ UNCHANGED papers
    /\ Leave
    /\ UNCHANGED <<directory, identityOnDisk, contents, committed, vars>>

-----------------------------------------------------------------------------
(* The user, the system, and a status reader of the live run. *)

Stop ==
    /\ phase # "off" /\ ~stopping
    /\ stopping' = TRUE
    /\ UNCHANGED <<onDisk, phase, held, entry, committed, vars>>

KillSuite ==
    /\ phase # "off"
    /\ Kill \/ (pc = "idle" /\ UNCHANGED vars)
    /\ Leave
    /\ UNCHANGED <<onDisk, committed>>

\* The kernel writes back what nobody synced.
WriteBack ==
    /\ directory = "identified" /\ ~identityOnDisk
    /\ identityOnDisk' = TRUE
    /\ UNCHANGED <<directory, papers, contents, invocation, committed, vars>>

LosePower ==
    /\ PowerLoss
    /\ \E old \in snapshots : listing' = AfterPowerLoss(old.files) /\ papers' = old.papers
    /\ directory' \in IF directory = "identified" /\ ~identityOnDisk
                      THEN {"made", "identified"} ELSE {directory}
    /\ identityOnDisk' = (directory' = "identified")
    /\ Leave
    /\ UNCHANGED <<contents, committed>>

StatusReads ==
    /\ ReadCurrent \/ ReadPrevious \/ ReaderReturns
    /\ UNCHANGED suiteVars

-----------------------------------------------------------------------------
SuiteInit ==
    /\ Init
    /\ malformed \in SUBSET Entries
    /\ directory = "none" /\ identityOnDisk = FALSE
    /\ papers = [result |-> {}, record |-> "absent"]
    /\ snapshots = {Snapshot}
    /\ contents = [c \in Generations |-> {}]
    /\ phase = "off" /\ held = {} /\ entry = NoEntry /\ stopping = FALSE
    /\ committed = {}

SuiteStep ==
    \/ MakeDirectory \/ Initialize \/ InitializeFails \/ Begin \/ BeginFails
    \/ Resume \/ Load \/ LoadFails
    \/ Search \/ CommitMalformed \/ Answer \/ WriteOn \/ WriteFails \/ Sample
    \/ NothingPending \/ RunFails \/ Report \/ Finish
    \/ Stop \/ KillSuite \/ WriteBack
    \/ StatusReads

SuiteNext ==
    /\ UNCHANGED malformed
    /\ \/ SuiteStep /\ snapshots' = snapshots \cup {Snapshot'}
       \/ Committed /\ snapshots' = IF SyncsDirectory THEN {Snapshot} ELSE snapshots
       \/ LosePower /\ snapshots' = {Snapshot'}

SuiteSpec == SuiteInit /\ [][SuiteNext]_<<vars, suiteVars, snapshots, malformed>>

-----------------------------------------------------------------------------
(* Properties. *)

SuiteTypeOK ==
    /\ malformed \subseteq Entries
    /\ directory \in {"none", "made", "identified"} /\ identityOnDisk \in BOOLEAN
    /\ papers \in Papers
    /\ Snapshot \in snapshots /\ snapshots \subseteq [files : unsynced, papers : Papers]
    /\ contents \in [Generations -> SUBSET Entries]
    /\ phase \in {"off", "initialize", "begin", "load", "run", "search", "commit", "sample",
                  "report", "finish"}
    /\ held \subseteq Entries /\ committed \subseteq Entries
    /\ entry \in Entries \cup {NoEntry}
    /\ phase \in {"search", "commit", "sample"} => entry \in Entries
    /\ stopping \in BOOLEAN

\* An entry whose commit returned is never searched again, whatever failed, was
\* killed or lost its power since: a search may cost ten minutes.
SearchedOnce == phase = "search" => entry \notin committed

\* The directories a crash may leave.
Left == {Snapshot} \cup (IF MayLosePower
                         THEN {[old EXCEPT !.files = AfterPowerLoss(@)] : old \in snapshots}
                         ELSE {})

\* A suite on record as completed is whole, after any crash too: its report and
\* the checkpoint beside it hold every entry, none of them malformed.
CompletedIsWhole ==
    \A left \in Left : left.papers.record = "completed" =>
        /\ malformed = {} /\ left.papers.result = Entries
        /\ Readable(Read(left.files)) /\ contents[Read(left.files)] = Entries

=============================================================================
