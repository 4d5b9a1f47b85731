---------------------------- MODULE CheckpointFiles ----------------------------
(***************************************************************************)
(* The two checkpoint generations of a run directory: the file operations  *)
(* of RunDirectory::write_checkpoint, one action each, an error or a crash *)
(* between any two of them, and read_checkpoint_snapshot, which a resume   *)
(* calls on a directory at rest and a status reader on a live one.         *)
(*                                                                         *)
(* A file is the number of the checkpoint it holds, Absent, or Damaged,    *)
(* which fails the envelope's checksum.  `listing` is the directory as the *)
(* process sees it; `unsynced` holds the listings since the directory was  *)
(* last synced, any of which a power loss may bring back.                  *)
(***************************************************************************)
EXTENDS Integers, Sequences

CONSTANTS
    MaxCheckpoints,    \* bound: checkpoints written
    MayLosePower,      \* whether the host, not only the process, may go down
    WritesMayFail,     \* whether a file operation may return an error
    SyncsDirectory     \* cfg(unix); sync_directory does nothing on Windows

ASSUME CheckpointsAssumption == MaxCheckpoints \in Nat
ASSUME SwitchesAssumption ==
    MayLosePower \in BOOLEAN /\ WritesMayFail \in BOOLEAN /\ SyncsDirectory \in BOOLEAN

Absent == 0
Damaged == -1
Generations == 1..MaxCheckpoints
File == Generations \cup {Absent, Damaged}
Listing == [current : File, previous : File, temporary : File]

VARIABLES
    listing, unsynced,
    synced,            \* the checkpoints whose bytes were synced
    writing,           \* the checkpoint being written, or the last one
    pc,                \* the next step of write_checkpoint, or "idle"
    acknowledged,      \* the newest checkpoint write_checkpoint returned Ok for
    reader,            \* where a status reader stands: "idle", "previous", "done"
    readerFloor,       \* the checkpoint readable when it started
    readerValue        \* what it got

disk == <<listing, unsynced, synced>>
writer == <<writing, pc, acknowledged>>
readerVars == <<reader, readerFloor, readerValue>>
vars == <<disk, writer, readerVars>>

Readable(file) == file \in Generations

\* read_checkpoint_snapshot: the current generation, or else the previous one.
Read(files) ==
    IF Readable(files.current) THEN files.current
    ELSE IF Readable(files.previous) THEN files.previous
    ELSE Absent

\* The directory changes; the change is not on the disk yet.
Change(files) ==
    /\ listing' = files
    /\ unsynced' = unsynced \cup {files}

-----------------------------------------------------------------------------
(* write_checkpoint *)

\* The temporary is a new file: its name holds the process and a counter.
Create ==
    /\ pc = "idle" /\ writing < MaxCheckpoints
    /\ writing' = writing + 1
    /\ Change([listing EXCEPT !.temporary = Damaged])
    /\ pc' = "write"
    /\ UNCHANGED <<synced, acknowledged, readerVars>>

Write ==
    /\ pc = "write"
    /\ Change([listing EXCEPT !.temporary = writing])
    /\ pc' = "sync"
    /\ UNCHANGED <<synced, writing, acknowledged, readerVars>>

\* Mutant: the temporary is renamed into place without a sync.
SyncTemporary_Skipped ==
    /\ pc = "sync"
    /\ pc' = "remove"
    /\ UNCHANGED <<disk, writing, acknowledged, readerVars>>

SyncTemporary ==
    /\ pc = "sync"
    /\ synced' = synced \cup {writing}
    /\ pc' = "remove"
    /\ UNCHANGED <<listing, unsynced, writing, acknowledged, readerVars>>

\* Only a current generation that exists is rotated.
NothingToRotate ==
    /\ pc = "remove" /\ listing.current = Absent
    /\ pc' = "publish"
    /\ UNCHANGED <<disk, writing, acknowledged, readerVars>>

RemovePrevious ==
    /\ pc = "remove" /\ listing.current # Absent
    /\ Change([listing EXCEPT !.previous = Absent])
    /\ pc' = "rotate"
    /\ UNCHANGED <<synced, writing, acknowledged, readerVars>>

Rotate ==
    /\ pc = "rotate"
    /\ Change([listing EXCEPT !.previous = listing.current, !.current = Absent])
    /\ pc' = "publish"
    /\ UNCHANGED <<synced, writing, acknowledged, readerVars>>

Publish ==
    /\ pc = "publish"
    /\ Change([listing EXCEPT !.current = listing.temporary, !.temporary = Absent])
    /\ pc' = "directory"
    /\ UNCHANGED <<synced, writing, acknowledged, readerVars>>

SyncDirectory ==
    /\ pc = "directory"
    /\ unsynced' = IF SyncsDirectory THEN {listing} ELSE unsynced
    /\ acknowledged' = writing
    /\ pc' = "idle"
    /\ UNCHANGED <<listing, synced, writing, readerVars>>

\* An error removes the temporary; the writer writes nothing more until the
\* next invocation, which comes to the same as the next checkpoint here.
Fails ==
    /\ WritesMayFail /\ pc # "idle"
    /\ Change([listing EXCEPT !.temporary = Absent])
    /\ pc' = "idle"
    /\ UNCHANGED <<synced, writing, acknowledged, readerVars>>

-----------------------------------------------------------------------------
(* Crashes.  A temporary a crash left behind is never opened again. *)

Kill ==
    /\ pc # "idle"
    /\ Change([listing EXCEPT !.temporary = Absent])
    /\ pc' = "idle"
    /\ UNCHANGED <<synced, writing, acknowledged, readerVars>>

\* The bytes of a file that was not synced are not all there.
OnDisk(file) == IF Readable(file) /\ file \notin synced THEN Damaged ELSE file

AfterPowerLoss(files) ==
    [current |-> OnDisk(files.current), previous |-> OnDisk(files.previous), temporary |-> Absent]

PowerLoss ==
    /\ MayLosePower
    /\ \E files \in unsynced : listing' = AfterPowerLoss(files)
    /\ unsynced' = {listing'}
    /\ pc' = "idle"
    /\ reader' = "idle" /\ readerFloor' = Absent /\ readerValue' = Absent
    /\ UNCHANGED <<synced, writing, acknowledged>>

-----------------------------------------------------------------------------
(* A status reader of a live run: two opens with the writer in between. *)

\* Mutant: the previous generation is read first.
ReadCurrent_Previous ==
    /\ reader = "idle" /\ Read(listing) # Absent
    /\ readerFloor' = Read(listing)
    /\ reader' = "done"
    /\ readerValue' = IF Readable(listing.previous) THEN listing.previous ELSE listing.current
    /\ UNCHANGED <<disk, writer>>

ReadCurrent ==
    /\ reader = "idle" /\ Read(listing) # Absent
    /\ readerFloor' = Read(listing)
    /\ IF Readable(listing.current)
       THEN reader' = "done" /\ readerValue' = listing.current
       ELSE reader' = "previous" /\ readerValue' = Absent
    /\ UNCHANGED <<disk, writer>>

ReadPrevious ==
    /\ reader = "previous"
    /\ reader' = "done"
    /\ readerValue' = IF Readable(listing.previous) THEN listing.previous ELSE Absent
    /\ UNCHANGED <<disk, writer, readerFloor>>

ReaderReturns ==
    /\ reader = "done"
    /\ reader' = "idle" /\ readerFloor' = Absent /\ readerValue' = Absent
    /\ UNCHANGED <<disk, writer>>

-----------------------------------------------------------------------------
Init ==
    /\ listing = [current |-> Absent, previous |-> Absent, temporary |-> Absent]
    /\ unsynced = {listing}
    /\ synced = {}
    /\ writing = 0 /\ pc = "idle" /\ acknowledged = 0
    /\ reader = "idle" /\ readerFloor = Absent /\ readerValue = Absent

Next ==
    \/ Create \/ Write \/ SyncTemporary \/ NothingToRotate \/ RemovePrevious \/ Rotate
    \/ Publish \/ SyncDirectory \/ Fails
    \/ Kill \/ PowerLoss
    \/ ReadCurrent \/ ReadPrevious \/ ReaderReturns

Spec == Init /\ [][Next]_vars

-----------------------------------------------------------------------------
(* Properties. *)

\* Every listing a crash may leave: the one the process sees, and with a power
\* loss any since the last directory sync, with only the synced bytes.
AfterCrash == {listing} \cup (IF MayLosePower THEN {AfterPowerLoss(f) : f \in unsynced} ELSE {})

\* Whatever crash comes now, the next resume reads a checkpoint no older than
\* the newest one write_checkpoint returned Ok for.
AcknowledgedStays == \A files \in AfterCrash : Read(files) >= acknowledged

\* A status reader gets a checkpoint at least as new as the one there was when
\* it started, or an error if a whole checkpoint was written between its opens.
ReadsAreFresh ==
    reader = "done" => readerValue >= readerFloor \/ readerValue = Absent

=============================================================================
