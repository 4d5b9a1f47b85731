----------------------------- MODULE SuiteProofs -----------------------------
(***************************************************************************)
(* For any number of checkpoints and a position set of any size, with      *)
(* errors, kills and power losses between any two file operations: the     *)
(* checkpoint files keep what was acknowledged and a status reader gets    *)
(* nothing stale; the suite writes its checkpoints as CheckpointFiles      *)
(* does; and, where directories are synced, no committed entry is searched *)
(* again.                                                                  *)
(***************************************************************************)
EXTENDS Suite, WellFoundedInduction, TLAPS

-----------------------------------------------------------------------------
(* The checkpoint files. *)

\* A file is whole, and on the disk with all its bytes, or there is none.
Whole(file) == file = Absent \/ file \in synced

\* The types the argument needs.
FilesType ==
    /\ writing \in 0..MaxCheckpoints
    /\ acknowledged \in 0..writing
    /\ synced \subseteq Generations
    /\ listing \in unsynced /\ unsynced \subseteq Listing
    /\ pc \in {"idle", "write", "sync", "remove", "rotate", "publish", "directory"}

\* What each step of write_checkpoint may rely on.
Steps ==
    /\ pc # "idle" => writing \in Generations
    /\ pc \in {"sync", "remove", "rotate", "publish"} => listing.temporary = writing
    /\ pc \in {"remove", "rotate", "publish"} => writing \in synced
    /\ pc = "rotate" => listing.current # Absent /\ listing.previous = Absent
    /\ pc = "publish" => listing.current = Absent
    /\ pc = "directory" => listing.current = writing

\* Every listing a power loss may bring back leads to an acknowledged
\* checkpoint or a newer one.
Recoverable ==
    \A files \in unsynced :
        /\ Whole(files.current) /\ Whole(files.previous)
        /\ Read(files) >= acknowledged

FilesInv == FilesType /\ Steps /\ Recoverable

-----------------------------------------------------------------------------
LEMMA FilesInit == Init => FilesInv
<1> SUFFICES ASSUME Init
             PROVE  FilesInv
  OBVIOUS
<1>1. FilesType
  BY CheckpointsAssumption DEF Init, FilesType, Listing, File, Generations, Absent, Damaged
<1>2. Steps
  BY DEF Init, Steps
<1>3. Recoverable
  BY DEF Init, Recoverable, Whole, Read, Readable, Generations, Absent
<1> QED
  BY <1>1, <1>2, <1>3 DEF FilesInv

\* Bytes that are all synced survive a power loss.
LEMMA WholeOnDisk ==
    ASSUME FilesInv, NEW files \in unsynced
    PROVE  /\ AfterPowerLoss(files).current = files.current
           /\ AfterPowerLoss(files).previous = files.previous
           /\ Read(AfterPowerLoss(files)) = Read(files)
<1>1. Whole(files.current) /\ Whole(files.previous)
  BY DEF FilesInv, Recoverable
<1>2. OnDisk(files.current) = files.current /\ OnDisk(files.previous) = files.previous
  BY <1>1, CheckpointsAssumption DEF OnDisk, Whole, Readable, Absent, Damaged, Generations
<1> QED
  BY <1>2 DEF AfterPowerLoss, Read

\* A step of write_checkpoint that changes the directory, and no file of it
\* into one that is not whole, keeps what was recoverable.
LEMMA ChangeStep ==
    ASSUME FilesInv, NEW files \in Listing, Change(files),
           Whole(files.current), Whole(files.previous), Read(files) >= acknowledged,
           UNCHANGED <<synced, acknowledged>>
    PROVE  Recoverable' /\ listing' \in unsynced' /\ unsynced' \subseteq Listing
<1>1. unsynced' = unsynced \cup {files} /\ listing' = files
  BY DEF Change
<1>2. \A f \in unsynced' : Whole(f.current) /\ Whole(f.previous) /\ Read(f) >= acknowledged
  BY <1>1 DEF FilesInv, Recoverable
<1>3. Recoverable'
  BY <1>2 DEF Recoverable, Whole, Read
<1> QED
  BY <1>1, <1>3 DEF FilesInv, FilesType

LEMMA TemporaryStep ==
    ASSUME FilesInv, NEW file \in File, Change([listing EXCEPT !.temporary = file]),
           UNCHANGED <<synced, acknowledged>>
    PROVE  /\ Recoverable' /\ listing' \in unsynced' /\ unsynced' \subseteq Listing
           /\ listing'.temporary = file /\ listing'.current = listing.current
           /\ listing'.previous = listing.previous
<1> DEFINE files == [listing EXCEPT !.temporary = file]
<1>0. listing \in Listing /\ listing \in unsynced
  BY DEF FilesInv, FilesType
<1>1. /\ files \in Listing /\ files.temporary = file
      /\ files.current = listing.current /\ files.previous = listing.previous
  BY <1>0 DEF Listing
<1>2. Whole(files.current) /\ Whole(files.previous) /\ Read(files) >= acknowledged
  BY <1>0, <1>1 DEF FilesInv, Recoverable, Read
<1>3. Change(files)
  OBVIOUS
<1>4. listing' = files
  BY DEF Change
<1> HIDE DEF files
<1> QED
  BY <1>1, <1>2, <1>3, <1>4, ChangeStep

LEMMA CreateStep == ASSUME FilesInv, Create PROVE FilesInv'
<1>1. Damaged \in File
  BY DEF File
<1>2. Recoverable' /\ listing' \in unsynced' /\ unsynced' \subseteq Listing
  BY <1>1, TemporaryStep DEF Create
<1>3. FilesType' /\ writing' \in Generations
  BY <1>2, CheckpointsAssumption DEF FilesInv, FilesType, Create, Generations
<1>4. Steps'
  BY <1>3 DEF Steps, Create
<1> QED
  BY <1>2, <1>3, <1>4 DEF FilesInv

LEMMA WriteStep == ASSUME FilesInv, Write PROVE FilesInv'
<1>1. writing \in Generations /\ writing \in File
  BY DEF FilesInv, Steps, Write, File
<1>2. /\ Recoverable' /\ listing' \in unsynced' /\ unsynced' \subseteq Listing
      /\ listing'.temporary = writing
  BY <1>1, TemporaryStep DEF Write
<1>3. FilesType'
  BY <1>2 DEF FilesInv, FilesType, Write
<1>4. Steps'
  BY <1>1, <1>2 DEF Steps, Write
<1> QED
  BY <1>2, <1>3, <1>4 DEF FilesInv

LEMMA SyncTemporaryStep == ASSUME FilesInv, SyncTemporary PROVE FilesInv'
<1>1. writing \in Generations /\ listing.temporary = writing
  BY DEF FilesInv, Steps, SyncTemporary
<1>2. FilesType' /\ Steps'
  BY <1>1 DEF FilesInv, FilesType, Steps, SyncTemporary
<1>3. Recoverable'
  BY DEF FilesInv, Recoverable, Whole, Read, SyncTemporary
<1> QED
  BY <1>2, <1>3 DEF FilesInv

LEMMA NothingToRotateStep == ASSUME FilesInv, NothingToRotate PROVE FilesInv'
<1>1. FilesType' /\ Steps'
  BY DEF FilesInv, FilesType, Steps, NothingToRotate, disk
<1>2. Recoverable'
  BY DEF FilesInv, Recoverable, Whole, Read, NothingToRotate, disk
<1> QED
  BY <1>1, <1>2 DEF FilesInv

\* Removing the old generation leaves the current one.
LEMMA RemovePreviousStep == ASSUME FilesInv, RemovePrevious PROVE FilesInv'
<1> DEFINE files == [listing EXCEPT !.previous = Absent]
<1>0. listing \in Listing /\ listing \in unsynced
  BY DEF FilesInv, FilesType
<1>1. /\ files \in Listing /\ files.previous = Absent
      /\ files.current = listing.current /\ files.temporary = listing.temporary
  BY <1>0 DEF Listing, File
<1>2. Change(files) /\ listing' = files
  BY DEF RemovePrevious, Change
<1> HIDE DEF files
<1>3. Readable(listing.current)
  BY <1>0 DEF FilesInv, FilesType, Recoverable, Whole, Readable, RemovePrevious
<1>4. Whole(files.current) /\ Whole(files.previous) /\ Read(files) >= acknowledged
  BY <1>0, <1>1, <1>3 DEF FilesInv, Recoverable, Whole, Read
<1>5. Recoverable' /\ listing' \in unsynced' /\ unsynced' \subseteq Listing
  BY <1>1, <1>2, <1>4, ChangeStep DEF RemovePrevious
<1>6. FilesType'
  BY <1>5 DEF FilesInv, FilesType, RemovePrevious
<1>7. Steps'
  BY <1>1, <1>2 DEF FilesInv, Steps, RemovePrevious
<1> QED
  BY <1>5, <1>6, <1>7 DEF FilesInv

\* The current generation becomes the previous one, and is read as such.
LEMMA RotateStep == ASSUME FilesInv, Rotate PROVE FilesInv'
<1> DEFINE files == [listing EXCEPT !.previous = listing.current, !.current = Absent]
<1>0. listing \in Listing /\ listing \in unsynced
  BY DEF FilesInv, FilesType
<1>1. /\ files \in Listing /\ files.previous = listing.current
      /\ files.current = Absent /\ files.temporary = listing.temporary
  BY <1>0 DEF Listing, File
<1>2. Change(files) /\ listing' = files
  BY DEF Rotate, Change
<1> HIDE DEF files
<1>3. Readable(listing.current)
  BY <1>0 DEF FilesInv, FilesType, Steps, Recoverable, Whole, Readable, Rotate
<1>4. Whole(files.current) /\ Whole(files.previous) /\ Read(files) >= acknowledged
  BY <1>0, <1>1, <1>3, CheckpointsAssumption
     DEF FilesInv, Recoverable, Whole, Read, Readable, Generations, Absent
<1>5. Recoverable' /\ listing' \in unsynced' /\ unsynced' \subseteq Listing
  BY <1>1, <1>2, <1>4, ChangeStep DEF Rotate
<1>6. FilesType'
  BY <1>5 DEF FilesInv, FilesType, Rotate
<1>7. Steps'
  BY <1>1, <1>2 DEF FilesInv, Steps, Rotate
<1> QED
  BY <1>5, <1>6, <1>7 DEF FilesInv

\* What is published is newer than anything acknowledged.
LEMMA PublishStep == ASSUME FilesInv, Publish PROVE FilesInv'
<1> DEFINE files == [listing EXCEPT !.current = listing.temporary, !.temporary = Absent]
<1>0. listing \in Listing /\ listing \in unsynced
  BY DEF FilesInv, FilesType
<1>1. /\ files \in Listing /\ files.current = listing.temporary
      /\ files.previous = listing.previous
  BY <1>0 DEF Listing, File
<1>2. Change(files) /\ listing' = files
  BY DEF Publish, Change
<1> HIDE DEF files
<1>3. listing.temporary = writing /\ writing \in synced /\ writing \in Generations
  BY DEF FilesInv, Steps, Publish
<1>4. writing >= acknowledged
  BY CheckpointsAssumption DEF FilesInv, FilesType
<1>5. Whole(files.current) /\ Whole(files.previous) /\ Read(files) >= acknowledged
  BY <1>0, <1>1, <1>3, <1>4 DEF FilesInv, Recoverable, Whole, Read, Readable
<1>6. Recoverable' /\ listing' \in unsynced' /\ unsynced' \subseteq Listing
  BY <1>1, <1>2, <1>5, ChangeStep DEF Publish
<1>7. FilesType'
  BY <1>6 DEF FilesInv, FilesType, Publish
<1>8. Steps'
  BY <1>1, <1>2, <1>3 DEF Steps, Publish
<1> QED
  BY <1>6, <1>7, <1>8 DEF FilesInv

\* After the directory sync no older listing can come back.
LEMMA SyncDirectoryStep ==
    ASSUME SyncsDirectory, FilesInv, SyncDirectory
    PROVE  FilesInv'
<1>1. /\ unsynced' = {listing} /\ acknowledged' = writing /\ pc' = "idle"
      /\ UNCHANGED <<listing, synced, writing>>
  BY DEF SyncDirectory
<1>2. listing \in unsynced /\ listing.current = writing /\ writing \in Generations
  BY DEF SyncDirectory, FilesInv, FilesType, Steps
<1>3. FilesType' /\ Steps'
  BY <1>1, <1>2, CheckpointsAssumption DEF FilesInv, FilesType, Steps
<1>4. Read(listing) = writing
  BY <1>2 DEF Read, Readable
<1>5. Recoverable'
  <2>1. Whole(listing.current) /\ Whole(listing.previous)
    BY <1>2 DEF FilesInv, Recoverable
  <2> QED
    BY <1>1, <1>2, <1>4, <2>1, CheckpointsAssumption DEF Recoverable, Whole, Read, Generations
<1> QED
  BY <1>3, <1>5 DEF FilesInv

LEMMA AbortStep == ASSUME FilesInv, Fails \/ Kill PROVE FilesInv'
<1>1. /\ Change([listing EXCEPT !.temporary = Absent]) /\ pc' = "idle"
      /\ UNCHANGED <<synced, writing, acknowledged>>
  BY DEF Fails, Kill
<1>2. Absent \in File
  BY DEF File
<1>3. Recoverable' /\ listing' \in unsynced' /\ unsynced' \subseteq Listing
  BY <1>1, <1>2, TemporaryStep
<1>4. FilesType' /\ Steps'
  BY <1>1, <1>3 DEF FilesInv, FilesType, Steps
<1> QED
  BY <1>3, <1>4 DEF FilesInv

LEMMA PowerLossStep == ASSUME FilesInv, PowerLoss PROVE FilesInv'
<1>1. PICK files \in unsynced : listing' = AfterPowerLoss(files)
  BY DEF PowerLoss
<1>2. unsynced' = {listing'} /\ pc' = "idle" /\ UNCHANGED <<synced, writing, acknowledged>>
  BY DEF PowerLoss
<1>3. /\ listing'.current = files.current /\ listing'.previous = files.previous
      /\ Read(listing') = Read(files)
  BY <1>1, WholeOnDisk
<1>4. listing' \in Listing
  BY <1>1, <1>3 DEF FilesInv, FilesType, Listing, File, AfterPowerLoss
<1>5. FilesType' /\ Steps'
  BY <1>2, <1>4 DEF FilesInv, FilesType, Steps
<1>6. Recoverable'
  <2>1. Whole(files.current) /\ Whole(files.previous) /\ Read(files) >= acknowledged
    BY DEF FilesInv, Recoverable
  <2> QED
    BY <1>2, <1>3, <2>1 DEF Recoverable, Whole, Read
<1> QED
  BY <1>5, <1>6 DEF FilesInv

LEMMA ReaderStep ==
    ASSUME FilesInv, ReadCurrent \/ ReadPrevious \/ ReaderReturns \/ UNCHANGED vars
    PROVE  FilesInv'
<1>1. UNCHANGED <<listing, unsynced, synced, writing, pc, acknowledged>>
  BY DEF ReadCurrent, ReadPrevious, ReaderReturns, vars, disk, writer
<1>2. FilesType' /\ Steps'
  BY <1>1 DEF FilesInv, FilesType, Steps
<1>3. Recoverable'
  BY <1>1 DEF FilesInv, Recoverable, Whole, Read
<1> QED
  BY <1>2, <1>3 DEF FilesInv

LEMMA FilesNext == ASSUME SyncsDirectory PROVE FilesInv /\ [Next]_vars => FilesInv'
<1> SUFFICES ASSUME FilesInv, [Next]_vars
             PROVE  FilesInv'
  OBVIOUS
<1>1. CASE Create \/ Write \/ SyncTemporary \/ NothingToRotate
  BY <1>1, CreateStep, WriteStep, SyncTemporaryStep, NothingToRotateStep
<1>2. CASE RemovePrevious \/ Rotate \/ Publish \/ SyncDirectory
  BY <1>2, RemovePreviousStep, RotateStep, PublishStep, SyncDirectoryStep
<1>3. CASE Fails \/ Kill \/ PowerLoss
  BY <1>3, AbortStep, PowerLossStep
<1>4. CASE ReadCurrent \/ ReadPrevious \/ ReaderReturns \/ UNCHANGED vars
  BY <1>4, ReaderStep
<1> QED
  BY <1>1, <1>2, <1>3, <1>4 DEF Next

-----------------------------------------------------------------------------
\* Where sync_directory syncs, a checkpoint write_checkpoint returned Ok for is
\* never lost: whatever crash comes, a resume reads it or a newer one.
THEOREM AcknowledgedStaysTheorem ==
    ASSUME SyncsDirectory
    PROVE  Spec => []AcknowledgedStays
<1>1. FilesInv => AcknowledgedStays
  <2> SUFFICES ASSUME FilesInv, NEW files \in AfterCrash
               PROVE  Read(files) >= acknowledged
    BY DEF AcknowledgedStays
  <2>1. CASE files = listing
    BY <2>1 DEF FilesInv, FilesType, Recoverable
  <2>2. CASE \E f \in unsynced : files = AfterPowerLoss(f)
    <3>1. PICK f \in unsynced : files = AfterPowerLoss(f)
      BY <2>2
    <3>2. Read(files) = Read(f)
      BY <3>1, WholeOnDisk
    <3> QED
      BY <3>2 DEF FilesInv, Recoverable
  <2> QED
    BY <2>1, <2>2 DEF AfterCrash
<1> QED
  BY <1>1, FilesInit, FilesNext, PTL DEF Spec

-----------------------------------------------------------------------------
(* A status reader of a live run. *)

\* No file holds a checkpoint that was not begun.
Begun(files) ==
    files.current <= writing /\ files.previous <= writing /\ files.temporary <= writing

\* Between its two opens a reader may only miss what it saw, never go behind
\* it: no generation it can still read is older, and neither is the one that
\* is being written.
ReaderInv ==
    /\ writing \in Nat /\ writing <= MaxCheckpoints
    /\ listing \in unsynced /\ unsynced \subseteq Listing
    /\ \A files \in unsynced : Begun(files)
    /\ pc \in {"sync", "remove", "rotate", "publish"} => listing.temporary = writing
    /\ reader = "previous" =>
          /\ readerFloor \in Generations /\ readerFloor <= writing
          /\ Readable(listing.current) => listing.current >= readerFloor
          /\ Readable(listing.previous) => listing.previous >= readerFloor
    /\ ReadsAreFresh

LEMMA ReaderInit == Init => ReaderInv
BY CheckpointsAssumption
   DEF Init, ReaderInv, Listing, File, Generations, Absent, Damaged, Begun, ReadsAreFresh

\* A step of write_checkpoint, or its end, with the reader where it was.
LEMMA WriterStep ==
    ASSUME ReaderInv, NEW files \in Listing, listing' = files,
           unsynced' \subseteq unsynced \cup {files},
           files \in unsynced', UNCHANGED readerVars,
           writing' \in Nat, writing <= writing', writing' <= MaxCheckpoints,
           files.temporary <= writing',
           pc' \in {"sync", "remove", "rotate", "publish"} => files.temporary = writing',
           files.current \in {listing.current, Absent, writing},
           files.previous \in {listing.previous, listing.current, Absent}
    PROVE  ReaderInv'
<1>1. writing \in Nat /\ MaxCheckpoints \in Nat
  BY CheckpointsAssumption DEF ReaderInv
<1>2. \A file \in File : file \in Int
  BY <1>1 DEF File, Generations, Absent, Damaged
<1>3. ASSUME NEW f \in unsynced PROVE f \in Listing /\ Begun(f)'
  <2>1. f \in Listing /\ Begun(f)
    BY DEF ReaderInv
  <2>2. f.current \in Int /\ f.previous \in Int /\ f.temporary \in Int
    BY <1>2, <2>1 DEF Listing
  <2> QED
    BY <1>1, <2>1, <2>2 DEF Begun
<1>4. /\ listing \in Listing /\ listing.current <= writing' /\ listing.previous <= writing'
      /\ listing.current \in Int /\ listing.previous \in Int
  <2>1. listing \in unsynced
    BY DEF ReaderInv
  <2> QED
    BY <1>2, <1>3, <2>1 DEF Begun, Listing
<1>5. files.current <= writing' /\ files.previous <= writing'
  BY <1>1, <1>4 DEF Absent
<1>6. \A f \in unsynced' : f \in Listing /\ Begun(f)'
  BY <1>3, <1>5 DEF Begun
<1>7. ASSUME reader = "previous"
      PROVE  /\ readerFloor \in Generations /\ readerFloor <= writing'
             /\ Readable(files.current) => files.current >= readerFloor
             /\ Readable(files.previous) => files.previous >= readerFloor
  <2>1. /\ readerFloor \in Generations /\ readerFloor <= writing
        /\ Readable(listing.current) => listing.current >= readerFloor
        /\ Readable(listing.previous) => listing.previous >= readerFloor
    BY <1>7 DEF ReaderInv
  <2>2. ~Readable(Absent) /\ readerFloor \in Int
    BY <1>1, <2>1 DEF Readable, Generations, Absent
  <2> QED
    BY <1>1, <2>1, <2>2
<1>8. UNCHANGED <<reader, readerFloor, readerValue>>
  BY DEF readerVars
<1>9. ReadsAreFresh'
  BY <1>8 DEF ReaderInv, ReadsAreFresh
<1>10. \A file : Readable(file)' <=> Readable(file)
  BY DEF Readable
<1> QED
  BY <1>6, <1>7, <1>8, <1>9, <1>10 DEF ReaderInv

LEMMA ReaderFollowsWriter ==
    ASSUME ReaderInv,
           \/ Create \/ Write \/ SyncTemporary \/ NothingToRotate \/ RemovePrevious \/ Rotate
           \/ Publish \/ SyncDirectory \/ Fails \/ Kill
    PROVE  ReaderInv'
<1>1. /\ writing \in Nat /\ writing <= MaxCheckpoints /\ MaxCheckpoints \in Nat
      /\ listing \in unsynced /\ listing \in Listing /\ Begun(listing)
      /\ pc \in {"sync", "remove", "rotate", "publish"} => listing.temporary = writing
  BY CheckpointsAssumption DEF ReaderInv
<1>2. /\ Absent \in File /\ Damaged \in File /\ writing \in File
      /\ listing.temporary \in File /\ listing.current \in File /\ listing.previous \in File
      /\ listing.temporary <= writing
      /\ Absent <= writing /\ Damaged <= writing
  BY <1>1 DEF File, Generations, Absent, Damaged, Listing, Begun
<1>3. CASE Create
  <2>1. /\ writing' = writing + 1 /\ writing < MaxCheckpoints /\ pc' = "write"
        /\ listing' = [listing EXCEPT !.temporary = Damaged]
        /\ unsynced' = unsynced \cup {listing'} /\ UNCHANGED readerVars
    BY <1>3 DEF Create, Change
  <2>2. PICK files : files = [listing EXCEPT !.temporary = Damaged]
    OBVIOUS
  <2>3. /\ files \in Listing /\ files.temporary = Damaged
        /\ files.current = listing.current /\ files.previous = listing.previous
    BY <1>1, <1>2, <2>2 DEF Listing
  <2>4. writing' \in Nat /\ writing <= writing' /\ writing' <= MaxCheckpoints /\ Damaged <= writing'
    BY <1>1, <2>1 DEF Damaged
  <2> QED
    BY <2>1, <2>2, <2>3, <2>4, WriterStep
<1>4. CASE Write \/ Fails \/ Kill
  <2>1. PICK file \in {writing, Absent} :
           /\ listing' = [listing EXCEPT !.temporary = file]
           /\ pc' \in {"sync", "remove", "rotate", "publish"} => file = writing
    BY <1>4 DEF Write, Fails, Kill, Change
  <2>2. unsynced' = unsynced \cup {listing'} /\ UNCHANGED readerVars /\ writing' = writing
    BY <1>4 DEF Write, Fails, Kill, Change
  <2>3. PICK files : files = [listing EXCEPT !.temporary = file]
    OBVIOUS
  <2>4. /\ files \in Listing /\ files.temporary = file /\ file <= writing
        /\ files.current = listing.current /\ files.previous = listing.previous
    BY <1>1, <1>2, <2>3 DEF Listing
  <2>5. /\ listing' = files /\ unsynced' = unsynced \cup {files}
        /\ writing' \in Nat /\ writing <= writing' /\ writing' <= MaxCheckpoints
        /\ files.temporary <= writing'
        /\ pc' \in {"sync", "remove", "rotate", "publish"} => files.temporary = writing'
    BY <1>1, <2>1, <2>2, <2>3, <2>4
  <2> QED
    BY <2>2, <2>4, <2>5, WriterStep
<1>5. CASE SyncTemporary \/ NothingToRotate \/ SyncDirectory
  <2>1. /\ listing' = listing /\ unsynced' \subseteq unsynced \cup {listing} /\ listing \in unsynced'
        /\ UNCHANGED readerVars /\ writing' = writing
        /\ pc' \in {"sync", "remove", "rotate", "publish"} => listing.temporary = writing
    BY <1>1, <1>5 DEF SyncTemporary, NothingToRotate, SyncDirectory, disk
  <2> QED
    BY <1>1, <1>2, <2>1, WriterStep
<1>6. CASE RemovePrevious
  <2>1. PICK files : files = [listing EXCEPT !.previous = Absent]
    OBVIOUS
  <2>2. /\ listing' = files /\ unsynced' = unsynced \cup {files} /\ UNCHANGED readerVars
        /\ writing' = writing /\ listing.temporary = writing
    BY <1>1, <1>6, <2>1 DEF RemovePrevious, Change
  <2>3. /\ files \in Listing /\ files.temporary = listing.temporary
        /\ files.current = listing.current /\ files.previous = Absent
    BY <1>1, <1>2, <2>1 DEF Listing
  <2> QED
    BY <1>1, <1>2, <2>2, <2>3, WriterStep
<1>7. CASE Rotate
  <2>1. PICK files : files = [listing EXCEPT !.previous = listing.current, !.current = Absent]
    OBVIOUS
  <2>2. /\ listing' = files /\ unsynced' = unsynced \cup {files} /\ UNCHANGED readerVars
        /\ writing' = writing /\ listing.temporary = writing
    BY <1>1, <1>7, <2>1 DEF Rotate, Change
  <2>3. /\ files \in Listing /\ files.temporary = listing.temporary
        /\ files.current = Absent /\ files.previous = listing.current
    BY <1>1, <1>2, <2>1 DEF Listing
  <2> QED
    BY <1>1, <1>2, <2>2, <2>3, WriterStep
<1>8. CASE Publish
  <2>1. PICK files : files = [listing EXCEPT !.current = listing.temporary, !.temporary = Absent]
    OBVIOUS
  <2>2. /\ listing' = files /\ unsynced' = unsynced \cup {files} /\ UNCHANGED readerVars
        /\ writing' = writing /\ listing.temporary = writing /\ pc' = "directory"
    BY <1>1, <1>8, <2>1 DEF Publish, Change
  <2>3. /\ files \in Listing /\ files.temporary = Absent
        /\ files.current = listing.temporary /\ files.previous = listing.previous
    BY <1>1, <1>2, <2>1 DEF Listing
  <2> QED
    BY <1>1, <1>2, <2>2, <2>3, WriterStep
<1> QED
  BY <1>3, <1>4, <1>5, <1>6, <1>7, <1>8

LEMMA ReaderAfterPowerLoss == ASSUME ReaderInv, PowerLoss PROVE ReaderInv'
<1>1. PICK files \in unsynced : listing' = AfterPowerLoss(files)
  BY DEF PowerLoss
<1>2. /\ unsynced' = {listing'} /\ pc' = "idle" /\ reader' = "idle" /\ writing' = writing
  BY DEF PowerLoss
<1>3. files \in Listing /\ Begun(files) /\ writing \in Nat
  BY DEF ReaderInv
<1>4. \A file : OnDisk(file) \in {file, Damaged}
  BY DEF OnDisk
<1>5. listing' \in Listing
  BY <1>1, <1>3, <1>4 DEF AfterPowerLoss, Listing, File
<1>6. Begun(listing')
  BY <1>1, <1>3, <1>4 DEF AfterPowerLoss, Begun, Damaged, Absent
<1> QED
  BY <1>2, <1>3, <1>5, <1>6 DEF ReaderInv, ReadsAreFresh, Begun

LEMMA ReaderReads ==
    ASSUME ReaderInv, ReadCurrent \/ ReadPrevious \/ ReaderReturns \/ UNCHANGED vars
    PROVE  ReaderInv'
<1>1. UNCHANGED <<listing, unsynced, writing, pc>>
  BY DEF ReadCurrent, ReadPrevious, ReaderReturns, vars, disk, writer
<1>2. \A files \in unsynced' : Begun(files)'
  BY <1>1 DEF ReaderInv, Begun
<1>3. /\ listing.current <= writing /\ listing.previous <= writing /\ MaxCheckpoints \in Nat
  BY CheckpointsAssumption DEF ReaderInv, Begun
<1>4. CASE ReadCurrent
  <2>1. readerFloor' = Read(listing) /\ Read(listing) # Absent
    BY <1>4 DEF ReadCurrent
  <2>2. readerFloor' \in Generations /\ readerFloor' \in Int /\ readerFloor' <= writing
    BY <1>3, <2>1 DEF Read, Readable, Generations
  <2>3. CASE Readable(listing.current)
    <3>1. reader' = "done" /\ readerValue' = listing.current /\ readerFloor' = listing.current
      BY <1>4, <2>1, <2>3 DEF ReadCurrent, Read
    <3> QED
      BY <1>1, <1>2, <2>2, <3>1 DEF ReaderInv, ReadsAreFresh, Generations
  <2>4. CASE ~Readable(listing.current)
    <3>1. reader' = "previous" /\ readerFloor' = listing.previous
      BY <1>4, <2>1, <2>4 DEF ReadCurrent, Read
    <3> QED
      BY <1>1, <1>2, <2>2, <2>4, <3>1 DEF ReaderInv, ReadsAreFresh, Readable
  <2> QED
    BY <2>3, <2>4
<1>5. CASE ReadPrevious
  <2>1. ReadsAreFresh'
    BY <1>5 DEF ReadPrevious, ReaderInv, ReadsAreFresh
  <2> QED
    BY <1>1, <1>2, <1>5, <2>1 DEF ReaderInv, ReadPrevious
<1>6. CASE ReaderReturns
  BY <1>1, <1>2, <1>6 DEF ReaderInv, ReaderReturns, ReadsAreFresh
<1>7. CASE UNCHANGED vars
  <2>1. UNCHANGED <<reader, readerFloor, readerValue>>
    BY <1>7 DEF vars, readerVars
  <2> QED
    BY <1>1, <1>2, <2>1 DEF ReaderInv, ReadsAreFresh, Readable
<1> QED
  BY <1>4, <1>5, <1>6, <1>7

LEMMA ReaderNext == ReaderInv /\ [Next]_vars => ReaderInv'
BY ReaderFollowsWriter, ReaderAfterPowerLoss, ReaderReads DEF Next

\* read_checkpoint_snapshot on a live run, whose two opens may be any number of
\* rotations apart: what it returns is never older than what there was to read
\* when it started.  No directory sync is needed for it.
THEOREM ReadsAreFreshTheorem == Spec => []ReadsAreFresh
<1>1. ReaderInv => ReadsAreFresh
  BY DEF ReaderInv
<1> QED
  BY <1>1, ReaderInit, ReaderNext, PTL DEF Spec

-----------------------------------------------------------------------------
(* The suite. *)

suiteState == <<vars, suiteVars, snapshots, malformed>>

\* The phases of an invocation that has its results.
Holding == {"run", "search", "commit", "sample", "report", "finish"}

\* The types the argument needs.
SuiteTypes ==
    /\ DOMAIN contents = Generations
    /\ phase = "commit" <=> pc # "idle"

\* Every checkpoint a crash may leave holds what was committed, and so does an
\* invocation that has loaded one.
Kept ==
    /\ \A files \in unsynced : Begun(files)
    /\ acknowledged = 0 => committed = {}
    /\ \A c \in Generations : acknowledged <= c /\ c <= writing => committed \subseteq contents[c]
    /\ phase \in Holding => committed \subseteq held
    /\ phase = "commit" => entry \in held /\ entry \in contents[writing]
    /\ phase = "search" => entry \notin held
    /\ directory = "none" => phase = "off" /\ committed = {}
    /\ phase \in {"initialize", "begin"} => committed = {}

SuiteInv == FilesInv /\ SuiteTypes /\ Kept

-----------------------------------------------------------------------------
LEMMA SuiteStarts == SuiteInit => SuiteInv
<1> SUFFICES ASSUME SuiteInit PROVE SuiteInv
  OBVIOUS
<1>1. FilesInv
  BY FilesInit DEF SuiteInit
<1>2. SuiteTypes
  BY DEF SuiteInit, SuiteTypes, Init
<1>3. Kept
  BY DEF SuiteInit, Kept, Begun, Init, Holding, Absent
<1> QED
  BY <1>1, <1>2, <1>3 DEF SuiteInv

\* Whatever the suite does, the files see a step of theirs or none.
LEMMA FilesFollow == ASSUME [SuiteNext]_suiteState PROVE [Next]_vars
<1>1. CASE UNCHANGED suiteState
  BY <1>1 DEF suiteState
<1>2. CASE SuiteStep
  <2>1. CASE \/ MakeDirectory \/ Initialize \/ InitializeFails \/ Begin \/ BeginFails
             \/ Resume \/ Load \/ LoadFails \/ Search \/ Sample
             \/ NothingPending \/ RunFails \/ Report \/ Finish \/ Stop \/ WriteBack
    BY <2>1 DEF MakeDirectory, Initialize, InitializeFails, Begin, BeginFails, Resume, Load,
                LoadFails, Search, Sample, NothingPending, RunFails, Report, Finish, Stop,
                WriteBack
  <2>2. CASE CommitMalformed \/ Answer
    BY <2>2 DEF CommitMalformed, Answer, Commit, Next
  <2>3. CASE WriteOn \/ WriteFails \/ StatusReads
    BY <2>3 DEF WriteOn, WriteFails, StatusReads, Next
  <2>4. CASE KillSuite
    BY <2>4 DEF KillSuite, Next
  <2> QED
    BY <1>2, <2>1, <2>2, <2>3, <2>4 DEF SuiteStep
<1>3. CASE Committed \/ LosePower
  BY <1>3 DEF Committed, LosePower, Next
<1> QED
  BY <1>1, <1>2, <1>3 DEF SuiteNext

\* The suite writes its checkpoints as CheckpointFiles says, one at a time and
\* none after an error, so what holds of the files holds of its files.
THEOREM SuiteWritesCheckpoints == SuiteSpec => Spec
<1>1. SuiteInit => Init
  BY DEF SuiteInit
<1>2. [SuiteNext]_suiteState => [Next]_vars
  BY FilesFollow
<1> QED
  BY <1>1, <1>2, PTL DEF SuiteSpec, Spec, suiteState

-----------------------------------------------------------------------------
(* The steps. *)

\* A set of numbers that is not empty has the least element the suite takes.
LEMMA SmallestExists ==
    ASSUME NEW S, S \subseteq Nat, S # {}
    PROVE  Min(S) \in S
<1> DEFINE Less == OpToRel(<, Nat)
<1>1. IsWellFoundedOn(Less, Nat)
  BY NatLessThanWellFounded
<1>2. \A x, y \in Nat : x < y => <<x, y>> \in Less
  BY DEF OpToRel
<1> HIDE DEF Less
<1>3. PICK x \in S : \A y \in S : <<y, x>> \notin Less
  BY <1>1, WFMin
<1>4. ASSUME NEW y \in S PROVE x <= y
  <2>1. x \in Nat /\ y \in Nat
    OBVIOUS
  <2>2. ~ y < x
    BY <2>1, <1>2, <1>3, Zenon
  <2> QED
    BY <2>1, <2>2
<1> QED
  BY <1>4 DEF Min

\* A step that changes no file, no checkpoint and nothing committed.
LEMMA QuietStep ==
    ASSUME SuiteInv, UNCHANGED vars, UNCHANGED <<contents, committed>>,
           phase # "commit", phase' # "commit",
           phase' \in Holding => committed \subseteq held',
           phase' = "search" => entry' \notin held',
           directory' = "none" => phase' = "off" /\ committed = {},
           phase' \in {"initialize", "begin"} => committed = {}
    PROVE  SuiteTypes' /\ Kept'
<1>1. UNCHANGED <<listing, unsynced, writing, pc, acknowledged>>
  BY DEF vars, disk, writer
<1>2. SuiteTypes'
  BY <1>1 DEF SuiteInv, SuiteTypes
<1>3. Kept'
  BY <1>1 DEF SuiteInv, Kept, Begun
<1> QED
  BY <1>2, <1>3

\* The process ends, with no file written.
LEMMA LeaveStep ==
    ASSUME SuiteInv, UNCHANGED vars, UNCHANGED <<contents, committed>>, Leave, phase # "commit",
           directory' = "none" => directory = "none"
    PROVE  SuiteTypes' /\ Kept'
<1>1. phase' = "off" /\ "off" \notin Holding
  BY DEF Leave, Holding
<1>2. directory' = "none" => committed = {}
  BY DEF SuiteInv, Kept
<1> QED
  BY <1>1, <1>2, QuietStep

LEMMA OpenSteps ==
    ASSUME SuiteInv,
           \/ MakeDirectory \/ Initialize \/ InitializeFails \/ Begin \/ BeginFails \/ Resume
    PROVE  SuiteTypes' /\ Kept'
<1>1. CASE MakeDirectory
  BY <1>1, QuietStep DEF MakeDirectory, SuiteInv, Kept, Holding
<1>2. CASE Initialize
  BY <1>2, QuietStep DEF Initialize, SuiteInv, Kept, Holding
<1>3. CASE InitializeFails
  BY <1>3, LeaveStep DEF InitializeFails
<1>4. CASE Begin
  <2>1. committed = {}
    BY <1>4 DEF Begin, SuiteInv, Kept
  <2> QED
    BY <1>4, <2>1, QuietStep DEF Begin, SuiteInv, Kept
<1>5. CASE BeginFails
  BY <1>5, LeaveStep DEF BeginFails, onDisk
<1>6. CASE Resume
  BY <1>6, QuietStep DEF Resume, Resumable, Holding
<1> QED
  BY <1>1, <1>2, <1>3, <1>4, <1>5, <1>6

\* What is loaded is a checkpoint no older than the acknowledged one.
LEMMA LoadStep == ASSUME SuiteInv, Load PROVE SuiteTypes' /\ Kept'
<1>1. listing \in unsynced /\ Read(listing) >= acknowledged /\ Begun(listing)
  BY DEF SuiteInv, FilesInv, FilesType, Recoverable, Kept
<1>2. Read(listing) \in Generations /\ Read(listing) <= writing
  BY <1>1 DEF Load, Readable, Read, Begun, Absent, Generations
<1>3. acknowledged \in Nat /\ writing \in Nat
  BY CheckpointsAssumption DEF SuiteInv, FilesInv, FilesType
<1>4. committed \subseteq contents[Read(listing)]
  BY <1>1, <1>2, <1>3, CheckpointsAssumption DEF SuiteInv, Kept, Generations
<1> QED
  BY <1>4, QuietStep DEF Load, onDisk, SuiteInv, Kept

LEMMA RunSteps ==
    ASSUME SuiteInv,
           \/ LoadFails \/ Search \/ Sample \/ NothingPending \/ RunFails \/ Report \/ Finish
           \/ Stop \/ WriteBack
    PROVE  SuiteTypes' /\ Kept'
<1>1. CASE LoadFails \/ RunFails
  BY <1>1, LeaveStep DEF LoadFails, RunFails, Aborts
<1>2. CASE Search
  <2>1. entry' \in Pending
    <3>1. Pending # {} /\ Pending \subseteq 1..EntryCount /\ entry' = Min(Pending)
      BY <1>2 DEF Search, Pending, Entries
    <3>2. Pending \subseteq Nat
      BY <3>1, SuiteAssumption
    <3>3. Min(Pending) \in Pending
      BY <3>1, <3>2, SmallestExists, Zenon
    <3> QED
      BY <3>1, <3>3
  <2> QED
    BY <1>2, <2>1, QuietStep DEF Search, Pending, onDisk, SuiteInv, Kept, Holding
<1>3. CASE Sample
  BY <1>3, QuietStep DEF Sample, onDisk, SuiteInv, Kept, Holding
<1>4. CASE NothingPending
  BY <1>4, QuietStep DEF NothingPending, onDisk, SuiteInv, Kept, Holding
<1>5. CASE Report
  BY <1>5, QuietStep DEF Report, SuiteInv, Kept, Holding
<1>6. CASE Finish
  BY <1>6, LeaveStep DEF Finish
<1>7. CASE Stop
  BY <1>7 DEF Stop, onDisk, vars, disk, writer, SuiteInv, SuiteTypes, Kept, Begun
<1>8. CASE WriteBack
  BY <1>8 DEF WriteBack, invocation, vars, disk, writer, SuiteInv, SuiteTypes, Kept, Begun
<1> QED
  BY <1>1, <1>2, <1>3, <1>4, <1>5, <1>6, <1>7, <1>8

\* The new checkpoint holds what the invocation holds, and the new result.
LEMMA CommitStep ==
    ASSUME SuiteInv, NEW e, Commit(e), phase \in {"run", "search"}
    PROVE  SuiteTypes' /\ Kept'
<1>1. /\ pc = "idle" /\ writing' = writing + 1 /\ writing < MaxCheckpoints /\ pc' = "write"
      /\ listing' = [listing EXCEPT !.temporary = Damaged]
      /\ unsynced' = unsynced \cup {listing'} /\ UNCHANGED acknowledged
  BY DEF Commit, Create, Change
<1>2. /\ writing \in Nat /\ writing' \in Generations /\ acknowledged \in 0..writing
      /\ listing \in Listing /\ listing \in unsynced /\ unsynced \subseteq Listing
  BY <1>1, CheckpointsAssumption DEF SuiteInv, FilesInv, FilesType, Generations
<1>3. held' = held \cup {e} /\ entry' = e /\ phase' = "commit" /\ UNCHANGED <<committed, directory>>
  BY DEF Commit
<1>4. /\ contents'[writing'] = held' /\ DOMAIN contents' = Generations
      /\ \A c \in Generations : c <= writing => contents'[c] = contents[c]
  BY <1>1, <1>2, <1>3 DEF Commit, SuiteInv, SuiteTypes
<1>5. committed \subseteq held
  BY DEF SuiteInv, Kept, Holding
<1>6. SuiteTypes'
  BY <1>1, <1>3, <1>4 DEF SuiteTypes
<1>7. \A files \in unsynced' : Begun(files)'
  <2> SUFFICES ASSUME NEW files \in unsynced' PROVE Begun(files)'
    OBVIOUS
  <2>1. CASE files \in unsynced
    <3>1. files \in Listing /\ Begun(files)
      BY <1>2, <2>1 DEF SuiteInv, Kept
    <3> QED
      BY <1>1, <1>2, <3>1, CheckpointsAssumption DEF Begun, Listing, File, Generations, Absent, Damaged
  <2>2. CASE files = listing'
    <3>1. Begun(listing)
      BY <1>2 DEF SuiteInv, Kept
    <3> QED
      BY <1>1, <1>2, <2>2, <3>1, CheckpointsAssumption
         DEF Begun, Listing, File, Generations, Absent, Damaged
  <2> QED
    BY <1>1, <2>1, <2>2
<1>8. ASSUME NEW c \in Generations, acknowledged' <= c, c <= writing'
      PROVE  committed' \subseteq contents'[c]
  <2>1. CASE c = writing'
    BY <1>3, <1>4, <1>5, <2>1
  <2>2. CASE c <= writing
    BY <1>1, <1>3, <1>4, <1>8, <2>2 DEF SuiteInv, Kept
  <2> QED
    BY <1>1, <1>2, <1>8, <2>1, <2>2, CheckpointsAssumption DEF Generations
<1> QED
  BY <1>1, <1>2, <1>3, <1>4, <1>5, <1>6, <1>7, <1>8, CheckpointsAssumption DEF Kept, SuiteInv, Holding

\* The file operations in between change no checkpoint's contents.
LEMMA WriteOnStep == ASSUME SuiteInv, WriteOn PROVE SuiteTypes' /\ Kept'
<1>1. UNCHANGED <<contents, phase, held, entry, committed, directory, writing, acknowledged>>
  BY DEF WriteOn, suiteVars, onDisk, invocation, Write, SyncTemporary, NothingToRotate,
         RemovePrevious, Rotate, Publish, disk
<1>2. pc # "idle" /\ pc' # "idle"
  BY DEF WriteOn, Write, SyncTemporary, NothingToRotate, RemovePrevious, Rotate, Publish
<1>3. \A files \in unsynced' : Begun(files)
  <2>1. listing \in unsynced /\ listing \in Listing /\ writing \in Nat
    BY CheckpointsAssumption DEF SuiteInv, FilesInv, FilesType
  <2>2. unsynced' \subseteq unsynced \cup {listing'}
    BY DEF WriteOn, Write, SyncTemporary, NothingToRotate, RemovePrevious, Rotate, Publish,
           Change, disk
  <2>3. Begun(listing)
    BY <2>1 DEF SuiteInv, Kept
  <2>4. Begun(listing')
    <3>1. CASE Write \/ SyncTemporary \/ NothingToRotate
      BY <2>1, <2>3, <3>1 DEF Write, SyncTemporary, NothingToRotate, Change, disk, Begun, Listing
    <3>2. CASE RemovePrevious
      BY <2>1, <2>3, <3>2 DEF RemovePrevious, Change, Begun, Listing, Absent
    <3>3. CASE Rotate
      BY <2>1, <2>3, <3>3 DEF Rotate, Change, Begun, Listing, Absent
    <3>4. CASE Publish
      BY <2>1, <2>3, <3>4 DEF Publish, Change, Begun, Listing, Absent
    <3> QED
      BY <3>1, <3>2, <3>3, <3>4 DEF WriteOn
  <2> QED
    BY <2>2, <2>4 DEF SuiteInv, Kept
<1> QED
  BY <1>1, <1>2, <1>3 DEF SuiteInv, SuiteTypes, Kept, Begun

\* The commit returns: the acknowledged checkpoint is the one just written.
LEMMA CommittedStep == ASSUME SuiteInv, Committed PROVE SuiteTypes' /\ Kept'
<1>1. /\ pc = "directory" /\ pc' = "idle" /\ acknowledged' = writing
      /\ UNCHANGED <<writing, listing>> /\ unsynced' \subseteq unsynced \cup {listing}
  BY DEF Committed, SyncDirectory
<1>2. /\ phase = "commit" /\ phase' = "sample" /\ committed' = committed \cup {entry}
      /\ UNCHANGED <<contents, held, entry, directory>>
  BY <1>1 DEF Committed, onDisk, SuiteInv, SuiteTypes
<1>3. writing \in Generations /\ acknowledged <= writing /\ listing \in unsynced
  BY <1>1, CheckpointsAssumption DEF SuiteInv, FilesInv, FilesType, Steps
<1>4. committed' \subseteq contents[writing]
  BY <1>2, <1>3 DEF SuiteInv, Kept, Generations
<1>5. SuiteTypes'
  BY <1>1, <1>2 DEF SuiteInv, SuiteTypes
<1>6. \A files \in unsynced' : Begun(files)'
  BY <1>1, <1>3 DEF SuiteInv, Kept, Begun
<1>7. \A c \in Generations : acknowledged' <= c /\ c <= writing' => committed' \subseteq contents'[c]
  BY <1>1, <1>2, <1>3, <1>4, CheckpointsAssumption DEF Generations
<1> QED
  BY <1>1, <1>2, <1>3, <1>5, <1>6, <1>7, CheckpointsAssumption
     DEF SuiteInv, Kept, Holding, Generations

\* A checkpoint that failed, or that a kill cut off, is begun and not acknowledged.
LEMMA CutOffStep ==
    ASSUME SuiteInv, Fails \/ Kill, Leave, UNCHANGED <<contents, committed, directory>>
    PROVE  SuiteTypes' /\ Kept'
<1>1. /\ pc' = "idle" /\ UNCHANGED <<writing, acknowledged>>
      /\ listing' = [listing EXCEPT !.temporary = Absent] /\ unsynced' = unsynced \cup {listing'}
  BY DEF Fails, Kill, Change
<1>2. phase' = "off"
  BY DEF Leave
<1>3. listing \in unsynced /\ listing \in Listing /\ writing \in Nat
  BY CheckpointsAssumption DEF SuiteInv, FilesInv, FilesType
<1>4. \A files \in unsynced' : Begun(files)
  BY <1>1, <1>3 DEF SuiteInv, Kept, Begun, Listing, Absent
<1> QED
  BY <1>1, <1>2, <1>4 DEF SuiteInv, SuiteTypes, Kept, Begun, Holding

LEMMA EndSteps == ASSUME SuiteInv, WriteFails \/ KillSuite PROVE SuiteTypes' /\ Kept'
<1>1. CASE WriteFails
  BY <1>1, CutOffStep DEF WriteFails, Aborts
<1>2. CASE KillSuite /\ Kill
  BY <1>2, CutOffStep DEF KillSuite, onDisk
<1>3. CASE KillSuite /\ pc = "idle" /\ UNCHANGED vars
  BY <1>3, LeaveStep DEF KillSuite, onDisk, SuiteInv, SuiteTypes
<1> QED
  BY <1>1, <1>2, <1>3 DEF KillSuite

LEMMA LosePowerStep == ASSUME SuiteInv, LosePower PROVE SuiteTypes' /\ Kept'
<1>1. PICK files \in unsynced : listing' = AfterPowerLoss(files)
  BY DEF LosePower, PowerLoss
<1>2. /\ unsynced' = {listing'} /\ pc' = "idle" /\ UNCHANGED <<writing, acknowledged>>
      /\ phase' = "off" /\ UNCHANGED <<contents, committed>>
  BY DEF LosePower, PowerLoss, Leave
<1>3. Begun(files) /\ files \in Listing /\ writing \in Nat
  BY CheckpointsAssumption DEF SuiteInv, Kept, FilesInv, FilesType
<1>4. listing'.current = files.current /\ listing'.previous = files.previous
  BY <1>1, WholeOnDisk DEF SuiteInv
<1>5. listing'.temporary = Absent
  BY <1>1 DEF AfterPowerLoss
<1>6. Begun(listing')
  BY <1>3, <1>4, <1>5 DEF Begun, Absent
<1>7. directory' = "none" => committed = {}
  BY DEF LosePower, SuiteInv, Kept
<1> QED
  BY <1>2, <1>6, <1>7 DEF SuiteInv, SuiteTypes, Kept, Begun, Holding

LEMMA StatusReadsStep ==
    ASSUME SuiteInv, StatusReads \/ UNCHANGED suiteState
    PROVE  SuiteTypes' /\ Kept'
<1>1. UNCHANGED <<listing, unsynced, writing, pc, acknowledged>>
  BY DEF StatusReads, ReadCurrent, ReadPrevious, ReaderReturns, suiteState, vars, disk, writer
<1>2. UNCHANGED suiteVars
  BY DEF StatusReads, suiteState
<1> QED
  BY <1>1, <1>2 DEF suiteVars, onDisk, invocation, SuiteInv, SuiteTypes, Kept, Begun

LEMMA SuiteSteps ==
    ASSUME SyncsDirectory
    PROVE  SuiteInv /\ [SuiteNext]_suiteState => SuiteInv'
<1> SUFFICES ASSUME SuiteInv, [SuiteNext]_suiteState
             PROVE  SuiteInv'
  OBVIOUS
<1>1. FilesInv'
  BY FilesFollow, FilesNext DEF SuiteInv
<1>2. CASE MakeDirectory \/ Initialize \/ InitializeFails \/ Begin \/ BeginFails \/ Resume
  BY <1>1, <1>2, OpenSteps DEF SuiteInv
<1>3. CASE \/ LoadFails \/ Search \/ Sample \/ NothingPending \/ RunFails \/ Report \/ Finish
           \/ Stop \/ WriteBack
  BY <1>1, <1>3, RunSteps DEF SuiteInv
<1>4. CASE CommitMalformed \/ Answer
  <2>1. PICK e : Commit(e) /\ phase \in {"run", "search"}
    BY <1>4 DEF CommitMalformed, Answer
  <2> QED
    BY <1>1, <2>1, CommitStep DEF SuiteInv
<1>5. CASE Load \/ WriteOn \/ Committed
  BY <1>1, <1>5, LoadStep, WriteOnStep, CommittedStep DEF SuiteInv
<1>6. CASE WriteFails \/ KillSuite \/ LosePower
  BY <1>1, <1>6, EndSteps, LosePowerStep DEF SuiteInv
<1>7. CASE StatusReads \/ UNCHANGED suiteState
  BY <1>1, <1>7, StatusReadsStep DEF SuiteInv
<1> QED
  BY <1>2, <1>3, <1>4, <1>5, <1>6, <1>7 DEF SuiteNext, SuiteStep

-----------------------------------------------------------------------------
\* For every position set, where sync_directory syncs: an entry whose commit
\* returned is not searched again, whatever failed or was lost since.
THEOREM SearchedOnceTheorem ==
    ASSUME SyncsDirectory
    PROVE  SuiteSpec => []SearchedOnce
<1>1. SuiteInv => SearchedOnce
  BY DEF SuiteInv, Kept, Holding, SearchedOnce
<1> QED
  BY <1>1, SuiteStarts, SuiteSteps, PTL DEF SuiteSpec, suiteState

-----------------------------------------------------------------------------
(* What a run on record as completed left.  SuiteInv says too little: the   *)
(* record and the report come back with the listing beside them.            *)

\* A directory that a power loss may bring back is whole if it says so.
WholeIfCompleted(old) ==
    old.papers.record = "completed" =>
        /\ malformed = {} /\ old.papers.result = Entries
        /\ Readable(Read(old.files)) /\ contents[Read(old.files)] = Entries

\* An invocation holds what a resume would read, and none runs over a
\* directory that says completed.
Reports ==
    /\ \A old \in snapshots : WholeIfCompleted(old)
    /\ \A old \in snapshots : old.papers.record = "completed" =>
            phase = "off" /\ papers.record = "completed" /\ directory # "none"
    /\ phase \in Holding \ {"commit"} =>
            held = {} \/ (Readable(Read(listing)) /\ contents[Read(listing)] = held)
    /\ phase = "commit" => contents[writing] = held
    /\ phase \in {"off", "initialize", "begin"} => held = {}
    /\ phase = "finish" => papers.result = held

ReportInv == SuiteInv /\ SuiteTypeOK /\ Reports

LEMMA ReportStarts == SuiteInit => ReportInv
<1> SUFFICES ASSUME SuiteInit PROVE ReportInv
  OBVIOUS
<1>1. SuiteInv
  BY SuiteStarts
<1>2. papers \in Papers
  BY DEF SuiteInit, Papers, Status
<1>3. Snapshot \in [files : unsynced, papers : Papers] /\ snapshots = {Snapshot}
  BY <1>2 DEF SuiteInit, Init, Snapshot
<1>4. contents \in [Generations -> SUBSET Entries]
  BY DEF SuiteInit
<1>5. SuiteTypeOK
  BY <1>2, <1>3, <1>4 DEF SuiteInit, SuiteTypeOK
<1>6. Reports
  BY DEF SuiteInit, Reports, Snapshot, WholeIfCompleted, Holding
<1> QED
  BY <1>1, <1>5, <1>6 DEF ReportInv

LEMMA PapersFit == ASSUME SuiteTypeOK, SuiteNext PROVE papers' \in Papers
<1>1. papers \in Papers /\ held \in SUBSET Entries
  BY DEF SuiteTypeOK
<1>2. \A status \in Status : [papers EXCEPT !.record = status] \in Papers
  BY <1>1 DEF Papers
<1>3. [papers EXCEPT !.result = held] \in Papers
  BY <1>1 DEF Papers
<1>4. CASE Begin \/ Resume
  BY <1>2, <1>4 DEF Begin, Resume, Status
<1>5. CASE LoadFails \/ WriteFails \/ RunFails
  BY <1>1, <1>2, <1>5 DEF LoadFails, WriteFails, RunFails, Aborts, Status
<1>6. CASE Report
  BY <1>3, <1>6 DEF Report
<1>7. CASE Finish
  BY <1>1, <1>2, <1>7 DEF Finish, FinalStatus, Status
<1>8. CASE LosePower
  BY <1>8 DEF LosePower, SuiteTypeOK
<1>9. CASE \/ MakeDirectory \/ Initialize \/ InitializeFails \/ BeginFails \/ Load \/ Search
          \/ CommitMalformed \/ Answer \/ WriteOn \/ Committed \/ Sample \/ NothingPending \/ Stop
          \/ KillSuite \/ WriteBack \/ StatusReads
  BY <1>1, <1>9 DEF MakeDirectory, Initialize, InitializeFails, BeginFails, Load, Search,
     CommitMalformed, Answer, Commit, WriteOn, Committed, Sample, NothingPending, Stop, KillSuite,
     WriteBack, StatusReads, suiteVars, onDisk
<1> QED
  BY <1>4, <1>5, <1>6, <1>7, <1>8, <1>9 DEF SuiteNext, SuiteStep

LEMMA UnsyncedGrows == ASSUME SuiteStep PROVE unsynced \subseteq unsynced'
<1>1. CASE CommitMalformed \/ Answer \/ WriteOn \/ WriteFails
  BY <1>1 DEF CommitMalformed, Answer, Commit, Create, WriteOn, Write, SyncTemporary,
     NothingToRotate, RemovePrevious, Rotate, Publish, WriteFails, Fails, Change, disk
<1>2. CASE KillSuite \/ StatusReads
  BY <1>2 DEF KillSuite, Kill, Change, StatusReads, ReadCurrent, ReadPrevious, ReaderReturns,
     vars, disk
<1>3. CASE UNCHANGED vars
  BY <1>3 DEF vars, disk
<1> QED
  BY <1>1, <1>2, <1>3 DEF SuiteStep, MakeDirectory, Initialize, InitializeFails, Begin, BeginFails,
     Resume, Load, LoadFails, Search, Sample, NothingPending, RunFails, Report, Finish, Stop,
     WriteBack

LEMMA SnapshotsFit ==
    ASSUME SuiteInv, SuiteTypeOK, SuiteNext, FilesInv'
    PROVE  /\ Snapshot' \in snapshots'
           /\ snapshots' \subseteq [files : unsynced', papers : Papers]
<1>1. papers' \in Papers /\ listing' \in unsynced'
  BY PapersFit DEF FilesInv, FilesType
<1>2. Snapshot' \in [files : unsynced', papers : Papers]
  BY <1>1 DEF Snapshot
<1>3. CASE SuiteStep /\ snapshots' = snapshots \cup {Snapshot'}
  BY <1>1, <1>2, <1>3, UnsyncedGrows DEF SuiteTypeOK
<1>4. CASE Committed /\ snapshots' = IF SyncsDirectory THEN {Snapshot} ELSE snapshots
  <2>1. Snapshot' = Snapshot
    BY <1>4 DEF Committed, onDisk, SyncDirectory, Snapshot
  <2>2. ~SyncsDirectory => unsynced' = unsynced
    BY <1>4 DEF Committed, SyncDirectory
  <2> QED
    BY <1>1, <1>2, <1>4, <2>1, <2>2 DEF SuiteTypeOK
<1>5. CASE LosePower /\ snapshots' = {Snapshot'}
  BY <1>1, <1>2, <1>5
<1> QED
  BY <1>3, <1>4, <1>5 DEF SuiteNext

LEMMA TypesStep ==
    ASSUME SuiteInv, SuiteTypeOK, SuiteNext, FilesInv'
    PROVE  SuiteTypeOK'
<1>1. /\ malformed' \subseteq Entries /\ papers' \in Papers /\ Snapshot' \in snapshots'
      /\ snapshots' \subseteq [files : unsynced', papers : Papers]
  BY PapersFit, SnapshotsFit DEF SuiteNext, SuiteTypeOK
<1>2. CASE MakeDirectory \/ Initialize \/ InitializeFails \/ Begin \/ BeginFails \/ Resume
  BY <1>1, <1>2 DEF MakeDirectory, Initialize, InitializeFails, Begin, BeginFails, Resume, Leave,
     onDisk, SuiteTypeOK
<1>3. CASE Load
  BY <1>1, <1>3 DEF Load, Readable, onDisk, SuiteTypeOK
<1>4. CASE LoadFails \/ WriteFails \/ RunFails \/ Finish \/ KillSuite \/ LosePower
  BY <1>1, <1>4 DEF LoadFails, WriteFails, RunFails, Finish, KillSuite, LosePower, Aborts, Leave,
     onDisk, SuiteTypeOK
<1>5. CASE Search
  <2>1. Pending # {} /\ Pending \subseteq Entries /\ Pending \subseteq Nat
    BY <1>5, SuiteAssumption DEF Search, Pending, Entries
  <2>2. Min(Pending) \in Entries
    BY <2>1, SmallestExists, Zenon
  <2> QED
    BY <1>1, <1>5, <2>2 DEF Search, onDisk, SuiteTypeOK
<1>6. CASE CommitMalformed \/ Answer
  <2>1. PICK e \in Entries : Commit(e)
    <3>1. CASE CommitMalformed
      <4>1. /\ Pending \cap malformed # {} /\ Pending \cap malformed \subseteq Entries
            /\ Pending \cap malformed \subseteq Nat
        BY <3>1, SuiteAssumption DEF CommitMalformed, Pending, Entries
      <4>2. Min(Pending \cap malformed) \in Entries
        BY <4>1, SmallestExists, Zenon
      <4> QED
        BY <3>1, <4>2 DEF CommitMalformed
    <3>2. CASE Answer
      <4>1. entry \in Entries
        BY <3>2 DEF Answer, SuiteTypeOK
      <4> QED
        BY <3>2, <4>1 DEF Answer
    <3> QED
      BY <1>6, <3>1, <3>2
  <2>2. contents' \in [Generations -> SUBSET Entries]
    BY <2>1 DEF Commit, SuiteTypeOK
  <2> QED
    BY <1>1, <2>1, <2>2 DEF Commit, SuiteTypeOK
<1>7. CASE WriteOn \/ StatusReads
  BY <1>1, <1>7 DEF WriteOn, StatusReads, suiteVars, onDisk, invocation, SuiteTypeOK
<1>8. CASE Committed
  BY <1>1, <1>8 DEF Committed, SyncDirectory, onDisk, SuiteInv, SuiteTypes, SuiteTypeOK
<1>9. CASE Sample \/ NothingPending \/ Report \/ Stop \/ WriteBack
  BY <1>1, <1>9 DEF Sample, NothingPending, Report, Stop, WriteBack, onDisk, invocation, SuiteTypeOK
<1> QED
  BY <1>2, <1>3, <1>4, <1>5, <1>6, <1>7, <1>8, <1>9 DEF SuiteNext, SuiteStep

-----------------------------------------------------------------------------
(* The reports. *)

\* A run under way, or one that begins, finds no "completed" on record.
LEMMA NotCompleted ==
    ASSUME ReportInv, phase # "off" \/ directory = "none"
    PROVE  papers.record # "completed"
  BY DEF ReportInv, SuiteTypeOK, Reports, Snapshot

\* Where no directory says completed, what the others must be is nothing.
LEMMA NoneCompleted ==
    ASSUME ReportInv, papers.record # "completed", papers'.record # "completed",
           \A old \in snapshots' : old \in snapshots \/ old = Snapshot'
    PROVE  \A old \in snapshots' : old.papers.record # "completed"
  BY DEF ReportInv, Reports, Snapshot

\* Nor does it matter what becomes of the rest.
LEMMA OpenReports ==
    ASSUME ReportInv, snapshots' = snapshots \cup {Snapshot'},
           \/ MakeDirectory \/ Initialize \/ InitializeFails \/ Begin \/ BeginFails \/ Resume
           \/ Load \/ LoadFails
    PROVE  Reports'
<1>1. papers \in Papers
  BY DEF ReportInv, SuiteTypeOK
<1>2. papers.record # "completed"
  BY NotCompleted DEF MakeDirectory, Initialize, InitializeFails, Begin, BeginFails, Resume,
     Resumable, Load, LoadFails
<1>3. papers'.record # "completed"
  BY <1>1, <1>2 DEF MakeDirectory, Initialize, InitializeFails, Begin, BeginFails, Resume, Load,
     LoadFails, Aborts, onDisk, Papers
<1>4. \A old \in snapshots' : old.papers.record # "completed"
  BY <1>2, <1>3, NoneCompleted
<1>5. /\ phase' \in {"off", "initialize", "begin", "load", "run"}
      /\ phase' \in {"off", "initialize", "begin"} => held' = {}
  BY DEF MakeDirectory, Initialize, InitializeFails, Begin, BeginFails, Resume, Load, LoadFails,
     Aborts, Leave, ReportInv, Reports
<1>6. phase' = "run" => held' = {} \/ (Readable(Read(listing)) /\ contents[Read(listing)] = held)'
  BY DEF MakeDirectory, Initialize, InitializeFails, Begin, BeginFails, Resume, Load, LoadFails,
     Aborts, Leave, ReportInv, Reports, onDisk, vars, disk
<1> QED
  BY <1>4, <1>5, <1>6 DEF Reports, WholeIfCompleted, Holding

LEMMA RunReports ==
    ASSUME ReportInv, snapshots' = snapshots \cup {Snapshot'},
           \/ Search \/ CommitMalformed \/ Answer \/ WriteOn \/ WriteFails \/ Sample
           \/ NothingPending \/ RunFails \/ Report \/ KillSuite
    PROVE  Reports'
<1>1. papers \in Papers
  BY DEF ReportInv, SuiteTypeOK
<1>2. papers.record # "completed"
  <2>1. phase # "off"
    BY DEF Search, CommitMalformed, Answer, WriteOn, Write, SyncTemporary, NothingToRotate,
       RemovePrevious, Rotate, Publish, WriteFails, Fails, Sample, NothingPending, RunFails, Report,
       KillSuite, ReportInv, SuiteInv, SuiteTypes
  <2> QED
    BY <2>1, NotCompleted
<1>3. papers'.record # "completed"
  BY <1>1, <1>2 DEF Search, CommitMalformed, Answer, Commit, WriteOn, suiteVars, WriteFails, Sample,
     NothingPending, RunFails, Report, KillSuite, Aborts, onDisk, Papers
<1>4. \A old \in snapshots' : old.papers.record # "completed"
  BY <1>2, <1>3, NoneCompleted
<1>5. CASE WriteFails \/ RunFails \/ KillSuite
  BY <1>4, <1>5 DEF WriteFails, RunFails, KillSuite, Aborts, Leave, Reports, WholeIfCompleted, Holding
<1>6. CASE Search \/ Sample \/ NothingPending \/ Report
  <2>1. UNCHANGED <<listing, contents, held>>
    BY <1>6 DEF Search, Sample, NothingPending, Report, onDisk, vars, disk
  <2>2. phase' \in Holding \ {"commit"} /\ phase \in Holding \ {"commit"}
    BY <1>6 DEF Search, Sample, NothingPending, Report, Holding
  <2>3. phase' = "finish" => papers'.result = held'
    BY <1>1, <1>6, <2>1 DEF Search, Sample, NothingPending, Report, Papers
  <2> QED
    BY <1>4, <2>1, <2>2, <2>3 DEF ReportInv, Reports, WholeIfCompleted, Holding, Read, Readable
<1>7. CASE CommitMalformed \/ Answer
  <2>1. PICK e : Commit(e)
    BY <1>7 DEF CommitMalformed, Answer
  <2>2. writing' \in Generations
    BY <2>1, CheckpointsAssumption
       DEF Commit, Create, ReportInv, SuiteInv, FilesInv, FilesType, Generations
  <2>3. contents'[writing'] = held' /\ phase' = "commit"
    BY <2>1, <2>2 DEF Commit, ReportInv, SuiteTypeOK
  <2> QED
    BY <1>4, <2>3 DEF Reports, WholeIfCompleted, Holding
<1>8. CASE WriteOn
  BY <1>4, <1>8 DEF WriteOn, suiteVars, onDisk, invocation, Write, SyncTemporary, NothingToRotate,
     RemovePrevious, Rotate, Publish, disk, ReportInv, SuiteInv, SuiteTypes, Reports,
     WholeIfCompleted, Holding
<1> QED
  BY <1>5, <1>6, <1>7, <1>8

\* The commit returns: what the invocation holds is what a resume would read.
LEMMA CommittedReports ==
    ASSUME ReportInv, Committed, \A old \in snapshots' : old \in snapshots \/ old = Snapshot'
    PROVE  Reports'
<1>1. /\ phase = "commit" /\ phase' = "sample" /\ pc = "directory"
      /\ UNCHANGED <<papers, listing, contents, held, writing>>
  BY DEF Committed, SyncDirectory, onDisk, ReportInv, SuiteInv, SuiteTypes
<1>2. \A old \in snapshots' : old.papers.record # "completed"
  BY <1>1, NotCompleted, NoneCompleted
<1>3. listing.current = writing /\ writing \in Generations /\ contents[writing] = held
  BY <1>1 DEF ReportInv, SuiteInv, FilesInv, Steps, Reports
<1>4. Readable(Read(listing)) /\ contents[Read(listing)] = held
  BY <1>3 DEF Read, Readable
<1> QED
  BY <1>1, <1>2, <1>4 DEF Reports, WholeIfCompleted, Holding, Read, Readable

\* A run that recorded itself completed held every entry, and so does the
\* checkpoint a resume would read.
LEMMA FinishReports ==
    ASSUME ReportInv, snapshots' = snapshots \cup {Snapshot'}, UNCHANGED malformed, Finish
    PROVE  Reports'
<1>1. /\ papers \in Papers /\ malformed \subseteq Entries /\ Entries # {}
      /\ directory \in {"none", "made", "identified"}
  BY SuiteAssumption DEF ReportInv, SuiteTypeOK, Entries
<1>2. /\ phase = "finish" /\ phase' = "off" /\ held' = {}
      /\ UNCHANGED <<listing, contents, directory>> /\ papers'.result = papers.result
  BY <1>1 DEF Finish, Leave, vars, disk, Papers
<1>3. \A old \in snapshots : old.papers.record # "completed"
  BY <1>2, NotCompleted DEF ReportInv, Reports
<1>4. ASSUME papers'.record = "completed"
      PROVE  held = Entries /\ held \cap malformed = {} /\ directory # "none"
  BY <1>1, <1>2, <1>4, NotCompleted
     DEF Finish, FinalStatus, Papers, ReportInv, SuiteInv, Kept
<1>5. ASSUME papers'.record = "completed"
      PROVE  WholeIfCompleted(Snapshot)'
  <2>1. held = Entries /\ held # {} /\ malformed = {}
    BY <1>1, <1>4, <1>5
  <2>2. Readable(Read(listing)) /\ contents[Read(listing)] = Entries /\ papers.result = Entries
    BY <1>2, <2>1 DEF ReportInv, Reports, Holding
  <2> QED
    BY <1>2, <2>1, <2>2 DEF WholeIfCompleted, Snapshot, Read, Readable
<1>6. Snapshot'.papers = papers'
  BY DEF Snapshot
<1>7. (\A old \in snapshots : WholeIfCompleted(old))'
  BY <1>3, <1>5, <1>6 DEF WholeIfCompleted
<1>8. (\A old \in snapshots : old.papers.record = "completed" =>
            phase = "off" /\ papers.record = "completed" /\ directory # "none")'
  BY <1>2, <1>3, <1>4, <1>6
<1> QED
  BY <1>2, <1>7, <1>8 DEF Reports, Holding

\* Steps that change nothing a report depends on.
LEMMA IdleReports ==
    ASSUME ReportInv, snapshots' = snapshots \cup {Snapshot'}, UNCHANGED malformed,
           Stop \/ WriteBack \/ StatusReads
    PROVE  Reports'
<1>1. UNCHANGED <<listing, writing, papers, contents, phase, held, directory>>
  BY DEF Stop, WriteBack, StatusReads, ReadCurrent, ReadPrevious, ReaderReturns, vars, disk, writer,
     suiteVars, onDisk, invocation
<1>2. Snapshot' = Snapshot /\ snapshots' = snapshots
  BY <1>1 DEF Snapshot, ReportInv, SuiteTypeOK
<1> QED
  BY <1>1, <1>2 DEF ReportInv, Reports, WholeIfCompleted, Read, Readable

\* The power loss brings back a directory that was whole if it said completed.
LEMMA LosePowerReports ==
    ASSUME ReportInv, LosePower, snapshots' = {Snapshot'}, UNCHANGED malformed
    PROVE  Reports'
<1>1. PICK old \in snapshots : listing' = AfterPowerLoss(old.files) /\ papers' = old.papers
  BY DEF LosePower
<1>2. WholeIfCompleted(old) /\ old.files \in unsynced
  BY DEF ReportInv, Reports, SuiteTypeOK
<1>3. Read(listing') = Read(old.files)
  BY <1>1, <1>2, WholeOnDisk DEF ReportInv, SuiteInv
<1>4. /\ phase' = "off" /\ held' = {} /\ UNCHANGED contents
      /\ Snapshot'.files = listing' /\ Snapshot'.papers = papers'
  BY DEF LosePower, Leave, Snapshot
<1>5. WholeIfCompleted(Snapshot)'
  BY <1>1, <1>2, <1>3, <1>4 DEF WholeIfCompleted, Read, Readable
<1>6. papers'.record = "completed" => directory' # "none"
  BY <1>1 DEF LosePower, ReportInv, Reports
<1> QED
  BY <1>4, <1>5, <1>6 DEF Reports, Holding

LEMMA ReportSteps ==
    ASSUME SyncsDirectory
    PROVE  ReportInv /\ [SuiteNext]_suiteState => ReportInv'
<1> SUFFICES ASSUME ReportInv, [SuiteNext]_suiteState
             PROVE  ReportInv'
  OBVIOUS
<1>1. SuiteInv'
  BY SuiteSteps DEF ReportInv
<1>2. CASE UNCHANGED suiteState
  <2>1. /\ UNCHANGED <<listing, unsynced, writing, papers, contents, phase, held, directory>>
        /\ UNCHANGED <<snapshots, malformed, identityOnDisk, entry, stopping, committed>>
    BY <1>2 DEF suiteState, vars, disk, writer, suiteVars, onDisk, invocation
  <2>2. SuiteTypeOK'
    BY <2>1 DEF ReportInv, SuiteTypeOK, Snapshot
  <2>3. Reports'
    BY <2>1 DEF ReportInv, Reports, WholeIfCompleted, Read, Readable
  <2> QED
    BY <1>1, <2>2, <2>3 DEF ReportInv
<1>3. CASE SuiteNext
  <2>1. SuiteTypeOK' /\ UNCHANGED malformed
    BY <1>1, <1>3, TypesStep DEF ReportInv, SuiteInv, SuiteNext
  <2>2. CASE SuiteStep /\ snapshots' = snapshots \cup {Snapshot'}
    <3>1. Reports'
      BY <2>1, <2>2, OpenReports, RunReports, FinishReports, IdleReports DEF SuiteStep
    <3> QED
      BY <1>1, <2>1, <3>1 DEF ReportInv
  <2>3. CASE Committed /\ snapshots' = IF SyncsDirectory THEN {Snapshot} ELSE snapshots
    <3>1. \A old \in snapshots' : old \in snapshots \/ old = Snapshot'
      BY <2>3 DEF ReportInv, SuiteTypeOK
    <3>2. Reports'
      BY <2>3, <3>1, CommittedReports
    <3> QED
      BY <1>1, <2>1, <3>2 DEF ReportInv
  <2>4. CASE LosePower /\ snapshots' = {Snapshot'}
    BY <1>1, <2>1, <2>4, LosePowerReports DEF ReportInv
  <2> QED
    BY <1>3, <2>2, <2>3, <2>4 DEF SuiteNext
<1> QED
  BY <1>2, <1>3

\* Type correctness of the suite, for every position set.
THEOREM SuiteTypeTheorem ==
    ASSUME SyncsDirectory
    PROVE  SuiteSpec => []SuiteTypeOK
<1>1. ReportInv => SuiteTypeOK
  BY DEF ReportInv
<1> QED
  BY <1>1, ReportStarts, ReportSteps, PTL DEF SuiteSpec, suiteState

\* For every position set, where sync_directory syncs: a suite on record as
\* completed, also as a power loss brings that record back, has reported every
\* entry, and the checkpoint beside the record holds every entry.
THEOREM CompletedIsWholeTheorem ==
    ASSUME SyncsDirectory
    PROVE  SuiteSpec => []CompletedIsWhole
<1>1. ASSUME ReportInv PROVE CompletedIsWhole
  <2> SUFFICES ASSUME NEW left \in Left, left.papers.record = "completed"
               PROVE  /\ malformed = {} /\ left.papers.result = Entries
                      /\ Readable(Read(left.files)) /\ contents[Read(left.files)] = Entries
    BY DEF CompletedIsWhole
  <2>1. CASE left = Snapshot
    BY <1>1, <2>1 DEF ReportInv, SuiteTypeOK, Reports, WholeIfCompleted
  <2>2. ASSUME NEW old \in snapshots, left = [old EXCEPT !.files = AfterPowerLoss(@)]
        PROVE  /\ malformed = {} /\ left.papers.result = Entries
               /\ Readable(Read(left.files)) /\ contents[Read(left.files)] = Entries
    <3>1. left.files = AfterPowerLoss(old.files) /\ left.papers = old.papers
      BY <1>1, <2>2 DEF ReportInv, SuiteTypeOK
    <3>2. WholeIfCompleted(old) /\ old.files \in unsynced
      BY <1>1 DEF ReportInv, SuiteTypeOK, Reports
    <3>3. Read(left.files) = Read(old.files)
      BY <1>1, <3>1, <3>2, WholeOnDisk DEF ReportInv, SuiteInv
    <3> QED
      BY <3>1, <3>2, <3>3 DEF WholeIfCompleted
  <2> QED
    BY <2>1, <2>2 DEF Left
<1> QED
  BY <1>1, ReportStarts, ReportSteps, PTL DEF SuiteSpec, suiteState

=============================================================================
