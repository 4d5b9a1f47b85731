-------------------------- MODULE PairScheduleProofs --------------------------
(***************************************************************************)
(* What the schedule of a sequential test keeps for every cap, every       *)
(* number of CPU slots, every sequence of results and stops and every      *)
(* number of crashes and resumes: the order of its pairs, the ownership of *)
(* its slots, and the status an ended schedule is reported with.  Nothing  *)
(* is assumed of what the test decides, only that it may stop.             *)
(***************************************************************************)
EXTENDS PairSchedule, SequenceTheorems, FiniteSetTheorems, WellFoundedInduction, TLAPS

Live == pc \in {"loop", "release"}

\* The types the argument needs.
ScheduleType ==
    /\ pc \in {"down", "loop", "release", "ended"}
    /\ nextToSchedule \in 1..(MaxPairs + 1)
    /\ workers \subseteq [pair : Pairs, slot : Slots] /\ IsFiniteSet(workers)
    /\ held \in [Slots -> BOOLEAN]
    /\ nextPair \in 1..nextToSchedule
    /\ DOMAIN pending \subseteq Pairs
    /\ \A p \in DOMAIN pending : pending[p] \in Outcome
    /\ officialPairs \in Seq(Outcome) /\ postTerminal \in Nat

\* The journal never holds more than the schedule, and, while a schedule runs,
\* exactly the pairs it released.
JournalInv ==
    /\ journal \in Seq([outcome : Outcome, class : Class])
    /\ published.pairs \in Seq(Outcome)
    /\ Len(journal) <= MaxPairs
    /\ Live => Len(journal) = nextPair - 1

\* Between two invocations nothing is held.
DownIsEmpty ==
    pc = "down" =>
        /\ workers = {} /\ held = [s \in Slots |-> FALSE]
        /\ DOMAIN pending = {} /\ postTerminal = 0

ScheduleInv == ScheduleType /\ JournalInv /\ DownIsEmpty /\ EveryPairOnce /\ SlotsExclusive

-----------------------------------------------------------------------------
\* A set of naturals has a least element.
LEMMA LeastOf ==
    ASSUME NEW S \in SUBSET Nat, S # {}
    PROVE  \E n \in S : \A m \in S : ~ (m < n)
<1>1. \E n \in S : \A m \in S : ~ (<<m, n>> \in OpToRel(<, Nat))
  BY NatLessThanWellFounded, WFMin
<1>2. \A m, n \in Nat : m < n => <<m, n>> \in OpToRel(<, Nat)
  <2> SUFFICES ASSUME NEW m \in Nat, NEW n \in Nat, m < n
               PROVE  <<m, n>> \in OpToRel(<, Nat)
    OBVIOUS
  <2> DEFINE p == <<m, n>>
  <2>1. p \in Nat \X Nat /\ p[1] < p[2]
    OBVIOUS
  <2> HIDE DEF p
  <2>2. p \in OpToRel(<, Nat)
    BY <2>1, Zenon DEF OpToRel
  <2> QED
    BY <2>2 DEF p
<1>3. PICK n \in S : \A m \in S : ~ (<<m, n>> \in OpToRel(<, Nat))
  BY <1>1
<1> QED
  BY <1>2, <1>3

\* The pool has a free slot whenever the schedule may launch: `take` in
\* run_pair_schedule never finds every slot held.
LEMMA FreeSlot ==
    ASSUME ScheduleType, pc = "loop", SlotsExclusive, CanLaunch
    PROVE  Take \in Slots /\ ~held[Take]
<1>1. \E s \in Slots : ~held[s]
  <2> SUFFICES ASSUME \A s \in Slots : held[s]
               PROVE  FALSE
    OBVIOUS
  <2> DEFINE slotOf == [w \in workers |-> w.slot]
  <2>1. slotOf \in Surjection(workers, Slots)
    <3>1. slotOf \in [workers -> Slots]
      BY DEF ScheduleType
    <3>2. \A s \in Slots : \E w \in workers : slotOf[w] = s
      BY DEF SlotsExclusive
    <3> QED
      BY <3>1, <3>2 DEF Surjection
  <2> HIDE DEF slotOf
  <2>2. Cardinality(Slots) <= Cardinality(workers)
    BY <2>1, FS_Surjection DEF ScheduleType
  <2>3. Cardinality(Slots) = Concurrency
    <3>1. Concurrency \in Int /\ 1 \in Int
      BY SizeAssumption
    <3> QED
      BY <3>1, FS_Interval, SizeAssumption DEF Slots
  <2>4. Cardinality(workers) \in Nat
    BY FS_CardinalityType DEF ScheduleType
  <2> QED
    BY <2>2, <2>3, <2>4, SizeAssumption DEF CanLaunch
<1>2. \E s \in Slots : ~held[s] /\ \A t \in Slots : ~held[t] => s <= t
  <2> DEFINE Free == {s \in Slots : ~held[s]}
  <2>1. Free \in SUBSET Nat /\ Free # {}
    BY <1>1, SizeAssumption DEF Slots
  <2> HIDE DEF Free
  <2>5. PICK n \in Free : \A m \in Free : ~ (m < n)
    BY <2>1, LeastOf
  <2>6. \A m \in Free : n <= m
    BY <2>1, <2>5
  <2> QED
    BY <2>6 DEF Free
<1> QED
  BY <1>2 DEF Take

-----------------------------------------------------------------------------
LEMMA ScheduleInit == Init => ScheduleInv
<1> SUFFICES ASSUME Init
             PROVE  ScheduleInv
  OBVIOUS
<1>1. ScheduleType
  <2>1. << >> \in Seq(Outcome)
    BY EmptySeq
  <2> QED
    BY <2>1, FS_EmptySet, SizeAssumption DEF Init, ScheduleType, Pairs
<1>2. JournalInv
  <2>1. << >> \in Seq([outcome : Outcome, class : Class]) /\ << >> \in Seq(Outcome)
    BY EmptySeq
  <2> QED
    BY <2>1, SizeAssumption DEF Init, JournalInv, Live
<1>3. DownIsEmpty /\ EveryPairOnce /\ SlotsExclusive
  BY DEF Init, DownIsEmpty, EveryPairOnce, SlotsExclusive
<1> QED
  BY <1>1, <1>2, <1>3 DEF ScheduleInv

\* Every session ends with nothing held, whatever it leaves in its journal.
LEMMA DownStep ==
    ASSUME ScheduleInv, Down,
           journal' \in Seq([outcome : Outcome, class : Class]), Len(journal') <= MaxPairs,
           published'.pairs \in Seq(Outcome)
    PROVE  ScheduleInv'
<1>1. ScheduleType'
  <2>1. << >> \in Seq(Outcome)
    BY EmptySeq
  <2> QED
    BY <2>1, FS_EmptySet, SizeAssumption DEF Down, ScheduleType, Pairs
<1>2. JournalInv'
  BY DEF JournalInv, Live, Down
<1>3. DownIsEmpty' /\ EveryPairOnce' /\ SlotsExclusive'
  BY DEF Down, DownIsEmpty, EveryPairOnce, SlotsExclusive
<1> QED
  BY <1>1, <1>2, <1>3 DEF ScheduleInv

\* A launched pair is the next of the schedule and takes a free slot.
LEMMA LaunchStep == ASSUME ScheduleInv, Launch PROVE ScheduleInv'
<1> DEFINE w == [pair |-> nextToSchedule, slot |-> Take]
<1>0. /\ pc = "loop" /\ nextToSchedule <= MaxPairs
      /\ workers' = workers \cup {w}
      /\ held' = [held EXCEPT ![Take] = TRUE]
      /\ nextToSchedule' = nextToSchedule + 1
      /\ UNCHANGED <<journal, published, pc, nextPair, pending, officialPairs, postTerminal>>
  BY DEF Launch, CanLaunch, directory, commitQueue, sample
<1>1. Take \in Slots /\ ~held[Take]
  BY FreeSlot DEF ScheduleInv, Launch
<1>2. w \in [pair : Pairs, slot : Slots]
  BY <1>0, <1>1 DEF ScheduleInv, ScheduleType, Pairs
<1>3. w.pair = nextToSchedule /\ w.slot = Take
  OBVIOUS
<1> HIDE DEF w
<1>4. ScheduleType'
  <2>1. IsFiniteSet(workers \cup {w})
    BY FS_AddElement DEF ScheduleInv, ScheduleType
  <2>2. nextToSchedule' \in 1..(MaxPairs + 1) /\ nextPair' \in 1..nextToSchedule'
    BY <1>0, SizeAssumption DEF ScheduleInv, ScheduleType
  <2> QED
    BY <1>0, <1>1, <1>2, <2>1, <2>2 DEF ScheduleInv, ScheduleType
<1>5. JournalInv' /\ DownIsEmpty'
  BY <1>0 DEF ScheduleInv, JournalInv, DownIsEmpty, Live
<1>6. EveryPairOnce'
  <2> DEFINE ids == {v.pair : v \in workers}
  <2>0. nextPair \in Nat /\ nextToSchedule \in Nat /\ nextPair <= nextToSchedule
    BY <1>0, SizeAssumption DEF ScheduleInv, ScheduleType
  <2>1. ids \cup DOMAIN pending = nextPair..(nextToSchedule - 1)
    BY <1>0 DEF ScheduleInv, EveryPairOnce
  <2>2. nextToSchedule \notin ids \cup DOMAIN pending
    BY <2>0, <2>1
  <2>3. {v.pair : v \in workers'} = ids \cup {nextToSchedule}
    BY <1>0, <1>3
  <2>4. nextPair..nextToSchedule = (nextPair..(nextToSchedule - 1)) \cup {nextToSchedule}
    BY <2>0
  <2>5. {v.pair : v \in workers'} \cup DOMAIN pending' = nextPair'..(nextToSchedule' - 1)
    <3> HIDE DEF ids
    <3>1. nextToSchedule' - 1 = nextToSchedule
      BY <1>0, <2>0
    <3> QED
      BY <1>0, <2>1, <2>3, <2>4, <3>1
  <2>6. \A v \in workers' : v.pair \notin DOMAIN pending'
    BY <1>0, <1>3, <2>2 DEF ScheduleInv, EveryPairOnce
  <2>7. \A u, v \in workers' : u.pair = v.pair => u = v
    BY <1>0, <1>3, <2>2 DEF ScheduleInv, EveryPairOnce
  <2>8. nextPair' = Len(officialPairs') + postTerminal' + 1
    BY <1>0 DEF ScheduleInv, EveryPairOnce
  <2> QED
    BY <2>5, <2>6, <2>7, <2>8 DEF EveryPairOnce
<1>7. SlotsExclusive'
  <2>1. /\ \A u, v \in workers : u.slot = v.slot => u = v
        /\ \A s \in Slots : held[s] <=> \E u \in workers : u.slot = s
        /\ \A u \in workers : u.slot \in Slots
    BY <1>0 DEF ScheduleInv, ScheduleType, SlotsExclusive
  <2>2. \A u \in workers : u.slot # Take
    BY <1>1, <2>1
  <2>3. \A u, v \in workers' : u.slot = v.slot => u = v
    BY <1>0, <1>3, <2>1, <2>2
  <2>4. \A s \in Slots : held'[s] = IF s = Take THEN TRUE ELSE held[s]
    BY <1>0 DEF ScheduleInv, ScheduleType
  <2>5. \A s \in Slots : held'[s] <=> \E u \in workers' : u.slot = s
    BY <1>0, <1>3, <2>1, <2>4, ZenonT(60)
  <2> QED
    BY <2>3, <2>5 DEF SlotsExclusive
<1> QED
  BY <1>4, <1>5, <1>6, <1>7 DEF ScheduleInv

\* A pair that returns moves from the workers to the commit queue and frees
\* its slot.
LEMMA JoinStep == ASSUME ScheduleInv, Join PROVE ScheduleInv'
<1>1. PICK w \in workers, outcome \in Outcome :
        /\ workers' = workers \ {w}
        /\ held' = [held EXCEPT ![w.slot] = FALSE]
        /\ pending' = [p \in DOMAIN pending \cup {w.pair} |->
                          IF p = w.pair THEN outcome ELSE pending[p]]
  BY DEF Join
<1>2. /\ pc = "loop" /\ pc' = "release"
      /\ UNCHANGED <<journal, published, nextToSchedule, nextPair, officialPairs, postTerminal>>
  BY DEF Join, directory, sample
<1>3. w.pair \in Pairs /\ w.slot \in Slots
  BY DEF ScheduleInv, ScheduleType
<1>4. DOMAIN pending' = DOMAIN pending \cup {w.pair}
  BY <1>1
<1>5. ScheduleType'
  <2>1. IsFiniteSet(workers \ {w})
    BY FS_RemoveElement DEF ScheduleInv, ScheduleType
  <2>2. \A p \in DOMAIN pending' : pending'[p] \in Outcome
    BY <1>1 DEF ScheduleInv, ScheduleType
  <2> QED
    BY <1>1, <1>2, <1>3, <1>4, <2>1, <2>2 DEF ScheduleInv, ScheduleType
<1>6. JournalInv' /\ DownIsEmpty'
  BY <1>2 DEF ScheduleInv, JournalInv, DownIsEmpty, Live
<1>7. EveryPairOnce'
  <2>1. /\ {v.pair : v \in workers} \cup DOMAIN pending = nextPair..(nextToSchedule - 1)
        /\ \A v \in workers : v.pair \notin DOMAIN pending
        /\ \A u, v \in workers : u.pair = v.pair => u = v
        /\ nextPair = Len(officialPairs) + postTerminal + 1
    BY <1>2 DEF ScheduleInv, EveryPairOnce
  <2>2. {v.pair : v \in workers'} = {v.pair : v \in workers} \ {w.pair}
    BY <1>1, <2>1
  <2>3. {v.pair : v \in workers'} \cup DOMAIN pending' = nextPair'..(nextToSchedule' - 1)
    BY <1>2, <1>4, <2>1, <2>2
  <2>4. \A v \in workers' : v.pair \notin DOMAIN pending'
    BY <1>1, <1>4, <2>1
  <2> QED
    BY <1>1, <1>2, <2>1, <2>3, <2>4 DEF EveryPairOnce
<1>8. SlotsExclusive'
  <2>1. /\ \A u, v \in workers : u.slot = v.slot => u = v
        /\ \A s \in Slots : held[s] <=> \E u \in workers : u.slot = s
    BY <1>2 DEF ScheduleInv, SlotsExclusive
  <2>2. \A s \in Slots : held'[s] = IF s = w.slot THEN FALSE ELSE held[s]
    BY <1>1 DEF ScheduleInv, ScheduleType
  <2>3. \A s \in Slots : held'[s] <=> \E u \in workers' : u.slot = s
    BY <1>1, <2>1, <2>2, ZenonT(60)
  <2> QED
    BY <1>1, <2>1, <2>3 DEF SlotsExclusive
<1> QED
  BY <1>5, <1>6, <1>7, <1>8 DEF ScheduleInv

\* A committed pair leaves the queue for one of the two classes and for the
\* journal.
LEMMA CommitStep ==
    ASSUME ScheduleInv, pc = "release", nextPair \in DOMAIN pending,
           NEW class \in Class, Commit(class), Released,
           officialPairs' \in Seq(Outcome), postTerminal' \in Nat,
           Len(officialPairs') + postTerminal' = Len(officialPairs) + postTerminal + 1,
           UNCHANGED <<published, pc, nextToSchedule, workers, held>>
    PROVE  ScheduleInv'
<1>0. /\ nextPair' = nextPair + 1
      /\ DOMAIN pending' = DOMAIN pending \ {nextPair}
      /\ \A p \in DOMAIN pending' : pending'[p] = pending[p]
      /\ journal' = Append(journal, [outcome |-> pending[nextPair], class |-> class])
  BY DEF Released, Commit
<1>1. /\ nextPair \in Nat /\ nextToSchedule \in Nat /\ nextPair >= 1
      /\ Len(officialPairs) \in Nat /\ postTerminal \in Nat
      /\ {v.pair : v \in workers} \cup DOMAIN pending = nextPair..(nextToSchedule - 1)
      /\ \A v \in workers : v.pair \notin DOMAIN pending
      /\ nextPair = Len(officialPairs) + postTerminal + 1
  BY LenProperties, SizeAssumption DEF ScheduleInv, ScheduleType, EveryPairOnce
<1>2. nextPair <= nextToSchedule - 1 /\ nextPair <= MaxPairs
  BY <1>1, SizeAssumption DEF ScheduleInv, ScheduleType, Pairs
<1>3. ScheduleType'
  BY <1>0, <1>1, <1>2, SMTT(60) DEF ScheduleInv, ScheduleType
<1>4. JournalInv'
  <2>1. [outcome |-> pending[nextPair], class |-> class] \in [outcome : Outcome, class : Class]
    BY DEF ScheduleInv, ScheduleType
  <2>2. journal' \in Seq([outcome : Outcome, class : Class]) /\ Len(journal') = Len(journal) + 1
    BY <1>0, <2>1, AppendProperties DEF ScheduleInv, JournalInv
  <2>3. Len(journal) = nextPair - 1
    BY DEF ScheduleInv, JournalInv, Live
  <2>4. Len(journal') = nextPair /\ nextPair' - 1 = nextPair /\ nextPair <= MaxPairs
    <3>1. nextPair \in Nat
      BY <1>1
    <3>2. nextPair' = nextPair + 1
      BY <1>0
    <3>3. nextPair <= MaxPairs
      BY <1>2
    <3>4. Len(journal') = Len(journal) + 1
      BY <2>2
    <3> QED
      BY <2>3, <3>1, <3>2, <3>3, <3>4, SMTT(60)
  <2>5. published'.pairs \in Seq(Outcome)
    BY DEF ScheduleInv, JournalInv
  <2> QED
    BY <2>2, <2>4, <2>5 DEF JournalInv
<1>5. EveryPairOnce'
  <2> DEFINE ids == {v.pair : v \in workers}
  <2>1. nextPair \notin ids
    BY <1>1
  <2>2. (nextPair + 1)..(nextToSchedule - 1) = (nextPair..(nextToSchedule - 1)) \ {nextPair}
    BY <1>1
  <2>3. ids \cup DOMAIN pending' = nextPair'..(nextToSchedule' - 1)
    BY <1>0, <1>1, <2>1, <2>2
  <2>4. nextPair' = Len(officialPairs') + postTerminal' + 1
    <3>1. Len(officialPairs') \in Nat
      BY LenProperties
    <3> QED
      BY <1>0, <1>1, <3>1
  <2>5. \A v \in workers' : v.pair \notin DOMAIN pending'
    BY <1>0, <1>1
  <2>6. \A u, v \in workers' : u.pair = v.pair => u = v
    BY DEF ScheduleInv, EveryPairOnce
  <2> QED
    BY <2>3, <2>4, <2>5, <2>6 DEF EveryPairOnce
<1>6. DownIsEmpty' /\ SlotsExclusive'
  BY DEF ScheduleInv, DownIsEmpty, SlotsExclusive
<1> QED
  BY <1>3, <1>4, <1>5, <1>6 DEF ScheduleInv

LEMMA AdmitOfficialStep == ASSUME ScheduleInv, AdmitOfficial PROVE ScheduleInv'
<1>1. /\ officialPairs' = Append(officialPairs, pending[nextPair])
      /\ postTerminal' = postTerminal
      /\ Commit("official") /\ Released
      /\ UNCHANGED <<published, pc, nextToSchedule, workers, held>>
      /\ pc = "release" /\ nextPair \in DOMAIN pending
  BY DEF AdmitOfficial, slots
<1>2. pending[nextPair] \in Outcome /\ officialPairs \in Seq(Outcome) /\ postTerminal \in Nat
  BY <1>1 DEF ScheduleInv, ScheduleType
<1>3. officialPairs' \in Seq(Outcome) /\ Len(officialPairs') = Len(officialPairs) + 1
  BY <1>1, <1>2, AppendProperties
<1>4. Len(officialPairs') + postTerminal' = Len(officialPairs) + postTerminal + 1
  BY <1>1, <1>2, <1>3, LenProperties
<1> QED
  BY <1>1, <1>2, <1>3, <1>4, CommitStep DEF Class

LEMMA AdmitPostTerminalStep == ASSUME ScheduleInv, AdmitPostTerminal PROVE ScheduleInv'
<1>1. /\ officialPairs' = officialPairs
      /\ postTerminal' = postTerminal + 1
      /\ Commit("post-terminal") /\ Released
      /\ UNCHANGED <<published, pc, nextToSchedule, workers, held>>
      /\ pc = "release" /\ nextPair \in DOMAIN pending
  BY DEF AdmitPostTerminal, slots
<1>2. officialPairs \in Seq(Outcome) /\ postTerminal \in Nat
  BY DEF ScheduleInv, ScheduleType
<1>3. Len(officialPairs') + postTerminal' = Len(officialPairs) + postTerminal + 1
  BY <1>1, <1>2, LenProperties
<1> QED
  BY <1>1, <1>2, <1>3, CommitStep DEF Class

\* A schedule that ends keeps its queue and its journal and drops its workers.
LEMMA EndStep ==
    ASSUME ScheduleInv, pc' = "ended", workers' \subseteq workers, IsFiniteSet(workers'),
           nextPair' \in 1..nextToSchedule, DOMAIN pending' \subseteq DOMAIN pending,
           \A p \in DOMAIN pending' : pending'[p] = pending[p],
           UNCHANGED <<journal, published, nextToSchedule, held, officialPairs, postTerminal>>
    PROVE  ScheduleInv'
<1>1. ScheduleType'
  BY DEF ScheduleInv, ScheduleType
<1>2. JournalInv' /\ DownIsEmpty' /\ EveryPairOnce' /\ SlotsExclusive'
  BY DEF ScheduleInv, JournalInv, Live, DownIsEmpty, EveryPairOnce, SlotsExclusive
<1> QED
  BY <1>1, <1>2 DEF ScheduleInv

\* The pair behind which an error ends the schedule was released.
LEMMA AdmitUnscorableStep == ASSUME ScheduleInv, AdmitUnscorable PROVE ScheduleInv'
<1>1. /\ nextPair' = nextPair + 1 /\ workers' = {} /\ pc' = "ended"
      /\ DOMAIN pending' = DOMAIN pending \ {nextPair}
      /\ \A p \in DOMAIN pending' : pending'[p] = pending[p]
      /\ UNCHANGED <<journal, published, nextToSchedule, held, officialPairs, postTerminal>>
  BY DEF AdmitUnscorable, Released, Fail, directory, sample
<1>2. nextPair + 1 \in 1..nextToSchedule
  <2>1. nextPair \in nextPair..(nextToSchedule - 1)
    BY DEF AdmitUnscorable, ScheduleInv, EveryPairOnce
  <2> QED
    BY <2>1, SizeAssumption DEF ScheduleInv, ScheduleType
<1> QED
  BY <1>1, <1>2, FS_EmptySet, EndStep

LEMMA EndingStep ==
    ASSUME ScheduleInv, WorkerFails \/ EndLoop \/ Abandon
    PROVE  ScheduleInv'
<1>1. /\ pc' = "ended" /\ (workers' = {} \/ workers' = workers)
      /\ UNCHANGED <<journal, published, nextToSchedule, held, nextPair, pending, officialPairs,
                     postTerminal>>
  BY DEF WorkerFails, EndLoop, Abandon, Fail, directory, sample, commitQueue, slots
<1>2. nextPair' \in 1..nextToSchedule /\ IsFiniteSet(workers')
  BY <1>1, FS_EmptySet DEF ScheduleInv, ScheduleType
<1> QED
  BY <1>1, <1>2, EndStep

\* A stop and the end of a release touch none of it.
LEMMA FrameStep ==
    ASSUME ScheduleInv, NothingToRelease \/ Interrupt \/ GraceExpires \/ UNCHANGED vars
    PROVE  ScheduleInv'
<1>1. /\ UNCHANGED <<journal, published, nextToSchedule, workers, held, nextPair, pending,
                     officialPairs, postTerminal>>
      /\ pc' = pc \/ (pc = "release" /\ pc' = "loop")
  BY DEF NothingToRelease, Interrupt, GraceExpires, vars, directory, slots, commitQueue, sample
<1>2. ScheduleType'
  BY <1>1 DEF ScheduleInv, ScheduleType
<1>3. JournalInv' /\ DownIsEmpty'
  BY <1>1 DEF ScheduleInv, JournalInv, Live, DownIsEmpty
<1>4. EveryPairOnce' /\ SlotsExclusive'
  BY <1>1 DEF ScheduleInv, EveryPairOnce, SlotsExclusive
<1> QED
  BY <1>2, <1>3, <1>4 DEF ScheduleInv

LEMMA ExitStep == ASSUME ScheduleInv, Exit PROVE ScheduleInv'
<1>1. journal' = journal /\ Down
  BY DEF Exit
<1>2. published'.pairs \in Seq(Outcome)
  BY DEF Exit, ScheduleInv, ScheduleType, JournalInv
<1> QED
  BY <1>1, <1>2, DownStep DEF ScheduleInv, JournalInv

\* A crash keeps a prefix of the journal.
LEMMA CrashStep == ASSUME ScheduleInv, Crash PROVE ScheduleInv'
<1>1. PICK kept \in Len(published.pairs)..Len(journal) : journal' = SubSeq(journal, 1, kept)
  BY DEF Crash
<1>2. /\ journal \in Seq([outcome : Outcome, class : Class]) /\ Len(journal) <= MaxPairs
      /\ published.pairs \in Seq(Outcome)
  BY DEF ScheduleInv, JournalInv
<1>3. kept \in 0..Len(journal)
  BY <1>1, <1>2, LenProperties
<1>4. 1 \in 1..Len(journal) + 1
  BY <1>2, LenProperties
<1> DEFINE Committed == [outcome : Outcome, class : Class]
<1> HIDE DEF Committed
<1>5. /\ journal' \in Seq(Committed)
      /\ Len(journal') = IF 1 <= kept THEN kept - 1 + 1 ELSE 0
  <2>1. journal \in Seq(Committed)
    BY <1>2 DEF Committed
  <2> QED
    BY <1>1, <1>3, <1>4, <2>1, SubSeqProperties
<1>6. Len(journal') <= MaxPairs
  BY <1>2, <1>3, <1>5, LenProperties, SizeAssumption
<1> QED
  BY <1>2, <1>5, <1>6, DownStep DEF Crash, Committed

\* The next invocation continues behind the pairs of the journal.
LEMMA ResumeStep == ASSUME ScheduleInv, Resume PROVE ScheduleInv'
<1>1. /\ pc = "down" /\ pc' = "loop"
      /\ officialPairs' = [i \in DOMAIN journal |-> journal[i].outcome]
      /\ nextToSchedule' = Len(journal) + 1 /\ nextPair' = Len(journal) + 1
      /\ UNCHANGED <<journal, published, workers, held, pending, postTerminal>>
  BY DEF Resume, directory, slots
<1>2. /\ workers = {} /\ held = [s \in Slots |-> FALSE] /\ DOMAIN pending = {} /\ postTerminal = 0
      /\ journal \in Seq([outcome : Outcome, class : Class]) /\ Len(journal) <= MaxPairs
      /\ published.pairs \in Seq(Outcome)
  BY <1>1 DEF ScheduleInv, DownIsEmpty, JournalInv
<1>3. /\ Len(journal) \in Nat /\ DOMAIN journal = 1..Len(journal)
      /\ \A i \in 1..Len(journal) : journal[i].outcome \in Outcome
  <2> DEFINE Committed == [outcome : Outcome, class : Class]
  <2>1. \A c \in Committed : c.outcome \in Outcome
    OBVIOUS
  <2>2. journal \in Seq(Committed)
    BY <1>2
  <2> HIDE DEF Committed
  <2>3. \A i \in 1..Len(journal) : journal[i] \in Committed
    BY <2>2, ElementOfSeq
  <2> QED
    BY <2>1, <2>2, <2>3, LenProperties
<1> DEFINE n == Len(journal)
<1> HIDE DEF n
<1>4. officialPairs' \in Seq(Outcome) /\ Len(officialPairs') = Len(journal)
  <2>1. n \in Nat /\ officialPairs' \in [1..n -> Outcome]
    BY <1>1, <1>3 DEF n
  <2>2. officialPairs' \in Seq(Outcome)
    BY <2>1, IsASeq
  <2>3. Len(officialPairs') = n
    BY <2>1, <2>2, LenProperties
  <2> QED
    BY <2>2, <2>3 DEF n
<1>5. ScheduleType'
  BY <1>1, <1>2, <1>3, <1>4, SizeAssumption DEF ScheduleInv, ScheduleType
<1>6. JournalInv'
  BY <1>1, <1>2, <1>3 DEF JournalInv, Live
<1>7. EveryPairOnce'
  BY <1>1, <1>2, <1>3, <1>4 DEF EveryPairOnce
<1>8. DownIsEmpty' /\ SlotsExclusive'
  BY <1>1, <1>2 DEF DownIsEmpty, SlotsExclusive
<1> QED
  BY <1>5, <1>6, <1>7, <1>8 DEF ScheduleInv

LEMMA ScheduleNextInv == ScheduleInv /\ [Next]_vars => ScheduleInv'
<1> SUFFICES ASSUME ScheduleInv, [Next]_vars
             PROVE  ScheduleInv'
  OBVIOUS
<1>1. CASE ScheduleNext
  BY <1>1, LaunchStep, AdmitOfficialStep, AdmitPostTerminalStep, AdmitUnscorableStep, FrameStep,
     EndingStep DEF ScheduleNext
<1>2. CASE Join \/ WorkerFails
  BY <1>2, JoinStep, EndingStep
<1>3. CASE Interrupt \/ GraceExpires \/ UNCHANGED vars
  BY <1>3, FrameStep
<1>4. CASE Exit \/ Crash \/ Resume
  BY <1>4, ExitStep, CrashStep, ResumeStep
<1> QED
  BY <1>1, <1>2, <1>3, <1>4 DEF Next

LEMMA ScheduleCorrect == Spec => []ScheduleInv
<1> QED
  BY ScheduleInit, ScheduleNextInv, PTL DEF Spec

-----------------------------------------------------------------------------
\* Whatever order games end in, and however often the run is stopped, killed and
\* resumed, PairCommitQueue and SprtAccumulator skip no pair, admit none twice
\* and none ahead of an earlier one.
THEOREM EveryPairOnceTheorem == Spec => []EveryPairOnce
<1> QED
  BY ScheduleCorrect, PTL DEF ScheduleInv

\* No two live pairs of run_pair_schedule ever share a CPU slot, and SlotPool
\* knows exactly which slots are free.
THEOREM SlotsExclusiveTheorem == Spec => []SlotsExclusive
<1> QED
  BY ScheduleCorrect, PTL DEF ScheduleInv

\* A stop request, a spent budget or a verdict launches no pair.
THEOREM NoLaunchAfterStopTheorem == Spec => NoLaunchAfterStop
<1> DEFINE Quiet == Stopping \/ Stopped(accumulator) => workers' \subseteq workers
<1>1. ScheduleInv /\ [Next]_vars => [Quiet]_vars
  <2> SUFFICES ASSUME ScheduleInv, Next, Stopping \/ Stopped(accumulator)
               PROVE  workers' \subseteq workers
    BY DEF vars
  <2>1. CASE ScheduleNext
    BY <2>1 DEF ScheduleNext, Launch, CanLaunch, AdmitOfficial, AdmitPostTerminal, AdmitUnscorable,
       NothingToRelease, EndLoop, Abandon, Fail, slots
  <2>2. CASE Join \/ WorkerFails \/ Interrupt \/ GraceExpires
    BY <2>2 DEF Join, WorkerFails, Interrupt, GraceExpires, Fail, slots
  <2>3. CASE Exit \/ Crash \/ Resume
    BY <2>3 DEF Exit, Crash, Resume, Down, slots
  <2> QED
    BY <2>1, <2>2, <2>3 DEF Next
<1> QED
  BY <1>1, ScheduleCorrect, PTL DEF Spec, NoLaunchAfterStop

-----------------------------------------------------------------------------
(* How a schedule ends.  A schedule that neither a verdict nor a stop ended has *)
(* played its cap: the loop is entered only with nothing left to release, so    *)
(* with no live worker the queue is empty, and without a verdict no pair is     *)
(* post-terminal.                                                               *)

EndingInv ==
    /\ Len(officialPairs) < nextPair
    /\ pc = "loop" => nextPair \notin DOMAIN pending
    /\ postTerminal > 0 => Stopped(accumulator)
    /\ pc # "ended" => ending = "none"
    /\ ending = "abandoned" => Stopping
    /\ ending = "played out" =>
          Stopped(accumulator) \/ Stopping \/ Len(officialPairs) = MaxPairs

LEMMA EndingInit == Init => EndingInv
<1> SUFFICES ASSUME Init PROVE EndingInv
  OBVIOUS
<1>1. Len(<< >>) < 1
  OBVIOUS
<1> QED
  BY <1>1 DEF Init, EndingInv

\* The loop that ends by itself without a verdict or a stop has played the cap.
LEMMA PlayedOut ==
    ASSUME ScheduleInv, EndingInv, EndLoop, ~Stopped(accumulator), ~Stopping
    PROVE  Len(officialPairs) = MaxPairs
<1>1. /\ workers = {} /\ nextPair \notin DOMAIN pending /\ ~(postTerminal > 0)
      /\ postTerminal \in Nat /\ nextToSchedule \in 1..(MaxPairs + 1)
      /\ nextPair \in 1..nextToSchedule
      /\ nextPair = Len(officialPairs) + postTerminal + 1
      /\ {w.pair : w \in workers} \cup DOMAIN pending = nextPair..(nextToSchedule - 1)
  BY DEF EndLoop, EndingInv, ScheduleInv, ScheduleType, EveryPairOnce
<1>2. Cardinality(workers) < Concurrency
  BY <1>1, FS_EmptySet, SizeAssumption
<1>3. nextToSchedule = MaxPairs + 1
  <2>1. ~(nextToSchedule <= MaxPairs)
    BY <1>2 DEF EndLoop, CanLaunch
  <2>2. nextToSchedule \in 1..(MaxPairs + 1) /\ MaxPairs \in Nat
    BY <1>1, SizeAssumption
  <2> QED
    BY <2>1, <2>2
<1>4. nextPair \notin nextPair..(nextToSchedule - 1)
  BY <1>1
<1>5. nextPair = nextToSchedule
  BY <1>1, <1>4, SizeAssumption
<1>6. Len(officialPairs) \in Nat
  BY LenProperties DEF ScheduleInv, ScheduleType
<1> QED
  BY <1>1, <1>3, <1>5, <1>6, SizeAssumption

LEMMA EndingNext ==
    ASSUME ScheduleInv, EndingInv, [Next]_vars
    PROVE  EndingInv'
<1>0. Len(officialPairs') < nextPair'
  <2>1. nextPair \in Nat /\ Len(officialPairs) \in Nat
    BY LenProperties, SizeAssumption DEF ScheduleInv, ScheduleType
  <2>2. CASE pc' \in {"loop", "release"}
    <3>1. ScheduleInv'
      BY ScheduleNextInv
    <3>2. nextPair' = Len(officialPairs') + postTerminal' + 1
      BY <2>2, <3>1 DEF ScheduleInv, EveryPairOnce
    <3>3. Len(officialPairs') \in Nat /\ postTerminal' \in Nat
      BY <3>1, LenProperties DEF ScheduleInv, ScheduleType
    <3> QED
      BY <3>2, <3>3
  <2>3. CASE Exit \/ Crash
    <3>1. officialPairs' = << >> /\ nextPair' = 1
      BY <2>3 DEF Exit, Crash, Down
    <3>2. Len(<< >>) < 1
      OBVIOUS
    <3> QED
      BY <3>1, <3>2
  <2>4. CASE WorkerFails \/ AdmitUnscorable \/ EndLoop \/ Abandon \/ UNCHANGED vars
    <3>1. officialPairs' = officialPairs /\ (nextPair' = nextPair \/ nextPair' = nextPair + 1)
      BY <2>4 DEF WorkerFails, AdmitUnscorable, EndLoop, Abandon, Released, vars, commitQueue, sample
    <3>2. Len(officialPairs) < nextPair
      BY DEF EndingInv
    <3>3. Len(officialPairs) < nextPair + 1
      BY <2>1, <3>2
    <3>4. CASE nextPair' = nextPair
      BY <3>1, <3>2, <3>4
    <3>5. CASE nextPair' = nextPair + 1
      BY <3>1, <3>3, <3>5
    <3> QED
      BY <3>1, <3>4, <3>5
  <2>5. CASE \/ Launch \/ Join \/ AdmitOfficial \/ AdmitPostTerminal \/ NothingToRelease
             \/ Interrupt \/ GraceExpires \/ Resume
    BY <2>2, <2>5 DEF Launch, Join, AdmitOfficial, AdmitPostTerminal, NothingToRelease, Interrupt,
       GraceExpires, Resume
  <2> QED
    BY <2>3, <2>4, <2>5 DEF Next, ScheduleNext
<1>1. CASE Launch
  BY <1>0, <1>1 DEF Launch, EndingInv, commitQueue, sample, cancellation, Stopping, Stopped
<1>2. CASE Join
  BY <1>0, <1>2 DEF Join, EndingInv, sample, cancellation, Stopping, Stopped
<1>3. CASE WorkerFails \/ AdmitUnscorable
  BY <1>0, <1>3 DEF WorkerFails, AdmitUnscorable, Fail, EndingInv, sample, cancellation, Stopped
<1>4. CASE AdmitOfficial
  <2>1. pc' = "release" /\ ending' = "none" /\ ~(postTerminal' > 0)
    BY <1>4 DEF AdmitOfficial, EndingInv
  <2> QED
    BY <1>0, <2>1 DEF EndingInv
<1>5. CASE AdmitPostTerminal
  <2>1. pc' = "release" /\ ending' = "none" /\ Stopped(accumulator')
    BY <1>5 DEF AdmitPostTerminal, EndingInv
  <2> QED
    BY <1>0, <2>1 DEF EndingInv
<1>6. CASE NothingToRelease
  BY <1>0, <1>6 DEF NothingToRelease, EndingInv, commitQueue, sample, cancellation, Stopping, Stopped
<1>7. CASE EndLoop
  <2>1. pc' = "ended" /\ ending' = "played out"
        /\ UNCHANGED <<accumulator, officialPairs, postTerminal, stage>>
    BY <1>7 DEF EndLoop, sample, cancellation
  <2>2. Stopped(accumulator) \/ Stopping \/ Len(officialPairs) = MaxPairs
    BY <1>7, PlayedOut
  <2> QED
    BY <1>0, <2>1, <2>2 DEF EndingInv, Stopping
<1>8. CASE Abandon
  <2>1. pc' = "ended" /\ ending' = "abandoned" /\ stage' = "abandon"
        /\ UNCHANGED <<accumulator, postTerminal>>
    BY <1>8 DEF Abandon, sample, cancellation
  <2> QED
    BY <1>0, <2>1 DEF EndingInv, Stopping
<1>9. CASE Interrupt \/ GraceExpires
  <2>1. pc \in {"loop", "release"} /\ ending = "none"
    BY <1>9 DEF Interrupt, GraceExpires, EndingInv
  <2> QED
    BY <1>0, <1>9, <2>1 DEF Interrupt, GraceExpires, EndingInv, commitQueue, sample
<1>10. CASE Exit \/ Crash
  <2>1. pc' = "down" /\ ending' = "none" /\ postTerminal' = 0
    BY <1>10 DEF Exit, Crash, Down
  <2>2. ~(postTerminal' > 0)
    BY <2>1
  <2> QED
    BY <1>0, <2>1, <2>2 DEF EndingInv
<1>11. CASE Resume
  <2>1. /\ pc' = "loop" /\ ending' = "none"
        /\ DOMAIN pending = {} /\ postTerminal = 0
        /\ pending' = pending /\ postTerminal' = postTerminal
    BY <1>11 DEF Resume, ScheduleInv, DownIsEmpty, EndingInv
  <2>2. ~(postTerminal' > 0) /\ nextPair' \notin DOMAIN pending'
    BY <2>1
  <2> QED
    BY <1>0, <2>1, <2>2 DEF EndingInv
<1>12. CASE UNCHANGED vars
  BY <1>0, <1>12 DEF vars, commitQueue, sample, cancellation, EndingInv, Stopping, Stopped
<1> QED
  BY <1>1, <1>2, <1>3, <1>4, <1>5, <1>6, <1>7, <1>8, <1>9, <1>10, <1>11, <1>12
     DEF Next, ScheduleNext

\* A stop cancels a test only if it still had pairs to play, and a test reported
\* inconclusive has its whole cap in the official sample: never is a schedule that
\* ended early, or lost a pair on its way, reported as played out.
THEOREM StatusIsRightTheorem == Spec => []StatusIsRight
<1>1. ASSUME ScheduleInv, EndingInv PROVE StatusIsRight
  <2>1. Len(officialPairs) <= MaxPairs
    <3>1. /\ nextToSchedule \in 1..(MaxPairs + 1) /\ nextPair \in 1..nextToSchedule
          /\ Len(officialPairs) \in Nat /\ postTerminal \in Nat
      BY <1>1, LenProperties DEF ScheduleInv, ScheduleType
    <3>2. Len(officialPairs) < nextPair /\ MaxPairs \in Nat
      BY <1>1, SizeAssumption DEF EndingInv
    <3> QED
      BY <3>1, <3>2
  <2> QED
    <3>1. Len(officialPairs) \in Nat /\ MaxPairs \in Nat
      BY <1>1, LenProperties, SizeAssumption DEF ScheduleInv, ScheduleType
    <3>3. CASE ending \in {"played out", "abandoned"} /\ ReportStatus = "inconclusive"
      <4>1. ~Stopped(accumulator) /\ ~StopCancels
        BY <3>3 DEF ReportStatus, Stopped
      <4>2. (Stopping /\ ~(Len(officialPairs) < MaxPairs)) \/ Len(officialPairs) = MaxPairs
        BY <1>1, <3>3, <4>1 DEF EndingInv, StopCancels
      <4>3. Len(officialPairs) = MaxPairs
        BY <2>1, <3>1, <4>2
      <4>4. ReportStatus # "cancelled"
        BY <3>3
      <4> QED
        BY <4>3, <4>4 DEF StatusIsRight
    <3>4. ReportStatus = "cancelled" => Len(officialPairs) < MaxPairs /\ Stopping
      BY DEF ReportStatus, StopCancels
    <3> QED
      BY <3>3, <3>4 DEF StatusIsRight
<1> QED
  BY <1>1, ScheduleCorrect, EndingInit, EndingNext, PTL DEF Spec

-----------------------------------------------------------------------------
(* What the sample holds.  The accumulator is a fold over the admitted pairs;  *)
(* its closed form counts them, and a fold of the same pairs from the journal  *)
(* comes to the same value: that is why a resumed test continues where the     *)
(* interrupted one stood.                                                      *)

Scorable == {"win", "loss", "forfeit"}

\* The indices up to n of the wins, of the other results, and of the faults.
Wins(outcomes, n) == {i \in 1..n : outcomes[i] = "win"}
Losses(outcomes, n) == {i \in 1..n : outcomes[i] # "win"}
Faults(outcomes, n) == {i \in 1..n : outcomes[i] = "forfeit"}

Score(outcomes, n) == Cardinality(Wins(outcomes, n)) - Cardinality(Losses(outcomes, n))
Exceeded(outcomes, n) == Cardinality(Faults(outcomes, n)) > FaultAllowance
Crossed(outcomes, n) == Score(outcomes, n) \in {Boundary, -Boundary}
Verdict(outcomes, n) == Exceeded(outcomes, n) \/ Crossed(outcomes, n)

\* The accumulator after n pairs, in closed form.
Counted(outcomes, n) ==
    IF n = 0 THEN NewAccumulator
    ELSE [score |-> Score(outcomes, n),
          faults |-> Cardinality(Faults(outcomes, n)),
          invalid |-> IF Exceeded(outcomes, n) THEN n ELSE 0,
          terminal |-> IF ~Exceeded(outcomes, n) /\ Crossed(outcomes, n) THEN n ELSE 0]

JournalOutcomes == [i \in DOMAIN journal |-> journal[i].outcome]

\* No official pair of the journal stands behind a verdict: true of every prefix
\* a crash may leave.
JournalUndecided ==
    /\ \A i \in DOMAIN journal :
           journal[i].class = "official" => journal[i].outcome \in Scorable
    /\ \A n \in 1..(Len(journal) - 1) :
           journal[n + 1].class = "official" => ~Verdict(JournalOutcomes, n)

\* The sample is what the accumulator counted and what the journal holds as
\* official; only a verdict makes the journal longer than the sample.
SampleIsJournalled ==
    pc # "down" =>
        /\ accumulator = Counted(officialPairs, Len(officialPairs))
        /\ Len(officialPairs) <= Len(journal)
        /\ \A i \in 1..Len(officialPairs) :
               journal[i].class = "official" /\ journal[i].outcome = officialPairs[i]
        /\ \A i \in (Len(officialPairs) + 1)..Len(journal) : journal[i].class = "post-terminal"

SampleInv ==
    /\ officialPairs \in Seq(Scorable)
    /\ pc = "down" => officialPairs = << >>
    /\ \A n \in 1..(Len(officialPairs) - 1) : ~Verdict(officialPairs, n)
    /\ JournalUndecided
    /\ SampleIsJournalled

-----------------------------------------------------------------------------
\* One more pair adds its index to each set it belongs to.
LEMMA OneMorePair ==
    ASSUME NEW outcomes, NEW n \in Nat \ {0}
    PROVE  /\ Cardinality(Wins(outcomes, n)) =
                 Cardinality(Wins(outcomes, n - 1)) + (IF outcomes[n] = "win" THEN 1 ELSE 0)
           /\ Cardinality(Losses(outcomes, n)) =
                 Cardinality(Losses(outcomes, n - 1)) + (IF outcomes[n] # "win" THEN 1 ELSE 0)
           /\ Cardinality(Faults(outcomes, n)) =
                 Cardinality(Faults(outcomes, n - 1)) + (IF outcomes[n] = "forfeit" THEN 1 ELSE 0)
<1>1. ASSUME NEW S \in SUBSET (1..(n - 1))
      PROVE  Cardinality(S) \in Nat /\ Cardinality(S \cup {n}) = Cardinality(S) + 1
  <2>1. IsFiniteSet(S)
    <3>1. IsFiniteSet(1..(n - 1))
      BY FS_Interval
    <3> QED
      BY <3>1, FS_Subset
  <2>2. n \notin S
    OBVIOUS
  <2> QED
    BY <2>1, <2>2, FS_AddElement, FS_CardinalityType
<1>2. 1..n = (1..(n - 1)) \cup {n}
  OBVIOUS
<1>3. Wins(outcomes, n) =
          IF outcomes[n] = "win" THEN Wins(outcomes, n - 1) \cup {n} ELSE Wins(outcomes, n - 1)
  BY <1>2 DEF Wins
<1>4. Losses(outcomes, n) =
          IF outcomes[n] # "win" THEN Losses(outcomes, n - 1) \cup {n} ELSE Losses(outcomes, n - 1)
  BY <1>2 DEF Losses
<1>5. Faults(outcomes, n) =
          IF outcomes[n] = "forfeit" THEN Faults(outcomes, n - 1) \cup {n}
          ELSE Faults(outcomes, n - 1)
  BY <1>2 DEF Faults
<1>6. /\ Wins(outcomes, n - 1) \in SUBSET (1..(n - 1))
      /\ Losses(outcomes, n - 1) \in SUBSET (1..(n - 1))
      /\ Faults(outcomes, n - 1) \in SUBSET (1..(n - 1))
  BY DEF Wins, Losses, Faults
<1>7. Cardinality(Wins(outcomes, n)) =
          Cardinality(Wins(outcomes, n - 1)) + (IF outcomes[n] = "win" THEN 1 ELSE 0)
  BY <1>1, <1>3, <1>6
<1>8. Cardinality(Losses(outcomes, n)) =
          Cardinality(Losses(outcomes, n - 1)) + (IF outcomes[n] # "win" THEN 1 ELSE 0)
  <2>1. CASE outcomes[n] # "win"
    <3>1. Losses(outcomes, n) = Losses(outcomes, n - 1) \cup {n}
      BY <1>4, <2>1
    <3> QED
      BY <1>1, <1>6, <2>1, <3>1
  <2>2. CASE ~(outcomes[n] # "win")
    <3>1. Losses(outcomes, n) = Losses(outcomes, n - 1)
      BY <1>4, <2>2
    <3>2. Cardinality(Losses(outcomes, n - 1)) \in Nat
      BY <1>1, <1>6
    <3> QED
      BY <2>2, <3>1, <3>2
  <2> QED
    BY <2>1, <2>2
<1>9. Cardinality(Faults(outcomes, n)) =
          Cardinality(Faults(outcomes, n - 1)) + (IF outcomes[n] = "forfeit" THEN 1 ELSE 0)
  <2>1. CASE outcomes[n] = "forfeit"
    <3>1. Faults(outcomes, n) = Faults(outcomes, n - 1) \cup {n}
      BY <1>5, <2>1
    <3> QED
      BY <1>1, <1>6, <2>1, <3>1
  <2>2. CASE ~(outcomes[n] = "forfeit")
    <3>1. Faults(outcomes, n) = Faults(outcomes, n - 1)
      BY <1>5, <2>2
    <3>2. Cardinality(Faults(outcomes, n - 1)) \in Nat
      BY <1>1, <1>6
    <3> QED
      BY <2>2, <3>1, <3>2
  <2> QED
    BY <2>1, <2>2
<1> QED
  BY <1>7, <1>8, <1>9

LEMMA CountsType ==
    ASSUME NEW outcomes, NEW n \in Nat
    PROVE  /\ Cardinality(Wins(outcomes, n)) \in Nat
           /\ Cardinality(Losses(outcomes, n)) \in Nat
           /\ Cardinality(Faults(outcomes, n)) \in Nat
<1>1. IsFiniteSet(1..n)
  BY FS_Interval
<1>2. /\ Wins(outcomes, n) \subseteq 1..n /\ Losses(outcomes, n) \subseteq 1..n
      /\ Faults(outcomes, n) \subseteq 1..n
  BY DEF Wins, Losses, Faults
<1> QED
  BY <1>1, <1>2, FS_Subset, FS_CardinalityType

\* Before the first pair nothing is counted.
LEMMA CountsOfNone ==
    ASSUME NEW outcomes
    PROVE  Score(outcomes, 0) = 0 /\ Cardinality(Faults(outcomes, 0)) = 0
<1>1. Wins(outcomes, 0) = {} /\ Losses(outcomes, 0) = {} /\ Faults(outcomes, 0) = {}
  BY DEF Wins, Losses, Faults
<1> QED
  BY <1>1, FS_EmptySet DEF Score

\* The closed form takes the accumulator's step.
LEMMA CountedStep ==
    ASSUME NEW outcomes, NEW n \in Nat \ {0}
    PROVE  Counted(outcomes, n) = Admitted(Counted(outcomes, n - 1), n, outcomes[n])
<1> DEFINE w == Cardinality(Wins(outcomes, n - 1))
           l == Cardinality(Losses(outcomes, n - 1))
           f == Cardinality(Faults(outcomes, n - 1))
<1>1. w \in Nat /\ l \in Nat /\ f \in Nat
  BY CountsType
<1>2. Counted(outcomes, n - 1).score = w - l /\ Counted(outcomes, n - 1).faults = f
  <2>1. CASE n = 1
    BY <2>1, CountsOfNone DEF Counted, NewAccumulator, Score
  <2>2. CASE n # 1
    BY <2>2 DEF Counted, Score
  <2> QED
    BY <2>1, <2>2
<1>3. Score(outcomes, n) = (w - l) + Lean(outcomes[n])
  BY <1>1, OneMorePair DEF Score, Lean
<1>4. Cardinality(Faults(outcomes, n)) = f + (IF outcomes[n] = "forfeit" THEN 1 ELSE 0)
  BY OneMorePair
<1> QED
  BY <1>2, <1>3, <1>4 DEF Counted, Admitted, Exceeded, Crossed

\* Replaying some outcomes is counting them, whatever they are: the recursion
\* has the closed form for a solution, and no other.
LEMMA ReplayedIsCounted ==
    ASSUME NEW outcomes \in Seq(Outcome), NEW n \in 0..Len(outcomes)
    PROVE  Replayed(outcomes)[n] = Counted(outcomes, n)
<1> DEFINE I == 0..Len(outcomes)
           Step(g) == [i \in I |-> IF i = 0 THEN NewAccumulator
                                   ELSE Admitted(g[i - 1], i, outcomes[i])]
           closed == [i \in I |-> Counted(outcomes, i)]
<1>0. Len(outcomes) \in Nat
  BY LenProperties
<1>1. closed = Step(closed)
  <2>1. ASSUME NEW i \in I
        PROVE  closed[i] = IF i = 0 THEN NewAccumulator ELSE Admitted(closed[i - 1], i, outcomes[i])
    <3>1. CASE i = 0
      BY <3>1 DEF Counted
    <3>2. CASE i # 0
      <4>1. i \in Nat \ {0} /\ i - 1 \in I
        BY <1>0, <3>2
      <4> QED
        BY <3>2, <4>1, CountedStep
    <3> QED
      BY <3>1, <3>2
  <2> HIDE DEF I
  <2> QED
    BY <2>1
<1>2. Replayed(outcomes) = CHOOSE g : g = Step(g)
  BY DEF Replayed
<1>3. (CHOOSE g : g = Step(g)) = Step(CHOOSE g : g = Step(g))
  <2> HIDE DEF Step, closed
  <2> QED
    BY <1>1
<1>4. Replayed(outcomes) = Step(Replayed(outcomes))
  BY <1>2, <1>3
<1>5. \A i \in I : Replayed(outcomes)[i] = IF i = 0 THEN NewAccumulator
                                           ELSE Admitted(Replayed(outcomes)[i - 1], i, outcomes[i])
  <2> DEFINE r == Replayed(outcomes)
  <2> HIDE DEF r
  <2>1. r = Step(r)
    BY <1>4 DEF r
  <2>2. \A i \in I : Step(r)[i] = IF i = 0 THEN NewAccumulator
                                  ELSE Admitted(r[i - 1], i, outcomes[i])
    OBVIOUS
  <2>3. \A i \in I : r[i] = Step(r)[i]
    <3> HIDE DEF Step
    <3> QED
      BY <2>1
  <2>4. \A i \in I : r[i] = IF i = 0 THEN NewAccumulator ELSE Admitted(r[i - 1], i, outcomes[i])
    <3> HIDE DEF Step
    <3> QED
      BY <2>2, <2>3
  <2> QED
    BY <2>4 DEF r
<1>6. \A i \in I : Replayed(outcomes)[i] = Counted(outcomes, i)
  <2> DEFINE Differ == {i \in I : Replayed(outcomes)[i] # Counted(outcomes, i)}
  <2> SUFFICES ASSUME Differ # {}
               PROVE  FALSE
    OBVIOUS
  <2>1. Differ \in SUBSET Nat
    BY <1>0
  <2>2. PICK i \in Differ : \A j \in Differ : ~ (j < i)
    BY <2>1, LeastOf
  <2>3. i # 0
    <3>1. Replayed(outcomes)[0] = NewAccumulator
      BY <1>0, <1>5
    <3> QED
      BY <3>1 DEF Counted
  <2>4. i \in Nat \ {0} /\ i \in I /\ i - 1 \in I /\ i - 1 < i
    BY <1>0, <2>2, <2>3
  <2>5. Replayed(outcomes)[i - 1] = Counted(outcomes, i - 1)
    BY <2>2, <2>4
  <2>6. Replayed(outcomes)[i] = Counted(outcomes, i)
    BY <1>5, <2>3, <2>4, <2>5, CountedStep
  <2> QED
    BY <2>2, <2>6
<1> QED
  BY <1>6

\* The accumulator stops with the pair that brought a verdict, and only then.
LEMMA StoppedIsVerdict ==
    ASSUME NEW outcomes, NEW n \in Nat
    PROVE  Stopped(Counted(outcomes, n)) <=> n # 0 /\ Verdict(outcomes, n)
BY DEF Stopped, Counted, NewAccumulator, Verdict

\* A verdict after n pairs depends on those pairs alone.
LEMMA VerdictOfPrefix ==
    ASSUME NEW one, NEW other, NEW n \in Nat, \A i \in 1..n : one[i] = other[i]
    PROVE  /\ Verdict(one, n) <=> Verdict(other, n)
           /\ Counted(one, n) = Counted(other, n)
<1>1. /\ Wins(one, n) = Wins(other, n) /\ Losses(one, n) = Losses(other, n)
      /\ Faults(one, n) = Faults(other, n)
  BY DEF Wins, Losses, Faults
<1> QED
  BY <1>1 DEF Verdict, Counted, Exceeded, Crossed, Score

-----------------------------------------------------------------------------
LEMMA SampleInit == Init => SampleInv
<1> SUFFICES ASSUME Init PROVE SampleInv
  OBVIOUS
<1>1. /\ pc = "down" /\ officialPairs = << >> /\ journal = << >>
      /\ Len(officialPairs) = 0 /\ Len(journal) = 0
  BY DEF Init
<1>2. officialPairs \in Seq(Scorable)
  BY <1>1, EmptySeq
<1>3. JournalUndecided
  BY <1>1 DEF JournalUndecided
<1> QED
  BY <1>1, <1>2, <1>3 DEF SampleInv, SampleIsJournalled

\* What leaves the journal and the sample alone keeps them.
LEMMA QuietStep ==
    ASSUME SampleInv, UNCHANGED <<journal, accumulator, officialPairs>>, pc' = "down" <=> pc = "down"
    PROVE  SampleInv'
<1>1. JournalUndecided'
  BY DEF SampleInv, JournalUndecided, JournalOutcomes
<1>2. SampleIsJournalled'
  BY DEF SampleInv, SampleIsJournalled
<1> QED
  BY <1>1, <1>2 DEF SampleInv

\* A prefix of the journal has no official pair behind a verdict either.
LEMMA PrefixUndecided ==
    ASSUME JournalUndecided, journal \in Seq([outcome : Outcome, class : Class]),
           NEW kept \in 0..Len(journal), journal' = SubSeq(journal, 1, kept)
    PROVE  JournalUndecided'
<1>0. Len(journal) \in Nat /\ kept \in Nat /\ kept <= Len(journal)
  BY LenProperties
<1>1. /\ Len(journal') = kept /\ DOMAIN journal' = 1..kept
      /\ \A i \in 1..kept : journal'[i] = journal[i]
  BY <1>0, SubSeqProperties
<1>2. DOMAIN journal = 1..Len(journal)
  BY LenProperties
<1>3. ASSUME NEW n \in 1..(kept - 1), journal'[n + 1].class = "official"
      PROVE  ~Verdict(JournalOutcomes', n)
  <2>1. n \in Nat /\ n \in 1..(Len(journal) - 1) /\ journal[n + 1].class = "official"
    BY <1>0, <1>1, <1>3
  <2>2. ~Verdict(JournalOutcomes, n)
    BY <2>1 DEF JournalUndecided
  <2>3. PICK outs : outs = JournalOutcomes'
    OBVIOUS
  <2>4. \A i \in 1..n : outs[i] = JournalOutcomes[i]
    BY <1>0, <1>1, <1>2, <2>1, <2>3 DEF JournalOutcomes
  <2>5. ~Verdict(outs, n)
    BY <2>1, <2>2, <2>4, VerdictOfPrefix
  <2> QED
    BY <2>3, <2>5 DEF Verdict, Exceeded, Crossed, Score, Wins, Losses, Faults
<1>4. \A i \in DOMAIN journal' :
          journal'[i].class = "official" => journal'[i].outcome \in Scorable
  BY <1>0, <1>1, <1>2 DEF JournalUndecided
<1> QED
  BY <1>1, <1>3, <1>4 DEF JournalUndecided

LEMMA StrictlyBelow ==
    ASSUME NEW m \in Nat, NEW k \in 1..m, k # m
    PROVE  k \in 1..(m - 1) /\ k + 1 \in 1..m
OBVIOUS

\* An official pair may follow as long as there is no verdict yet; a
\* post-terminal one always may.
LEMMA AppendUndecided ==
    ASSUME JournalUndecided, journal \in Seq([outcome : Outcome, class : Class]),
           NEW outcome \in Outcome, NEW class \in Class,
           journal' = Append(journal, [outcome |-> outcome, class |-> class]),
           class = "official" =>
               outcome \in Scorable /\ (Len(journal) # 0 => ~Verdict(JournalOutcomes, Len(journal)))
    PROVE  JournalUndecided'
<1> DEFINE N == Len(journal)
           entry == [outcome |-> outcome, class |-> class]
<1>0. N \in Nat /\ DOMAIN journal = 1..N
  BY LenProperties
<1>1. /\ Len(journal') = N + 1 /\ DOMAIN journal' = 1..(N + 1)
      /\ \A i \in 1..N : journal'[i] = journal[i]
      /\ journal'[N + 1] = entry
  <2>1. entry \in [outcome : Outcome, class : Class]
    OBVIOUS
  <2> QED
    BY <2>1, AppendProperties
<1>2. entry.outcome = outcome /\ entry.class = class
  OBVIOUS
<1> HIDE DEF entry
<1>3. ASSUME NEW n \in 1..N, journal'[n + 1].class = "official"
      PROVE  ~Verdict(JournalOutcomes', n)
  <2>1. n \in Nat /\ n <= N
    BY <1>0
  <2>2. ~Verdict(JournalOutcomes, n)
    <3>1. CASE n = N
      BY <1>0, <1>1, <1>2, <1>3, <3>1
    <3>2. CASE n # N
      <4>3. n \in 1..(N - 1) /\ n + 1 \in 1..N
        <5> HIDE DEF N
        <5> QED
          BY <1>0, <2>1, <3>2, StrictlyBelow
      <4> QED
        BY <1>1, <1>3, <4>3 DEF JournalUndecided
    <3> QED
      BY <3>1, <3>2
  <2>3. PICK outs : outs = JournalOutcomes'
    OBVIOUS
  <2>4. \A i \in 1..n : outs[i] = JournalOutcomes[i]
    BY <1>0, <1>1, <2>1, <2>3 DEF JournalOutcomes
  <2>5. ~Verdict(outs, n)
    BY <2>1, <2>2, <2>4, VerdictOfPrefix
  <2> QED
    BY <2>3, <2>5 DEF Verdict, Exceeded, Crossed, Score, Wins, Losses, Faults
<1>4. ASSUME NEW i \in DOMAIN journal', journal'[i].class = "official"
      PROVE  journal'[i].outcome \in Scorable
  <2>1. CASE i = N + 1
    BY <1>1, <1>2, <1>4, <2>1
  <2>2. CASE i # N + 1
    <3>1. i \in 1..N
      BY <1>0, <1>1, <2>2
    <3> QED
      BY <1>0, <1>1, <1>4, <3>1 DEF JournalUndecided
  <2> QED
    BY <2>1, <2>2
<1>5. Len(journal') - 1 = N
  BY <1>0, <1>1
<1> QED
  BY <1>3, <1>4, <1>5 DEF JournalUndecided

\* As long as there is no verdict, the journal is the sample.
LEMMA JournalIsSample ==
    ASSUME ScheduleInv, EndingInv, SampleInv, pc = "release"
    PROVE  /\ Len(officialPairs) \in Nat /\ Len(journal) \in Nat
           /\ nextPair = Len(journal) + 1
           /\ ~Stopped(accumulator) => Len(journal) = Len(officialPairs)
<1>1. /\ Len(officialPairs) \in Nat /\ Len(journal) \in Nat
      /\ Len(journal) = nextPair - 1 /\ postTerminal \in Nat
      /\ nextPair = Len(officialPairs) + postTerminal + 1
      /\ postTerminal > 0 => Stopped(accumulator)
  BY LenProperties DEF ScheduleInv, ScheduleType, JournalInv, EveryPairOnce, EndingInv, Live
<1> QED
  BY <1>1

LEMMA AdmitOfficialSample ==
    ASSUME ScheduleInv, EndingInv, SampleInv, AdmitOfficial
    PROVE  SampleInv'
<1> DEFINE N == Len(officialPairs)
<1>1. PICK outcome : outcome = pending[nextPair]
  OBVIOUS
<1>2. /\ pc = "release" /\ pc' = "release" /\ ~Stopped(accumulator)
      /\ outcome # "unscorable"
      /\ accumulator' = Admitted(accumulator, nextPair, outcome)
      /\ journal' = Append(journal, [outcome |-> outcome, class |-> "official"])
      /\ officialPairs' = Append(officialPairs, outcome)
  BY <1>1 DEF AdmitOfficial, Commit
<1>3. outcome \in Outcome /\ outcome \in Scorable
  BY <1>1, <1>2 DEF AdmitOfficial, ScheduleInv, ScheduleType, Outcome, Scorable
<1>4. N \in Nat /\ Len(journal) = N /\ nextPair = N + 1
  BY <1>2, JournalIsSample
<1>5. journal \in Seq([outcome : Outcome, class : Class]) /\ officialPairs \in Seq(Scorable)
  BY DEF ScheduleInv, JournalInv, SampleInv
<1>6. /\ accumulator = Counted(officialPairs, N)
      /\ \A i \in 1..N : journal[i].class = "official" /\ journal[i].outcome = officialPairs[i]
  BY <1>2, <1>4 DEF SampleInv, SampleIsJournalled
<1>7. N # 0 => ~Verdict(officialPairs, N)
  BY <1>2, <1>4, <1>6, StoppedIsVerdict
<1>8. JournalUndecided'
  <2>1. DOMAIN journal = 1..N
    BY <1>4, <1>5, LenProperties
  <2>2. \A i \in 1..N : JournalOutcomes[i] = officialPairs[i]
    BY <1>6, <2>1 DEF JournalOutcomes
  <2>3. N # 0 => ~Verdict(JournalOutcomes, N)
    BY <1>4, <1>7, <2>2, VerdictOfPrefix
  <2>4. JournalUndecided /\ "official" \in Class
    BY DEF SampleInv, Class
  <2> QED
    BY <1>2, <1>3, <1>4, <1>5, <2>3, <2>4, AppendUndecided
<1>9. /\ officialPairs' \in Seq(Scorable)
      /\ Len(officialPairs') = N + 1
      /\ \A i \in 1..N : officialPairs'[i] = officialPairs[i]
      /\ officialPairs'[N + 1] = outcome
  BY <1>2, <1>3, <1>5, AppendProperties
<1>10. PICK after : after = officialPairs'
  OBVIOUS
<1>11. \A i \in 1..N : after[i] = officialPairs[i]
  BY <1>9, <1>10
<1>12. ASSUME NEW n \in 1..N
       PROVE  ~Verdict(after, n)
  <2>1. n \in Nat /\ \A i \in 1..n : after[i] = officialPairs[i]
    BY <1>4, <1>11
  <2>2. ~Verdict(officialPairs, n)
    <3>1. CASE n = N
      BY <1>4, <1>7, <3>1
    <3>2. CASE n # N
      <4>1. n \in 1..(N - 1)
        BY <1>4, <3>2
      <4> QED
        BY <4>1 DEF SampleInv
    <3> QED
      BY <3>1, <3>2
  <2> QED
    BY <2>1, <2>2, VerdictOfPrefix
<1>13. accumulator' = Counted(after, N + 1)
  <2>1. Counted(after, N + 1) = Admitted(Counted(after, N), N + 1, after[N + 1])
    <3>1. N + 1 \in Nat \ {0} /\ (N + 1) - 1 = N
      BY <1>4
    <3>2. Counted(after, N + 1) = Admitted(Counted(after, (N + 1) - 1), N + 1, after[N + 1])
      BY <3>1, CountedStep
    <3> QED
      BY <3>1, <3>2
  <2>2. Counted(after, N) = Counted(officialPairs, N)
    BY <1>4, <1>11, VerdictOfPrefix
  <2> QED
    BY <1>2, <1>4, <1>6, <1>9, <1>10, <2>1, <2>2
<1>14. /\ Len(journal') = N + 1
       /\ \A i \in 1..N : journal'[i] = journal[i]
       /\ journal'[N + 1] = [outcome |-> outcome, class |-> "official"]
  <2>1. [outcome |-> outcome, class |-> "official"] \in [outcome : Outcome, class : Class]
    BY <1>3 DEF Class
  <2> QED
    BY <1>2, <1>4, <1>5, <2>1, AppendProperties
<1>15. SampleIsJournalled'
  <2>1. ASSUME NEW i \in 1..(N + 1)
        PROVE  journal'[i].class = "official" /\ journal'[i].outcome = officialPairs'[i]
    <3>1. CASE i = N + 1
      BY <1>9, <1>14, <3>1
    <3>2. CASE i # N + 1
      <4>1. i \in 1..N
        BY <1>4, <3>2
      <4> QED
        BY <1>6, <1>9, <1>14, <4>1
    <3> QED
      BY <3>1, <3>2
  <2>2. accumulator' = Counted(officialPairs', Len(officialPairs'))
    BY <1>9, <1>10, <1>13 DEF Counted, Score, Exceeded, Crossed, Wins, Losses, Faults
  <2>3. Len(officialPairs') <= Len(journal') /\ (Len(officialPairs') + 1)..Len(journal') = {}
    BY <1>4, <1>9, <1>14
  <2> QED
    BY <1>9, <2>1, <2>2, <2>3 DEF SampleIsJournalled
<1>16. \A n \in 1..(Len(officialPairs') - 1) : ~Verdict(officialPairs', n)
  <2>1. Len(officialPairs') - 1 = N
    BY <1>4, <1>9
  <2> QED
    BY <1>10, <1>12, <2>1 DEF Verdict, Score, Exceeded, Crossed, Wins, Losses, Faults
<1> QED
  BY <1>2, <1>8, <1>9, <1>15, <1>16 DEF SampleInv

LEMMA AdmitPostTerminalSample ==
    ASSUME ScheduleInv, EndingInv, SampleInv, AdmitPostTerminal
    PROVE  SampleInv'
<1> DEFINE N == Len(officialPairs)
           M == Len(journal)
<1>1. PICK outcome : outcome = pending[nextPair]
  OBVIOUS
<1>2. /\ pc = "release" /\ pc' = "release"
      /\ journal' = Append(journal, [outcome |-> outcome, class |-> "post-terminal"])
      /\ UNCHANGED <<accumulator, officialPairs>>
  BY <1>1 DEF AdmitPostTerminal, Commit
<1>3. outcome \in Outcome /\ "post-terminal" \in Class
  BY <1>1, <1>2 DEF AdmitPostTerminal, ScheduleInv, ScheduleType, Class
<1>4. /\ N \in Nat /\ M \in Nat /\ journal \in Seq([outcome : Outcome, class : Class])
      /\ JournalUndecided
  BY <1>2, JournalIsSample DEF ScheduleInv, JournalInv, SampleInv
<1>5. JournalUndecided'
  BY <1>2, <1>3, <1>4, AppendUndecided
<1>6. /\ Len(journal') = M + 1
      /\ \A i \in 1..M : journal'[i] = journal[i]
      /\ journal'[M + 1] = [outcome |-> outcome, class |-> "post-terminal"]
  <2>1. [outcome |-> outcome, class |-> "post-terminal"] \in [outcome : Outcome, class : Class]
    BY <1>3
  <2> QED
    BY <1>2, <1>4, <2>1, AppendProperties
<1>7. /\ accumulator = Counted(officialPairs, N)
      /\ N <= M
      /\ \A i \in 1..N : journal[i].class = "official" /\ journal[i].outcome = officialPairs[i]
      /\ \A i \in (N + 1)..M : journal[i].class = "post-terminal"
  BY <1>2 DEF SampleInv, SampleIsJournalled
<1>8. SampleIsJournalled'
  <2>1. \A i \in 1..N : i \in 1..M
    BY <1>4, <1>7
  <2>2. \A i \in 1..N : journal'[i].class = "official" /\ journal'[i].outcome = officialPairs'[i]
    BY <1>2, <1>6, <1>7, <2>1
  <2>3. ASSUME NEW i \in (N + 1)..(M + 1)
        PROVE  journal'[i].class = "post-terminal"
    <3>1. CASE i = M + 1
      BY <1>6, <3>1
    <3>2. CASE i # M + 1
      <4>1. i \in (N + 1)..M /\ i \in 1..M
        BY <1>4, <3>2
      <4> QED
        BY <1>6, <1>7, <4>1
    <3> QED
      BY <3>1, <3>2
  <2>4. N <= M + 1
    BY <1>4, <1>7
  <2> QED
    BY <1>2, <1>6, <1>7, <2>2, <2>3, <2>4 DEF SampleIsJournalled
<1> QED
  BY <1>2, <1>5, <1>8 DEF SampleInv

\* What an ended or crashed invocation leaves is a prefix of its journal.
LEMMA DownSample ==
    ASSUME SampleInv, Down, JournalUndecided'
    PROVE  SampleInv'
<1>1. pc' = "down" /\ officialPairs' = << >> /\ Len(<< >>) = 0
  BY DEF Down
<1>2. officialPairs' \in Seq(Scorable)
  BY <1>1, EmptySeq
<1>3. 1..(Len(officialPairs') - 1) = {}
  BY <1>1
<1> QED
  BY <1>1, <1>2, <1>3 DEF SampleInv, SampleIsJournalled

\* A resume takes the whole journal for its sample, and replays it.
LEMMA ResumeSample ==
    ASSUME ScheduleInv, SampleInv, Resume
    PROVE  SampleInv'
<1> DEFINE M == Len(journal)
<1>1. PICK outs : outs = JournalOutcomes
  OBVIOUS
<1>2. /\ pc' = "loop" /\ journal' = journal
      /\ officialPairs' = outs /\ accumulator' = Replayed(outs)[M]
      /\ \A i \in DOMAIN journal : journal[i].class = "official"
  BY <1>1 DEF Resume, CanResume, directory, JournalOutcomes
<1>3. /\ journal \in Seq([outcome : Outcome, class : Class])
      /\ M \in Nat /\ DOMAIN journal = 1..M /\ JournalUndecided
  BY LenProperties DEF ScheduleInv, JournalInv, SampleInv
<1>4. \A i \in 1..M : outs[i] = journal[i].outcome /\ outs[i] \in Scorable
  BY <1>1, <1>2, <1>3 DEF JournalOutcomes, JournalUndecided
<1>5. outs \in Seq(Scorable) /\ Len(outs) = M
  <2>1. outs \in [1..M -> Scorable]
    BY <1>1, <1>3, <1>4 DEF JournalOutcomes
  <2> QED
    BY <1>3, <2>1, SeqDef, LenProperties
<1>6. Counted(outs, M) = accumulator'
  <2>1. outs \in Seq(Outcome)
    <3>1. outs \in [1..M -> Outcome]
      BY <1>1, <1>3, <1>4 DEF JournalOutcomes, Scorable, Outcome
    <3> QED
      BY <1>3, <3>1, SeqDef
  <2>2. M \in 0..Len(outs)
    BY <1>3, <1>5
  <2> QED
    BY <1>2, <2>1, <2>2, ReplayedIsCounted
<1>7. \A n \in 1..(M - 1) : ~Verdict(outs, n)
  <2> SUFFICES ASSUME NEW n \in 1..(M - 1)
               PROVE  ~Verdict(outs, n)
    OBVIOUS
  <2>1. n + 1 \in 1..M
    BY <1>3
  <2> QED
    BY <1>1, <1>2, <1>3, <2>1 DEF JournalUndecided
<1>8. JournalUndecided'
  BY <1>2, <1>3 DEF JournalUndecided, JournalOutcomes
<1>9. SampleIsJournalled'
  <2>1. accumulator' = Counted(officialPairs', Len(officialPairs'))
    BY <1>2, <1>5, <1>6 DEF Counted, Score, Exceeded, Crossed, Wins, Losses, Faults
  <2>2. (M + 1)..M = {} /\ M <= M
    BY <1>3
  <2> QED
    BY <1>2, <1>3, <1>4, <1>5, <2>1, <2>2 DEF SampleIsJournalled
<1>10. \A n \in 1..(Len(officialPairs') - 1) : ~Verdict(officialPairs', n)
  BY <1>2, <1>5, <1>7 DEF Verdict, Score, Exceeded, Crossed, Wins, Losses, Faults
<1> QED
  BY <1>2, <1>5, <1>8, <1>9, <1>10 DEF SampleInv

LEMMA SampleNext ==
    ASSUME ScheduleInv, EndingInv, SampleInv, [Next]_vars
    PROVE  SampleInv'
<1>1. CASE \/ Launch \/ Join \/ WorkerFails \/ AdmitUnscorable \/ NothingToRelease \/ EndLoop
           \/ Abandon \/ Interrupt \/ GraceExpires \/ UNCHANGED vars
  <2>1. UNCHANGED <<journal, accumulator, officialPairs>>
    BY <1>1 DEF Launch, Join, WorkerFails, AdmitUnscorable, NothingToRelease, EndLoop, Abandon,
       Interrupt, GraceExpires, vars, directory, sample
  <2>2. pc' = "down" <=> pc = "down"
    BY <1>1 DEF Launch, Join, WorkerFails, AdmitUnscorable, NothingToRelease, EndLoop, Abandon,
       Interrupt, GraceExpires, Fail, vars
  <2> QED
    BY <2>1, <2>2, QuietStep
<1>2. CASE AdmitOfficial
  BY <1>2, AdmitOfficialSample
<1>3. CASE AdmitPostTerminal
  BY <1>3, AdmitPostTerminalSample
<1>4. CASE Exit
  <2>1. JournalUndecided'
    BY <1>4 DEF Exit, SampleInv, JournalUndecided, JournalOutcomes
  <2> QED
    BY <1>4, <2>1, DownSample DEF Exit
<1>5. CASE Crash
  <2>1. PICK kept \in Len(published.pairs)..Len(journal) : journal' = SubSeq(journal, 1, kept)
    BY <1>5 DEF Crash
  <2>2. /\ journal \in Seq([outcome : Outcome, class : Class]) /\ JournalUndecided
        /\ Len(journal) \in Nat /\ Len(published.pairs) \in Nat
    BY LenProperties DEF ScheduleInv, JournalInv, SampleInv
  <2>3. kept \in 0..Len(journal)
    BY <2>2
  <2>4. JournalUndecided'
    BY <2>1, <2>2, <2>3, PrefixUndecided
  <2> QED
    BY <1>5, <2>4, DownSample DEF Crash
<1>6. CASE Resume
  BY <1>6, ResumeSample
<1> QED
  BY <1>1, <1>2, <1>3, <1>4, <1>5, <1>6 DEF Next, ScheduleNext

LEMMA SampleCorrect == Spec => []SampleInv
BY ScheduleCorrect, ScheduleInit, EndingInit, EndingNext, SampleInit, SampleNext, PTL DEF Spec

\* The reference decision is the verdict of the official sample.
LEMMA DecidesIsVerdict ==
    ASSUME officialPairs \in Seq(Scorable), NEW n \in 0..Len(officialPairs)
    PROVE  Decides(n) <=> Verdict(officialPairs, n)
<1>1. \A i \in 1..n : officialPairs[i] \in Scorable
  <2>1. Len(officialPairs) \in Nat
    BY LenProperties
  <2>2. \A i \in 1..n : i \in 1..Len(officialPairs)
    BY <2>1
  <2> QED
    BY <2>2, ElementOfSeq
<1>2. /\ {i \in 1..n : officialPairs[i] \in {"win"}} = Wins(officialPairs, n)
      /\ {i \in 1..n : officialPairs[i] \in {"loss", "forfeit"}} = Losses(officialPairs, n)
      /\ {i \in 1..n : officialPairs[i] \in {"forfeit"}} = Faults(officialPairs, n)
  BY <1>1 DEF Wins, Losses, Faults, Scorable
<1> QED
  BY <1>2 DEF Decides, Verdict, Exceeded, Crossed, Score

\* The official sample ends with the first pair, in schedule order, that brings
\* a verdict, and the schedule has stopped exactly when it did: in whatever order
\* the games ended, and however often the run crashed and resumed.
THEOREM SampleEndsAtBoundaryTheorem == Spec => []SampleEndsAtBoundary
<1>1. ASSUME ScheduleInv, SampleInv PROVE SampleEndsAtBoundary
  <2>1. officialPairs \in Seq(Scorable) /\ Len(officialPairs) \in Nat
    BY <1>1, LenProperties DEF SampleInv
  <2>2. \A n \in 1..(Len(officialPairs) - 1) : ~Decides(n)
    <3> SUFFICES ASSUME NEW n \in 1..(Len(officialPairs) - 1)
                 PROVE  ~Decides(n)
      OBVIOUS
    <3>1. n \in 0..Len(officialPairs) /\ ~Verdict(officialPairs, n)
      BY <1>1, <2>1 DEF SampleInv
    <3> QED
      BY <2>1, <3>1, DecidesIsVerdict
  <2>3. ASSUME pc # "down"
        PROVE  Stopped(accumulator) <=> officialPairs # << >> /\ Decides(Len(officialPairs))
    <3>1. accumulator = Counted(officialPairs, Len(officialPairs))
      BY <1>1, <2>3 DEF SampleInv, SampleIsJournalled
    <3>2. Stopped(accumulator) <=>
              Len(officialPairs) # 0 /\ Verdict(officialPairs, Len(officialPairs))
      BY <2>1, <3>1, StoppedIsVerdict
    <3>3. Len(officialPairs) # 0 <=> officialPairs # << >>
      BY <2>1, EmptySeq
    <3>4. Decides(Len(officialPairs)) <=> Verdict(officialPairs, Len(officialPairs))
      <4>1. Len(officialPairs) \in 0..Len(officialPairs)
        BY <2>1
      <4> QED
        BY <2>1, <4>1, DecidesIsVerdict
    <3> QED
      BY <3>2, <3>3, <3>4
  <2> QED
    BY <2>2, <2>3 DEF SampleEndsAtBoundary
<1> QED
  BY <1>1, ScheduleCorrect, SampleCorrect, PTL

\* Whatever a crash leaves, the run can be resumed, unless it had crossed its
\* boundary: no journal is left that replays to a verdict before its last pair.
THEOREM ResumesUnlessTerminalTheorem == Spec => []ResumesUnlessTerminal
<1>1. ASSUME ScheduleInv, SampleInv PROVE ResumesUnlessTerminal
  <2> SUFFICES ASSUME ~ \E i \in DOMAIN journal : journal[i].class = "post-terminal"
               PROVE  CanResume
    BY DEF ResumesUnlessTerminal
  <2>1. /\ journal \in Seq([outcome : Outcome, class : Class])
        /\ Len(journal) \in Nat /\ DOMAIN journal = 1..Len(journal) /\ JournalUndecided
    BY <1>1, LenProperties DEF ScheduleInv, JournalInv, SampleInv
  <2>2. \A i \in DOMAIN journal : journal[i].class = "official"
    <3>1. \A i \in DOMAIN journal : journal[i] \in [outcome : Outcome, class : Class]
      BY <2>1, ElementOfSeq
    <3> QED
      <4>1. \A x \in [outcome : Outcome, class : Class] : x.class \in Class
        OBVIOUS
      <4> QED
        BY <3>1, <4>1 DEF Class
  <2>3. JournalOutcomes \in Seq(Outcome) /\ Len(JournalOutcomes) = Len(journal)
    <3>1. \A i \in DOMAIN journal : journal[i].outcome \in Outcome
      <4>1. \A i \in DOMAIN journal : journal[i] \in [outcome : Outcome, class : Class]
        BY <2>1, ElementOfSeq
      <4>2. \A x \in [outcome : Outcome, class : Class] : x.outcome \in Outcome
        OBVIOUS
      <4> QED
        BY <4>1, <4>2
    <3>2. JournalOutcomes \in [1..Len(journal) -> Outcome]
      BY <2>1, <3>1 DEF JournalOutcomes
    <3>3. JournalOutcomes \in Seq(Outcome)
      BY <2>1, <3>2, SeqDef
    <3>4. DOMAIN JournalOutcomes = 1..Len(journal)
      BY <3>2
    <3> QED
      BY <2>1, <3>3, <3>4, LenProperties
  <2>4. ASSUME NEW i \in 0..(Len(journal) - 1)
        PROVE  ~Stopped(Replayed(JournalOutcomes)[i])
    <3>1. i \in Nat /\ i \in 0..Len(JournalOutcomes)
      BY <2>1, <2>3
    <3>2. Replayed(JournalOutcomes)[i] = Counted(JournalOutcomes, i)
      BY <2>3, <3>1, ReplayedIsCounted
    <3>3. i # 0 => ~Verdict(JournalOutcomes, i)
      <4> SUFFICES ASSUME i # 0 PROVE ~Verdict(JournalOutcomes, i)
        OBVIOUS
      <4>1. i \in 1..(Len(journal) - 1) /\ i + 1 \in 1..Len(journal)
        BY <2>1
      <4> QED
        BY <2>1, <2>2, <4>1 DEF JournalUndecided
    <3> QED
      BY <3>1, <3>2, <3>3, StoppedIsVerdict
  <2> QED
    BY <2>2, <2>4 DEF CanResume, JournalOutcomes
<1> QED
  BY <1>1, ScheduleCorrect, SampleCorrect, PTL

=============================================================================
