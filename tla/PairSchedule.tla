----------------------------- MODULE PairSchedule -----------------------------
(***************************************************************************)
(* The schedule of a sequential test: run_pair_schedule of sprt_runner.rs  *)
(* with its workers and their CPU slots (SlotPool), the commit queue that  *)
(* puts completed pairs back in order (PairCommitQueue), the accumulator   *)
(* that admits them to the official sample until a boundary is crossed     *)
(* (SprtAccumulator), the stop state it reads (Cancellation), and the next *)
(* invocation, which continues from the pairs in the journal.              *)
(*                                                                         *)
(* What a pair came to is one of Outcome.  The sequential test itself is   *)
(* left out: all that matters here is that its decision is a function of   *)
(* the sample, and a walk between two boundaries stands for it.  The       *)
(* journal is the sequence of committed pairs with their class, and what a *)
(* crash leaves of it is a prefix, as DurableRun shows.                    *)
(***************************************************************************)
EXTENDS Integers, FiniteSets, SequencesExt

CONSTANTS
    MaxPairs,          \* design.max_pairs
    Concurrency,       \* execution.concurrency, and the number of CPU slots
    Boundary,          \* how far the sample must lean for a decision
    FaultAllowance,    \* FaultPolicy: faults tolerated
    UnitBudget,        \* units committed before a stop; over MaxPairs for none
    MaxSessions        \* bound: invocations of the command

ASSUME SizeAssumption ==
    /\ MaxPairs \in Nat \ {0}
    /\ Concurrency \in Nat \ {0}
    /\ Boundary \in Nat \ {0}
    /\ FaultAllowance \in Nat
    /\ UnitBudget \in Nat \ {0}
ASSUME BoundsAssumption == MaxSessions \in Nat

Pairs == 1..MaxPairs
Slots == 1..Concurrency
Outcome == {"win", "loss", "forfeit", "unscorable"}
Class == {"official", "post-terminal"}
Status == {"decided", "invalid", "cancelled", "inconclusive"}

VARIABLES
    \* The directory.
    journal,           \* the committed pairs, with their class
    published,         \* the report of the newest invocation that had one
    \* run_pair_schedule.
    pc,                \* "down", "loop", "release" or "ended"
    nextToSchedule,
    workers,           \* the live pairs, each with the slot it holds
    held,              \* SlotPool
    nextPair, pending, \* PairCommitQueue: pending maps a pair to its outcome
    accumulator,       \* SprtAccumulator
    officialPairs,     \* the outcomes of the official pairs
    postTerminal,      \* how many pairs are post-terminal
    \* Cancellation.
    stage, remainingUnits,
    ending,            \* how the schedule ended
    sessions           \* bound: invocations so far

directory == <<journal, published>>
slots == <<workers, held>>
commitQueue == <<nextPair, pending>>
sample == <<accumulator, officialPairs, postTerminal>>
cancellation == <<stage, remainingUnits>>
vars == <<directory, pc, nextToSchedule, slots, commitQueue, sample, cancellation, ending, sessions>>

-----------------------------------------------------------------------------
(* SprtAccumulator *)

NewAccumulator == [score |-> 0, faults |-> 0, terminal |-> 0, invalid |-> 0]

Stopped(acc) == acc.terminal # 0 \/ acc.invalid # 0

Lean(outcome) == IF outcome = "win" THEN 1 ELSE -1

\* Mutant: the last fault the allowance tolerates voids the test.
Admitted_AllowanceOffByOne(acc, pair, outcome) ==
    LET score == acc.score + Lean(outcome)
        faults == acc.faults + (IF outcome = "forfeit" THEN 1 ELSE 0)
        exceeded == faults > 0 /\ faults >= FaultAllowance
    IN  [score |-> score,
         faults |-> faults,
         invalid |-> IF exceeded THEN pair ELSE 0,
         terminal |-> IF ~exceeded /\ score \in {Boundary, -Boundary} THEN pair ELSE 0]

\* A forfeit counts as a result; only too many of them void the test.  The
\* pair that crosses a boundary or the allowance is still official.
Admitted(acc, pair, outcome) ==
    LET score == acc.score + Lean(outcome)
        faults == acc.faults + (IF outcome = "forfeit" THEN 1 ELSE 0)
        exceeded == faults > FaultAllowance
    IN  [score |-> score,
         faults |-> faults,
         invalid |-> IF exceeded THEN pair ELSE 0,
         terminal |-> IF ~exceeded /\ score \in {Boundary, -Boundary} THEN pair ELSE 0]

\* The accumulator after the first n of some outcomes were admitted.
Replayed(outcomes) ==
    LET after[n \in 0..Len(outcomes)] ==
            IF n = 0 THEN NewAccumulator ELSE Admitted(after[n - 1], n, outcomes[n])
    IN  after

-----------------------------------------------------------------------------
(* The loop. *)

Stopping == stage # "running"

CanLaunch ==
    /\ ~Stopped(accumulator)
    /\ ~Stopping
    /\ nextToSchedule <= MaxPairs
    /\ Cardinality(workers) < Concurrency

\* SlotPool::take gives the lowest free slot.
Take == CHOOSE s \in Slots : ~held[s] /\ \A t \in Slots : ~held[t] => s <= t

Launch ==
    /\ pc = "loop" /\ CanLaunch
    /\ workers' = workers \cup {[pair |-> nextToSchedule, slot |-> Take]}
    /\ held' = [held EXCEPT ![Take] = TRUE]
    /\ nextToSchedule' = nextToSchedule + 1
    /\ UNCHANGED <<directory, pc, commitQueue, sample, cancellation, ending, sessions>>

\* A worker returns, in whatever order the games end: PairCommitQueue::complete
\* keeps the pair until every earlier one is there.
Join ==
    /\ pc = "loop" /\ ~CanLaunch
    /\ \E worker \in workers, outcome \in Outcome :
        /\ workers' = workers \ {worker}
        /\ held' = [held EXCEPT ![worker.slot] = FALSE]
        /\ pending' = [p \in DOMAIN pending \cup {worker.pair} |->
                          IF p = worker.pair THEN outcome ELSE pending[p]]
    /\ pc' = "release"
    /\ UNCHANGED <<directory, nextToSchedule, nextPair, sample, cancellation, ending, sessions>>

\* The schedule returns an error; dropping the JoinSet aborts the workers.
Fail(reason) ==
    /\ pc' = "ended"
    /\ ending' = reason
    /\ workers' = {}

WorkerFails ==
    /\ pc = "loop" /\ ~CanLaunch /\ workers # {}
    /\ Fail("worker failed")
    /\ UNCHANGED <<directory, nextToSchedule, held, commitQueue, sample, cancellation, sessions>>

\* PairCommitQueue releases the next pair in schedule order.
Released ==
    /\ nextPair' = nextPair + 1
    /\ pending' = [p \in DOMAIN pending \ {nextPair} |-> pending[p]]

\* record_committed_unit: a spent budget requests a stop.
RecordCommittedUnit ==
    /\ remainingUnits' = IF remainingUnits = 0 THEN 0 ELSE remainingUnits - 1
    /\ stage' = IF remainingUnits <= 1 /\ stage = "running" THEN "stopping" ELSE stage

\* Mutant: every pair is committed as official.
Commit_Official(class) ==
    journal' = Append(journal, [outcome |-> pending[nextPair], class |-> "official"])

Commit(class) == journal' = Append(journal, [outcome |-> pending[nextPair], class |-> class])

AdmitOfficial ==
    /\ pc = "release" /\ nextPair \in DOMAIN pending
    /\ ~Stopped(accumulator) /\ pending[nextPair] # "unscorable"
    /\ accumulator' = Admitted(accumulator, nextPair, pending[nextPair])
    /\ Commit("official")
    /\ officialPairs' = Append(officialPairs, pending[nextPair])
    /\ RecordCommittedUnit
    /\ Released
    /\ UNCHANGED <<published, pc, nextToSchedule, slots, postTerminal, ending, sessions>>

AdmitPostTerminal ==
    /\ pc = "release" /\ nextPair \in DOMAIN pending
    /\ Stopped(accumulator)
    /\ Commit("post-terminal")
    /\ postTerminal' = postTerminal + 1
    /\ Released
    /\ UNCHANGED <<published, pc, nextToSchedule, slots, accumulator, officialPairs,
                   cancellation, ending, sessions>>

\* admit returns UnscorablePair, before the observer is told of the pair.
AdmitUnscorable ==
    /\ pc = "release" /\ nextPair \in DOMAIN pending
    /\ ~Stopped(accumulator) /\ pending[nextPair] = "unscorable"
    /\ Fail("unscorable pair")
    /\ Released
    /\ UNCHANGED <<directory, nextToSchedule, held, sample, cancellation, sessions>>

NothingToRelease ==
    /\ pc = "release" /\ nextPair \notin DOMAIN pending
    /\ pc' = "loop"
    /\ UNCHANGED <<directory, nextToSchedule, slots, commitQueue, sample, cancellation, ending, sessions>>

\* No new pair may be launched and no live one is left.
EndLoop ==
    /\ pc = "loop" /\ ~CanLaunch /\ workers = {}
    /\ pc' = "ended" /\ ending' = "played out"
    /\ UNCHANGED <<directory, nextToSchedule, slots, commitQueue, sample, cancellation, sessions>>

\* Mutant: the abandon is looked at between two pairs only.
Abandon_WhenIdle ==
    /\ pc = "loop" /\ ~CanLaunch /\ stage = "abandon" /\ workers = {}
    /\ pc' = "ended" /\ ending' = "abandoned"
    /\ UNCHANGED <<directory, nextToSchedule, slots, commitQueue, sample, cancellation, sessions>>

\* cancellation.abandon() resolves: the live workers are aborted.
Abandon ==
    /\ pc = "loop" /\ ~CanLaunch /\ stage = "abandon"
    /\ pc' = "ended" /\ ending' = "abandoned"
    /\ workers' = {}
    /\ UNCHANGED <<directory, nextToSchedule, held, commitQueue, sample, cancellation, sessions>>

-----------------------------------------------------------------------------
(* Cancellation *)

Interrupt ==
    /\ pc \in {"loop", "release"} /\ stage # "abandon"
    /\ stage' = IF stage = "running" THEN "stopping" ELSE "abandon"
    /\ UNCHANGED <<directory, pc, nextToSchedule, slots, commitQueue, sample, remainingUnits,
                   ending, sessions>>

\* The grace period runs from the stop; its end counts as a second interrupt.
GraceExpires ==
    /\ pc \in {"loop", "release"} /\ stage = "stopping"
    /\ stage' = "abandon"
    /\ UNCHANGED <<directory, pc, nextToSchedule, slots, commitQueue, sample, remainingUnits,
                   ending, sessions>>

-----------------------------------------------------------------------------
(* The end of an invocation, and the next. *)

\* Mutant: a stop cancels a schedule that had nothing left to play, too.
StopCancels_AtCap == Stopping

\* stop_cancels: a stop only cancels a schedule that still had pairs to play.
StopCancels == Stopping /\ Len(officialPairs) < MaxPairs

ReportStatus ==
    IF accumulator.invalid # 0 THEN "invalid"
    ELSE IF accumulator.terminal # 0 THEN "decided"
    ELSE IF StopCancels THEN "cancelled"
    ELSE "inconclusive"

Down ==
    /\ pc' = "down" /\ ending' = "none"
    /\ nextToSchedule' = 1
    /\ workers' = {} /\ held' = [s \in Slots |-> FALSE]
    /\ nextPair' = 1 /\ pending' = [p \in {} |-> "win"]
    /\ accumulator' = NewAccumulator /\ officialPairs' = << >> /\ postTerminal' = 0
    /\ stage' = "running" /\ remainingUnits' = UnitBudget

\* The command settles its files and reports, if the schedule had a report.
Exit ==
    /\ pc = "ended"
    /\ published' = IF ending \in {"played out", "abandoned"}
                    THEN [status |-> ReportStatus, pairs |-> officialPairs]
                    ELSE published
    /\ Down
    /\ UNCHANGED <<journal, sessions>>

\* A crash costs a tail of the journal, unless its games were reported.
Crash ==
    /\ pc # "down"
    /\ \E kept \in Len(published.pairs)..Len(journal) : journal' = SubSeq(journal, 1, kept)
    /\ Down
    /\ UNCHANGED <<published, sessions>>

\* A run with post-terminal pairs cannot be extended, and a pair behind a
\* boundary would be InvalidResumePrefix.
CanResume ==
    /\ \A i \in DOMAIN journal : journal[i].class = "official"
    /\ \A i \in 0..(Len(journal) - 1) :
           ~Stopped(Replayed([j \in DOMAIN journal |-> journal[j].outcome])[i])

Resume ==
    /\ pc = "down" /\ sessions < MaxSessions /\ CanResume
    /\ pc' = "loop"
    /\ sessions' = sessions + 1
    /\ officialPairs' = [i \in DOMAIN journal |-> journal[i].outcome]
    /\ accumulator' = Replayed(officialPairs')[Len(journal)]
    /\ nextToSchedule' = Len(journal) + 1
    /\ nextPair' = Len(journal) + 1
    /\ UNCHANGED <<directory, slots, pending, postTerminal, cancellation, ending>>

-----------------------------------------------------------------------------
Init ==
    /\ journal = << >>
    /\ published = [status |-> "none", pairs |-> << >>]
    /\ pc = "down" /\ ending = "none"
    /\ nextToSchedule = 1
    /\ workers = {} /\ held = [s \in Slots |-> FALSE]
    /\ nextPair = 1 /\ pending = [p \in {} |-> "win"]
    /\ accumulator = NewAccumulator /\ officialPairs = << >> /\ postTerminal = 0
    /\ stage = "running" /\ remainingUnits = UnitBudget
    /\ sessions = 0

\* What the schedule does of itself, without a game coming to its end.
ScheduleNext ==
    \/ Launch \/ AdmitOfficial \/ AdmitPostTerminal \/ AdmitUnscorable \/ NothingToRelease
    \/ EndLoop \/ Abandon

Next ==
    \/ ScheduleNext \/ Join \/ WorkerFails
    \/ Interrupt \/ GraceExpires
    \/ Exit \/ Crash \/ Resume

Spec == Init /\ [][Next]_vars

\* The schedule's task is polled and its timers fire; no game need ever end.
FairSpec == Spec /\ WF_vars(ScheduleNext) /\ WF_vars(GraceExpires)

-----------------------------------------------------------------------------
(* Properties. *)

\* No pair is skipped, repeated or admitted early, whatever order the games end
\* in: the pairs behind the next one to release are exactly the admitted ones,
\* and every other scheduled pair is either live or waiting in the queue.
EveryPairOnce ==
    pc \in {"loop", "release"} =>
        /\ nextPair = Len(officialPairs) + postTerminal + 1
        /\ {w.pair : w \in workers} \cup DOMAIN pending = nextPair..(nextToSchedule - 1)
        /\ \A w \in workers : w.pair \notin DOMAIN pending
        /\ \A v, w \in workers : v.pair = w.pair => v = w

\* A live pair has its CPU slot to itself, and a free slot is really free.
SlotsExclusive ==
    pc \in {"loop", "release"} =>
        /\ \A v, w \in workers : v.slot = w.slot => v = w
        /\ \A s \in Slots : held[s] <=> \E w \in workers : w.slot = s

\* The reference decision over the first n official pairs.
Decides(n) ==
    LET of(S) == Cardinality({i \in 1..n : officialPairs[i] \in S})
    IN  \/ of({"forfeit"}) > FaultAllowance
        \/ of({"win"}) - of({"loss", "forfeit"}) \in {Boundary, -Boundary}

\* The official sample ends with the first pair, in schedule order, that
\* crosses a boundary or the fault allowance: neither the order in which the
\* games ended nor a resume changes the verdict or the sample behind it.
SampleEndsAtBoundary ==
    /\ \A n \in 1..(Len(officialPairs) - 1) : ~Decides(n)
    /\ pc # "down" => (Stopped(accumulator) <=> officialPairs # << >> /\ Decides(Len(officialPairs)))

\* A stop or a verdict launches no pair.
NoLaunchAfterStop ==
    [][Stopping \/ Stopped(accumulator) => workers' \subseteq workers]_vars

\* A stop cancels only a test that still had pairs to play, and a test that is
\* neither decided nor cancelled has played its cap.
StatusIsRight ==
    ending \in {"played out", "abandoned"} =>
        /\ ReportStatus = "inconclusive" => Len(officialPairs) = MaxPairs
        /\ ReportStatus = "cancelled" => Len(officialPairs) < MaxPairs /\ Stopping

\* A crash leaves a run that either resumes or had crossed its boundary.
ResumesUnlessTerminal ==
    pc = "down" => CanResume \/ \E i \in DOMAIN journal : journal[i].class = "post-terminal"

\* A stop ends the run within its grace period, even if a game never ends.
StopEnds == (pc = "loop" /\ Stopping) ~> (pc \in {"ended", "down"})

=============================================================================
