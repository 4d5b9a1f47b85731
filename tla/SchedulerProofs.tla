--------------------------- MODULE SchedulerProofs ---------------------------
(***************************************************************************)
(* What Scheduler keeps for every number of games, every limit, every      *)
(* number of commands and restarts, and, unless a theorem says otherwise,  *)
(* with panics and lost database writes.                                   *)
(***************************************************************************)
EXTENDS Scheduler, SequenceTheorems, FiniteSetTheorems, TLAPS

-----------------------------------------------------------------------------
(* Sequences.                                                              *)

\* Taking one element out of a sequence keeps the others in their order.
LEMMA RemoveAtProperties ==
    ASSUME NEW S, NEW s \in Seq(S), NEW i \in 1..Len(s)
    PROVE  /\ RemoveAt(s, i) \in Seq(S)
           /\ Len(RemoveAt(s, i)) = Len(s) - 1
           /\ \A j \in 1..Len(s) - 1 :
                 RemoveAt(s, i)[j] = IF j < i THEN s[j] ELSE s[j + 1]
<1> DEFINE a == SubSeq(s, 1, i - 1)
           b == SubSeq(s, i + 1, Len(s))
<1>0. Len(s) \in Nat
  BY LenProperties
<1>1. a \in Seq(S) /\ Len(a) = i - 1 /\ \A j \in 1..i - 1 : a[j] = s[j]
  <2>1. 1 \in 1..Len(s) + 1 /\ i - 1 \in 0..Len(s)
    BY <1>0
  <2>2. \A j \in 1..i - 1 : 1 + j - 1 = j
    BY <1>0
  <2> QED
    BY <1>0, <2>1, <2>2, SubSeqProperties
<1>2. b \in Seq(S) /\ Len(b) = Len(s) - i
        /\ \A j \in 1..Len(s) - i : b[j] = s[i + j]
  <2>1. i + 1 \in 1..Len(s) + 1 /\ Len(s) \in 0..Len(s)
    BY <1>0
  <2>2. \A j \in 1..Len(s) - i : (i + 1) + j - 1 = i + j
    BY <1>0
  <2> QED
    BY <1>0, <2>1, <2>2, SubSeqProperties
<1>3. RemoveAt(s, i) = a \o b
  BY DEF RemoveAt
<1>4. /\ a \o b \in Seq(S)
      /\ Len(a \o b) = Len(a) + Len(b)
      /\ \A j \in 1..Len(a) + Len(b) :
            (a \o b)[j] = IF j <= Len(a) THEN a[j] ELSE b[j - Len(a)]
  BY <1>1, <1>2, ConcatProperties, ZenonT(60)
<1> HIDE DEF a, b
<1>5. ASSUME NEW j \in 1..Len(s) - 1
      PROVE  (a \o b)[j] = IF j < i THEN s[j] ELSE s[j + 1]
  <2>1. CASE j < i
    <3>1. j <= Len(a) /\ j \in 1..i - 1 /\ j \in 1..Len(a) + Len(b)
      BY <1>0, <1>1, <1>2, <2>1
    <3> QED
      BY <1>1, <1>4, <2>1, <3>1
  <2>2. CASE j >= i
    <3>1. ~(j <= Len(a)) /\ j - (i - 1) \in 1..Len(s) - i /\ j \in 1..Len(a) + Len(b)
      BY <1>0, <1>1, <1>2, <2>2
    <3>2. i + (j - (i - 1)) = j + 1
      BY <1>0
    <3>3. (a \o b)[j] = b[j - (i - 1)]
      BY <1>1, <1>4, <3>1
    <3>4. b[j - (i - 1)] = s[j + 1]
      BY <1>2, <3>1, <3>2
    <3> QED
      BY <1>0, <2>2, <3>3, <3>4
  <2>3. j < i \/ j >= i
    BY <1>0
  <2> QED
    BY <2>1, <2>2, <2>3
<1> QED
  BY <1>0, <1>1, <1>2, <1>3, <1>4, <1>5

\* The elements of a sequence are of its set.
LEMMA ToSetOfSeq ==
    ASSUME NEW S, NEW s \in Seq(S)
    PROVE  ToSet(s) \subseteq S
BY DEF ToSet

-----------------------------------------------------------------------------
(* Type correctness.                                                       *)

LEMMA FiniteGames ==
    /\ IsFiniteSet(Games)
    /\ Cardinality(Games) = NumGames
    /\ \A S \in SUBSET Games : IsFiniteSet(S) /\ Cardinality(S) \in Nat
<1>1. 1 \in Int /\ NumGames \in Int /\ ~(1 > NumGames) /\ NumGames - 1 + 1 = NumGames
  BY NumGamesAssumption
<1>2. IsFiniteSet(Games) /\ Cardinality(Games) = NumGames
  BY <1>1, FS_Interval DEF Games
<1> QED
  BY <1>2, FS_Subset, FS_CardinalityType

LEMMA PlayedFinite ==
    /\ PlayedRows \in SUBSET Games
    /\ Cardinality(PlayedRows) \in Nat
BY FiniteGames DEF PlayedRows

\* Adding a task to the set of tasks, or taking one out, keeps its type.
LEMMA TasksType ==
    ASSUME TypeOK, NEW g \in Games
    PROVE  LET more == [t \in DOMAIN tasks \cup {g} |->
                           IF t = g THEN "playing" ELSE tasks[t]]
               fewer == Spawned(g)
           IN  /\ DOMAIN more \in SUBSET Games
               /\ more \in [DOMAIN more -> Outcome \cup {"playing", "panicked"}]
               /\ DOMAIN fewer \in SUBSET Games
               /\ fewer \in [DOMAIN fewer -> Outcome \cup {"playing", "panicked"}]
BY DEF TypeOK, Spawned

LEMMA TypeInit == Init => TypeOK
<1> SUFFICES ASSUME Init PROVE TypeOK
  OBVIOUS
<1>1. pending \in Seq(Games) /\ inFlight \in Seq(Games)
  BY NumGamesAssumption, EmptySeq DEF Init, Games
<1>2. commands \in Seq(Command)
  BY DEF Init, Command
<1>3. /\ DOMAIN tasks \in SUBSET Games
      /\ tasks \in [DOMAIN tasks -> Outcome \cup {"playing", "panicked"}]
  BY DEF Init
<1>4. dbConcurrency \in Limits /\ concurrency \in Limits
  BY DEF Init
<1> QED
  BY <1>1, <1>2, <1>3, <1>4
  DEF Init, TypeOK, RowStatus, DbStatus, TournamentStatus

\* Every step keeps every variable in its type.
LEMMA TypeNext == TypeOK /\ [Next]_vars => TypeOK'
<1> SUFFICES ASSUME TypeOK, [Next]_vars PROVE TypeOK'
  OBVIOUS
<1>1. CASE LaunchGame
  <2>1. /\ Head(pending) \in Games
        /\ Tail(pending) \in Seq(Games)
        /\ Append(inFlight, Head(pending)) \in Seq(Games)
    BY <1>1, HeadTailProperties, AppendProperties DEF LaunchGame, TypeOK
  <2>2. /\ DOMAIN tasks' \in SUBSET Games
        /\ tasks' \in [DOMAIN tasks' -> Outcome \cup {"playing", "panicked"}]
    BY <1>1, <2>1, TasksType DEF LaunchGame
  <2>3. row' \in [Games -> RowStatus]
    BY <1>1, <2>1 DEF LaunchGame, TypeOK, SetRow, Persist, RowStatus
  <2> QED
    BY <1>1, <2>1, <2>2, <2>3 DEF LaunchGame, TypeOK, loop, bounds
<1>2. CASE Settle
  <2>1. snap' \in [status : TournamentStatus, inFlight : SUBSET Games,
                   finished : Nat, clockOn : BOOLEAN]
    BY <1>2, ToSetOfSeq DEF Settle, Synced, TypeOK, tally
  <2> QED
    BY <1>2, <2>1 DEF Settle, TypeOK, store, loop, games, tally, bounds
<1>3. CASE FinishTournament
  <2>1. snap' \in [status : TournamentStatus, inFlight : SUBSET Games,
                   finished : Nat, clockOn : BOOLEAN]
    BY <1>3 DEF FinishTournament, Publish, TypeOK, TournamentStatus
  <2>2. dbStatus' \in DbStatus
    BY <1>3 DEF FinishTournament, SetStatus, Persist, TypeOK, DbStatus
  <2> QED
    BY <1>3, <2>1, <2>2 DEF FinishTournament, TypeOK, games, bounds
<1>4. CASE Handle
  <2>1. commands # <<>> /\ Head(commands) \in Command /\ Tail(commands) \in Seq(Command)
    BY <1>4, HeadTailProperties
    DEF Handle, Go, Stop, ForceStop, SetConcurrency, Receive, TypeOK
  <2>2. CASE Go
    <3>1. dbStatus' \in DbStatus /\ running' \in BOOLEAN
      BY <2>2 DEF Go, SetStatus, Persist, TypeOK, DbStatus
    <3>2. snap' \in [status : TournamentStatus, inFlight : SUBSET Games,
                     finished : Nat, clockOn : BOOLEAN]
      BY <2>2 DEF Go, SnapshotStatus, TypeOK, TournamentStatus
    <3> QED
      BY <2>1, <2>2, <3>1, <3>2 DEF Go, Receive, TypeOK, bounds
  <2>3. CASE Stop
    <3>1. dbStatus' \in DbStatus
      BY <2>3 DEF Stop, SetStatus, Persist, TypeOK, DbStatus
    <3>2. snap' \in [status : TournamentStatus, inFlight : SUBSET Games,
                     finished : Nat, clockOn : BOOLEAN]
      BY <2>3 DEF Stop, SnapshotStatus, DrainStatus, TypeOK, TournamentStatus
    <3> QED
      BY <2>1, <2>3, <3>1, <3>2 DEF Stop, Receive, TypeOK, bounds
  <2>4. CASE ForceStop
    <3>1. dbStatus' \in DbStatus
      BY <2>4 DEF ForceStop, SetStatus, Persist, TypeOK, DbStatus
    <3>2. snap' \in [status : TournamentStatus, inFlight : SUBSET Games,
                     finished : Nat, clockOn : BOOLEAN]
      BY <2>4 DEF ForceStop, TypeOK, TournamentStatus
    <3>3. row' \in [Games -> RowStatus]
      BY <2>4 DEF ForceStop, DiscardRows, Persist, TypeOK, RowStatus
    <3>4. /\ DOMAIN tasks' \in SUBSET Games
          /\ tasks' \in [DOMAIN tasks' -> Outcome \cup {"playing", "panicked"}]
      BY <2>4 DEF ForceStop
    <3>5. pending' \in Seq(Games) /\ inFlight' \in Seq(Games)
      BY <2>4, ConcatProperties, EmptySeq DEF ForceStop, Requeued, TypeOK
    <3> QED
      BY <2>1, <2>4, <3>1, <3>2, <3>3, <3>4, <3>5 DEF ForceStop, Receive, TypeOK, bounds
  <2>5. CASE SetConcurrency
    <3>1. concurrency' \in Limits
      BY <2>1, <2>5 DEF SetConcurrency, Receive, Command
    <3>2. dbConcurrency' \in Limits
      BY <2>5, <3>1 DEF SetConcurrency, Persist, TypeOK
    <3> QED
      BY <2>1, <2>5, <3>1, <3>2 DEF SetConcurrency, Receive, TypeOK, bounds
  <2> QED
    BY <1>4, <2>2, <2>3, <2>4, <2>5 DEF Handle
<1>5. CASE \E g \in Games : RecordReport(g)
  <2> PICK g \in Games : RecordReport(g)
    BY <1>5
  <2>1. inFlight' \in Seq(Games)
    BY RemoveAtProperties DEF RecordReport, TakenBack, TypeOK
  <2>2. joined' \in Games \X Outcome
    BY DEF RecordReport
  <2>3. row' \in [Games -> RowStatus]
    BY DEF RecordReport, SetRow, Persist, TypeOK, RowStatus
  <2>4. /\ DOMAIN tasks' \in SUBSET Games
        /\ tasks' \in [DOMAIN tasks' -> Outcome \cup {"playing", "panicked"}]
    BY TasksType DEF RecordReport
  <2> QED
    BY <2>1, <2>2, <2>3, <2>4 DEF RecordReport, TypeOK, loop, tally, bounds
<1>6. CASE \E g \in Games : PanicLogged(g)
  <2> PICK g \in Games : PanicLogged(g)
    BY <1>6
  <2>1. /\ DOMAIN tasks' \in SUBSET Games
        /\ tasks' \in [DOMAIN tasks' -> Outcome \cup {"playing", "panicked"}]
    BY TasksType DEF PanicLogged
  <2> QED
    BY <2>1 DEF PanicLogged, TypeOK, store, loop, tally, bounds
<1>7. CASE PublishReport
  <2>1. joined[1] \in Games
    BY <1>7 DEF PublishReport, TypeOK
  <2>2. Scorable(joined[2]) \in Nat
    BY DEF Scorable
  <2>3. exported' \in [Games -> Nat] /\ standings' \in [Games -> Nat]
    BY <1>7, <2>1, <2>2, SMTT(60) DEF PublishReport, TypeOK
  <2>4. finishedCount' \in Nat
    BY <1>7 DEF PublishReport, TypeOK
  <2>5. clockOn' \in BOOLEAN
    BY <1>7 DEF PublishReport, ClockGoesOn, TypeOK
  <2>6. (IF running THEN "Running" ELSE DrainStatus(inFlight)) \in TournamentStatus
    BY DEF DrainStatus, TournamentStatus
  <2>7. ToSet(inFlight) \in SUBSET Games
    BY ToSetOfSeq DEF TypeOK
  <2>8. snap' \in [status : TournamentStatus, inFlight : SUBSET Games,
                   finished : Nat, clockOn : BOOLEAN]
    BY <1>7, <2>4, <2>5, <2>6, <2>7 DEF PublishReport, Publish
  <2> QED
    BY <1>7, <2>3, <2>4, <2>5, <2>8 DEF PublishReport, TypeOK, loop, bounds
<1>8. CASE \E g \in Games : TaskEnds(g)
  <2> PICK g \in Games : TaskEnds(g)
    BY <1>8
  <2>1. /\ DOMAIN tasks' \in SUBSET Games
        /\ tasks' \in [DOMAIN tasks' -> Outcome \cup {"playing", "panicked"}]
    BY DEF TaskEnds, TypeOK
  <2> QED
    BY <2>1 DEF TaskEnds, TypeOK, store, loop, tally, bounds
<1>9. CASE \E c \in Command : Send(c)
  <2> PICK c \in Command : Send(c)
    BY <1>9
  <2>1. commands' \in Seq(Command)
    BY AppendProperties DEF Send, TypeOK
  <2> QED
    BY <2>1, SMTT(60) DEF Send, TypeOK, store, loop, games, tally
<1>10. CASE Crash \/ HandleDropped
  <2>0. /\ NoDriver
        /\ handle' \in {handle, "none"}
        /\ UNCHANGED <<store, bounds>>
    BY <1>10 DEF Crash, HandleDropped
  <2>1. concurrency' \in Limits
    BY <2>0, ConcurrencyAssumption DEF NoDriver, Limits
  <2>2. pending' \in Seq(Games) /\ inFlight' \in Seq(Games) /\ commands' \in Seq(Command)
    BY <2>0, EmptySeq DEF NoDriver
  <2>3. snap' \in [status : TournamentStatus, inFlight : SUBSET Games,
                   finished : Nat, clockOn : BOOLEAN]
    BY <2>0 DEF NoDriver, TournamentStatus
  <2>4. /\ DOMAIN tasks' \in SUBSET Games
        /\ tasks' \in [DOMAIN tasks' -> Outcome \cup {"playing", "panicked"}]
    BY <2>0 DEF NoDriver
  <2> QED
    BY <2>0, <2>1, <2>2, <2>3, <2>4 DEF NoDriver, TypeOK, store, bounds
<1>11. CASE Resume
  <2>1. row' \in [Games -> RowStatus]
    BY <1>11 DEF Resume, ResetRow, RowStatus
  <2>2. Cardinality(Games \ PlayedRows) \in Nat
    BY FiniteGames
  <2>3. pending' \in [1..Cardinality(Games \ PlayedRows) -> Games]
    BY <1>11 DEF Resume, InScheduleOrder
  <2>4. pending' \in Seq(Games)
    <3> DEFINE n == Cardinality(Games \ PlayedRows)
    <3> HIDE DEF n
    <3>1. n \in Nat /\ pending' \in [1..n -> Games]
      BY <2>2, <2>3 DEF n
    <3> QED
      BY <3>1
  <2>5. snap' \in [status : TournamentStatus, inFlight : SUBSET Games,
                   finished : Nat, clockOn : BOOLEAN]
    BY <1>11, PlayedFinite DEF Resume, TournamentStatus
  <2>6. dbStatus' \in DbStatus /\ finished' \in BOOLEAN
        /\ standings' \in [Games -> Nat] /\ finishedCount' \in Nat
        /\ concurrency' \in Limits
    BY <1>11, PlayedFinite DEF Resume, TypeOK, DbStatus
  <2>7. sent' \in Nat /\ loads' \in Nat
    BY <1>11 DEF Resume, TypeOK
  <2> QED
    BY <1>11, <2>1, <2>4, <2>5, <2>6, <2>7 DEF Resume, TypeOK
<1>12. CASE Unload
  <2>1. [type |-> "ForceStop"] \in Command
    BY DEF Command
  <2>2. commands' \in Seq(Command)
    BY <1>12, <2>1, AppendProperties DEF Unload, TypeOK
  <2> QED
    BY <1>12, <2>2, SMTT(60) DEF Unload, TypeOK, store, loop, games, tally
<1>13. CASE DeleteRows
  <2>1. row' \in [Games -> RowStatus] /\ dbStatus' \in DbStatus
    BY <1>13 DEF DeleteRows, RowStatus, DbStatus
  <2> QED
    BY <1>13, <2>1 DEF DeleteRows, TypeOK, loop, games, tally, bounds
<1>14. CASE DeleteFails
  BY <1>14 DEF DeleteFails, TypeOK, store, loop, games, tally, bounds
<1>15. CASE UNCHANGED vars
  BY <1>15 DEF vars, store, loop, games, tally, bounds, TypeOK
<1> QED
  BY <1>1, <1>2, <1>3, <1>4, <1>5, <1>6, <1>7, <1>8, <1>9, <1>10, <1>11, <1>12, <1>13,
     <1>14, <1>15
  DEF Next, Drive

\* The driver's state, the rows and the snapshot keep their types.
THEOREM TypeCorrect == Spec => []TypeOK
BY TypeInit, TypeNext, PTL DEF Spec

-----------------------------------------------------------------------------
(* The queue.  A step leaves the sequence of waiting games alone, takes one *)
(* game out of it, or, when the process died, rebuilds it from the rows:    *)
(* so it stays in schedule order, and no decided game is ever in it.        *)

DownIsEmpty == pc = "down" => inFlight = <<>> /\ pending = <<>>

QueueInv ==
    /\ TypeOK
    /\ QueueInScheduleOrder
    /\ WaitingIsOpen
    /\ NothingLost
    /\ DownIsEmpty

LEMMA WaitingType ==
    ASSUME TypeOK
    PROVE  /\ Waiting \in Seq(Games)
           /\ Len(inFlight) \in Nat /\ Len(pending) \in Nat
           /\ Len(Waiting) = Len(inFlight) + Len(pending)
           /\ \A i \in 1..Len(Waiting) : Waiting[i] \in Games
BY ConcatProperties, LenProperties, ElementOfSeq, SMTT(60) DEF TypeOK, Waiting

\* The game launched next is the first of the queue.
LEMMA WaitingLaunch ==
    ASSUME TypeOK, LaunchGame
    PROVE  /\ Waiting' = Waiting
           /\ Len(inFlight)' = Len(inFlight) + 1
           /\ Len(pending)' = Len(pending) - 1
           /\ \E i \in 1..Len(Waiting) : Waiting[i] = Head(pending)
<1>1. /\ pending \in Seq(Games) /\ pending # <<>> /\ inFlight \in Seq(Games)
      /\ pending' = Tail(pending) /\ inFlight' = Append(inFlight, Head(pending))
  BY DEF LaunchGame, TypeOK
<1>2. /\ Head(pending) \in Games /\ Tail(pending) \in Seq(Games)
      /\ Len(Tail(pending)) = Len(pending) - 1
  BY <1>1, HeadTailProperties
<1>3. <<Head(pending)>> \in Seq(Games)
  BY <1>2
<1>4. Append(inFlight, Head(pending)) = inFlight \o <<Head(pending)>>
  BY <1>1, <1>2, AppendIsConcat
<1>5. pending = <<Head(pending)>> \o Tail(pending)
  <2>1. Len(<<Head(pending)>>) = 1
    OBVIOUS
  <2>2. Len(pending) \in Nat \ {0}
    BY <1>1, EmptySeq
  <2>3. /\ <<Head(pending)>> \o Tail(pending) \in Seq(Games)
        /\ Len(<<Head(pending)>> \o Tail(pending)) = Len(pending)
    BY <1>2, <1>3, <2>1, <2>2, ConcatProperties
  <2>4. ASSUME NEW i \in 1..Len(pending)
        PROVE  pending[i] = (<<Head(pending)>> \o Tail(pending))[i]
    <3>1. CASE i = 1
      BY <1>1, <1>2, <1>3, <2>1, <2>2, <3>1, ConcatProperties
    <3>2. CASE i # 1
      <4>1. i - 1 \in 1..Len(Tail(pending)) /\ (i - 1) + 1 = i /\ ~(i <= 1)
            /\ i \in 1..1 + Len(Tail(pending))
        BY <1>2, <2>2, <3>2
      <4>2. Tail(pending)[i - 1] = pending[i]
        BY <1>1, <4>1, HeadTailProperties
      <4> QED
        BY <1>2, <1>3, <2>1, <4>1, <4>2, ConcatProperties
    <3> QED
      BY <3>1, <3>2
  <2>5. /\ pending \in Seq(Games)
        /\ Len(pending) = Len(<<Head(pending)>> \o Tail(pending))
        /\ <<Head(pending)>> \o Tail(pending) \in Seq(Games)
        /\ \A i \in 1..Len(pending) :
               pending[i] = (<<Head(pending)>> \o Tail(pending))[i]
    BY <1>1, <2>3, <2>4
  <2> QED
    BY <2>5, SeqEqual, SMTT(60)
<1>6. Waiting' = Waiting
  BY <1>1, <1>2, <1>3, <1>4, <1>5, ConcatAssociative, SMTT(60) DEF Waiting
<1>7. Len(inFlight)' = Len(inFlight) + 1
  BY <1>1, <1>2, AppendProperties
<1>8. /\ Len(pending) \in Nat \ {0} /\ Len(inFlight) \in Nat
      /\ Len(Waiting) = Len(inFlight) + Len(pending)
  BY <1>1, EmptySeq, WaitingType
<1>9. Waiting[Len(inFlight) + 1] = Head(pending)
  <2>1. Waiting[Len(inFlight) + 1] = pending[1]
    <3>1. /\ Len(inFlight) + 1 \in 1..Len(inFlight) + Len(pending)
          /\ ~(Len(inFlight) + 1 <= Len(inFlight))
          /\ (Len(inFlight) + 1) - Len(inFlight) = 1
      BY <1>8
    <3> QED
      BY <1>1, <3>1, ConcatProperties DEF Waiting
  <2> QED
    BY <1>1, <2>1
<1> QED
  BY <1>1, <1>2, <1>6, <1>7, <1>8, <1>9

\* Taking the i-th flight back takes the i-th waiting game out.
LEMMA WaitingRemove ==
    ASSUME TypeOK, NEW i \in 1..Len(inFlight), inFlight' = TakenBack(i),
           pending' = pending
    PROVE  /\ Len(inFlight)' = Len(inFlight) - 1
           /\ Len(Waiting)' = Len(Waiting) - 1
           /\ i \in 1..Len(Waiting) /\ Waiting[i] = inFlight[i]
           /\ \A j \in 1..Len(Waiting) - 1 :
                 Waiting'[j] = IF j < i THEN Waiting[j] ELSE Waiting[j + 1]
<1> DEFINE n == Len(inFlight)
           m == Len(pending)
<1>1. /\ n \in Nat /\ m \in Nat /\ Len(Waiting) = n + m
      /\ inFlight \in Seq(Games) /\ pending \in Seq(Games)
  BY WaitingType DEF TypeOK
<1>2. /\ inFlight' \in Seq(Games)
      /\ Len(inFlight') = n - 1
      /\ \A j \in 1..n - 1 :
            inFlight'[j] = IF j < i THEN inFlight[j] ELSE inFlight[j + 1]
  BY <1>1, RemoveAtProperties DEF TakenBack
<1>3. /\ Len(Waiting') = (n - 1) + m
      /\ \A j \in 1..(n - 1) + m :
            Waiting'[j] = IF j <= n - 1 THEN inFlight'[j] ELSE pending[j - (n - 1)]
  <2>1. Waiting' = inFlight' \o pending
    BY DEF Waiting
  <2>2. /\ Len(inFlight' \o pending) = Len(inFlight') + m
        /\ \A j \in 1..Len(inFlight') + m :
              (inFlight' \o pending)[j] =
                 IF j <= Len(inFlight') THEN inFlight'[j]
                                        ELSE pending[j - Len(inFlight')]
    BY <1>1, <1>2, ConcatProperties
  <2> QED
    BY <1>2, <2>1, <2>2
<1>4. \A j \in 1..n + m : Waiting[j] = IF j <= n THEN inFlight[j] ELSE pending[j - n]
  BY <1>1, ConcatProperties DEF Waiting
<1> HIDE DEF n, m
<1>5. ASSUME NEW j \in 1..(n - 1) + m
      PROVE  Waiting'[j] = IF j < i THEN Waiting[j] ELSE Waiting[j + 1]
  <2>1. CASE j < i
    <3>1. j <= n - 1 /\ j \in 1..n - 1 /\ j \in 1..n + m /\ j <= n
      BY <1>1, <2>1 DEF n
    <3> QED
      BY <1>2, <1>3, <1>4, <2>1, <3>1
  <2>2. CASE ~(j < i) /\ j <= n - 1
    <3>1. j \in 1..n - 1 /\ j + 1 \in 1..n + m /\ j + 1 <= n
      BY <1>1, <2>2
    <3> QED
      BY <1>2, <1>3, <1>4, <2>2, <3>1
  <2>3. CASE ~(j < i) /\ ~(j <= n - 1)
    <3>1. j + 1 \in 1..n + m /\ ~(j + 1 <= n) /\ j - (n - 1) = (j + 1) - n
      BY <1>1, <2>3
    <3> QED
      BY <1>3, <1>4, <2>3, <3>1
  <2>4. j < i => j <= n - 1
    BY <1>1 DEF n
  <2> QED
    BY <2>1, <2>2, <2>3, <2>4
<1>6. i \in 1..n + m /\ i <= n /\ n + m - 1 = (n - 1) + m
  BY <1>1 DEF n
<1> QED
  <2>1. Len(inFlight)' = Len(inFlight) - 1
    BY <1>2 DEF n
  <2>2. Len(Waiting)' = Len(Waiting) - 1
    BY <1>1, <1>3
  <2>3. i \in 1..Len(Waiting) /\ Waiting[i] = inFlight[i]
    BY <1>1, <1>4, <1>6
  <2>4. 1..Len(Waiting) - 1 = 1..(n - 1) + m
    BY <1>1, <1>6
  <2> QED
    BY <1>5, <2>1, <2>2, <2>3, <2>4

\* What is left of an increasing sequence is increasing, without the game
\* taken out.
LEMMA RemoveIncreasing ==
    ASSUME TypeOK, QueueInScheduleOrder,
           NEW i \in 1..Len(inFlight), inFlight' = TakenBack(i), pending' = pending
    PROVE  /\ QueueInScheduleOrder'
           /\ \A j \in 1..Len(Waiting') :
                 /\ Waiting'[j] # inFlight[i]
                 /\ \E k \in 1..Len(Waiting) : Waiting'[j] = Waiting[k]
<1> DEFINE w == Waiting
           v == Waiting'
           at(j) == IF j < i THEN j ELSE j + 1
<1>1. /\ Len(w) \in Nat /\ Len(v) = Len(w) - 1
      /\ i \in 1..Len(w) /\ w[i] = inFlight[i]
      /\ \A j \in 1..Len(w) : w[j] \in Games
  BY WaitingRemove, WaitingType
<1>2. \A j \in 1..Len(v) : at(j) \in 1..Len(w) /\ at(j) # i /\ v[j] = w[at(j)]
  <2> SUFFICES ASSUME NEW j \in 1..Len(v)
               PROVE  at(j) \in 1..Len(w) /\ at(j) # i /\ v[j] = w[at(j)]
    OBVIOUS
  <2>1. v[j] = IF j < i THEN w[j] ELSE w[j + 1]
    BY <1>1, WaitingRemove
  <2>2. at(j) \in 1..Len(w) /\ at(j) # i
    BY <1>1
  <2> QED
    BY <2>1, <2>2
<1>3. \A j, k \in 1..Len(w) : j < k => w[j] < w[k]
  BY DEF QueueInScheduleOrder, Increasing
<1> HIDE DEF w, v
<1>4. \A j, k \in 1..Len(v) : j < k => at(j) < at(k)
  BY <1>1
<1>5. \A j, k \in 1..Len(v) : j < k => v[j] < v[k]
  BY <1>2, <1>3, <1>4
<1>6. ASSUME NEW j \in 1..Len(v) PROVE v[j] # w[i]
  <2>1. at(j) < i \/ i < at(j)
    BY <1>1, <1>2
  <2>2. w[at(j)] \in Int /\ w[i] \in Int
    BY <1>1, <1>2 DEF Games
  <2> QED
    BY <1>1, <1>2, <1>3, <2>1, <2>2
<1> QED
  BY <1>1, <1>2, <1>5, <1>6 DEF QueueInScheduleOrder, Increasing, w, v

LEMMA QueueInit == Init => QueueInv
<1> SUFFICES ASSUME Init PROVE QueueInv
  OBVIOUS
<1>1. TypeOK
  BY TypeInit
<1>2. inFlight = <<>> /\ pending = [i \in 1..NumGames |-> i] /\ NumGames \in Nat
  BY NumGamesAssumption DEF Init, Games
<1>3. pending \in Seq(Games)
  BY <1>1 DEF TypeOK
<1>4. Waiting = pending
  BY <1>2, <1>3, ConcatEmptySeq DEF Waiting
<1>5. Len(pending) = NumGames
  BY <1>2
<1>6. QueueInScheduleOrder
  BY <1>2, <1>4, <1>5 DEF QueueInScheduleOrder, Increasing
<1>7. WaitingIsOpen
  BY <1>2, <1>4, <1>5 DEF Init, WaitingIsOpen, Games
<1>8. NothingLost
  BY <1>2, <1>5 DEF Init, NothingLost
<1> QED
  BY <1>1, <1>6, <1>7, <1>8 DEF Init, QueueInv, DownIsEmpty

\* A step that touches neither the queue, the flights nor the rows.
LEMMA QueueFrame ==
    ASSUME QueueInv, TypeOK', inFlight' = inFlight, pending' = pending, row' = row,
           pc # "down", pc' # "down",
           \/ finishedCount' = finishedCount /\ (pc' = "record" <=> pc = "record")
           \/ finishedCount' = finishedCount + 1 /\ pc = "record" /\ pc' # "record"
    PROVE  QueueInv'
<1>1. Waiting' = Waiting
  BY DEF Waiting
<1>2. QueueInScheduleOrder' /\ WaitingIsOpen'
  BY <1>1 DEF QueueInv, QueueInScheduleOrder, Increasing, WaitingIsOpen
<1>3. NothingLost'
  <2>1. /\ finishedCount \in Nat /\ finishedCount' \in Nat
        /\ Len(pending) \in Nat /\ Len(inFlight) \in Nat
    BY WaitingType DEF QueueInv, TypeOK
  <2>2. CASE finishedCount' = finishedCount /\ (pc' = "record" <=> pc = "record")
    BY <2>2 DEF QueueInv, NothingLost
  <2>3. CASE finishedCount' = finishedCount + 1 /\ pc = "record" /\ pc' # "record"
    <3>1. finishedCount + Len(pending) + Len(inFlight) + 1 = NumGames
      BY <2>3 DEF QueueInv, NothingLost
    <3> QED
      BY <2>1, <2>3, <3>1 DEF NothingLost
  <2> QED
    BY <2>2, <2>3
<1> QED
  BY <1>2, <1>3 DEF QueueInv, DownIsEmpty

\* Every step keeps the queue in order, without decided games, and loses no
\* game.
LEMMA QueueNext == QueueInv /\ [Next]_vars => QueueInv'
<1> SUFFICES ASSUME QueueInv, [Next]_vars PROVE QueueInv'
  OBVIOUS
<1>t. TypeOK /\ TypeOK'
  BY TypeNext DEF QueueInv
<1>n. /\ finishedCount \in Nat /\ Len(inFlight) \in Nat /\ Len(pending) \in Nat
      /\ NumGames \in Nat
  BY <1>t, WaitingType, NumGamesAssumption DEF TypeOK
<1>1. CASE LaunchGame
  <2>1. /\ Waiting' = Waiting
        /\ Len(inFlight)' = Len(inFlight) + 1 /\ Len(pending)' = Len(pending) - 1
    BY <1>1, <1>t, WaitingLaunch
  <2>2. QueueInScheduleOrder'
    BY <2>1 DEF QueueInv, QueueInScheduleOrder, Increasing
  <2>3. \A g \in Games : row'[g] \in {row[g], "running"}
    BY <1>1, <1>t DEF LaunchGame, SetRow, Persist, TypeOK
  <2>4. WaitingIsOpen'
    BY <1>t, <2>1, <2>3, WaitingType DEF QueueInv, WaitingIsOpen
  <2>5. NothingLost'
    BY <1>1, <1>n, <2>1, SMTT(60) DEF QueueInv, NothingLost, LaunchGame
  <2> QED
    BY <1>1, <1>t, <2>2, <2>4, <2>5 DEF QueueInv, DownIsEmpty, LaunchGame
<1>2. CASE Settle
  BY <1>2, <1>t, QueueFrame DEF Settle, store, games, tally
<1>3. CASE FinishTournament
  BY <1>3, <1>t, QueueFrame DEF FinishTournament, games
<1>4. CASE Go \/ Stop \/ SetConcurrency
  BY <1>4, <1>t, QueueFrame DEF Go, Stop, SetConcurrency, Receive
<1>5. CASE ForceStop
  <2>1. pending \in Seq(Games) /\ inFlight \in Seq(Games)
    BY <1>t DEF TypeOK
  <2>2. inFlight' = <<>> /\ pending' = inFlight \o pending
    BY <1>5 DEF ForceStop, Requeued
  <2>3. Waiting' = Waiting
    <3>1. inFlight \o pending \in Seq(Games)
      BY <2>1, ConcatProperties
    <3>2. <<>> \o (inFlight \o pending) = inFlight \o pending
      BY <3>1, ConcatEmptySeq
    <3> QED
      BY <2>2, <3>2 DEF Waiting
  <2>4. Len(pending') = Len(inFlight) + Len(pending) /\ Len(inFlight') = 0
    BY <2>1, <2>2, ConcatProperties
  <2>5. QueueInScheduleOrder'
    BY <2>3 DEF QueueInv, QueueInScheduleOrder, Increasing
  <2>6. \A g \in Games : row'[g] \in {row[g], "discarded"}
    BY <1>5, <1>t DEF ForceStop, DiscardRows, Persist, TypeOK
  <2>7. WaitingIsOpen'
    BY <1>t, <2>3, <2>6, WaitingType DEF QueueInv, WaitingIsOpen
  <2>8. NothingLost'
    BY <1>5, <1>n, <2>4 DEF QueueInv, NothingLost, ForceStop, Receive
  <2> QED
    BY <1>5, <1>t, <2>5, <2>7, <2>8 DEF QueueInv, DownIsEmpty, ForceStop, Receive
<1>6. CASE \E g \in Games : RecordReport(g)
  <2> PICK g \in Games : RecordReport(g)
    BY <1>6
  <2>1. PICK i \in 1..Len(inFlight) : inFlight[i] = g /\ inFlight' = TakenBack(i)
    BY DEF RecordReport
  <2>2. pending' = pending /\ pc = "select" /\ pc' = "record"
        /\ finishedCount' = finishedCount
    BY DEF RecordReport, tally
  <2>3. /\ QueueInScheduleOrder'
        /\ \A j \in 1..Len(Waiting') :
              Waiting'[j] # g /\ \E k \in 1..Len(Waiting) : Waiting'[j] = Waiting[k]
    BY <1>t, <2>1, <2>2, RemoveIncreasing DEF QueueInv
  <2>4. Len(inFlight)' = Len(inFlight) - 1
    BY <1>t, <2>1, <2>2, WaitingRemove
  <2>5. \A h \in Games : h # g => row'[h] = row[h]
    BY <1>t DEF RecordReport, SetRow, Persist, TypeOK
  <2>6. WaitingIsOpen'
    BY <1>t, <2>3, <2>5, WaitingType DEF QueueInv, WaitingIsOpen
  <2>7. NothingLost'
    BY <1>n, <2>2, <2>4 DEF QueueInv, NothingLost
  <2> QED
    BY <1>t, <2>2, <2>3, <2>6, <2>7 DEF QueueInv, DownIsEmpty
<1>7. CASE \E g \in Games : PanicLogged(g)
  BY <1>7, <1>t, QueueFrame DEF PanicLogged, store, tally
<1>8. CASE PublishReport
  BY <1>8, <1>t, QueueFrame DEF PublishReport
<1>9. CASE \E g \in Games : TaskEnds(g)
  BY <1>9, <1>t, QueueFrame DEF TaskEnds, store, tally
<1>10. CASE \E c \in Command : Send(c)
  BY <1>10, <1>t, QueueFrame DEF Send, store, games, tally
<1>11. CASE Crash \/ HandleDropped
  <2>1. pending' = <<>> /\ inFlight' = <<>> /\ pc' = "down"
    BY <1>11 DEF Crash, HandleDropped, NoDriver
  <2>2. Len(Waiting') = 0
    BY <1>t, <2>1, WaitingType, ConcatProperties, EmptySeq DEF Waiting
  <2> QED
    BY <1>t, <2>1, <2>2
    DEF QueueInv, QueueInScheduleOrder, Increasing, WaitingIsOpen, NothingLost, DownIsEmpty
<1>12. CASE Resume
  <2> DEFINE S == Games \ PlayedRows
             n == Cardinality(S)
  <2>1. /\ inFlight' = <<>> /\ pending' \in [1..n -> S] /\ Increasing(pending')
        /\ pc' = "top" /\ finishedCount' = Cardinality(PlayedRows)
        /\ row' = [g \in Games |-> ResetRow(row[g])]
    BY <1>12 DEF Resume, InScheduleOrder, QueueInv, DownIsEmpty
  <2>2. n \in Nat /\ Cardinality(PlayedRows) \in Nat
        /\ Cardinality(PlayedRows) + n = NumGames
    <3>1. PlayedRows \cap Games = PlayedRows
      BY PlayedFinite
    <3> QED
      BY <3>1, FiniteGames, PlayedFinite, FS_Difference
  <2>3. pending' \in Seq(Games) /\ Len(pending') = n
    <3> HIDE DEF n
    <3> QED
      BY <1>t, <2>1, <2>2 DEF TypeOK
  <2>4. Waiting' = pending'
    BY <2>1, <2>3, ConcatEmptySeq DEF Waiting
  <2>5. QueueInScheduleOrder'
    BY <2>1, <2>4 DEF QueueInScheduleOrder, Increasing
  <2>6. WaitingIsOpen'
    <3> SUFFICES ASSUME NEW i \in 1..Len(pending')
                 PROVE  row'[pending'[i]] \notin {"finished", "aborted"}
      BY <2>4 DEF WaitingIsOpen
    <3>1. pending'[i] \in S
      BY <2>1, <2>3
    <3>2. pending'[i] \in Games /\ row[pending'[i]] # "finished"
      BY <3>1 DEF PlayedRows
    <3> QED
      BY <2>1, <3>2 DEF ResetRow
  <2>7. NothingLost'
    <3>1. Len(inFlight') = 0
      BY <2>1, EmptySeq
    <3> HIDE DEF n
    <3> QED
      BY <2>1, <2>2, <2>3, <3>1 DEF NothingLost
  <2> QED
    BY <1>t, <2>1, <2>5, <2>6, <2>7 DEF QueueInv, DownIsEmpty
<1>13. CASE Unload
  BY <1>13, <1>t, QueueFrame DEF Unload, store, games, tally
<1>14. CASE DeleteRows
  <2>1. inFlight' = inFlight /\ pending' = pending /\ pc' = pc
        /\ finishedCount' = finishedCount /\ row' = [g \in Games |-> "gone"]
    BY <1>14 DEF DeleteRows, games, tally
  <2>2. Waiting' = Waiting
    BY <2>1 DEF Waiting
  <2>3. WaitingIsOpen'
    BY <1>t, <2>1, <2>2, WaitingType DEF WaitingIsOpen
  <2> QED
    BY <1>t, <2>1, <2>2, <2>3
    DEF QueueInv, QueueInScheduleOrder, Increasing, NothingLost, DownIsEmpty
<1>15. CASE DeleteFails \/ UNCHANGED vars
  <2>1. inFlight' = inFlight /\ pending' = pending /\ row' = row /\ pc' = pc
        /\ finishedCount' = finishedCount
    BY <1>15 DEF DeleteFails, vars, store, games, tally
  <2>2. Waiting' = Waiting
    BY <2>1 DEF Waiting
  <2> QED
    BY <1>t, <2>1, <2>2
    DEF QueueInv, QueueInScheduleOrder, Increasing, WaitingIsOpen, NothingLost, DownIsEmpty
<1> QED
  BY <1>1, <1>2, <1>3, <1>4, <1>5, <1>6, <1>7, <1>8, <1>9, <1>10, <1>11, <1>12, <1>13,
     <1>14, <1>15
  DEF Next, Drive, Handle

LEMMA QueueCorrect == Spec => []QueueInv
BY QueueInit, QueueNext, PTL DEF Spec

\* The games in flight and the queue stay in schedule order and without
\* repetition through every Force-Stop, lost write, panic, crash and resume.
THEOREM QueueOrderTheorem == Spec => []QueueInScheduleOrder
<1>1. QueueInv => QueueInScheduleOrder
  BY DEF QueueInv
<1> QED
  BY <1>1, QueueCorrect, PTL

\* No game that has a result is ever queued or in flight.
THEOREM WaitingIsOpenTheorem == Spec => []WaitingIsOpen
<1>1. QueueInv => WaitingIsOpen
  BY DEF QueueInv
<1> QED
  BY <1>1, QueueCorrect, PTL

\* Every game of the schedule stays accounted for.
THEOREM NothingLostTheorem == Spec => []NothingLost
<1>1. QueueInv => NothingLost
  BY DEF QueueInv
<1> QED
  BY <1>1, QueueCorrect, PTL

-----------------------------------------------------------------------------
(* The rows, and the ledger they implement.                                *)

Decided == {"finished", "aborted"}

\* Only a report decides a game, only a resume reopens one, and a played
\* result is kept by both.
LEMMA RowStep ==
    ASSUME QueueInv, Next
    PROVE  \/ \A h \in Games : row'[h] = row[h] \/ {row[h], row'[h]} \cap Decided = {}
           \/ \E g \in Games :
                 /\ RecordReport(g)
                 /\ row[g] \notin Decided
                 /\ \A h \in Games : h # g => row'[h] = row[h]
           \/ Resume
           \/ DeleteRows
<1>t. TypeOK /\ \A i \in 1..Len(Waiting) : Waiting[i] \in Games /\ row[Waiting[i]] \notin Decided
  BY WaitingType DEF QueueInv, WaitingIsOpen, Decided
<1>1. CASE LaunchGame
  <2>1. PICK i \in 1..Len(Waiting) : Waiting[i] = Head(pending)
    BY <1>1, <1>t, WaitingLaunch
  <2>2. row[Head(pending)] \notin Decided /\ Head(pending) \in Games
    BY <1>t, <2>1
  <2>3. row' = row \/ row' = [row EXCEPT ![Head(pending)] = "running"]
    BY <1>1 DEF LaunchGame, SetRow, Persist
  <2>4. "running" \notin Decided
    BY DEF Decided
  <2> QED
    BY <1>t, <2>2, <2>3, <2>4, SMTT(60) DEF TypeOK
<1>2. CASE ForceStop
  <2>1. \A g \in Games : row'[g] = row[g] \/ (g \in ToSet(inFlight) /\ row'[g] = "discarded")
    BY <1>2, <1>t DEF ForceStop, DiscardRows, Persist, TypeOK
  <2>2. ASSUME NEW g \in ToSet(inFlight) PROVE row[g] \notin Decided
    <3>1. PICK i \in 1..Len(inFlight) : inFlight[i] = g
      <4>1. DOMAIN inFlight = 1..Len(inFlight)
        BY <1>t, LenProperties DEF TypeOK
      <4> QED
        BY <4>1 DEF ToSet
    <3>2. /\ i \in 1..Len(inFlight) + Len(pending) /\ i <= Len(inFlight)
          /\ inFlight \in Seq(Games) /\ pending \in Seq(Games)
      BY <1>t, WaitingType DEF TypeOK
    <3>3. i \in 1..Len(Waiting) /\ Waiting[i] = inFlight[i]
      BY <1>t, <3>2, WaitingType, ConcatProperties DEF Waiting
    <3> QED
      BY <1>t, <3>1, <3>3
  <2>3. "discarded" \notin Decided
    BY DEF Decided
  <2> QED
    BY <2>1, <2>2, <2>3
<1>3. CASE \E g \in Games : RecordReport(g)
  <2> PICK g \in Games : RecordReport(g)
    BY <1>3
  <2>1. PICK i \in 1..Len(inFlight) : inFlight[i] = g /\ inFlight' = TakenBack(i)
    BY DEF RecordReport
  <2>2. pending' = pending
    BY DEF RecordReport
  <2>3. i \in 1..Len(Waiting) /\ Waiting[i] = g
    BY <1>t, <2>1, <2>2, WaitingRemove
  <2>4. \A h \in Games : h # g => row'[h] = row[h]
    BY <1>t DEF RecordReport, SetRow, Persist, TypeOK
  <2> QED
    BY <1>t, <2>3, <2>4
<1>4. CASE Settle \/ FinishTournament \/ Go \/ Stop \/ SetConcurrency \/ PublishReport
           \/ Crash \/ HandleDropped \/ Unload \/ DeleteFails
  BY <1>4 DEF Settle, FinishTournament, Go, Stop, SetConcurrency, PublishReport, Crash,
              HandleDropped, Unload, DeleteFails, Receive, store
<1>5. CASE \E g \in Games : PanicLogged(g) \/ TaskEnds(g)
  BY <1>5 DEF PanicLogged, TaskEnds, store
<1>6. CASE \E c \in Command : Send(c)
  BY <1>6 DEF Send, store
<1> QED
  BY <1>1, <1>2, <1>3, <1>4, <1>5, <1>6 DEF Next, Drive, Handle

\* The result of a played game stays in the database through every command,
\* lost write, panic, crash and resume, until the tournament is deleted.
THEOREM PlayedStaysTheorem == Spec => PlayedStays
<1>1. QueueInv /\ [Next]_vars =>
        [\A g \in Games : row[g] = "finished" => row'[g] = "finished" \/ Deleted']_vars
  <2> SUFFICES ASSUME QueueInv, Next, NEW g \in Games, row[g] = "finished"
               PROVE  row'[g] = "finished" \/ Deleted'
    OBVIOUS
  <2>1. row[g] \in Decided
    BY DEF Decided
  <2>2. CASE \A h \in Games : row'[h] = row[h] \/ {row[h], row'[h]} \cap Decided = {}
    BY <2>1, <2>2
  <2>3. CASE \E h \in Games :
                 /\ row[h] \notin Decided
                 /\ \A k \in Games : k # h => row'[k] = row[k]
    BY <2>1, <2>3
  <2>4. CASE Resume
    BY <2>4 DEF Resume, ResetRow
  <2>5. CASE DeleteRows
    BY <2>5 DEF DeleteRows, Deleted
  <2> QED
    BY <2>2, <2>3, <2>4, <2>5, RowStep
<1> QED
  BY <1>1, QueueCorrect, PTL DEF Spec, PlayedStays

\* A game is gone when the tournament is, and its rows go together.
GoneTogether == \A g \in Games : row[g] = "gone" <=> Deleted

\* Only a delete makes rows go, and nothing brings them back.
LEMMA GoneStep ==
    ASSUME TypeOK, GoneTogether, Next, ~DeleteRows
    PROVE  GoneTogether' /\ (Deleted' <=> Deleted)
<1>1. CASE Settle \/ SetConcurrency \/ PublishReport \/ Crash \/ HandleDropped \/ Unload
           \/ DeleteFails \/ (\E g \in Games : PanicLogged(g) \/ TaskEnds(g)) \/ (\E c \in Command : Send(c))
  <2>1. row' = row /\ dbStatus' = dbStatus
    BY <1>1 DEF Settle, SetConcurrency, Receive, PublishReport, Crash, HandleDropped, Unload,
                DeleteFails, PanicLogged, TaskEnds, Send, store
  <2> QED
    BY <2>1 DEF GoneTogether, Deleted
<1>2. CASE FinishTournament \/ Go \/ Stop
  <2>1. row' = row
    BY <1>2 DEF FinishTournament, Go, Stop
  <2>2. dbStatus' = dbStatus \/ (~Deleted /\ dbStatus' # "gone")
    BY <1>2 DEF FinishTournament, Go, Stop, SetStatus, Persist
  <2> QED
    BY <2>1, <2>2 DEF GoneTogether, Deleted
<1>3. CASE LaunchGame \/ ForceStop \/ \E g \in Games : RecordReport(g)
  <2>1. dbStatus' = dbStatus \/ (~Deleted /\ dbStatus' # "gone")
    BY <1>3 DEF LaunchGame, ForceStop, RecordReport, SetStatus, Persist
  <2>2. CASE Deleted
    <3>1. row' = row
      BY <1>3, <2>2 DEF LaunchGame, ForceStop, RecordReport, SetRow, DiscardRows, Persist
    <3> QED
      BY <2>1, <2>2, <3>1 DEF GoneTogether, Deleted
  <2>3. CASE ~Deleted
    <3>1. \A g \in Games : row'[g] = row[g] \/ row'[g] # "gone"
      <4>1. CASE LaunchGame
        BY <4>1 DEF LaunchGame, SetRow, Persist, TypeOK
      <4>2. CASE ForceStop
        BY <4>2 DEF ForceStop, DiscardRows, Persist, TypeOK
      <4>3. CASE \E g \in Games : RecordReport(g)
        BY <4>3 DEF RecordReport, SetRow, Persist, TypeOK
      <4> QED
        BY <1>3, <4>1, <4>2, <4>3
    <3> QED
      BY <2>1, <2>3, <3>1 DEF GoneTogether, Deleted
  <2> QED
    BY <2>2, <2>3
<1>4. CASE Resume
  BY <1>4 DEF Resume, ResetRow, GoneTogether, Deleted
<1> QED
  BY <1>1, <1>2, <1>3, <1>4 DEF Next, Drive, Handle

\* The games in flight or in the queue.
WaitingGames == {Waiting[i] : i \in 1..Len(Waiting)}

\* A step that takes no report back and ends or starts no driver leaves the
\* waiting games as they are.
LEMMA WaitingFrame ==
    ASSUME TypeOK, Next, ~Resume, ~Crash, ~HandleDropped,
           ~(\E g \in Games : RecordReport(g))
    PROVE  WaitingGames' = WaitingGames
<1>1. CASE LaunchGame
  BY <1>1, WaitingLaunch DEF WaitingGames
<1>2. CASE ForceStop
  <2>1. pending \in Seq(Games) /\ inFlight \in Seq(Games)
    BY DEF TypeOK
  <2>2. inFlight' = <<>> /\ pending' = inFlight \o pending
    BY <1>2 DEF ForceStop, Requeued
  <2>3. inFlight \o pending \in Seq(Games)
    BY <2>1, ConcatProperties
  <2>4. <<>> \o (inFlight \o pending) = inFlight \o pending
    BY <2>3, ConcatEmptySeq
  <2> QED
    BY <2>2, <2>4 DEF Waiting, WaitingGames
<1>3. CASE Settle \/ FinishTournament \/ Go \/ Stop \/ SetConcurrency \/ PublishReport
           \/ (\E g \in Games : PanicLogged(g) \/ TaskEnds(g)) \/ (\E c \in Command : Send(c))
           \/ Unload \/ DeleteRows \/ DeleteFails
  <2>1. inFlight' = inFlight /\ pending' = pending
    BY <1>3 DEF Settle, FinishTournament, Go, Stop, SetConcurrency, PublishReport,
                PanicLogged, TaskEnds, Send, Unload, DeleteRows, DeleteFails, games
  <2> QED
    BY <2>1 DEF Waiting, WaitingGames
<1> QED
  BY <1>1, <1>2, <1>3 DEF Next, Drive, Handle

\* Only a resume makes a game wait that did not.
LEMMA WaitingStep ==
    ASSUME QueueInv, Next, ~Resume
    PROVE  WaitingGames' \subseteq WaitingGames
<1>t. TypeOK
  BY DEF QueueInv
<1>1. CASE \E g \in Games : RecordReport(g)
  <2> PICK g \in Games : RecordReport(g)
    BY <1>1
  <2>1. PICK i \in 1..Len(inFlight) : inFlight' = TakenBack(i) /\ pending' = pending
    BY DEF RecordReport
  <2> QED
    BY <1>t, <2>1, RemoveIncreasing DEF QueueInv, WaitingGames
<1>2. CASE Crash \/ HandleDropped
  <2>1. pending' = <<>> /\ inFlight' = <<>>
    BY <1>2 DEF Crash, HandleDropped, NoDriver
  <2>2. Len(Waiting') = 0
    BY <2>1, ConcatProperties, EmptySeq DEF Waiting
  <2> QED
    BY <2>2 DEF WaitingGames
<1> QED
  BY <1>t, <1>1, <1>2, WaitingFrame

\* While a report is being recorded its row is written, unless the tournament
\* was deleted, and its game is neither waiting nor in the PGN file.
RecordMatches ==
    pc = "record" =>
        /\ joined[1] \notin WaitingGames
        /\ joined[2] = "scored" =>
              exported[joined[1]] = 0 /\ (Deleted \/ row[joined[1]] = "finished")
        /\ joined[2] # "scored" => Deleted \/ row[joined[1]] = "aborted"

\* No waiting game is in the PGN file: once the rows are gone nothing else says so.
WaitingIsUnexported == \A g \in WaitingGames : exported[g] = 0

LedgerInv ==
    /\ QueueInv
    /\ ExportedOnce
    /\ GoneTogether
    /\ RecordMatches
    /\ WaitingIsUnexported

LEMMA LedgerInit == Init => LedgerInv
<1> SUFFICES ASSUME Init PROVE LedgerInv
  OBVIOUS
<1>1. ExportedOnce /\ RecordMatches /\ GoneTogether
  BY DEF Init, ExportedOnce, RecordMatches, GoneTogether, Deleted
<1>2. QueueInv /\ TypeOK
  BY QueueInit, TypeInit
<1>3. WaitingIsUnexported
  BY <1>2, WaitingType DEF Init, WaitingIsUnexported, WaitingGames
<1> QED
  BY <1>1, <1>2, <1>3 DEF LedgerInv

\* A step that writes no decision and exports nothing keeps the ledger
\* invariant, and is a stutter of the ledger.
LEMMA LedgerFrame ==
    ASSUME LedgerInv, QueueInv', exported' = exported,
           pc' # "record" \/ (pc' = pc /\ joined' = joined),
           WaitingGames' \subseteq WaitingGames,
           GoneTogether', Deleted' <=> Deleted,
           \A h \in Games : row'[h] = row[h] \/ {row[h], row'[h]} \cap Decided = {}
    PROVE  LedgerInv' /\ UNCHANGED <<Verdict, exported>>
<1>1. \A h \in Games : \A d \in Decided : row'[h] = d <=> row[h] = d
  OBVIOUS
<1>2. \A h \in Games : (row'[h] = "finished" <=> row[h] = "finished")
                    /\ (row'[h] = "aborted" <=> row[h] = "aborted")
                    /\ (row'[h] = "gone" <=> row[h] = "gone")
  BY <1>1 DEF Decided, LedgerInv, GoneTogether
<1>3. Verdict' = Verdict
  BY <1>2 DEF Verdict
<1>4. ExportedOnce'
  BY <1>2 DEF LedgerInv, ExportedOnce, PlayedRows
<1>5. RecordMatches'
  <2> SUFFICES ASSUME pc' = "record" PROVE RecordMatches'
    BY DEF RecordMatches
  <2>1. joined[1] \in Games /\ pc = "record" /\ joined' = joined
    BY DEF LedgerInv, QueueInv, TypeOK
  <2> QED
    BY <1>2, <2>1 DEF LedgerInv, RecordMatches
<1>6. WaitingIsUnexported'
  BY DEF LedgerInv, WaitingIsUnexported
<1> QED
  BY <1>3, <1>4, <1>5, <1>6 DEF LedgerInv

\* Every step keeps the ledger invariant and is a step of the ledger.
LEMMA LedgerNext ==
    ASSUME ~StoreMayFail, LedgerInv, [Next]_vars
    PROVE  LedgerInv' /\ [Ledger!Next]_<<Verdict, exported>>
<1>q. QueueInv /\ QueueInv' /\ TypeOK /\ GoneTogether
  BY QueueNext DEF LedgerInv, QueueInv
<1>0. CASE UNCHANGED vars
  <2>1. /\ exported' = exported /\ row' = row /\ pc' = pc /\ joined' = joined
        /\ dbStatus' = dbStatus /\ inFlight' = inFlight /\ pending' = pending
    BY <1>0 DEF vars, store, games
  <2>2. WaitingGames' = WaitingGames /\ GoneTogether' /\ (Deleted' <=> Deleted)
    BY <1>q, <2>1 DEF WaitingGames, Waiting, GoneTogether, Deleted
  <2> QED
    BY <1>q, <2>1, <2>2, LedgerFrame
<1>1. CASE \E g \in Games : RecordReport(g)
  <2> PICK g \in Games : RecordReport(g)
    BY <1>1
  <2>1. /\ joined' = <<g, tasks[g]>> /\ tasks[g] \in Outcome
        /\ exported' = exported /\ dbStatus' = dbStatus /\ pc' = "record"
    BY DEF RecordReport
  <2>2. PICK i \in 1..Len(inFlight) :
          inFlight[i] = g /\ inFlight' = TakenBack(i) /\ pending' = pending
    BY DEF RecordReport
  <2>3. g \in WaitingGames /\ row[g] \notin Decided
    <3>1. i \in 1..Len(Waiting) /\ Waiting[i] = g
      BY <1>q, <2>2, WaitingRemove
    <3> QED
      BY <1>q, <3>1 DEF QueueInv, WaitingIsOpen, WaitingGames, Decided
  <2>4. exported[g] = 0
    BY <2>3 DEF LedgerInv, WaitingIsUnexported
  <2>5. WaitingGames' \subseteq WaitingGames /\ g \notin WaitingGames'
    BY <1>q, <2>2, RemoveIncreasing DEF QueueInv, WaitingGames
  <2>6. WaitingIsUnexported'
    BY <2>1, <2>5 DEF LedgerInv, WaitingIsUnexported
  <2>7. CASE Deleted
    <3>1. row' = row /\ Deleted'
      BY <2>1, <2>7 DEF RecordReport, SetRow, Persist, Deleted
    <3>2. UNCHANGED <<Verdict, exported>> /\ GoneTogether'
      BY <1>q, <2>1, <2>7, <3>1 DEF Verdict, GoneTogether
    <3>3. ExportedOnce'
      BY <2>1, <3>1 DEF LedgerInv, ExportedOnce, PlayedRows
    <3>4. RecordMatches'
      BY <2>1, <2>4, <2>5, <3>1 DEF RecordMatches
    <3> QED
      BY <1>q, <2>6, <3>2, <3>3, <3>4 DEF LedgerInv
  <2>8. CASE ~Deleted
    <3>1. row' = [row EXCEPT ![g] = IF tasks[g] = "scored" THEN "finished" ELSE "aborted"]
      BY <2>8 DEF RecordReport, SetRow, Persist
    <3>2. row'[g] = (IF tasks[g] = "scored" THEN "finished" ELSE "aborted")
          /\ \A h \in Games : h # g => row'[h] = row[h]
      BY <1>q, <3>1 DEF TypeOK
    <3>3. ExportedOnce' /\ GoneTogether'
      BY <1>q, <2>1, <2>4, <2>8, <3>2
      DEF LedgerInv, ExportedOnce, PlayedRows, GoneTogether, Deleted
    <3>4. RecordMatches'
      BY <2>1, <2>4, <2>5, <3>2 DEF RecordMatches
    <3>5. Verdict[g] = "open"
      BY <1>q, <2>3, <2>8 DEF Verdict, Decided, GoneTogether
    <3>6. Verdict' = [Verdict EXCEPT ![g] = IF tasks[g] = "scored" THEN "scored" ELSE "void"]
      BY <3>2 DEF Verdict
    <3>7. Ledger!Score(g) \/ Ledger!Void(g)
      BY <2>1, <3>5, <3>6 DEF Ledger!Score, Ledger!Void
    <3> QED
      BY <1>q, <2>6, <3>3, <3>4, <3>7 DEF LedgerInv, Ledger!Next
  <2> QED
    BY <2>7, <2>8
<1>2. CASE PublishReport
  <2>1. /\ joined \in Games \X Outcome /\ pc = "record" /\ pc' = "top" /\ row' = row
        /\ dbStatus' = dbStatus /\ inFlight' = inFlight /\ pending' = pending
    BY <1>2, <1>q DEF PublishReport, TypeOK
  <2> DEFINE g == joined[1]
  <2>2. exported' = [exported EXCEPT ![g] = @ + Scorable(joined[2])]
    BY <1>2 DEF PublishReport
  <2>3. Verdict' = Verdict /\ GoneTogether' /\ (Deleted' <=> Deleted)
    BY <1>q, <2>1 DEF Verdict, GoneTogether, Deleted
  <2>4. RecordMatches'
    BY <2>1 DEF RecordMatches
  <2>5. WaitingGames' = WaitingGames /\ g \notin WaitingGames
    BY <2>1 DEF WaitingGames, Waiting, LedgerInv, RecordMatches
  <2>6. WaitingIsUnexported'
    <3>1. \A h \in WaitingGames : h \in Games /\ h # g /\ exported[h] = 0
      BY <1>q, <2>5, WaitingType DEF WaitingGames, LedgerInv, WaitingIsUnexported
    <3> QED
      BY <1>q, <2>2, <2>5, <3>1 DEF WaitingIsUnexported, TypeOK
  <2>7. CASE joined[2] = "scored"
    <3>1. exported[g] = 0 /\ (Deleted \/ row[g] = "finished") /\ g \in Games
      BY <2>1, <2>7 DEF LedgerInv, RecordMatches
    <3>2. exported' = [exported EXCEPT ![g] = 1]
      BY <2>2, <2>7, <3>1 DEF Scorable
    <3>3. ExportedOnce'
      BY <1>q, <2>1, <2>3, <3>1, <3>2 DEF LedgerInv, ExportedOnce, PlayedRows, TypeOK
    <3>4. Verdict[g] \in {"scored", "gone"}
      BY <1>q, <3>1 DEF Verdict, GoneTogether
    <3>5. Ledger!Export(g)
      BY <2>3, <3>1, <3>2, <3>4 DEF Ledger!Export
    <3> QED
      BY <1>q, <2>3, <2>4, <2>6, <3>1, <3>3, <3>5 DEF LedgerInv, Ledger!Next
  <2>8. CASE joined[2] # "scored"
    <3>1. exported' = exported
      BY <1>q, <2>1, <2>2, <2>8 DEF Scorable, TypeOK
    <3>2. ExportedOnce'
      BY <2>1, <2>3, <3>1 DEF LedgerInv, ExportedOnce, PlayedRows
    <3> QED
      BY <1>q, <2>3, <2>4, <2>6, <3>1, <3>2 DEF LedgerInv
  <2> QED
    BY <2>7, <2>8
<1>3. CASE Resume
  <2>1. /\ row' = [h \in Games |-> ResetRow(row[h])]
        /\ exported' = exported /\ pc' = "top" /\ ~Deleted
    BY <1>3 DEF Resume
  <2>2. ~DeleteRows
    BY <1>3 DEF Resume, DeleteRows
  <2>3. GoneTogether' /\ ~Deleted'
    BY <1>3, <1>q, <2>1, <2>2, GoneStep DEF Next
  <2>4. ExportedOnce' /\ RecordMatches'
    BY <2>1 DEF LedgerInv, ExportedOnce, PlayedRows, RecordMatches, ResetRow
  <2>5. WaitingIsUnexported'
    <3>0. inFlight' \in Seq(Games) /\ pending' \in Seq(Games)
      BY <1>q DEF QueueInv, TypeOK
    <3>1. \A g \in WaitingGames' : g \in Games /\ row'[g] # "finished"
      <4>1. Waiting' \in Seq(Games)
        BY <3>0, ConcatProperties DEF Waiting
      <4>2. \A i \in 1..Len(Waiting') : Waiting'[i] \in Games
        BY <4>1, ElementOfSeq
      <4>3. WaitingIsOpen'
        BY <1>q DEF QueueInv
      <4> QED
        BY <4>2, <4>3 DEF WaitingGames, WaitingIsOpen
    <3>2. \A g \in WaitingGames' : g \in Games /\ g \notin PlayedRows
      BY <2>1, <3>1 DEF ResetRow, PlayedRows
    <3>3. \A g \in Games : g \notin PlayedRows => exported[g] = 0
      <4>1. exported \in [Games -> Nat]
        BY <1>q DEF TypeOK
      <4> QED
        BY <2>1, <4>1 DEF LedgerInv, ExportedOnce
    <3> QED
      BY <2>1, <3>2, <3>3 DEF WaitingIsUnexported
  <2>6. Verdict' = [h \in Games |-> IF Verdict[h] = "void" THEN "open" ELSE Verdict[h]]
    BY <1>q, <2>1 DEF Verdict, ResetRow, GoneTogether
  <2>7. Ledger!Reopen
    BY <2>1, <2>6 DEF Ledger!Reopen
  <2> QED
    BY <1>q, <2>3, <2>4, <2>5, <2>7 DEF LedgerInv, Ledger!Next
<1>4. CASE DeleteRows
  <2>1. /\ row' = [h \in Games |-> "gone"] /\ dbStatus' = "gone"
        /\ exported' = exported /\ pc' = pc /\ joined' = joined
        /\ inFlight' = inFlight /\ pending' = pending
    BY <1>4 DEF DeleteRows, games
  <2>2. WaitingGames' = WaitingGames /\ GoneTogether' /\ Deleted'
    BY <2>1 DEF WaitingGames, Waiting, GoneTogether, Deleted
  <2>3. ExportedOnce' /\ RecordMatches' /\ WaitingIsUnexported'
    BY <2>1, <2>2 DEF LedgerInv, ExportedOnce, RecordMatches, WaitingIsUnexported
  <2>4. Ledger!Delete
    BY <2>1 DEF Ledger!Delete, Verdict
  <2> QED
    BY <1>q, <2>2, <2>3, <2>4 DEF LedgerInv, Ledger!Next
<1>5. CASE Next /\ ~(\E g \in Games : RecordReport(g)) /\ ~PublishReport /\ ~Resume
           /\ ~DeleteRows
  <2>1. \A h \in Games : row'[h] = row[h] \/ {row[h], row'[h]} \cap Decided = {}
    BY <1>5, <1>q, RowStep
  <2>2. exported' = exported
    BY <1>5 DEF Next, Drive, Handle, LaunchGame, Settle, FinishTournament, Go, Stop,
                ForceStop, SetConcurrency, Receive, PanicLogged, TaskEnds, Send, Crash,
                HandleDropped, Unload, DeleteFails, store
  <2>3. pc' # "record" \/ (pc' = pc /\ joined' = joined)
    BY <1>5 DEF Next, Drive, Handle, LaunchGame, Settle, FinishTournament, Go, Stop,
                ForceStop, SetConcurrency, Receive, PanicLogged, TaskEnds, Send, Crash,
                HandleDropped, Unload, DeleteFails, NoDriver, games
  <2>4. WaitingGames' \subseteq WaitingGames
    BY <1>5, <1>q, WaitingStep
  <2>5. GoneTogether' /\ (Deleted' <=> Deleted)
    BY <1>5, <1>q, GoneStep
  <2> QED
    BY <1>q, <2>1, <2>2, <2>3, <2>4, <2>5, LedgerFrame
<1> QED
  BY <1>0, <1>1, <1>2, <1>3, <1>4, <1>5

\* When the database keeps what is written to it, every behaviour of the
\* driver, with its panics, crashes, resumes and deletes, is one of the ledger:
\* a game is scored for good and exported once at most, a void game counts for
\* nothing until it is opened again, and a deleted one stays gone.
THEOREM LedgerTheorem ==
    ASSUME ~StoreMayFail
    PROVE  Spec => ImplementsLedger
<1>1. Init => Ledger!Init
  BY DEF Init, Ledger!Init, Verdict
<1>2. LedgerInv /\ [Next]_vars => LedgerInv' /\ [Ledger!Next]_<<Verdict, exported>>
  BY LedgerNext
<1>3. [Ledger!Next]_<<Verdict, exported>> <=> [Ledger!Next]_(Ledger!vars)
  BY DEF Ledger!vars
<1> QED
  BY <1>1, <1>2, <1>3, LedgerInit, PTL DEF Spec, ImplementsLedger, Ledger!Spec

\* When the database keeps what is written to it, a game is in the PGN file
\* once at most, and only with a played result, though a tournament is deleted
\* while its driver still records one.
THEOREM ExportedOnceTheorem ==
    ASSUME ~StoreMayFail
    PROVE  Spec => []ExportedOnce
<1>1. LedgerInv /\ [Next]_vars => LedgerInv'
  BY LedgerNext
<1>2. LedgerInv => ExportedOnce
  BY DEF LedgerInv
<1> QED
  BY <1>1, <1>2, LedgerInit, PTL DEF Spec

-----------------------------------------------------------------------------
(* What the GUI is shown.                                                  *)

\* The snapshot shows the flights and the clock as they are, unless a panic left
\* a flight without its task.
Shown == snap.inFlight = ToSet(inFlight) /\ snap.clockOn = clockOn
Orphaned == ~(ToSet(inFlight) \subseteq DOMAIN tasks)

ShownInv ==
    /\ QueueInv
    /\ running => snap.status = "Running"
    /\ DOMAIN tasks \subseteq ToSet(inFlight)
    /\ BusyWhilePlaying
    /\ snap.finished = finishedCount
    /\ pc \in {"top", "select"} => Shown \/ Orphaned
    /\ pc = "down" => ~running /\ ~clockOn /\ DOMAIN tasks = {}
    /\ snap.status = "Finished" => pending = <<>> /\ pc \notin {"record", "down"}

LEMMA ToSetEmpty == ToSet(<<>>) = {}
BY DEF ToSet

LEMMA ToSetIsEmpty ==
    ASSUME NEW S, NEW s \in Seq(S), ToSet(s) = {}
    PROVE  s = <<>>
<1>1. Len(s) \in Nat /\ DOMAIN s = 1..Len(s)
  BY LenProperties
<1>2. ~(1 \in 1..Len(s))
  BY <1>1 DEF ToSet
<1>3. Len(s) = 0
  BY <1>1, <1>2
<1> QED
  BY <1>3, EmptySeq

LEMMA ToSetAppend ==
    ASSUME NEW S, NEW s \in Seq(S), NEW e \in S
    PROVE  ToSet(Append(s, e)) = ToSet(s) \cup {e}
<1>1. /\ Len(s) \in Nat /\ DOMAIN s = 1..Len(s)
      /\ Append(s, e) \in Seq(S) /\ Len(Append(s, e)) = Len(s) + 1
      /\ \A i \in 1..Len(s) : Append(s, e)[i] = s[i]
      /\ Append(s, e)[Len(s) + 1] = e
  BY LenProperties, AppendProperties
<1>2. DOMAIN Append(s, e) = 1..Len(s) + 1
  BY <1>1, LenProperties
<1>3. 1..Len(s) + 1 = (1..Len(s)) \cup {Len(s) + 1}
  BY <1>1
<1> QED
  BY <1>1, <1>2, <1>3 DEF ToSet

\* Taking an element out leaves every other one.
LEMMA ToSetRemove ==
    ASSUME NEW S, NEW s \in Seq(S), NEW i \in 1..Len(s)
    PROVE  ToSet(s) \ {s[i]} \subseteq ToSet(RemoveAt(s, i))
<1> DEFINE r == RemoveAt(s, i)
<1>1. /\ Len(s) \in Nat /\ DOMAIN s = 1..Len(s)
      /\ r \in Seq(S) /\ Len(r) = Len(s) - 1
      /\ \A j \in 1..Len(s) - 1 : r[j] = IF j < i THEN s[j] ELSE s[j + 1]
  BY LenProperties, RemoveAtProperties
<1>2. DOMAIN r = 1..Len(s) - 1
  BY <1>1, LenProperties
<1> HIDE DEF r
<1>3. ASSUME NEW k \in 1..Len(s), k # i PROVE \E j \in 1..Len(s) - 1 : r[j] = s[k]
  <2>1. CASE k < i
    <3>1. k \in 1..Len(s) - 1
      BY <1>1, <2>1
    <3> QED
      BY <1>1, <2>1, <3>1
  <2>2. CASE i < k
    <3>1. k - 1 \in 1..Len(s) - 1 /\ ~(k - 1 < i) /\ (k - 1) + 1 = k
      BY <1>1, <2>2
    <3> QED
      BY <1>1, <3>1
  <2> QED
    BY <1>1, <1>3, <2>1, <2>2
<1> SUFFICES ASSUME NEW x \in ToSet(s), x # s[i] PROVE x \in ToSet(r)
  BY DEF r
<1>4. PICK k \in 1..Len(s) : s[k] = x
  BY <1>1 DEF ToSet
<1>5. PICK j \in 1..Len(s) - 1 : r[j] = x
  BY <1>3, <1>4
<1> QED
  BY <1>2, <1>5 DEF ToSet

LEMMA ShownInit == Init => ShownInv
<1> SUFFICES ASSUME Init PROVE ShownInv
  OBVIOUS
<1>1. QueueInv
  BY QueueInit
<1>2. DOMAIN tasks = {} /\ inFlight = <<>>
  BY DEF Init
<1> QED
  BY <1>1, <1>2, ToSetEmpty DEF Init, ShownInv, BusyWhilePlaying, Shown

\* Every step of the driver keeps what the snapshot says true.
LEMMA ShownNext == ShownInv /\ [Next]_vars => ShownInv'
<1> SUFFICES ASSUME ShownInv, [Next]_vars PROVE ShownInv'
  OBVIOUS
<1>q. QueueInv /\ QueueInv' /\ TypeOK /\ inFlight \in Seq(Games) /\ pending \in Seq(Games)
  BY QueueNext DEF ShownInv, QueueInv, TypeOK
<1>s. \A v : [snap EXCEPT !.status = v].finished = snap.finished
               /\ [snap EXCEPT !.status = v].inFlight = snap.inFlight
               /\ [snap EXCEPT !.status = v].clockOn = snap.clockOn
               /\ [snap EXCEPT !.status = v].status = v
  BY <1>q DEF TypeOK
<1>1. CASE LaunchGame
  <2>1. /\ Head(pending) \in Games /\ running /\ running' = running /\ pc' = "launched"
        /\ inFlight' = Append(inFlight, Head(pending)) /\ snap' = snap
        /\ finishedCount' = finishedCount
        /\ DOMAIN tasks' = DOMAIN tasks \cup {Head(pending)}
    BY <1>1, <1>q, HeadTailProperties DEF LaunchGame, loop
  <2>2. DOMAIN tasks' \subseteq ToSet(inFlight')
    BY <1>q, <2>1, ToSetAppend DEF ShownInv
  <2>3. snap.status = "Running"
    BY <2>1 DEF ShownInv
  <2> QED
    BY <1>q, <2>1, <2>2, <2>3 DEF ShownInv, BusyWhilePlaying
<1>2. CASE Settle
  <2>1. /\ running' = running /\ pc' = "select" /\ inFlight' = inFlight /\ tasks' = tasks
        /\ pending' = pending /\ clockOn' = clockOn /\ finishedCount' = finishedCount
        /\ snap' = Synced /\ pc \in {"top", "launched"}
    BY <1>2 DEF Settle, loop, games, tally
  <2>2. /\ snap'.status = snap.status /\ snap'.finished = snap.finished
        /\ pc = "launched" => Shown'
        /\ pc = "top" => snap' = snap
    BY <1>q, <2>1 DEF Synced, Shown, TypeOK
  <2>3. Shown' \/ Orphaned'
    BY <2>1, <2>2 DEF ShownInv, Shown, Orphaned
  <2> QED
    BY <1>q, <2>1, <2>2, <2>3 DEF ShownInv, BusyWhilePlaying
<1>3. CASE FinishTournament
  <2>1. /\ running' = FALSE /\ pc' = "select" /\ inFlight' = inFlight /\ tasks' = tasks
        /\ pending' = pending /\ clockOn' = FALSE /\ finishedCount' = finishedCount
        /\ snap' = [status |-> "Finished", inFlight |-> {}, finished |-> finishedCount,
                    clockOn |-> FALSE]
        /\ DOMAIN tasks = {} /\ pending = <<>>
    BY <1>3 DEF FinishTournament, games, Publish, Drained
  <2>2. Shown' \/ Orphaned'
    BY <2>1 DEF Shown, Orphaned
  <2> QED
    BY <1>q, <2>1, <2>2 DEF ShownInv, BusyWhilePlaying
<1>4. CASE Go \/ SetConcurrency
  <2>1. /\ pc = "select" /\ pc' = "top" /\ inFlight' = inFlight /\ tasks' = tasks
        /\ pending' = pending /\ clockOn' = clockOn /\ finishedCount' = finishedCount
        /\ \/ running' = running /\ snap' = snap
           \/ running' = TRUE /\ snap' = [snap EXCEPT !.status = "Running"]
    BY <1>4 DEF Go, SetConcurrency, Receive, SnapshotStatus
  <2>2. Shown' \/ Orphaned'
    BY <1>s, <2>1 DEF ShownInv, Shown, Orphaned
  <2>3. CASE running' = running /\ snap' = snap
    BY <1>q, <2>1, <2>2, <2>3 DEF ShownInv, BusyWhilePlaying
  <2>4. CASE snap' = [snap EXCEPT !.status = "Running"]
    <3>1. snap'.status = "Running" /\ snap'.finished = snap.finished
      BY <1>s, <2>4
    <3> QED
      BY <1>q, <2>1, <2>2, <3>1 DEF ShownInv, BusyWhilePlaying
  <2> QED
    BY <2>1, <2>3, <2>4
<1>5. CASE Stop
  <2>1. /\ pc = "select" /\ pc' = "top" /\ inFlight' = inFlight /\ tasks' = tasks
        /\ pending' = pending /\ clockOn' = clockOn /\ finishedCount' = finishedCount
        /\ running' = FALSE /\ snap' = [snap EXCEPT !.status = DrainStatus(inFlight)]
    BY <1>5 DEF Stop, Receive, SnapshotStatus
  <2>2. Shown' \/ Orphaned'
    BY <1>s, <2>1 DEF ShownInv, Shown, Orphaned
  <2>3. BusyWhilePlaying' /\ snap'.status # "Finished"
    BY <1>s, <2>1, ToSetEmpty DEF ShownInv, BusyWhilePlaying, DrainStatus
  <2> QED
    BY <1>q, <1>s, <2>1, <2>2, <2>3 DEF ShownInv
<1>6. CASE ForceStop
  <2>1. /\ pc' = "top" /\ inFlight' = <<>> /\ DOMAIN tasks' = {} /\ clockOn' = FALSE
        /\ running' = FALSE /\ finishedCount' = finishedCount
        /\ snap' = [snap EXCEPT !.status = "Stopped", !.inFlight = {}, !.clockOn = FALSE]
    BY <1>6 DEF ForceStop, Receive
  <2>2. /\ snap'.status = "Stopped" /\ snap'.inFlight = {} /\ snap'.clockOn = FALSE
        /\ snap'.finished = snap.finished
    BY <1>q, <2>1 DEF TypeOK
  <2> QED
    BY <1>q, <2>1, <2>2, ToSetEmpty DEF ShownInv, BusyWhilePlaying, Shown
<1>7. CASE \E g \in Games : RecordReport(g)
  <2> PICK g \in Games : RecordReport(g)
    BY <1>7
  <2>1. /\ g \in DOMAIN tasks /\ DOMAIN tasks' = DOMAIN tasks \ {g}
        /\ pc' = "record" /\ running' = running /\ snap' = snap
        /\ finishedCount' = finishedCount
    BY DEF RecordReport, Spawned, loop, tally
  <2>2. PICK i \in 1..Len(inFlight) : inFlight[i] = g /\ inFlight' = TakenBack(i)
    BY DEF RecordReport
  <2>3. DOMAIN tasks' \subseteq ToSet(inFlight')
    BY <1>q, <2>1, <2>2, ToSetRemove DEF ShownInv, TakenBack
  <2>4. snap.status # "Finished"
    BY <2>1 DEF ShownInv, BusyWhilePlaying
  <2> QED
    BY <1>q, <2>1, <2>3, <2>4 DEF ShownInv, BusyWhilePlaying
<1>8. CASE PublishReport
  <2>1. /\ pc' = "top" /\ running' = running /\ inFlight' = inFlight /\ tasks' = tasks
        /\ snap' = [status |-> IF running THEN "Running" ELSE DrainStatus(inFlight),
                    inFlight |-> ToSet(inFlight), finished |-> finishedCount',
                    clockOn |-> clockOn']
    BY <1>8 DEF PublishReport, Publish, loop
  <2>2. BusyWhilePlaying' /\ snap'.status # "Finished"
    BY <2>1, ToSetEmpty DEF ShownInv, BusyWhilePlaying, DrainStatus
  <2> QED
    BY <1>q, <2>1, <2>2 DEF ShownInv, Shown
<1>9. CASE \E g \in Games : PanicLogged(g)
  <2> PICK g \in Games : PanicLogged(g)
    BY <1>9
  <2>1. /\ pc = "select" /\ pc' = "top" /\ running' = running /\ snap' = snap
        /\ inFlight' = inFlight /\ pending' = pending /\ clockOn' = clockOn
        /\ finishedCount' = finishedCount /\ DOMAIN tasks' = DOMAIN tasks \ {g}
    BY DEF PanicLogged, Spawned, loop, tally
  <2>2. Shown' \/ Orphaned'
    BY <2>1 DEF ShownInv, Shown, Orphaned
  <2> QED
    BY <1>q, <2>1, <2>2 DEF ShownInv, BusyWhilePlaying
<1>10. CASE \/ (\E g \in Games : TaskEnds(g)) \/ (\E c \in Command : Send(c))
            \/ Unload \/ DeleteRows \/ DeleteFails \/ UNCHANGED vars
  <2>1. /\ pc' = pc /\ running' = running /\ snap' = snap /\ inFlight' = inFlight
        /\ pending' = pending /\ clockOn' = clockOn /\ finishedCount' = finishedCount
        /\ DOMAIN tasks' = DOMAIN tasks
    BY <1>10, <1>q DEF TaskEnds, Send, Unload, DeleteRows, DeleteFails, vars, loop, games,
                       tally, TypeOK
  <2>2. Shown' <=> Shown
    BY <2>1 DEF Shown
  <2>3. Orphaned' <=> Orphaned
    BY <2>1 DEF Orphaned
  <2> QED
    BY <1>q, <2>1, <2>2, <2>3 DEF ShownInv, BusyWhilePlaying
<1>11. CASE Crash \/ HandleDropped
  <2>1. NoDriver
    BY <1>11 DEF Crash, HandleDropped
  <2> QED
    BY <1>q, <2>1 DEF NoDriver, ShownInv, BusyWhilePlaying
<1>12. CASE Resume
  <2>1. /\ pc = "down" /\ pc' = "top" /\ running' = running /\ inFlight' = inFlight
        /\ tasks' = tasks /\ clockOn' = clockOn
        /\ finishedCount' = Cardinality(PlayedRows)
        /\ snap' = [status |-> IF PlayedRows = Games THEN "Finished" ELSE "Stopped",
                    inFlight |-> {}, finished |-> Cardinality(PlayedRows),
                    clockOn |-> FALSE]
        /\ pending' \in [1..Cardinality(Games \ PlayedRows) -> Games \ PlayedRows]
    BY <1>12 DEF Resume, InScheduleOrder
  <2>2. inFlight = <<>> /\ ~running /\ ~clockOn /\ DOMAIN tasks = {}
    BY <1>q, <2>1 DEF ShownInv, QueueInv, DownIsEmpty
  <2>3. PlayedRows = Games => pending' = <<>>
    <3> SUFFICES ASSUME PlayedRows = Games PROVE pending' = <<>>
      OBVIOUS
    <3>1. Games \ PlayedRows = {}
      OBVIOUS
    <3>2. pending' \in [1..0 -> {}]
      BY <2>1, <3>1, FS_EmptySet
    <3>3. pending' \in Seq(Games) /\ DOMAIN pending' = {}
      BY <1>q, <3>2 DEF QueueInv, TypeOK
    <3>4. Len(pending') = 0
      BY <3>3, LenProperties
    <3> QED
      BY <3>3, <3>4, EmptySeq
  <2>4. Shown'
    <3>1. clockOn = FALSE
      BY <1>q, <2>2 DEF TypeOK
    <3>2. ToSet(inFlight') = {}
      BY <2>1, <2>2, ToSetEmpty
    <3> QED
      BY <2>1, <3>1, <3>2 DEF Shown
  <2>5. snap'.status = "Finished" => PlayedRows = Games
    BY <2>1
  <2>6. snap'.finished = finishedCount'
    BY <2>1
  <2> QED
    BY <1>q, <2>1, <2>2, <2>3, <2>4, <2>5, <2>6 DEF ShownInv, BusyWhilePlaying
<1> QED
  BY <1>1, <1>2, <1>3, <1>4, <1>5, <1>6, <1>7, <1>8, <1>9, <1>10, <1>11, <1>12
  DEF Next, Drive, Handle

LEMMA ShownCorrect == Spec => []ShownInv
BY ShownInit, ShownNext, PTL DEF Spec

\* The close guard never lets go of a running game: a snapshot that says neither
\* Running nor Stopping means that no game task is alive.
THEOREM BusyTheorem == Spec => []BusyWhilePlaying
<1>1. ShownInv => BusyWhilePlaying
  BY DEF ShownInv
<1> QED
  BY <1>1, ShownCorrect, PTL

\* A driver that waits has told the GUI of every flight, of its clock and of its
\* count, unless a task panicked.
THEOREM SnapshotFreshTheorem == Spec => []SnapshotFresh
<1>1. ShownInv => SnapshotFresh
  BY DEF ShownInv, SnapshotFresh, NonePanicked, Shown, Orphaned
<1> QED
  BY <1>1, ShownCorrect, PTL

\* The standings hold what the rows hold, but for the report in the driver's hands.
Counted ==
    pc # "down" /\ ~Deleted =>
        \A g \in Games :
            standings[g] + (IF pc = "record" /\ joined = <<g, "scored">> THEN 1 ELSE 0)
                = IF g \in PlayedRows THEN 1 ELSE 0

\* A game without a result waits.
Accounted ==
    pc # "down" /\ ~Deleted =>
        \A g \in Games : row[g] \in Decided \/ g \in WaitingGames

HistoryInv == LedgerInv /\ ShownInv /\ Counted /\ Accounted

\* A sequence of n games of a set of n, in order, has them all.
LEMMA OrderHasAll ==
    ASSUME NEW S \in SUBSET Games, NEW s \in InScheduleOrder(S)
    PROVE  \A g \in S : \E i \in 1..Cardinality(S) : s[i] = g
<1> DEFINE n == Cardinality(S)
<1>1. IsFiniteSet(S) /\ n \in Nat /\ s \in [1..n -> S] /\ Increasing(s)
  BY FiniteGames DEF InScheduleOrder
<1> HIDE DEF n
<1>2. s \in Seq(Games) /\ Len(s) = n
  BY <1>1
<1>3. s \in Injection(1..n, S)
  <2>1. ASSUME NEW i \in 1..n, NEW j \in 1..n, s[i] = s[j] PROVE i = j
    <3>1. s[i] \in S /\ s[j] \in S
      BY <1>1
    <3>2. \A g \in Games : g \in Int
      BY NumGamesAssumption DEF Games
    <3>3. s[i] \in Int /\ s[j] \in Int
      BY <3>1, <3>2
    <3>4. ~(s[i] < s[j]) /\ ~(s[j] < s[i])
      BY <2>1, <3>3
    <3>5. i \in 1..Len(s) /\ j \in 1..Len(s)
      BY <1>2
    <3>6. ~(i < j) /\ ~(j < i)
      BY <1>1, <3>4, <3>5 DEF Increasing
    <3> QED
      BY <1>1, <3>6
  <2> QED
    BY <1>1, <2>1 DEF Injection, IsInjective
<1>4. Cardinality(1..n) = n
  <2>1. CASE n = 0
    <3>1. 1..n = {}
      BY <2>1
    <3> QED
      BY <2>1, <3>1, FS_EmptySet
  <2>2. CASE n # 0
    <3>1. 1 \in Int /\ n \in Int /\ ~(1 > n) /\ n - 1 + 1 = n
      BY <1>1, <2>2
    <3> QED
      BY <3>1, FS_Interval
  <2> QED
    BY <2>1, <2>2
<1>5. s \in Surjection(1..n, S)
  BY <1>1, <1>3, <1>4, FS_Injection DEF n
<1> QED
  BY <1>5 DEF Surjection, n

\* A report takes only its own game out of those that wait.
LEMMA WaitingKeeps ==
    ASSUME TypeOK, NEW i \in 1..Len(inFlight), inFlight' = TakenBack(i),
           pending' = pending
    PROVE  WaitingGames \ {inFlight[i]} \subseteq WaitingGames'
<1>1. /\ Len(Waiting) \in Nat /\ Len(Waiting') = Len(Waiting) - 1
      /\ i \in 1..Len(Waiting) /\ Waiting[i] = inFlight[i]
      /\ \A j \in 1..Len(Waiting) - 1 :
            Waiting'[j] = IF j < i THEN Waiting[j] ELSE Waiting[j + 1]
  BY WaitingRemove, WaitingType
<1>2. ASSUME NEW k \in 1..Len(Waiting), k # i
      PROVE  \E j \in 1..Len(Waiting') : Waiting'[j] = Waiting[k]
  <2>1. CASE k < i
    <3>1. k \in 1..Len(Waiting) - 1
      BY <1>1, <2>1
    <3> QED
      BY <1>1, <2>1, <3>1
  <2>2. CASE i < k
    <3>1. k - 1 \in 1..Len(Waiting) - 1 /\ ~(k - 1 < i) /\ (k - 1) + 1 = k
      BY <1>1, <2>2
    <3> QED
      BY <1>1, <3>1
  <2>3. i \in 1..Len(Waiting) /\ Len(Waiting) \in Nat
    BY <1>1
  <2>4. k < i \/ i < k
    BY <1>2, <2>3
  <2> QED
    BY <2>1, <2>2, <2>4
<1> SUFFICES ASSUME NEW x \in WaitingGames, x # inFlight[i] PROVE x \in WaitingGames'
  OBVIOUS
<1>3. PICK k \in 1..Len(Waiting) : Waiting[k] = x
  BY DEF WaitingGames
<1>4. PICK j \in 1..Len(Waiting') : Waiting'[j] = x
  BY <1>1, <1>2, <1>3
<1> QED
  BY <1>4 DEF WaitingGames

LEMMA HistoryInit == Init => HistoryInv
<1> SUFFICES ASSUME Init PROVE HistoryInv
  OBVIOUS
<1>1. LedgerInv /\ ShownInv
  BY LedgerInit, ShownInit
<1>2. Counted
  BY DEF Init, Counted, PlayedRows
<1>3. Accounted
  <2>1. inFlight = <<>> /\ pending = [i \in 1..NumGames |-> i] /\ NumGames \in Nat
    BY NumGamesAssumption DEF Init, Games
  <2>2. pending \in Seq(Games) /\ Len(pending) = NumGames
    BY <1>1, <2>1 DEF ShownInv, QueueInv, TypeOK
  <2>3. Waiting = pending
    BY <2>1, <2>2, ConcatEmptySeq DEF Waiting
  <2> QED
    BY <2>1, <2>2, <2>3 DEF Accounted, WaitingGames, Games
<1> QED
  BY <1>1, <1>2, <1>3 DEF HistoryInv

\* Every step keeps the standings and the rows together, and every game either
\* decided or waiting.
LEMMA HistoryNext ==
    ASSUME ~StoreMayFail, HistoryInv, [Next]_vars
    PROVE  HistoryInv'
<1>q. /\ LedgerInv /\ LedgerInv' /\ ShownInv /\ ShownInv' /\ QueueInv /\ TypeOK
      /\ GoneTogether /\ standings \in [Games -> Nat]
  BY LedgerNext, ShownNext DEF HistoryInv, LedgerInv, QueueInv, TypeOK
<1>1. CASE \E g \in Games : RecordReport(g)
  <2> PICK g \in Games : RecordReport(g)
    BY <1>1
  <2>1. /\ pc = "select" /\ pc' = "record" /\ joined' = <<g, tasks[g]>>
        /\ standings' = standings /\ dbStatus' = dbStatus /\ tasks[g] \in Outcome
    BY DEF RecordReport, tally
  <2>2. PICK i \in 1..Len(inFlight) :
          inFlight[i] = g /\ inFlight' = TakenBack(i) /\ pending' = pending
    BY DEF RecordReport
  <2>3. WaitingGames \ {g} \subseteq WaitingGames'
    BY <1>q, <2>2, WaitingKeeps
  <2> SUFFICES ASSUME ~Deleted' PROVE Counted' /\ Accounted'
    BY <1>q DEF HistoryInv, Counted, Accounted
  <2>4. ~Deleted
    BY <2>1 DEF Deleted
  <2>5. row' = [row EXCEPT ![g] = IF tasks[g] = "scored" THEN "finished" ELSE "aborted"]
    BY <2>4 DEF RecordReport, SetRow, Persist
  <2>6. /\ row'[g] = (IF tasks[g] = "scored" THEN "finished" ELSE "aborted")
        /\ \A h \in Games : h # g => row'[h] = row[h]
    BY <1>q, <2>5 DEF TypeOK
  <2>7. row[g] \notin Decided
    <3>1. i \in 1..Len(Waiting) /\ Waiting[i] = g
      BY <1>q, <2>2, WaitingRemove
    <3> QED
      BY <1>q, <3>1 DEF QueueInv, WaitingIsOpen, Decided
  <2>8. Counted'
    <3> SUFFICES ASSUME NEW h \in Games
                 PROVE  standings'[h]
                            + (IF pc' = "record" /\ joined' = <<h, "scored">> THEN 1 ELSE 0)
                            = IF row'[h] = "finished" THEN 1 ELSE 0
      BY DEF Counted, PlayedRows
    <3>1. standings[h] = IF row[h] = "finished" THEN 1 ELSE 0
      BY <1>q, <2>1, <2>4 DEF HistoryInv, Counted, PlayedRows
    <3>2. CASE h = g
      BY <2>1, <2>6, <2>7, <3>1, <3>2 DEF Decided
    <3>3. CASE h # g
      BY <2>1, <2>6, <3>1, <3>3
    <3> QED
      BY <3>2, <3>3
  <2>9. Accounted'
    BY <2>1, <2>3, <2>4, <2>6 DEF HistoryInv, Accounted, Decided
  <2> QED
    BY <2>8, <2>9
<1>2. CASE PublishReport
  <2>1. /\ pc = "record" /\ pc' = "top" /\ row' = row /\ dbStatus' = dbStatus
        /\ inFlight' = inFlight /\ pending' = pending
        /\ joined \in Games \X Outcome
        /\ standings' = [standings EXCEPT ![joined[1]] = @ + Scorable(joined[2])]
    BY <1>2, <1>q DEF PublishReport, TypeOK
  <2>2. \A h \in Games :
          standings'[h] = standings[h] + (IF joined = <<h, "scored">> THEN 1 ELSE 0)
    <3>1. PICK g \in Games, end \in Outcome : joined = <<g, end>>
      BY <2>1
    <3>2. standings' = [standings EXCEPT ![g] = standings[g] + Scorable(end)]
      BY <2>1, <3>1
    <3> QED
      BY <1>q, <3>1, <3>2 DEF Scorable
  <2>3. Counted'
    BY <2>1, <2>2 DEF HistoryInv, Counted, Deleted, PlayedRows
  <2>4. Accounted'
    BY <2>1 DEF HistoryInv, Accounted, Deleted, WaitingGames, Waiting
  <2> QED
    BY <1>q, <2>3, <2>4 DEF HistoryInv
<1>3. CASE Resume
  <2> DEFINE S == Games \ PlayedRows
  <2>1. /\ row' = [g \in Games |-> ResetRow(row[g])] /\ pc = "down" /\ pc' = "top"
        /\ standings' = [g \in Games |-> IF g \in PlayedRows THEN 1 ELSE 0]
        /\ pending' \in InScheduleOrder(S) /\ inFlight' = inFlight
    BY <1>3 DEF Resume
  <2>2. Counted'
    BY <2>1 DEF Counted, PlayedRows, ResetRow
  <2>3. Waiting' = pending' /\ Len(pending') = Cardinality(S)
    <3>1. inFlight' = <<>> /\ pending' \in Seq(Games)
      BY <1>q, <2>1 DEF QueueInv, DownIsEmpty, LedgerInv, TypeOK
    <3>2. Cardinality(S) \in Nat /\ pending' \in [1..Cardinality(S) -> S]
      BY <2>1, FiniteGames DEF InScheduleOrder
    <3> HIDE DEF S
    <3>3. Len(pending') = Cardinality(S)
      BY <3>1, <3>2
    <3> QED
      BY <3>1, <3>3, ConcatEmptySeq DEF Waiting
  <2>4. \A g \in S : g \in WaitingGames'
    BY <2>1, <2>3, OrderHasAll DEF WaitingGames
  <2>5. Accounted'
    BY <2>1, <2>4 DEF Accounted, ResetRow, PlayedRows, Decided
  <2> QED
    BY <1>q, <2>2, <2>5 DEF HistoryInv
<1>4. CASE DeleteRows \/ Crash \/ HandleDropped
  <2>1. Deleted' \/ pc' = "down"
    BY <1>4 DEF DeleteRows, Crash, HandleDropped, NoDriver, Deleted
  <2> QED
    BY <1>q, <2>1 DEF HistoryInv, Counted, Accounted
<1>5. CASE \/ UNCHANGED vars
           \/ Next /\ ~(\E g \in Games : RecordReport(g)) /\ ~PublishReport /\ ~Resume
                /\ ~DeleteRows /\ ~Crash /\ ~HandleDropped
  <2>1. \A h \in Games : row'[h] = row[h] \/ {row[h], row'[h]} \cap Decided = {}
    BY <1>5, <1>q, RowStep DEF vars, store
  <2>2. standings' = standings
    BY <1>5 DEF Next, Drive, Handle, LaunchGame, Settle, FinishTournament, Go, Stop,
                ForceStop, SetConcurrency, Receive, PanicLogged, TaskEnds, Send,
                Unload, DeleteFails, vars, tally
  <2>3. /\ (pc' = "record" <=> pc = "record") /\ (pc' = "down" <=> pc = "down")
        /\ joined' = joined
    BY <1>5 DEF Next, Drive, Handle, LaunchGame, Settle, FinishTournament, Go, Stop,
                ForceStop, SetConcurrency, Receive, PanicLogged, TaskEnds, Send,
                Unload, DeleteFails, vars, games
  <2>4. Deleted' <=> Deleted
    BY <1>5, <1>q, GoneStep DEF vars, store, Deleted
  <2>5. WaitingGames' = WaitingGames
    BY <1>5, <1>q, WaitingFrame DEF vars, games, WaitingGames, Waiting
  <2>6. \A h \in Games : /\ row'[h] = "finished" <=> row[h] = "finished"
                         /\ row[h] \in Decided => row'[h] \in Decided
    BY <2>1 DEF Decided
  <2>7. Counted'
    BY <2>2, <2>3, <2>4, <2>6 DEF HistoryInv, Counted, PlayedRows
  <2>8. Accounted'
    BY <2>3, <2>4, <2>5, <2>6 DEF HistoryInv, Accounted
  <2> QED
    BY <1>q, <2>7, <2>8 DEF HistoryInv
<1> QED
  BY <1>1, <1>2, <1>3, <1>4, <1>5

LEMMA HistoryCorrect ==
    ASSUME ~StoreMayFail
    PROVE  Spec => []HistoryInv
<1>1. HistoryInv /\ [Next]_vars => HistoryInv'
  BY HistoryNext
<1> QED
  BY <1>1, HistoryInit, PTL DEF Spec

\* When the database keeps what is written to it, the live standings are those a
\* history view or a resume reads from the rows.
THEOREM HistoryTheorem ==
    ASSUME ~StoreMayFail
    PROVE  Spec => []HistoryAgrees
<1>1. HistoryInv => HistoryAgrees
  <2> SUFFICES ASSUME HistoryInv, pc \notin {"down", "record"}, ~Deleted, NEW g \in Games
               PROVE  standings[g] = IF g \in PlayedRows THEN 1 ELSE 0
    BY DEF HistoryAgrees
  <2>1. standings[g] \in Nat
    BY DEF HistoryInv, ShownInv, QueueInv, TypeOK
  <2>2. standings[g] + 0 = IF g \in PlayedRows THEN 1 ELSE 0
    BY DEF HistoryInv, Counted
  <2> QED
    BY <2>1, <2>2
<1> QED
  BY <1>1, HistoryCorrect, PTL

\* When the database keeps what is written to it, a tournament shown Finished has a
\* decision in every row.
THEOREM FinishedTheorem ==
    ASSUME ~StoreMayFail
    PROVE  Spec => []FinishedIsComplete
<1>1. HistoryInv => FinishedIsComplete
  <2> SUFFICES ASSUME HistoryInv, snap.status = "Finished", NonePanicked, ~Deleted,
                      NEW g \in Games
               PROVE  row[g] \in {"finished", "aborted"}
    BY DEF FinishedIsComplete
  <2>1. /\ DOMAIN tasks = {} /\ pending = <<>> /\ inFlight \in Seq(Games)
    BY DEF HistoryInv, ShownInv, BusyWhilePlaying, QueueInv, TypeOK
  <2>2. inFlight = <<>>
    BY <2>1, ToSetIsEmpty DEF NonePanicked
  <2>3. Len(Waiting) = 0
    BY <2>1, <2>2, ConcatProperties, EmptySeq DEF Waiting
  <2>4. g \notin WaitingGames
    BY <2>3 DEF WaitingGames
  <2>5. pc # "down"
    BY DEF HistoryInv, ShownInv
  <2> QED
    BY <2>4, <2>5 DEF HistoryInv, Accounted, Decided
<1> QED
  BY <1>1, HistoryCorrect, PTL

=============================================================================
