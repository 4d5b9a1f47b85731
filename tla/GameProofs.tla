----------------------------- MODULE GameProofs -----------------------------
(***************************************************************************)
(* Proofs about a game and the processes under it.                         *)
(*                                                                         *)
(* One engine process (EngineProcess), for every deadline, late window and *)
(* number of searches and lines: a search returns the answer to its own    *)
(* `go`, and it is judged by when the engine's line arrived.  OwnAnswer    *)
(* rests on a count: at most one bestmove is outstanding, and it answers   *)
(* the last go.  JudgedByArrival rests on an order: within a call, lines   *)
(* wait in the order of their stamps.                                      *)
(*                                                                         *)
(* The games of one slot (Game), for every time control, margin,           *)
(* adjudication rule and number of games: the runner's books agree with    *)
(* the engines, only a fit engine is kept, and blame is earned.  What an   *)
(* engine owes and what the runner notes of it change in different steps,  *)
(* so each property is strengthened by what holds at every place of the    *)
(* game in between: Books, Keeping and Blame.                              *)
(***************************************************************************)
EXTENDS Game, EngineProcess, TLAPS

-----------------------------------------------------------------------------
(* One engine process.                                                     *)

Lines == 1..Len(lines)
Moves(i) == lines[i].kind = "bestmove"

\* The engine owes no bestmove and none is on its way.
NoneOut ==
    /\ job = "idle" /\ held.kind # "bestmove"
    /\ \A i \in Lines : ~Moves(i)

\* At most one bestmove is owed or on its way, and it answers the last go.
OneOut ==
    /\ job # "idle" => held.kind # "bestmove" /\ \A i \in Lines : ~Moves(i)
    /\ held.kind = "bestmove" => held.go = go /\ \A i \in Lines : ~Moves(i)
    /\ \A i \in Lines : Moves(i) => lines[i].go = go
    /\ \A i, j \in Lines : Moves(i) /\ Moves(j) => i = j

\* Every call but the last of a process is made after calls that went well.
Sound == op \in (Reading \ {"late"}) \cup {"armed", "parked", "drained"} => ~Broken

Owed ==
    /\ op \in {"free", "ready"} /\ ~Broken => NoneOut /\ early = 0
    /\ op \in {"search", "ponderhit", "stop", "armed", "drain"} => OneOut /\ early = 0
    /\ op \in {"parked", "drained"} => (early = 0 /\ OneOut) \/ (early = go /\ NoneOut)

\* A call with a deadline: its clock runs, and lines are stamped with it.
Timed == op \in Reading \ {"drain"}

InOrder ==
    Timed =>
        /\ \A i \in Lines : lines[i].at <= t /\ (held # None => lines[i].at <= held.at)
        /\ \A i, j \in Lines : i < j => lines[i].at <= lines[j].at
        /\ held.at <= t

\* The reader says Eof, and goes, only when the engine is gone.
EofIsTrue ==
    /\ held.kind = "eof" \/ reader = "done" => ~alive
    /\ \A i \in Lines : lines[i].kind = "eof" => ~alive

ProcessInv == ProcessTypeOK /\ Sound /\ Owed /\ InOrder /\ EofIsTrue
-----------------------------------------------------------------------------
(* Lines come and go. *)

LEMMA HorizonIsNat == Horizon \in Nat /\ Deadline < Horizon /\ LateWindow < Horizon
  BY DeadlineAssumption DEF Horizon

LEMMA NoneIsNoEvent == None.kind = "none" /\ None.at = 0 /\ None \notin Event
  BY DEF None, Event

LEMMA LineIsEvent == ASSUME ProcessTypeOK, NEW i \in Lines PROVE lines[i] \in Event
  BY DEF ProcessTypeOK, Lines

LEMMA AgedEvent ==
  ASSUME NEW event \in Event \cup {None}
  PROVE  /\ Aged(event).kind = event.kind /\ Aged(event).go = event.go /\ Aged(event).at = 0
         /\ event \in Event => Aged(event) \in Event
         /\ Aged(event) = None <=> event = None
  BY HorizonIsNat DEF Aged, Event, None

LEMMA AgedLines ==
  ASSUME ProcessTypeOK, NEW call, Begin(call)
  PROVE  /\ op' = call /\ t' = 0
         /\ lines' \in Seq(Event) /\ Len(lines') = Len(lines)
         /\ \A i \in Lines : /\ lines'[i].kind = lines[i].kind
                             /\ lines'[i].go = lines[i].go /\ lines'[i].at = 0
         /\ held' \in Event \cup {None} /\ held'.kind = held.kind
         /\ held'.go = held.go /\ held'.at = 0
<1>1. held' = Aged(held) /\ op' = call /\ t' = 0
  BY DEF Begin
<1>2. lines' = [i \in 1..Len(lines) |-> Aged(lines[i])] /\ Len(lines) \in Nat
  BY DEF Begin, ProcessTypeOK
<1>3. \A i \in 1..Len(lines) : lines[i] \in Event /\ Aged(lines[i]) \in Event
  BY LineIsEvent, AgedEvent DEF Lines
<1>4. lines' \in Seq(Event) /\ Len(lines') = Len(lines)
  BY <1>2, <1>3
<1>5. \A i \in Lines : /\ lines'[i].kind = lines[i].kind
                       /\ lines'[i].go = lines[i].go /\ lines'[i].at = 0
  BY <1>2, <1>3, AgedEvent DEF Lines
<1>6. held' \in Event \cup {None} /\ held'.kind = held.kind /\ held'.go = held.go /\ held'.at = 0
  BY <1>1, AgedEvent DEF ProcessTypeOK
<1> QED
  BY <1>1, <1>4, <1>5, <1>6

LEMMA PoppedLines ==
  ASSUME ProcessTypeOK, lines # <<>>, lines' = Tail(lines)
  PROVE  /\ lines' \in Seq(Event)
         /\ 1 \in Lines /\ Head(lines) = lines[1] /\ Head(lines) \in Event
         /\ \A i \in Lines' : i + 1 \in Lines /\ lines'[i] = lines[i + 1]
  BY DEF ProcessTypeOK, Lines

LEMMA SentLine ==
  ASSUME ProcessTypeOK, held # None, lines' = Append(lines, held)
  PROVE  /\ lines' \in Seq(Event)
         /\ \A i \in Lines' : \/ i \in Lines /\ lines'[i] = lines[i]
                              \/ i = Len(lines) + 1 /\ lines'[i] = held
         /\ Lines \subseteq Lines'
  BY DEF ProcessTypeOK, Lines

\* A call that starts leaves what is on its way as it is, but for the stamps.
LEMMA BeginKeeps ==
  ASSUME ProcessTypeOK, NEW call, Begin(call)
  PROVE  /\ job' = "idle" /\ NoneOut => NoneOut'
         /\ NoneOut => OneOut'
         /\ go' = go /\ (job' # "idle" => job # "idle") /\ OneOut => OneOut'
         /\ InOrder'
<1>1. Lines' = Lines /\ \A i \in Lines : Moves(i)' <=> Moves(i)
  BY AgedLines DEF Lines, Moves
<1>2. job' = "idle" /\ NoneOut => NoneOut'
  BY <1>1, AgedLines DEF NoneOut
<1>3. NoneOut => OneOut'
  BY <1>1, AgedLines DEF NoneOut, OneOut
<1>4. go' = go /\ (job' # "idle" => job # "idle") /\ OneOut => OneOut'
  BY <1>1, AgedLines DEF OneOut, Moves, Lines
<1>5. InOrder'
  <2>1. \A i \in Lines' : lines'[i].at = 0
    BY <1>1, AgedLines
  <2>2. held'.at = 0 /\ t' = 0
    BY AgedLines
  <2> QED
    BY <2>1, <2>2 DEF InOrder
<1> QED
  BY <1>2, <1>3, <1>4, <1>5

\* A line is taken off the channel.
LEMMA PopKeeps ==
  ASSUME ProcessTypeOK, lines # <<>>, lines' = Tail(lines), UNCHANGED <<job, held, go>>
  PROVE  /\ NoneOut => NoneOut'
         /\ OneOut => OneOut'
         /\ OneOut /\ Head(lines).kind = "bestmove" => NoneOut' /\ Head(lines).go = go
<1>1. /\ 1 \in Lines /\ Head(lines) = lines[1]
      /\ \A i \in Lines' : i + 1 \in Lines /\ lines'[i] = lines[i + 1]
  BY PoppedLines
<1>2. \A i \in Lines' : Moves(i)' <=> Moves(i + 1)
  BY <1>1 DEF Moves
<1>3. NoneOut => NoneOut'
  BY <1>1, <1>2 DEF NoneOut
<1>4. Lines' \subseteq Int
  BY DEF Lines
<1>5. OneOut => OneOut'
  <2> SUFFICES ASSUME OneOut PROVE OneOut'
    OBVIOUS
  <2>1. \A i, j \in Lines' : Moves(i)' /\ Moves(j)' => i = j
    <3> SUFFICES ASSUME NEW i \in Lines', NEW j \in Lines', Moves(i + 1), Moves(j + 1)
                 PROVE  i = j
      BY <1>2
    <3>1. i + 1 = j + 1
      BY <1>1 DEF OneOut
    <3> QED
      BY <1>4, <3>1
  <2>2. \A i \in Lines' : Moves(i)' => lines'[i].go = go'
    BY <1>1, <1>2 DEF OneOut
  <2>3. (\A i \in Lines : ~Moves(i)) => \A i \in Lines' : ~Moves(i)'
    BY <1>1, <1>2
  <2> QED
    BY <2>1, <2>2, <2>3 DEF OneOut
<1>6. ASSUME OneOut, Head(lines).kind = "bestmove"
      PROVE  NoneOut' /\ Head(lines).go = go
  <2>1. Moves(1)
    BY <1>1, <1>6 DEF Moves
  <2>2. \A i \in Lines' : ~Moves(i + 1)
    <3> SUFFICES ASSUME NEW i \in Lines', Moves(i + 1) PROVE FALSE
      OBVIOUS
    <3>1. i + 1 = 1
      BY <1>1, <1>6, <2>1 DEF OneOut
    <3> QED
      BY <3>1 DEF Lines
  <2>3. job = "idle" /\ held.kind # "bestmove"
    BY <1>1, <1>6, <2>1 DEF OneOut
  <2> QED
    BY <1>1, <1>2, <1>6, <2>1, <2>2, <2>3 DEF NoneOut, OneOut
<1> QED
  BY <1>3, <1>5, <1>6

LEMMA PopInOrder ==
  ASSUME ProcessTypeOK, InOrder, lines # <<>>, lines' = Tail(lines), UNCHANGED <<held, t>>,
         op' # op => ~Timed'
  PROVE  InOrder'
<1> SUFFICES ASSUME Timed' PROVE InOrder'
  BY DEF InOrder
<1>1. Timed
  BY DEF Timed
<1>2. /\ Lines \subseteq Int /\ Lines' \subseteq Int
      /\ \A i \in Lines' : i + 1 \in Lines /\ lines'[i] = lines[i + 1]
  BY PoppedLines DEF Lines
<1>3. \A i, j \in Lines' : i < j => lines'[i].at <= lines'[j].at
  <2> SUFFICES ASSUME NEW i \in Lines', NEW j \in Lines', i < j
               PROVE  lines[i + 1].at <= lines[j + 1].at
    BY <1>2
  <2>1. i + 1 < j + 1
    BY <1>2
  <2> QED
    BY <1>1, <1>2, <2>1 DEF InOrder
<1> QED
  BY <1>1, <1>2, <1>3 DEF InOrder

\* The reader stamps a line with the clock of the call.
LEMMA StampedEvent ==
  ASSUME ProcessTypeOK, NEW kind \in {"bestmove", "readyok", "info", "overlong", "eof"}, Stamp(kind)
  PROVE  /\ held' \in Event /\ held' # None /\ held'.kind = kind
         /\ kind = "bestmove" => held'.go = go
         /\ Timed => held'.at = t
<1>1. (IF kind = "bestmove" THEN go ELSE 0) \in 0..MaxGo
  BY BoundsAssumption DEF ProcessTypeOK
<1>2. (IF op \in Reading \ {"drain"} THEN t ELSE 0) \in 0..Horizon
  BY HorizonIsNat DEF ProcessTypeOK
<1> QED
  BY <1>1, <1>2 DEF Stamp, Event, None, Timed

LEMMA StampInOrder ==
  ASSUME ProcessTypeOK, InOrder, NEW kind \in {"bestmove", "readyok", "info", "overlong", "eof"},
         Stamp(kind), UNCHANGED <<lines, t, op>>
  PROVE  InOrder'
<1> SUFFICES ASSUME Timed' PROVE InOrder'
  BY DEF InOrder
<1>1. Timed /\ Lines' = Lines /\ held'.at = t
  BY StampedEvent DEF Timed, Lines
<1>2. t <= t
  BY HorizonIsNat DEF ProcessTypeOK
<1> QED
  BY <1>1, <1>2 DEF InOrder

\* A call that returned something typed.
LEMMA ReturnFits ==
  ASSUME op \in Reading, NEW res \in {"ok"} \cup ErrorKind, NEW answered \in 0..MaxGo,
         NEW elapsed \in 0..Horizon, Return(res, answered, elapsed)
  PROVE  verdict' \in Verdict /\ verdict'.res = res /\ verdict'.op = op
         /\ verdict'.go = answered /\ verdict'.elapsed = elapsed
  BY DEF Return, Verdict

LEMMA FailFits ==
  ASSUME op \in Reading, NEW res \in ErrorKind, Fail(res)
  PROVE  /\ verdict' \in Verdict /\ verdict'.res = res /\ verdict'.op = op /\ Broken'
         /\ op' \in {"free", "done"} /\ (op' = "done" <=> op = "late")
<1>1. 0 \in 0..MaxGo /\ 0 \in 0..Horizon
  BY BoundsAssumption, HorizonIsNat
<1>2. res # "ok"
  BY DEF ErrorKind
<1>3. verdict' \in Verdict /\ verdict'.res = res /\ verdict'.op = op
  BY <1>1, ReturnFits DEF Fail
<1>4. op' = IF op = "late" THEN "done" ELSE "free"
  BY DEF Fail
<1> QED
  BY <1>2, <1>3, <1>4 DEF Broken

LEMMA ZeroFits == 0 \in 0..MaxGo /\ 0 \in 0..Horizon
  BY BoundsAssumption, HorizonIsNat

LEMMA SearchStep == ASSUME ProcessInv, Search PROVE ProcessInv'
<1>0. Begin("search")
  BY DEF Search
<1>1. ProcessTypeOK'
  <2>1. go' \in 0..MaxGo
    BY BoundsAssumption DEF Search, ProcessTypeOK, ProcessInv
  <2>2. job' \in {"idle", "think", "ponder"} /\ op' \in Reading
    BY DEF Search, Begin, ProcessTypeOK, Reading, ProcessInv
  <2> QED
    BY <1>0, <2>1, <2>2, AgedLines, HorizonIsNat DEF Search, ProcessTypeOK, ProcessInv
<1>2. Sound'
  BY <1>0, AgedLines DEF Search, Sound, Broken, Reading, ProcessInv
<1>3. Owed'
  BY <1>0, AgedLines, BeginKeeps DEF Search, Owed, Sound, NoneOut, Broken, Reading, ProcessInv
<1>4. InOrder'
  BY <1>0, BeginKeeps DEF ProcessInv
<1>5. EofIsTrue'
  BY <1>0, AgedLines DEF Search, EofIsTrue, Lines, ProcessInv
<1> QED
  BY <1>1, <1>2, <1>3, <1>4, <1>5 DEF ProcessInv

LEMMA DrainPonderStep == ASSUME ProcessInv, DrainPonder PROVE ProcessInv'
<1>0. Begin("drain")
  BY DEF DrainPonder
<1>1. ProcessTypeOK'
  BY <1>0, AgedLines, ZeroFits, HorizonIsNat DEF DrainPonder, ProcessTypeOK, Reading, engine, ProcessInv
<1>2. Sound'
  BY <1>0, AgedLines DEF DrainPonder, Sound, Broken, Reading, engine, ProcessInv
<1>3. Owed'
  BY <1>0, AgedLines, BeginKeeps DEF DrainPonder, Owed, Sound, NoneOut, Broken, Reading, engine, ProcessInv
<1>4. InOrder'
  BY <1>0, BeginKeeps DEF ProcessInv
<1>5. EofIsTrue'
  BY <1>0, AgedLines DEF DrainPonder, EofIsTrue, Lines, engine, ProcessInv
<1> QED
  BY <1>1, <1>2, <1>3, <1>4, <1>5 DEF ProcessInv

LEMMA PonderhitStep == ASSUME ProcessInv, Ponderhit PROVE ProcessInv'
<1>0. Begin("ponderhit")
  BY DEF Ponderhit
<1>1. ProcessTypeOK'
  BY <1>0, AgedLines, ZeroFits, HorizonIsNat DEF Ponderhit, ProcessTypeOK, Reading, ProcessInv
<1>2. Sound'
  BY <1>0, AgedLines DEF Ponderhit, Sound, Broken, Reading, ProcessInv
<1>3. Owed'
  BY <1>0, AgedLines, BeginKeeps DEF Ponderhit, Owed, Sound, NoneOut, Broken, Reading, ProcessInv
<1>4. InOrder'
  BY <1>0, BeginKeeps DEF ProcessInv
<1>5. EofIsTrue'
  BY <1>0, AgedLines DEF Ponderhit, EofIsTrue, Lines, ProcessInv
<1> QED
  BY <1>1, <1>2, <1>3, <1>4, <1>5 DEF ProcessInv

LEMMA StopPonderStep == ASSUME ProcessInv, StopPonder PROVE ProcessInv'
<1>0. Begin("stop")
  BY DEF StopPonder
<1>1. ProcessTypeOK'
  BY <1>0, AgedLines, ZeroFits, HorizonIsNat DEF StopPonder, ProcessTypeOK, Reading, engine, ProcessInv
<1>2. Sound'
  BY <1>0, AgedLines DEF StopPonder, Sound, Broken, Reading, engine, ProcessInv
<1>3. Owed'
  BY <1>0, AgedLines, BeginKeeps DEF StopPonder, Owed, Sound, NoneOut, Broken, Reading, engine, ProcessInv
<1>4. InOrder'
  BY <1>0, BeginKeeps DEF ProcessInv
<1>5. EofIsTrue'
  BY <1>0, AgedLines DEF StopPonder, EofIsTrue, Lines, engine, ProcessInv
<1> QED
  BY <1>1, <1>2, <1>3, <1>4, <1>5 DEF ProcessInv

LEMMA IsReadyStep == ASSUME ProcessInv, IsReady PROVE ProcessInv'
<1>0. Begin("ready")
  BY DEF IsReady
<1>1. ProcessTypeOK'
  BY <1>0, AgedLines, ZeroFits, HorizonIsNat DEF IsReady, ProcessTypeOK, Reading, ProcessInv
<1>2. Sound'
  BY <1>0, AgedLines DEF IsReady, Sound, Broken, Reading, ProcessInv
<1>3. Owed'
  BY <1>0, AgedLines, BeginKeeps DEF IsReady, Owed, Sound, NoneOut, Broken, Reading, ProcessInv
<1>4. InOrder'
  BY <1>0, BeginKeeps DEF ProcessInv
<1>5. EofIsTrue'
  BY <1>0, AgedLines DEF IsReady, EofIsTrue, Lines, ProcessInv
<1> QED
  BY <1>1, <1>2, <1>3, <1>4, <1>5 DEF ProcessInv

LEMMA QuitStep == ASSUME ProcessInv, Quit PROVE ProcessInv'
<1>0. Begin("quit")
  BY DEF Quit
<1>1. ProcessTypeOK'
  BY <1>0, AgedLines, ZeroFits, HorizonIsNat DEF Quit, ProcessTypeOK, Reading, engine, ProcessInv
<1>2. Sound'
  BY <1>0, AgedLines DEF Quit, Sound, Broken, Reading, engine, ProcessInv
<1>3. Owed'
  BY <1>0, AgedLines, BeginKeeps DEF Quit, Owed, Sound, NoneOut, Broken, Reading, engine, ProcessInv
<1>4. InOrder'
  BY <1>0, BeginKeeps DEF ProcessInv
<1>5. EofIsTrue'
  BY <1>0, AgedLines DEF Quit, EofIsTrue, Lines, engine, ProcessInv
<1> QED
  BY <1>1, <1>2, <1>3, <1>4, <1>5 DEF ProcessInv

LEMMA StartPonderStep == ASSUME ProcessInv, StartPonder PROVE ProcessInv'
<1>1. ProcessTypeOK'
  <2>1. go' \in 0..MaxGo
    BY BoundsAssumption DEF StartPonder, ProcessTypeOK, ProcessInv
  <2>2. job' \in {"idle", "think", "ponder"} /\ early' \in 0..MaxGo
    BY ZeroFits DEF StartPonder, ProcessTypeOK, ProcessInv
  <2> QED
    BY <2>1, <2>2 DEF StartPonder, thread, ProcessTypeOK, ProcessInv
<1>2. Sound'
  BY DEF StartPonder, Sound, Broken, Reading, thread, ProcessInv
<1>3. Owed'
  BY DEF StartPonder, Owed, OneOut, NoneOut, Moves, Lines, Sound, Broken, Reading, thread, ProcessInv
<1>4. InOrder'
  BY DEF StartPonder, InOrder, Timed, Reading, Lines, thread, ProcessInv
<1>5. EofIsTrue'
  BY DEF StartPonder, EofIsTrue, Lines, thread, ProcessInv
<1> QED
  BY <1>1, <1>2, <1>3, <1>4, <1>5 DEF ProcessInv

LEMMA DropDrainStep == ASSUME ProcessInv, DropDrain PROVE ProcessInv'
<1>1. ProcessTypeOK'
  BY ZeroFits DEF DropDrain, ProcessTypeOK, Reading, engine, thread, ProcessInv
<1>2. Sound'
  BY DEF DropDrain, Sound, Broken, Reading, engine, thread, ProcessInv
<1>3. Owed'
  BY DEF DropDrain, Owed, OneOut, NoneOut, Moves, Lines, Sound, Broken, Reading, engine, thread, ProcessInv
<1>4. InOrder'
  BY DEF DropDrain, InOrder, Timed, Reading, Lines, engine, thread, ProcessInv
<1>5. EofIsTrue'
  BY DEF DropDrain, EofIsTrue, Lines, engine, thread, ProcessInv
<1> QED
  BY <1>1, <1>2, <1>3, <1>4, <1>5 DEF ProcessInv

LEMMA PonderhitEarlyStep == ASSUME ProcessInv, PonderhitEarly PROVE ProcessInv'
<1>1. ProcessTypeOK'
  BY ZeroFits DEF PonderhitEarly, ProcessTypeOK, Reading, Verdict, ErrorKind, engine, thread, ProcessInv
<1>2. Sound'
  BY DEF PonderhitEarly, Sound, Broken, Reading, engine, thread, ProcessInv
<1>3. Owed'
  BY DEF PonderhitEarly, Owed, OneOut, NoneOut, Moves, Lines, Sound, Broken, Reading, engine, thread, ProcessInv
<1>4. InOrder'
  BY DEF PonderhitEarly, InOrder, Timed, Reading, Lines, engine, thread, ProcessInv
<1>5. EofIsTrue'
  BY DEF PonderhitEarly, EofIsTrue, Lines, engine, thread, ProcessInv
<1> QED
  BY <1>1, <1>2, <1>3, <1>4, <1>5 DEF ProcessInv

LEMMA StopPonderEarlyStep == ASSUME ProcessInv, StopPonderEarly PROVE ProcessInv'
<1>1. ProcessTypeOK'
  BY ZeroFits DEF StopPonderEarly, ProcessTypeOK, Reading, Verdict, ErrorKind, engine, thread, ProcessInv
<1>2. Sound'
  BY DEF StopPonderEarly, Sound, Broken, Reading, engine, thread, ProcessInv
<1>3. Owed'
  BY DEF StopPonderEarly, Owed, OneOut, NoneOut, Moves, Lines, Sound, Broken, Reading, engine, thread, ProcessInv
<1>4. InOrder'
  BY DEF StopPonderEarly, InOrder, Timed, Reading, Lines, engine, thread, ProcessInv
<1>5. EofIsTrue'
  BY DEF StopPonderEarly, EofIsTrue, Lines, engine, thread, ProcessInv
<1> QED
  BY <1>1, <1>2, <1>3, <1>4, <1>5 DEF ProcessInv

LEMMA SendFailsStep == ASSUME ProcessInv, SendFails PROVE ProcessInv'
<1>1. ProcessTypeOK'
  BY ZeroFits DEF SendFails, ProcessTypeOK, Reading, Verdict, ErrorKind, engine, thread, CanFail, ProcessInv
<1>2. Sound'
  BY DEF SendFails, Sound, Broken, Reading, engine, thread, CanFail, ProcessInv
<1>3. Owed'
  BY DEF SendFails, Owed, OneOut, NoneOut, Moves, Lines, Sound, Broken, Reading, engine, thread, CanFail, ProcessInv
<1>4. InOrder'
  BY DEF SendFails, InOrder, Timed, Reading, Lines, engine, thread, CanFail, ProcessInv
<1>5. EofIsTrue'
  BY DEF SendFails, EofIsTrue, Lines, engine, thread, CanFail, ProcessInv
<1> QED
  BY <1>1, <1>2, <1>3, <1>4, <1>5 DEF ProcessInv

LEMMA KillStep == ASSUME ProcessInv, Kill PROVE ProcessInv'
<1>1. ProcessTypeOK'
  <2>1. alive' = FALSE /\ job' = "idle" /\ pings' = 0
    BY DEF Kill
  <2>2. alive' \in BOOLEAN
    BY <2>1, Zenon
  <2>3. pings' \in 0..1
    BY <2>1
  <2> QED
    BY <2>1, <2>2, <2>3 DEF Kill, thread, ProcessTypeOK, ProcessInv
<1>2. Sound'
  BY DEF Kill, Sound, Broken, Reading, thread, ProcessInv
<1>3. Owed'
  BY DEF Kill, Owed, OneOut, NoneOut, Moves, Lines, Sound, Broken, Reading, thread, ProcessInv
<1>4. InOrder'
  BY DEF Kill, InOrder, Timed, Reading, Lines, thread, ProcessInv
<1>5. EofIsTrue'
  BY DEF Kill, EofIsTrue, Lines, thread, ProcessInv
<1> QED
  BY <1>1, <1>2, <1>3, <1>4, <1>5 DEF ProcessInv

LEMMA QuitReturnsStep == ASSUME ProcessInv, QuitReturns PROVE ProcessInv'
<1>1. ProcessTypeOK'
  <2>1. alive' = FALSE /\ job' = "idle" /\ pings' = 0
    BY DEF QuitReturns
  <2>2. alive' \in BOOLEAN
    BY <2>1, Zenon
  <2>3. pings' \in 0..1
    BY <2>1
  <2> QED
    BY <2>1, <2>2, <2>3 DEF QuitReturns, thread, ProcessTypeOK, ProcessInv
<1>2. Sound'
  BY DEF QuitReturns, Sound, Broken, Reading, thread, ProcessInv
<1>3. Owed'
  BY DEF QuitReturns, Owed, OneOut, NoneOut, Moves, Lines, Sound, Broken, Reading, thread, ProcessInv
<1>4. InOrder'
  BY DEF QuitReturns, InOrder, Timed, Reading, Lines, thread, ProcessInv
<1>5. EofIsTrue'
  BY DEF QuitReturns, EofIsTrue, Lines, thread, ProcessInv
<1> QED
  BY <1>1, <1>2, <1>3, <1>4, <1>5 DEF ProcessInv

LEMMA EngineExitsStep == ASSUME ProcessInv, EngineExits PROVE ProcessInv'
<1>1. ProcessTypeOK'
  <2>1. alive' = FALSE /\ job' = "idle" /\ pings' = 0
    BY DEF EngineExits
  <2>2. alive' \in BOOLEAN
    BY <2>1, Zenon
  <2>3. pings' \in 0..1
    BY <2>1
  <2> QED
    BY <2>1, <2>2, <2>3 DEF EngineExits, thread, task, ProcessTypeOK, ProcessInv
<1>2. Sound'
  BY DEF EngineExits, Sound, Broken, Reading, thread, task, ProcessInv
<1>3. Owed'
  BY DEF EngineExits, Owed, OneOut, NoneOut, Moves, Lines, Sound, Broken, Reading, thread, task, ProcessInv
<1>4. InOrder'
  BY DEF EngineExits, InOrder, Timed, Reading, Lines, thread, task, ProcessInv
<1>5. EofIsTrue'
  BY DEF EngineExits, EofIsTrue, Lines, thread, task, ProcessInv
<1> QED
  BY <1>1, <1>2, <1>3, <1>4, <1>5 DEF ProcessInv

LEMMA TickStep == ASSUME ProcessInv, Tick PROVE ProcessInv'
<1>1. ProcessTypeOK'
  <2>1. t' \in 0..Horizon
    BY HorizonIsNat DEF Tick, ProcessTypeOK, ProcessInv
  <2> QED
    BY <2>1 DEF Tick, engine, thread, ProcessTypeOK, ProcessInv
<1>2. Sound'
  BY DEF Tick, Sound, Broken, Reading, engine, thread, ProcessInv
<1>3. Owed'
  BY DEF Tick, Owed, OneOut, NoneOut, Moves, Lines, Sound, Broken, Reading, engine, thread, ProcessInv
<1>4. InOrder'
  <2> SUFFICES ASSUME Timed' PROVE InOrder'
    BY DEF InOrder
  <2>1. /\ Timed /\ Lines' = Lines /\ t' = t + 1 /\ t \in Int
        /\ UNCHANGED <<lines, held>>
    BY HorizonIsNat DEF Tick, thread, Timed, Lines, ProcessTypeOK, ProcessInv
  <2>2. (\A i \in Lines : lines[i].at \in Int) /\ held.at \in Int
    BY LineIsEvent, HorizonIsNat, NoneIsNoEvent DEF Event, ProcessTypeOK, ProcessInv
  <2> QED
    BY <2>1, <2>2 DEF InOrder, ProcessInv
<1>5. EofIsTrue'
  BY DEF Tick, EofIsTrue, Lines, engine, thread, ProcessInv
<1> QED
  BY <1>1, <1>2, <1>3, <1>4, <1>5 DEF ProcessInv

LEMMA ReadBestmoveStep == ASSUME ProcessInv, ReadBestmove PROVE ProcessInv'
<1>1. ProcessTypeOK'
  BY PoppedLines, ReturnFits, FailFits, ZeroFits DEF ReadBestmove, ProcessTypeOK, Waiting, ErrorKind, Reading, Event, engine, thread, ProcessInv
<1>2. Sound'
  BY FailFits DEF ReadBestmove, Sound, Broken, Reading, Return, Waiting, engine, thread, ProcessInv
<1>3. Owed'
  BY PopKeeps, FailFits DEF ReadBestmove, Owed, Sound, Broken, Reading, Return, Waiting, engine, thread, ProcessInv
<1>4. InOrder'
  BY PopInOrder DEF ReadBestmove, Timed, Reading, Waiting, engine, thread, ProcessInv
<1>5. EofIsTrue'
  BY PoppedLines DEF ReadBestmove, EofIsTrue, Lines, engine, thread, ProcessInv
<1> QED
  BY <1>1, <1>2, <1>3, <1>4, <1>5 DEF ProcessInv

LEMMA ReadReadyokStep == ASSUME ProcessInv, ReadReadyok PROVE ProcessInv'
<1>1. ProcessTypeOK'
  <2>1. lines' \in Seq(Event)
    BY PoppedLines DEF ReadReadyok, ProcessInv
  <2>2. op' \in {"free"} \cup Reading /\ verdict' \in Verdict
    BY ReturnFits, ZeroFits DEF ReadReadyok, Waiting, ProcessTypeOK, ProcessInv
  <2> QED
    BY <2>1, <2>2 DEF ReadReadyok, engine, thread, ProcessTypeOK, ProcessInv
<1>2. Sound'
  BY FailFits DEF ReadReadyok, Sound, Broken, Reading, Return, Waiting, engine, thread, ProcessInv
<1>3. Owed'
  BY PopKeeps, FailFits DEF ReadReadyok, Owed, Sound, Broken, Reading, Return, Waiting, engine, thread, ProcessInv
<1>4. InOrder'
  BY PopInOrder DEF ReadReadyok, Timed, Reading, Waiting, engine, thread, ProcessInv
<1>5. EofIsTrue'
  BY PoppedLines DEF ReadReadyok, EofIsTrue, Lines, engine, thread, ProcessInv
<1> QED
  BY <1>1, <1>2, <1>3, <1>4, <1>5 DEF ProcessInv

LEMMA ReadInfoStep == ASSUME ProcessInv, ReadInfo PROVE ProcessInv'
<1>1. ProcessTypeOK'
  BY PoppedLines, ReturnFits, FailFits, ZeroFits DEF ReadInfo, ProcessTypeOK, Waiting, ErrorKind, Reading, Event, engine, thread, ProcessInv
<1>2. Sound'
  BY FailFits DEF ReadInfo, Sound, Broken, Reading, Return, Waiting, engine, thread, ProcessInv
<1>3. Owed'
  BY PopKeeps, FailFits DEF ReadInfo, Owed, Sound, Broken, Reading, Return, Waiting, engine, thread, ProcessInv
<1>4. InOrder'
  BY PopInOrder DEF ReadInfo, Timed, Reading, Waiting, engine, thread, ProcessInv
<1>5. EofIsTrue'
  BY PoppedLines DEF ReadInfo, EofIsTrue, Lines, engine, thread, ProcessInv
<1> QED
  BY <1>1, <1>2, <1>3, <1>4, <1>5 DEF ProcessInv

LEMMA ReadLateStep == ASSUME ProcessInv, ReadLate PROVE ProcessInv'
<1>1. ProcessTypeOK'
  BY PoppedLines, ReturnFits, FailFits, ZeroFits DEF ReadLate, ProcessTypeOK, Waiting, ErrorKind, Reading, Event, engine, thread, ProcessInv
<1>2. Sound'
  BY FailFits DEF ReadLate, Sound, Broken, Reading, Return, Waiting, engine, thread, Fail, ProcessInv
<1>3. Owed'
  BY PopKeeps, FailFits DEF ReadLate, Owed, Sound, Broken, Reading, Return, Waiting, engine, thread, Fail, ProcessInv
<1>4. InOrder'
  BY PopInOrder DEF ReadLate, Timed, Reading, Waiting, engine, thread, Fail, ProcessInv
<1>5. EofIsTrue'
  BY PoppedLines DEF ReadLate, EofIsTrue, Lines, engine, thread, Fail, ProcessInv
<1> QED
  BY <1>1, <1>2, <1>3, <1>4, <1>5 DEF ProcessInv

LEMMA ReadOverlongStep == ASSUME ProcessInv, ReadOverlong PROVE ProcessInv'
<1>1. ProcessTypeOK'
  BY PoppedLines, ReturnFits, FailFits, ZeroFits DEF ReadOverlong, ProcessTypeOK, Waiting, ErrorKind, Reading, Event, engine, thread, ProcessInv
<1>2. Sound'
  BY FailFits DEF ReadOverlong, Sound, Broken, Reading, Return, Waiting, engine, thread, Fail, ProcessInv
<1>3. Owed'
  BY PopKeeps, FailFits DEF ReadOverlong, Owed, Sound, Broken, Reading, Return, Waiting, engine, thread, Fail, ProcessInv
<1>4. InOrder'
  BY PopInOrder DEF ReadOverlong, Timed, Reading, Waiting, engine, thread, Fail, ProcessInv
<1>5. EofIsTrue'
  BY PoppedLines DEF ReadOverlong, EofIsTrue, Lines, engine, thread, Fail, ProcessInv
<1> QED
  BY <1>1, <1>2, <1>3, <1>4, <1>5 DEF ProcessInv

LEMMA EndedFits ==
  ASSUME ProcessTypeOK, Waiting, NEW res \in ErrorKind, Ended(res)
  PROVE  /\ verdict' \in Verdict
         /\ \/ op = "drain" /\ op' = "parked" /\ UNCHANGED verdict
            \/ op = "late" /\ op' = "done" /\ UNCHANGED verdict
            \/ op \notin {"drain", "late"} /\ op' = "free" /\ Broken' /\ verdict'.res = res
<1>1. CASE op = "drain"
  BY <1>1 DEF Ended, ProcessTypeOK
<1>2. CASE op = "late"
  BY <1>2 DEF Ended, ProcessTypeOK
<1>3. CASE op \notin {"drain", "late"}
  <2>1. Fail(res)
    BY <1>3, Zenon DEF Ended
  <2> QED
    BY <1>3, <2>1, FailFits DEF Waiting
<1> QED
  BY <1>1, <1>2, <1>3

LEMMA ReadEofStep == ASSUME ProcessInv, ReadEof PROVE ProcessInv'
<1>1. ProcessTypeOK'
  BY PoppedLines, EndedFits DEF ReadEof, ProcessTypeOK, ErrorKind, engine, thread, ProcessInv
<1>2. Sound'
  BY EndedFits DEF ReadEof, Sound, Broken, Reading, ErrorKind, ProcessInv
<1>3. Owed'
  BY PopKeeps, EndedFits DEF ReadEof, Owed, OneOut, NoneOut, Moves, Lines, Sound, Broken, Reading, Waiting, ErrorKind, engine, thread, ProcessInv
<1>4. InOrder'
  BY PopInOrder, EndedFits DEF ReadEof, InOrder, Lines, Timed, Reading, Waiting, ErrorKind, thread, ProcessInv
<1>5. EofIsTrue'
  BY PoppedLines DEF ReadEof, EofIsTrue, Lines, engine, thread, ProcessInv
<1> QED
  BY <1>1, <1>2, <1>3, <1>4, <1>5 DEF ProcessInv

LEMMA TimerFiresStep == ASSUME ProcessInv, TimerFires PROVE ProcessInv'
<1>1. ProcessTypeOK'
  BY EndedFits DEF TimerFires, ProcessTypeOK, ErrorKind, engine, thread, ProcessInv
<1>2. Sound'
  BY EndedFits DEF TimerFires, Sound, Broken, Reading, ErrorKind, ProcessInv
<1>3. Owed'
  BY EndedFits DEF TimerFires, Owed, OneOut, NoneOut, Moves, Lines, Sound, Broken, Reading, Waiting, ErrorKind, engine, thread, ProcessInv
<1>4. InOrder'
  BY EndedFits DEF TimerFires, InOrder, Lines, Timed, Reading, Waiting, ErrorKind, thread, ProcessInv
<1>5. EofIsTrue'
  BY DEF TimerFires, EofIsTrue, Lines, engine, thread, ProcessInv
<1> QED
  BY <1>1, <1>2, <1>3, <1>4, <1>5 DEF ProcessInv

LEMMA AwaitLateStep == ASSUME ProcessInv, AwaitLate PROVE ProcessInv'
<1>1. ProcessTypeOK'
  <2>1. CASE Begin("late")
    BY <2>1, AgedLines, HorizonIsNat DEF AwaitLate, ProcessTypeOK, Reading, engine, ProcessInv
  <2>2. CASE op' = "done" /\ UNCHANGED <<held, lines, t>>
    BY <2>2 DEF AwaitLate, ProcessTypeOK, engine, ProcessInv
  <2> QED
    BY <2>1, <2>2 DEF AwaitLate
<1>2. Sound'
  BY AgedLines DEF AwaitLate, Sound, Broken, Reading, ProcessInv
<1>3. Owed'
  BY AgedLines DEF AwaitLate, Owed, ProcessInv
<1>4. InOrder'
  <2>1. CASE Begin("late")
    BY <2>1, BeginKeeps DEF ProcessInv
  <2>2. CASE op' = "done"
    BY <2>2 DEF InOrder, Timed, Reading
  <2> QED
    BY <2>1, <2>2 DEF AwaitLate
<1>5. EofIsTrue'
  <2>1. CASE Begin("late")
    BY <2>1, AgedLines DEF AwaitLate, EofIsTrue, Lines, engine, ProcessInv
  <2>2. CASE UNCHANGED <<held, lines, t>>
    BY <2>2 DEF AwaitLate, EofIsTrue, Lines, engine, ProcessInv
  <2> QED
    BY <2>1, <2>2 DEF AwaitLate
<1> QED
  BY <1>1, <1>2, <1>3, <1>4, <1>5 DEF ProcessInv

LEMMA EngineMovesStep == ASSUME ProcessInv, EngineMoves PROVE ProcessInv'
<1>1. ProcessTypeOK'
  BY StampedEvent DEF EngineMoves, ProcessTypeOK, task, ProcessInv
<1>2. Sound'
  BY DEF EngineMoves, Sound, Broken, Reading, task, ProcessInv
<1>3. Owed'
  BY StampedEvent DEF EngineMoves, Owed, OneOut, NoneOut, Moves, Lines, Broken, Writes, task, ProcessInv
<1>4. InOrder'
  BY StampInOrder DEF EngineMoves, task, ProcessInv
<1>5. EofIsTrue'
  BY StampedEvent DEF EngineMoves, EofIsTrue, Lines, Writes, task, ProcessInv
<1> QED
  BY <1>1, <1>2, <1>3, <1>4, <1>5 DEF ProcessInv

LEMMA EngineReadyStep == ASSUME ProcessInv, EngineReady PROVE ProcessInv'
<1>1. ProcessTypeOK'
  BY StampedEvent DEF EngineReady, ProcessTypeOK, task, ProcessInv
<1>2. Sound'
  BY DEF EngineReady, Sound, Broken, Reading, task, ProcessInv
<1>3. Owed'
  BY StampedEvent DEF EngineReady, Owed, OneOut, NoneOut, Moves, Lines, Broken, Writes, task, ProcessInv
<1>4. InOrder'
  BY StampInOrder DEF EngineReady, task, ProcessInv
<1>5. EofIsTrue'
  BY StampedEvent DEF EngineReady, EofIsTrue, Lines, Writes, task, ProcessInv
<1> QED
  BY <1>1, <1>2, <1>3, <1>4, <1>5 DEF ProcessInv

LEMMA EngineNoiseStep == ASSUME ProcessInv, EngineNoise PROVE ProcessInv'
<1>1. ProcessTypeOK'
  <2>1. noise' \in 0..MaxNoise
    BY BoundsAssumption DEF EngineNoise, ProcessTypeOK, ProcessInv
  <2> QED
    BY <2>1, StampedEvent DEF EngineNoise, ProcessTypeOK, task, ProcessInv
<1>2. Sound'
  BY DEF EngineNoise, Sound, Broken, Reading, task, ProcessInv
<1>3. Owed'
  BY StampedEvent DEF EngineNoise, Owed, OneOut, NoneOut, Moves, Lines, Broken, Writes, task, ProcessInv
<1>4. InOrder'
  BY StampInOrder DEF EngineNoise, task, ProcessInv
<1>5. EofIsTrue'
  BY StampedEvent DEF EngineNoise, EofIsTrue, Lines, Writes, task, ProcessInv
<1> QED
  BY <1>1, <1>2, <1>3, <1>4, <1>5 DEF ProcessInv

LEMMA ReaderMeetsEofStep == ASSUME ProcessInv, ReaderMeetsEof PROVE ProcessInv'
<1>1. ProcessTypeOK'
  BY StampedEvent DEF ReaderMeetsEof, ProcessTypeOK, engine, task, ProcessInv
<1>2. Sound'
  BY DEF ReaderMeetsEof, Sound, Broken, Reading, engine, task, ProcessInv
<1>3. Owed'
  BY StampedEvent DEF ReaderMeetsEof, Owed, OneOut, NoneOut, Moves, Lines, Broken, engine, task, ProcessInv
<1>4. InOrder'
  BY StampInOrder DEF ReaderMeetsEof, engine, task, ProcessInv
<1>5. EofIsTrue'
  BY StampedEvent DEF ReaderMeetsEof, EofIsTrue, Lines, engine, task, ProcessInv
<1> QED
  BY <1>1, <1>2, <1>3, <1>4, <1>5 DEF ProcessInv

LEMMA ReaderSendsStep == ASSUME ProcessInv, ReaderSends PROVE ProcessInv'
<1>1. ProcessTypeOK'
  BY SentLine DEF ReaderSends, ProcessTypeOK, engine, ProcessInv
<1>2. Sound'
  BY DEF ReaderSends, Sound, Broken, Reading, ProcessInv
<1>3. Owed'
  <2>1. NoneOut => NoneOut'
    BY SentLine, NoneIsNoEvent DEF ReaderSends, NoneOut, Moves, engine, ProcessInv
  <2>2. OneOut => OneOut'
    BY SentLine, NoneIsNoEvent DEF ReaderSends, OneOut, Moves, engine, ProcessInv
  <2> QED
    BY <2>1, <2>2 DEF ReaderSends, Owed, Broken, ProcessInv
<1>4. InOrder'
  <2> SUFFICES ASSUME Timed' PROVE InOrder'
    BY DEF InOrder
  <2>1. /\ Timed /\ held # None /\ held' = None /\ UNCHANGED t
        /\ Lines \subseteq Int /\ Len(lines) \in Nat
    BY DEF ReaderSends, Timed, Lines, ProcessTypeOK, ProcessInv
  <2>2. \A i \in Lines' : \/ i \in Lines /\ lines'[i] = lines[i]
                          \/ i = Len(lines) + 1 /\ lines'[i] = held
    BY SentLine DEF ReaderSends, ProcessInv
  <2>3. held.at \in Int /\ t \in Nat /\ held.at <= held.at
    BY <2>1, HorizonIsNat DEF Event, ProcessTypeOK, ProcessInv
  <2>4. \A i, j \in Lines' : i < j => lines'[i].at <= lines'[j].at
    BY <2>1, <2>2, <2>3 DEF InOrder, Lines, ProcessInv
  <2>5. \A i \in Lines' : lines'[i].at <= t
    BY <2>1, <2>2 DEF InOrder, ProcessInv
  <2> QED
    BY <2>1, <2>3, <2>4, <2>5, NoneIsNoEvent DEF InOrder
<1>5. EofIsTrue'
  BY SentLine, NoneIsNoEvent DEF ReaderSends, EofIsTrue, engine, ProcessInv
<1> QED
  BY <1>1, <1>2, <1>3, <1>4, <1>5 DEF ProcessInv

LEMMA ProcessInitInv == ProcessInit => ProcessInv
<1> SUFFICES ASSUME ProcessInit PROVE ProcessInv
  OBVIOUS
<1>1. ProcessTypeOK
  <2>1. alive \in BOOLEAN
    BY DEF ProcessInit
  <2>2. noise \in 0..MaxNoise /\ go \in 0..MaxGo /\ early \in 0..MaxGo /\ t \in 0..Horizon
        /\ pings \in 0..1
    BY BoundsAssumption, HorizonIsNat DEF ProcessInit
  <2>3. lines \in Seq(Event) /\ verdict \in Verdict
    BY ZeroFits DEF ProcessInit, Verdict
  <2> QED
    BY <2>1, <2>2, <2>3 DEF ProcessInit, ProcessTypeOK
<1>2. Lines = {}
  BY DEF ProcessInit, Lines
<1>3. Sound /\ Owed /\ EofIsTrue
  BY <1>2, NoneIsNoEvent DEF ProcessInit, Sound, Broken, Owed, NoneOut, EofIsTrue, Reading
<1>4. InOrder
  BY DEF ProcessInit, InOrder, Timed, Reading
<1> QED
  BY <1>1, <1>3, <1>4 DEF ProcessInv

LEMMA ProcessNextInv == ProcessInv /\ [ProcessNext]_processVars => ProcessInv'
<1> SUFFICES ASSUME ProcessInv, [ProcessNext]_processVars PROVE ProcessInv'
  OBVIOUS
<1>1. CASE Calls
  BY <1>1, SearchStep, StartPonderStep, DrainPonderStep, DropDrainStep, PonderhitEarlyStep,
     PonderhitStep, StopPonderEarlyStep, StopPonderStep, IsReadyStep, AwaitLateStep,
     SendFailsStep, QuitStep, KillStep DEF Calls
<1>2. CASE Reads
  BY <1>2, ReadBestmoveStep, ReadReadyokStep, ReadInfoStep, ReadLateStep, ReadOverlongStep,
     ReadEofStep, TimerFiresStep, QuitReturnsStep DEF Reads
<1>3. CASE Engine \/ Reader
  BY <1>3, EngineMovesStep, EngineReadyStep, EngineNoiseStep, EngineExitsStep,
     ReaderSendsStep, ReaderMeetsEofStep DEF Engine, Reader
<1>4. CASE UNCHANGED processVars
  BY <1>4 DEF processVars, engine, thread, task, ProcessInv, ProcessTypeOK, Sound, Broken, Owed, NoneOut,
     OneOut, Moves, Lines, InOrder, Timed, EofIsTrue
<1> QED
  BY <1>1, <1>2, <1>3, <1>4, TickStep DEF ProcessNext

LEMMA ProcessCorrect == ProcessSpec => []ProcessInv
  BY ProcessInitInv, ProcessNextInv, PTL DEF ProcessSpec

-----------------------------------------------------------------------------
(* The theorems. *)

\* Between two calls that went well the engine owes no bestmove and none is in
\* the pipe, the channel or ponder_early, where the next search or the next
\* game of a kept engine would take it for its own.
THEOREM QuietTheorem == ProcessSpec => []QuietWhenFree
<1>1. ProcessInv => QuietWhenFree
  BY DEF ProcessInv, Owed, NoneOut, Lines, Moves, QuietWhenFree
<1> QED
  BY <1>1, ProcessCorrect, PTL

\* search and ponderhit return the answer to the last `go`, although a bestmove
\* does not name its go and ponder searches answer one too.
THEOREM OwnAnswerTheorem == ProcessSpec => OwnAnswer
<1>1. ProcessInv /\ [ProcessNext]_processVars =>
        [op' = "free" /\ verdict'.res = "ok" /\ verdict'.op \in {"search", "ponderhit"}
           /\ op \in {"search", "ponderhit", "drained"}
         => verdict'.go = go]_processVars
  <2> SUFFICES ASSUME ProcessInv, ProcessNext, op' = "free", verdict'.res = "ok",
                      verdict'.op \in {"search", "ponderhit"},
                      op \in {"search", "ponderhit", "drained"}
               PROVE  verdict'.go = go
    OBVIOUS
  <2>1. CASE PonderhitEarly
    BY <2>1 DEF PonderhitEarly, Owed, ProcessInv
  <2>2. CASE ReadBestmove
    <3>1. OneOut /\ Head(lines).kind = "bestmove" /\ verdict'.go = Head(lines).go
      BY <2>2 DEF ReadBestmove, Waiting, Reading, Return, Owed, ProcessInv
    <3> QED
      BY <2>2, <3>1, PopKeeps DEF ReadBestmove, engine, thread, ProcessInv
  <2>3. CASE StopPonderEarly \/ SendFails
    BY <2>3 DEF StopPonderEarly, SendFails
  <2>4. CASE ReadLate \/ ReadOverlong \/ ReadEof \/ TimerFires
    <3>1. op \in {"search", "ponderhit"}
      BY <2>4 DEF ReadLate, ReadOverlong, ReadEof, TimerFires, Waiting, Reading
    <3>2. \E res \in ErrorKind : Fail(res)
      BY <2>4, <3>1 DEF ReadLate, ReadOverlong, ReadEof, TimerFires, Ended, ErrorKind
    <3>3. verdict'.res # "ok"
      BY <3>1, <3>2, FailFits DEF Reading, ErrorKind
    <3> QED
      BY <3>3
  <2>5. CASE ReadReadyok \/ ReadInfo \/ QuitReturns
    BY <2>5 DEF ReadReadyok, ReadInfo, QuitReturns
  <2>6. CASE Engine \/ Reader \/ Tick
    BY <2>6 DEF Engine, Reader, EngineMoves, EngineReady, EngineNoise, EngineExits, task,
       ReaderSends, ReaderMeetsEof, Tick
  <2>7. CASE Search \/ StartPonder \/ DrainPonder \/ DropDrain \/ Ponderhit \/ StopPonder
             \/ IsReady \/ AwaitLate \/ Quit \/ Kill
    BY <2>7 DEF Search, StartPonder, DrainPonder, DropDrain, Ponderhit, StopPonder, IsReady,
       AwaitLate, Quit, Kill, Begin
  <2> QED
    BY <2>1, <2>2, <2>3, <2>4, <2>5, <2>6, <2>7 DEF ProcessNext, Calls, Reads
<1> QED
  BY <1>1, ProcessCorrect, PTL DEF ProcessSpec, OwnAnswer

\* read_line_until judges a line by its stamp: a search is lost on time only
\* with no answer stamped in time left in the channel, and is lost to a closed
\* pipe only when the engine is gone.
THEOREM JudgedByArrivalTheorem == ProcessSpec => JudgedByArrival
<1>1. ProcessInv /\ [ProcessNext]_processVars =>
        [op' = "free" /\ op \in {"search", "ponderhit"} => JudgedOn(verdict'.res)]_processVars
  <2> SUFFICES ASSUME ProcessInv, ProcessNext, op' = "free", op \in {"search", "ponderhit"}
               PROVE  JudgedOn(verdict'.res)
    OBVIOUS
  <2>0. op \in Reading /\ Timed /\ Until = Deadline
    BY DEF Reading, Timed, Until
  <2>1. CASE ReadBestmove
    <3>1. Head(lines).at <= Deadline /\ verdict'.res = "ok" /\ verdict'.elapsed = Head(lines).at
      <4>1. Head(lines).at \in Int
        <5>1. Head(lines) \in Event
          BY <2>1 DEF ReadBestmove, ProcessTypeOK, ProcessInv
        <5> QED
          BY <5>1, HorizonIsNat DEF Event
      <4>2. ~(Head(lines).at > Deadline)
        BY <2>0, <2>1 DEF ReadBestmove, Late
      <4>3. verdict'.res = "ok" /\ verdict'.elapsed = Head(lines).at
        BY <2>1 DEF ReadBestmove, Return
      <4> QED
        BY <4>1, <4>2, <4>3, DeadlineAssumption
    <3> QED
      BY <3>1 DEF JudgedOn
  <2>2. CASE ReadLate
    <3>1. Fail("timeout") /\ lines # <<>> /\ Head(lines).at > Deadline
      BY <2>0, <2>2 DEF ReadLate, Late
    <3>2. verdict'.res = "timeout"
      BY <2>0, <3>1, FailFits DEF ErrorKind
    <3>3. ASSUME NEW i \in Lines PROVE ~InTime(lines[i])
      <4>1. 1 \in Lines /\ Head(lines) = lines[1] /\ Lines \subseteq Int
        BY <3>1 DEF Lines, ProcessTypeOK, ProcessInv
      <4>2. i = 1 \/ 1 < i
        BY <4>1 DEF Lines
      <4>3. lines[1].at \in Int /\ lines[i].at \in Int
        BY <4>1, LineIsEvent, HorizonIsNat DEF Event, ProcessInv
      <4>4. lines[1].at <= lines[i].at
        BY <2>0, <4>1, <4>2, <4>3 DEF InOrder, ProcessInv
      <4> QED
        BY <3>1, <4>1, <4>3, <4>4, DeadlineAssumption DEF InTime
    <3> QED
      BY <3>2, <3>3 DEF JudgedOn, Lines
  <2>3. CASE ReadOverlong
    <3>1. Fail("protocol")
      BY <2>3 DEF ReadOverlong
    <3> QED
      BY <2>0, <3>1, FailFits DEF ErrorKind, JudgedOn
  <2>4. CASE ReadEof
    <3>1. Fail("terminated")
      BY <2>4 DEF ReadEof, Ended
    <3>2. ~alive
      BY <2>4 DEF ReadEof, EofIsTrue, Lines, ProcessTypeOK, ProcessInv
    <3> QED
      BY <2>0, <3>1, <3>2, FailFits DEF ErrorKind, JudgedOn
  <2>5. CASE TimerFires
    <3>1. Fail("timeout") /\ lines = <<>>
      BY <2>5 DEF TimerFires, Ended
    <3>2. 1..Len(lines) = {}
      BY <3>1
    <3> QED
      BY <2>0, <3>1, <3>2, FailFits DEF ErrorKind, JudgedOn
  <2>6. CASE ReadReadyok \/ ReadInfo \/ QuitReturns \/ Tick
    BY <2>6 DEF ReadReadyok, ReadInfo, QuitReturns, Tick
  <2>7. CASE Engine \/ Reader
    BY <2>7 DEF Engine, Reader, EngineMoves, EngineReady, EngineNoise, EngineExits, task,
       ReaderSends, ReaderMeetsEof
  <2>8. CASE Calls
    BY <2>8 DEF Calls, Search, StartPonder, DrainPonder, DropDrain, PonderhitEarly, Ponderhit,
       StopPonderEarly, StopPonder, IsReady, AwaitLate, SendFails, Quit, Kill
  <2> QED
    BY <2>1, <2>2, <2>3, <2>4, <2>5, <2>6, <2>7, <2>8 DEF ProcessNext, Reads
<1> QED
  BY <1>1, ProcessCorrect, PTL DEF ProcessSpec, JudgedByArrival

-----------------------------------------------------------------------------
(* The games of one slot.                                                  *)

InPlay == {"setup", "turn", "search", "arm"}

\* The engine owes a ponder exactly when the runner has noted one.
InStep(s) == (owes[s] = "ponder" <=> pred[s] # "none") /\ owes[s] # "think"

Books ==
    /\ pc \in {"between", "setup"} => \A s \in Side : owes[s] = "none"
    /\ pc = "setup" => \A s \in Side : pred[s] = "none"
    /\ pc \in {"turn", "arm"} => \A s \in Side : proc[s] = "up" => InStep(s)
    /\ pc = "search" =>
          /\ pred[mover] = "none" /\ (proc[mover] = "up" => owes[mover] # "ponder")
          /\ \A s \in Side \ {mover} : proc[s] = "up" => InStep(s)
    /\ pc = "over" => \A s \in Side :
          /\ s \in ended => owes[s] = "none"
          /\ s \notin ended /\ outcome.side # s /\ proc[s] = "up" => InStep(s)

Keeping ==
    /\ \A s \in Side : kept[s] => keep
    /\ pc = "setup" => \A s \in Side : kept[s] => prep[s] = "none"
    /\ pc \in {"turn", "search", "arm"} => \A s \in Side : ~kept[s]
    /\ pc = "over" =>
          /\ outcome.kind # "infrastructure"
          /\ \A s \in Side : /\ kept[s] => s \in ended /\ outcome.side # s
                             /\ s \in ended /\ proc[s] # "none" => kept[s]
    /\ OnlyFitEnginesStay

Blame ==
    /\ pc = "setup" => \A s \in Side : prep[s] = "failed" => s \in wrong
    /\ BlameIsEarned

\* The report is written once, when the game is decided.
Undecided == pc \in InPlay => ended = {} /\ outcome = NoReport

GameInv == TypeOK /\ Undecided /\ Books /\ Keeping /\ Blame
-----------------------------------------------------------------------------
(* What a report says. *)

LEMMA NoReportSays == NoReport \in Report /\ NoReport.side = NoOne /\ NoReport.kind = "none"
  BY DEF NoReport, Report, Result, Kind, NoOne

LEMMA NaturalSays ==
  ASSUME NEW result \in Result
  PROVE  Natural(result) \in Report /\ Natural(result).side = NoOne /\ Natural(result).kind = "none"
  BY DEF Natural, NoReport, Report, Result, Kind, NoOne

LEMMA AdjudicatedSays ==
  ASSUME NEW result \in Result
  PROVE  /\ Adjudicated(result) \in Report
         /\ Adjudicated(result).side = NoOne /\ Adjudicated(result).kind = "none"
  BY DEF Adjudicated, Natural, NoReport, Report, Result, Kind, NoOne

LEMMA EngineLossSays ==
  ASSUME NEW s \in Side, NEW kind \in FaultKind
  PROVE  /\ EngineLoss(s, kind) \in Report
         /\ EngineLoss(s, kind).side = s /\ EngineLoss(s, kind).kind = kind
         /\ EngineLoss(s, kind).result = Other(s)
  BY DEF EngineLoss, Natural, NoReport, Report, Result, Kind, FaultKind, NoOne, Side, Other

LEMMA InfrastructureSays ==
  /\ Infrastructure \in Report /\ Infrastructure.side = NoOne
  /\ Infrastructure.kind = "infrastructure" /\ ~Infrastructure.scorable
  BY DEF Infrastructure, NoReport, Report, Result, Kind, NoOne

LEMMA FlagFits ==
  ASSUME NEW flags \in [Side -> BOOLEAN], NEW s \in Side, NEW flag \in BOOLEAN
  PROVE  [flags EXCEPT ![s] = flag] \in [Side -> BOOLEAN]
  BY Zenon

LEMMA Sides == \A s \in Side : Other(s) \in Side /\ Other(s) # s /\ s # NoOne
  BY DEF Side, Other, NoOne

-----------------------------------------------------------------------------
(* The steps. *)

LEMMA NewGameTypes == ASSUME GameInv, NewGame PROVE TypeOK'
<1>1. clocks' \in [Side -> Nat]
  BY TimeAssumption DEF NewGame
<1>2. prep' \in [Side -> Prepared] /\ pred' \in [Side -> {"none", "pending", "hit", "miss"}]
  BY DEF NewGame, Prepared
<1>3. plies' \in Nat
  BY RulesAssumption DEF NewGame
<1>4. outcome' \in Report
  BY NoReportSays DEF NewGame
<1>5. kept' \in [Side -> BOOLEAN] /\ played' \in Nat /\ keep' \in BOOLEAN
  BY DEF NewGame, slot, GameInv, TypeOK
<1> QED
  BY <1>1, <1>2, <1>3, <1>4, <1>5 DEF NewGame, processes, GameInv, TypeOK

LEMMA RefreshKeptTypes == ASSUME GameInv, NEW s \in Side, RefreshKept(s) PROVE TypeOK'
<1>1. kept' \in [Side -> BOOLEAN]
  BY FlagFits DEF RefreshKept, GameInv, TypeOK
<1>2. prep' \in [Side -> Prepared]
  BY DEF RefreshKept, GameInv, TypeOK, Prepared
<1> QED
  BY <1>1, <1>2 DEF RefreshKept, board, processes, GameInv, TypeOK

LEMMA StartFreshTypes == ASSUME GameInv, NEW s \in Side, StartFresh(s) PROVE TypeOK'
<1>1. prep' \in [Side -> Prepared]
  BY DEF StartFresh, GameInv, TypeOK, Prepared
<1>2. proc' \in [Side -> {"none", "up", "dead"}]
  BY DEF StartFresh, GameInv, TypeOK
<1> QED
  BY <1>1, <1>2 DEF StartFresh, slot, board, GameInv, TypeOK

LEMMA SetupFailsReports == ASSUME GameInv, SetupFails
  PROVE /\ outcome' \in Report
        /\ \/ outcome' = Infrastructure /\ prep[Blamed] \in {"nospawn", "infrastructure"}
           \/ \E kind \in FaultKind : outcome' = EngineLoss(Blamed, kind) /\ prep[Blamed] = "failed"
        /\ Blamed \in Side
<1>1. Blamed \in Side
  BY DEF Blamed, Side
<1>2. prep[Blamed] \in {"failed", "nospawn", "infrastructure"}
  BY DEF SetupFails, Blamed, Failed, Side
<1>3. \/ outcome' = Infrastructure /\ prep[Blamed] \in {"nospawn", "infrastructure"}
      \/ \E kind \in FaultKind : outcome' = EngineLoss(Blamed, kind) /\ prep[Blamed] = "failed"
  BY <1>2 DEF SetupFails, SetupVerdict, FaultKind
<1> QED
  BY <1>1, <1>3, InfrastructureSays, EngineLossSays

LEMMA SetupFailsTypes == ASSUME GameInv, SetupFails PROVE TypeOK'
  BY SetupFailsReports DEF SetupFails, setup, GameInv, TypeOK

LEMMA MaxMovesStep == ASSUME GameInv, MaxMoves PROVE GameInv'
<1>1. outcome' = Natural("draw") /\ "draw" \in Result /\ pc' = "over"
  BY DEF MaxMoves, Decide, Result
<1>2. outcome' \in Report /\ outcome'.side = NoOne /\ outcome'.kind = "none"
  BY <1>1, NaturalSays
<1>3. TypeOK'
  BY <1>1, <1>2 DEF MaxMoves, processes, slot, setup, board, GameInv, TypeOK
<1>4. Undecided'
  BY <1>1 DEF Undecided, InPlay
<1>5. Books'
  BY <1>1, <1>2 DEF MaxMoves, GameInv, Books, Undecided, InPlay, processes, board, InStep
<1>6. Keeping'
  BY <1>1, <1>2 DEF MaxMoves, GameInv, Keeping, OnlyFitEnginesStay, Undecided, InPlay, processes, slot
<1>7. Blame'
  BY <1>1, <1>2, Sides DEF Blame, BlameIsEarned
<1> QED
  BY <1>3, <1>4, <1>5, <1>6, <1>7 DEF GameInv

LEMMA FinishEngineTypes == ASSUME GameInv, NEW s \in Side, FinishEngine(s) PROVE TypeOK'
<1>1. kept' \in [Side -> BOOLEAN]
  BY FlagFits DEF FinishEngine, GameInv, TypeOK
<1>2. proc' \in [Side -> {"none", "up", "dead"}] /\ owes' \in [Side -> {"none", "think", "ponder"}]
  BY DEF FinishEngine, GameInv, TypeOK
<1>3. ended' \subseteq Side
  BY DEF FinishEngine, GameInv, TypeOK
<1> QED
  BY <1>1, <1>2, <1>3 DEF FinishEngine, setup, board, GameInv, TypeOK

\* The mover loses by its own fault: what every such step does to the report.
LEMMA MoverLoses ==
  ASSUME GameInv, pc \in {"turn", "search"}, NEW kind \in FaultKind,
         Decide(EngineLoss(mover, kind)), wrong' = wrong \cup {mover},
         UNCHANGED <<proc, slot, setup, mover, ended>>,
         \A s \in Side \ {mover} : owes'[s] = owes[s] /\ pred'[s] = pred[s]
  PROVE  /\ outcome' \in Report /\ wrong' \subseteq Side /\ pc' = "over"
         /\ Undecided' /\ Books' /\ Keeping' /\ Blame'
<1>1. mover \in Side
  BY DEF GameInv, TypeOK
<1>2. /\ outcome' \in Report /\ pc' = "over"
      /\ outcome'.side = mover /\ outcome'.kind = kind /\ outcome'.result = Other(mover)
  BY <1>1, EngineLossSays DEF Decide
<1>3. wrong' \subseteq Side
  BY <1>1 DEF GameInv, TypeOK
<1>4. ended = {}
  BY DEF GameInv, Undecided, InPlay
<1>5. Undecided'
  BY <1>2 DEF Undecided, InPlay
<1>6. Books'
  BY <1>2, <1>4 DEF GameInv, Books, InStep
<1>7. Keeping'
  BY <1>2, <1>4 DEF GameInv, Keeping, OnlyFitEnginesStay, slot, FaultKind
<1>8. Blame'
  BY <1>2 DEF Blame, BlameIsEarned, FaultKind
<1> QED
  BY <1>2, <1>3, <1>5, <1>6, <1>7, <1>8

LEMMA AbortPonderStep == ASSUME GameInv, AbortPonder PROVE GameInv'
<1>1. /\ mover \in Side /\ pred' = [pred EXCEPT ![mover] = "none"]
      /\ pred' \in [Side -> {"none", "pending", "hit", "miss"}]
  BY DEF AbortPonder, GameInv, TypeOK
<1>2. CASE owes' = [owes EXCEPT ![mover] = "none"] /\ UNCHANGED <<pc, outcome, wrong>>
  <2>1. TypeOK'
    BY <1>1, <1>2 DEF AbortPonder, slot, setup, GameInv, TypeOK
  <2>2. Undecided'
    BY <1>2 DEF AbortPonder, GameInv, Undecided
  <2>3. Books'
    BY <1>1, <1>2 DEF AbortPonder, GameInv, TypeOK, Books, InStep
  <2>4. Keeping' /\ Blame'
    BY <1>2 DEF AbortPonder, slot, setup, GameInv, Keeping, OnlyFitEnginesStay, Blame, BlameIsEarned
  <2> QED
    BY <2>1, <2>2, <2>3, <2>4 DEF GameInv
<1>3. ASSUME NEW kind \in {"timeout", "protocol", "disconnect"},
             Decide(EngineLoss(mover, kind)), wrong' = wrong \cup {mover}, UNCHANGED owes
      PROVE  GameInv'
  <2>1. kind \in FaultKind /\ \A s \in Side \ {mover} : owes'[s] = owes[s] /\ pred'[s] = pred[s]
    BY <1>1, <1>3 DEF FaultKind, GameInv, TypeOK
  <2>2. pc = "turn" /\ UNCHANGED <<proc, slot, setup, mover, ended>>
    BY DEF AbortPonder
  <2>3. /\ outcome' \in Report /\ wrong' \subseteq Side /\ pc' = "over"
        /\ Undecided' /\ Books' /\ Keeping' /\ Blame'
    BY <1>3, <2>1, <2>2, MoverLoses
  <2>4. TypeOK'
    BY <1>1, <1>3, <2>3 DEF AbortPonder, slot, setup, GameInv, TypeOK
  <2> QED
    BY <2>3, <2>4 DEF GameInv
<1> QED
  BY <1>2, <1>3 DEF AbortPonder

LEMMA TimesOutStep == ASSUME GameInv, TimesOut PROVE GameInv'
<1>1. mover \in Side /\ owes' \in [Side -> {"none", "think", "ponder"}] /\ UNCHANGED pred
  BY DEF TimesOut, board, GameInv, TypeOK
<1>2. "timeout" \in FaultKind /\ \A s \in Side \ {mover} : owes'[s] = owes[s] /\ pred'[s] = pred[s]
  BY <1>1 DEF TimesOut, FaultKind, GameInv, TypeOK
<1>3. /\ outcome' \in Report /\ wrong' \subseteq Side /\ pc' = "over"
      /\ Undecided' /\ Books' /\ Keeping' /\ Blame'
  BY <1>2, MoverLoses DEF TimesOut, board
<1>4. TypeOK'
  BY <1>1, <1>3 DEF TimesOut, slot, setup, board, GameInv, TypeOK
<1> QED
  BY <1>3, <1>4 DEF GameInv

LEMMA FaultsStep ==
  ASSUME GameInv, pc = "search", NEW kind \in FaultKind, Faults(kind)
  PROVE  GameInv'
<1>1. /\ outcome' \in Report /\ wrong' \subseteq Side /\ pc' = "over"
      /\ Undecided' /\ Books' /\ Keeping' /\ Blame'
  BY MoverLoses DEF Faults, processes, board
<1>2. TypeOK'
  BY <1>1 DEF Faults, processes, slot, setup, board, GameInv, TypeOK
<1> QED
  BY <1>1, <1>2 DEF GameInv

\* Adjudication has no other verdicts.
LEMMA Verdicts ==
  \A scores, r : Adjudicate(scores, r) \in Result \cup {"none"}
  BY Zenon DEF Adjudicate, Result

LEMMA ChargeFits ==
  ASSUME GameInv, NEW elapsed \in Nat
  PROVE  Charge(mover, elapsed) \in [Side -> Nat]
<1>1. clocks \in [Side -> Nat] /\ mover \in Side
  BY DEF GameInv, TypeOK
<1>2. (IF elapsed > clocks[mover] THEN 0 ELSE clocks[mover] - elapsed) + Inc \in Nat
  BY <1>1, TimeAssumption
<1> QED
  BY <1>1, <1>2 DEF Charge

\* The deadline a search is given is the budget the move is charged to and the
\* margin, so that an answer the process module lets through is not refused.
LEMMA NothingInTimeIsRefused ==
  ASSUME GameInv, NEW elapsed \in 0..SearchDeadline(mover)
  PROVE  Accepts(mover, elapsed) /\ elapsed \in Nat
<1>1. SearchDeadline(mover) \in Int
  <2>1. clocks[mover] \in Int
    BY DEF GameInv, TypeOK
  <2> QED
    BY <2>1, TimeAssumption DEF SearchDeadline, Budget, FixedDeadline
<1> QED
  BY <1>1 DEF Accepts, SearchDeadline

LEMMA AnswersReports ==
  ASSUME GameInv, Answers
  PROVE  /\ clocks' \in [Side -> Nat] /\ plies' \in Nat
         /\ pred' \in [Side -> {"none", "pending", "hit", "miss"}]
         /\ \A s \in Side : pred'[s] # "none" <=> pred[s] # "none"
         /\ \/ /\ pc' = "over" /\ outcome' = EngineLoss(mover, "illegal")
               /\ wrong' = wrong \cup {mover} /\ UNCHANGED pred
            \/ /\ pc' = "over" /\ UNCHANGED wrong
               /\ \E result \in Result : outcome' \in {Natural(result), Adjudicated(result)}
            \/ pc' = "arm" /\ UNCHANGED <<outcome, wrong>>
<1>1. PICK elapsed \in 0..SearchDeadline(mover) : Taken(elapsed)
  BY NothingInTimeIsRefused DEF Answers
<1>2. clocks' \in [Side -> Nat]
  BY <1>1, NothingInTimeIsRefused, ChargeFits DEF Taken
<1>3. mover \in Side /\ Other(mover) \in Side /\ plies \in Nat
      /\ pred \in [Side -> {"none", "pending", "hit", "miss"}]
  BY Sides DEF GameInv, TypeOK
<1>4. CASE Decide(EngineLoss(mover, "illegal")) /\ wrong' = wrong \cup {mover} /\ UNCHANGED <<plies, pov, pred>>
  BY <1>2, <1>3, <1>4 DEF Decide
<1>5. CASE plies' = plies + 1 /\ UNCHANGED wrong
           /\ (\E p \in Predicted(Other(mover)) : pred' = [pred EXCEPT ![Other(mover)] = p])
           /\ \/ \E result \in Result : Decide(Natural(result))
              \/ Adjudicate(pov', rule) # "none" /\ Decide(Adjudicated(Adjudicate(pov', rule)))
              \/ pc' = "arm" /\ UNCHANGED outcome
  <2>1. PICK p \in Predicted(Other(mover)) : pred' = [pred EXCEPT ![Other(mover)] = p]
    BY <1>5
  <2>2. p \in {"none", "pending", "hit", "miss"} /\ (p # "none" <=> pred[Other(mover)] # "none")
    BY <1>3, <2>1 DEF Predicted
  <2>3. /\ pred' \in [Side -> {"none", "pending", "hit", "miss"}]
        /\ \A s \in Side : pred'[s] # "none" <=> pred[s] # "none"
    BY <1>3, <2>1, <2>2
  <2>4. \/ /\ pc' = "over"
           /\ \E result \in Result : outcome' \in {Natural(result), Adjudicated(result)}
        \/ pc' = "arm" /\ UNCHANGED outcome
    BY <1>5, Verdicts DEF Decide
  <2> QED
    BY <1>2, <1>3, <1>5, <2>3, <2>4
<1> QED
  BY <1>1, <1>4, <1>5, Zenon DEF Taken

LEMMA AnswersStep == ASSUME GameInv, Answers PROVE GameInv'
<1>1. /\ pc = "search" /\ mover \in Side /\ owes' = [owes EXCEPT ![mover] = "none"]
      /\ owes' \in [Side -> {"none", "think", "ponder"}]
      /\ UNCHANGED <<proc, slot, setup, mover, ended>>
  BY DEF Answers, GameInv, TypeOK
<1>2. \A s \in Side \ {mover} : owes'[s] = owes[s]
  BY <1>1 DEF GameInv, TypeOK
<1>3. /\ clocks' \in [Side -> Nat] /\ plies' \in Nat
      /\ pred' \in [Side -> {"none", "pending", "hit", "miss"}]
      /\ \A s \in Side : pred'[s] # "none" <=> pred[s] # "none"
  BY AnswersReports
<1>4. ASSUME outcome' \in Report, wrong' \subseteq Side, pc' \in {"over", "arm"}
      PROVE  TypeOK'
  BY <1>1, <1>3, <1>4 DEF slot, setup, GameInv, TypeOK
<1>5. CASE pc' = "over" /\ outcome' = EngineLoss(mover, "illegal")
           /\ wrong' = wrong \cup {mover} /\ UNCHANGED pred
  <2>1. "illegal" \in FaultKind
    BY DEF FaultKind
  <2>2. /\ outcome' \in Report /\ wrong' \subseteq Side
        /\ Undecided' /\ Books' /\ Keeping' /\ Blame'
    BY <1>1, <1>2, <1>5, <2>1, MoverLoses DEF Decide
  <2> QED
    BY <1>4, <1>5, <2>2 DEF GameInv
<1>6. CASE pc' = "over" /\ UNCHANGED wrong
           /\ \E result \in Result : outcome' \in {Natural(result), Adjudicated(result)}
  <2>1. outcome' \in Report /\ outcome'.side = NoOne /\ outcome'.kind = "none"
    BY <1>6, NaturalSays, AdjudicatedSays
  <2>2. ended = {}
    BY <1>1 DEF GameInv, Undecided, InPlay
  <2>3. TypeOK'
    BY <1>4, <1>6, <2>1 DEF GameInv, TypeOK
  <2>4. Undecided'
    BY <1>6 DEF Undecided, InPlay
  <2>5. Books'
    BY <1>1, <1>2, <1>3, <1>6, <2>2 DEF GameInv, TypeOK, Books, InStep
  <2>6. Keeping'
    BY <1>1, <1>6, <2>1, <2>2 DEF GameInv, Keeping, OnlyFitEnginesStay, slot
  <2>7. Blame'
    BY <1>6, <2>1 DEF Blame, BlameIsEarned
  <2> QED
    BY <2>3, <2>4, <2>5, <2>6, <2>7 DEF GameInv
<1>7. CASE pc' = "arm" /\ UNCHANGED <<outcome, wrong>>
  <2>1. TypeOK'
    BY <1>4, <1>7 DEF GameInv, TypeOK
  <2>2. Undecided'
    BY <1>1, <1>7 DEF GameInv, Undecided, InPlay
  <2>3. Books'
    BY <1>1, <1>2, <1>3, <1>7 DEF GameInv, TypeOK, Books, InStep
  <2>4. Keeping'
    BY <1>1, <1>7 DEF GameInv, Keeping, OnlyFitEnginesStay, slot
  <2>5. Blame'
    BY <1>1, <1>7 DEF GameInv, Blame, BlameIsEarned, setup
  <2> QED
    BY <2>1, <2>2, <2>3, <2>4, <2>5 DEF GameInv
<1> QED
  BY <1>5, <1>6, <1>7, AnswersReports

-----------------------------------------------------------------------------
(* The other steps. *)

LEMMA NewGameStep == ASSUME GameInv, NewGame PROVE GameInv'
<1>1. TypeOK'
  BY NewGameTypes
<1>2. Undecided'
  BY DEF NewGame, Undecided
<1>3. Books'
  BY NoReportSays DEF NewGame, Books, processes, GameInv
<1>4. Keeping'
  BY NoReportSays DEF NewGame, Keeping, OnlyFitEnginesStay, slot, GameInv
<1>5. Blame'
  BY NoReportSays DEF NewGame, Blame, BlameIsEarned
<1> QED
  BY <1>1, <1>2, <1>3, <1>4, <1>5 DEF GameInv

LEMMA RefreshKeptStep == ASSUME GameInv, NEW s \in Side, RefreshKept(s) PROVE GameInv'
<1>1. TypeOK'
  BY RefreshKeptTypes
<1>2. Undecided'
  BY DEF RefreshKept, Undecided, GameInv
<1>3. Books'
  BY DEF RefreshKept, Books, processes, board, GameInv
<1>4. Keeping'
  BY DEF RefreshKept, Keeping, OnlyFitEnginesStay, TypeOK, GameInv
<1>5. Blame'
  BY DEF RefreshKept, Blame, BlameIsEarned, TypeOK, GameInv
<1> QED
  BY <1>1, <1>2, <1>3, <1>4, <1>5 DEF GameInv

LEMMA QuitMisfitStep == ASSUME GameInv, NEW s \in Side, QuitMisfit(s) PROVE GameInv'
<1>1. TypeOK'
  BY DEF QuitMisfit, setup, board, GameInv, TypeOK
<1>2. Undecided'
  BY DEF QuitMisfit, Undecided, GameInv
<1>3. Books'
  BY DEF QuitMisfit, Books, board, GameInv
<1>4. Keeping'
  BY DEF QuitMisfit, Keeping, OnlyFitEnginesStay, setup, GameInv
<1>5. Blame'
  BY DEF QuitMisfit, Blame, BlameIsEarned, setup, GameInv
<1> QED
  BY <1>1, <1>2, <1>3, <1>4, <1>5 DEF GameInv

LEMMA StartFreshStep == ASSUME GameInv, NEW s \in Side, StartFresh(s) PROVE GameInv'
<1>1. TypeOK'
  BY StartFreshTypes
<1>2. Undecided'
  BY DEF StartFresh, Undecided, GameInv
<1>3. Books'
  BY DEF StartFresh, Books, board, GameInv
<1>4. Keeping'
  BY DEF StartFresh, Keeping, OnlyFitEnginesStay, TypeOK, slot, GameInv
<1>5. Blame'
  BY DEF StartFresh, Blame, BlameIsEarned, TypeOK, GameInv
<1> QED
  BY <1>1, <1>2, <1>3, <1>4, <1>5 DEF GameInv

LEMMA SetupFailsStep == ASSUME GameInv, SetupFails PROVE GameInv'
<1>1. TypeOK'
  BY SetupFailsTypes
<1>2. Undecided'
  BY DEF SetupFails, Undecided, InPlay
<1>3. Books'
  BY DEF SetupFails, Books
<1>4. Keeping'
  BY DEF SetupFails, Keeping, OnlyFitEnginesStay, GameInv
<1>5. Blame'
  <2>1. CASE outcome' = Infrastructure /\ prep[Blamed] \in {"nospawn", "infrastructure"}
    BY <2>1, SetupFailsReports, InfrastructureSays DEF SetupFails, Blame, BlameIsEarned, setup
  <2>2. ASSUME NEW kind \in FaultKind, outcome' = EngineLoss(Blamed, kind), prep[Blamed] = "failed"
        PROVE  Blame'
    <3>1. Blamed \in wrong /\ UNCHANGED wrong
      BY <2>2, SetupFailsReports DEF SetupFails, GameInv, Blame
    <3>2. outcome'.side = Blamed /\ outcome'.result = Other(Blamed) /\ outcome'.kind # "infrastructure"
      BY <2>2, SetupFailsReports, EngineLossSays DEF FaultKind
    <3> QED
      BY <3>1, <3>2 DEF SetupFails, Blame, BlameIsEarned
  <2> QED
    BY <2>1, <2>2, SetupFailsReports
<1> QED
  BY <1>1, <1>2, <1>3, <1>4, <1>5 DEF GameInv

LEMMA GameBeginsStep == ASSUME GameInv, GameBegins PROVE GameInv'
<1>1. TypeOK'
  BY DEF GameBegins, processes, slot, setup, board, GameInv, TypeOK
<1>2. Undecided'
  BY DEF GameBegins, Undecided, InPlay, GameInv
<1>3. Books'
  BY DEF GameBegins, Books, InStep, processes, board, GameInv
<1>4. Keeping'
  BY DEF GameBegins, Keeping, OnlyFitEnginesStay, slot, GameInv
<1>5. Blame'
  BY DEF GameBegins, Blame, BlameIsEarned, GameInv
<1> QED
  BY <1>1, <1>2, <1>3, <1>4, <1>5 DEF GameInv

LEMMA BeginSearchStep == ASSUME GameInv, BeginSearch PROVE GameInv'
<1>1. TypeOK'
  BY DEF BeginSearch, slot, setup, GameInv, TypeOK
<1>2. Undecided'
  BY DEF BeginSearch, Undecided, InPlay, GameInv
<1>3. Books'
  BY DEF BeginSearch, Books, InStep, TypeOK, GameInv
<1>4. Keeping'
  BY DEF BeginSearch, Keeping, OnlyFitEnginesStay, slot, GameInv
<1>5. Blame'
  BY DEF BeginSearch, Blame, BlameIsEarned, setup, GameInv
<1> QED
  BY <1>1, <1>2, <1>3, <1>4, <1>5 DEF GameInv

LEMMA ArmStep == ASSUME GameInv, Arm PROVE GameInv'
<1>1. TypeOK'
  BY Sides DEF Arm, slot, setup, GameInv, TypeOK
<1>2. Undecided'
  BY DEF Arm, Undecided, InPlay, GameInv
<1>3. Books'
  BY DEF Arm, Books, InStep, TypeOK, GameInv
<1>4. Keeping'
  BY DEF Arm, Keeping, OnlyFitEnginesStay, slot, GameInv
<1>5. Blame'
  BY DEF Arm, Blame, BlameIsEarned, setup, GameInv
<1> QED
  BY <1>1, <1>2, <1>3, <1>4, <1>5 DEF GameInv

LEMMA FinishEngineStep == ASSUME GameInv, NEW s \in Side, FinishEngine(s) PROVE GameInv'
<1>1. TypeOK'
  BY FinishEngineTypes
<1>2. Undecided'
  BY DEF FinishEngine, Undecided, InPlay
<1>3. Books'
  BY DEF FinishEngine, Books, InStep, TypeOK, board, Keeps, Ponders, GameInv
<1>4. Keeping'
  BY DEF FinishEngine, Keeping, OnlyFitEnginesStay, TypeOK, Keeps, GameInv
<1>5. Blame'
  BY DEF FinishEngine, Blame, BlameIsEarned, setup, GameInv
<1> QED
  BY <1>1, <1>2, <1>3, <1>4, <1>5 DEF GameInv

LEMMA ReportsStep == ASSUME GameInv, Reports PROVE GameInv'
<1>1. TypeOK'
  BY DEF Reports, processes, setup, GameInv, TypeOK
<1>2. Undecided'
  BY DEF Reports, Undecided, InPlay
<1>3. Books'
  BY DEF Reports, Books, processes, GameInv
<1>4. Keeping'
  BY DEF Reports, Keeping, OnlyFitEnginesStay, processes, GameInv
<1>5. Blame'
  BY DEF Reports, Blame, BlameIsEarned, setup, GameInv
<1> QED
  BY <1>1, <1>2, <1>3, <1>4, <1>5 DEF GameInv

LEMMA QuitKeptStep == ASSUME GameInv, NEW s \in Side, QuitKept(s) PROVE GameInv'
<1>1. TypeOK'
  BY FlagFits DEF QuitKept, setup, board, GameInv, TypeOK
<1>2. Undecided'
  BY DEF QuitKept, Undecided, GameInv
<1>3. Books'
  BY DEF QuitKept, Books, GameInv
<1>4. Keeping'
  BY DEF QuitKept, Keeping, OnlyFitEnginesStay, TypeOK, GameInv
<1>5. Blame'
  BY DEF QuitKept, Blame, BlameIsEarned, setup, GameInv
<1> QED
  BY <1>1, <1>2, <1>3, <1>4, <1>5 DEF GameInv

LEMMA DiesStep == ASSUME GameInv, NEW s \in Side, Dies(s) PROVE GameInv'
<1>1. TypeOK'
  BY DEF Dies, slot, setup, board, GameInv, TypeOK
<1>2. Undecided'
  BY DEF Dies, Undecided, GameInv
<1>3. Books'
  BY DEF Dies, Books, InStep, TypeOK, board, GameInv
<1>4. Keeping'
  BY DEF Dies, Keeping, OnlyFitEnginesStay, slot, setup, GameInv
<1>5. Blame'
  BY DEF Dies, Blame, BlameIsEarned, setup, GameInv
<1> QED
  BY <1>1, <1>2, <1>3, <1>4, <1>5 DEF GameInv

LEMMA GameInit == Init => GameInv
<1> SUFFICES ASSUME Init PROVE GameInv
  OBVIOUS
<1>1. TypeOK
  BY NoReportSays DEF Init, TypeOK, Side, Prepared
<1>2. Undecided /\ Books /\ Keeping /\ Blame
  BY NoReportSays, Sides DEF Init, Undecided, InPlay, Books, Keeping, OnlyFitEnginesStay, Blame, BlameIsEarned
<1> QED
  BY <1>1, <1>2 DEF GameInv

LEMMA GameNext == GameInv /\ [Next]_vars => GameInv'
<1> SUFFICES ASSUME GameInv, [Next]_vars PROVE GameInv'
  OBVIOUS
<1>1. ASSUME NEW s \in Side, Prepare(s)
      PROVE  GameInv'
  BY <1>1, RefreshKeptStep, QuitMisfitStep, StartFreshStep DEF Prepare
<1>2. ASSUME NEW s \in Side, FinishEngine(s) \/ QuitKept(s) \/ Dies(s)
      PROVE  GameInv'
  BY <1>2, FinishEngineStep, QuitKeptStep, DiesStep
<1>3. CASE SpeaksNonsense \/ Disconnects
  BY <1>3, FaultsStep DEF SpeaksNonsense, Disconnects, FaultKind
<1>4. CASE UNCHANGED vars
  BY <1>4 DEF vars, processes, slot, setup, board, GameInv, TypeOK, Undecided, Books, InStep,
     Keeping, OnlyFitEnginesStay, Blame, BlameIsEarned
<1> QED
  BY <1>1, <1>2, <1>3, <1>4, NewGameStep, SetupFailsStep, GameBeginsStep, MaxMovesStep,
     AbortPonderStep, BeginSearchStep, TimesOutStep, ArmStep, ReportsStep, AnswersStep
     DEF Next, Task

LEMMA GameCorrect == Spec => []GameInv
  BY GameInit, GameNext, PTL DEF Spec

-----------------------------------------------------------------------------
(* The theorems. *)

\* Every variable keeps to its type, whatever the engines do: in particular no
\* clock goes below zero (accept_and_charge).
THEOREM GameTypeTheorem == Spec => []TypeOK
<1>1. GameInv => TypeOK
  BY DEF GameInv
<1> QED
  BY <1>1, GameCorrect, PTL

\* No `go` reaches an engine that still owes an answer, and a kept engine owes
\* none: ponder_pred of the runner and the searches of the engines agree.
THEOREM NoSearchForgottenTheorem == Spec => []NoSearchForgotten
<1>1. GameInv => NoSearchForgotten
  BY DEF GameInv, TypeOK, Books, InStep, NoSearchForgotten
<1> QED
  BY <1>1, GameCorrect, PTL

\* finish_engine, prepare_slot_engine and the paths of a failed setup leave no
\* process behind but those of kept engines that ended their game properly.
THEOREM OnlyFitEnginesStayTheorem == Spec => []OnlyFitEnginesStay
<1>1. GameInv => OnlyFitEnginesStay
  BY DEF GameInv, Keeping
<1> QED
  BY <1>1, GameCorrect, PTL

\* A report blames only an engine that did wrong in its game, and blames no one
\* for what the infrastructure spoiled.
THEOREM BlameIsEarnedTheorem == Spec => []BlameIsEarned
<1>1. GameInv => BlameIsEarned
  BY DEF GameInv, Blame
<1> QED
  BY <1>1, GameCorrect, PTL

=============================================================================
