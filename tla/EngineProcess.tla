---------------------------- MODULE EngineProcess ----------------------------
(***************************************************************************)
(* One UCI engine process: process.rs of colosseum-uci, driven by the      *)
(* calls in the orders in which runner.rs makes them.                      *)
(*                                                                         *)
(* Three parties move: the engine (external), the reader thread, which     *)
(* stamps a line with the time and then sends it down a channel, and the   *)
(* game task, which takes lines off that channel against a deadline.  The  *)
(* writer thread is not a party of its own: commands and answers are each  *)
(* first-in first-out, so when a command reaches the engine cannot be told *)
(* from how soon the engine acts on it.                                    *)
(*                                                                         *)
(* Time is counted from the start of the call in hand, in ticks.  A stamp  *)
(* older than the call becomes 0: charged_elapsed saturates, and a line    *)
(* from before the call is never past its deadline.                        *)
(*                                                                         *)
(* A definition named X_Y is X with a mistake in it, for trying whether    *)
(* the properties notice; no specification uses it.                        *)
(***************************************************************************)
EXTENDS Integers, Sequences

CONSTANTS
    Deadline,      \* of a search, an isready, a stop and a quit, in ticks
    LateWindow,    \* LATE_BESTMOVE_WINDOW, in ticks
    MaxGo,         \* bound: searches sent to one process
    MaxNoise       \* bound: info lines and overlong lines the engine writes

ASSUME DeadlineAssumption == Deadline \in Nat /\ LateWindow \in Nat
ASSUME BoundsAssumption == MaxGo \in Nat /\ MaxNoise \in Nat

\* One tick past every deadline: by then each timer has fired.
Horizon == 1 + (IF Deadline > LateWindow THEN Deadline ELSE LateWindow)

\* `go` tells the searches apart; UCI's bestmove does not say which it answers.
Event == [kind : {"bestmove", "readyok", "info", "overlong", "eof"},
          go : 0..MaxGo, at : 0..Horizon]
None == [kind |-> "none", go |-> 0, at |-> 0]
ErrorKind == {"timeout", "protocol", "terminated"}
Reading == {"search", "ponderhit", "stop", "ready", "late", "drain"}
Verdict == [op : {"none"} \cup Reading, res : {"ok"} \cup ErrorKind,
            go : 0..MaxGo, elapsed : 0..Horizon]

VARIABLES
    \* The engine.
    alive,
    job,       \* "idle", or the search it owes a bestmove for
    pings,     \* isready commands it has not answered
    noise,     \* bound: noise written so far
    \* The reader thread.
    held,      \* the event it stamped and has not sent yet
    reader,    \* "reading", or "done" once it sent Eof
    \* The game task.
    lines,     \* the channel
    t,         \* ticks since the call in hand began
    op,        \* the call in hand; "free", "armed", "drained": none
    go,        \* searches started
    early,     \* ponder_early: the search it answers, 0 for None
    lateLine,  \* late_line
    verdict    \* what the last call returned

engine == <<alive, job, pings, noise>>
thread == <<held, reader>>
task == <<lines, t, op, go, early, lateLine, verdict>>
processVars == <<engine, thread, task>>

-----------------------------------------------------------------------------
(* The calls. *)

Aged(event) == [event EXCEPT !.at = 0]

\* A call starts its own clock; what is in the pipe came before it.
Begin(call) ==
    /\ op' = call
    /\ t' = 0
    /\ lines' = [i \in 1..Len(lines) |-> Aged(lines[i])]
    /\ held' = Aged(held)

\* After one of these the caller only quits or kills the process.
Broken == verdict.res # "ok"

\* How long the call in hand may take.
Until == IF op = "late" THEN LateWindow ELSE Deadline

Return(res, answered, elapsed) ==
    verdict' = [op |-> op, res |-> res, go |-> answered, elapsed |-> elapsed]

\* Writing to an engine that is gone may fail at once, or only be queued.
CanFail == ~alive

Search ==
    /\ op = "free" /\ ~Broken /\ go < MaxGo
    /\ go' = go + 1
    /\ Begin("search")
    /\ job' = IF alive THEN "think" ELSE job
    /\ lateLine' = None
    /\ UNCHANGED <<alive, pings, noise, reader, early, verdict>>

StartPonder ==
    /\ op = "free" /\ ~Broken /\ go < MaxGo
    /\ go' = go + 1
    /\ op' = "armed"
    /\ job' = IF alive THEN "ponder" ELSE job
    /\ early' = 0
    /\ UNCHANGED <<alive, pings, noise, thread, lines, t, lateLine, verdict>>

\* The opponent's search begins, and this side's output is pumped meanwhile.
DrainPonder ==
    /\ op = "armed"
    /\ Begin("drain")
    /\ UNCHANGED <<engine, reader, go, early, lateLine, verdict>>

\* The opponent's search resolved: select! drops the pump wherever it is.
DropDrain ==
    /\ op \in {"drain", "parked"}
    /\ op' = "drained"
    /\ UNCHANGED <<engine, thread, lines, t, go, early, lateLine, verdict>>

\* A move found while pondering is free.
PonderhitEarly ==
    /\ op = "drained" /\ early # 0
    /\ verdict' = [op |-> "ponderhit", res |-> "ok", go |-> early, elapsed |-> 0]
    /\ early' = 0
    /\ op' = "free"
    /\ UNCHANGED <<engine, thread, lines, t, go, lateLine>>

Ponderhit ==
    /\ op = "drained" /\ early = 0
    /\ Begin("ponderhit")
    /\ job' = IF job = "ponder" THEN "think" ELSE job
    /\ lateLine' = None
    /\ UNCHANGED <<alive, pings, noise, reader, go, early, verdict>>

StopPonderEarly ==
    /\ op \in {"armed", "drained"} /\ early # 0
    /\ verdict' = [op |-> "stop", res |-> "ok", go |-> early, elapsed |-> 0]
    /\ early' = 0
    /\ op' = "free"
    /\ UNCHANGED <<engine, thread, lines, t, go, lateLine>>

\* Mutant: the stop is believed to be obeyed the moment it is sent.
StopPonder_Unread ==
    /\ op \in {"armed", "drained"} /\ early = 0
    /\ verdict' = [op |-> "stop", res |-> "ok", go |-> go, elapsed |-> 0]
    /\ op' = "free"
    /\ UNCHANGED <<engine, thread, lines, t, go, early, lateLine>>

\* The engine must answer the stop; whatever it answers is thrown away.
StopPonder ==
    /\ op \in {"armed", "drained"} /\ early = 0
    /\ Begin("stop")
    /\ UNCHANGED <<engine, reader, go, early, lateLine, verdict>>

IsReady ==
    /\ op = "free" /\ ~Broken
    /\ Begin("ready")
    /\ pings' = IF alive THEN 1 ELSE pings
    /\ UNCHANGED <<alive, job, noise, reader, go, early, lateLine, verdict>>

\* After a search that timed out: when did its answer come?
AwaitLate ==
    /\ op = "free"
    /\ verdict.res = "timeout" /\ verdict.op \in {"search", "ponderhit"}
    /\ \/ /\ lateLine.kind = "bestmove"
          /\ op' = "done"
          /\ UNCHANGED <<held, lines, t>>
       \/ /\ lateLine.kind # "bestmove"
          /\ Begin("late")
    /\ lateLine' = None
    /\ UNCHANGED <<engine, reader, go, early, verdict>>

\* The write fails because the writer thread found the pipe closed.
SendFails ==
    /\ CanFail
    /\ \/ /\ op = "free" /\ ~Broken
          /\ \E call \in {"search", "ready"} :
                verdict' = [op |-> call, res |-> "terminated", go |-> 0, elapsed |-> 0]
       \/ /\ op \in {"armed", "drained"} /\ early = 0
          /\ \E call \in {"ponderhit", "stop"} :
                verdict' = [op |-> call, res |-> "terminated", go |-> 0, elapsed |-> 0]
    /\ op' = "free"
    /\ UNCHANGED <<engine, thread, lines, t, go, early, lateLine>>

Quit ==
    /\ op \in {"free", "done", "armed", "drained"}
    /\ Begin("quit")
    /\ UNCHANGED <<engine, reader, go, early, lateLine, verdict>>

-----------------------------------------------------------------------------
(* The game task waits: read_line_until and the loops around it. *)

\* Mutant: a line is judged by when it is looked at.
Late_WhenRead(event) == op # "drain" /\ t > Until

Late(event) == op # "drain" /\ event.at > Until

Judged(event) == event.kind \in {"bestmove", "readyok", "info"}

Waiting == op \in Reading

Fail(res) ==
    /\ Return(res, 0, 0)
    /\ op' = IF op = "late" THEN "done" ELSE "free"

\* The bestmove the call is waiting for.
ReadBestmove ==
    /\ Waiting /\ lines # <<>>
    /\ Head(lines).kind = "bestmove" /\ ~Late(Head(lines))
    /\ lines' = Tail(lines)
    /\ \/ /\ op \in {"search", "ponderhit", "stop"}
          /\ Return("ok", Head(lines).go, Head(lines).at)
          /\ op' = "free"
          /\ UNCHANGED early
       \/ /\ op = "late"
          /\ op' = "done"
          /\ UNCHANGED <<early, verdict>>
       \/ /\ op = "drain"
          /\ early' = Head(lines).go
          /\ op' = "parked"
          /\ UNCHANGED verdict
       \/ /\ op = "ready"
          /\ UNCHANGED <<op, early, verdict>>
    /\ UNCHANGED <<engine, thread, t, go, lateLine>>

ReadReadyok ==
    /\ Waiting /\ lines # <<>>
    /\ Head(lines).kind = "readyok" /\ ~Late(Head(lines))
    /\ lines' = Tail(lines)
    /\ IF op = "ready"
       THEN /\ Return("ok", 0, 0)
            /\ op' = "free"
       ELSE UNCHANGED <<op, verdict>>
    /\ UNCHANGED <<engine, thread, t, go, early, lateLine>>

ReadInfo ==
    /\ Waiting /\ lines # <<>>
    /\ Head(lines).kind = "info" /\ ~Late(Head(lines))
    /\ lines' = Tail(lines)
    /\ UNCHANGED <<engine, thread, t, op, go, early, lateLine, verdict>>

\* A line from after the deadline is no answer, but it is kept as evidence.
ReadLate ==
    /\ Waiting /\ lines # <<>>
    /\ Judged(Head(lines)) /\ Late(Head(lines))
    /\ lines' = Tail(lines)
    /\ lateLine' = Head(lines)
    /\ IF op = "late"
       THEN op' = "done" /\ UNCHANGED verdict
       ELSE Fail("timeout")
    /\ UNCHANGED <<engine, thread, t, go, early>>

\* The pump swallows an error, the late window a bad line; else the call fails.
ReadOverlong ==
    /\ Waiting /\ lines # <<>> /\ Head(lines).kind = "overlong"
    /\ lines' = Tail(lines)
    /\ CASE op = "drain" -> op' = "parked" /\ UNCHANGED verdict
         [] op = "late" -> UNCHANGED <<op, verdict>>
         [] OTHER -> Fail("protocol")
    /\ UNCHANGED <<engine, thread, t, go, early, lateLine>>

Ended(res) ==
    CASE op = "drain" -> op' = "parked" /\ UNCHANGED verdict
      [] op = "late" -> op' = "done" /\ UNCHANGED verdict
      [] OTHER -> Fail(res)

ReadEof ==
    /\ Waiting
    /\ \/ lines # <<>> /\ Head(lines).kind = "eof" /\ lines' = Tail(lines)
       \/ lines = <<>> /\ reader = "done" /\ UNCHANGED lines
    /\ Ended("terminated")
    /\ UNCHANGED <<engine, thread, t, go, early, lateLine>>

\* Mutant: waiting for readyok has no deadline.
TimerFires_NotReady ==
    /\ Waiting /\ op \notin {"drain", "ready"}
    /\ lines = <<>> /\ reader # "done" /\ t > Until
    /\ Ended("timeout")
    /\ UNCHANGED <<engine, thread, lines, t, go, early, lateLine>>

TimerFires ==
    /\ Waiting /\ op # "drain"
    /\ lines = <<>> /\ reader # "done" /\ t > Until
    /\ Ended("timeout")
    /\ UNCHANGED <<engine, thread, lines, t, go, early, lateLine>>

\* The process exited in time, or is killed and reaped.
QuitReturns ==
    /\ op = "quit"
    /\ ~alive \/ t > Until
    /\ alive' = FALSE /\ job' = "idle" /\ pings' = 0
    /\ op' = "closed"
    /\ UNCHANGED <<noise, thread, lines, t, go, early, lateLine, verdict>>

Kill ==
    /\ op \in {"free", "done"} /\ Broken
    /\ alive' = FALSE /\ job' = "idle" /\ pings' = 0
    /\ op' = "closed"
    /\ UNCHANGED <<noise, thread, lines, t, go, early, lateLine, verdict>>

-----------------------------------------------------------------------------
(* The engine and the reader thread. *)

Stamp(kind) == held' = [kind |-> kind, go |-> IF kind = "bestmove" THEN go ELSE 0,
                        at |-> IF op \in Reading \ {"drain"} THEN t ELSE 0]

Writes == alive /\ held = None

\* One bestmove for each go, when the engine likes, ponder or not.
EngineMoves ==
    /\ Writes /\ job # "idle"
    /\ job' = "idle"
    /\ Stamp("bestmove")
    /\ UNCHANGED <<alive, pings, noise, reader, task>>

EngineReady ==
    /\ Writes /\ pings > 0
    /\ pings' = 0
    /\ Stamp("readyok")
    /\ UNCHANGED <<alive, job, noise, reader, task>>

EngineNoise ==
    /\ Writes /\ noise < MaxNoise
    /\ noise' = noise + 1
    /\ \E kind \in {"info", "overlong"} : Stamp(kind)
    /\ UNCHANGED <<alive, job, pings, reader, task>>

\* It crashes, or obeys quit.
EngineExits ==
    /\ alive
    /\ alive' = FALSE /\ job' = "idle" /\ pings' = 0
    /\ UNCHANGED <<noise, thread, task>>

ReaderSends ==
    /\ held # None
    /\ lines' = Append(lines, held)
    /\ held' = None
    /\ reader' = IF held.kind = "eof" THEN "done" ELSE reader
    /\ UNCHANGED <<engine, t, op, go, early, lateLine, verdict>>

ReaderMeetsEof ==
    /\ ~alive /\ held = None /\ reader = "reading"
    /\ Stamp("eof")
    /\ UNCHANGED <<engine, reader, task>>

Tick ==
    /\ op \in (Reading \ {"drain"}) \cup {"quit"}
    /\ t < Horizon
    /\ t' = t + 1
    /\ UNCHANGED <<engine, thread, lines, op, go, early, lateLine, verdict>>

-----------------------------------------------------------------------------

\* Handshaken and configured: its own isready calls have returned.
ProcessInit ==
    /\ alive = TRUE /\ job = "idle" /\ pings = 0 /\ noise = 0
    /\ held = None /\ reader = "reading"
    /\ lines = <<>> /\ t = 0 /\ op = "free" /\ go = 0 /\ early = 0
    /\ lateLine = None
    /\ verdict = [op |-> "none", res |-> "ok", go |-> 0, elapsed |-> 0]

Calls ==
    \/ Search \/ StartPonder \/ DrainPonder \/ DropDrain
    \/ PonderhitEarly \/ Ponderhit \/ StopPonderEarly \/ StopPonder
    \/ IsReady \/ AwaitLate \/ SendFails \/ Quit \/ Kill

Reads ==
    \/ ReadBestmove \/ ReadReadyok \/ ReadInfo \/ ReadLate
    \/ ReadOverlong \/ ReadEof \/ TimerFires \/ QuitReturns

Engine == EngineMoves \/ EngineReady \/ EngineNoise \/ EngineExits
Reader == ReaderSends \/ ReaderMeetsEof

ProcessNext == Calls \/ Reads \/ Engine \/ Reader \/ Tick

ProcessSpec == ProcessInit /\ [][ProcessNext]_processVars

\* Time passes, the runtime polls the task, the threads run; the engine owes
\* nothing.
FairProcessSpec ==
    /\ ProcessSpec
    /\ WF_processVars(Tick) /\ WF_processVars(Reads) /\ WF_processVars(Reader)

-----------------------------------------------------------------------------
(* Properties. *)

ProcessTypeOK ==
    /\ alive \in BOOLEAN /\ job \in {"idle", "think", "ponder"}
    /\ pings \in 0..1 /\ noise \in 0..MaxNoise
    /\ held \in Event \cup {None} /\ reader \in {"reading", "done"}
    /\ lines \in Seq(Event) /\ t \in 0..Horizon
    /\ op \in {"free", "armed", "parked", "drained", "quit", "done", "closed"} \cup Reading
    /\ go \in 0..MaxGo /\ early \in 0..MaxGo
    /\ lateLine \in Event \cup {None} /\ verdict \in Verdict

\* Between two calls that went well, with no ponder armed, the engine owes no
\* bestmove and none is on its way: not in the pipe, not in the channel, not
\* stashed.  Otherwise the next search, or the next game of a kept engine,
\* would take it for its own.
QuietWhenFree ==
    op = "free" /\ ~Broken =>
        /\ job = "idle" /\ early = 0 /\ held.kind # "bestmove"
        /\ \A i \in 1..Len(lines) : lines[i].kind # "bestmove"

\* A search returns the answer to its own go, although bestmove does not name
\* the go and an aborted or early ponder answers one too.
OwnAnswer ==
    [][op' = "free" /\ verdict'.res = "ok" /\ verdict'.op \in {"search", "ponderhit"}
         /\ op \in {"search", "ponderhit", "drained"}
       => verdict'.go = go]_processVars

InTime(event) == event.kind = "bestmove" /\ event.at <= Deadline

\* A search is lost on time only if no answer stamped in time is waiting in
\* the channel, however late the game task gets to look there; and it is not
\* lost for any other reason than an engine that is late, gone or talks
\* nonsense, nor won by an answer from after the deadline.
JudgedOn(res) ==
    /\ res = "timeout" => \A i \in 1..Len(lines) : ~InTime(lines[i])
    /\ res = "ok" => verdict'.elapsed <= Deadline
    /\ res = "terminated" => ~alive

JudgedByArrival ==
    [][op' = "free" /\ op \in {"search", "ponderhit"} => JudgedOn(verdict'.res)]_processVars

\* Every call that has a deadline returns, whatever the engine does or leaves.
CallsReturn ==
    op \in (Reading \ {"drain"}) \cup {"quit"}
        ~> op \notin (Reading \ {"drain"}) \cup {"quit"}

=============================================================================
