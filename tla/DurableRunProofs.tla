--------------------------- MODULE DurableRunProofs ---------------------------
(***************************************************************************)
(* What a run directory keeps for every number of pairs and sessions, any  *)
(* capacity of the writer's queue and any sync window, with failed writes, *)
(* kills and power losses at any point: it can be resumed, its lines have  *)
(* their moves, a report in it and a run that settled rest on games on the *)
(* disk, and its games are the log DurableLog promises.                    *)
(*                                                                         *)
(* The argument has three parts: the shape of the directory, which holds   *)
(* at any time; what the writer may rely on while it is up; and the stream *)
(* of games from the client through the queue into the journal, which      *)
(* makes the journal a schedule of pairs.                                  *)
(***************************************************************************)
EXTENDS DurableRun, SequenceTheorems, FiniteSetTheorems, WellFoundedInduction, TLAPS

Lines == [seq : Nat, game : Games \cup {Torn}, at : Nat]

DurableTypes ==
    /\ journal \in Seq(Lines) /\ pgn \in Seq(Games \cup {Torn})
    /\ syncedJournal \in 0..Len(journal) /\ syncedPgn \in 0..Len(pgn)
    /\ checkpoint \in [lines : Seq(Lines), pgn : Nat]
    /\ session \in 0..MaxSessions
    /\ client \in ClientState
    /\ half \in 0..1
    /\ official \in Seq([Halves -> Games])
    /\ queue \in Seq(Command)
    /\ task \in Command \cup {Idle, Tick}
    /\ dirty \in BOOLEAN /\ failure \in BOOLEAN
    /\ reply \in {"none", "ok", "failed"}

-----------------------------------------------------------------------------
(* A schedule: the games of a journal in which every session carries on    *)
(* behind the complete pairs it found.                                     *)

\* The place of a game in the schedule.
Number(game) == 2 * (game.pair - 1) + game.half

\* How many pairs the first n games complete.
Complete(games, n) ==
    IF n = 0 THEN 0
    ELSE IF n > 1 /\ games[n - 1].pair = games[n].pair THEN games[n].pair
    ELSE games[n].pair - 1

\* The number a session's next game has, behind the first n games.
NextNumber(games, n, by) ==
    IF n > 0 /\ games[n].session = by THEN Number(games[n]) + 1 ELSE 2 * Complete(games, n) + 1

IsSchedule(games) ==
    \A i \in DOMAIN games : Number(games[i]) = NextNumber(games, i - 1, games[i].session)

JournalGames == [i \in DOMAIN journal |-> journal[i].game]

-----------------------------------------------------------------------------
(* The directory. *)

Whole(i) == Valid(journal[i])

\* Only the last line may be torn; the others point into games.pgn in order.
LinesInOrder ==
    /\ \A i \in DOMAIN journal : i < Len(journal) => Whole(i)
    /\ \A i \in DOMAIN journal : Whole(i) =>
          /\ journal[i].seq = i /\ journal[i].at >= 1
          /\ journal[i].game \in Games /\ journal[i].game.session <= session
          /\ Number(journal[i].game) = NextNumber(JournalGames, i - 1, journal[i].game.session)
    /\ \A i, k \in DOMAIN journal : i < k /\ Whole(k) => journal[i].at < journal[k].at

\* What the newest checkpoint covers is on the disk, lines and moves.
CheckpointSynced ==
    /\ Covered <= syncedJournal /\ checkpoint.pgn <= syncedPgn
    /\ checkpoint.lines = SubSeq(journal, 1, Covered)
    /\ \A i \in 1..Covered :
          Whole(i) /\ MovesPresent(journal[i]) /\ journal[i].at <= checkpoint.pgn
    /\ \A i \in (Covered + 1)..Len(journal) : Whole(i) => checkpoint.pgn < journal[i].at

NothingYet == session = 0 => ~Up /\ journal = << >> /\ pgn = << >>

-----------------------------------------------------------------------------
(* The writer. *)

Steps ==
    /\ wpc \in {"idle", "moves", "line", "result", "checkpoint", "sync", "syncPgn"}
    /\ wpc = "idle" <=> task = Idle
    /\ wpc \in {"moves", "line"} => task.type = "Game"
    /\ wpc = "result" <=> task.type = "Result"
    /\ wpc = "checkpoint" => task.type = "Checkpoint" /\ ~dirty
    /\ wpc = "syncPgn" => dirty /\ syncedJournal = Len(journal)
    /\ task.type # "Log"
    /\ wpc # "idle" => Up
    /\ failure => task \in {Idle, Tick}

DownIsEmpty ==
    ~Up => /\ queue = << >> /\ official = << >> /\ half = 0
           /\ reply = "none" /\ ~failure /\ ~dirty

\* The writer stands at the end of its files, and every line has its moves.
AtTheEnd ==
    /\ Up => \A i \in DOMAIN journal : Whole(i) => MovesPresent(journal[i])
    /\ Up /\ ~failure =>
          /\ \A i \in DOMAIN journal : Whole(i)
          /\ nextSeq = Len(journal) + 1 /\ pgnOffset = Len(pgn)
    /\ wpc = "line" =>
          /\ pgn # << >> /\ pgn[Len(pgn)] = task.game /\ checkpoint.pgn < Len(pgn)
          /\ \A i \in DOMAIN journal : journal[i].at < Len(pgn)

Holds(type) == \E i \in DOMAIN queue : queue[i].type = type

\* What is not synced is dirty, or will be with the line in run.log.
CleanIsSynced ==
    Up /\ ~failure /\ ~dirty /\ wpc # "line" /\ ~Holds("Log") =>
        syncedJournal = Len(journal) /\ syncedPgn = Len(pgn)

-----------------------------------------------------------------------------
(* The stream of games. *)

Writing == wpc \in {"moves", "line"}

\* The number of the first game behind the one the writer is at.
FirstQueued ==
    NextNumber(JournalGames, Len(journal), session) + (IF Writing THEN 1 ELSE 0)

Sent == 2 * Len(official) + half

IsGame(i) == queue[i].type = "Game"

\* The queue holds the games from there to the last one sent, in order.
Stream ==
    Up /\ ~failure =>
        /\ Writing =>
              /\ task.game.session = session
              /\ Number(task.game) = NextNumber(JournalGames, Len(journal), session)
        /\ FirstQueued <= Sent + 1
        /\ \A i \in DOMAIN queue : IsGame(i) =>
              queue[i].game.session = session /\ Number(queue[i].game) \in FirstQueued..Sent
        /\ \A n \in FirstQueued..Sent :
              \E i \in DOMAIN queue : IsGame(i) /\ Number(queue[i].game) = n
        /\ \A i, k \in DOMAIN queue :
              i < k /\ IsGame(i) /\ IsGame(k) => Number(queue[i].game) < Number(queue[k].game)

InHand(game) ==
    \/ \E i \in DOMAIN journal : journal[i].game = game
    \/ Writing /\ task.game = game
    \/ \E i \in DOMAIN queue : IsGame(i) /\ queue[i].game = game

\* No game the run counts is lost on the way.
OfficialInHand ==
    Up /\ ~failure =>
        /\ \A p \in DOMAIN official, h \in Halves : InHand(official[p][h])
        /\ half = 1 => InHand([pair |-> NextPair, half |-> 1, session |-> session])

-----------------------------------------------------------------------------
(* The end of a run: checkpoint, report, barrier. *)

Wrapping == client \in {"result", "barrier", "settling", "done"}

Flushed == ~dirty /\ task.type # "Game" /\ ~Holds("Game") /\ ~Holds("Log")

EndInOrder ==
    /\ half = 1 => client = "commit" \/ failure
    /\ \A i \in DOMAIN queue : queue[i].type = "Log" => i = 1 /\ task = Idle /\ ~failure
    /\ \A i \in DOMAIN queue : queue[i].type = "Result" =>
          /\ queue[i].games = GamesOf(official)
          /\ \A k \in DOMAIN queue : k > i => queue[k].type = "Barrier"
    /\ task.type = "Result" =>
          /\ task.games = GamesOf(official)
          /\ \A k \in DOMAIN queue : queue[k].type = "Barrier"
    /\ \A i \in DOMAIN queue : queue[i].type = "Barrier" => i = Len(queue)
    /\ task.type = "Barrier" => queue = << >>
    /\ Holds("Result") \/ task.type = "Result" => failure \/ client \in {"barrier", "settling"}
    /\ Holds("Barrier") \/ task.type = "Barrier" => client = "settling" /\ reply = "none"
    /\ reply = "ok" => /\ ~failure /\ queue = << >> /\ task = Idle /\ ~dirty
                       /\ client \in {"settling", "done"}
    /\ reply = "failed" => failure
    /\ reply # "none" => client \in {"settling", "done", "failed"}
    /\ client = "done" => reply = "ok"
    /\ Wrapping /\ ~failure =>
          \/ Flushed
          \/ task.type = "Checkpoint" /\ ~Holds("Game")
          \/ \E i \in DOMAIN queue : /\ queue[i].type = "Checkpoint"
                                     /\ \A k \in DOMAIN queue : k > i => queue[k].type # "Game"

DirectoryInv == LinesInOrder /\ CheckpointSynced /\ NothingYet
WriterInv == Steps /\ DownIsEmpty /\ AtTheEnd /\ CleanIsSynced
ClientInv == Stream /\ OfficialInHand /\ EndInOrder

DurableInv == DurableTypes /\ DirectoryInv /\ WriterInv /\ ClientInv

-----------------------------------------------------------------------------
(* Numbers and sequences. *)

LEMMA LeastNumber ==
    ASSUME NEW S, S \subseteq Nat, S # {}
    PROVE  \E n \in S : \A m \in S : n <= m
<1> DEFINE Less == OpToRel(<, Nat)
<1>1. IsWellFoundedOn(Less, Nat)
  BY NatLessThanWellFounded
<1>2. \A x, y \in Nat : x < y => <<x, y>> \in Less
  BY DEF OpToRel
<1> HIDE DEF Less
<1>3. PICK n \in S : \A m \in S : <<m, n>> \notin Less
  BY <1>1, WFMin
<1>4. ASSUME NEW m \in S PROVE n <= m
  <2>1. n \in Nat /\ m \in Nat
    OBVIOUS
  <2>2. ~ m < n
    BY <2>1, <1>2, <1>3, Zenon
  <2> QED
    BY <2>1, <2>2
<1> QED
  BY <1>4

LEMMA CardinalityOfTwo ==
    ASSUME NEW a, NEW b, a # b
    PROVE  IsFiniteSet({a, b}) /\ Cardinality({a, b}) = 2
<1> DEFINE S == {a}
<1>1. IsFiniteSet(S) /\ Cardinality(S) = 1 /\ b \notin S
  BY FS_Singleton
<1>2. {a, b} = S \cup {b}
  OBVIOUS
<1> HIDE DEF S
<1> QED
  BY <1>1, <1>2, FS_AddElement

LEMMA CardinalityOfThree ==
    ASSUME NEW a, NEW b, NEW c, a # b, a # c, b # c
    PROVE  IsFiniteSet({a, b, c}) /\ Cardinality({a, b, c}) = 3
<1> DEFINE S == {a, b}
<1>1. IsFiniteSet(S) /\ Cardinality(S) = 2 /\ c \notin S
  BY CardinalityOfTwo
<1>2. {a, b, c} = S \cup {c}
  OBVIOUS
<1> HIDE DEF S
<1> QED
  BY <1>1, <1>2, FS_AddElement

LEMMA FirstOfPair ==
    ASSUME NEW p \in Int, NEW h \in 1..2, NEW q \in Int, 2 * (p - 1) + h = 2 * q + 1
    PROVE  h = 1 /\ p = q + 1
<1>1. CASE h = 1
  BY <1>1
<1>2. CASE h = 2
  BY <1>2
<1> QED
  BY <1>1, <1>2

LEMMA NumberSplits ==
    ASSUME NEW p \in Int, NEW h \in 1..2, NEW q \in Int, NEW g \in 1..2,
           2 * (p - 1) + h = 2 * (q - 1) + g + 1
    PROVE  (h = 2 /\ g = 1 /\ p = q) \/ (h = 1 /\ g = 2 /\ p = q + 1)
<1>1. CASE h = 1 /\ g = 1
  BY <1>1
<1>2. CASE h = 1 /\ g = 2
  BY <1>2
<1>3. CASE h = 2 /\ g = 1
  BY <1>3
<1>4. CASE h = 2 /\ g = 2
  BY <1>4
<1> QED
  BY <1>1, <1>2, <1>3, <1>4

-----------------------------------------------------------------------------
(* What pairs_from_journal makes of a schedule. *)

\* From one game to the next the pair stays or, behind a complete pair, goes
\* on to the next one; a pair has three games at most.
LEMMA NextPairOf ==
    ASSUME NEW games \in Seq(Games), IsSchedule(games), NEW i \in 1..Len(games)
    PROVE  /\ games[i].pair \in Pairs /\ games[i].half \in Halves
           /\ i = 1 => games[i].pair = 1
           /\ i > 1 => \/ games[i].pair = games[i - 1].pair
                       \/ /\ games[i].pair = games[i - 1].pair + 1
                          /\ i > 2 /\ games[i - 2].pair = games[i - 1].pair
           /\ i > 3 => ~(/\ games[i - 3].pair = games[i].pair
                         /\ games[i - 2].pair = games[i].pair
                         /\ games[i - 1].pair = games[i].pair)
<1> DEFINE Following(k) == NextNumber(games, k - 1, games[k].session)
<1>1. \A k \in 1..Len(games) :
         /\ games[k].pair \in 1..MaxPairs /\ games[k].half \in 1..2
         /\ games[k].pair \in Nat /\ games[k].half \in Nat
  <2> SUFFICES ASSUME NEW k \in 1..Len(games)
               PROVE  /\ games[k].pair \in 1..MaxPairs /\ games[k].half \in 1..2
                      /\ games[k].pair \in Nat /\ games[k].half \in Nat
    OBVIOUS
  <2>1. games[k] \in Games
    OBVIOUS
  <2>2. games[k].pair \in 1..MaxPairs /\ games[k].half \in 1..2
    BY <2>1 DEF Games, Pairs, Halves
  <2> QED
    BY <2>2, SizeAssumption
<1>2. \A k \in 1..Len(games) : Number(games[k]) = Following(k)
  BY DEF IsSchedule
<1>3. \A k \in 1..Len(games) :
         \/ /\ k > 1
            /\ 2 * (games[k].pair - 1) + games[k].half
                  = 2 * (games[k - 1].pair - 1) + games[k - 1].half + 1
         \/ 2 * (games[k].pair - 1) + games[k].half = 2 * Complete(games, k - 1) + 1
  <2> SUFFICES ASSUME NEW k \in 1..Len(games)
               PROVE  \/ /\ k > 1
                         /\ Number(games[k]) = Number(games[k - 1]) + 1
                      \/ Number(games[k]) = 2 * Complete(games, k - 1) + 1
    BY DEF Number
  <2> QED
    BY <1>2 DEF NextNumber
<1>4. \A k \in 1..Len(games) :
         Complete(games, k - 1) = IF k = 1 THEN 0
                                  ELSE IF k > 2 /\ games[k - 2].pair = games[k - 1].pair
                                  THEN games[k - 1].pair ELSE games[k - 1].pair - 1
  <2> SUFFICES ASSUME NEW k \in 1..Len(games)
               PROVE  Complete(games, k - 1) =
                          IF k = 1 THEN 0
                          ELSE IF k > 2 /\ games[k - 2].pair = games[k - 1].pair
                          THEN games[k - 1].pair ELSE games[k - 1].pair - 1
    OBVIOUS
  <2>1. (k - 1) - 1 = k - 2 /\ (k - 1 = 0 <=> k = 1) /\ (k - 1 > 1 <=> k > 2)
    OBVIOUS
  <2> QED
    BY <2>1 DEF Complete
\* Behind a first game the session's next one is the second of the same pair.
<1>5. \A k \in 1..Len(games) :
         \/ games[k].half = 1 /\ games[k].pair = Complete(games, k - 1) + 1
         \/ /\ k > 1 /\ games[k].half = 2 /\ games[k - 1].half = 1
            /\ games[k].pair = games[k - 1].pair
         \/ /\ k > 1 /\ games[k].half = 1 /\ games[k - 1].half = 2
            /\ games[k].pair = games[k - 1].pair + 1
  <2> SUFFICES ASSUME NEW k \in 1..Len(games)
               PROVE  \/ games[k].half = 1 /\ games[k].pair = Complete(games, k - 1) + 1
                      \/ /\ k > 1 /\ games[k].half = 2 /\ games[k - 1].half = 1
                         /\ games[k].pair = games[k - 1].pair
                      \/ /\ k > 1 /\ games[k].half = 1 /\ games[k - 1].half = 2
                         /\ games[k].pair = games[k - 1].pair + 1
    OBVIOUS
  <2>1. k > 1 => k - 1 \in 1..Len(games)
    OBVIOUS
  <2>2. k > 2 => k - 2 \in 1..Len(games)
    OBVIOUS
  <2>3. /\ games[k].pair \in Nat /\ games[k].half \in 1..2
        /\ k > 1 => games[k - 1].pair \in Nat /\ games[k - 1].half \in 1..2
    BY <1>1, <2>1
  <2>4. Complete(games, k - 1) \in Int
    <3>1. CASE k = 1
      BY <1>4, <3>1
    <3>2. CASE k > 1
      <4>1. games[k - 1].pair \in Int /\ games[k - 1].pair - 1 \in Int
        BY <2>3, <3>2
      <4> QED
        BY <1>4, <3>2, <4>1
    <3> QED
      BY <3>1, <3>2
  <2> DEFINE p == games[k].pair
             h == games[k].half
             q == games[k - 1].pair
             g == games[k - 1].half
             c == Complete(games, k - 1)
  <2>5. p \in Int /\ h \in 1..2 /\ c \in Int /\ (k > 1 => q \in Int /\ g \in 1..2)
    BY <2>3, <2>4
  <2>6. \/ k > 1 /\ 2 * (p - 1) + h = 2 * (q - 1) + g + 1
        \/ 2 * (p - 1) + h = 2 * c + 1
    BY <1>3
  <2>7. \/ h = 1 /\ p = c + 1
        \/ k > 1 /\ h = 2 /\ g = 1 /\ p = q
        \/ k > 1 /\ h = 1 /\ g = 2 /\ p = q + 1
    <3> HIDE DEF p, h, q, g, c
    <3> QED
      BY <2>5, <2>6, FirstOfPair, NumberSplits
  <2> QED
    BY <2>7, Zenon
<1>6. i = 1 => games[i].pair = 1
  BY <1>4, <1>5
<1>7. i > 1 => i - 1 \in 1..Len(games)
  OBVIOUS
<1>8. i > 2 => i - 2 \in 1..Len(games)
  OBVIOUS
<1>9. i > 1 => \/ games[i].pair = games[i - 1].pair
               \/ /\ games[i].pair = games[i - 1].pair + 1
                  /\ i > 2 /\ games[i - 2].pair = games[i - 1].pair
  <2> SUFFICES ASSUME i > 1 PROVE \/ games[i].pair = games[i - 1].pair
                                  \/ /\ games[i].pair = games[i - 1].pair + 1
                                     /\ i > 2 /\ games[i - 2].pair = games[i - 1].pair
    OBVIOUS
  <2>1. CASE games[i].pair = Complete(games, i - 1) + 1
    BY <1>1, <1>4, <1>7, <1>8, <2>1, SMTT(30)
  <2>2. CASE games[i].pair = games[i - 1].pair + 1 /\ games[i - 1].half = 2
    <3>1. i - 1 > 1 /\ games[i - 1].pair = games[(i - 1) - 1].pair
      BY <1>5, <1>7, <2>2
    <3>2. (i - 1) - 1 = i - 2
      OBVIOUS
    <3> QED
      BY <2>2, <3>1, <3>2
  <2> QED
    BY <1>5, <2>1, <2>2
<1>10. i > 3 => ~(/\ games[i - 3].pair = games[i].pair
                  /\ games[i - 2].pair = games[i].pair
                  /\ games[i - 1].pair = games[i].pair)
  <2> SUFFICES ASSUME i > 3, games[i - 3].pair = games[i].pair,
                      games[i - 2].pair = games[i].pair, games[i - 1].pair = games[i].pair
               PROVE  FALSE
    OBVIOUS
  <2>1. i - 1 \in 1..Len(games) /\ (i - 1) - 1 = i - 2 /\ (i - 1) - 2 = i - 3
    OBVIOUS
  <2>2. Complete(games, i - 1) = games[i].pair /\ Complete(games, (i - 1) - 1) = games[i].pair
    BY <1>4, <2>1
  <2>3. games[i - 1].half = 2
    BY <1>1, <1>5, <2>1, <2>2
  <2>4. games[i].pair \in Nat
    BY <1>1
  <2> QED
    BY <1>5, <2>2, <2>3, <2>4
<1> QED
  BY <1>1, <1>6, <1>9, <1>10 DEF Pairs, Halves

LEMMA PairsAscend ==
    ASSUME NEW games \in Seq(Games), IsSchedule(games),
           NEW i \in 1..Len(games), NEW k \in i..Len(games)
    PROVE  games[i].pair <= games[k].pair
<1> DEFINE Below == {n \in i..Len(games) : ~(games[i].pair <= games[n].pair)}
<1> SUFFICES ASSUME Below # {} PROVE FALSE
  OBVIOUS
<1>0. Below \subseteq Nat
  OBVIOUS
<1> HIDE DEF Below
<1>1. PICK n \in Below : \A m \in Below : n <= m
  BY <1>0, LeastNumber
<1> USE DEF Below
<1>2. n # i
  BY NextPairOf DEF Pairs
<1>3. n - 1 \in i..Len(games) /\ n - 1 \notin Below
  BY <1>1, <1>2
<1>4. \A m \in 1..Len(games) : games[m].pair \in Nat
  BY NextPairOf, SizeAssumption DEF Pairs
<1>5. n \in 1..Len(games) /\ n - 1 \in 1..Len(games) /\ n > 1
  BY <1>1, <1>2, <1>3
<1>6. games[n].pair = games[n - 1].pair \/ games[n].pair = games[n - 1].pair + 1
  BY <1>5, NextPairOf
<1>7. games[n].pair >= games[n - 1].pair
  BY <1>4, <1>5, <1>6
<1>8. ~(games[i].pair <= games[n].pair) /\ games[i].pair <= games[n - 1].pair
  BY <1>1, <1>3
<1> QED
  BY <1>4, <1>5, <1>7, <1>8, SMTT(30)

\* The second game of a pair completes it, with the game before.
LEMMA CompletingIs ==
    ASSUME NEW games \in Seq(Games), IsSchedule(games), NEW i \in 1..Len(games)
    PROVE  /\ i \in Completing(games) <=>
                 /\ i > 1 /\ games[i - 1].pair = games[i].pair
                 /\ ~(i > 2 /\ games[i - 2].pair = games[i].pair)
           /\ i \in Completing(games) => Other(games, i) = i - 1
<1> DEFINE same == {k \in 1..i : games[k].pair = games[i].pair}
<1>1. i \in Completing(games) <=> Cardinality(same) % 2 = 0
  BY DEF Completing
<1>2. \A k \in 1..i : /\ games[k].pair \in Nat
                      /\ games[k].pair <= games[i].pair
                      /\ \A m \in k..i : games[k].pair <= games[m].pair
                                         /\ games[m].pair <= games[i].pair
  <2> SUFFICES ASSUME NEW k \in 1..i, NEW m \in k..i
               PROVE  /\ games[k].pair \in Nat
                      /\ games[k].pair <= games[i].pair
                      /\ games[k].pair <= games[m].pair /\ games[m].pair <= games[i].pair
    <3> HIDE DEF same
    <3> QED
      OBVIOUS
  <2>1. /\ k \in 1..Len(games) /\ m \in 1..Len(games) /\ m \in k..Len(games)
        /\ i \in k..Len(games) /\ i \in m..Len(games)
    OBVIOUS
  <2>2. games[k].pair \in Nat
    BY <2>1, NextPairOf DEF Pairs
  <2> QED
    BY <2>1, <2>2, PairsAscend
<1>3. CASE ~(i > 1 /\ games[i - 1].pair = games[i].pair)
  <2>1. same = {i}
    <3>1. ASSUME NEW k \in same, k # i PROVE FALSE
      <4>1. i - 1 \in k..i /\ i > 1 /\ k \in 1..i
        BY <3>1
      <4>2. games[k].pair <= games[i - 1].pair /\ games[i - 1].pair <= games[i].pair
        BY <1>2, <4>1
      <4>3. games[k].pair \in Nat /\ games[i - 1].pair \in Nat
        BY <1>2, <4>1
      <4> QED
        BY <1>3, <3>1, <4>1, <4>2, <4>3
    <3> QED
      BY <3>1
  <2>2. Cardinality(same) = 1
    BY <2>1, FS_Singleton
  <2> QED
    BY <1>1, <1>3, <2>2
<1>4. CASE i > 1 /\ games[i - 1].pair = games[i].pair /\ ~(i > 2 /\ games[i - 2].pair = games[i].pair)
  <2>1. same = {i - 1, i}
    <3>1. ASSUME NEW k \in same, k # i, k # i - 1 PROVE FALSE
      <4>1. i - 2 \in k..i /\ i > 2 /\ k \in 1..i
        BY <3>1
      <4>2. games[k].pair <= games[i - 2].pair /\ games[i - 2].pair <= games[i].pair
        BY <1>2, <4>1
      <4>3. games[k].pair \in Nat /\ games[i - 2].pair \in Nat
        BY <1>2, <4>1
      <4> QED
        BY <1>4, <3>1, <4>1, <4>2, <4>3
    <3> QED
      BY <1>4, <3>1
  <2>2. Cardinality(same) = 2
    <3>1. i - 1 # i
      OBVIOUS
    <3> HIDE DEF same
    <3> QED
      BY <2>1, <3>1, CardinalityOfTwo
  <2>4. i \in Completing(games)
    <3> HIDE DEF same
    <3> QED
      BY <1>1, <2>2
  <2>5. Other(games, i) = i - 1
    <3> DEFINE P(k) == /\ games[k].pair = games[i].pair
                       /\ \A j \in (k + 1)..(i - 1) : games[j].pair # games[i].pair
    <3>1. i - 1 \in 1..(i - 1) /\ P(i - 1)
      BY <1>4
    <3>2. ASSUME NEW k \in 1..(i - 1), P(k) PROVE k = i - 1
      <4> SUFFICES ASSUME k # i - 1 PROVE FALSE
        OBVIOUS
      <4>1. i - 1 \in (k + 1)..(i - 1)
        OBVIOUS
      <4> QED
        BY <1>4, <3>2, <4>1
    <3>3. Other(games, i) = CHOOSE k \in 1..(i - 1) : P(k)
      BY DEF Other
    <3> HIDE DEF P
    <3> QED
      BY <3>1, <3>2, <3>3
  <2> QED
    BY <1>4, <2>4, <2>5
<1>5. CASE i > 1 /\ games[i - 1].pair = games[i].pair /\ i > 2 /\ games[i - 2].pair = games[i].pair
  <2>1. same = {i - 2, i - 1, i}
    <3>1. ASSUME NEW k \in same, k # i, k # i - 1, k # i - 2 PROVE FALSE
      <4>1. i - 3 \in k..i /\ i > 3 /\ k \in 1..i
        BY <3>1
      <4>2. games[k].pair <= games[i - 3].pair /\ games[i - 3].pair <= games[i].pair
        BY <1>2, <4>1
      <4>3. games[k].pair \in Nat /\ games[i - 3].pair \in Nat
        BY <1>2, <4>1
      <4>4. games[i - 3].pair = games[i].pair
        BY <3>1, <4>2, <4>3, SMTT(30)
      <4> QED
        BY <1>5, <4>1, <4>4, NextPairOf
    <3> QED
      BY <1>5, <3>1
  <2>2. Cardinality(same) = 3
    <3>1. i - 2 # i - 1 /\ i - 2 # i /\ i - 1 # i
      OBVIOUS
    <3> HIDE DEF same
    <3> QED
      BY <2>1, <3>1, CardinalityOfThree
  <2>3. i \notin Completing(games)
    <3> HIDE DEF same
    <3> QED
      BY <1>1, <2>2
  <2> QED
    BY <1>5, <2>3
<1> QED
  BY <1>3, <1>4, <1>5

LEMMA CompleteType ==
    ASSUME NEW games \in Seq(Games), IsSchedule(games)
    PROVE  /\ Complete(games, Len(games)) \in 0..MaxPairs
           /\ games # << >> =>
                 /\ Complete(games, Len(games)) <= games[Len(games)].pair
                 /\ games[Len(games)].pair <= Complete(games, Len(games)) + 1
<1>1. CASE games = << >>
  BY <1>1, SizeAssumption DEF Complete
<1>2. CASE games # << >>
  <2>1. Len(games) \in 1..Len(games) /\ Len(games) # 0
    BY <1>2
  <2> DEFINE p == games[Len(games)].pair
  <2>2. p \in 1..MaxPairs
    BY <2>1, NextPairOf DEF Pairs
  <2>3. Complete(games, Len(games)) \in {p, p - 1}
    BY <2>1 DEF Complete
  <2> HIDE DEF p
  <2>4. p - 1 \in 0..MaxPairs /\ p \in 0..MaxPairs /\ p - 1 <= p /\ p <= p + 1 /\ p = (p - 1) + 1
    BY <2>2, SizeAssumption
  <2> QED
    BY <1>2, <2>3, <2>4 DEF p
<1> QED
  BY <1>1, <1>2

\* A pair of two games has a game that completes it.
LEMMA TwoGamesComplete ==
    ASSUME NEW games \in Seq(Games), IsSchedule(games), NEW m \in 2..Len(games),
           games[m - 1].pair = games[m].pair
    PROVE  \E i \in Completing(games) : games[i].pair = games[m].pair
<1> DEFINE S == {k \in 1..m : games[k].pair = games[m].pair}
<1>0. S \subseteq Nat /\ S # {} /\ m - 1 \in S
  <2> m - 1 \in 1..m
    OBVIOUS
  <2> QED
    OBVIOUS
<1>1. PICK j \in S : \A k \in S : j <= k
  <2> HIDE DEF S
  <2> QED
    BY <1>0, LeastNumber
<1>2. j <= m - 1 /\ j \in 1..m /\ games[j].pair = games[m].pair
  BY <1>0, <1>1
<1>3. /\ j + 1 \in 1..Len(games) /\ j \in 1..Len(games) /\ j + 1 \in j..Len(games)
      /\ m \in (j + 1)..Len(games) /\ (j + 1) - 1 = j /\ (j + 1) - 2 = j - 1 /\ j + 1 > 1
  BY <1>2
<1>4. games[j + 1].pair = games[m].pair
  <2>1. games[j].pair <= games[j + 1].pair /\ games[j + 1].pair <= games[m].pair
    BY <1>3, PairsAscend
  <2>2. games[j].pair \in Nat /\ games[j + 1].pair \in Nat
    BY <1>3, NextPairOf DEF Pairs
  <2> QED
    BY <1>2, <2>1, <2>2
<1>5. ~(j + 1 > 2 /\ games[j - 1].pair = games[m].pair)
  <2> SUFFICES ASSUME j + 1 > 2, games[j - 1].pair = games[m].pair PROVE FALSE
    OBVIOUS
  <2>1. j - 1 \in S
    BY <1>2
  <2> QED
    BY <1>1, <1>2, <2>1
<1>6. j + 1 \in Completing(games)
  BY <1>2, <1>3, <1>4, <1>5, CompletingIs
<1> QED
  BY <1>4, <1>6

\* The completing games have the pairs 1 to the last complete one, once each.
LEMMA CompletingPairs ==
    ASSUME NEW games \in Seq(Games), IsSchedule(games)
    PROVE  /\ \A i \in Completing(games) :
                 /\ i \in 2..Len(games)
                 /\ games[i].pair \in 1..Complete(games, Len(games))
           /\ \A i, k \in Completing(games) : games[i].pair = games[k].pair => i = k
           /\ \A p \in 1..Complete(games, Len(games)) :
                 \E i \in Completing(games) : games[i].pair = p
<1> DEFINE n == Len(games)
           K == Complete(games, n)
<1>0. K \in Nat /\ n \in Nat
  BY CompleteType, SizeAssumption
<1>1. \A i \in Completing(games) : i \in 2..n /\ games[i - 1].pair = games[i].pair
                                   /\ ~(i > 2 /\ games[i - 2].pair = games[i].pair)
  <2> SUFFICES ASSUME NEW i \in Completing(games)
               PROVE  i \in 2..n /\ games[i - 1].pair = games[i].pair
                      /\ ~(i > 2 /\ games[i - 2].pair = games[i].pair)
    OBVIOUS
  <2>1. i \in 1..n
    BY DEF Completing
  <2> QED
    BY <2>1, CompletingIs
<1>2. \A i \in 1..n : games[i].pair \in 1..MaxPairs /\ games[i].pair \in Nat
  BY NextPairOf DEF Pairs
<1>3. ASSUME NEW i \in Completing(games) PROVE games[i].pair \in 1..K
  <2>1. i \in 1..n /\ i - 1 \in 1..n /\ n \in i..n /\ n \in 1..n /\ games # << >>
    BY <1>0, <1>1
  <2>2. games[i].pair <= games[n].pair
    BY <2>1, PairsAscend
  <2>3. games[n].pair <= K + 1 /\ K <= games[n].pair
    BY <2>1, CompleteType
  <2>4. ASSUME games[i].pair = games[n].pair PROVE K = games[n].pair
    <3>1. n > 1 /\ n - 1 \in (i - 1)..n /\ n \in (n - 1)..n /\ n - 1 \in 1..n /\ n # 0
      BY <1>0, <1>1
    <3>2. games[i - 1].pair <= games[n - 1].pair /\ games[n - 1].pair <= games[n].pair
      BY <2>1, <3>1, PairsAscend
    <3>3. games[n - 1].pair = games[n].pair
      BY <1>1, <1>2, <2>1, <2>4, <3>1, <3>2
    <3> QED
      BY <3>1, <3>3 DEF Complete
  <2>5. games[i].pair \in 1..MaxPairs /\ games[n].pair \in Nat
    BY <1>2, <2>1
  <2> QED
    BY <1>0, <2>2, <2>3, <2>4, <2>5
<1>4. ASSUME NEW i \in Completing(games), NEW k \in Completing(games),
             games[i].pair = games[k].pair, i < k
      PROVE  FALSE
  <2>1. i \in 2..n /\ k \in 2..n
    BY <1>1
  <2>2. i # k - 1
    <3> SUFFICES ASSUME i = k - 1 PROVE FALSE
      OBVIOUS
    <3>1. i - 1 = k - 2 /\ k > 2
      BY <2>1
    <3> QED
      BY <1>1, <1>4, <3>1
  <2>3. k > 2 /\ k - 2 \in 1..n /\ k - 2 \in i..n /\ k \in (k - 2)..n /\ i \in 1..n /\ k \in 1..n
    BY <1>4, <2>1, <2>2
  <2>4. games[i].pair <= games[k - 2].pair /\ games[k - 2].pair <= games[k].pair
    BY <2>3, PairsAscend
  <2>5. games[k - 2].pair = games[k].pair
    BY <1>2, <1>4, <2>3, <2>4
  <2> QED
    BY <1>1, <2>3, <2>5
<1>5. ASSUME NEW i \in Completing(games), NEW k \in Completing(games),
             games[i].pair = games[k].pair
      PROVE  i = k
  <2>1. i \in Int /\ k \in Int
    BY <1>1
  <2>2. ~(i < k) /\ ~(k < i)
    BY <1>4, <1>5
  <2> QED
    BY <2>1, <2>2
<1>6. ASSUME NEW p \in 1..K PROVE \E i \in Completing(games) : games[i].pair = p
  <2>0. games # << >> /\ n \in 1..n
    <3>1. CASE games = << >>
      BY <3>1 DEF Complete
    <3> QED
      BY <3>1
  <2>1. K <= games[n].pair /\ games[n].pair <= K + 1 /\ games[n].pair \in Nat
    BY <1>2, <2>0, CompleteType
  <2>2. CASE p = games[n].pair
    <3>1. n > 1 /\ games[n - 1].pair = games[n].pair
      <4>1. K = games[n].pair /\ games[n].pair - 1 # games[n].pair
        BY <1>0, <2>1, <2>2
      <4> QED
        BY <2>0, <4>1 DEF Complete
    <3>2. n \in 2..Len(games)
      BY <3>1
    <3> QED
      BY <2>2, <3>1, <3>2, TwoGamesComplete
  <2>3. CASE p # games[n].pair
    <3> DEFINE S == {k \in 1..n : games[k].pair > p}
    <3>1. n \in S /\ S \subseteq Nat
      BY <1>0, <2>0, <2>1, <2>3
    <3>2. PICK i \in S : \A k \in S : i <= k
      <4> HIDE DEF S
      <4> QED
        BY <3>1, LeastNumber
    <3>3. i \in 1..n /\ games[i].pair > p /\ games[i].pair \in Nat
      BY <1>2, <3>2
    <3>4. i # 1
      <4> SUFFICES ASSUME i = 1 PROVE FALSE
        OBVIOUS
      <4>1. games[i].pair = 1
        BY <3>3, NextPairOf
      <4> QED
        BY <3>3, <4>1
    <3>5. i > 1 /\ i - 1 \in 1..n /\ i - 1 \notin S
      BY <3>2, <3>3, <3>4
    <3>6. games[i - 1].pair <= p /\ games[i - 1].pair \in Nat
      BY <1>2, <3>5
    <3>7. games[i].pair = games[i - 1].pair + 1 /\ i > 2 /\ games[i - 2].pair = games[i - 1].pair
      <4>1. games[i].pair # games[i - 1].pair
        BY <3>3, <3>6
      <4> QED
        BY <3>3, <3>5, <4>1, NextPairOf
    <3>8. games[i - 1].pair = p
      BY <3>3, <3>6, <3>7
    <3>9. i - 1 \in 2..Len(games) /\ (i - 1) - 1 = i - 2
      BY <3>3, <3>7
    <3> QED
      BY <3>7, <3>8, <3>9, TwoGamesComplete
  <2> QED
    BY <2>2, <2>3
<1> QED
  BY <1>1, <1>3, <1>5, <1>6

\* So pairs_from_journal has the pairs 1 to the last complete one, each of two
\* games next to each other in the journal.
LEMMA SchedulePairs ==
    ASSUME NEW games \in Seq(Games), IsSchedule(games)
    PROVE  LET pairs == PairsFromJournal(games)
               K == Complete(games, Len(games))
           IN  /\ K \in 0..MaxPairs
               /\ pairs \in Seq([Halves -> Games]) /\ Len(pairs) = K
               /\ \A p \in 1..K : pairs[p][1].pair = p
               /\ \A p \in 1..K, h \in Halves :
                     \E i \in 1..Len(games) : pairs[p][h] = games[i]
<1> DEFINE complete == Completing(games)
           K == Complete(games, Len(games))
           At(p) == CHOOSE i \in complete :
                        Cardinality({k \in complete : Precedes(games, k, i)}) = p - 1
           Below(p) == {k \in complete : games[k].pair < p}
<1>0. K \in 0..MaxPairs /\ K \in Nat
  BY CompleteType, SizeAssumption
<1>1. /\ \A i \in complete : i \in 2..Len(games) /\ games[i].pair \in 1..K
      /\ \A i, k \in complete : games[i].pair = games[k].pair => i = k
      /\ \A p \in 1..K : \E i \in complete : games[i].pair = p
  BY CompletingPairs
<1> HIDE DEF complete, K
<1>2. ASSUME NEW p \in 1..(K + 1) PROVE Cardinality(Below(p)) = p - 1
  <2> DEFINE f == [i \in 1..(p - 1) |-> CHOOSE k \in complete : games[k].pair = i]
  <2>1. \A i \in 1..(p - 1) : f[i] \in complete /\ games[f[i]].pair = i
    <3> SUFFICES ASSUME NEW i \in 1..(p - 1)
                 PROVE  f[i] \in complete /\ games[f[i]].pair = i
      OBVIOUS
    <3>1. i \in 1..K
      BY <1>0
    <3> QED
      BY <1>1, <3>1
  <2>2. \A i \in 1..(p - 1) : i < p
    OBVIOUS
  <2>3. f \in [1..(p - 1) -> Below(p)]
    BY <2>1, <2>2
  <2>4. \A i, k \in 1..(p - 1) : f[i] = f[k] => i = k
    BY <2>1
  <2>5. \A k \in Below(p) : \E i \in 1..(p - 1) : f[i] = k
    <3> SUFFICES ASSUME NEW k \in Below(p) PROVE \E i \in 1..(p - 1) : f[i] = k
      OBVIOUS
    <3>1. games[k].pair \in 1..(p - 1) /\ k \in complete
      BY <1>0, <1>1
    <3>2. f[games[k].pair] = k
      BY <1>1, <2>1, <3>1
    <3> QED
      BY <3>1, <3>2
  <2>6. f \in Bijection(1..(p - 1), Below(p))
    <3> HIDE DEF f, Below
    <3> QED
      BY <2>3, <2>4, <2>5 DEF Bijection, Injection, Surjection, IsInjective
  <2>7. ExistsBijection(1..(p - 1), Below(p))
    BY <2>6 DEF ExistsBijection
  <2>8. IsFiniteSet(1..(p - 1)) /\ Cardinality(1..(p - 1)) = p - 1
    <3>1. p - 1 \in Int /\ 1 \in Int /\ p - 1 >= 0
      BY <1>0
    <3>2. IsFiniteSet(1..(p - 1)) /\ Cardinality(1..(p - 1)) = IF 1 > p - 1 THEN 0 ELSE (p - 1) - 1 + 1
      BY <3>1, FS_Interval
    <3> QED
      BY <3>1, <3>2
  <2> HIDE DEF Below
  <2> QED
    BY <2>7, <2>8, FS_Bijection
<1>3. ASSUME NEW i \in complete
      PROVE  Cardinality({k \in complete : Precedes(games, k, i)}) = games[i].pair - 1
  <2>1. {k \in complete : Precedes(games, k, i)} = Below(games[i].pair)
    <3> SUFFICES ASSUME NEW k \in complete
                 PROVE  Precedes(games, k, i) <=> games[k].pair < games[i].pair
      OBVIOUS
    <3>1. games[k].pair = games[i].pair => k = i /\ ~(k < i)
      BY <1>1
    <3> QED
      BY <3>1 DEF Precedes
  <2>2. games[i].pair \in 1..(K + 1)
    BY <1>0, <1>1
  <2> QED
    BY <1>2, <2>1, <2>2
<1>4. Cardinality(complete) = K
  <2>1. complete = Below(K + 1)
    BY <1>0, <1>1
  <2>2. K + 1 \in 1..(K + 1) /\ (K + 1) - 1 = K
    BY <1>0
  <2> HIDE DEF Below
  <2> QED
    BY <1>2, <2>1, <2>2
<1>5. ASSUME NEW p \in 1..K
      PROVE  At(p) \in complete /\ games[At(p)].pair = p
  <2>1. PICK i \in complete : games[i].pair = p
    BY <1>1
  <2>2. Cardinality({k \in complete : Precedes(games, k, i)}) = p - 1
    BY <1>3, <2>1
  <2>3. At(p) \in complete
        /\ Cardinality({k \in complete : Precedes(games, k, At(p))}) = p - 1
    BY <2>2
  <2> HIDE DEF At
  <2>4. games[At(p)].pair - 1 = p - 1 /\ games[At(p)].pair \in 1..K
    BY <1>1, <1>3, <2>3
  <2> QED
    BY <1>0, <2>3, <2>4
<1>6. PairsFromJournal(games) =
         [p \in 1..K |-> InPairOrder(games[Other(games, At(p))], games[At(p)])]
  BY <1>4 DEF PairsFromJournal, complete
<1> DEFINE pairs == PairsFromJournal(games)
<1>7. ASSUME NEW p \in 1..K
      PROVE  /\ pairs[p] \in [Halves -> Games]
             /\ pairs[p][1].pair = p
             /\ \A h \in Halves : \E i \in 1..Len(games) : pairs[p][h] = games[i]
  <2> DEFINE i == At(p)
  <2>1. i \in 2..Len(games) /\ i \in complete /\ games[i].pair = p
    BY <1>1, <1>5
  <2> HIDE DEF i
  <2>2. i \in 1..Len(games) /\ i - 1 \in 1..Len(games)
    BY <2>1
  <2>3. Other(games, i) = i - 1 /\ games[i - 1].pair = p
    BY <2>1, <2>2, CompletingIs DEF complete
  <2>4. games[i - 1] \in Games /\ games[i] \in Games
    BY <2>2
  <2>5. pairs[p] = InPairOrder(games[i - 1], games[i])
    BY <1>6, <2>3 DEF i
  <2>6. pairs[p] = <<games[i - 1], games[i]>> \/ pairs[p] = <<games[i], games[i - 1]>>
    BY <2>5 DEF InPairOrder
  <2> HIDE DEF pairs
  <2>7. ASSUME NEW a \in 1..Len(games), NEW b \in 1..Len(games), pairs[p] = <<games[a], games[b]>>,
               games[a] \in Games, games[b] \in Games, games[a].pair = p
        PROVE  /\ pairs[p] \in [Halves -> Games]
               /\ pairs[p][1].pair = p
               /\ \A h \in Halves : \E k \in 1..Len(games) : pairs[p][h] = games[k]
    <3>1. pairs[p][1] = games[a] /\ pairs[p][2] = games[b] /\ Halves = {1, 2}
      BY <2>7 DEF Halves
    <3>2. <<games[a], games[b]>> \in [Halves -> Games]
      BY <2>7 DEF Halves
    <3> QED
      BY <2>7, <3>1, <3>2
  <2> QED
    BY <2>1, <2>2, <2>3, <2>4, <2>6, <2>7
<1>8. pairs \in Seq([Halves -> Games]) /\ Len(pairs) = K
  <2>1. DOMAIN pairs = 1..K /\ pairs = [p \in 1..K |-> pairs[p]]
    BY <1>6
  <2> HIDE DEF pairs
  <2> QED
    BY <1>0, <1>7, <2>1
<1> QED
  BY <1>0, <1>7, <1>8 DEF K

-----------------------------------------------------------------------------
(* Loading a directory of this shape. *)

\* What NextNumber says depends on the games before it only.
LEMMA SameNextNumber ==
    ASSUME NEW a, NEW b, NEW n \in Nat, NEW by, \A i \in 1..n : a[i] = b[i]
    PROVE  NextNumber(a, n, by) = NextNumber(b, n, by)
<1>1. CASE n = 0
  BY <1>1 DEF NextNumber, Complete
<1>2. CASE n # 0
  <2>1. a[n] = b[n] /\ (n > 1 => a[n - 1] = b[n - 1])
    BY <1>2
  <2>2. Complete(a, n) = Complete(b, n)
    BY <2>1 DEF Complete
  <2> QED
    BY <2>1, <2>2 DEF NextNumber
<1> QED
  BY <1>1, <1>2

LEMMA CoveredType ==
    ASSUME DurableTypes, CheckpointSynced
    PROVE  /\ Covered \in Nat /\ Covered <= Len(journal) /\ Len(journal) \in Nat
           /\ Len(pgn) \in Nat /\ checkpoint.pgn \in Nat /\ checkpoint.pgn <= Len(pgn)
           /\ \A i \in 1..Len(journal) :
                 journal[i] \in Lines /\ journal[i].at \in Nat /\ journal[i].game \in Games \cup {Torn}
<1>1. /\ journal \in Seq(Lines) /\ pgn \in Seq(Games \cup {Torn})
      /\ checkpoint.lines \in Seq(Lines) /\ checkpoint.pgn \in Nat
      /\ syncedJournal \in 0..Len(journal) /\ syncedPgn \in 0..Len(pgn)
      /\ Covered <= syncedJournal /\ checkpoint.pgn <= syncedPgn
  BY DEF DurableTypes, CheckpointSynced
<1>2. Len(journal) \in Nat /\ Len(pgn) \in Nat /\ Covered \in Nat
  BY <1>1 DEF Covered
<1>3. \A i \in 1..Len(journal) : journal[i] \in Lines
  BY <1>1
<1>4. \A line \in Lines : line.at \in Nat /\ line.game \in Games \cup {Torn}
  BY DEF Lines
<1> QED
  BY <1>1, <1>2, <1>3, <1>4

LEMMA MovesInOrder ==
    ASSUME DurableTypes, LinesInOrder
    PROVE  \A i, k \in 1..Len(journal) : i < k /\ Whole(k) => journal[i].at < journal[k].at
<1>1. DOMAIN journal = 1..Len(journal)
  BY DEF DurableTypes
<1> QED
  BY <1>1 DEF LinesInOrder

\* Only a torn last line is invalid.
LEMMA ValidLinesIs ==
    ASSUME DurableTypes, LinesInOrder, CheckpointSynced
    PROVE  /\ ValidLines \in Covered..Len(journal)
           /\ \A i \in 1..ValidLines : Whole(i)
           /\ ValidLines < Len(journal) => ValidLines + 1 = Len(journal) /\ ~Whole(Len(journal))
<1> DEFINE P(n) == /\ \A i \in (Covered + 1)..n : Whole(i)
                   /\ n < Len(journal) => ~Whole(n + 1)
<1>1. Covered \in Nat /\ Len(journal) \in Nat /\ Covered <= Len(journal)
  BY CoveredType
<1>2. \A i \in 1..Covered : Whole(i)
  BY DEF CheckpointSynced
<1>3. \A i \in 1..Len(journal) : i < Len(journal) => Whole(i)
  BY DEF LinesInOrder, DurableTypes
<1>4. ValidLines = CHOOSE n \in Covered..Len(journal) : P(n)
  BY DEF ValidLines, Whole
<1>5. \E n \in Covered..Len(journal) : P(n)
  <2>1. CASE Len(journal) = Covered \/ Whole(Len(journal))
    <3>1. Len(journal) \in Covered..Len(journal) /\ P(Len(journal))
      BY <1>1, <1>3, <2>1
    <3> QED
      BY <3>1
  <2>2. CASE Len(journal) # Covered /\ ~Whole(Len(journal))
    <3>1. Len(journal) - 1 \in Covered..Len(journal) /\ P(Len(journal) - 1)
      BY <1>1, <1>3, <2>2
    <3> QED
      BY <3>1
  <2> QED
    BY <2>1, <2>2
<1>6. ValidLines \in Covered..Len(journal) /\ P(ValidLines)
  <2> HIDE DEF P
  <2> QED
    BY <1>4, <1>5
<1> QED
  BY <1>1, <1>2, <1>3, <1>6

LEMMA KeptIs ==
    ASSUME DurableTypes, LinesInOrder, CheckpointSynced
    PROVE  /\ Kept \in Covered..Len(journal) /\ Kept \in Nat
           /\ \A i \in 1..Kept : Whole(i) /\ MovesPresent(journal[i])
           /\ Kept < Len(journal) => ~(Whole(Kept + 1) /\ MovesPresent(journal[Kept + 1]))
<1> DEFINE P(n) == /\ \A i \in (Covered + 1)..n : MovesPresent(journal[i])
                   /\ n < ValidLines => ~MovesPresent(journal[n + 1])
           S == {n \in Covered..ValidLines : n = ValidLines \/ ~MovesPresent(journal[n + 1])}
<1>1. /\ Covered \in Nat /\ Len(journal) \in Nat /\ ValidLines \in Covered..Len(journal)
      /\ \A i \in 1..ValidLines : Whole(i)
      /\ ValidLines < Len(journal) => ~Whole(ValidLines + 1)
  BY CoveredType, ValidLinesIs
<1>2. \A i \in 1..Covered : MovesPresent(journal[i])
  BY DEF CheckpointSynced
<1>3. Kept = CHOOSE n \in Covered..ValidLines : P(n)
  BY DEF Kept
<1>4. \E n \in Covered..ValidLines : P(n)
  <2>1. ValidLines \in S /\ S \subseteq Nat
    BY <1>1
  <2>2. PICK n \in S : \A m \in S : n <= m
    <3> HIDE DEF S
    <3> QED
      BY <2>1, LeastNumber
  <2>3. ASSUME NEW i \in (Covered + 1)..n PROVE MovesPresent(journal[i])
    <3>1. i - 1 \notin S /\ i - 1 \in Covered..ValidLines /\ (i - 1) + 1 = i
      BY <1>1, <2>2, SMTT(30)
    <3> QED
      BY <3>1
  <2>4. P(n)
    BY <1>1, <2>3
  <2> QED
    BY <2>4
<1>5. Kept \in Covered..ValidLines /\ P(Kept)
  <2> HIDE DEF P
  <2> QED
    BY <1>3, <1>4
<1> QED
  BY <1>1, <1>2, <1>5

\* load_journal accepts the directory, and what it keeps is a schedule.
LEMMA LoadsIt ==
    ASSUME DurableTypes, LinesInOrder, CheckpointSynced
    PROVE  /\ ~Refused
           /\ Records \in Seq(Games) /\ Len(Records) = Kept /\ IsSchedule(Records)
           /\ \A i \in 1..Kept : Records[i] = journal[i].game
<1>1. /\ Covered \in Nat /\ Covered <= Len(journal) /\ Len(journal) \in Nat
      /\ Len(pgn) \in Nat /\ checkpoint.pgn \in Nat /\ checkpoint.pgn <= Len(pgn)
  BY CoveredType
<1>2. /\ ValidLines \in Covered..Len(journal)
      /\ \A i \in 1..ValidLines : Whole(i)
      /\ ValidLines < Len(journal) => ValidLines + 1 = Len(journal) /\ ~Whole(Len(journal))
  BY ValidLinesIs
<1>3. Kept \in Covered..Len(journal) /\ Kept \in Nat /\ \A i \in 1..Kept : Whole(i)
  BY KeptIs
<1>4. \A i \in 1..Len(journal) : Whole(i) =>
         /\ journal[i].seq = i /\ journal[i].game \in Games
         /\ Number(journal[i].game) = NextNumber(JournalGames, i - 1, journal[i].game.session)
  BY DEF LinesInOrder, DurableTypes
<1>5. ~Refused
  <2>1. AnchorMatches
    BY <1>1 DEF AnchorMatches, CheckpointSynced, Whole
  <2>2. \A i \in (ValidLines + 1)..Len(journal) : ~Valid(journal[i])
    BY <1>1, <1>2 DEF Whole
  <2>3. \A i \in 1..ValidLines : journal[i].seq = i
    BY <1>1, <1>2, <1>4
  <2> QED
    BY <1>1, <2>1, <2>2, <2>3 DEF Refused
<1>6. \A i \in 1..Kept : Records[i] = journal[i].game /\ Records[i] \in Games
  BY <1>1, <1>3, <1>4 DEF Records
<1>7. Records \in Seq(Games) /\ Len(Records) = Kept
  BY <1>3, <1>6 DEF Records
<1>8. ASSUME NEW i \in 1..Kept
      PROVE  Number(Records[i]) = NextNumber(Records, i - 1, Records[i].session)
  <2>1. i \in 1..Len(journal) /\ i - 1 \in Nat /\ Records[i] = journal[i].game
    BY <1>1, <1>3, <1>6
  <2>2. \A k \in 1..(i - 1) : JournalGames[k] = Records[k]
    BY <1>1, <1>3, <1>6 DEF JournalGames, DurableTypes
  <2>3. Number(journal[i].game) = NextNumber(JournalGames, i - 1, journal[i].game.session)
    BY <1>3, <1>4, <2>1
  <2>4. NextNumber(JournalGames, i - 1, journal[i].game.session)
           = NextNumber(Records, i - 1, journal[i].game.session)
    BY <2>1, <2>2, SameNextNumber
  <2> QED
    BY <2>1, <2>3, <2>4
<1> QED
  BY <1>5, <1>6, <1>7, <1>8 DEF IsSchedule

LEMMA PgnEndIs ==
    ASSUME DurableTypes, LinesInOrder, CheckpointSynced
    PROVE  /\ PgnEnd \in Nat /\ checkpoint.pgn <= PgnEnd /\ PgnEnd <= Len(pgn)
           /\ \A i \in 1..Kept : journal[i].at <= PgnEnd
<1>1. /\ Covered \in Nat /\ Covered <= Len(journal) /\ Len(journal) \in Nat
      /\ Len(pgn) \in Nat /\ checkpoint.pgn \in Nat /\ checkpoint.pgn <= Len(pgn)
      /\ \A i \in 1..Len(journal) : journal[i].at \in Nat
  BY CoveredType
<1>2. Kept \in Covered..Len(journal) /\ \A i \in 1..Kept : Whole(i) /\ MovesPresent(journal[i])
  BY KeptIs
<1>3. CASE Kept > Covered
  <2>1. Kept \in (Covered + 1)..Len(journal) /\ Kept \in 1..Kept /\ Kept \in 1..Len(journal)
    BY <1>1, <1>2, <1>3
  <2>2. PgnEnd = journal[Kept].at
    BY <1>3 DEF PgnEnd
  <2>3. checkpoint.pgn < journal[Kept].at
    BY <1>2, <2>1 DEF CheckpointSynced
  <2>4. journal[Kept].at \in 1..Len(pgn)
    BY <1>2, <2>1 DEF MovesPresent
  <2>5. \A i \in 1..Kept : i < Kept => journal[i].at < journal[Kept].at
    BY <1>1, <1>2, <2>1, MovesInOrder
  <2> QED
    BY <1>1, <2>1, <2>2, <2>3, <2>4, <2>5, SMTT(30)
<1>4. CASE Kept = Covered
  BY <1>1, <1>4 DEF PgnEnd, CheckpointSynced
<1> QED
  BY <1>1, <1>2, <1>3, <1>4

\* The durable lines come first.
LEMMA DurableIs ==
    ASSUME DurableTypes, LinesInOrder, CheckpointSynced
    PROVE  /\ Durable \in 0..Kept /\ Covered <= Durable
           /\ \A i \in 1..Kept :
                 i <= Durable <=> i <= syncedJournal /\ journal[i].at <= syncedPgn
<1> DEFINE D == {i \in 1..Kept : i <= syncedJournal /\ journal[i].at <= syncedPgn}
           S == {n \in 0..Kept : n + 1 \notin D}
<1>1. /\ Covered \in Nat /\ Covered <= Len(journal) /\ Len(journal) \in Nat
      /\ \A i \in 1..Len(journal) : journal[i].at \in Nat
      /\ syncedJournal \in Nat /\ syncedPgn \in Nat /\ checkpoint.pgn \in Nat
  BY CoveredType DEF DurableTypes
<1>2. Kept \in Covered..Len(journal) /\ Kept \in Nat /\ \A i \in 1..Kept : Whole(i)
  BY KeptIs
<1>3. \A i, k \in 1..Kept : i < k => journal[i].at < journal[k].at
  BY <1>1, <1>2, MovesInOrder
<1>4. \A i, k \in 1..Kept : i < k /\ k \in D => i \in D
  <2> SUFFICES ASSUME NEW i \in 1..Kept, NEW k \in 1..Kept, i < k, k \in D PROVE i \in D
    BY Zenon
  <2>1. journal[i].at < journal[k].at /\ journal[i].at \in Nat /\ journal[k].at \in Nat
    BY <1>1, <1>2, <1>3
  <2> QED
    BY <1>1, <1>2, <2>1
<1>5. PICK n \in S : \A m \in S : n <= m
  <2>1. Kept \in S /\ S \subseteq Nat
    BY <1>1, <1>2
  <2> HIDE DEF S
  <2> QED
    BY <2>1, LeastNumber
<1>6. \A i \in 1..n : i \in D
  <2> SUFFICES ASSUME NEW i \in 1..n PROVE i \in D
    OBVIOUS
  <2>1. i - 1 \in 0..Kept /\ i - 1 \notin S /\ (i - 1) + 1 = i
    BY <1>2, <1>5
  <2> QED
    BY <2>1
<1>7. D = 1..n
  <2>1. ASSUME NEW i \in D PROVE i \in 1..n
    <3>1. i \in 1..Kept /\ n \in 0..Kept /\ n + 1 \notin D
      BY <1>5
    <3>2. ASSUME i > n + 1 PROVE FALSE
      <4>1. n + 1 \in 1..Kept
        BY <1>2, <3>1, <3>2
      <4> HIDE DEF D
      <4> QED
        BY <1>4, <3>1, <3>2, <4>1
    <3> QED
      BY <1>2, <3>1, <3>2
  <2> QED
    BY <1>6, <2>1
<1>8. Durable = n
  <2>1. n \in Nat /\ 1 \in Int /\ Cardinality(1..n) = IF 1 > n THEN 0 ELSE n - 1 + 1
    BY <1>2, <1>5, FS_Interval
  <2>2. Durable = Cardinality(D)
    BY DEF Durable
  <2>3. n \in Nat /\ (1 > n => n = 0) /\ n - 1 + 1 = n
    BY <2>1
  <2> HIDE DEF D
  <2> QED
    BY <1>7, <2>1, <2>2, <2>3
<1>9. \A i \in 1..Covered : i \in D
  BY <1>1, <1>2 DEF CheckpointSynced
<1>10. Covered <= n
  BY <1>1, <1>5, <1>7, <1>9
<1> QED
  BY <1>2, <1>5, <1>7, <1>8, <1>10

-----------------------------------------------------------------------------
(* The invariant, action by action. *)

LEMMA NextNumberType ==
    ASSUME DurableTypes, session \in Nat
    PROVE  NextNumber(JournalGames, Len(journal), session) \in Int
<1> DEFINE n == Len(journal)
           g == JournalGames[n]
<1>1. n \in Nat /\ (n > 0 => g.pair \in Nat /\ g.half \in Nat)
  <2>1. journal \in Seq(Lines)
    BY DEF DurableTypes
  <2>2. n > 0 => g \in Games \cup {Torn}
    <3> SUFFICES ASSUME n > 0 PROVE g \in Games \cup {Torn}
      OBVIOUS
    <3>1. n \in DOMAIN journal /\ journal[n] \in Lines
      BY <2>1
    <3>2. g = journal[n].game
      BY <3>1 DEF JournalGames
    <3> HIDE DEF g, n
    <3> QED
      BY <3>1, <3>2 DEF Lines
  <2> HIDE DEF g
  <2>3. \A x \in Games \cup {Torn} : x.pair \in Nat /\ x.half \in Nat
    BY SizeAssumption DEF Games, Torn, Pairs, Halves
  <2> QED
    BY <2>1, <2>2, <2>3
<1>2. Complete(JournalGames, n) \in Int
  BY <1>1 DEF Complete
<1>3. n > 0 => Number(g) \in Int
  BY <1>1 DEF Number
<1> HIDE DEF n, g
<1>4. (IF n > 0 /\ g.session = session THEN Number(g) + 1 ELSE 2 * Complete(JournalGames, n) + 1) \in Int
  <2>1. PICK c : c = Complete(JournalGames, n)
    OBVIOUS
  <2>2. PICK x : x = Number(g)
    OBVIOUS
  <2>3. c \in Int /\ (n > 0 => x \in Int)
    BY <1>2, <1>3, <2>1, <2>2
  <2> QED
    BY <2>1, <2>2, <2>3
<1> QED
  BY <1>4 DEF NextNumber, n, g

LEMMA CommandType ==
    ASSUME NEW c \in Command
    PROVE  /\ c.type \in {"Game", "Result", "Log", "Checkpoint", "Barrier"}
           /\ c.type = "Game" => c.game \in Games
           /\ c.type = "Result" => c.games \in SUBSET Games
           /\ c # Idle /\ c # Tick
  BY DEF Command, Idle, Tick

LEMMA Appended ==
    ASSUME queue \in Seq(Command), NEW c \in Command, queue' = Append(queue, c)
    PROVE  /\ queue' \in Seq(Command)
           /\ Len(queue) \in Nat /\ Len(queue') = Len(queue) + 1
           /\ DOMAIN queue = 1..Len(queue) /\ DOMAIN queue' = 1..(Len(queue) + 1)
           /\ \A i \in 1..Len(queue) : queue'[i] = queue[i]
           /\ queue'[Len(queue) + 1] = c
  OBVIOUS

LEMMA Taken ==
    ASSUME queue \in Seq(Command), queue # << >>, queue' = Tail(queue)
    PROVE  /\ queue' \in Seq(Command)
           /\ Len(queue) \in Nat /\ Len(queue) >= 1 /\ Len(queue') = Len(queue) - 1
           /\ DOMAIN queue = 1..Len(queue) /\ DOMAIN queue' = 1..(Len(queue) - 1)
           /\ \A i \in 1..(Len(queue) - 1) : queue'[i] = queue[i + 1]
           /\ Head(queue) = queue[1] /\ Head(queue) \in Command
  OBVIOUS

\* Entries n of a file stay, and at most a torn one follows them.
LEMMA CutDirectory ==
    ASSUME DurableTypes, LinesInOrder, CheckpointSynced,
           journal' \in Seq(Lines), pgn' \in Seq(Games \cup {Torn}),
           NEW n \in Covered..Len(journal), NEW m \in checkpoint.pgn..Len(pgn),
           \A i \in 1..n : journal'[i] = journal[i],
           \/ Len(journal') = n
           \/ Len(journal') = n + 1 /\ journal'[n + 1] = TornLine /\ \A i \in 1..n : Whole(i),
           Len(pgn') >= m, \A i \in 1..m : pgn'[i] = pgn[i],
           checkpoint' = checkpoint, session' \in Nat, session <= session',
           Covered <= syncedJournal', checkpoint.pgn <= syncedPgn'
    PROVE  LinesInOrder' /\ CheckpointSynced'
<1>1. /\ Covered \in Nat /\ Covered <= Len(journal) /\ Len(journal) \in Nat
      /\ Len(pgn) \in Nat /\ checkpoint.pgn \in Nat /\ checkpoint.pgn <= Len(pgn)
      /\ \A i \in 1..Len(journal) : journal[i].at \in Nat
      /\ n \in Nat /\ m \in Nat /\ Len(journal') \in Nat /\ Len(pgn') \in Nat
      /\ session \in Nat
  BY CoveredType, SMTT(30) DEF DurableTypes
<1>2. /\ DOMAIN journal = 1..Len(journal) /\ DOMAIN journal' = 1..Len(journal')
  BY DEF DurableTypes
<1>3. \A i \in 1..n : i \in 1..Len(journal) /\ i \in 1..Len(journal') /\ (Whole(i)' <=> Whole(i))
  BY <1>1 DEF Whole, Valid
<1>4. \A i \in 1..Len(journal') : Whole(i)' => i \in 1..n
  BY <1>1 DEF Whole, Valid
<1>5. LinesInOrder'
  <2>1. \A i \in 1..Len(journal') : i < Len(journal') => Whole(i)'
    <3>1. \A i \in 1..Len(journal) : i < Len(journal) => Whole(i)
      BY <1>2 DEF LinesInOrder
    <3> QED
      BY <1>1, <1>3, <3>1
  <2>2. ASSUME NEW i \in 1..Len(journal'), Whole(i)'
        PROVE  /\ journal'[i].seq = i /\ journal'[i].at >= 1
               /\ journal'[i].game \in Games /\ journal'[i].game.session <= session'
               /\ Number(journal'[i].game) = NextNumber(JournalGames', i - 1, journal'[i].game.session)
    <3>1. i \in 1..n /\ i \in 1..Len(journal) /\ Whole(i) /\ journal'[i] = journal[i] /\ i - 1 \in Nat
      BY <1>3, <1>4, <2>2
    <3>2. /\ journal[i].seq = i /\ journal[i].at >= 1
          /\ journal[i].game \in Games /\ journal[i].game.session <= session
          /\ Number(journal[i].game) = NextNumber(JournalGames, i - 1, journal[i].game.session)
      BY <1>2, <3>1 DEF LinesInOrder
    <3> DEFINE old == JournalGames
               new == JournalGames'
               by == journal[i].game.session
    <3>3. \A k \in 1..(i - 1) : old[k] = new[k]
      <4> SUFFICES ASSUME NEW k \in 1..(i - 1) PROVE old[k] = new[k]
        OBVIOUS
      <4>1. k \in 1..n /\ k \in DOMAIN journal /\ k \in DOMAIN journal'
        <5>1. k \in 1..n
          BY <1>1, <3>1
        <5> QED
          BY <1>2, <1>3, <5>1
      <4> QED
        BY <4>1 DEF JournalGames
    <3>4. NextNumber(old, i - 1, by) = NextNumber(new, i - 1, by)
      <4> HIDE DEF old, new, by
      <4> QED
        BY <3>1, <3>3, SameNextNumber
    <3>5. journal[i].game.session \in Nat
      BY <3>2 DEF Games
    <3> QED
      BY <1>1, <3>1, <3>2, <3>4, <3>5, SMTT(30)
  <2>3. \A i, k \in 1..Len(journal') : i < k /\ Whole(k)' => journal'[i].at < journal'[k].at
    <3> SUFFICES ASSUME NEW i \in 1..Len(journal'), NEW k \in 1..Len(journal'), i < k, Whole(k)'
                 PROVE  journal'[i].at < journal'[k].at
      OBVIOUS
    <3>1. k \in 1..n /\ k \in 1..Len(journal) /\ Whole(k) /\ journal'[k] = journal[k]
      BY <1>3, <1>4
    <3>2. i \in 1..n /\ i \in 1..Len(journal) /\ journal'[i] = journal[i]
      BY <1>1, <1>3, <3>1
    <3>3. journal[i].at < journal[k].at
      BY <3>1, <3>2, MovesInOrder
    <3> QED
      BY <3>1, <3>2, <3>3
  <2> QED
    BY <1>2, <2>1, <2>2, <2>3 DEF LinesInOrder
<1>6. CheckpointSynced'
  <2>1. Covered' = Covered
    BY DEF Covered
  <2>2. checkpoint'.lines = SubSeq(journal', 1, Covered)
    <3>1. checkpoint.lines = SubSeq(journal, 1, Covered)
      BY DEF CheckpointSynced
    <3>2. SubSeq(journal', 1, Covered) = SubSeq(journal, 1, Covered)
      BY <1>1 DEF DurableTypes
    <3> QED
      BY <3>1, <3>2
  <2>3. ASSUME NEW i \in 1..Covered
        PROVE  Whole(i)' /\ MovesPresent(journal[i])' /\ journal'[i].at <= checkpoint'.pgn
    <3>1. i \in 1..n /\ journal'[i] = journal[i]
      BY <1>1
    <3>2. Whole(i) /\ MovesPresent(journal[i]) /\ journal[i].at <= checkpoint.pgn
      BY DEF CheckpointSynced
    <3>3. journal[i].at \in 1..m /\ pgn[journal[i].at] = journal[i].game
      BY <1>1, <1>3, <3>1, <3>2 DEF MovesPresent
    <3>4. journal[i].at \in 1..Len(pgn') /\ pgn'[journal[i].at] = journal[i].game
      BY <1>1, <3>3
    <3> QED
      BY <1>3, <3>1, <3>2, <3>4 DEF MovesPresent
  <2>4. \A i \in (Covered + 1)..Len(journal') : Whole(i)' => checkpoint'.pgn < journal'[i].at
    <3>1. \A i \in (Covered + 1)..Len(journal) : Whole(i) => checkpoint.pgn < journal[i].at
      BY DEF CheckpointSynced
    <3> QED
      BY <1>1, <1>3, <1>4, <3>1
  <2> QED
    BY <2>1, <2>2, <2>3, <2>4 DEF CheckpointSynced
<1> QED
  BY <1>5, <1>6

\* Nothing an action does not touch changes what depends on it alone.
LEMMA SameDirectory ==
    ASSUME DirectoryInv, Up' => Up, UNCHANGED <<journal, pgn, synced, checkpoint, session>>
    PROVE  DirectoryInv'
<1>1. UNCHANGED <<journal, pgn, syncedJournal, syncedPgn, checkpoint, session>>
  BY DEF synced
<1>2. LinesInOrder'
  BY <1>1 DEF DirectoryInv, LinesInOrder, Whole, Valid, JournalGames
<1>3. CheckpointSynced'
  BY <1>1 DEF DirectoryInv, CheckpointSynced, Whole, Valid, MovesPresent, Covered
<1>4. NothingYet'
  BY <1>1 DEF DirectoryInv, NothingYet
<1> QED
  BY <1>2, <1>3, <1>4 DEF DirectoryInv

LEMMA ClientKeepsWriter ==
    ASSUME WriterInv, Up, Up', UNCHANGED <<files, session, writerVars>>,
           Holds("Log") => Holds("Log")'
    PROVE  WriterInv'
<1>1. /\ UNCHANGED <<journal, pgn, syncedJournal, syncedPgn, checkpoint, session>>
      /\ UNCHANGED <<task, wpc, nextSeq, pgnOffset, dirty, failure, reply>>
  BY DEF files, writerVars, position
<1>2. Steps'
  BY <1>1 DEF WriterInv, Steps
<1>3. DownIsEmpty'
  BY DEF DownIsEmpty
<1>4. AtTheEnd'
  BY <1>1 DEF WriterInv, AtTheEnd, Whole, Valid, MovesPresent
<1>5. CleanIsSynced'
  BY <1>1 DEF WriterInv, CleanIsSynced
<1> QED
  BY <1>2, <1>3, <1>4, <1>5 DEF WriterInv

\* A client that sends no game.
LEMMA ClientKeepsStream ==
    ASSUME queue \in Seq(Command), Stream, OfficialInHand, Up, 
           UNCHANGED <<files, session, half, official, writerVars>>,
           \/ queue' = queue
           \/ \E c \in Command : c.type # "Game" /\ queue' = Append(queue, c)
    PROVE  Stream' /\ OfficialInHand'
<1>1. /\ UNCHANGED <<journal, session, half, official, task, wpc, failure>>
      /\ JournalGames' = JournalGames
  BY DEF files, writerVars, JournalGames
<1>2. /\ DOMAIN queue \subseteq DOMAIN queue'
      /\ \A i \in DOMAIN queue : queue'[i] = queue[i]
      /\ \A i \in DOMAIN queue' : queue'[i].type = "Game" => i \in DOMAIN queue
  <2>1. CASE queue' = queue
    BY <2>1
  <2>2. ASSUME NEW c \in Command, c.type # "Game", queue' = Append(queue, c)
        PROVE  /\ DOMAIN queue \subseteq DOMAIN queue'
               /\ \A i \in DOMAIN queue : queue'[i] = queue[i]
               /\ \A i \in DOMAIN queue' : queue'[i].type = "Game" => i \in DOMAIN queue
    BY <2>2, Appended
  <2> QED
    BY <2>1, <2>2
<1>3. FirstQueued' = FirstQueued /\ Sent' = Sent /\ NextPair' = NextPair
  BY <1>1 DEF FirstQueued, Writing, Sent, NextPair
<1>4. Stream'
  <2> SUFFICES ASSUME ~failure
               PROVE  (/\ Writing =>
                             /\ task.game.session = session
                             /\ Number(task.game) = NextNumber(JournalGames, Len(journal), session)
                       /\ FirstQueued <= Sent + 1
                       /\ \A i \in DOMAIN queue : IsGame(i) =>
                             queue[i].game.session = session /\ Number(queue[i].game) \in FirstQueued..Sent
                       /\ \A n \in FirstQueued..Sent :
                             \E i \in DOMAIN queue : IsGame(i) /\ Number(queue[i].game) = n
                       /\ \A i, k \in DOMAIN queue :
                             i < k /\ IsGame(i) /\ IsGame(k) => Number(queue[i].game) < Number(queue[k].game))'
    BY <1>1 DEF Stream
  <2>1. /\ Writing =>
              /\ task.game.session = session
              /\ Number(task.game) = NextNumber(JournalGames, Len(journal), session)
        /\ FirstQueued <= Sent + 1
        /\ \A i \in DOMAIN queue : IsGame(i) =>
              queue[i].game.session = session /\ Number(queue[i].game) \in FirstQueued..Sent
        /\ \A n \in FirstQueued..Sent :
              \E i \in DOMAIN queue : IsGame(i) /\ Number(queue[i].game) = n
        /\ \A i, k \in DOMAIN queue :
              i < k /\ IsGame(i) /\ IsGame(k) => Number(queue[i].game) < Number(queue[k].game)
    BY DEF Stream
  <2>2. \A i \in DOMAIN queue' : IsGame(i)' => i \in DOMAIN queue /\ IsGame(i) /\ queue'[i] = queue[i]
    BY <1>2 DEF IsGame
  <2>3. \A i \in DOMAIN queue : IsGame(i) => i \in DOMAIN queue' /\ IsGame(i)' /\ queue'[i] = queue[i]
    BY <1>2 DEF IsGame
  <2>4. Writing' <=> Writing
    BY <1>1 DEF Writing
  <2> QED
    BY <1>1, <1>3, <2>1, <2>2, <2>3, <2>4
<1>5. OfficialInHand'
  <2>1. \A game : InHand(game) => InHand(game)'
    BY <1>1, <1>2 DEF InHand, Writing, IsGame
  <2> QED
    BY <1>1, <1>3, <2>1 DEF OfficialInHand
<1> QED
  BY <1>4, <1>5

\* What no client action touches.
LEMMA ClientKeepsRest ==
    ASSUME DurableInv, Up, client' \in ClientState \ {"down"},
           UNCHANGED <<files, session, writerVars>>,
           queue' = queue \/ \E c \in Command : queue' = Append(queue, c),
           half' \in 0..1, official' \in Seq([Halves -> Games])
    PROVE  DurableTypes' /\ DirectoryInv' /\ WriterInv'
<1>1. /\ UNCHANGED <<journal, pgn, syncedJournal, syncedPgn, checkpoint, session>>
      /\ UNCHANGED <<task, wpc, nextSeq, pgnOffset, dirty, failure, reply>>
  BY DEF files, writerVars, position
<1>2. queue \in Seq(Command) /\ DurableTypes
  BY DEF DurableInv, DurableTypes
<1>3. /\ queue' \in Seq(Command) /\ DOMAIN queue \subseteq DOMAIN queue'
      /\ \A i \in DOMAIN queue : queue'[i] = queue[i]
  <2>1. CASE queue' = queue
    BY <1>2, <2>1
  <2>2. ASSUME NEW c \in Command, queue' = Append(queue, c)
        PROVE  /\ queue' \in Seq(Command) /\ DOMAIN queue \subseteq DOMAIN queue'
               /\ \A i \in DOMAIN queue : queue'[i] = queue[i]
    <3>1. /\ queue' \in Seq(Command) /\ Len(queue) \in Nat
          /\ DOMAIN queue = 1..Len(queue) /\ DOMAIN queue' = 1..(Len(queue) + 1)
          /\ \A i \in 1..Len(queue) : queue'[i] = queue[i]
      BY <1>2, <2>2, Appended
    <3>2. 1..Len(queue) \subseteq 1..(Len(queue) + 1)
      BY <3>1
    <3> QED
      BY <3>1, <3>2
  <2> QED
    BY <2>1, <2>2
<1>4. DurableTypes'
  BY <1>1, <1>2, <1>3 DEF DurableTypes
<1>5. DirectoryInv'
  BY <1>1, SameDirectory DEF DurableInv, synced
<1>6. Up' /\ (Holds("Log") => Holds("Log")')
  BY <1>3 DEF Up, Holds
<1>7. WriterInv'
  BY <1>6, ClientKeepsWriter DEF DurableInv
<1> QED
  BY <1>4, <1>5, <1>7

LEMMA ClientCarriesOn ==
    ASSUME DurableInv, Up, client' \in ClientState \ {"down"},
           UNCHANGED <<files, session, half, official, writerVars>>,
           \/ queue' = queue
           \/ \E c \in Command : c.type # "Game" /\ queue' = Append(queue, c),
           EndInOrder'
    PROVE  DurableInv'
<1>1. half \in 0..1 /\ official \in Seq([Halves -> Games]) /\ queue \in Seq(Command)
  BY DEF DurableInv, DurableTypes
<1>2. UNCHANGED <<files, session, writerVars>> /\ half' = half /\ official' = official
  OBVIOUS
<1>3. DurableTypes' /\ DirectoryInv' /\ WriterInv'
  BY <1>1, <1>2, ClientKeepsRest
<1>4. Stream' /\ OfficialInHand'
  BY <1>1, ClientKeepsStream DEF DurableInv, ClientInv
<1> QED
  BY <1>3, <1>4 DEF DurableInv, ClientInv

LEMMA CommitGameKeepsInv ==
    ASSUME DurableInv, CommitGame
    PROVE  DurableInv'
<1>a. PICK game : game = [pair |-> NextPair, half |-> half + 1, session |-> session]
  OBVIOUS
<1>b. PICK c : c = [type |-> "Game", game |-> game]
  OBVIOUS
<1>c. PICK N : N = Len(queue)
  OBVIOUS
<1>d. PICK pair : pair = [h \in Halves |-> [pair |-> NextPair, half |-> h, session |-> session]]
  OBVIOUS
<1>1. /\ client = "commit" /\ NextPair <= MaxPairs /\ ~failure
      /\ queue' = Append(queue, c)
      /\ \/ half = 0 /\ half' = 1 /\ UNCHANGED <<client, official>>
         \/ /\ half # 0 /\ half' = 0 /\ client' = "cadence"
            /\ official' = Append(official, pair)
      /\ UNCHANGED <<files, session, writerVars>>
  BY <1>a, <1>b, <1>d DEF CommitGame, Send
<1>2. Up /\ client' \in ClientState \ {"down"}
  BY <1>1 DEF Up, ClientState
<1>3. /\ queue \in Seq(Command) /\ half \in 0..1 /\ official \in Seq([Halves -> Games])
      /\ session \in 1..MaxSessions
  <2>1. session # 0
    BY <1>2 DEF DurableInv, DirectoryInv, NothingYet
  <2> QED
    BY <2>1, BoundsAssumption DEF DurableInv, DurableTypes
<1>4. NextPair \in Pairs /\ NextPair = Len(official) + 1 /\ Len(official) \in Nat
  BY <1>1, <1>3, SizeAssumption DEF NextPair, Pairs
<1>5. game \in Games /\ c \in Command /\ c.type = "Game" /\ c.game = game
  <2>1. half + 1 \in Halves
    BY <1>3 DEF Halves
  <2>2. game \in Games
    BY <1>a, <1>3, <1>4, <2>1 DEF Games
  <2> QED
    BY <1>b, <2>2 DEF Command
<1>6. /\ Number(game) = Sent + 1 /\ Sent' = Sent + 1 /\ Sent \in Nat
  <2>1. Sent \in Nat /\ Number(game) = Sent + 1
    BY <1>a, <1>3, <1>4 DEF Number, Sent
  <2>2. Sent' = Sent + 1
    <3>1. CASE half = 0
      BY <1>1, <3>1, <1>4 DEF Sent
    <3>2. CASE half = 1
      <4>1. Len(official') = Len(official) + 1
        BY <1>1, <1>3, <3>2
      <4> QED
        BY <1>1, <3>2, <1>4, <4>1 DEF Sent
    <3> QED
      BY <1>3, <3>1, <3>2
  <2> QED
    BY <2>1, <2>2
<1>7. /\ queue' \in Seq(Command) /\ N \in Nat
      /\ DOMAIN queue = 1..N /\ DOMAIN queue' = 1..(N + 1)
      /\ \A i \in 1..N : queue'[i] = queue[i]
      /\ queue'[N + 1] = c
  BY <1>c, <1>1, <1>3, <1>5, Appended
<1>8. official' \in Seq([Halves -> Games]) /\ half' \in 0..1
  <2>1. pair \in [Halves -> Games]
    BY <1>d, <1>3, <1>4 DEF Games
  <2>2. CASE half = 0
    BY <1>1, <1>3, <2>2
  <2>3. CASE half # 0
    <3>1. Append(official, pair) \in Seq([Halves -> Games])
      BY <1>3, <2>1, AppendProperties
    <3> QED
      BY <1>1, <2>3, <3>1, SMTT(30)
  <2> QED
    BY <2>2, <2>3
<1>9. DurableTypes' /\ DirectoryInv' /\ WriterInv'
  BY <1>1, <1>2, <1>5, <1>8, ClientKeepsRest
<1>10. /\ UNCHANGED <<journal, session, task, wpc, failure, dirty, reply>>
       /\ JournalGames' = JournalGames /\ FirstQueued' = FirstQueued
       /\ (Writing' <=> Writing) /\ FirstQueued \in Int
  <2>1. UNCHANGED <<journal, session, task, wpc, failure, dirty, reply>>
    BY <1>1 DEF files, writerVars
  <2>2. FirstQueued' = FirstQueued /\ (Writing' <=> Writing) /\ JournalGames' = JournalGames
    BY <2>1 DEF FirstQueued, JournalGames, Writing
  <2>3. FirstQueued \in Int
    BY <1>3, BoundsAssumption, NextNumberType DEF FirstQueued, DurableInv
  <2> QED
    BY <2>1, <2>2, <2>3
<1>11. Stream'
  <2>1. /\ Writing =>
              /\ task.game.session = session
              /\ Number(task.game) = NextNumber(JournalGames, Len(journal), session)
        /\ FirstQueued <= Sent + 1
        /\ \A i \in DOMAIN queue : IsGame(i) =>
              queue[i].game.session = session /\ Number(queue[i].game) \in FirstQueued..Sent
        /\ \A n \in FirstQueued..Sent :
              \E i \in DOMAIN queue : IsGame(i) /\ Number(queue[i].game) = n
        /\ \A i, k \in DOMAIN queue :
              i < k /\ IsGame(i) /\ IsGame(k) => Number(queue[i].game) < Number(queue[k].game)
    BY <1>1, <1>2 DEF DurableInv, ClientInv, Stream
  <2>2. \A i \in 1..N : (IsGame(i)' <=> IsGame(i)) /\ queue'[i] = queue[i]
    BY <1>7 DEF IsGame
  <2>3. /\ IsGame(N + 1)' /\ queue'[N + 1].game = game
        /\ game.session = session
    BY <1>a, <1>5, <1>7 DEF IsGame
  <2>4. FirstQueued <= Sent' + 1
    BY <1>6, <1>10, <2>1
  <2>5. ASSUME NEW i \in 1..(N + 1), IsGame(i)'
        PROVE  queue'[i].game.session = session /\ Number(queue'[i].game) \in FirstQueued..Sent'
    <3>1. CASE i \in 1..N
      BY <1>6, <1>7, <1>10, <2>1, <2>2, <2>5, <3>1
    <3>2. CASE i = N + 1
      BY <1>6, <1>10, <2>1, <2>3, <3>2
    <3> QED
      BY <1>7, <3>1, <3>2
  <2>6. ASSUME NEW n \in FirstQueued..Sent'
        PROVE  \E i \in 1..(N + 1) : IsGame(i)' /\ Number(queue'[i].game) = n
    <3>1. CASE n = Sent + 1
      BY <1>6, <1>7, <2>3, <3>1
    <3>2. CASE n # Sent + 1
      <4>1. n \in FirstQueued..Sent
        BY <1>6, <1>10, <3>2
      <4>2. PICK i \in 1..N : IsGame(i) /\ Number(queue[i].game) = n
        BY <1>7, <2>1, <4>1
      <4> QED
        BY <1>7, <2>2, <4>2
    <3> QED
      BY <3>1, <3>2
  <2>7. ASSUME NEW i \in 1..(N + 1), NEW k \in 1..(N + 1), i < k, IsGame(i)', IsGame(k)'
        PROVE  Number(queue'[i].game) < Number(queue'[k].game)
    <3>1. i \in 1..N
      BY <1>7, <2>7
    <3>2. CASE k \in 1..N
      BY <1>7, <2>1, <2>2, <2>7, <3>1, <3>2
    <3>3. CASE k = N + 1
      BY <1>6, <1>7, <1>10, <2>1, <2>2, <2>3, <2>7, <3>1, <3>3
    <3> QED
      BY <1>7, <3>2, <3>3
  <2> QED
    BY <1>7, <1>10, <2>1, <2>4, <2>5, <2>6, <2>7 DEF Stream
<1>12. OfficialInHand'
  <2>1. \A g : InHand(g) => InHand(g)'
    BY <1>7, <1>10 DEF InHand, IsGame
  <2>2. InHand(game)'
    BY <1>5, <1>7 DEF InHand, IsGame
  <2>3. /\ \A p \in DOMAIN official, h \in Halves : InHand(official[p][h])
        /\ half = 1 => InHand([pair |-> NextPair, half |-> 1, session |-> session])
    BY <1>1, <1>2 DEF DurableInv, ClientInv, OfficialInHand
  <2>4. CASE half = 0
    <3>1. half' = 1 /\ official' = official /\ game = [pair |-> NextPair, half |-> 1, session |-> session]
      BY <1>a, <1>1, <2>4
    <3>2. [pair |-> NextPair, half |-> 1, session |-> session]' = game
      BY <1>10, <3>1 DEF NextPair
    <3> QED
      BY <2>1, <2>2, <2>3, <3>1, <3>2 DEF OfficialInHand
  <2>5. CASE half = 1
    <3>1. half' = 0 /\ official' = Append(official, pair)
      BY <1>1, <2>5
    <3>2. pair[1] = [pair |-> NextPair, half |-> 1, session |-> session] /\ pair[2] = game
      BY <1>a, <1>d, <2>5 DEF Halves
    <3>3. \A h \in Halves : InHand(pair[h])'
      BY <2>1, <2>2, <2>3, <2>5, <3>2 DEF Halves
    <3>4. \A p \in DOMAIN official' : \/ p \in DOMAIN official /\ official'[p] = official[p]
                                      \/ official'[p] = pair
      BY <1>3, <3>1
    <3>5. ASSUME NEW p \in DOMAIN official', NEW h \in Halves PROVE InHand(official[p][h])'
      <4>1. PICK g : g = official'[p][h]
        OBVIOUS
      <4>2. CASE p \in DOMAIN official /\ official'[p] = official[p]
        <5>1. InHand(g)
          BY <2>3, <4>1, <4>2
        <5>2. InHand(g)'
          BY <2>1, <5>1
        <5> QED
          BY <4>1, <5>2 DEF InHand, IsGame
      <4>3. CASE official'[p] = pair
        <5>1. g = pair[h] /\ InHand(pair[h])'
          BY <3>3, <4>1, <4>3
        <5> QED
          BY <4>1, <5>1 DEF InHand, IsGame
      <4> QED
        BY <3>4, <4>2, <4>3
    <3> QED
      BY <3>1, <3>5 DEF OfficialInHand
  <2> QED
    BY <1>3, <2>4, <2>5
<1>13. EndInOrder'
  <2>1. EndInOrder
    BY DEF DurableInv, ClientInv
  <2>2. ~Holds("Result") /\ task.type # "Result" /\ ~Holds("Barrier") /\ task.type # "Barrier"
        /\ reply = "none"
    <3>1. reply \in {"none", "ok", "failed"}
      BY DEF DurableInv, DurableTypes
    <3> QED
      BY <1>1, <2>1, <3>1 DEF EndInOrder
  <2>3. \A i \in 1..(N + 1) : queue'[i].type # "Game" => i \in 1..N /\ queue'[i] = queue[i]
    BY <1>5, <1>7
  <2>4. ~Holds("Result")' /\ ~Holds("Barrier")'
    BY <1>7, <2>2, <2>3 DEF Holds
  <2>5. \A i \in DOMAIN queue' : queue'[i].type = "Log" => i = 1 /\ task = Idle /\ ~failure
    BY <1>7, <2>1, <2>3 DEF EndInOrder
  <2>6. half' = 1 => client' = "commit"
    BY <1>1
  <2>7. client' \in {"commit", "cadence"}
    BY <1>1
  <2> QED
    BY <1>7, <1>10, <2>2, <2>4, <2>5, <2>6, <2>7 DEF EndInOrder, Holds, Wrapping
<1> QED
  BY <1>9, <1>11, <1>12, <1>13 DEF DurableInv, ClientInv

\* What a command that is not a game adds to the queue.
LEMMA QueuedBehind ==
    ASSUME DurableInv, NEW c \in Command, queue' = Append(queue, c), NEW N, N = Len(queue),
           UNCHANGED <<official, writerVars>>
    PROVE  /\ N \in Nat /\ DOMAIN queue = 1..N /\ DOMAIN queue' = 1..(N + 1)
           /\ \A i \in 1..N : queue'[i] = queue[i]
           /\ queue'[N + 1] = c /\ Len(queue') = N + 1
           /\ \A type : Holds(type)' <=> Holds(type) \/ c.type = type
           /\ UNCHANGED <<task, failure, reply, dirty, official>>
           /\ reply \in {"none", "ok", "failed"}
           /\ EndInOrder
<1>1. queue \in Seq(Command) /\ reply \in {"none", "ok", "failed"}
  BY DEF DurableInv, DurableTypes
<1>2. /\ N \in Nat /\ DOMAIN queue = 1..N /\ DOMAIN queue' = 1..(N + 1)
      /\ \A i \in 1..N : queue'[i] = queue[i]
      /\ queue'[N + 1] = c /\ Len(queue') = N + 1
  BY <1>1, Appended
<1>3. ASSUME NEW type PROVE Holds(type)' <=> Holds(type) \/ c.type = type
  <2>1. (\E i \in DOMAIN queue' : queue'[i].type = type)
           <=> (\E i \in DOMAIN queue : queue[i].type = type) \/ c.type = type
    <3>1. \A i \in 1..(N + 1) : i \in 1..N \/ i = N + 1
      BY <1>2
    <3>2. \A i \in 1..N : i \in 1..(N + 1)
      BY <1>2
    <3>3. N + 1 \in 1..(N + 1)
      BY <1>2
    <3> QED
      BY <1>2, <3>1, <3>2, <3>3
  <2> QED
    BY <2>1 DEF Holds
<1>4. UNCHANGED <<task, failure, reply, dirty, official>> /\ EndInOrder
  BY DEF DurableInv, ClientInv, writerVars
<1> QED
  BY <1>1, <1>2, <1>3, <1>4

LEMMA CheckpointDueKeepsInv ==
    ASSUME DurableInv, CheckpointDue
    PROVE  DurableInv'
<1>a. PICK c : c = [type |-> "Checkpoint"]
  OBVIOUS
<1>b. PICK N : N = Len(queue)
  OBVIOUS
<1>1. /\ client = "cadence" /\ client' = "commit" /\ ~failure /\ queue' = Append(queue, c)
      /\ UNCHANGED <<files, session, half, official, writerVars>>
  BY <1>a DEF CheckpointDue, Send
<1>2. c \in Command /\ c.type = "Checkpoint" /\ Up /\ client' \in ClientState \ {"down"}
  BY <1>a, <1>1 DEF Command, Up, ClientState
<1>3. EndInOrder'
  <2>1. UNCHANGED <<official, writerVars>>
    BY <1>1
  <2>2. /\ N \in Nat /\ DOMAIN queue = 1..N /\ DOMAIN queue' = 1..(N + 1)
        /\ \A i \in 1..N : queue'[i] = queue[i]
        /\ queue'[N + 1] = c /\ Len(queue') = N + 1
        /\ \A type : Holds(type)' <=> Holds(type) \/ c.type = type
        /\ UNCHANGED <<task, failure, reply, dirty, official>>
        /\ reply \in {"none", "ok", "failed"}
        /\ EndInOrder
    BY <1>b, <1>1, <1>2, <2>1, QueuedBehind
  <2>3. /\ half # 1 /\ ~Holds("Result") /\ task.type # "Result"
        /\ ~Holds("Barrier") /\ task.type # "Barrier" /\ reply = "none"
    BY <1>1, <2>2 DEF EndInOrder
  <2>4. \A i \in DOMAIN queue' : queue'[i].type = "Log" => i = 1 /\ task = Idle /\ ~failure
    BY <1>2, <2>2 DEF EndInOrder
  <2>5. ~Holds("Result")' /\ ~Holds("Barrier")'
    BY <1>2, <2>2, <2>3
  <2> QED
    BY <1>1, <2>2, <2>3, <2>4, <2>5 DEF EndInOrder, Holds, Wrapping
<1> QED
  BY <1>1, <1>2, <1>3, ClientCarriesOn

LEMMA FinishKeepsInv ==
    ASSUME DurableInv, Finish
    PROVE  DurableInv'
<1>a. PICK c : c = [type |-> "Checkpoint"]
  OBVIOUS
<1>b. PICK N : N = Len(queue)
  OBVIOUS
<1>1. /\ client = "commit" /\ half = 0 /\ client' = "result" /\ ~failure /\ queue' = Append(queue, c)
      /\ UNCHANGED <<files, session, half, official, writerVars>>
  BY <1>a DEF Finish, Send
<1>2. c \in Command /\ c.type = "Checkpoint" /\ Up /\ client' \in ClientState \ {"down"}
  BY <1>a, <1>1 DEF Command, Up, ClientState
<1>3. EndInOrder'
  <2>1. UNCHANGED <<official, writerVars>>
    BY <1>1
  <2>2. /\ N \in Nat /\ DOMAIN queue = 1..N /\ DOMAIN queue' = 1..(N + 1)
        /\ \A i \in 1..N : queue'[i] = queue[i]
        /\ queue'[N + 1] = c /\ Len(queue') = N + 1
        /\ \A type : Holds(type)' <=> Holds(type) \/ c.type = type
        /\ UNCHANGED <<task, failure, reply, dirty, official>>
        /\ reply \in {"none", "ok", "failed"}
        /\ EndInOrder
    BY <1>b, <1>1, <1>2, <2>1, QueuedBehind
  <2>3. /\ ~Holds("Result") /\ task.type # "Result"
        /\ ~Holds("Barrier") /\ task.type # "Barrier" /\ reply = "none"
    BY <1>1, <2>2 DEF EndInOrder
  <2>4. \A i \in DOMAIN queue' : queue'[i].type = "Log" => i = 1 /\ task = Idle /\ ~failure
    BY <1>2, <2>2 DEF EndInOrder
  <2>5. ~Holds("Result")' /\ ~Holds("Barrier")'
    BY <1>2, <2>2, <2>3
  \* The checkpoint of the end is the last command there is.
  <2>6. \E i \in DOMAIN queue' : /\ queue'[i].type = "Checkpoint"
                                 /\ \A k \in DOMAIN queue' : k > i => queue'[k].type # "Game"
    <3>1. N + 1 \in 1..(N + 1) /\ \A k \in 1..(N + 1) : ~(k > N + 1)
      BY <2>2
    <3> QED
      BY <1>2, <2>2, <3>1
  <2> QED
    BY <1>1, <2>2, <2>3, <2>4, <2>5, <2>6 DEF EndInOrder, Holds
<1> QED
  BY <1>1, <1>2, <1>3, ClientCarriesOn

LEMMA SendResultKeepsInv ==
    ASSUME DurableInv, SendResult
    PROVE  DurableInv'
<1>a. PICK c : c = [type |-> "Result", games |-> GamesOf(official)]
  OBVIOUS
<1>b. PICK N : N = Len(queue)
  OBVIOUS
<1>1. /\ client = "result" /\ client' = "barrier" /\ ~failure /\ queue' = Append(queue, c)
      /\ UNCHANGED <<files, session, half, official, writerVars>>
  BY <1>a DEF SendResult, Send
<1>2. c \in Command /\ c.type = "Result" /\ c.games = GamesOf(official)
      /\ Up /\ client' \in ClientState \ {"down"}
  <2>1. official \in Seq([Halves -> Games])
    BY DEF DurableInv, DurableTypes
  <2>2. GamesOf(official) \subseteq Games
    <3>1. \A i \in DOMAIN official : ToSet(official[i]) \subseteq Games
      BY <2>1 DEF ToSet
    <3> QED
      BY <3>1 DEF GamesOf
  <2> HIDE DEF GamesOf
  <2> QED
    BY <1>a, <1>1, <2>2 DEF Command, Up, ClientState
<1>3. EndInOrder'
  <2>1. UNCHANGED <<official, writerVars>>
    BY <1>1
  <2>2. /\ N \in Nat /\ DOMAIN queue = 1..N /\ DOMAIN queue' = 1..(N + 1)
        /\ \A i \in 1..N : queue'[i] = queue[i]
        /\ queue'[N + 1] = c /\ Len(queue') = N + 1
        /\ \A type : Holds(type)' <=> Holds(type) \/ c.type = type
        /\ UNCHANGED <<task, failure, reply, dirty, official>>
        /\ reply \in {"none", "ok", "failed"}
        /\ EndInOrder
    BY <1>b, <1>1, <1>2, <2>1, QueuedBehind
  <2>3. /\ half # 1 /\ ~Holds("Result") /\ task.type # "Result"
        /\ ~Holds("Barrier") /\ task.type # "Barrier" /\ reply = "none"
    BY <1>1, <2>2 DEF EndInOrder
  <2>4. \A i \in DOMAIN queue' : queue'[i].type = "Log" => i = 1 /\ task = Idle /\ ~failure
    BY <1>2, <2>2 DEF EndInOrder
  <2>5. ~Holds("Barrier")' /\ \A i \in 1..N : queue[i].type # "Result"
    BY <1>2, <2>2, <2>3 DEF Holds
  <2>6. \A i \in DOMAIN queue' : queue'[i].type = "Result" =>
           /\ queue'[i].games = GamesOf(official)'
           /\ \A k \in DOMAIN queue' : k > i => queue'[k].type = "Barrier"
    <3>1. GamesOf(official)' = GamesOf(official)
      BY <2>2 DEF GamesOf
    <3>2. \A i \in DOMAIN queue' : queue'[i].type = "Result" => i = N + 1
      BY <2>2, <2>5
    <3> QED
      BY <1>2, <2>2, <3>1, <3>2
  <2>7. \/ Flushed'
        \/ (task.type = "Checkpoint" /\ ~Holds("Game"))'
        \/ \E i \in DOMAIN queue' : /\ queue'[i].type = "Checkpoint"
                                    /\ \A k \in DOMAIN queue' : k > i => queue'[k].type # "Game"
    <3>1. (Holds("Game")' <=> Holds("Game")) /\ (Holds("Log")' <=> Holds("Log"))
      BY <1>2, <2>2
    <3>2. CASE Flushed
      BY <2>2, <3>1, <3>2 DEF Flushed
    <3>3. CASE task.type = "Checkpoint" /\ ~Holds("Game")
      BY <2>2, <3>1, <3>3
    <3>4. ASSUME NEW i \in DOMAIN queue, queue[i].type = "Checkpoint",
                 \A k \in DOMAIN queue : k > i => queue[k].type # "Game"
          PROVE  \E j \in DOMAIN queue' : /\ queue'[j].type = "Checkpoint"
                                          /\ \A k \in DOMAIN queue' : k > j => queue'[k].type # "Game"
      <4>1. i \in 1..N /\ i \in DOMAIN queue' /\ queue'[i].type = "Checkpoint"
        BY <2>2, <3>4
      <4>2. \A k \in DOMAIN queue' : k > i => queue'[k].type # "Game"
        BY <1>2, <2>2, <3>4
      <4> QED
        BY <4>1, <4>2
    <3>5. Wrapping /\ ~failure
      BY <1>1 DEF Wrapping
    <3> QED
      BY <2>2, <3>2, <3>3, <3>4, <3>5 DEF EndInOrder
  <2> QED
    BY <1>1, <2>2, <2>3, <2>4, <2>5, <2>6, <2>7 DEF EndInOrder, Holds, Wrapping
<1> HIDE DEF GamesOf
<1> QED
  BY <1>1, <1>2, <1>3, ClientCarriesOn

LEMMA SettleKeepsInv ==
    ASSUME DurableInv, Settle
    PROVE  DurableInv'
<1>a. PICK c : c = [type |-> "Barrier"]
  OBVIOUS
<1>b. PICK N : N = Len(queue)
  OBVIOUS
<1>1. /\ client = "barrier" /\ client' = "settling" /\ ~failure /\ queue' = Append(queue, c)
      /\ UNCHANGED <<files, session, half, official, writerVars>>
  BY <1>a DEF Settle, Send
<1>2. c \in Command /\ c.type = "Barrier" /\ Up /\ client' \in ClientState \ {"down"}
  BY <1>a, <1>1 DEF Command, Up, ClientState
<1>3. EndInOrder'
  <2>1. UNCHANGED <<official, writerVars>>
    BY <1>1
  <2>2. /\ N \in Nat /\ DOMAIN queue = 1..N /\ DOMAIN queue' = 1..(N + 1)
        /\ \A i \in 1..N : queue'[i] = queue[i]
        /\ queue'[N + 1] = c /\ Len(queue') = N + 1
        /\ \A type : Holds(type)' <=> Holds(type) \/ c.type = type
        /\ UNCHANGED <<task, failure, reply, dirty, official>>
        /\ reply \in {"none", "ok", "failed"}
        /\ EndInOrder
    BY <1>b, <1>1, <1>2, <2>1, QueuedBehind
  <2>3. half # 1 /\ ~Holds("Barrier") /\ task.type # "Barrier" /\ reply = "none"
    BY <1>1, <2>2 DEF EndInOrder
  <2>4. \A i \in DOMAIN queue' : queue'[i].type = "Log" => i = 1 /\ task = Idle /\ ~failure
    BY <1>2, <2>2 DEF EndInOrder
  <2>5. \A i \in DOMAIN queue' : queue'[i].type = "Barrier" => i = Len(queue')
    BY <1>2, <2>2, <2>3 DEF Holds
  <2>6. \A i \in DOMAIN queue' : queue'[i].type = "Result" =>
           /\ queue'[i].games = GamesOf(official)'
           /\ \A k \in DOMAIN queue' : k > i => queue'[k].type = "Barrier"
    <3>1. GamesOf(official)' = GamesOf(official)
      BY <2>2 DEF GamesOf
    <3> SUFFICES ASSUME NEW i \in DOMAIN queue', queue'[i].type = "Result"
                 PROVE  /\ queue'[i].games = GamesOf(official)'
                        /\ \A k \in DOMAIN queue' : k > i => queue'[k].type = "Barrier"
      OBVIOUS
    <3>2. i \in 1..N /\ queue[i].type = "Result"
      BY <1>2, <2>2
    <3>3. queue[i].games = GamesOf(official) /\ \A k \in 1..N : k > i => queue[k].type = "Barrier"
      BY <2>2, <3>2 DEF EndInOrder
    <3> QED
      BY <1>2, <2>2, <3>1, <3>2, <3>3
  <2>7. task'.type = "Result" =>
          /\ task'.games = GamesOf(official)'
          /\ \A k \in DOMAIN queue' : queue'[k].type = "Barrier"
    <3>1. GamesOf(official)' = GamesOf(official)
      BY <2>2 DEF GamesOf
    <3> QED
      BY <1>2, <2>2, <3>1 DEF EndInOrder
  <2>8. \/ Flushed'
        \/ (task.type = "Checkpoint" /\ ~Holds("Game"))'
        \/ \E i \in DOMAIN queue' : /\ queue'[i].type = "Checkpoint"
                                    /\ \A k \in DOMAIN queue' : k > i => queue'[k].type # "Game"
    <3>1. (Holds("Game")' <=> Holds("Game")) /\ (Holds("Log")' <=> Holds("Log"))
      BY <1>2, <2>2
    <3>2. CASE Flushed
      BY <2>2, <3>1, <3>2 DEF Flushed
    <3>3. CASE task.type = "Checkpoint" /\ ~Holds("Game")
      BY <2>2, <3>1, <3>3
    <3>4. ASSUME NEW i \in DOMAIN queue, queue[i].type = "Checkpoint",
                 \A k \in DOMAIN queue : k > i => queue[k].type # "Game"
          PROVE  \E j \in DOMAIN queue' : /\ queue'[j].type = "Checkpoint"
                                          /\ \A k \in DOMAIN queue' : k > j => queue'[k].type # "Game"
      <4>1. i \in 1..N /\ i \in DOMAIN queue' /\ queue'[i].type = "Checkpoint"
        BY <2>2, <3>4
      <4>2. \A k \in DOMAIN queue' : k > i => queue'[k].type # "Game"
        BY <1>2, <2>2, <3>4
      <4> QED
        BY <4>1, <4>2
    <3>5. Wrapping /\ ~failure
      BY <1>1 DEF Wrapping
    <3> QED
      BY <2>2, <3>2, <3>3, <3>4, <3>5 DEF EndInOrder
  <2> QED
    BY <1>1, <2>2, <2>3, <2>4, <2>5, <2>6, <2>7, <2>8 DEF EndInOrder, Holds, Wrapping
<1> QED
  BY <1>1, <1>2, <1>3, ClientCarriesOn

\* A client that sends nothing.
LEMMA ClientTurnsKeepsInv ==
    ASSUME DurableInv, CheckpointNotDue \/ ScheduleFails \/ Settled \/ SendFails
    PROVE  DurableInv'
<1>1. /\ client \in {"commit", "cadence", "result", "barrier", "settling"}
      /\ UNCHANGED <<files, session, half, official, queue, writerVars>>
      /\ \/ client = "cadence" /\ client' = "commit"
         \/ client = "commit" /\ half = 0 /\ client' = "failed"
         \/ /\ client = "settling" /\ reply # "none"
            /\ client' = IF reply = "ok" THEN "done" ELSE "failed"
         \/ failure /\ client # "settling" /\ client' = "failed"
  BY DEF CheckpointNotDue, ScheduleFails, Settled, SendFails
<1>2. Up /\ client' \in ClientState \ {"down"}
  BY <1>1 DEF Up, ClientState
<1>3. EndInOrder'
  <2>1. /\ UNCHANGED <<half, official, queue, task, dirty, failure, reply>>
        /\ reply \in {"none", "ok", "failed"} /\ EndInOrder
    BY <1>1 DEF writerVars, DurableInv, DurableTypes, ClientInv
  <2>2. (Flushed' <=> Flushed) /\ \A type : Holds(type)' <=> Holds(type)
    BY <2>1 DEF Flushed, Holds
  <2>3. GamesOf(official)' = GamesOf(official)
    BY <2>1 DEF GamesOf
  <2>4. CASE client = "cadence" /\ client' = "commit"
    BY <2>1, <2>2, <2>3, <2>4 DEF EndInOrder, Wrapping
  <2>5. CASE client = "commit" /\ half = 0 /\ client' = "failed"
    BY <2>1, <2>2, <2>3, <2>5 DEF EndInOrder, Wrapping
  <2>6. CASE client = "settling" /\ reply = "ok" /\ client' = "done"
    <3>1. queue = << >> /\ task = Idle
      BY <2>1, <2>6 DEF EndInOrder
    <3>2. ~Holds("Result") /\ task.type # "Result" /\ ~Holds("Barrier") /\ task.type # "Barrier"
      BY <3>1 DEF Holds, Idle
    <3> QED
      BY <2>1, <2>2, <2>3, <2>6, <3>2 DEF EndInOrder, Wrapping
  <2>7. CASE client = "settling" /\ reply = "failed" /\ client' = "failed"
    BY <2>1, <2>2, <2>3, <2>7 DEF EndInOrder, Wrapping
  <2>8. CASE failure /\ client # "settling" /\ client' = "failed"
    BY <2>1, <2>2, <2>3, <2>8 DEF EndInOrder, Wrapping
  <2> QED
    BY <1>1, <2>1, <2>4, <2>5, <2>6, <2>7, <2>8
<1>4. UNCHANGED <<files, session, half, official, writerVars>> /\ queue' = queue
  BY <1>1
<1> QED
  BY <1>2, <1>3, <1>4, ClientCarriesOn

\* The first command leaves the queue.
LEMMA QueueShift ==
    ASSUME DurableInv, queue # << >>, queue' = Tail(queue), NEW N, N = Len(queue)
    PROVE  /\ N \in Nat /\ N >= 1 /\ DOMAIN queue = 1..N /\ DOMAIN queue' = 1..(N - 1)
           /\ Len(queue') = N - 1 /\ queue' \in Seq(Command)
           /\ \A i \in 1..(N - 1) : i + 1 \in 1..N /\ queue'[i] = queue[i + 1]
           /\ \A i \in 1..N : i = 1 \/ (i - 1 \in 1..(N - 1) /\ queue'[i - 1] = queue[i])
           /\ Head(queue) = queue[1] /\ queue[1] \in Command /\ 1 \in 1..N
           /\ \A type : Holds(type) <=> Holds(type)' \/ queue[1].type = type
<1>1. queue \in Seq(Command)
  BY DEF DurableInv, DurableTypes
<1>2. /\ N \in Nat /\ N >= 1 /\ DOMAIN queue = 1..N /\ DOMAIN queue' = 1..(N - 1)
      /\ Len(queue') = N - 1 /\ queue' \in Seq(Command)
      /\ \A i \in 1..(N - 1) : queue'[i] = queue[i + 1]
      /\ Head(queue) = queue[1] /\ queue[1] \in Command
  BY <1>1, Taken
<1>3. /\ \A i \in 1..(N - 1) : i + 1 \in 1..N /\ queue'[i] = queue[i + 1]
      /\ \A i \in 1..N : i = 1 \/ (i - 1 \in 1..(N - 1) /\ queue'[i - 1] = queue[i])
      /\ 1 \in 1..N
  <2>1. \A i \in 1..N : i = 1 \/ (i - 1 \in 1..(N - 1) /\ (i - 1) + 1 = i)
    BY <1>2
  <2> QED
    BY <1>2, <2>1
<1>4. ASSUME NEW type
      PROVE  Holds(type) <=> Holds(type)' \/ queue[1].type = type
  <2>1. (\E i \in 1..N : queue[i].type = type)
           => (\E i \in 1..(N - 1) : queue'[i].type = type) \/ queue[1].type = type
    <3>1. ASSUME NEW i \in 1..N, queue[i].type = type, i # 1
          PROVE  \E k \in 1..(N - 1) : queue'[k].type = type
      <4>1. i - 1 \in 1..(N - 1) /\ queue'[i - 1].type = type
        BY <1>3, <3>1
      <4> QED
        BY <4>1
    <3> QED
      BY <3>1
  <2>2. (\E i \in 1..(N - 1) : queue'[i].type = type) \/ queue[1].type = type
           => (\E i \in 1..N : queue[i].type = type)
    <3>1. ASSUME NEW i \in 1..(N - 1), queue'[i].type = type
          PROVE  \E k \in 1..N : queue[k].type = type
      <4>1. i + 1 \in 1..N /\ queue[i + 1].type = type
        BY <1>3, <3>1
      <4> QED
        BY <4>1
    <3> QED
      BY <1>3, <3>1
  <2> QED
    BY <1>2, <2>1, <2>2 DEF Holds
<1> QED
  BY <1>2, <1>3, <1>4

\* The facts about the queue the writer's steps use.
LEMMA StreamFacts ==
    ASSUME DurableInv, Up, ~failure
    PROVE  /\ Writing =>
                 /\ task.game.session = session
                 /\ Number(task.game) = NextNumber(JournalGames, Len(journal), session)
           /\ FirstQueued <= Sent + 1 /\ FirstQueued \in Int /\ Sent \in Nat
           /\ NextNumber(JournalGames, Len(journal), session) \in Int
           /\ \A i \in DOMAIN queue : IsGame(i) =>
                 queue[i].game.session = session /\ Number(queue[i].game) \in FirstQueued..Sent
           /\ \A n \in FirstQueued..Sent :
                 \E i \in DOMAIN queue : IsGame(i) /\ Number(queue[i].game) = n
           /\ \A i, k \in DOMAIN queue :
                 i < k /\ IsGame(i) /\ IsGame(k) => Number(queue[i].game) < Number(queue[k].game)
<1>1. DurableTypes /\ session \in Nat /\ half \in 0..1 /\ Len(official) \in Nat
  BY DEF DurableInv, DurableTypes
<1>2. NextNumber(JournalGames, Len(journal), session) \in Int
  BY <1>1, NextNumberType
<1>3. FirstQueued \in Int /\ Sent \in Nat
  BY <1>1, <1>2 DEF FirstQueued, Sent
<1> QED
  BY <1>2, <1>3 DEF DurableInv, ClientInv, Stream

\* The writer takes a command, or drops the first one.
LEMMA ReceiveKeepsStream ==
    ASSUME DurableInv, Up, Up', ~failure, ~failure', task = Idle, queue # << >>,
           queue' = Tail(queue),
           UNCHANGED <<files, session, half, official>>,
           \/ queue[1].type = "Game" /\ task' = queue[1] /\ wpc' = "moves"
           \/ queue[1].type # "Game" /\ wpc' \notin {"moves", "line"}
    PROVE  Stream' /\ OfficialInHand'
<1>a. PICK N : N = Len(queue)
  OBVIOUS
<1>b. PICK n0 : n0 = NextNumber(JournalGames, Len(journal), session)
  OBVIOUS
<1>c. PICK head : head = queue[1]
  OBVIOUS
<1>1. /\ N \in Nat /\ N >= 1 /\ DOMAIN queue = 1..N /\ DOMAIN queue' = 1..(N - 1)
      /\ \A i \in 1..(N - 1) : i + 1 \in 1..N /\ queue'[i] = queue[i + 1]
      /\ \A i \in 1..N : i = 1 \/ (i - 1 \in 1..(N - 1) /\ queue'[i - 1] = queue[i])
      /\ head \in Command /\ 1 \in 1..N
  BY <1>a, <1>c, QueueShift
<1>2. ~Writing /\ wpc = "idle"
  BY DEF DurableInv, WriterInv, Steps, Writing
<1>3. /\ n0 \in Int /\ Sent \in Nat /\ FirstQueued = n0 /\ n0 <= Sent + 1
      /\ \A i \in 1..N : queue[i].type = "Game" =>
            queue[i].game.session = session /\ Number(queue[i].game) \in n0..Sent
      /\ \A n \in n0..Sent : \E i \in 1..N : queue[i].type = "Game" /\ Number(queue[i].game) = n
      /\ \A i, k \in 1..N : i < k /\ queue[i].type = "Game" /\ queue[k].type = "Game" =>
            Number(queue[i].game) < Number(queue[k].game)
  <2>1. FirstQueued = n0
    BY <1>b, <1>2, StreamFacts DEF FirstQueued
  <2> QED
    BY <1>1, <1>b, <2>1, StreamFacts DEF IsGame
<1>4. /\ UNCHANGED <<journal, session>> /\ JournalGames' = JournalGames
      /\ Sent' = Sent /\ NextPair' = NextPair
      /\ NextNumber(JournalGames, Len(journal), session)' = n0
  BY <1>b DEF files, JournalGames, Sent, NextPair
<1>5. \A i \in 1..(N - 1) : queue'[i].type = "Game" =>
          /\ queue'[i].game.session = session
          /\ Number(queue'[i].game) \in n0..Sent
  BY <1>1, <1>3
<1>6. \A i, k \in 1..(N - 1) : i < k /\ queue'[i].type = "Game" /\ queue'[k].type = "Game" =>
          Number(queue'[i].game) < Number(queue'[k].game)
  BY <1>1, <1>3
<1>7. CASE head.type = "Game"
  <2>1. Writing' /\ task' = head
    BY <1>c, <1>7 DEF Writing
  <2>2. Number(head.game) = n0 /\ n0 <= Sent /\ head.game.session = session
    <3>1. Number(head.game) \in n0..Sent /\ head.game.session = session
      BY <1>c, <1>1, <1>3, <1>7
    <3>2. PICK i \in 1..N : queue[i].type = "Game" /\ Number(queue[i].game) = n0
      BY <1>3, <3>1
    <3>3. i = 1
      <4> SUFFICES ASSUME i # 1 PROVE FALSE
        OBVIOUS
      <4>1. Number(head.game) < Number(queue[i].game)
        BY <1>c, <1>1, <1>3, <1>7, <3>2
      <4> QED
        BY <1>3, <3>1, <3>2, <4>1
    <3> QED
      BY <1>c, <1>3, <3>1, <3>2, <3>3
  <2>3. FirstQueued' = n0 + 1
    BY <1>4, <2>1 DEF FirstQueued
  <2>4. \A i \in 1..(N - 1) : queue'[i].type = "Game" =>
           Number(queue'[i].game) \in (n0 + 1)..Sent
    <3> SUFFICES ASSUME NEW i \in 1..(N - 1), queue'[i].type = "Game"
                 PROVE  Number(queue'[i].game) \in (n0 + 1)..Sent
      OBVIOUS
    <3>1. i + 1 \in 1..N /\ queue'[i] = queue[i + 1] /\ 1 < i + 1
      BY <1>1
    <3>2. Number(head.game) < Number(queue'[i].game)
      BY <1>c, <1>1, <1>3, <1>7, <3>1
    <3>3. PICK number : number = Number(queue'[i].game)
      OBVIOUS
    <3>4. number \in n0..Sent /\ n0 < number
      BY <1>5, <2>2, <3>2, <3>3
    <3>5. number \in (n0 + 1)..Sent
      BY <1>3, <3>4
    <3> QED
      BY <3>3, <3>5
  <2>5. ASSUME NEW n \in (n0 + 1)..Sent
        PROVE  \E i \in 1..(N - 1) : queue'[i].type = "Game" /\ Number(queue'[i].game) = n
    <3>1. n \in n0..Sent /\ n # n0
      BY <1>3
    <3>2. PICK i \in 1..N : queue[i].type = "Game" /\ Number(queue[i].game) = n
      BY <1>3, <3>1
    <3>3. i # 1
      BY <1>c, <2>2, <3>1, <3>2
    <3>4. i - 1 \in 1..(N - 1) /\ (i - 1) + 1 = i
      BY <1>1, <3>3
    <3>5. queue'[i - 1] = queue[i]
      BY <1>1, <3>4
    <3> QED
      BY <3>2, <3>4, <3>5
  <2>6. Stream'
    <3>1. n0 + 1 <= Sent + 1
      BY <1>3, <2>2
    <3> QED
      BY <1>1, <1>4, <1>5, <1>6, <2>1, <2>2, <2>3, <2>4, <2>5, <3>1 DEF Stream, IsGame
  <2>7. \A game : InHand(game) => InHand(game)'
    <3> SUFFICES ASSUME NEW game, InHand(game) PROVE InHand(game)'
      OBVIOUS
    <3>1. CASE \E i \in DOMAIN journal : journal[i].game = game
      BY <1>4, <3>1 DEF InHand
    <3>2. ASSUME NEW i \in 1..N, queue[i].type = "Game", queue[i].game = game
          PROVE  InHand(game)'
      <4>1. CASE i = 1
        BY <1>c, <2>1, <3>2, <4>1 DEF InHand
      <4>2. CASE i # 1
        <5>1. /\ i - 1 \in DOMAIN queue' /\ queue'[i - 1].type = "Game"
              /\ queue'[i - 1].game = game
          BY <1>1, <3>2, <4>2
        <5> QED
          BY <5>1 DEF InHand, IsGame
      <4> QED
        BY <4>1, <4>2
    <3> QED
      BY <1>1, <1>2, <3>1, <3>2 DEF InHand, IsGame
  <2> QED
    BY <1>4, <2>6, <2>7 DEF DurableInv, ClientInv, OfficialInHand
<1>8. CASE head.type # "Game"
  <2>1. ~Writing'
    BY <1>c, <1>8 DEF Writing
  <2>2. FirstQueued' = n0
    BY <1>3, <1>4, <2>1 DEF FirstQueued
  <2>3. ASSUME NEW n \in n0..Sent
        PROVE  \E i \in 1..(N - 1) : queue'[i].type = "Game" /\ Number(queue'[i].game) = n
    <3>1. PICK i \in 1..N : queue[i].type = "Game" /\ Number(queue[i].game) = n
      BY <1>3
    <3>2. i # 1
      BY <1>c, <1>8, <3>1
    <3>3. i - 1 \in 1..(N - 1) /\ (i - 1) + 1 = i
      BY <1>1, <3>2
    <3>4. queue'[i - 1] = queue[i]
      BY <1>1, <3>3
    <3> QED
      BY <3>1, <3>3, <3>4
  <2>4. Stream'
    BY <1>1, <1>3, <1>4, <1>5, <1>6, <2>1, <2>2, <2>3 DEF Stream, IsGame
  <2>5. \A game : InHand(game) => InHand(game)'
    <3> SUFFICES ASSUME NEW game, InHand(game) PROVE InHand(game)'
      OBVIOUS
    <3>1. CASE \E i \in DOMAIN journal : journal[i].game = game
      BY <1>4, <3>1 DEF InHand
    <3>2. ASSUME NEW i \in 1..N, queue[i].type = "Game", queue[i].game = game
          PROVE  InHand(game)'
      <4>1. i # 1
        BY <1>c, <1>8, <3>2
      <4> QED
        <5>1. /\ i - 1 \in DOMAIN queue' /\ queue'[i - 1].type = "Game"
              /\ queue'[i - 1].game = game
          BY <1>1, <3>2, <4>1
        <5> QED
          BY <5>1 DEF InHand, IsGame
    <3> QED
      BY <1>1, <1>2, <3>1, <3>2 DEF InHand, IsGame
  <2> QED
    BY <1>4, <2>4, <2>5 DEF DurableInv, ClientInv, OfficialInHand
<1> QED
  BY <1>7, <1>8

\* What is left of the queue keeps the order of the end.
LEMMA EndShift ==
    ASSUME DurableInv, queue # << >>, queue' = Tail(queue), NEW N, N = Len(queue),
           UNCHANGED official
    PROVE  /\ \A i \in DOMAIN queue' : queue'[i].type # "Log"
           /\ \A i \in DOMAIN queue' : queue'[i].type = "Result" =>
                 /\ queue'[i].games = GamesOf(official)'
                 /\ \A k \in DOMAIN queue' : k > i => queue'[k].type = "Barrier"
           /\ queue[1].type = "Result" =>
                 /\ queue[1].games = GamesOf(official)'
                 /\ \A k \in DOMAIN queue' : queue'[k].type = "Barrier"
           /\ \A i \in DOMAIN queue' : queue'[i].type = "Barrier" => i = Len(queue')
           /\ queue[1].type = "Barrier" => queue' = << >> /\ ~Holds("Barrier")'
           /\ \A i \in DOMAIN queue :
                 queue[i].type = "Checkpoint" /\ (\A k \in DOMAIN queue : k > i => queue[k].type # "Game") =>
                    \/ queue[1].type = "Checkpoint" /\ ~Holds("Game")'
                    \/ \E j \in DOMAIN queue' :
                          /\ queue'[j].type = "Checkpoint"
                          /\ \A k \in DOMAIN queue' : k > j => queue'[k].type # "Game"
<1>1. /\ N \in Nat /\ N >= 1 /\ DOMAIN queue = 1..N /\ DOMAIN queue' = 1..(N - 1)
      /\ Len(queue') = N - 1 /\ queue' \in Seq(Command)
      /\ \A i \in 1..(N - 1) : i + 1 \in 1..N /\ queue'[i] = queue[i + 1]
      /\ \A i \in 1..N : i = 1 \/ (i - 1 \in 1..(N - 1) /\ queue'[i - 1] = queue[i])
      /\ 1 \in 1..N
  BY QueueShift
<1>2. EndInOrder
  BY DEF DurableInv, ClientInv
<1>3. GamesOf(official)' = GamesOf(official)
  BY DEF GamesOf
<1>4. \A i \in DOMAIN queue' : queue'[i].type # "Log"
  <2> SUFFICES ASSUME NEW i \in 1..(N - 1), queue'[i].type = "Log" PROVE FALSE
    BY <1>1
  <2>1. i + 1 \in DOMAIN queue /\ queue[i + 1].type = "Log" /\ i + 1 # 1
    BY <1>1
  <2> QED
    BY <1>2, <2>1 DEF EndInOrder
<1>5. ASSUME NEW i \in DOMAIN queue', queue'[i].type = "Result"
      PROVE  /\ queue'[i].games = GamesOf(official)'
             /\ \A k \in DOMAIN queue' : k > i => queue'[k].type = "Barrier"
  <2>1. i \in 1..(N - 1) /\ i + 1 \in DOMAIN queue /\ queue'[i] = queue[i + 1]
    BY <1>1
  <2>2. queue[i + 1].games = GamesOf(official)
        /\ \A k \in DOMAIN queue : k > i + 1 => queue[k].type = "Barrier"
    BY <1>2, <1>5, <2>1 DEF EndInOrder
  <2>3. \A k \in 1..(N - 1) : k > i => k + 1 > i + 1 /\ k + 1 \in DOMAIN queue /\ queue'[k] = queue[k + 1]
    BY <1>1, <2>1
  <2> QED
    BY <1>1, <1>3, <2>1, <2>2, <2>3
<1>6. queue[1].type = "Result" =>
         /\ queue[1].games = GamesOf(official)'
         /\ \A k \in DOMAIN queue' : queue'[k].type = "Barrier"
  <2>1. queue[1].type = "Result" =>
           /\ queue[1].games = GamesOf(official)
           /\ \A k \in DOMAIN queue : k > 1 => queue[k].type = "Barrier"
    BY <1>1, <1>2 DEF EndInOrder
  <2>2. \A k \in 1..(N - 1) : k + 1 > 1 /\ k + 1 \in DOMAIN queue /\ queue'[k] = queue[k + 1]
    BY <1>1
  <2> QED
    BY <1>1, <1>3, <2>1, <2>2
<1>7. \A i \in DOMAIN queue' : queue'[i].type = "Barrier" => i = Len(queue')
  <2> SUFFICES ASSUME NEW i \in 1..(N - 1), queue'[i].type = "Barrier" PROVE i = N - 1
    BY <1>1
  <2>1. i + 1 \in DOMAIN queue /\ queue[i + 1].type = "Barrier"
    BY <1>1
  <2>2. i + 1 = N
    BY <1>2, <2>1 DEF EndInOrder
  <2> QED
    BY <2>2
<1>8. ASSUME queue[1].type = "Barrier"
      PROVE  queue' = << >> /\ ~Holds("Barrier")'
  <2>1. 1 = N
    BY <1>1, <1>2, <1>8 DEF EndInOrder
  <2>2. DOMAIN queue' = {} /\ Len(queue') = 0
    BY <1>1, <2>1
  <2> QED
    BY <1>1, <2>2 DEF Holds
<1>9. ASSUME NEW i \in DOMAIN queue, queue[i].type = "Checkpoint",
             \A k \in DOMAIN queue : k > i => queue[k].type # "Game"
      PROVE  \/ queue[1].type = "Checkpoint" /\ ~Holds("Game")'
             \/ \E j \in DOMAIN queue' :
                   /\ queue'[j].type = "Checkpoint"
                   /\ \A k \in DOMAIN queue' : k > j => queue'[k].type # "Game"
  <2>1. CASE i = 1
    <3>1. ASSUME NEW k \in 1..(N - 1) PROVE queue'[k].type # "Game"
      <4>1. k + 1 \in DOMAIN queue /\ k + 1 > i /\ queue'[k] = queue[k + 1]
        BY <1>1, <2>1
      <4> QED
        BY <1>9, <4>1
    <3> QED
      BY <1>1, <1>9, <2>1, <3>1 DEF Holds
  <2>2. CASE i # 1
    <3>1. i \in 1..N /\ i - 1 \in 1..(N - 1) /\ queue'[i - 1] = queue[i]
      BY <1>1, <2>2
    <3>2. ASSUME NEW k \in 1..(N - 1), k > i - 1 PROVE queue'[k].type # "Game"
      <4>1. k + 1 \in DOMAIN queue /\ k + 1 > i /\ queue'[k] = queue[k + 1]
        BY <1>1, <3>1, <3>2
      <4> QED
        BY <1>9, <4>1
    <3> QED
      BY <1>1, <1>9, <3>1, <3>2, SMTT(30)
  <2> QED
    BY <2>1, <2>2
<1> QED
  BY <1>4, <1>5, <1>6, <1>7, <1>8, <1>9

LEMMA ReceiveKeepsInv ==
    ASSUME DurableInv, Receive
    PROVE  DurableInv'
<1>a. PICK N : N = Len(queue)
  OBVIOUS
<1>b. PICK head : head = queue[1]
  OBVIOUS
<1>1. /\ Up /\ task = Idle /\ queue # << >> /\ ~failure /\ queue' = Tail(queue)
      /\ UNCHANGED <<files, session, clientVars, position, dirty, unsyncedGames, failure, reply>>
  BY DEF Receive
<1>2. /\ N \in Nat /\ N >= 1 /\ DOMAIN queue = 1..N /\ DOMAIN queue' = 1..(N - 1)
      /\ Len(queue') = N - 1 /\ queue' \in Seq(Command)
      /\ Head(queue) = head /\ head \in Command /\ 1 \in 1..N
      /\ \A type : Holds(type) <=> Holds(type)' \/ head.type = type
  BY <1>a, <1>b, <1>1, QueueShift
<1>3. /\ task' = head /\ head.type \in {"Game", "Result", "Checkpoint", "Barrier"}
      /\ head # Idle
      /\ wpc' = CASE head.type = "Game" -> "moves"
                  [] head.type = "Result" -> "result"
                  [] head.type \in {"Checkpoint", "Barrier"} -> "sync"
  <2>1. task' = head /\ wpc' = FirstStep(head) /\ head.type # "Log"
    BY <1>2 DEF Receive
  <2> QED
    BY <1>2, <2>1, CommandType DEF FirstStep
<1>4. /\ UNCHANGED <<journal, pgn, syncedJournal, syncedPgn, checkpoint, session>>
      /\ UNCHANGED <<client, half, official, nextSeq, pgnOffset, dirty, failure, reply>>
      /\ (Up' <=> Up)
  BY <1>1 DEF files, clientVars, position, Up
<1>5. \/ head.type = "Game" /\ wpc' = "moves"
      \/ head.type = "Result" /\ wpc' = "result"
      \/ head.type \in {"Checkpoint", "Barrier"} /\ wpc' = "sync"
  BY <1>3
<1>6. DurableTypes'
  BY <1>2, <1>3, <1>4 DEF DurableInv, DurableTypes
<1>7. DirectoryInv'
  BY <1>4, SameDirectory DEF DurableInv, synced
<1>8. WriterInv'
  <2>1. Steps'
    BY <1>1, <1>3, <1>4, <1>5 DEF Steps
  <2>2. DownIsEmpty'
    BY <1>1, <1>4 DEF DownIsEmpty
  <2>3. AtTheEnd'
    BY <1>4, <1>5 DEF DurableInv, WriterInv, AtTheEnd, Whole, Valid, MovesPresent
  <2>4. wpc # "line"
    BY <1>1 DEF DurableInv, WriterInv, Steps
  <2>5. CleanIsSynced'
    <3>1. head.type # "Log"
      BY <1>3
    <3> QED
      BY <1>1, <1>2, <1>4, <2>4, <3>1 DEF DurableInv, WriterInv, CleanIsSynced
  <2> QED
    BY <2>1, <2>2, <2>3, <2>5 DEF WriterInv
<1>9. Stream' /\ OfficialInHand'
  <2>1. UNCHANGED <<files, session, half, official>> /\ Up' /\ ~failure'
    BY <1>1, <1>4 DEF clientVars
  <2>2. \/ queue[1].type = "Game" /\ task' = queue[1] /\ wpc' = "moves"
        \/ queue[1].type # "Game" /\ wpc' \notin {"moves", "line"}
    BY <1>b, <1>3, <1>5
  <2> QED
    BY <1>1, <2>1, <2>2, ReceiveKeepsStream
<1>10. EndInOrder'
  <2>1. EndInOrder
    BY DEF DurableInv, ClientInv
  <2>2. /\ \A i \in DOMAIN queue' : queue'[i].type # "Log"
        /\ \A i \in DOMAIN queue' : queue'[i].type = "Result" =>
              /\ queue'[i].games = GamesOf(official)'
              /\ \A k \in DOMAIN queue' : k > i => queue'[k].type = "Barrier"
        /\ head.type = "Result" =>
              /\ head.games = GamesOf(official)'
              /\ \A k \in DOMAIN queue' : queue'[k].type = "Barrier"
        /\ \A i \in DOMAIN queue' : queue'[i].type = "Barrier" => i = Len(queue')
        /\ head.type = "Barrier" => queue' = << >> /\ ~Holds("Barrier")'
        /\ \A i \in DOMAIN queue :
              queue[i].type = "Checkpoint" /\ (\A k \in DOMAIN queue : k > i => queue[k].type # "Game") =>
                 \/ head.type = "Checkpoint" /\ ~Holds("Game")'
                 \/ \E j \in DOMAIN queue' :
                       /\ queue'[j].type = "Checkpoint"
                       /\ \A k \in DOMAIN queue' : k > j => queue'[k].type # "Game"
    BY <1>a, <1>b, <1>1, <1>4, EndShift
  <2>3. /\ half' = 1 => client' = "commit" \/ failure'
        /\ Holds("Result")' \/ task'.type = "Result" => failure' \/ client' \in {"barrier", "settling"}
        /\ Holds("Barrier")' \/ task'.type = "Barrier" => client' = "settling" /\ reply' = "none"
        /\ reply' # "ok" /\ (reply' = "failed" => failure')
        /\ reply' # "none" => client' \in {"settling", "done", "failed"}
        /\ client' = "done" => reply' = "ok"
    BY <1>1, <1>2, <1>3, <1>4, <2>1 DEF EndInOrder
  <2>4. (Wrapping /\ ~failure)' =>
          \/ Flushed'
          \/ (task.type = "Checkpoint" /\ ~Holds("Game"))'
          \/ \E i \in DOMAIN queue' : /\ queue'[i].type = "Checkpoint"
                                      /\ \A k \in DOMAIN queue' : k > i => queue'[k].type # "Game"
    <3> SUFFICES ASSUME Wrapping'
                 PROVE  \/ Flushed'
                        \/ (task.type = "Checkpoint" /\ ~Holds("Game"))'
                        \/ \E i \in DOMAIN queue' : /\ queue'[i].type = "Checkpoint"
                                                    /\ \A k \in DOMAIN queue' : k > i => queue'[k].type # "Game"
      OBVIOUS
    <3>1. Wrapping /\ task.type # "Checkpoint"
      BY <1>1, <1>4 DEF Wrapping, Idle
    <3>2. CASE Flushed
      BY <1>2, <1>3, <1>4, <3>2 DEF Flushed
    <3>3. CASE \E i \in DOMAIN queue : /\ queue[i].type = "Checkpoint"
                                       /\ \A k \in DOMAIN queue : k > i => queue[k].type # "Game"
      BY <1>3, <2>2, <3>3
    <3> QED
      BY <1>1, <2>1, <3>1, <3>2, <3>3 DEF EndInOrder
  <2> QED
    BY <1>1, <1>3, <2>2, <2>3, <2>4 DEF EndInOrder
<1> QED
  BY <1>6, <1>7, <1>8, <1>9, <1>10 DEF DurableInv, ClientInv

\* A step of the writer that leaves its queue and its game alone.
LEMMA WriterKeepsStream ==
    ASSUME DurableInv, failure' \/ ((Writing' <=> Writing) /\ (Writing => task' = task)),
           failure => failure',
           UNCHANGED <<journal, session, client, half, official, queue>>
    PROVE  Stream' /\ OfficialInHand'
<1>1. CASE failure'
  BY <1>1 DEF Stream, OfficialInHand
<1>2. CASE ~failure'
  <2>1. ~failure /\ (Writing' <=> Writing) /\ (Writing => task' = task)
    BY <1>2
  <2>2. /\ JournalGames' = JournalGames /\ FirstQueued' = FirstQueued /\ Sent' = Sent
        /\ NextPair' = NextPair /\ (Up' <=> Up)
    BY <2>1 DEF JournalGames, FirstQueued, Sent, NextPair, Up
  <2>3. Stream'
    BY <2>1, <2>2 DEF DurableInv, ClientInv, Stream, IsGame
  <2>4. \A game : InHand(game) => InHand(game)'
    BY <2>1 DEF InHand, IsGame
  <2>5. OfficialInHand'
    BY <2>1, <2>2, <2>4 DEF DurableInv, ClientInv, OfficialInHand
  <2> QED
    BY <2>3, <2>5
<1> QED
  BY <1>1, <1>2

LEMMA ReceiveLogKeepsInv ==
    ASSUME DurableInv, ReceiveLog
    PROVE  DurableInv'
<1>a. PICK N : N = Len(queue)
  OBVIOUS
<1>b. PICK head : head = queue[1]
  OBVIOUS
<1>1. /\ Up /\ task = Idle /\ queue # << >> /\ ~failure /\ queue' = Tail(queue)
      /\ UNCHANGED <<files, session, clientVars, task, wpc, position, unsyncedGames, reply>>
      /\ \/ dirty' = TRUE /\ failure' = failure
         \/ failure' = TRUE /\ dirty' = dirty
  BY DEF ReceiveLog, KeepFailure
<1>2. /\ N \in Nat /\ N >= 1 /\ DOMAIN queue = 1..N /\ DOMAIN queue' = 1..(N - 1)
      /\ Len(queue') = N - 1 /\ queue' \in Seq(Command)
      /\ Head(queue) = head /\ head \in Command /\ 1 \in 1..N
      /\ \A type : Holds(type) <=> Holds(type)' \/ head.type = type
  BY <1>a, <1>b, <1>1, QueueShift
<1>3. head.type = "Log"
  BY <1>2 DEF ReceiveLog
<1>4. /\ UNCHANGED <<journal, pgn, syncedJournal, syncedPgn, checkpoint, session>>
      /\ UNCHANGED <<client, half, official, nextSeq, pgnOffset, task, wpc, reply>>
      /\ (Up' <=> Up) /\ wpc = "idle" /\ wpc' = "idle" /\ task' = Idle
  BY <1>1 DEF files, clientVars, position, Up, DurableInv, WriterInv, Steps
<1>5. DurableTypes'
  BY <1>1, <1>2, <1>4 DEF DurableInv, DurableTypes
<1>6. DirectoryInv'
  BY <1>4, SameDirectory DEF DurableInv, synced
<1>7. WriterInv'
  <2>1. Steps'
    BY <1>1, <1>4 DEF Steps, Idle
  <2>2. DownIsEmpty'
    BY <1>1, <1>4 DEF DownIsEmpty
  <2>3. AtTheEnd'
    BY <1>1, <1>4 DEF DurableInv, WriterInv, AtTheEnd, Whole, Valid, MovesPresent
  <2>4. CleanIsSynced'
    BY <1>1 DEF CleanIsSynced
  <2> QED
    BY <2>1, <2>2, <2>3, <2>4 DEF WriterInv
<1>8. Stream' /\ OfficialInHand'
  <2>1. CASE failure'
    BY <2>1 DEF Stream, OfficialInHand
  <2>2. CASE ~failure'
    <3>1. UNCHANGED <<files, session, half, official>> /\ Up'
      BY <1>1, <1>4 DEF clientVars
    <3>2. queue[1].type # "Game" /\ wpc' \notin {"moves", "line"}
      BY <1>b, <1>3, <1>4
    <3> QED
      BY <1>1, <2>2, <3>1, <3>2, ReceiveKeepsStream
  <2> QED
    BY <2>1, <2>2
<1>9. EndInOrder'
  <2>1. EndInOrder
    BY DEF DurableInv, ClientInv
  <2>2. /\ \A i \in DOMAIN queue' : queue'[i].type # "Log"
        /\ \A i \in DOMAIN queue' : queue'[i].type = "Result" =>
              /\ queue'[i].games = GamesOf(official)'
              /\ \A k \in DOMAIN queue' : k > i => queue'[k].type = "Barrier"
        /\ \A i \in DOMAIN queue' : queue'[i].type = "Barrier" => i = Len(queue')
        /\ \A i \in DOMAIN queue :
              queue[i].type = "Checkpoint" /\ (\A k \in DOMAIN queue : k > i => queue[k].type # "Game") =>
                 \/ head.type = "Checkpoint" /\ ~Holds("Game")'
                 \/ \E j \in DOMAIN queue' :
                       /\ queue'[j].type = "Checkpoint"
                       /\ \A k \in DOMAIN queue' : k > j => queue'[k].type # "Game"
    BY <1>a, <1>b, <1>1, <1>4, EndShift
  <2>3. /\ half' = 1 => client' = "commit" \/ failure'
        /\ Holds("Result")' => failure' \/ client' \in {"barrier", "settling"}
        /\ Holds("Barrier")' => client' = "settling" /\ reply' = "none"
        /\ reply' # "ok" /\ (reply' = "failed" => failure')
        /\ reply' # "none" => client' \in {"settling", "done", "failed"}
        /\ client' = "done" => reply' = "ok"
    BY <1>1, <1>2, <1>4, <2>1 DEF EndInOrder
  <2>4. (Wrapping /\ ~failure)' =>
            \E i \in DOMAIN queue' : /\ queue'[i].type = "Checkpoint"
                                     /\ \A k \in DOMAIN queue' : k > i => queue'[k].type # "Game"
    <3> SUFFICES ASSUME Wrapping'
                 PROVE  \E i \in DOMAIN queue' :
                           /\ queue'[i].type = "Checkpoint"
                           /\ \A k \in DOMAIN queue' : k > i => queue'[k].type # "Game"
      OBVIOUS
    <3>1. Wrapping /\ task.type # "Checkpoint" /\ ~Flushed
      BY <1>1, <1>2, <1>3, <1>4 DEF Wrapping, Idle, Flushed
    <3> QED
      BY <1>1, <1>3, <2>1, <2>2, <3>1 DEF EndInOrder
  <2>5. task'.type \notin {"Result", "Barrier"}
    BY <1>4 DEF Idle
  <2> QED
    BY <2>2, <2>3, <2>4, <2>5 DEF EndInOrder
<1> QED
  BY <1>5, <1>6, <1>7, <1>8, <1>9 DEF DurableInv, ClientInv

LEMMA DiscardKeepsInv ==
    ASSUME DurableInv, Discard
    PROVE  DurableInv'
<1>a. PICK N : N = Len(queue)
  OBVIOUS
<1>b. PICK head : head = queue[1]
  OBVIOUS
<1>1. /\ Up /\ task = Idle /\ queue # << >> /\ failure /\ queue' = Tail(queue)
      /\ UNCHANGED <<files, session, clientVars, task, wpc, position, dirty, unsyncedGames, failure>>
  BY DEF Discard
<1>2. /\ N \in Nat /\ N >= 1 /\ DOMAIN queue = 1..N /\ DOMAIN queue' = 1..(N - 1)
      /\ Len(queue') = N - 1 /\ queue' \in Seq(Command)
      /\ Head(queue) = head /\ head \in Command /\ 1 \in 1..N
      /\ \A type : Holds(type) <=> Holds(type)' \/ head.type = type
  BY <1>a, <1>b, <1>1, QueueShift
<1>3. reply' = IF head.type = "Barrier" THEN "failed" ELSE reply
  BY <1>2 DEF Discard
<1>4. /\ UNCHANGED <<journal, pgn, syncedJournal, syncedPgn, checkpoint, session>>
      /\ UNCHANGED <<client, half, official, nextSeq, pgnOffset, task, wpc, dirty, failure>>
      /\ (Up' <=> Up) /\ wpc = "idle" /\ wpc' = "idle" /\ task' = Idle
  BY <1>1 DEF files, clientVars, position, Up, DurableInv, WriterInv, Steps
<1>5. DurableTypes'
  <2>1. reply' \in {"none", "ok", "failed"}
    BY <1>3 DEF DurableInv, DurableTypes
  <2> QED
    BY <1>2, <1>4, <2>1 DEF DurableInv, DurableTypes
<1>6. DirectoryInv'
  BY <1>4, SameDirectory DEF DurableInv, synced
<1>7. WriterInv'
  <2>1. Steps'
    BY <1>1, <1>4 DEF Steps, Idle
  <2>2. DownIsEmpty'
    BY <1>1, <1>4 DEF DownIsEmpty
  <2>3. AtTheEnd'
    BY <1>1, <1>4 DEF DurableInv, WriterInv, AtTheEnd, Whole, Valid, MovesPresent
  <2>4. CleanIsSynced'
    BY <1>1, <1>4 DEF CleanIsSynced
  <2> QED
    BY <2>1, <2>2, <2>3, <2>4 DEF WriterInv
<1>8. Stream' /\ OfficialInHand'
  BY <1>1, <1>4 DEF Stream, OfficialInHand
<1>9. EndInOrder'
  <2>1. EndInOrder
    BY DEF DurableInv, ClientInv
  <2>2. /\ \A i \in DOMAIN queue' : queue'[i].type # "Log"
        /\ \A i \in DOMAIN queue' : queue'[i].type = "Result" =>
              /\ queue'[i].games = GamesOf(official)'
              /\ \A k \in DOMAIN queue' : k > i => queue'[k].type = "Barrier"
        /\ \A i \in DOMAIN queue' : queue'[i].type = "Barrier" => i = Len(queue')
        /\ head.type = "Barrier" => queue' = << >> /\ ~Holds("Barrier")'
    BY <1>a, <1>b, <1>1, <1>4, EndShift
  <2>3. /\ Holds("Barrier")' => client' = "settling" /\ reply' = "none"
        /\ reply' # "ok" 
        /\ reply' # "none" => client' \in {"settling", "done", "failed"}
        /\ client' # "done"
    <3>1. /\ head.type = "Barrier" => client = "settling"
          /\ reply # "ok" /\ client # "done"
          /\ reply # "none" => client \in {"settling", "done", "failed"}
          /\ Holds("Barrier")' => client = "settling" /\ reply = "none"
      BY <1>1, <1>2, <2>1 DEF EndInOrder
    <3> QED
      BY <1>3, <1>4, <2>2, <3>1
  <2>4. task'.type \notin {"Result", "Barrier"}
    BY <1>4 DEF Idle
  <2> QED
    BY <1>1, <1>4, <2>2, <2>3, <2>4 DEF EndInOrder
<1> QED
  BY <1>5, <1>6, <1>7, <1>8, <1>9 DEF DurableInv, ClientInv

LEMMA TimeoutKeepsInv ==
    ASSUME DurableInv, Timeout
    PROVE  DurableInv'
<1>1. /\ Up /\ task = Idle /\ queue = << >> /\ dirty /\ task' = Tick /\ wpc' = "sync"
      /\ UNCHANGED <<files, session, clientVars, queue, position, dirty, unsyncedGames, failure, reply>>
  BY DEF Timeout
<1>2. /\ UNCHANGED <<journal, pgn, syncedJournal, syncedPgn, checkpoint, session>>
      /\ UNCHANGED <<client, half, official, nextSeq, pgnOffset, queue, dirty, failure, reply>>
      /\ (Up' <=> Up) /\ wpc = "idle"
  BY <1>1 DEF files, clientVars, position, Up, DurableInv, WriterInv, Steps
<1>3. DurableTypes'
  BY <1>1, <1>2 DEF DurableInv, DurableTypes
<1>4. DirectoryInv'
  BY <1>2, SameDirectory DEF DurableInv, synced
<1>5. WriterInv'
  <2>1. Steps'
    BY <1>1, <1>2 DEF Steps, Idle, Tick
  <2>2. DownIsEmpty'
    BY <1>1, <1>2 DEF DownIsEmpty
  <2>3. AtTheEnd'
    BY <1>1, <1>2 DEF DurableInv, WriterInv, AtTheEnd, Whole, Valid, MovesPresent
  <2>4. CleanIsSynced'
    BY <1>1, <1>2 DEF CleanIsSynced
  <2> QED
    BY <2>1, <2>2, <2>3, <2>4 DEF WriterInv
<1>6. Stream' /\ OfficialInHand'
  <2>1. ~Writing /\ ~Writing'
    BY <1>1, <1>2 DEF Writing
  <2> QED
    BY <1>2, <2>1, WriterKeepsStream
<1>7. EndInOrder'
  <2>1. EndInOrder
    BY DEF DurableInv, ClientInv
  <2>2. DOMAIN queue = {} /\ \A type : ~Holds(type)
    BY <1>1 DEF Holds
  <2>3. DOMAIN queue' = {} /\ \A type : ~Holds(type)'
    BY <1>1, <1>2 DEF Holds
  <2>4. task'.type = "Tick" /\ task.type = "Idle"
    BY <1>1 DEF Tick, Idle
  <2>5. Wrapping => failure
    BY <1>1, <2>1, <2>2, <2>4 DEF EndInOrder, Flushed
  <2> QED
    BY <1>1, <1>2, <2>1, <2>2, <2>3, <2>4, <2>5 DEF EndInOrder, Wrapping
<1> QED
  BY <1>3, <1>4, <1>5, <1>6, <1>7 DEF DurableInv, ClientInv

LEMMA AppendMovesKeepsInv ==
    ASSUME DurableInv, AppendMoves
    PROVE  DurableInv'
<1>1. /\ wpc = "moves" /\ wpc' = "line" /\ pgn' = Append(pgn, task.game)
      /\ UNCHANGED <<journal, synced, checkpoint, result, session, clientVars, queue, task,
                     nextSeq, dirty, unsyncedGames, failure, reply>>
      /\ pgnOffset' = pgnOffset + 1
  BY DEF AppendMoves
<1>2. /\ UNCHANGED <<journal, syncedJournal, syncedPgn, checkpoint, session>>
      /\ UNCHANGED <<client, half, official, nextSeq, queue, task, dirty, failure, reply>>
      /\ (Up' <=> Up)
  BY <1>1 DEF synced, clientVars, Up
<1>3. /\ DurableTypes /\ journal \in Seq(Lines) /\ pgn \in Seq(Games \cup {Torn})
      /\ syncedPgn \in 0..Len(pgn) /\ Len(pgn) \in Nat /\ Len(journal) \in Nat
      /\ LinesInOrder /\ CheckpointSynced /\ AtTheEnd /\ Steps
      /\ checkpoint.pgn \in Nat /\ checkpoint.pgn <= Len(pgn) /\ Covered <= Len(journal)
      /\ Covered \in Nat
  BY CoveredType DEF DurableInv, DurableTypes, DirectoryInv, WriterInv
<1>4. /\ task \in Command /\ task.type = "Game" /\ task.game \in Games /\ Up /\ ~failure
      /\ wpc # "idle"
  <2>1. task.type = "Game" /\ task \in Command \cup {Idle, Tick} /\ Up
    BY <1>1, <1>3 DEF Steps, DurableTypes
  <2>2. task \in Command /\ task # Idle /\ task # Tick
    BY <2>1, CommandType DEF Idle, Tick
  <2> QED
    BY <1>1, <1>3, <2>1, <2>2, CommandType DEF Steps
<1>5. /\ pgn' \in Seq(Games \cup {Torn}) /\ Len(pgn') = Len(pgn) + 1
      /\ \A i \in 1..Len(pgn) : pgn'[i] = pgn[i]
      /\ pgn'[Len(pgn)'] = task.game
  BY <1>1, <1>3, <1>4
<1>6. DurableTypes'
  BY <1>1, <1>2, <1>3, <1>5 DEF DurableTypes
<1>7. DirectoryInv'
  <2>1. LinesInOrder' /\ CheckpointSynced'
    <3>1. PICK n : n = Len(journal)
      OBVIOUS
    <3>2. PICK m : m = Len(pgn)
      OBVIOUS
    <3>3. n \in Covered..Len(journal) /\ m \in checkpoint.pgn..Len(pgn) /\ Len(pgn') >= m
      BY <1>3, <1>5, <3>1, <3>2
    <3>4. /\ journal' \in Seq(Lines) /\ \A i \in 1..n : journal'[i] = journal[i]
          /\ Len(journal') = n /\ \A i \in 1..m : pgn'[i] = pgn[i]
      BY <1>2, <1>3, <1>5, <3>1, <3>2
    <3>5. /\ checkpoint' = checkpoint /\ session' \in Nat /\ session <= session'
          /\ Covered <= syncedJournal' /\ checkpoint.pgn <= syncedPgn'
      BY <1>2, <1>3 DEF DurableTypes, CheckpointSynced
    <3> QED
      BY <1>3, <1>5, <3>3, <3>4, <3>5, CutDirectory
  <2>2. NothingYet'
    BY <1>2, <1>4 DEF DurableInv, DirectoryInv, NothingYet
  <2> QED
    BY <2>1, <2>2 DEF DirectoryInv
<1>8. WriterInv'
  <2>1. Steps'
    BY <1>1, <1>2, <1>3, <1>4 DEF Steps
  <2>2. DownIsEmpty'
    BY <1>2, <1>4 DEF DownIsEmpty
  <2>3. \A i \in 1..Len(journal) : Whole(i) /\ MovesPresent(journal[i])
    BY <1>3, <1>4 DEF AtTheEnd
  <2>4. \A i \in 1..Len(journal) : Whole(i)' /\ MovesPresent(journal[i])' /\ journal[i].at <= Len(pgn)
    <3> SUFFICES ASSUME NEW i \in 1..Len(journal)
                 PROVE  Whole(i)' /\ MovesPresent(journal[i])' /\ journal[i].at <= Len(pgn)
      OBVIOUS
    <3>1. journal[i].at \in 1..Len(pgn) /\ pgn[journal[i].at] = journal[i].game
      BY <2>3 DEF MovesPresent
    <3>2. journal[i].at \in 1..Len(pgn') /\ pgn'[journal[i].at] = journal[i].game
      BY <1>3, <1>5, <3>1
    <3> QED
      BY <1>2, <2>3, <3>1, <3>2 DEF Whole, Valid, MovesPresent
  <2>5. AtTheEnd'
    <3>1. nextSeq' = Len(journal') + 1 /\ pgnOffset' = Len(pgn')
      BY <1>1, <1>2, <1>3, <1>4, <1>5 DEF AtTheEnd
    <3>2. pgn' # << >> /\ checkpoint'.pgn < Len(pgn')
      BY <1>2, <1>3, <1>5
    <3>3. \A i \in 1..Len(journal) : journal'[i].at < Len(pgn')
      <4> SUFFICES ASSUME NEW i \in 1..Len(journal) PROVE journal[i].at < Len(pgn')
        BY <1>2
      <4>1. journal[i].at \in Nat /\ journal[i].at <= Len(pgn)
        BY <1>3, <2>4, CoveredType
      <4> QED
        BY <1>3, <1>5, <4>1
    <3>4. DOMAIN journal' = 1..Len(journal)
      BY <1>2, <1>3
    <3> QED
      BY <1>2, <1>5, <2>4, <3>1, <3>2, <3>3, <3>4 DEF AtTheEnd
  <2>6. CleanIsSynced'
    BY <1>1 DEF CleanIsSynced
  <2> QED
    BY <2>1, <2>2, <2>5, <2>6 DEF WriterInv
<1>9. Stream' /\ OfficialInHand'
  <2>1. Writing /\ Writing'
    BY <1>1 DEF Writing
  <2> QED
    BY <1>2, <2>1, WriterKeepsStream
<1>10. EndInOrder'
  BY <1>2 DEF DurableInv, ClientInv, EndInOrder, Holds, Wrapping, Flushed, GamesOf
<1> QED
  BY <1>6, <1>7, <1>8, <1>9, <1>10 DEF DurableInv, ClientInv

\* What a sync leaves alone; the client hears of it by its barrier.
LEMMA SyncKeepsDirectory ==
    ASSUME DurableInv, Up' <=> Up, UNCHANGED <<journal, pgn, checkpoint, session>>,
           syncedJournal <= syncedJournal', syncedPgn <= syncedPgn',
           syncedJournal' \in Nat, syncedPgn' \in Nat
    PROVE  DirectoryInv'
<1>1. /\ DurableTypes /\ LinesInOrder /\ CheckpointSynced /\ NothingYet
      /\ syncedJournal \in Nat /\ syncedPgn \in Nat /\ Covered \in Nat /\ checkpoint.pgn \in Nat
  BY CoveredType DEF DurableInv, DurableTypes, DirectoryInv
<1>2. LinesInOrder'
  BY <1>1 DEF LinesInOrder, Whole, Valid, JournalGames
<1>3. Covered <= syncedJournal' /\ checkpoint.pgn <= syncedPgn'
  BY <1>1 DEF CheckpointSynced
<1>4. CheckpointSynced'
  BY <1>1, <1>3 DEF CheckpointSynced, Whole, Valid, MovesPresent, Covered
<1>5. NothingYet'
  BY <1>1 DEF NothingYet
<1> QED
  BY <1>2, <1>4, <1>5 DEF DirectoryInv

LEMMA AfterSyncKeepsEnd ==
    ASSUME DurableInv, AfterSync, task \in Command \cup {Tick}, task # Idle,
           UNCHANGED <<client, half, official, queue, failure>>
    PROVE  EndInOrder'
<1>1. /\ EndInOrder /\ reply \in {"none", "ok", "failed"} /\ (failure => task = Tick)
  BY DEF DurableInv, DurableTypes, ClientInv, WriterInv, Steps
<1>2. /\ dirty' = FALSE
      /\ \/ task.type = "Checkpoint" /\ task' = task
         \/ task.type # "Checkpoint" /\ task' = Idle
      /\ reply' = IF task.type = "Barrier" THEN "ok" ELSE reply
  BY DEF AfterSync, Finished
<1>3. ~Holds("Log") /\ reply # "ok"
  BY <1>1 DEF EndInOrder, Holds
<1>4. \A type : Holds(type)' <=> Holds(type)
  BY DEF Holds
<1>5. task'.type \notin {"Game", "Result", "Barrier", "Log"}
  BY <1>2 DEF Idle
<1>6. task.type = "Barrier" => queue = << >> /\ ~failure /\ client = "settling" /\ reply = "none"
                                /\ ~Holds("Barrier")
  BY <1>1 DEF EndInOrder, Tick, Holds
<1>7. (Wrapping /\ ~failure)' =>
          \/ Flushed'
          \/ (task.type = "Checkpoint" /\ ~Holds("Game"))'
          \/ \E i \in DOMAIN queue' : /\ queue'[i].type = "Checkpoint"
                                      /\ \A k \in DOMAIN queue' : k > i => queue'[k].type # "Game"
  <2> SUFFICES ASSUME Wrapping, ~failure
               PROVE  \/ Flushed'
                      \/ (task.type = "Checkpoint" /\ ~Holds("Game"))'
                      \/ \E i \in DOMAIN queue : /\ queue[i].type = "Checkpoint"
                                                 /\ \A k \in DOMAIN queue : k > i => queue[k].type # "Game"
    BY DEF Wrapping
  <2>1. CASE Flushed
    BY <1>2, <1>4, <1>5, <2>1 DEF Flushed
  <2>2. CASE task.type = "Checkpoint" /\ ~Holds("Game")
    BY <1>2, <1>4, <2>2
  <2> QED
    BY <1>1, <2>1, <2>2 DEF EndInOrder
<1>8. \A i \in DOMAIN queue' : queue'[i].type # "Log"
  BY <1>3 DEF Holds
<1>9. GamesOf(official)' = GamesOf(official)
  BY DEF GamesOf
<1>10. CASE task.type = "Barrier"
  <2>1. DOMAIN queue' = {} /\ \A type : ~Holds(type)'
    <3>1. queue' = << >>
      BY <1>6, <1>10
    <3>2. DOMAIN queue' = {}
      BY <3>1
    <3> QED
      BY <3>2 DEF Holds
  <2> QED
    BY <1>1, <1>2, <1>5, <1>6, <1>7, <1>10, <2>1 DEF EndInOrder
<1>11. CASE task.type # "Barrier"
  BY <1>1, <1>2, <1>3, <1>4, <1>5, <1>7, <1>8, <1>9, <1>11 DEF EndInOrder
<1> QED
  BY <1>10, <1>11

LEMMA SyncJournalKeepsInv ==
    ASSUME DurableInv, SyncJournal
    PROVE  DurableInv'
<1>1. /\ wpc = "sync" /\ dirty /\ syncedJournal' = Len(journal) /\ wpc' = "syncPgn"
      /\ UNCHANGED <<appended, syncedPgn, checkpoint, result, session, clientVars, queue, task,
                     position, dirty, unsyncedGames, failure, reply>>
  BY DEF SyncJournal
<1>2. /\ UNCHANGED <<journal, pgn, syncedPgn, checkpoint, session, task, position>>
      /\ UNCHANGED <<client, half, official, nextSeq, pgnOffset, queue, dirty, failure, reply>>
      /\ (Up' <=> Up)
  BY <1>1 DEF appended, clientVars, position, Up
<1>3. /\ DurableTypes /\ Steps /\ syncedJournal \in 0..Len(journal) /\ Len(journal) \in Nat
      /\ syncedPgn \in 0..Len(pgn) /\ Len(pgn) \in Nat
  BY DEF DurableInv, DurableTypes, WriterInv
<1>4. DurableTypes'
  BY <1>1, <1>2, <1>3 DEF DurableTypes
<1>5. DirectoryInv'
  BY <1>1, <1>2, <1>3, SyncKeepsDirectory
<1>6. WriterInv'
  <2>1. Steps'
    BY <1>1, <1>2, <1>3 DEF Steps
  <2>2. DownIsEmpty'
    BY <1>2 DEF DurableInv, WriterInv, DownIsEmpty
  <2>3. AtTheEnd'
    BY <1>1, <1>2 DEF DurableInv, WriterInv, AtTheEnd, Whole, Valid, MovesPresent
  <2>4. CleanIsSynced'
    BY <1>1, <1>2 DEF CleanIsSynced
  <2> QED
    BY <2>1, <2>2, <2>3, <2>4 DEF WriterInv
<1>7. Stream' /\ OfficialInHand'
  <2>1. ~Writing /\ ~Writing'
    BY <1>1 DEF Writing
  <2> QED
    BY <1>2, <2>1, WriterKeepsStream
<1>8. EndInOrder'
  BY <1>2 DEF DurableInv, ClientInv, EndInOrder, Holds, Wrapping, Flushed, GamesOf
<1> QED
  BY <1>4, <1>5, <1>6, <1>7, <1>8 DEF DurableInv, ClientInv

LEMMA SyncEndsKeepsInv ==
    ASSUME DurableInv, SyncPgn \/ NothingToSync
    PROVE  DurableInv'
<1>1. /\ AfterSync
      /\ UNCHANGED <<journal, pgn, syncedJournal, checkpoint, session>>
      /\ UNCHANGED <<client, half, official, nextSeq, pgnOffset, queue, failure>>
      /\ (Up' <=> Up)
      /\ \/ wpc = "syncPgn" /\ syncedPgn' = Len(pgn)
         \/ wpc = "sync" /\ ~dirty /\ syncedPgn' = syncedPgn
  BY DEF SyncPgn, NothingToSync, appended, files, clientVars, position, Up
<1>2. /\ DurableTypes /\ Steps /\ syncedJournal \in 0..Len(journal) /\ Len(journal) \in Nat
      /\ syncedPgn \in 0..Len(pgn) /\ Len(pgn) \in Nat /\ CleanIsSynced
      /\ task \in Command \cup {Idle, Tick} /\ task # Idle /\ Up
      /\ reply \in {"none", "ok", "failed"}
  <2>1. DurableTypes /\ Steps /\ CleanIsSynced
    BY DEF DurableInv, WriterInv
  <2>2. task # Idle /\ Up
    BY <1>1, <2>1 DEF Steps
  <2> QED
    BY <2>1, <2>2 DEF DurableTypes
<1>3. /\ dirty' = FALSE
      /\ \/ task.type = "Checkpoint" /\ task' = task /\ wpc' = "checkpoint"
         \/ task.type # "Checkpoint" /\ task' = Idle /\ wpc' = "idle"
      /\ reply' = IF task.type = "Barrier" THEN "ok" ELSE reply
  BY <1>1 DEF AfterSync, Finished
<1>4. syncedPgn' \in 0..Len(pgn) /\ syncedPgn <= syncedPgn'
  BY <1>1, <1>2
<1>5. DurableTypes'
  BY <1>1, <1>2, <1>3, <1>4 DEF DurableTypes
<1>6. DirectoryInv'
  BY <1>1, <1>2, <1>4, SyncKeepsDirectory
<1>7. WriterInv'
  <2>1. Steps'
    BY <1>1, <1>2, <1>3 DEF Steps, Idle, Tick
  <2>2. DownIsEmpty'
    BY <1>1, <1>2 DEF DownIsEmpty
  <2>3. AtTheEnd'
    BY <1>1, <1>3 DEF DurableInv, WriterInv, AtTheEnd, Whole, Valid, MovesPresent
  <2>4. CleanIsSynced'
    <3>1. CASE wpc = "syncPgn" /\ syncedPgn' = Len(pgn)
      BY <1>1, <1>2, <3>1 DEF CleanIsSynced, Steps
    <3>2. CASE wpc = "sync" /\ ~dirty /\ syncedPgn' = syncedPgn
      BY <1>1, <1>2, <3>2 DEF CleanIsSynced, Holds
    <3> QED
      BY <1>1, <3>1, <3>2
  <2> QED
    BY <2>1, <2>2, <2>3, <2>4 DEF WriterInv
<1>8. Stream' /\ OfficialInHand'
  <2>1. ~Writing /\ ~Writing'
    BY <1>1, <1>3 DEF Writing
  <2> QED
    BY <1>1, <2>1, WriterKeepsStream
<1>9. EndInOrder'
  BY <1>1, <1>2, AfterSyncKeepsEnd
<1> QED
  BY <1>5, <1>6, <1>7, <1>8, <1>9 DEF DurableInv, ClientInv

\* The anchor covers the whole journal, and all of it is on the disk.
LEMMA AnchorIsSynced ==
    ASSUME DurableInv, wpc = "checkpoint"
    PROVE  /\ Anchor = [lines |-> journal, pgn |-> Len(pgn)]
           /\ syncedJournal = Len(journal) /\ syncedPgn = Len(pgn)
           /\ Anchor \in [lines : Seq(Lines), pgn : Nat]
           /\ Up /\ ~failure /\ task.type = "Checkpoint" /\ ~dirty /\ task # Idle
           /\ \A i \in 1..Len(journal) : Whole(i) /\ MovesPresent(journal[i])
<1>1. /\ journal \in Seq(Lines) /\ Len(journal) \in Nat /\ Len(pgn) \in Nat
      /\ Steps /\ AtTheEnd /\ CleanIsSynced /\ EndInOrder
  BY DEF DurableInv, DurableTypes, WriterInv, ClientInv
<1>2. task.type = "Checkpoint" /\ ~dirty /\ Up /\ task # Idle
  BY <1>1 DEF Steps
<1>3. ~failure
  BY <1>1, <1>2 DEF Steps, Idle, Tick
<1>4. nextSeq = Len(journal) + 1 /\ pgnOffset = Len(pgn)
      /\ \A i \in DOMAIN journal : Whole(i) /\ MovesPresent(journal[i])
  BY <1>1, <1>2, <1>3 DEF AtTheEnd
<1>5. SubSeq(journal, 1, nextSeq - 1) = journal
  <2>1. nextSeq - 1 = Len(journal)
    BY <1>1, <1>4
  <2> QED
    BY <1>1, <2>1
<1>6. ~Holds("Log")
  BY <1>1, <1>2 DEF EndInOrder, Holds
<1>7. syncedJournal = Len(journal) /\ syncedPgn = Len(pgn)
  BY <1>1, <1>2, <1>3, <1>6 DEF CleanIsSynced
<1> QED
  BY <1>1, <1>2, <1>3, <1>4, <1>5, <1>7 DEF Anchor

LEMMA AnchorKeepsDirectory ==
    ASSUME DurableInv, wpc = "checkpoint", checkpoint' = Anchor, Up' <=> Up,
           UNCHANGED <<journal, pgn, syncedJournal, syncedPgn, session>>
    PROVE  DirectoryInv'
<1>1. /\ Anchor = [lines |-> journal, pgn |-> Len(pgn)]
      /\ syncedJournal = Len(journal) /\ syncedPgn = Len(pgn)
      /\ \A i \in 1..Len(journal) : Whole(i) /\ MovesPresent(journal[i])
  BY AnchorIsSynced
<1>2. /\ journal \in Seq(Lines) /\ Len(journal) \in Nat /\ Len(pgn) \in Nat
      /\ LinesInOrder /\ NothingYet
  BY DEF DurableInv, DurableTypes, DirectoryInv
<1>3. checkpoint'.lines = journal /\ checkpoint'.pgn = Len(pgn) /\ Covered' = Len(journal)
  BY <1>1 DEF Covered
<1>4. \A i \in 1..Len(journal) : (Whole(i) /\ MovesPresent(journal[i]))' /\ journal[i].at <= Len(pgn)
  BY <1>1, <1>2 DEF Whole, Valid, MovesPresent
<1>5. CheckpointSynced'
  <2>1. journal = SubSeq(journal, 1, Len(journal))
    BY <1>2
  <2>2. \A i \in (Len(journal) + 1)..Len(journal) : FALSE
    BY <1>2
  <2> QED
    BY <1>1, <1>2, <1>3, <1>4, <2>1, <2>2 DEF CheckpointSynced
<1>6. LinesInOrder'
  BY <1>2 DEF LinesInOrder, Whole, Valid, JournalGames
<1>7. NothingYet'
  BY <1>2 DEF NothingYet
<1> QED
  BY <1>5, <1>6, <1>7 DEF DirectoryInv

\* The writer is done with a checkpoint or a report.
LEMMA FinishedKeepsEnd ==
    ASSUME DurableInv, task.type \in {"Checkpoint", "Result"}, Finished,
           task.type = "Checkpoint" => ~dirty,
           UNCHANGED <<client, half, official, queue, dirty, failure, reply>>
    PROVE  EndInOrder'
<1>1. EndInOrder /\ ~failure /\ task # Idle
  BY DEF DurableInv, ClientInv, WriterInv, Steps, Idle, Tick
<1>2. task' = Idle
  BY DEF Finished
<1>3. ~Holds("Log") /\ reply # "ok"
  BY <1>1 DEF EndInOrder, Holds
<1>4. \A type : Holds(type)' <=> Holds(type)
  BY DEF Holds
<1>5. task'.type = "Idle"
  BY <1>2 DEF Idle
<1>6. GamesOf(official)' = GamesOf(official)
  BY DEF GamesOf
<1>7. Wrapping => Flushed' \/ \E i \in DOMAIN queue :
                                 /\ queue[i].type = "Checkpoint"
                                 /\ \A k \in DOMAIN queue : k > i => queue[k].type # "Game"
  <2> SUFFICES ASSUME Wrapping
               PROVE  Flushed' \/ \E i \in DOMAIN queue :
                                     /\ queue[i].type = "Checkpoint"
                                     /\ \A k \in DOMAIN queue : k > i => queue[k].type # "Game"
    OBVIOUS
  <2>1. CASE Flushed
    BY <1>4, <1>5, <2>1 DEF Flushed
  <2>2. CASE task.type = "Checkpoint" /\ ~Holds("Game")
    BY <1>3, <1>4, <1>5, <2>2 DEF Flushed
  <2> QED
    BY <1>1, <2>1, <2>2 DEF EndInOrder
<1>8. \A i \in DOMAIN queue' : queue'[i].type # "Log"
  BY <1>3 DEF Holds
<1> QED
  BY <1>1, <1>3, <1>4, <1>5, <1>6, <1>7, <1>8 DEF EndInOrder, Wrapping

LEMMA WriteCheckpointKeepsInv ==
    ASSUME DurableInv, WriteCheckpoint
    PROVE  DurableInv'
<1>1. /\ wpc = "checkpoint" /\ checkpoint' = Anchor /\ Finished /\ task' = Idle /\ wpc' = "idle"
      /\ UNCHANGED <<journal, pgn, syncedJournal, syncedPgn, session>>
      /\ UNCHANGED <<client, half, official, nextSeq, pgnOffset, queue, dirty, failure, reply>>
      /\ (Up' <=> Up)
  BY DEF WriteCheckpoint, Finished, appended, synced, clientVars, position, Up
<1>2. /\ Anchor \in [lines : Seq(Lines), pgn : Nat]
      /\ Up /\ ~failure /\ task.type = "Checkpoint" /\ ~dirty
      /\ syncedJournal = Len(journal) /\ syncedPgn = Len(pgn)
  BY <1>1, AnchorIsSynced
<1>3. DurableTypes'
  BY <1>1, <1>2 DEF DurableInv, DurableTypes
<1>4. DirectoryInv'
  BY <1>1, AnchorKeepsDirectory
<1>5. WriterInv'
  <2>1. Steps'
    BY <1>1, <1>2 DEF Steps, Idle
  <2>2. DownIsEmpty'
    BY <1>1, <1>2 DEF DownIsEmpty
  <2>3. AtTheEnd'
    BY <1>1 DEF DurableInv, WriterInv, AtTheEnd, Whole, Valid, MovesPresent
  <2>4. CleanIsSynced'
    BY <1>1, <1>2 DEF CleanIsSynced
  <2> QED
    BY <2>1, <2>2, <2>3, <2>4 DEF WriterInv
<1>6. Stream' /\ OfficialInHand'
  <2>1. ~Writing /\ ~Writing'
    BY <1>1 DEF Writing
  <2> QED
    BY <1>1, <2>1, WriterKeepsStream
<1>7. EndInOrder'
  BY <1>1, <1>2, FinishedKeepsEnd
<1> QED
  BY <1>3, <1>4, <1>5, <1>6, <1>7 DEF DurableInv, ClientInv

LEMMA WriteResultKeepsInv ==
    ASSUME DurableInv, WriteResult
    PROVE  DurableInv'
<1>1. /\ wpc = "result" /\ Finished /\ task' = Idle /\ wpc' = "idle"
      /\ UNCHANGED <<journal, pgn, syncedJournal, syncedPgn, checkpoint, session>>
      /\ UNCHANGED <<client, half, official, nextSeq, pgnOffset, queue, dirty, failure, reply>>
      /\ (Up' <=> Up)
  BY DEF WriteResult, Finished, appended, synced, clientVars, position, Up
<1>2. Up /\ task.type = "Result"
  BY <1>1 DEF DurableInv, WriterInv, Steps
<1>3. DurableTypes'
  BY <1>1 DEF DurableInv, DurableTypes
<1>4. DirectoryInv'
  BY <1>1, SameDirectory DEF DurableInv, synced
<1>5. WriterInv'
  <2>1. Steps'
    BY <1>1, <1>2 DEF DurableInv, WriterInv, Steps, Idle
  <2>2. DownIsEmpty'
    BY <1>1, <1>2 DEF DownIsEmpty
  <2>3. AtTheEnd'
    BY <1>1 DEF DurableInv, WriterInv, AtTheEnd, Whole, Valid, MovesPresent
  <2>4. CleanIsSynced'
    BY <1>1, <1>2 DEF DurableInv, WriterInv, CleanIsSynced, Holds
  <2> QED
    BY <2>1, <2>2, <2>3, <2>4 DEF WriterInv
<1>6. Stream' /\ OfficialInHand'
  <2>1. ~Writing /\ ~Writing'
    BY <1>1 DEF Writing
  <2> QED
    BY <1>1, <2>1, WriterKeepsStream
<1>7. EndInOrder'
  BY <1>1, <1>2, FinishedKeepsEnd
<1> QED
  BY <1>3, <1>4, <1>5, <1>6, <1>7 DEF DurableInv, ClientInv

\* A write that fails, and a kill in the middle of one.
LEMMA TornKeepsDirectory ==
    ASSUME DurableInv, TornWrite, Up,
           UNCHANGED <<checkpoint, session>>,
           syncedJournal <= syncedJournal', syncedPgn <= syncedPgn',
           syncedJournal' \in 0..Len(journal), syncedPgn' \in 0..Len(pgn)
    PROVE  /\ journal' \in Seq(Lines) /\ pgn' \in Seq(Games \cup {Torn})
           /\ syncedJournal' \in 0..Len(journal') /\ syncedPgn' \in 0..Len(pgn')
           /\ DirectoryInv'
           /\ \A i \in DOMAIN journal' : Whole(i)' => MovesPresent(journal[i])'
<1>1. /\ DurableTypes /\ journal \in Seq(Lines) /\ pgn \in Seq(Games \cup {Torn})
      /\ Len(pgn) \in Nat /\ Len(journal) \in Nat
      /\ LinesInOrder /\ CheckpointSynced /\ AtTheEnd /\ Steps
      /\ checkpoint.pgn \in Nat /\ checkpoint.pgn <= Len(pgn) /\ Covered <= Len(journal)
      /\ Covered \in Nat /\ session \in Nat
      /\ syncedJournal \in Nat /\ syncedPgn \in Nat
      /\ Covered <= syncedJournal /\ checkpoint.pgn <= syncedPgn
  BY CoveredType DEF DurableInv, DurableTypes, DirectoryInv, WriterInv, CheckpointSynced
<1>a. PICK n : n = Len(journal)
  OBVIOUS
<1>b. PICK m : m = Len(pgn)
  OBVIOUS
<1>2. /\ pgn' \in Seq(Games \cup {Torn}) /\ Len(pgn') >= m /\ \A i \in 1..m : pgn'[i] = pgn[i]
      /\ Len(pgn') \in Nat
  <2>1. pgn' = pgn \/ pgn' = Append(pgn, Torn)
    BY DEF TornWrite
  <2>2. CASE pgn' = pgn
    BY <1>1, <1>b, <2>2
  <2>3. CASE pgn' = Append(pgn, Torn)
    BY <1>1, <1>b, <2>3
  <2> QED
    BY <2>1, <2>2, <2>3
<1>3. /\ journal' \in Seq(Lines) /\ \A i \in 1..n : journal'[i] = journal[i]
      /\ Len(journal') \in Nat
      /\ \/ Len(journal') = n
         \/ Len(journal') = n + 1 /\ journal'[n + 1] = TornLine /\ \A i \in 1..n : Whole(i)
  <2>1. CASE journal' = journal
    BY <1>1, <1>a, <2>1
  <2>2. CASE wpc = "line" /\ journal' = Append(journal, TornLine)
    <3>1. \A i \in 1..n : Whole(i)
      <4>1. task.type = "Game" /\ task # Idle /\ task # Tick
        BY <1>1, <2>2 DEF Steps, Idle, Tick
      <4>2. ~failure
        BY <1>1, <4>1 DEF Steps
      <4>3. \A i \in DOMAIN journal : Whole(i)
        BY <1>1, <4>2 DEF AtTheEnd
      <4> QED
        BY <1>1, <1>a, <4>3
    <3>2. TornLine \in Lines
      BY DEF TornLine, Lines
    <3>3. /\ journal' \in Seq(Lines) /\ Len(journal') = n + 1 /\ journal'[n + 1] = TornLine
          /\ \A i \in 1..n : journal'[i] = journal[i]
      <4> HIDE DEF TornLine
      <4> QED
        BY <1>1, <1>a, <2>2, <3>2
    <3> QED
      BY <1>1, <1>a, <3>1, <3>3
  <2> QED
    BY <2>1, <2>2 DEF TornWrite
<1>4. syncedJournal' \in 0..Len(journal') /\ syncedPgn' \in 0..Len(pgn')
  BY <1>1, <1>2, <1>3, <1>a, <1>b
<1>5. LinesInOrder' /\ CheckpointSynced'
  <2>1. n \in Covered..Len(journal) /\ m \in checkpoint.pgn..Len(pgn)
    BY <1>1, <1>a, <1>b
  <2>2. /\ checkpoint' = checkpoint /\ session' \in Nat /\ session <= session'
        /\ Covered <= syncedJournal' /\ checkpoint.pgn <= syncedPgn'
    BY <1>1
  <2> QED
    BY <1>1, <1>2, <1>3, <2>1, <2>2, CutDirectory
<1>6. NothingYet'
  BY DEF DurableInv, DirectoryInv, NothingYet
<1>7. ASSUME NEW i \in DOMAIN journal', Whole(i)'
      PROVE  MovesPresent(journal[i])'
  <2>1. i \in 1..n /\ journal'[i] = journal[i]
    <3>1. i \in 1..Len(journal') /\ journal'[i] # TornLine /\ n \in Nat
      BY <1>1, <1>3, <1>7, <1>a DEF Whole, Valid
    <3> QED
      BY <1>3, <3>1
  <2>2. i \in DOMAIN journal /\ Whole(i)
    BY <1>1, <1>7, <1>a, <2>1 DEF Whole, Valid
  <2>3. journal[i].at \in 1..Len(pgn) /\ pgn[journal[i].at] = journal[i].game
    BY <1>1, <2>2 DEF AtTheEnd, MovesPresent
  <2>4. journal[i].at \in 1..Len(pgn') /\ pgn'[journal[i].at] = journal[i].game
    BY <1>1, <1>2, <1>b, <2>3
  <2> QED
    BY <2>1, <2>4 DEF MovesPresent
<1> QED
  BY <1>2, <1>3, <1>4, <1>5, <1>6, <1>7 DEF DirectoryInv

LEMMA AppendLineKeepsInv ==
    ASSUME DurableInv, AppendLine
    PROVE  DurableInv'
<1>a. PICK n : n = Len(journal)
  OBVIOUS
<1>b. PICK m : m = Len(pgn)
  OBVIOUS
<1>c. PICK g : g = task.game
  OBVIOUS
<1>d. PICK line : line = Line
  OBVIOUS
<1>1. /\ wpc = "line" /\ journal' = Append(journal, line) /\ nextSeq' = nextSeq + 1 /\ dirty' = TRUE
      /\ \/ task' = task /\ wpc' = "sync"
         \/ task' = Idle /\ wpc' = "idle"
      /\ UNCHANGED <<pgn, syncedJournal, syncedPgn, checkpoint, session>>
      /\ UNCHANGED <<client, half, official, pgnOffset, queue, failure, reply>>
      /\ (Up' <=> Up)
  BY <1>d DEF AppendLine, Finished, synced, clientVars, Up
<1>2. /\ DurableTypes /\ journal \in Seq(Lines) /\ pgn \in Seq(Games \cup {Torn})
      /\ m \in Nat /\ n \in Nat /\ session \in Nat
      /\ LinesInOrder /\ CheckpointSynced /\ AtTheEnd /\ Steps /\ EndInOrder
      /\ checkpoint.pgn \in Nat /\ Covered <= n /\ Covered \in Nat
      /\ syncedJournal \in 0..n /\ syncedPgn \in 0..m
  BY <1>a, <1>b, CoveredType
     DEF DurableInv, DurableTypes, DirectoryInv, WriterInv, ClientInv
<1>3. task.type = "Game" /\ task # Idle /\ g \in Games /\ Up /\ ~failure
  <2>1. task.type = "Game" /\ task \in Command \cup {Idle, Tick} /\ Up
    BY <1>1, <1>2 DEF Steps, DurableTypes
  <2>2. task \in Command /\ task # Idle /\ task # Tick
    BY <2>1, CommandType DEF Idle, Tick
  <2> QED
    BY <1>2, <1>c, <2>1, <2>2, CommandType DEF Steps
<1>4. /\ nextSeq = n + 1 /\ pgnOffset = m /\ m >= 1
      /\ pgn[m] = g /\ checkpoint.pgn < m
      /\ \A i \in 1..n : Whole(i) /\ MovesPresent(journal[i]) /\ journal[i].at < m
  BY <1>1, <1>2, <1>3, <1>a, <1>b, <1>c DEF AtTheEnd
<1>5. line = [seq |-> n + 1, game |-> g, at |-> m]
  BY <1>c, <1>d, <1>4 DEF Line
<1>6. /\ line \in Lines /\ line # TornLine
      /\ line.seq = n + 1 /\ line.game = g /\ line.at = m
  BY <1>2, <1>3, <1>5 DEF Lines, TornLine
<1>7. /\ journal' \in Seq(Lines) /\ Len(journal') = n + 1
      /\ DOMAIN journal = 1..n /\ DOMAIN journal' = 1..(n + 1)
      /\ \A i \in 1..n : journal'[i] = journal[i]
      /\ journal'[n + 1] = line
  BY <1>1, <1>2, <1>6, <1>a
<1>8. \A i \in 1..(n + 1) : i \in 1..n \/ i = n + 1
  BY <1>2
<1>9. /\ g.session = session /\ Number(g) = NextNumber(JournalGames, n, session)
      /\ Writing
  BY <1>1, <1>3, <1>a, <1>c, StreamFacts DEF Writing
<1>10. \A i \in 0..n : \A by : NextNumber(JournalGames', i, by) = NextNumber(JournalGames, i, by)
  <2> SUFFICES ASSUME NEW i \in 0..n, NEW by
               PROVE  NextNumber(JournalGames', i, by) = NextNumber(JournalGames, i, by)
    OBVIOUS
  <2> DEFINE old == JournalGames
             new == JournalGames'
  <2>1. \A k \in 1..i : new[k] = old[k]
    <3> SUFFICES ASSUME NEW k \in 1..i PROVE new[k] = old[k]
      OBVIOUS
    <3>1. k \in 1..n /\ k \in 1..(n + 1)
      BY <1>2
    <3> QED
      BY <1>7, <3>1 DEF JournalGames
  <2> HIDE DEF old, new
  <2>2. NextNumber(new, i, by) = NextNumber(old, i, by)
    BY <2>1, SameNextNumber
  <2> QED
    BY <2>2 DEF old, new
<1>11. DurableTypes'
  <2>1. syncedJournal \in 0..Len(journal')
    BY <1>2, <1>7
  <2> QED
    BY <1>1, <1>2, <1>7, <2>1 DEF DurableTypes
<1>12. \A i \in 1..n : (Whole(i) /\ MovesPresent(journal[i]))'
  BY <1>1, <1>4, <1>7 DEF Whole, Valid, MovesPresent
<1>13. (Whole(n + 1))' /\ MovesPresent(journal[n + 1])'
  BY <1>1, <1>2, <1>4, <1>6, <1>7, <1>b DEF Whole, Valid, MovesPresent
<1>14. LinesInOrder'
  <2>1. ASSUME NEW i \in 1..(n + 1)
        PROVE  /\ journal'[i].seq = i /\ journal'[i].at >= 1
               /\ journal'[i].game \in Games /\ journal'[i].game.session <= session'
               /\ Number(journal'[i].game) = NextNumber(JournalGames', i - 1, journal'[i].game.session)
    <3>1. CASE i \in 1..n
      <4>1. i - 1 \in 0..n /\ journal'[i] = journal[i]
        BY <1>2, <1>7, <3>1
      <4>2. /\ journal[i].seq = i /\ journal[i].at >= 1
            /\ journal[i].game \in Games /\ journal[i].game.session <= session
            /\ Number(journal[i].game) = NextNumber(JournalGames, i - 1, journal[i].game.session)
        BY <1>2, <1>4, <1>7, <3>1 DEF LinesInOrder
      <4> QED
        BY <1>1, <1>10, <4>1, <4>2
    <3>2. CASE i = n + 1
      <4>1. i - 1 = n /\ n \in 0..n
        BY <1>2, <3>2
      <4>2. Number(g) = NextNumber(JournalGames', n, session)
        BY <1>9, <1>10, <4>1
      <4>3. g.session <= session
        BY <1>2, <1>9
      <4> QED
        BY <1>1, <1>3, <1>4, <1>6, <1>7, <1>9, <3>2, <4>1, <4>2, <4>3
    <3> QED
      BY <1>8, <3>1, <3>2
  <2>2. ASSUME NEW i \in 1..(n + 1), NEW k \in 1..(n + 1), i < k
        PROVE  journal'[i].at < journal'[k].at
    <3>1. i \in 1..n
      BY <1>2, <2>2
    <3>2. CASE k \in 1..n
      <4>1. journal[i].at < journal[k].at
        BY <1>2, <1>4, <1>a, <2>2, <3>1, <3>2, MovesInOrder
      <4> QED
        BY <1>7, <3>1, <3>2, <4>1
    <3>3. CASE k = n + 1
      BY <1>4, <1>6, <1>7, <3>1, <3>3
    <3> QED
      BY <1>8, <3>2, <3>3
  <2>3. \A i \in 1..(n + 1) : Whole(i)'
    BY <1>8, <1>12, <1>13 DEF Whole
  <2> QED
    BY <1>7, <2>1, <2>2, <2>3 DEF LinesInOrder
<1>15. CheckpointSynced'
  <2>1. Covered' = Covered
    BY <1>1 DEF Covered
  <2>2. SubSeq(journal', 1, Covered) = SubSeq(journal, 1, Covered)
    BY <1>2, <1>7, <1>a
  <2>3. \A i \in 1..Covered : i \in 1..n
    BY <1>2
  <2>4. \A i \in (Covered + 1)..(n + 1) : Whole(i)' => checkpoint.pgn < journal'[i].at
    <3> SUFFICES ASSUME NEW i \in (Covered + 1)..(n + 1) PROVE checkpoint.pgn < journal'[i].at
      OBVIOUS
    <3>1. CASE i = n + 1
      BY <1>4, <1>6, <1>7, <3>1
    <3>2. CASE i # n + 1
      <4>1. i \in (Covered + 1)..n /\ i \in 1..n
        BY <1>2, <3>2
      <4> QED
        BY <1>2, <1>4, <1>7, <1>a, <4>1 DEF CheckpointSynced
    <3> QED
      BY <3>1, <3>2
  <2>5. /\ Covered <= syncedJournal' /\ checkpoint'.pgn <= syncedPgn'
        /\ checkpoint'.lines = SubSeq(journal', 1, Covered)
    BY <1>1, <1>2, <2>2 DEF CheckpointSynced
  <2>6. \A i \in 1..Covered : (Whole(i) /\ MovesPresent(journal[i]))' /\ journal'[i].at <= checkpoint'.pgn
    BY <1>1, <1>2, <1>7, <1>12, <2>3 DEF CheckpointSynced
  <2> QED
    BY <1>1, <1>7, <2>1, <2>4, <2>5, <2>6 DEF CheckpointSynced
<1>16. NothingYet'
  BY <1>1, <1>3 DEF DurableInv, DirectoryInv, NothingYet
<1>17. WriterInv'
  <2>1. Steps'
    BY <1>1, <1>2, <1>3 DEF Steps, Idle
  <2>2. DownIsEmpty'
    BY <1>1, <1>3 DEF DownIsEmpty
  <2>3. AtTheEnd'
    <3>1. \A i \in 1..(n + 1) : (Whole(i) /\ MovesPresent(journal[i]))'
      BY <1>8, <1>12, <1>13 DEF Whole, MovesPresent
    <3>2. nextSeq' = Len(journal') + 1 /\ pgnOffset' = Len(pgn') /\ wpc' # "line"
      BY <1>1, <1>4, <1>7, <1>b
    <3> QED
      BY <1>7, <3>1, <3>2 DEF AtTheEnd
  <2>4. CleanIsSynced'
    BY <1>1 DEF CleanIsSynced
  <2> QED
    BY <2>1, <2>2, <2>3, <2>4 DEF WriterInv
<1>18. ~Writing'
  BY <1>1 DEF Writing
<1>19. Stream'
  <2>1. NextNumber(JournalGames', n + 1, session) = Number(g) + 1
    <3> DEFINE new == JournalGames'
    <3>1. new[n + 1] = g
      BY <1>2, <1>6, <1>7 DEF JournalGames
    <3> HIDE DEF new
    <3>2. NextNumber(new, n + 1, session) = Number(g) + 1
      BY <1>2, <1>9, <3>1 DEF NextNumber
    <3> QED
      BY <3>2 DEF new
  <2>2. FirstQueued = Number(g) + 1
    BY <1>9, <1>a DEF FirstQueued
  <2>3. FirstQueued \in Int
    BY <1>3, StreamFacts
  <2>4. FirstQueued' = FirstQueued
    BY <1>1, <1>7, <1>18, <2>1, <2>2, <2>3 DEF FirstQueued
  <2>5. Sent' = Sent
    BY <1>1 DEF Sent
  <2> QED
    BY <1>1, <1>3, <1>18, <2>4, <2>5, StreamFacts DEF Stream, IsGame
<1>20. OfficialInHand'
  <2>1. \A game : InHand(game) => InHand(game)'
    <3> SUFFICES ASSUME NEW game, InHand(game) PROVE InHand(game)'
      OBVIOUS
    <3>1. CASE \E i \in DOMAIN journal : journal[i].game = game
      <4>1. PICK i \in 1..n : journal[i].game = game
        BY <1>7, <3>1
      <4>2. i \in DOMAIN journal' /\ journal'[i].game = game
        BY <1>2, <1>7, <4>1
      <4> QED
        BY <4>2 DEF InHand
    <3>2. CASE game = g
      <4>1. n + 1 \in DOMAIN journal' /\ journal'[n + 1].game = game
        BY <1>2, <1>6, <1>7, <3>2
      <4> QED
        BY <4>1 DEF InHand
    <3>3. CASE \E i \in DOMAIN queue : IsGame(i) /\ queue[i].game = game
      BY <1>1, <3>3 DEF InHand, IsGame
    <3> QED
      BY <1>c, <3>1, <3>2, <3>3 DEF InHand
  <2>2. NextPair' = NextPair
    BY <1>1 DEF NextPair
  <2> QED
    BY <1>1, <2>1, <2>2 DEF DurableInv, ClientInv, OfficialInHand
<1>21. EndInOrder'
  <2>1. ~Holds("Log") /\ reply # "ok"
    BY <1>2, <1>3 DEF EndInOrder, Holds
  <2>2. \A type : Holds(type)' <=> Holds(type)
    BY <1>1 DEF Holds
  <2>3. task'.type \in {"Game", "Idle"}
    BY <1>1, <1>3 DEF Idle
  <2>4. Wrapping => \E i \in DOMAIN queue :
                        /\ queue[i].type = "Checkpoint"
                        /\ \A k \in DOMAIN queue : k > i => queue[k].type # "Game"
    BY <1>2, <1>3 DEF EndInOrder, Flushed
  <2>5. GamesOf(official)' = GamesOf(official)
    BY <1>1 DEF GamesOf
  <2>6. \A i \in DOMAIN queue' : queue'[i].type # "Log"
    BY <1>1, <2>1 DEF Holds
  <2> QED
    BY <1>1, <1>2, <2>1, <2>2, <2>3, <2>4, <2>5, <2>6 DEF EndInOrder, Wrapping
<1> QED
  BY <1>11, <1>14, <1>15, <1>16, <1>17, <1>19, <1>20, <1>21
     DEF DurableInv, DirectoryInv, ClientInv

LEMMA WriteFailsKeepsInv ==
    ASSUME DurableInv, WriteFails
    PROVE  DurableInv'
<1>1. /\ wpc # "idle" /\ TornWrite /\ failure' = TRUE /\ task' = Idle /\ wpc' = "idle"
      /\ syncedJournal' \in {syncedJournal} \cup (IF wpc = "sync" THEN {Len(journal)} ELSE {})
      /\ syncedPgn' \in {syncedPgn} \cup (IF wpc = "syncPgn" THEN {Len(pgn)} ELSE {})
      /\ checkpoint' \in {checkpoint} \cup (IF wpc = "checkpoint" THEN {Anchor} ELSE {})
      /\ reply' = IF task.type = "Barrier" THEN "failed" ELSE reply
      /\ UNCHANGED <<result, session, clientVars, queue, position, dirty, unsyncedGames>>
  BY DEF WriteFails, KeepFailure, Finished
<1>2. /\ UNCHANGED <<session, client, half, official, nextSeq, pgnOffset, queue, dirty>>
      /\ (Up' <=> Up)
  BY <1>1 DEF clientVars, position, Up
<1>3. /\ DurableTypes /\ Steps /\ EndInOrder
      /\ journal \in Seq(Lines) /\ pgn \in Seq(Games \cup {Torn})
      /\ syncedJournal \in 0..Len(journal) /\ Len(journal) \in Nat
      /\ syncedPgn \in 0..Len(pgn) /\ Len(pgn) \in Nat
      /\ reply \in {"none", "ok", "failed"}
      /\ checkpoint \in [lines : Seq(Lines), pgn : Nat]
  BY DEF DurableInv, DurableTypes, WriterInv, ClientInv
<1>4. task # Idle /\ Up
  BY <1>1, <1>3 DEF Steps
<1>5. /\ syncedJournal' \in 0..Len(journal) /\ syncedJournal <= syncedJournal'
      /\ syncedPgn' \in 0..Len(pgn) /\ syncedPgn <= syncedPgn'
  BY <1>1, <1>3
<1>6. /\ journal' \in Seq(Lines) /\ pgn' \in Seq(Games \cup {Torn})
      /\ syncedJournal' \in 0..Len(journal') /\ syncedPgn' \in 0..Len(pgn')
      /\ checkpoint' \in [lines : Seq(Lines), pgn : Nat]
      /\ DirectoryInv'
      /\ \A i \in DOMAIN journal' : Whole(i)' => MovesPresent(journal[i])'
  <2>1. CASE checkpoint' = checkpoint
    BY <1>1, <1>2, <1>3, <1>4, <1>5, <2>1, TornKeepsDirectory
  <2>2. CASE checkpoint' # checkpoint
    <3>1. wpc = "checkpoint" /\ checkpoint' = Anchor
      BY <1>1, <2>2
    <3>2. UNCHANGED <<journal, pgn, syncedJournal, syncedPgn>>
      BY <1>1, <3>1 DEF TornWrite
    <3>3. /\ Anchor \in [lines : Seq(Lines), pgn : Nat]
          /\ \A i \in 1..Len(journal) : Whole(i) /\ MovesPresent(journal[i])
      BY <3>1, AnchorIsSynced
    <3>4. DirectoryInv'
      BY <1>2, <3>1, <3>2, AnchorKeepsDirectory
    <3>5. \A i \in DOMAIN journal' : Whole(i)' => MovesPresent(journal[i])'
      BY <1>3, <3>2, <3>3 DEF MovesPresent
    <3> QED
      BY <1>3, <3>1, <3>2, <3>3, <3>4, <3>5
  <2> QED
    BY <2>1, <2>2
<1>7. reply' \in {"none", "ok", "failed"}
  BY <1>1, <1>3
<1>8. DurableTypes'
  BY <1>1, <1>2, <1>3, <1>6, <1>7 DEF DurableTypes
<1>9. WriterInv'
  <2>1. Steps'
    BY <1>1, <1>2 DEF Steps, Idle
  <2>2. DownIsEmpty'
    BY <1>2, <1>4 DEF DownIsEmpty
  <2>3. AtTheEnd'
    BY <1>1, <1>6 DEF AtTheEnd
  <2>4. CleanIsSynced'
    BY <1>1 DEF CleanIsSynced
  <2> QED
    BY <2>1, <2>2, <2>3, <2>4 DEF WriterInv
<1>10. Stream' /\ OfficialInHand'
  BY <1>1 DEF Stream, OfficialInHand
<1>11. EndInOrder'
  <2>1. ~Holds("Log") /\ reply # "ok"
    BY <1>3, <1>4 DEF EndInOrder, Holds
  <2>2. \A type : Holds(type)' <=> Holds(type)
    BY <1>2 DEF Holds
  <2>3. task'.type = "Idle"
    BY <1>1 DEF Idle
  <2>4. GamesOf(official)' = GamesOf(official)
    BY <1>2 DEF GamesOf
  <2>5. \A i \in DOMAIN queue' : queue'[i].type # "Log"
    BY <1>2, <2>1 DEF Holds
  <2>6. task.type = "Barrier" => client = "settling" /\ reply = "none" /\ ~Holds("Barrier")
    BY <1>3 DEF EndInOrder, Holds
  <2>7. /\ Holds("Barrier") => client = "settling" /\ reply' = "none"
        /\ reply' # "ok"
        /\ reply' # "none" => client \in {"settling", "done", "failed"}
        /\ client # "done"
    <3>1. client = "done" => reply = "ok"
      BY <1>3 DEF EndInOrder
    <3>2. Holds("Barrier") => client = "settling" /\ reply = "none" /\ task.type # "Barrier"
      BY <1>3, <2>6 DEF EndInOrder
    <3>3. reply # "none" => client \in {"settling", "done", "failed"}
      BY <1>3 DEF EndInOrder
    <3> QED
      BY <1>1, <2>1, <2>6, <3>1, <3>2, <3>3
  <2> QED
    BY <1>1, <1>2, <1>3, <2>1, <2>2, <2>3, <2>4, <2>5, <2>7 DEF EndInOrder
<1> QED
  BY <1>6, <1>8, <1>9, <1>10, <1>11 DEF DurableInv, ClientInv

\* A process that is gone leaves its directory.
LEMMA DownKeepsInv ==
    ASSUME Down, session' \in 0..MaxSessions,
           journal' \in Seq(Lines), pgn' \in Seq(Games \cup {Torn}),
           syncedJournal' \in 0..Len(journal'), syncedPgn' \in 0..Len(pgn'),
           checkpoint' \in [lines : Seq(Lines), pgn : Nat],
           DirectoryInv'
    PROVE  DurableInv'
<1>1. /\ client' = "down" /\ half' = 0 /\ official' = << >> /\ queue' = << >>
      /\ task' = Idle /\ wpc' = "idle"
      /\ dirty' = FALSE /\ failure' = FALSE /\ reply' = "none" /\ ~Up'
  BY DEF Down, Up
<1>2. DurableTypes'
  <2>1. official' \in Seq([Halves -> Games]) /\ queue' \in Seq(Command)
    BY <1>1
  <2>2. client' \in ClientState /\ half' \in 0..1 /\ reply' \in {"none", "ok", "failed"}
    BY <1>1 DEF ClientState
  <2>3. dirty' \in BOOLEAN /\ failure' \in BOOLEAN
    BY <1>1
  <2>4. task' \in Command \cup {Idle, Tick}
    BY <1>1
  <2> QED
    BY <2>1, <2>2, <2>3, <2>4 DEF DurableTypes
<1>3. WriterInv'
  <2>1. Steps'
    BY <1>1 DEF Steps, Idle
  <2> QED
    BY <1>1, <2>1 DEF WriterInv, DownIsEmpty, AtTheEnd, CleanIsSynced
<1>4. ClientInv'
  <2>1. Stream' /\ OfficialInHand'
    BY <1>1 DEF Stream, OfficialInHand
  <2>2. DOMAIN queue' = {} /\ task'.type = "Idle"
    BY <1>1 DEF Idle
  <2>3. EndInOrder'
    BY <1>1, <2>2 DEF EndInOrder, Holds, Wrapping
  <2> QED
    BY <2>1, <2>3 DEF ClientInv
<1> QED
  BY <1>2, <1>3, <1>4 DEF DurableInv

LEMMA KillKeepsInv ==
    ASSUME DurableInv, Kill
    PROVE  DurableInv'
<1>1. /\ Up /\ TornWrite /\ Down
      /\ UNCHANGED <<syncedJournal, syncedPgn, checkpoint, session>>
  BY DEF Kill, synced
<1>2. /\ syncedJournal \in 0..Len(journal) /\ syncedPgn \in 0..Len(pgn)
      /\ checkpoint \in [lines : Seq(Lines), pgn : Nat] /\ session \in 0..MaxSessions
      /\ Len(journal) \in Nat /\ Len(pgn) \in Nat
  BY DEF DurableInv, DurableTypes
<1>3. /\ syncedJournal <= syncedJournal' /\ syncedPgn <= syncedPgn'
      /\ syncedJournal' \in 0..Len(journal) /\ syncedPgn' \in 0..Len(pgn)
  BY <1>1, <1>2
<1>4. /\ journal' \in Seq(Lines) /\ pgn' \in Seq(Games \cup {Torn})
      /\ syncedJournal' \in 0..Len(journal') /\ syncedPgn' \in 0..Len(pgn')
      /\ DirectoryInv'
  BY <1>1, <1>3, TornKeepsDirectory
<1> QED
  BY <1>1, <1>2, <1>4, DownKeepsInv

LEMMA ExitKeepsInv ==
    ASSUME DurableInv, Exit
    PROVE  DurableInv'
<1>1. /\ Down /\ UNCHANGED <<journal, pgn, checkpoint, session>> /\ Up /\ ~Up'
      /\ \/ UNCHANGED <<syncedJournal, syncedPgn>>
         \/ syncedJournal' = Len(journal) /\ syncedPgn' = Len(pgn)
  BY DEF Exit, Down, synced, appended, Up
<1>2. /\ journal \in Seq(Lines) /\ pgn \in Seq(Games \cup {Torn})
      /\ syncedJournal \in 0..Len(journal) /\ syncedPgn \in 0..Len(pgn)
      /\ checkpoint \in [lines : Seq(Lines), pgn : Nat] /\ session \in 0..MaxSessions
      /\ Len(journal) \in Nat /\ Len(pgn) \in Nat
  BY DEF DurableInv, DurableTypes
<1>3. /\ syncedJournal <= syncedJournal' /\ syncedPgn <= syncedPgn'
      /\ syncedJournal' \in 0..Len(journal) /\ syncedPgn' \in 0..Len(pgn)
  BY <1>1, <1>2
<1>4. DirectoryInv'
  <2>1. /\ DurableTypes /\ LinesInOrder /\ CheckpointSynced /\ NothingYet
        /\ Covered \in Nat /\ checkpoint.pgn \in Nat
    BY CoveredType DEF DurableInv, DurableTypes, DirectoryInv
  <2>2. LinesInOrder'
    BY <1>1, <2>1 DEF LinesInOrder, Whole, Valid, JournalGames
  <2>3. Covered <= syncedJournal' /\ checkpoint.pgn <= syncedPgn'
    BY <1>2, <1>3, <2>1 DEF CheckpointSynced
  <2>4. CheckpointSynced'
    BY <1>1, <2>1, <2>3 DEF CheckpointSynced, Whole, Valid, MovesPresent, Covered
  <2>5. NothingYet'
    BY <1>1, <2>1 DEF NothingYet
  <2> QED
    BY <2>2, <2>4, <2>5 DEF DirectoryInv
<1> QED
  BY <1>1, <1>2, <1>3, <1>4, DownKeepsInv

\* The first n entries of a file are left, and perhaps a torn one.
LeavesFirst(left, file, n, torn) ==
    /\ \A i \in 1..n : left[i] = file[i]
    /\ \/ Len(left) = n
       \/ Len(left) = n + 1 /\ left[n + 1] = torn /\ n < Len(file)

\* What a power loss leaves of a file is not less than what was synced.
LEMMA SurvivesIs ==
    ASSUME NEW S, NEW file \in Seq(S), NEW length \in 0..Len(file), NEW torn \in S,
           NEW left \in Survives(file, length, torn)
    PROVE  /\ left \in Seq(S)
           /\ \E n \in length..Len(file) : LeavesFirst(left, file, n, torn)
<1>1. CASE \E n \in length..Len(file) : left = SubSeq(file, 1, n)
  <2>1. PICK n \in length..Len(file) : left = SubSeq(file, 1, n)
    BY <1>1
  <2>2. left \in Seq(S) /\ Len(left) = n /\ \A i \in 1..n : left[i] = file[i]
    BY <2>1
  <2>3. LeavesFirst(left, file, n, torn)
    BY <2>2 DEF LeavesFirst
  <2> QED
    BY <2>2, <2>3
<1>2. CASE \E n \in length..(Len(file) - 1) : left = Append(SubSeq(file, 1, n), torn)
  <2>1. PICK n \in length..(Len(file) - 1) : left = Append(SubSeq(file, 1, n), torn)
    BY <1>2
  <2> DEFINE cut == SubSeq(file, 1, n)
  <2>2. cut \in Seq(S) /\ Len(cut) = n /\ \A i \in 1..n : cut[i] = file[i]
    BY <2>1
  <2> HIDE DEF cut
  <2>3. left \in Seq(S) /\ Len(left) = n + 1 /\ left[n + 1] = torn
        /\ \A i \in 1..n : left[i] = file[i]
    BY <2>1, <2>2 DEF cut
  <2>4. n \in length..Len(file) /\ n < Len(file)
    BY <2>1
  <2>5. LeavesFirst(left, file, n, torn)
    BY <2>3, <2>4 DEF LeavesFirst
  <2> QED
    BY <2>3, <2>4, <2>5
<1> QED
  BY <1>1, <1>2 DEF Survives

LEMMA PowerLossKeepsInv ==
    ASSUME DurableInv, PowerLoss
    PROVE  DurableInv'
<1>1. /\ session > 0 /\ Down /\ UNCHANGED <<checkpoint, session>>
      /\ journal' \in Survives(journal, syncedJournal, TornLine)
      /\ pgn' \in Survives(pgn, syncedPgn, Torn)
      /\ syncedJournal' = Len(journal') /\ syncedPgn' = Len(pgn')
  BY DEF PowerLoss
<1>2. /\ DurableTypes /\ journal \in Seq(Lines) /\ pgn \in Seq(Games \cup {Torn})
      /\ syncedJournal \in 0..Len(journal) /\ syncedPgn \in 0..Len(pgn)
      /\ checkpoint \in [lines : Seq(Lines), pgn : Nat] /\ session \in 0..MaxSessions
      /\ Len(journal) \in Nat /\ Len(pgn) \in Nat
      /\ LinesInOrder /\ CheckpointSynced
      /\ Covered \in Nat /\ checkpoint.pgn \in Nat
      /\ Covered <= syncedJournal /\ checkpoint.pgn <= syncedPgn
  BY CoveredType DEF DurableInv, DurableTypes, DirectoryInv, CheckpointSynced
<1>3. TornLine \in Lines /\ Torn \in Games \cup {Torn}
  BY DEF TornLine, Lines
<1>4. journal' \in Seq(Lines)
      /\ \E n \in syncedJournal..Len(journal) : LeavesFirst(journal', journal, n, TornLine)
  <2> HIDE DEF TornLine
  <2> QED
    BY <1>1, <1>2, <1>3, SurvivesIs
<1>5. pgn' \in Seq(Games \cup {Torn})
      /\ \E m \in syncedPgn..Len(pgn) : LeavesFirst(pgn', pgn, m, Torn)
  <2> HIDE DEF Torn
  <2> QED
    BY <1>1, <1>2, <1>3, SurvivesIs
<1>6. PICK n \in syncedJournal..Len(journal) :
         /\ \A i \in 1..n : journal'[i] = journal[i]
         /\ \/ Len(journal') = n
            \/ Len(journal') = n + 1 /\ journal'[n + 1] = TornLine /\ n < Len(journal)
  BY <1>4 DEF LeavesFirst
<1>7. PICK m \in syncedPgn..Len(pgn) :
         /\ \A i \in 1..m : pgn'[i] = pgn[i]
         /\ Len(pgn') = m \/ Len(pgn') = m + 1
  BY <1>5 DEF LeavesFirst
<1>8. n \in Covered..Len(journal) /\ m \in checkpoint.pgn..Len(pgn)
  BY <1>2
<1>9. \/ Len(journal') = n
      \/ Len(journal') = n + 1 /\ journal'[n + 1] = TornLine /\ \A i \in 1..n : Whole(i)
  <2>1. n < Len(journal) => \A i \in 1..n : Whole(i)
    <3>1. \A i \in DOMAIN journal : i < Len(journal) => Whole(i)
      BY <1>2 DEF LinesInOrder
    <3>2. DOMAIN journal = 1..Len(journal) /\ n \in Nat /\ Len(journal) \in Nat
      BY <1>2, <1>8
    <3>3. ASSUME n < Len(journal), NEW i \in 1..n
          PROVE  i \in DOMAIN journal /\ i < Len(journal)
      BY <3>2, <3>3
    <3> QED
      BY <3>1, <3>3
  <2> QED
    BY <1>6, <2>1
<1>10. /\ Len(pgn') >= m /\ Len(pgn') \in Nat /\ Len(journal') \in Nat /\ Len(journal') >= n
       /\ Covered <= syncedJournal' /\ checkpoint.pgn <= syncedPgn'
  BY <1>1, <1>2, <1>4, <1>5, <1>7, <1>8, <1>9, SMTT(30)
<1>11. LinesInOrder' /\ CheckpointSynced'
  <2>1. checkpoint' = checkpoint /\ session' \in Nat /\ session <= session'
    BY <1>1, <1>2
  <2> HIDE DEF TornLine
  <2> QED
    BY <1>2, <1>4, <1>5, <1>6, <1>7, <1>8, <1>9, <1>10, <2>1, CutDirectory
<1>12. NothingYet'
  BY <1>1 DEF NothingYet
<1> QED
  BY <1>1, <1>2, <1>4, <1>5, <1>10, <1>11, <1>12, DownKeepsInv DEF DirectoryInv

\* The journal ends with the last line kept.
LEMMA RepairFacts ==
    ASSUME DurableInv, RepairJournal
    PROVE  /\ journal' \in Seq(Lines) /\ Len(journal') = Kept /\ DOMAIN journal' = 1..Kept
           /\ \A i \in 1..Kept : journal'[i] = journal[i]
           /\ syncedJournal' \in 0..Kept /\ Covered <= syncedJournal'
<1>1. /\ DurableTypes /\ journal \in Seq(Lines) /\ Len(journal) \in Nat
      /\ syncedJournal \in 0..Len(journal) /\ LinesInOrder /\ CheckpointSynced
      /\ Covered <= syncedJournal /\ Covered \in Nat
  BY CoveredType DEF DurableInv, DurableTypes, DirectoryInv, CheckpointSynced
<1>2. Kept \in Covered..Len(journal) /\ Kept \in Nat
  BY <1>1, KeptIs
<1>3. /\ journal' = SubSeq(journal, 1, Kept)
      /\ syncedJournal' = IF Kept < Len(journal) THEN Kept ELSE syncedJournal
  BY DEF RepairJournal, Truncated
<1>4. syncedJournal' \in 0..Kept /\ Covered <= syncedJournal'
  BY <1>1, <1>2, <1>3
<1> QED
  BY <1>1, <1>2, <1>3, <1>4

LEMMA RepairInterruptedKeepsInv ==
    ASSUME DurableInv, RepairInterrupted
    PROVE  DurableInv'
<1>1. /\ ~Up /\ session > 0 /\ RepairJournal
      /\ UNCHANGED <<pgn, syncedPgn, checkpoint, session>>
      /\ UNCHANGED <<client, half, official, queue, task, wpc, dirty, failure, reply>>
      /\ ~Up'
  BY DEF RepairInterrupted, clientVars, writerVars, Up
<1>2. /\ DurableTypes /\ pgn \in Seq(Games \cup {Torn}) /\ Len(pgn) \in Nat
      /\ syncedPgn \in 0..Len(pgn) /\ session \in Nat /\ LinesInOrder /\ CheckpointSynced
      /\ checkpoint.pgn <= Len(pgn) /\ checkpoint.pgn \in Nat
      /\ checkpoint.pgn <= syncedPgn
  BY CoveredType DEF DurableInv, DurableTypes, DirectoryInv, CheckpointSynced
<1>a. PICK n : n = Kept
  OBVIOUS
<1>3. /\ journal' \in Seq(Lines) /\ Len(journal') = n
      /\ \A i \in 1..n : journal'[i] = journal[i]
      /\ syncedJournal' \in 0..n /\ Covered <= syncedJournal'
      /\ n \in Covered..Len(journal)
  BY <1>1, <1>2, <1>a, RepairFacts, KeptIs
<1>4. DurableTypes'
  BY <1>1, <1>2, <1>3 DEF DurableTypes
<1>5. DirectoryInv'
  <2>a. PICK m : m = Len(pgn)
    OBVIOUS
  <2>1. /\ m \in checkpoint.pgn..Len(pgn) /\ Len(pgn') >= m /\ \A i \in 1..m : pgn'[i] = pgn[i]
        /\ pgn' \in Seq(Games \cup {Torn})
        /\ checkpoint' = checkpoint /\ session' \in Nat /\ session <= session'
        /\ checkpoint.pgn <= syncedPgn'
    BY <1>1, <1>2, <2>a
  <2>2. LinesInOrder' /\ CheckpointSynced'
    BY <1>2, <1>3, <2>1, CutDirectory
  <2>3. NothingYet'
    BY <1>1 DEF NothingYet
  <2> QED
    BY <2>2, <2>3 DEF DirectoryInv
<1>6. WriterInv'
  <2>1. Steps'
    BY <1>1 DEF DurableInv, WriterInv, Steps
  <2>2. DownIsEmpty'
    BY <1>1 DEF DurableInv, WriterInv, DownIsEmpty
  <2>3. AtTheEnd' /\ CleanIsSynced'
    BY <1>1, <2>1 DEF Steps, AtTheEnd, CleanIsSynced
  <2> QED
    BY <2>1, <2>2, <2>3 DEF WriterInv
<1>7. Stream' /\ OfficialInHand'
  BY <1>1 DEF Stream, OfficialInHand
<1>8. EndInOrder'
  BY <1>1 DEF DurableInv, ClientInv, EndInOrder, Holds, Wrapping, Flushed, GamesOf
<1> QED
  BY <1>4, <1>5, <1>6, <1>7, <1>8 DEF DurableInv, ClientInv

LEMMA ResumeKeepsInv ==
    ASSUME DurableInv, Resume
    PROVE  DurableInv'
<1>a. PICK n : n = Kept
  OBVIOUS
<1>b. PICK m : m = PgnEnd
  OBVIOUS
<1>c. PICK games : games = Records
  OBVIOUS
<1>1. /\ ~Up /\ session < MaxSessions /\ RepairJournal /\ RepairPgn
      /\ session' = session + 1 /\ client' = "commit" /\ Up'
      /\ official' = PairsFromJournal(games) /\ nextSeq' = n + 1 /\ pgnOffset' = m
      /\ queue' = Announced
      /\ UNCHANGED <<checkpoint, half, task, wpc, dirty, failure, reply>>
  BY <1>a, <1>b, <1>c DEF Resume, Up
<1>2. /\ DurableTypes /\ pgn \in Seq(Games \cup {Torn}) /\ Len(pgn) \in Nat
      /\ Len(journal) \in Nat
      /\ syncedPgn \in 0..Len(pgn) /\ session \in Nat /\ session \in 0..MaxSessions
      /\ LinesInOrder /\ CheckpointSynced /\ NothingYet
      /\ checkpoint.pgn <= Len(pgn) /\ checkpoint.pgn \in Nat /\ Covered \in Nat
      /\ checkpoint.pgn <= syncedPgn
  BY CoveredType DEF DurableInv, DurableTypes, DirectoryInv, CheckpointSynced
<1>3. /\ journal' \in Seq(Lines) /\ Len(journal') = n /\ DOMAIN journal' = 1..n
      /\ \A i \in 1..n : journal'[i] = journal[i]
      /\ syncedJournal' \in 0..n /\ Covered <= syncedJournal'
  BY <1>1, <1>a, RepairFacts
<1>4. /\ n \in Covered..Len(journal) /\ n \in Nat
      /\ \A i \in 1..n : i \in 1..Len(journal) /\ Whole(i) /\ MovesPresent(journal[i])
  BY <1>2, <1>a, KeptIs
<1>5. /\ m \in Nat /\ checkpoint.pgn <= m /\ m <= Len(pgn)
      /\ \A i \in 1..n : journal[i].at <= m
  BY <1>2, <1>a, <1>b, PgnEndIs
<1>6. /\ pgn' \in Seq(Games \cup {Torn}) /\ Len(pgn') = m /\ \A i \in 1..m : pgn'[i] = pgn[i]
      /\ syncedPgn' \in 0..m /\ checkpoint.pgn <= syncedPgn'
  <2>1. /\ pgn' = SubSeq(pgn, 1, m)
        /\ syncedPgn' = IF m < Len(pgn) THEN m ELSE syncedPgn
    BY <1>1, <1>b DEF RepairPgn, Truncated
  <2> QED
    BY <1>2, <1>5, <2>1
<1>7. /\ games \in Seq(Games) /\ Len(games) = n /\ IsSchedule(games)
      /\ \A i \in 1..n : games[i] = journal[i].game
  BY <1>2, <1>a, <1>c, LoadsIt
<1>d. PICK pairs : pairs = PairsFromJournal(games)
  OBVIOUS
<1>e. PICK K : K = Complete(games, n)
  OBVIOUS
<1>8. /\ K \in Nat /\ pairs \in Seq([Halves -> Games]) /\ Len(pairs) = K
      /\ \A p \in 1..K, h \in Halves : \E i \in 1..n : pairs[p][h] = games[i]
  BY <1>7, <1>d, <1>e, SchedulePairs
<1>9. /\ half = 0 /\ wpc = "idle" /\ task = Idle /\ ~dirty /\ ~failure /\ reply = "none"
  BY <1>1 DEF DurableInv, WriterInv, Steps, DownIsEmpty
<1>10. queue' \in Seq(Command) /\ \A i \in DOMAIN queue' : i = 1 /\ queue'[i].type = "Log"
  <2>1. <<[type |-> "Log"]>> \in Seq(Command)
    BY DEF Command
  <2> QED
    BY <1>1, <2>1 DEF Announced
<1>11. DurableTypes'
  <2>1. client' \in ClientState /\ session' \in 0..MaxSessions
    BY <1>1, <1>2, BoundsAssumption DEF ClientState
  <2>2. syncedJournal' \in 0..Len(journal') /\ syncedPgn' \in 0..Len(pgn')
    BY <1>3, <1>6
  <2> QED
    BY <1>1, <1>2, <1>3, <1>6, <1>8, <1>d, <1>10, <2>1, <2>2 DEF DurableTypes
<1>12. DirectoryInv'
  <2>1. LinesInOrder' /\ CheckpointSynced'
    <3>1. /\ m \in checkpoint.pgn..Len(pgn) /\ Len(pgn') >= m
          /\ checkpoint' = checkpoint /\ session' \in Nat /\ session <= session'
      BY <1>1, <1>2, <1>5, <1>6
    <3> QED
      BY <1>2, <1>3, <1>4, <1>6, <3>1, CutDirectory
  <2>2. NothingYet'
    BY <1>1, <1>2 DEF NothingYet
  <2> QED
    BY <2>1, <2>2 DEF DirectoryInv
<1>13. WriterInv'
  <2>1. Steps'
    BY <1>1, <1>9 DEF Steps, Idle
  <2>2. DownIsEmpty'
    BY <1>1 DEF DownIsEmpty
  <2>3. ASSUME NEW i \in 1..n PROVE (Whole(i) /\ MovesPresent(journal[i]))'
    <3>1. journal[i].at \in 1..m /\ pgn[journal[i].at] = journal[i].game
      BY <1>4, <1>5 DEF MovesPresent
    <3>2. journal'[i].at \in 1..Len(pgn') /\ pgn'[journal'[i].at] = journal'[i].game
      BY <1>3, <1>6, <3>1
    <3> QED
      BY <1>3, <1>4, <3>2 DEF Whole, Valid, MovesPresent
  <2>4. AtTheEnd'
    BY <1>1, <1>3, <1>6, <1>9, <2>3 DEF AtTheEnd, Whole, MovesPresent
  <2>5. CleanIsSynced'
    <3>1. CASE session = 0
      <4>1. n = 0 /\ m = 0
        BY <1>2, <1>4, <1>5, <3>1 DEF NothingYet
      <4> QED
        BY <1>3, <1>6, <4>1 DEF CleanIsSynced
    <3>2. CASE session # 0
      <4>1. queue' = <<[type |-> "Log"]>>
        BY <1>1, <3>2 DEF Announced
      <4>2. 1 \in DOMAIN queue' /\ queue'[1].type = "Log"
        BY <4>1
      <4> QED
        BY <4>2 DEF CleanIsSynced, Holds
    <3> QED
      BY <3>1, <3>2
  <2> QED
    BY <2>1, <2>2, <2>4, <2>5 DEF WriterInv
<1>14. JournalGames' = games
  <2>1. JournalGames' = [i \in 1..n |-> journal[i].game]
    BY <1>3 DEF JournalGames
  <2>2. games = [i \in 1..n |-> journal[i].game]
    BY <1>a, <1>c DEF Records
  <2> QED
    BY <2>1, <2>2
<1>15. /\ FirstQueued' = 2 * K + 1 /\ Sent' = 2 * K /\ ~Writing'
  <2>1. NextNumber(games, n, session') = 2 * K + 1
    <3>1. n > 0 => games[n].session # session'
      <4> SUFFICES ASSUME n > 0 PROVE games[n].session # session'
        OBVIOUS
      <4>1. n \in 1..n /\ n \in DOMAIN journal /\ Whole(n) /\ games[n] = journal[n].game
        BY <1>2, <1>4, <1>7 DEF DurableTypes
      <4>2. games[n].session <= session /\ games[n] \in Games
        BY <1>2, <4>1 DEF LinesInOrder
      <4>3. games[n].session \in Nat
        BY <4>2 DEF Games
      <4> QED
        BY <1>1, <1>2, <4>2, <4>3
    <3> QED
      BY <1>e, <3>1 DEF NextNumber
  <2>2. ~Writing'
    BY <1>1, <1>9 DEF Writing
  <2>3. FirstQueued' = 2 * K + 1
    BY <1>3, <1>8, <1>14, <2>1, <2>2 DEF FirstQueued
  <2>4. Sent' = 2 * K
    <3>1. official' = pairs /\ half' = 0
      BY <1>1, <1>9, <1>d
    <3> QED
      BY <1>8, <3>1 DEF Sent
  <2> QED
    BY <2>2, <2>3, <2>4
<1>16. Stream'
  <2>1. FirstQueued' <= Sent' + 1 /\ FirstQueued'..Sent' = {}
    BY <1>8, <1>15
  <2>2. \A i \in DOMAIN queue' : ~IsGame(i)'
    BY <1>10 DEF IsGame
  <2> QED
    BY <1>15, <2>1, <2>2 DEF Stream
<1>17. OfficialInHand'
  <2>1. ASSUME NEW p \in DOMAIN official', NEW h \in Halves
        PROVE  InHand(official[p][h])'
    <3>1. p \in 1..K /\ official' = pairs
      BY <1>1, <1>8, <1>d, <2>1
    <3>2. PICK i \in 1..n : pairs[p][h] = games[i]
      BY <1>8, <3>1
    <3>3. i \in DOMAIN journal' /\ journal'[i].game = official'[p][h]
      BY <1>3, <1>7, <3>1, <3>2
    <3> QED
      BY <3>3 DEF InHand
  <2> QED
    BY <1>1, <1>9, <2>1 DEF OfficialInHand
<1>18. EndInOrder'
  <2>1. \A type : Holds(type)' => type = "Log"
    BY <1>10 DEF Holds
  <2>2. task'.type = "Idle" /\ task' = Idle
    BY <1>1, <1>9 DEF Idle
  <2> QED
    BY <1>1, <1>9, <1>10, <2>1, <2>2 DEF EndInOrder, Wrapping
<1> QED
  BY <1>11, <1>12, <1>13, <1>16, <1>17, <1>18 DEF DurableInv, ClientInv

-----------------------------------------------------------------------------

LEMMA InitInv ==
    ASSUME Init
    PROVE  DurableInv
<1>1. /\ journal = << >> /\ pgn = << >> /\ syncedJournal = 0 /\ syncedPgn = 0
      /\ checkpoint = EmptyAnchor /\ session = 0 /\ client = "down" /\ half = 0
      /\ official = << >> /\ queue = << >> /\ task = Idle /\ wpc = "idle"
      /\ dirty = FALSE /\ failure = FALSE /\ reply = "none" /\ ~Up
  BY DEF Init, Up
<1>2. DurableTypes
  <2>1. checkpoint \in [lines : Seq(Lines), pgn : Nat]
    BY <1>1 DEF EmptyAnchor
  <2>2. /\ journal \in Seq(Lines) /\ pgn \in Seq(Games \cup {Torn})
        /\ official \in Seq([Halves -> Games]) /\ queue \in Seq(Command)
        /\ Len(journal) = 0 /\ Len(pgn) = 0
    BY <1>1
  <2>3. session \in 0..MaxSessions
    BY <1>1, BoundsAssumption
  <2>4. client \in ClientState /\ half \in 0..1 /\ reply \in {"none", "ok", "failed"}
    BY <1>1 DEF ClientState
  <2>5. syncedJournal \in 0..Len(journal) /\ syncedPgn \in 0..Len(pgn)
    BY <1>1, <2>2
  <2>6. task \in Command \cup {Idle, Tick} /\ dirty \in BOOLEAN /\ failure \in BOOLEAN
    BY <1>1
  <2> QED
    BY <2>1, <2>2, <2>3, <2>4, <2>5, <2>6 DEF DurableTypes
<1>3. DirectoryInv
  <2>1. DOMAIN journal = {} /\ Len(journal) = 0
    BY <1>1
  <2>2. LinesInOrder /\ NothingYet
    BY <1>1, <2>1 DEF LinesInOrder, NothingYet
  <2>3. CheckpointSynced
    <3>1. checkpoint.lines = << >> /\ checkpoint.pgn = 0 /\ Covered = 0
      BY <1>1 DEF EmptyAnchor, Covered
    <3>2. SubSeq(journal, 1, Covered) = << >>
      BY <1>1, <3>1
    <3> QED
      BY <1>1, <2>1, <3>1, <3>2 DEF CheckpointSynced
  <2> QED
    BY <2>2, <2>3 DEF DirectoryInv
<1>4. WriterInv
  <2>1. Steps
    BY <1>1 DEF Steps, Idle
  <2> QED
    BY <1>1, <2>1 DEF WriterInv, DownIsEmpty, AtTheEnd, CleanIsSynced
<1>5. ClientInv
  <2>1. Stream /\ OfficialInHand
    BY <1>1 DEF Stream, OfficialInHand
  <2>2. DOMAIN queue = {} /\ task.type = "Idle"
    BY <1>1 DEF Idle
  <2>3. EndInOrder
    BY <1>1, <2>2 DEF EndInOrder, Holds, Wrapping
  <2> QED
    BY <2>1, <2>3 DEF ClientInv
<1> QED
  BY <1>2, <1>3, <1>4, <1>5 DEF DurableInv

LEMMA StutterKeepsInv ==
    ASSUME DurableInv, UNCHANGED vars
    PROVE  DurableInv'
<1>1. /\ UNCHANGED <<journal, pgn, syncedJournal, syncedPgn, checkpoint, session>>
      /\ UNCHANGED <<client, half, official, queue, task, wpc, nextSeq, pgnOffset>>
      /\ UNCHANGED <<dirty, failure, reply>>
      /\ (Up' <=> Up)
  BY DEF vars, files, clientVars, writerVars, position, Up
<1>2. DurableTypes'
  BY <1>1 DEF DurableInv, DurableTypes
<1>3. DirectoryInv'
  BY <1>1, SameDirectory DEF DurableInv, synced
<1>4. WriterInv'
  BY <1>1 DEF DurableInv, WriterInv, Steps, DownIsEmpty, AtTheEnd, CleanIsSynced,
              Whole, Valid, MovesPresent, Holds
<1>5. Stream' /\ OfficialInHand'
  BY <1>1, WriterKeepsStream DEF Writing
<1>6. EndInOrder'
  BY <1>1 DEF DurableInv, ClientInv, EndInOrder, Holds, Wrapping, Flushed, GamesOf
<1> QED
  BY <1>2, <1>3, <1>4, <1>5, <1>6 DEF DurableInv, ClientInv

LEMMA NextKeepsInv ==
    ASSUME DurableInv, [Next]_vars
    PROVE  DurableInv'
<1>1. CASE ClientNext
  BY <1>1, CommitGameKeepsInv, CheckpointDueKeepsInv, FinishKeepsInv, SendResultKeepsInv,
     SettleKeepsInv, ClientTurnsKeepsInv DEF ClientNext
<1>2. CASE WriterNext
  BY <1>2, ReceiveKeepsInv, ReceiveLogKeepsInv, DiscardKeepsInv, TimeoutKeepsInv,
     AppendMovesKeepsInv, AppendLineKeepsInv, SyncJournalKeepsInv, SyncEndsKeepsInv,
     WriteCheckpointKeepsInv, WriteResultKeepsInv, WriteFailsKeepsInv DEF WriterNext
<1>3. CASE Kill \/ PowerLoss \/ Exit \/ RepairInterrupted \/ Resume
  BY <1>3, KillKeepsInv, PowerLossKeepsInv, ExitKeepsInv, RepairInterruptedKeepsInv,
     ResumeKeepsInv
<1>4. CASE UNCHANGED vars
  BY <1>4, StutterKeepsInv
<1> QED
  BY <1>1, <1>2, <1>3, <1>4 DEF Next

\* The directory, the writer and the stream of games stay as described above,
\* whatever fails and whenever the process or the host goes down.
THEOREM DurableRunInvariant == Spec => []DurableInv
<1>1. Init => DurableInv
  BY InitInv
<1>2. DurableInv /\ [Next]_vars => DurableInv'
  BY NextKeepsInv
<1> QED
  BY <1>1, <1>2, PTL DEF Spec

LEMMA InvResumable ==
    ASSUME DurableInv
    PROVE  AlwaysResumable
<1>a. PICK games : games = Records
  OBVIOUS
<1>b. PICK pairs : pairs = PairsFromJournal(games)
  OBVIOUS
<1>1. ~Refused /\ games \in Seq(Games) /\ IsSchedule(games)
  BY <1>a, LoadsIt DEF DurableInv, DirectoryInv
<1>c. PICK K : K = Complete(games, Len(games))
  OBVIOUS
<1>2. K \in 0..MaxPairs /\ pairs \in Seq([Halves -> Games]) /\ Len(pairs) = K
      /\ \A p \in 1..K : pairs[p][1].pair = p
  BY <1>b, <1>c, <1>1, SchedulePairs
<1>3. IsPrefixOfSchedule(pairs)
  BY <1>2, SizeAssumption DEF IsPrefixOfSchedule
<1> QED
  BY <1>a, <1>b, <1>1, <1>3 DEF AlwaysResumable

\* load_journal accepts what any sequence of kills, power losses and failed
\* writes leaves of a directory, and validate_completed_prefix its pairs: a run
\* can be resumed at every moment.
THEOREM DirectoryStaysResumable == Spec => []AlwaysResumable
BY DurableRunInvariant, InvResumable, PTL

LEMMA InvLinesHaveMoves ==
    ASSUME DurableInv
    PROVE  LinesHaveMoves
<1>1. /\ \A i \in DOMAIN journal : Whole(i) => journal[i].seq = i
      /\ Up => \A i \in DOMAIN journal : Whole(i) => MovesPresent(journal[i])
  BY DEF DurableInv, DirectoryInv, LinesInOrder, WriterInv, AtTheEnd
<1> QED
  BY <1>1 DEF LinesHaveMoves, Whole

\* append_game writes the moves first: while a run is up, even one whose writer
\* has failed, no complete line of its journal is without them.
THEOREM MovesComeFirst == Spec => []LinesHaveMoves
BY DurableRunInvariant, InvLinesHaveMoves, PTL

-----------------------------------------------------------------------------
(* Reports. *)

\* A writer that has nothing left to sync has made its whole journal durable.
LEMMA AllDurable ==
    ASSUME DurableInv, Up, ~failure, ~dirty, wpc # "line", ~Holds("Log")
    PROVE  Durable = Len(journal) /\ Kept = Len(journal)
<1>1. /\ DurableTypes /\ LinesInOrder /\ CheckpointSynced
      /\ syncedJournal = Len(journal) /\ syncedPgn = Len(pgn)
      /\ DOMAIN journal = 1..Len(journal) /\ Len(journal) \in Nat /\ Len(pgn) \in Nat
      /\ \A i \in DOMAIN journal : Whole(i) /\ MovesPresent(journal[i])
  BY DEF DurableInv, DurableTypes, DirectoryInv, WriterInv, CleanIsSynced, AtTheEnd
<1>2. /\ Kept \in Nat /\ Kept <= Len(journal)
      /\ Kept < Len(journal) => ~(Whole(Kept + 1) /\ MovesPresent(journal[Kept + 1]))
  <2>1. Covered \in Nat
    BY <1>1, CoveredType
  <2> QED
    BY <1>1, <2>1, KeptIs
<1>3. Kept = Len(journal)
  BY <1>1, <1>2
<1>4. Durable \in 0..Kept
      /\ \A i \in 1..Kept : i <= Durable <=> i <= syncedJournal /\ journal[i].at <= syncedPgn
  BY <1>1, DurableIs
<1>5. \A i \in 1..Len(journal) : journal[i].at \in 1..Len(pgn)
  BY <1>1 DEF MovesPresent
<1>6. Durable = Len(journal)
  <2>1. CASE Len(journal) = 0
    BY <1>3, <1>4, <2>1
  <2>2. CASE Len(journal) # 0
    <3>1. Len(journal) \in 1..Len(journal) /\ journal[Len(journal)].at <= Len(pgn)
      BY <1>1, <1>5, <2>2
    <3> QED
      BY <1>1, <1>3, <1>4, <3>1
  <2> QED
    BY <2>1, <2>2
<1> QED
  BY <1>3, <1>6

LEMMA OfficialDurable ==
    ASSUME DurableInv, Up, ~failure, ~dirty, ~Writing, ~Holds("Log"), ~Holds("Game")
    PROVE  GamesOf(official) \subseteq {journal[i].game : i \in 1..Durable}
<1>1. Durable = Len(journal) /\ DOMAIN journal = 1..Len(journal)
  BY AllDurable DEF Writing, DurableInv, DurableTypes
<1>2. \A p \in DOMAIN official, h \in Halves : InHand(official[p][h])
  BY DEF DurableInv, ClientInv, OfficialInHand
<1>3. \A game : InHand(game) => \E i \in 1..Len(journal) : journal[i].game = game
  BY <1>1 DEF InHand, IsGame, Holds
<1>4. ASSUME NEW game \in GamesOf(official)
      PROVE  \E p \in DOMAIN official, h \in Halves : game = official[p][h]
  <2>1. PICK p \in DOMAIN official : game \in ToSet(official[p])
    BY DEF GamesOf
  <2>2. DOMAIN official[p] = Halves
    BY DEF DurableInv, DurableTypes
  <2> QED
    BY <2>1, <2>2 DEF ToSet
<1> QED
  BY <1>1, <1>2, <1>3, <1>4

LEMMA InvSettled ==
    ASSUME DurableInv
    PROVE  SettledIsDurable
<1> SUFFICES ASSUME client = "done"
             PROVE  GamesOf(official) \subseteq {journal[i].game : i \in 1..Durable}
  BY DEF SettledIsDurable
<1>1. Up /\ ~failure /\ queue = << >> /\ task = Idle /\ ~dirty
  BY DEF Up, DurableInv, ClientInv, EndInOrder
<1>2. ~Writing
  BY <1>1 DEF Writing, DurableInv, WriterInv, Steps
<1>3. \A type : ~Holds(type)
  BY <1>1 DEF Holds
<1> QED
  BY <1>1, <1>2, <1>3, OfficialDurable

\* When settle has answered the command, every game it counts is on the disk,
\* its line and its moves.
THEOREM SettleMeansDurable == Spec => []SettledIsDurable
BY DurableRunInvariant, InvSettled, PTL

-----------------------------------------------------------------------------
(* The games of a directory as a log: DurableLog. *)

\* What a load keeps of the directory, and what of it is on the disk.
LogShape ==
    /\ Kept \in Nat /\ Kept <= Len(journal) /\ Len(journal) \in Nat /\ Len(pgn) \in Nat
    /\ DOMAIN journal = 1..Len(journal)
    /\ \A i \in 1..Kept : Whole(i) /\ MovesPresent(journal[i])
    /\ Kept < Len(journal) => ~(Whole(Kept + 1) /\ MovesPresent(journal[Kept + 1]))
    /\ \A i \in 1..Len(journal) : journal[i].at \in Nat
    /\ \A i \in 1..Len(journal) : Whole(i) => journal[i].game \in Games
    /\ Records \in Seq(Games) /\ Len(Records) = Kept
    /\ \A i \in 1..Kept : Records[i] = journal[i].game
    /\ Durable \in 0..Kept
    /\ \A i \in 1..Kept : i <= Durable <=> i <= syncedJournal /\ journal[i].at <= syncedPgn

LEMMA InvLogShape == DurableInv => LogShape
<1> SUFFICES ASSUME DurableInv PROVE LogShape
  OBVIOUS
<1>1. /\ DurableTypes /\ LinesInOrder /\ CheckpointSynced
      /\ DOMAIN journal = 1..Len(journal)
  BY DEF DurableInv, DurableTypes, DirectoryInv
<1>2. /\ Covered \in Nat /\ Len(journal) \in Nat /\ Len(pgn) \in Nat
      /\ \A i \in 1..Len(journal) : journal[i].at \in Nat
  BY <1>1, CoveredType
<1>3. /\ Kept \in Nat /\ Kept <= Len(journal)
      /\ \A i \in 1..Kept : Whole(i) /\ MovesPresent(journal[i])
      /\ Kept < Len(journal) => ~(Whole(Kept + 1) /\ MovesPresent(journal[Kept + 1]))
  BY <1>1, <1>2, KeptIs
<1>4. \A i \in 1..Len(journal) : Whole(i) => journal[i].game \in Games
  BY <1>1 DEF LinesInOrder
<1>5. /\ Records \in Seq(Games) /\ Len(Records) = Kept
      /\ \A i \in 1..Kept : Records[i] = journal[i].game
  BY <1>1, LoadsIt
<1>6. /\ Durable \in 0..Kept
      /\ \A i \in 1..Kept : i <= Durable <=> i <= syncedJournal /\ journal[i].at <= syncedPgn
  BY <1>1, DurableIs
<1> QED
  BY <1>1, <1>2, <1>3, <1>4, <1>5, <1>6 DEF LogShape

LEMMA InvLogShapeNext == DurableInv' => LogShape'
BY InvLogShape, PTL

\* The primed form, conjunct by conjunct.
LEMMA NextLogShape ==
    ASSUME DurableInv', NEW k2, k2 = Kept', NEW d2, d2 = Durable'
    PROVE  /\ k2 \in Nat /\ k2 <= Len(journal') /\ Len(journal') \in Nat /\ Len(pgn') \in Nat
           /\ DOMAIN journal' = 1..Len(journal')
           /\ \A i \in 1..k2 : (Whole(i) /\ MovesPresent(journal[i]))'
           /\ k2 < Len(journal') =>
                 \A i : i = k2 + 1 => ~(Whole(i)' /\ MovesPresent(journal[i])')
           /\ \A i \in 1..Len(journal') : journal'[i].at \in Nat
           /\ \A i \in 1..Len(journal') : Whole(i)' => journal'[i].game \in Games
           /\ Records' \in Seq(Games) /\ Len(Records') = k2
           /\ \A i \in 1..k2 : Records'[i] = journal'[i].game
           /\ d2 \in 0..k2
           /\ \A i \in 1..k2 : i <= d2 <=> i <= syncedJournal' /\ journal'[i].at <= syncedPgn'
<1>1. LogShape'
  BY InvLogShapeNext
<1> QED
  BY <1>1 DEF LogShape, Whole

\* While a process is up, only a torn line ends what a load keeps.
LEMMA TornEndsKept ==
    ASSUME DurableInv, Up
    PROVE  Kept < Len(journal) => \A i : i = Kept + 1 => ~Whole(i)
<1>1. /\ LogShape
      /\ \A i \in DOMAIN journal : Whole(i) => MovesPresent(journal[i])
  BY InvLogShape DEF DurableInv, WriterInv, AtTheEnd
<1> SUFFICES ASSUME Kept < Len(journal), NEW i, i = Kept + 1 PROVE ~Whole(i)
  OBVIOUS
<1>2. i \in DOMAIN journal
  BY <1>1 DEF LogShape
<1> QED
  BY <1>1, <1>2 DEF LogShape

\* The same games, and none of them less durable.
LEMMA SameLog ==
    ASSUME DurableInv, DurableInv',
           NEW k, k = Kept,
           k <= Len(journal'),
           \A i \in 1..k : journal'[i] = journal[i] /\ MovesPresent(journal[i])',
           k < Len(journal') => \A i : i = k + 1 => ~(Whole(i)' /\ MovesPresent(journal[i])'),
           \A i \in 1..k : /\ i <= syncedJournal => i <= syncedJournal'
                           /\ journal[i].at <= syncedPgn => journal[i].at <= syncedPgn'
    PROVE  RunLog!Next
<1>a. PICK d : d = Durable
  OBVIOUS
<1>b. PICK k2 : k2 = Kept'
  OBVIOUS
<1>c. PICK d2 : d2 = Durable'
  OBVIOUS
<1>1. /\ k \in Nat /\ \A i \in 1..k : Whole(i)
      /\ Records \in Seq(Games) /\ Len(Records) = k
      /\ \A i \in 1..k : Records[i] = journal[i].game
      /\ d \in 0..k
      /\ \A i \in 1..k : i <= d <=> i <= syncedJournal /\ journal[i].at <= syncedPgn
  BY <1>a, InvLogShape DEF LogShape
<1>2. /\ k2 \in Nat /\ k2 <= Len(journal') /\ Len(journal') \in Nat
      /\ \A i \in 1..k2 : (Whole(i) /\ MovesPresent(journal[i]))'
      /\ k2 < Len(journal') => \A i : i = k2 + 1 => ~(Whole(i)' /\ MovesPresent(journal[i])')
      /\ Records' \in Seq(Games) /\ Len(Records') = k2
      /\ \A i \in 1..k2 : Records'[i] = journal'[i].game
      /\ d2 \in 0..k2
      /\ \A i \in 1..k2 : i <= d2 <=> i <= syncedJournal' /\ journal'[i].at <= syncedPgn'
  BY <1>b, <1>c, NextLogShape
<1>3. \A i \in 1..k : Whole(i)' /\ MovesPresent(journal[i])'
  BY <1>1 DEF Whole, Valid
<1>4. k2 = k
  <2>1. ~(k2 < k)
    <3> SUFFICES ASSUME k2 < k PROVE FALSE
      OBVIOUS
    <3>1. PICK i : i = k2 + 1
      OBVIOUS
    <3>2. i \in 1..k /\ k2 < Len(journal')
      BY <1>1, <1>2, <3>1
    <3> QED
      BY <1>2, <1>3, <3>1, <3>2
  <2>2. ~(k < k2)
    <3> SUFFICES ASSUME k < k2 PROVE FALSE
      OBVIOUS
    <3>1. PICK i : i = k + 1
      OBVIOUS
    <3>2. i \in 1..k2 /\ k < Len(journal')
      BY <1>1, <1>2, <3>1
    <3> QED
      BY <1>2, <3>1, <3>2 
  <2> QED
    BY <1>1, <1>2, <2>1, <2>2
<1>5. Records' = Records
  BY <1>1, <1>2, <1>4
<1>6. d <= d2
  <2>1. CASE d = 0
    BY <1>2, <2>1
  <2>2. CASE d # 0
    <3>1. d \in 1..k /\ d <= syncedJournal /\ journal[d].at <= syncedPgn
      BY <1>1, <2>2
    <3>2. d <= syncedJournal' /\ journal'[d].at <= syncedPgn' /\ d \in 1..k2
      BY <1>4, <3>1
    <3> QED
      BY <1>2, <3>2
  <2> QED
    BY <2>1, <2>2
<1>7. d2 \in d..Len(Records)
  BY <1>1, <1>2, <1>4, <1>6
<1> QED
  BY <1>a, <1>c, <1>5, <1>7 DEF RunLog!Next, RunLog!Sync

\* A step that leaves both files alone.
LEMMA FilesStay ==
    ASSUME DurableInv, DurableInv', UNCHANGED <<journal, pgn>>,
           syncedJournal <= syncedJournal', syncedPgn <= syncedPgn'
    PROVE  RunLog!Next
<1>a. PICK k : k = Kept
  OBVIOUS
<1>1. /\ LogShape /\ k \in Nat /\ k <= Len(journal)
      /\ \A i \in 1..k : i \in 1..Len(journal) /\ MovesPresent(journal[i])
      /\ k < Len(journal) => ~(Whole(k + 1) /\ MovesPresent(journal[k + 1]))
      /\ \A i \in 1..Len(journal) : journal[i].at \in Nat
  BY <1>a, InvLogShape DEF LogShape
<1>2. syncedJournal \in Nat /\ syncedPgn \in Nat /\ syncedJournal' \in Nat /\ syncedPgn' \in Nat
  <2>1. DurableTypes /\ DurableTypes'
    BY DEF DurableInv
  <2>2. /\ Len(journal) \in Nat /\ Len(pgn) \in Nat
        /\ syncedJournal \in 0..Len(journal) /\ syncedPgn \in 0..Len(pgn)
        /\ syncedJournal' \in 0..Len(journal) /\ syncedPgn' \in 0..Len(pgn)
    BY <2>1, SMTT(30) DEF DurableTypes
  <2> QED
    BY <2>2
<1>3. \A i : (MovesPresent(journal[i])' <=> MovesPresent(journal[i])) /\ (Whole(i)' <=> Whole(i))
  BY DEF MovesPresent, Whole, Valid
<1>4. \A i \in 1..k : journal'[i] = journal[i] /\ MovesPresent(journal[i])'
  BY <1>1, <1>3
<1>5. k < Len(journal') => \A i : i = k + 1 => ~(Whole(i)' /\ MovesPresent(journal[i])')
  BY <1>1, <1>3
<1>6. \A i \in 1..k : /\ i <= syncedJournal => i <= syncedJournal'
                      /\ journal[i].at <= syncedPgn => journal[i].at <= syncedPgn'
  BY <1>1, <1>2
<1>7. k <= Len(journal')
  BY <1>1
<1> QED
  BY <1>a, <1>4, <1>5, <1>6, <1>7, SameLog

\* While a process is up, more moves or a torn entry change nothing.
LEMMA TornStays ==
    ASSUME DurableInv, DurableInv', Up,
           journal' = journal \/ journal' = Append(journal, TornLine),
           \/ pgn' = pgn
           \/ \E moves \in Games \cup {Torn} : pgn' = Append(pgn, moves),
           syncedJournal <= syncedJournal', syncedPgn <= syncedPgn'
    PROVE  RunLog!Next
<1>a. PICK k : k = Kept
  OBVIOUS
<1>b. PICK n : n = Len(journal)
  OBVIOUS
<1>1. /\ k \in Nat /\ k <= n /\ n \in Nat /\ Len(pgn) \in Nat
      /\ \A i \in 1..k : i \in 1..n /\ Whole(i) /\ MovesPresent(journal[i])
      /\ k < n => \A i : i = k + 1 => ~Whole(i)
      /\ \A i \in 1..n : journal[i].at \in Nat
  BY <1>a, <1>b, InvLogShape, TornEndsKept DEF LogShape
<1>2. /\ syncedJournal \in Nat /\ syncedPgn \in Nat /\ syncedJournal' \in Nat /\ syncedPgn' \in Nat
      /\ journal \in Seq(Lines) /\ pgn \in Seq(Games \cup {Torn})
  <2>1. DurableTypes /\ DurableTypes'
    BY DEF DurableInv
  <2>2. Len(journal') \in Nat /\ Len(pgn') \in Nat
    BY NextLogShape
  <2>3. /\ syncedJournal \in 0..Len(journal) /\ syncedPgn \in 0..Len(pgn)
        /\ syncedJournal' \in 0..Len(journal') /\ syncedPgn' \in 0..Len(pgn')
        /\ journal \in Seq(Lines) /\ pgn \in Seq(Games \cup {Torn})
    BY <2>1 DEF DurableTypes
  <2> QED
    BY <1>1, <1>b, <2>2, <2>3
<1>3. /\ \A i \in 1..n : journal'[i] = journal[i]
      /\ n <= Len(journal')
      /\ \A i : i = k + 1 /\ i <= Len(journal') => ~Whole(i)'
  <2>1. CASE journal' = journal
    BY <1>1, <1>b, <2>1 DEF Whole, Valid
  <2>2. CASE journal' = Append(journal, TornLine)
    <3>1. /\ Len(journal') = n + 1 /\ journal'[n + 1] = TornLine
          /\ \A i \in 1..n : journal'[i] = journal[i]
      <4>1. TornLine \in Lines
        BY DEF TornLine, Lines
      <4> HIDE DEF TornLine
      <4> QED
        BY <1>2, <1>b, <2>2, <4>1
    <3>2. CASE k < n
      BY <1>1, <3>1, <3>2 DEF Whole, Valid
    <3>3. CASE k = n
      BY <1>1, <3>1, <3>3 DEF Whole, Valid
    <3> QED
      BY <1>1, <3>1, <3>2, <3>3
  <2> QED
    BY <2>1, <2>2
<1>4. /\ Len(pgn) <= Len(pgn') /\ \A i \in 1..Len(pgn) : pgn'[i] = pgn[i]
      /\ Len(pgn') \in Nat
  BY <1>2
<1>5. \A i \in 1..k : journal'[i] = journal[i] /\ MovesPresent(journal[i])'
  <2> SUFFICES ASSUME NEW i \in 1..k
               PROVE  journal'[i] = journal[i] /\ MovesPresent(journal[i])'
    OBVIOUS
  <2>1. journal'[i] = journal[i]
    BY <1>1, <1>3
  <2>2. journal[i].at \in 1..Len(pgn) /\ pgn[journal[i].at] = journal[i].game
    BY <1>1 DEF MovesPresent
  <2>3. journal[i].at \in 1..Len(pgn') /\ pgn'[journal[i].at] = journal[i].game
    BY <1>1, <1>4, <2>2
  <2> QED
    BY <2>1, <2>3 DEF MovesPresent
<1>6. k < Len(journal') => \A i : i = k + 1 => ~(Whole(i)' /\ MovesPresent(journal[i])')
  <2>1. Len(journal') \in Nat
    BY NextLogShape
  <2> QED
    BY <1>1, <1>3, <2>1
<1>7. k <= Len(journal')
  <2>1. Len(journal') \in Nat
    BY NextLogShape
  <2> QED
    BY <1>1, <1>3, <2>1
<1>8. \A i \in 1..k : /\ i <= syncedJournal => i <= syncedJournal'
                      /\ journal[i].at <= syncedPgn => journal[i].at <= syncedPgn'
  BY <1>1, <1>2
<1> QED
  BY <1>a, <1>5, <1>6, <1>7, <1>8, SameLog

LEMMA RepairInterruptedLog ==
    ASSUME DurableInv, DurableInv', RepairInterrupted
    PROVE  RunLog!Next
<1>a. PICK k : k = Kept
  OBVIOUS
<1>1. /\ RepairJournal /\ UNCHANGED <<pgn, syncedPgn>>
      /\ journal \in Seq(Lines) /\ syncedJournal \in 0..Len(journal)
  BY DEF RepairInterrupted, DurableInv, DurableTypes
<1>2. Len(journal') = k /\ \A i \in 1..k : journal'[i] = journal[i]
  BY <1>a, <1>1, RepairFacts
<1>3. k \in Nat /\ k <= Len(journal) /\ Len(journal) \in Nat
      /\ \A i \in 1..k : MovesPresent(journal[i])
  BY <1>a, InvLogShape DEF LogShape
<1>4. syncedJournal' = k \/ syncedJournal' = syncedJournal
  BY <1>a, <1>1 DEF RepairJournal, Truncated
<1>5. \A i \in 1..k : journal'[i] = journal[i] /\ MovesPresent(journal[i])'
  BY <1>1, <1>2, <1>3 DEF MovesPresent
<1>6. \A i \in 1..k : /\ i <= syncedJournal => i <= syncedJournal'
                      /\ journal[i].at <= syncedPgn => journal[i].at <= syncedPgn'
  BY <1>1, <1>3, <1>4
<1>7. k <= Len(journal') /\ ~(k < Len(journal'))
  BY <1>2, <1>3
<1> QED
  BY <1>a, <1>5, <1>6, <1>7, SameLog

LEMMA ResumeLog ==
    ASSUME DurableInv, DurableInv', Resume
    PROVE  RunLog!Next
<1>a. PICK k : k = Kept
  OBVIOUS
<1>b. PICK m : m = PgnEnd
  OBVIOUS
<1>1. /\ RepairJournal /\ RepairPgn
      /\ journal \in Seq(Lines) /\ syncedJournal \in 0..Len(journal)
      /\ pgn \in Seq(Games \cup {Torn}) /\ syncedPgn \in 0..Len(pgn)
      /\ DurableTypes /\ LinesInOrder /\ CheckpointSynced
  BY DEF Resume, DurableInv, DurableTypes, DirectoryInv
<1>2. Len(journal') = k /\ \A i \in 1..k : journal'[i] = journal[i]
  BY <1>a, <1>1, RepairFacts
<1>3. /\ k \in Nat /\ k <= Len(journal) /\ Len(journal) \in Nat /\ Len(pgn) \in Nat
      /\ \A i \in 1..k : i \in 1..Len(journal) /\ MovesPresent(journal[i])
      /\ \A i \in 1..Len(journal) : journal[i].at \in Nat
  BY <1>a, InvLogShape DEF LogShape
<1>4. m \in Nat /\ m <= Len(pgn) /\ \A i \in 1..k : journal[i].at <= m
  <2>1. checkpoint.pgn \in Nat
    BY <1>1, CoveredType
  <2> QED
    BY <1>a, <1>b, <1>1, <2>1, PgnEndIs
<1>5. syncedJournal' = k \/ syncedJournal' = syncedJournal
  BY <1>a, <1>1 DEF RepairJournal, Truncated
<1>6. /\ Len(pgn') = m /\ \A i \in 1..m : pgn'[i] = pgn[i]
      /\ syncedPgn' = m \/ syncedPgn' = syncedPgn
  <2>1. pgn' = SubSeq(pgn, 1, m) /\ (syncedPgn' = m \/ syncedPgn' = syncedPgn)
    BY <1>b, <1>1 DEF RepairPgn, Truncated
  <2> QED
    BY <1>1, <1>4, <2>1
<1>7. \A i \in 1..k : journal'[i] = journal[i] /\ MovesPresent(journal[i])'
  <2> SUFFICES ASSUME NEW i \in 1..k PROVE MovesPresent(journal[i])'
    BY <1>2
  <2>1. journal[i].at \in 1..m /\ pgn[journal[i].at] = journal[i].game
    BY <1>3, <1>4 DEF MovesPresent
  <2>2. journal'[i].at \in 1..Len(pgn') /\ pgn'[journal'[i].at] = journal'[i].game
    BY <1>2, <1>6, <2>1
  <2> QED
    BY <2>2 DEF MovesPresent
<1>8. \A i \in 1..k : /\ i <= syncedJournal => i <= syncedJournal'
                      /\ journal[i].at <= syncedPgn => journal[i].at <= syncedPgn'
  BY <1>1, <1>3, <1>4, <1>5, <1>6
<1>9. k <= Len(journal') /\ ~(k < Len(journal'))
  BY <1>2, <1>3
<1> QED
  BY <1>a, <1>7, <1>8, <1>9, SameLog

\* One game more, which no crash has to leave.
LEMMA AppendLineLog ==
    ASSUME DurableInv, DurableInv', AppendLine
    PROVE  RunLog!Next
<1>a. PICK n : n = Len(journal)
  OBVIOUS
<1>b. PICK g : g = task.game
  OBVIOUS
<1>c. PICK d : d = Durable
  OBVIOUS
<1>d. PICK k2 : k2 = Kept'
  OBVIOUS
<1>e. PICK d2 : d2 = Durable'
  OBVIOUS
<1>f. PICK line : line = Line
  OBVIOUS
<1>1. /\ wpc = "line" /\ journal' = Append(journal, line)
      /\ UNCHANGED <<pgn, syncedJournal, syncedPgn>> /\ (Up' <=> Up) /\ failure' = failure
      /\ wpc' # "line"
  BY <1>f DEF AppendLine, Finished, synced, clientVars, Up
<1>2. Up /\ task.type = "Game" /\ ~failure /\ g \in Games
  <2>1. Steps /\ Up /\ task.type = "Game" /\ task \in Command \cup {Idle, Tick}
    BY <1>1 DEF DurableInv, DurableTypes, WriterInv, Steps
  <2>2. task \in Command /\ task # Idle /\ task # Tick
    BY <2>1 DEF Idle, Tick
  <2> QED
    BY <1>b, <2>1, <2>2, CommandType DEF Steps
<1>3. /\ journal \in Seq(Lines) /\ n \in Nat /\ syncedJournal \in 0..n
      /\ \A i \in 1..n : Whole(i) /\ MovesPresent(journal[i])
  <2>1. journal \in Seq(Lines) /\ syncedJournal \in 0..Len(journal)
    BY DEF DurableInv, DurableTypes
  <2>2. \A i \in DOMAIN journal : Whole(i) /\ MovesPresent(journal[i])
    BY <1>2 DEF DurableInv, WriterInv, AtTheEnd
  <2> QED
    BY <1>a, <2>1, <2>2
<1>4. line.game = g
  BY <1>b, <1>f DEF Line
<1>5. Kept = n
  <2>1. /\ Kept \in Nat /\ Kept <= n
        /\ Kept < n => ~(Whole(Kept + 1) /\ MovesPresent(journal[Kept + 1]))
    BY <1>a, InvLogShape DEF LogShape
  <2> QED
    BY <1>3, <2>1
<1>6. /\ Records \in Seq(Games) /\ Len(Records) = n
      /\ \A i \in 1..n : Records[i] = journal[i].game
      /\ d \in 0..n
      /\ \A i \in 1..n : i <= d <=> i <= syncedJournal /\ journal[i].at <= syncedPgn
  BY <1>5, <1>c, InvLogShape DEF LogShape
<1>7. /\ Len(journal') = n + 1 /\ DOMAIN journal' = 1..(n + 1) /\ journal'[n + 1] = line
      /\ \A i \in 1..n : journal'[i] = journal[i]
  <2>1. Len(journal') = n + 1 /\ DOMAIN journal' = 1..(n + 1)
    BY <1>1, <1>3, <1>a
  <2> QED
    BY <1>1, <1>3, <1>a, <2>1
<1>8. \A i \in 1..(n + 1) : (Whole(i) /\ MovesPresent(journal[i]))'
  <2>1. WriterInv'
    BY DEF DurableInv
  <2> QED
    BY <1>1, <1>2, <1>7, <2>1 DEF WriterInv, AtTheEnd, Whole, MovesPresent
<1>9. /\ k2 \in Nat /\ k2 <= n + 1
      /\ k2 < n + 1 => \A i : i = k2 + 1 => ~(Whole(i)' /\ MovesPresent(journal[i])')
      /\ Records' \in Seq(Games) /\ Len(Records') = k2
      /\ \A i \in 1..k2 : Records'[i] = journal'[i].game
      /\ d2 \in 0..k2
      /\ \A i \in 1..k2 : i <= d2 <=> i <= syncedJournal' /\ journal'[i].at <= syncedPgn'
  BY <1>d, <1>e, <1>7, NextLogShape
<1>10. k2 = n + 1
  <2>1. ~(k2 < n + 1)
    <3> SUFFICES ASSUME k2 < n + 1 PROVE FALSE
      OBVIOUS
    <3>1. PICK i : i = k2 + 1
      OBVIOUS
    <3>2. i \in 1..(n + 1)
      BY <1>3, <1>9, <3>1
    <3> QED
      BY <1>8, <1>9, <3>1, <3>2
  <2> QED
    BY <1>3, <1>9, <2>1
<1>11. Records' = Append(Records, g)
  <2>1. \A i \in 1..n : Records'[i] = Records[i]
    BY <1>3, <1>6, <1>7, <1>9, <1>10
  <2>2. Records'[n + 1] = g
    BY <1>3, <1>4, <1>7, <1>9, <1>10
  <2>3. Append(Records, g) \in Seq(Games) /\ Len(Append(Records, g)) = n + 1
        /\ Append(Records, g)[n + 1] = g /\ \A i \in 1..n : Append(Records, g)[i] = Records[i]
    BY <1>2, <1>6
  <2>4. \A i \in 1..(n + 1) : Records'[i] = Append(Records, g)[i]
    BY <1>3, <2>1, <2>2, <2>3
  <2> QED
    BY <1>9, <1>10, <2>3, <2>4
<1>12. d2 = d
  <2>1. \A i \in 1..n : i <= d2 <=> i <= d
    BY <1>1, <1>3, <1>6, <1>7, <1>9, <1>10
  <2>2. d2 <= n
    <3> SUFFICES ASSUME ~(d2 <= n) PROVE FALSE
      OBVIOUS
    <3>1. d2 = n + 1 /\ n + 1 \in 1..k2
      BY <1>3, <1>9, <1>10
    <3>2. n + 1 <= syncedJournal
      BY <1>1, <1>9, <3>1
    <3> QED
      BY <1>3, <3>2
  <2>3. d2 \in Nat /\ d \in Nat /\ d2 <= n /\ d <= n
    BY <1>6, <1>9, <2>2, <1>3, <1>10
  <2>4. ~(d2 < d) /\ ~(d < d2)
    <3>1. d2 < d => d \in 1..n
      BY <2>3
    <3>2. d < d2 => d2 \in 1..n
      BY <2>3
    <3> QED
      BY <2>1, <2>3, <3>1, <3>2
  <2> QED
    BY <2>3, <2>4
<1> QED
  BY <1>2, <1>c, <1>e, <1>11, <1>12 DEF RunLog!Next, RunLog!AppendGame

\* What is left is all on the disk, and nothing that was there is gone.
LEMMA PowerLossLog ==
    ASSUME DurableInv, DurableInv', PowerLoss
    PROVE  RunLog!Next
<1>a. PICK k : k = Kept
  OBVIOUS
<1>b. PICK d : d = Durable
  OBVIOUS
<1>c. PICK k2 : k2 = Kept'
  OBVIOUS
<1>d. PICK d2 : d2 = Durable'
  OBVIOUS
<1>1. /\ journal' \in Survives(journal, syncedJournal, TornLine)
      /\ pgn' \in Survives(pgn, syncedPgn, Torn)
      /\ syncedJournal' = Len(journal') /\ syncedPgn' = Len(pgn')
      /\ journal \in Seq(Lines) /\ pgn \in Seq(Games \cup {Torn})
      /\ syncedJournal \in 0..Len(journal) /\ syncedPgn \in 0..Len(pgn)
  BY DEF PowerLoss, DurableInv, DurableTypes
<1>2. /\ k \in Nat /\ k <= Len(journal) /\ Len(journal) \in Nat /\ Len(pgn) \in Nat
      /\ \A i \in 1..k : i \in 1..Len(journal) /\ Whole(i) /\ MovesPresent(journal[i])
      /\ k < Len(journal) => \A i : i = k + 1 => ~(Whole(i) /\ MovesPresent(journal[i]))
      /\ \A i \in 1..Len(journal) : journal[i].at \in Nat
      /\ Records \in Seq(Games) /\ Len(Records) = k
      /\ \A i \in 1..k : Records[i] = journal[i].game
      /\ d \in 0..k
      /\ \A i \in 1..k : i <= d <=> i <= syncedJournal /\ journal[i].at <= syncedPgn
  BY <1>a, <1>b, InvLogShape DEF LogShape
<1>3. /\ k2 \in Nat /\ k2 <= Len(journal') /\ Len(journal') \in Nat /\ Len(pgn') \in Nat
      /\ \A i \in 1..k2 : (Whole(i) /\ MovesPresent(journal[i]))'
      /\ k2 < Len(journal') => \A i : i = k2 + 1 => ~(Whole(i)' /\ MovesPresent(journal[i])')
      /\ \A i \in 1..Len(journal') : Whole(i)' => journal'[i].game \in Games
      /\ Records' \in Seq(Games) /\ Len(Records') = k2
      /\ \A i \in 1..k2 : Records'[i] = journal'[i].game
      /\ d2 \in 0..k2
      /\ \A i \in 1..k2 : i <= d2 <=> i <= syncedJournal' /\ journal'[i].at <= syncedPgn'
  BY <1>c, <1>d, NextLogShape
<1>4. \E n \in syncedJournal..Len(journal) : LeavesFirst(journal', journal, n, TornLine)
  <2>1. TornLine \in Lines
    BY DEF TornLine, Lines
  <2> HIDE DEF TornLine
  <2> QED
    BY <1>1, <2>1, SurvivesIs
<1>5. \E m \in syncedPgn..Len(pgn) : LeavesFirst(pgn', pgn, m, Torn)
  <2>1. Torn \in Games \cup {Torn}
    OBVIOUS
  <2> HIDE DEF Torn
  <2> QED
    BY <1>1, <2>1, SurvivesIs
<1>6. PICK n \in syncedJournal..Len(journal) :
         /\ \A i \in 1..n : journal'[i] = journal[i]
         /\ \/ Len(journal') = n
            \/ Len(journal') = n + 1 /\ journal'[n + 1] = TornLine
  BY <1>4 DEF LeavesFirst
<1>7. PICK m \in syncedPgn..Len(pgn) :
         /\ \A i \in 1..m : pgn'[i] = pgn[i]
         /\ Len(pgn') = m \/ (Len(pgn') = m + 1 /\ pgn'[m + 1] = Torn)
  BY <1>5 DEF LeavesFirst
<1>8. n \in Nat /\ n <= Len(journal) /\ syncedJournal \in Nat /\ syncedJournal <= n
      /\ m \in Nat /\ m <= Len(pgn) /\ syncedPgn \in Nat /\ syncedPgn <= m
  BY <1>1, <1>2
<1>9. ASSUME NEW i \in 1..d
      PROVE  i \in 1..Len(journal') /\ Whole(i)' /\ MovesPresent(journal[i])'
  <2>1. i \in 1..k /\ i <= syncedJournal /\ journal[i].at <= syncedPgn
    BY <1>2
  <2>2. Whole(i) /\ journal[i].at \in 1..Len(pgn) /\ pgn[journal[i].at] = journal[i].game
    BY <1>2, <2>1 DEF MovesPresent
  <2>3. i \in 1..n /\ journal[i].at \in 1..m
    BY <1>8, <2>1, <2>2
  <2>4. /\ i \in 1..Len(journal') /\ journal'[i] = journal[i]
        /\ journal[i].at \in 1..Len(pgn') /\ pgn'[journal[i].at] = journal[i].game
    BY <1>3, <1>6, <1>7, <1>8, <2>2, <2>3, SMTT(30)
  <2> QED
    BY <2>2, <2>4 DEF Whole, Valid, MovesPresent
<1>10. d <= k2
  <2> SUFFICES ASSUME k2 < d PROVE FALSE
    BY <1>2, <1>3
  <2>1. PICK i : i = k2 + 1
    OBVIOUS
  <2>2. i \in 1..d
    BY <1>2, <1>3, <2>1
  <2>3. k2 < Len(journal')
    BY <1>3, <1>9, <2>1, <2>2
  <2> QED
    BY <1>3, <1>9, <2>1, <2>2, <2>3
<1>11. ASSUME NEW i \in 1..k2 PROVE i \in 1..n /\ journal'[i] = journal[i]
  <2>1. journal'[i] # TornLine /\ i \in 1..Len(journal')
    BY <1>3 DEF Whole, Valid
  <2>2. i # n + 1 \/ Len(journal') = n
    BY <1>6, <2>1
  <2>3. i \in 1..n
    BY <1>6, <1>8, <2>1, <2>2
  <2> QED
    BY <1>6, <2>3
<1>12. k2 <= k
  <2> SUFFICES ASSUME k < k2 PROVE FALSE
    BY <1>2, <1>3
  <2>1. PICK i : i = k + 1
    OBVIOUS
  <2>2. i \in 1..k2
    BY <1>2, <1>3, <2>1
  <2>3. i \in 1..n /\ journal'[i] = journal[i] /\ i \in 1..Len(journal') /\ Whole(i)'
    BY <1>3, <1>11, <2>2
  <2>4. k < Len(journal) /\ Whole(i)
    BY <1>2, <1>8, <2>1, <2>3 DEF Whole, Valid
  <2>5. /\ journal'[i].game \in Games
        /\ journal'[i].at \in 1..Len(pgn') /\ pgn'[journal'[i].at] = journal'[i].game
    BY <1>3, <2>2, <2>3 DEF MovesPresent
  <2>6. journal[i].at # m + 1 \/ Len(pgn') = m
    <3>1. Torn \notin Games
      BY DEF Torn, Games, Pairs
    <3> QED
      BY <1>7, <2>3, <2>5, <3>1
  <2>7. journal[i].at \in 1..m
    BY <1>7, <1>8, <2>3, <2>5, <2>6
  <2>8. journal[i].at \in 1..Len(pgn) /\ pgn[journal[i].at] = journal[i].game
    BY <1>7, <1>8, <2>3, <2>5, <2>7
  <2>9. MovesPresent(journal[i])
    BY <2>8 DEF MovesPresent
  <2> QED
    BY <1>2, <2>1, <2>4, <2>9
<1>13. Records' = SubSeq(Records, 1, k2)
  <2>1. /\ SubSeq(Records, 1, k2) \in Seq(Games) /\ Len(SubSeq(Records, 1, k2)) = k2
        /\ \A i \in 1..k2 : SubSeq(Records, 1, k2)[i] = Records[i]
    BY <1>2, <1>3, <1>12
  <2>2. \A i \in 1..k2 : Records'[i] = Records[i]
    <3> SUFFICES ASSUME NEW i \in 1..k2 PROVE Records'[i] = Records[i]
      OBVIOUS
    <3>1. i \in 1..k /\ journal'[i] = journal[i]
      BY <1>2, <1>3, <1>11, <1>12
    <3>2. Records'[i] = journal'[i].game
      BY <1>3
    <3>3. Records[i] = journal[i].game
      BY <1>2, <3>1
    <3> QED
      BY <3>1, <3>2, <3>3
  <2> QED
    BY <1>3, <2>1, <2>2
<1>14. d2 = k2
  <2>1. CASE k2 = 0
    BY <1>3, <2>1
  <2>2. CASE k2 # 0
    <3>1. k2 \in 1..k2
      BY <1>3, <2>2
    <3>2. k2 <= syncedJournal' /\ journal'[k2].at <= syncedPgn'
      BY <1>1, <1>3, <3>1 DEF MovesPresent
    <3> QED
      BY <1>3, <3>1, <3>2
  <2> QED
    BY <2>1, <2>2
<1>15. k2 \in d..Len(Records)
  BY <1>2, <1>3, <1>10, <1>12
<1> QED
  BY <1>b, <1>d, <1>13, <1>14, <1>15 DEF RunLog!Next, RunLog!Crash

LEMMA NextImplementsLog ==
    ASSUME DurableInv, DurableInv', [Next]_vars
    PROVE  RunLog!Next
<1>0. /\ syncedJournal \in Nat /\ syncedPgn \in Nat
      /\ syncedJournal <= Len(journal) /\ syncedPgn <= Len(pgn)
  <2>1. LogShape /\ syncedJournal \in 0..Len(journal) /\ syncedPgn \in 0..Len(pgn)
    BY InvLogShape DEF DurableInv, DurableTypes
  <2> QED
    BY <2>1 DEF LogShape
<1>1. ASSUME UNCHANGED <<journal, pgn>>,
             syncedJournal' \in {syncedJournal, Len(journal)},
             syncedPgn' \in {syncedPgn, Len(pgn)}
      PROVE  RunLog!Next
  <2>1. syncedJournal <= syncedJournal' /\ syncedPgn <= syncedPgn'
    BY <1>0, <1>1
  <2> QED
    BY <1>1, <2>1, FilesStay
<1>2. CASE ClientNext
  <2>1. UNCHANGED <<journal, pgn, syncedJournal, syncedPgn>>
    BY <1>2 DEF ClientNext, CommitGame, CheckpointDue, CheckpointNotDue, Finish, ScheduleFails,
                SendResult, Settle, Settled, SendFails, files
  <2> QED
    BY <1>1, <2>1
<1>3. CASE Receive \/ ReceiveLog \/ Discard \/ Timeout \/ SyncJournal \/ SyncPgn
           \/ NothingToSync \/ WriteCheckpoint \/ WriteResult \/ Exit \/ UNCHANGED vars
  <2>1. /\ UNCHANGED <<journal, pgn>>
        /\ syncedJournal' \in {syncedJournal, Len(journal)}
        /\ syncedPgn' \in {syncedPgn, Len(pgn)}
    BY <1>3 DEF Receive, ReceiveLog, Discard, Timeout, SyncJournal, SyncPgn, NothingToSync,
                WriteCheckpoint, WriteResult, Exit, files, appended, synced, vars
  <2> QED
    BY <1>1, <2>1
<1>4. CASE AppendMoves
  <2>1. /\ wpc = "moves" /\ pgn' = Append(pgn, task.game)
        /\ UNCHANGED <<journal, syncedJournal, syncedPgn>>
    BY <1>4 DEF AppendMoves, synced
  <2>2. Up /\ task.game \in Games
    <3>1. Up /\ task.type = "Game" /\ task \in Command \cup {Idle, Tick}
      BY <2>1 DEF DurableInv, DurableTypes, WriterInv, Steps
    <3>2. task \in Command
      BY <3>1 DEF Idle, Tick
    <3> QED
      BY <3>1, <3>2, CommandType
  <2> QED
    BY <1>0, <2>1, <2>2, TornStays
<1>5. CASE WriteFails
  <2>1. /\ wpc # "idle" /\ TornWrite
        /\ syncedJournal' \in {syncedJournal, Len(journal)}
        /\ syncedPgn' \in {syncedPgn, Len(pgn)}
    BY <1>5 DEF WriteFails
  <2>2. /\ journal' = journal \/ journal' = Append(journal, TornLine)
        /\ pgn' = pgn \/ pgn' = Append(pgn, Torn)
    BY <2>1 DEF TornWrite
  <2>3. Up
    BY <2>1 DEF DurableInv, WriterInv, Steps
  <2>4. syncedJournal <= syncedJournal' /\ syncedPgn <= syncedPgn'
    BY <1>0, <2>1
  <2> HIDE DEF TornLine, Torn
  <2> QED
    BY <2>2, <2>3, <2>4, TornStays
<1>6. CASE Kill
  <2>1. /\ Up /\ TornWrite /\ UNCHANGED <<syncedJournal, syncedPgn>>
    BY <1>6 DEF Kill, synced
  <2>2. /\ journal' = journal \/ journal' = Append(journal, TornLine)
        /\ pgn' = pgn \/ pgn' = Append(pgn, Torn)
    BY <2>1 DEF TornWrite
  <2> HIDE DEF TornLine, Torn
  <2> QED
    BY <1>0, <2>1, <2>2, TornStays
<1> QED
  BY <1>2, <1>3, <1>4, <1>5, <1>6, AppendLineLog, PowerLossLog, RepairInterruptedLog, ResumeLog
     DEF Next, WriterNext

LEMMA InitImplementsLog ==
    ASSUME Init
    PROVE  RunLog!Init
<1>1. LogShape /\ journal = << >>
  BY InitInv, InvLogShape DEF Init
<1>2. Kept = 0
  BY <1>1 DEF LogShape
<1> QED
  BY <1>1, <1>2 DEF LogShape, RunLog!Init

\* The games of a run directory form one log: it grows by a game at a time, a
\* crash costs it no more than games that were never synced, and a repair, a
\* resume or a failed write none at all.
THEOREM DirectoryIsALog == Spec => ImplementsLog
<1>1. Init => RunLog!Init
  BY InitImplementsLog
<1>2. DurableInv /\ DurableInv' /\ [Next]_vars => [RunLog!Next]_(RunLog!vars)
  BY NextImplementsLog
<1> QED
  BY <1>1, <1>2, DurableRunInvariant, PTL DEF Spec, ImplementsLog, RunLog!Spec

\* No step loses or changes a game that is on the disk.
LEMMA DurableStays ==
    ASSUME DurableInv, DurableInv', [Next]_vars
    PROVE  {journal[i].game : i \in 1..Durable} \subseteq {journal'[i].game : i \in 1..Durable'}
<1>a. PICK d : d = Durable
  OBVIOUS
<1>b. PICK d2 : d2 = Durable'
  OBVIOUS
<1>c. PICK k2 : k2 = Kept'
  OBVIOUS
<1>1. /\ Records \in Seq(Games) /\ Len(Records) = Kept /\ Kept \in Nat /\ d \in 0..Kept
      /\ \A i \in 1..Kept : Records[i] = journal[i].game
  BY <1>a, InvLogShape DEF LogShape
<1>2. /\ Records' \in Seq(Games) /\ Len(Records') = k2 /\ k2 \in Nat /\ d2 \in 0..k2
      /\ \A i \in 1..k2 : Records'[i] = journal'[i].game
  BY <1>b, <1>c, NextLogShape
<1>3. d <= d2 /\ \A i \in 1..d : Records'[i] = Records[i]
  <2>1. CASE RunLog!AppendGame
    <3>1. PICK game \in Games : Records' = Append(Records, game)
      BY <2>1 DEF RunLog!AppendGame
    <3>2. d2 = d
      BY <1>a, <1>b, <2>1 DEF RunLog!AppendGame
    <3> QED
      BY <1>1, <3>1, <3>2
  <2>2. CASE RunLog!Sync
    <3>1. Records' = Records /\ d2 \in d..Len(Records)
      BY <1>a, <1>b, <2>2 DEF RunLog!Sync
    <3> QED
      BY <1>1, <3>1
  <2>3. CASE RunLog!Crash
    <3>1. PICK kept \in d..Len(Records) : Records' = SubSeq(Records, 1, kept) /\ d2 = kept
      BY <1>a, <1>b, <2>3 DEF RunLog!Crash
    <3> QED
      BY <1>1, <3>1
  <2> QED
    BY <2>1, <2>2, <2>3, NextImplementsLog DEF RunLog!Next
<1>4. ASSUME NEW i \in 1..d PROVE i \in 1..d2 /\ journal[i].game = journal'[i].game
  <2>1. i \in 1..Kept /\ i \in 1..d2 /\ i \in 1..k2
    BY <1>1, <1>2, <1>3
  <2> QED
    BY <1>1, <1>2, <1>3, <2>1
<1> QED
  BY <1>a, <1>b, <1>4

\* A writer that has a report in hand has synced the games it rests on.
LEMMA ReportIsDurable ==
    ASSUME DurableInv, wpc = "result"
    PROVE  task.games \subseteq {journal[i].game : i \in 1..Durable}
<1>1. Steps /\ EndInOrder /\ task.type = "Result" /\ Up
  BY DEF DurableInv, WriterInv, ClientInv, Steps
<1>2. ~failure /\ task # Idle
  BY <1>1 DEF Steps, Idle, Tick
<1>3. /\ task.games = GamesOf(official)
      /\ \A k \in DOMAIN queue : queue[k].type = "Barrier"
      /\ client \in {"barrier", "settling"}
  BY <1>1, <1>2 DEF EndInOrder
<1>4. Wrapping /\ ~\E i \in DOMAIN queue : queue[i].type = "Checkpoint"
  BY <1>3 DEF Wrapping
<1>5. Flushed
  BY <1>1, <1>2, <1>4 DEF EndInOrder
<1>6. ~Writing
  BY DEF Writing
<1> QED
  BY <1>1, <1>2, <1>3, <1>5, <1>6, OfficialDurable DEF Flushed

LEMMA ResultChanges ==
    ASSUME [Next]_vars
    PROVE  \/ result' = result
           \/ result' = NoResult
           \/ wpc = "result" /\ result' = task.games
<1>1. CASE ClientNext
  BY <1>1 DEF ClientNext, CommitGame, CheckpointDue, CheckpointNotDue, Finish, ScheduleFails,
              SendResult, Settle, Settled, SendFails, files
<1>2. CASE WriterNext
  BY <1>2 DEF WriterNext, Receive, ReceiveLog, Discard, Timeout, AppendMoves, AppendLine,
              SyncJournal, SyncPgn, NothingToSync, WriteCheckpoint, WriteResult, WriteFails, files
<1>3. CASE Kill \/ PowerLoss \/ Exit \/ RepairInterrupted \/ Resume
  BY <1>3 DEF Kill, PowerLoss, Exit, RepairInterrupted, Resume
<1>4. CASE UNCHANGED vars
  BY <1>4 DEF vars, files
<1> QED
  BY <1>1, <1>2, <1>3, <1>4 DEF Next

\* A report is written behind a checkpoint, so that the games it counts are on
\* the disk before it is, and no later crash takes one of them from under it.
THEOREM ReportsAreBacked == Spec => []ResultBacked
<1>1. Init => ResultBacked
  BY DEF Init, ResultBacked, NoResult
<1>2. ResultBacked /\ DurableInv /\ DurableInv' /\ [Next]_vars => ResultBacked'
  <2> SUFFICES ASSUME ResultBacked, DurableInv, DurableInv', [Next]_vars PROVE ResultBacked'
    OBVIOUS
  <2>a. PICK onDisk : onDisk = {journal[i].game : i \in 1..Durable}
    OBVIOUS
  <2>b. PICK onDiskNext : onDiskNext = {journal'[i].game : i \in 1..Durable'}
    OBVIOUS
  <2>1. onDisk \subseteq onDiskNext
    BY <2>a, <2>b, DurableStays
  <2>2. result' \subseteq onDisk
    BY <2>a, ReportIsDurable, ResultChanges DEF ResultBacked, NoResult
  <2> QED
    BY <2>b, <2>1, <2>2 DEF ResultBacked
<1> QED
  BY <1>1, <1>2, DurableRunInvariant, PTL DEF Spec
=============================================================================
