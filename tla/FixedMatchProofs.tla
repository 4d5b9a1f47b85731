--------------------------- MODULE FixedMatchProofs ---------------------------
(***************************************************************************)
(* What a fixed match keeps for every number of games and of CPU slots,    *)
(* and for every sequence of results, stops, crashes and resumes: each     *)
(* game is played once, a slot and its engines belong to one game, the     *)
(* status of the match is right, and what a report says of it stands.      *)
(***************************************************************************)
EXTENDS FixedMatch, SequenceTheorems, FiniteSetTheorems, WellFoundedInduction, TLAPS

Worker == [number : Numbers, slot : Slots,
           phase : {"launched", "playing", "returned"}, truth : Truth]

\* The invocation's games are those of the journal.
GamesAgree == pc # "down" => games = journal

\* Between two invocations nothing is held.
DownIsEmpty ==
    pc = "down" => /\ workers = {} /\ held = [s \in Slots |-> FALSE]
                   /\ stored = [s \in Slots |-> [side \in Side |-> "none"]]

\* A match that ended without an error was stopped or has every game.
EndsRight ==
    ending \in {"played out", "abandoned"} =>
        pc = "ended" /\ (Stopping \/ Committed = Numbers)

MatchInv ==
    /\ TypeOK /\ IsFiniteSet(workers)
    /\ GamesAgree /\ DownIsEmpty /\ EndsRight
    /\ EveryGameOnce /\ SlotToItself

-----------------------------------------------------------------------------
(* Numbers, slots and records. *)

\* What both SlotPool::take and the launch of the lowest number rest on.
LEMMA LeastExists ==
    ASSUME NEW S \in SUBSET Nat, S # {}
    PROVE  Least(S) \in S
<1>1. \E n \in S : \A m \in S : ~ (<<m, n>> \in OpToRel(<, Nat))
  BY NatLessThanWellFounded, WFMin
<1>2. \A m, n \in Nat : m < n => <<m, n>> \in OpToRel(<, Nat)
  <2> SUFFICES ASSUME NEW m \in Nat, NEW n \in Nat, m < n
               PROVE  <<m, n>> \in OpToRel(<, Nat)
    OBVIOUS
  <2> DEFINE p == <<m, n>>
  <2>1. p \in Nat \X Nat /\ p[1] < p[2]
    OBVIOUS
  <2> HIDE DEF p
  <2>2. p \in OpToRel(<, Nat)
    BY <2>1, Zenon DEF OpToRel
  <2> QED
    BY <2>2 DEF p
<1>3. PICK n \in S : \A m \in S : ~ (<<m, n>> \in OpToRel(<, Nat))
  BY <1>1
<1>4. \A m \in S : n <= m
  <2>1. \A m \in S : ~ (m < n)
    BY <1>2, <1>3
  <2> QED
    BY <2>1
<1> QED
  BY <1>4 DEF Least

LEMMA NumbersAreFinite == IsFiniteSet(Numbers) /\ Cardinality(Numbers) = Games
<1>1. 1 \in Int /\ Games \in Int
  BY SizeAssumption
<1> QED
  BY <1>1, FS_Interval, SizeAssumption DEF Numbers

\* The pool has a free slot whenever a game may be launched: `take` in
\* run_fixed_match never finds every slot held.
LEMMA FreeSlot ==
    ASSUME MatchInv, pc = "loop", CanLaunch
    PROVE  Take \in Slots /\ ~held[Take]
<1> DEFINE Free == {s \in Slots : ~held[s]}
<1>1. Free # {}
  <2> SUFFICES ASSUME \A s \in Slots : held[s]
               PROVE  FALSE
    OBVIOUS
  <2> DEFINE slotOf == [w \in workers |-> w.slot]
  <2>1. slotOf \in Surjection(workers, Slots)
    <3>1. slotOf \in [workers -> Slots]
      BY DEF MatchInv, TypeOK
    <3>2. \A s \in Slots : \E w \in workers : slotOf[w] = s
      BY DEF MatchInv, SlotToItself
    <3> QED
      BY <3>1, <3>2 DEF Surjection
  <2> HIDE DEF slotOf
  <2>2. Cardinality(Slots) <= Cardinality(workers)
    BY <2>1, FS_Surjection DEF MatchInv
  <2>3. Cardinality(Slots) = Concurrency
    <3>1. Concurrency \in Int /\ 1 \in Int
      BY SizeAssumption
    <3> QED
      BY <3>1, FS_Interval, SizeAssumption DEF Slots
  <2>4. Cardinality(workers) \in Nat
    BY FS_CardinalityType DEF MatchInv
  <2> QED
    BY <2>2, <2>3, <2>4, SizeAssumption DEF CanLaunch
<1>2. Free \in SUBSET Nat
  BY SizeAssumption DEF Slots
<1> QED
  BY <1>1, <1>2, LeastExists DEF Take

LEMMA TruthIsTyped == NoTruth \in Truth /\ \A truth \in Truth : truth.by \in Side
BY DEF NoTruth, Truth, Side

\* What a worker returns is a game with its own number.
LEMMA GameIsTyped ==
    ASSUME NEW number \in Numbers, NEW truth \in Truth
    PROVE  MatchGame(number, truth) \in Game /\ MatchGame(number, truth).number = number
<1>1. White(number) \in Side
  BY DEF White, Side
<1>2. \A side \in Side : ColorOf(number, side) \in Color /\ Other(side) \in Side
  BY DEF ColorOf, Color, Other, Side
<1>3. truth.by \in Side
  BY TruthIsTyped
<1>4. ColorOf(number, truth.by) \in Color /\ ColorOf(number, Other(truth.by)) \in Color
  BY <1>2, <1>3
<1> QED
  BY <1>1, <1>4, SMTT(60) DEF MatchGame, Game, Fault

\* The engine of a side goes back to that side, whatever colour it had.
LEMMA PutBackFits ==
    ASSUME NEW number \in Numbers, NEW seats,
           \A c \in Color : seats[c] \in {"none", Playing(number, c)}
    PROVE  /\ PutBack(number, seats) \in [Side -> Side \cup {"none"}]
           /\ \A side \in Side : PutBack(number, seats)[side] \in {"none", side}
<1>1. \A side \in Side : /\ ColorOf(number, side) \in Color
                         /\ Playing(number, ColorOf(number, side)) = side
  BY DEF ColorOf, Color, Side, Playing, White, Other
<1>2. \A side \in Side : seats[ColorOf(number, side)] \in {"none", side}
  BY <1>1
<1>3. "A" \in Side /\ "B" \in Side /\ "A" # "B"
  BY DEF Side
<1> QED
  BY <1>2, <1>3 DEF PutBack, Side
-----------------------------------------------------------------------------
(* The initial state and the ends of a session. *)

NothingHeld ==
    /\ workers = {} /\ games = << >> /\ pending = {}
    /\ held = [s \in Slots |-> FALSE]
    /\ stored = [s \in Slots |-> [side \in Side |-> "none"]]
    /\ pc = "down" /\ ending = "none" /\ stage = "running"

\* Every session ends with nothing held, whatever it leaves in its journal.
LEMMA NothingHeldInv ==
    ASSUME NothingHeld, journal \in Seq(Game),
           \A i, k \in DOMAIN journal : journal[i].number = journal[k].number => i = k,
           published \in [status : Status \cup {"none"}, games : Seq(Game)],
           sessions \in 0..MaxSessions
    PROVE  MatchInv
<1>1. TypeOK
  <2>1. << >> \in Seq(Game)
    BY EmptySeq
  <2> QED
    BY <2>1 DEF NothingHeld, TypeOK
<1>2. IsFiniteSet(workers)
  BY FS_EmptySet DEF NothingHeld
<1>3. GamesAgree /\ DownIsEmpty /\ EndsRight /\ EveryGameOnce /\ SlotToItself
  BY DEF NothingHeld, GamesAgree, DownIsEmpty, EndsRight, EveryGameOnce, SlotToItself
<1> QED
  BY <1>1, <1>2, <1>3 DEF MatchInv

LEMMA MatchInit == Init => MatchInv
<1> SUFFICES ASSUME Init
             PROVE  MatchInv
  OBVIOUS
<1>1. << >> \in Seq(Game)
  BY EmptySeq
<1>2. published \in [status : Status \cup {"none"}, games : Seq(Game)]
  BY <1>1 DEF Init
<1>3. NothingHeld
  BY DEF Init, NothingHeld
<1>4. \A i, k \in DOMAIN journal : journal[i].number = journal[k].number => i = k
  BY DEF Init
<1> QED
  BY <1>1, <1>2, <1>3, <1>4, BoundsAssumption, NothingHeldInv DEF Init

LEMMA DownStep ==
    ASSUME MatchInv, Down, journal' \in Seq(Game),
           \A i, k \in DOMAIN journal' : journal'[i].number = journal'[k].number => i = k,
           published' \in [status : Status \cup {"none"}, games : Seq(Game)],
           sessions' = sessions
    PROVE  MatchInv'
<1>1. NothingHeld'
  BY DEF Down, NothingHeld
<1>2. sessions' \in 0..MaxSessions
  BY DEF MatchInv, TypeOK
<1>3. TypeOK'
  <2>1. << >> \in Seq(Game)
    BY EmptySeq
  <2> QED
    BY <1>1, <1>2, <2>1 DEF NothingHeld, TypeOK
<1>4. IsFiniteSet(workers')
  BY <1>1, FS_EmptySet DEF NothingHeld
<1>5. GamesAgree' /\ DownIsEmpty' /\ EndsRight' /\ EveryGameOnce' /\ SlotToItself'
  BY <1>1 DEF NothingHeld, GamesAgree, DownIsEmpty, EndsRight, EveryGameOnce, SlotToItself
<1> QED
  BY <1>3, <1>4, <1>5 DEF MatchInv

LEMMA ExitStep == ASSUME MatchInv, Exit PROVE MatchInv'
<1>1. MatchStatus \in Status
  BY DEF MatchStatus, Status
<1>2. published' \in [status : Status \cup {"none"}, games : Seq(Game)]
  BY <1>1 DEF Exit, MatchInv, TypeOK
<1> QED
  BY <1>2, DownStep DEF Exit, MatchInv, TypeOK, EveryGameOnce

\* A crash keeps a prefix of the journal.
LEMMA CrashStep == ASSUME MatchInv, Crash PROVE MatchInv'
<1>1. PICK kept \in Len(published.games)..Len(journal) : journal' = SubSeq(journal, 1, kept)
  BY DEF Crash
<1>2. journal \in Seq(Game) /\ published.games \in Seq(Game)
  BY DEF MatchInv, TypeOK
<1>3. kept \in 0..Len(journal) /\ Len(journal) \in Nat /\ DOMAIN journal = 1..Len(journal)
  BY <1>1, <1>2, LenProperties
<1>4. 1 \in 1..Len(journal) + 1
  BY <1>3
<1> DEFINE E == Game
<1> HIDE DEF E
<1>5. /\ journal' \in Seq(E)
      /\ Len(journal') = IF 1 <= kept THEN kept - 1 + 1 ELSE 0
      /\ \A i \in 1..(kept - 1 + 1) : journal'[i] = journal[1 + i - 1]
  <2>1. journal \in Seq(E)
    BY <1>2 DEF E
  <2> QED
    BY <1>1, <1>3, <1>4, <2>1, SubSeqProperties
<1>6. DOMAIN journal' = 1..kept
  BY <1>3, <1>5, LenProperties
<1>7. \A i \in DOMAIN journal' : i \in DOMAIN journal /\ journal'[i] = journal[i]
  <2> TAKE i \in DOMAIN journal'
  <2>1. i \in 1..(kept - 1 + 1) /\ 1 + i - 1 = i /\ i \in 1..Len(journal)
    BY <1>3, <1>6
  <2> QED
    BY <1>3, <1>5, <2>1
<1>8. \A i, k \in DOMAIN journal' : journal'[i].number = journal'[k].number => i = k
  BY <1>7 DEF MatchInv, EveryGameOnce
<1>9. journal' \in Seq(Game)
  BY <1>5 DEF E
<1>10. published' = published /\ sessions' = sessions /\ Down
  BY DEF Crash
<1> QED
  BY <1>8, <1>9, <1>10, DownStep DEF MatchInv, TypeOK

-----------------------------------------------------------------------------
(* The loop. *)

\* A launched game is the lowest of those to be played and takes a free slot.
LEMMA LaunchStep == ASSUME MatchInv, Launch PROVE MatchInv'
<1> DEFINE n == Least(pending)
           t == Take
           w == [number |-> n, slot |-> t, phase |-> "launched", truth |-> NoTruth]
<1>0. /\ pc = "loop" /\ pc' = "loop" /\ pending # {}
      /\ workers' = workers \cup {w}
      /\ held' = [held EXCEPT ![t] = TRUE]
      /\ pending' = pending \ {n}
      /\ UNCHANGED <<journal, published, games, stored, stage, ending, sessions>>
  BY DEF Launch, CanLaunch, directory
<1>1. t \in Slots /\ ~held[t]
  BY FreeSlot DEF Launch
<1>2. n \in pending /\ n \in Numbers
  <2>1. pending \subseteq Numbers
    BY DEF MatchInv, TypeOK
  <2>2. Numbers \subseteq Nat
    BY SizeAssumption DEF Numbers
  <2> QED
    BY <1>0, <2>1, <2>2, LeastExists
<1>3. w \in Worker /\ w.number = n /\ w.slot = t /\ w.phase = "launched"
  BY <1>1, <1>2, TruthIsTyped DEF Worker
<1> HIDE DEF n, t, w
<1>4. TypeOK' /\ IsFiniteSet(workers')
  <2>1. IsFiniteSet(workers \cup {w})
    BY FS_AddElement DEF MatchInv
  <2>2. workers' \subseteq Worker
    BY <1>0, <1>3 DEF MatchInv, TypeOK, Worker
  <2> QED
    BY <1>0, <2>1, <2>2 DEF MatchInv, TypeOK, Worker
<1>5. GamesAgree' /\ DownIsEmpty' /\ EndsRight'
  BY <1>0 DEF MatchInv, GamesAgree, DownIsEmpty, EndsRight, Stopping, Committed
<1>6. EveryGameOnce'
  <2>1. /\ Committed \cup {v.number : v \in workers} \cup pending = Numbers
        /\ \A v \in workers : v.number \notin Committed \cup pending
        /\ Committed \cap pending = {}
        /\ \A u, v \in workers : u.number = v.number => u = v
        /\ \A i, k \in DOMAIN journal : journal[i].number = journal[k].number => i = k
    BY <1>0 DEF MatchInv, EveryGameOnce
  <2>2. Committed' = Committed
    BY <1>0 DEF Committed
  <2>3. {v.number : v \in workers'} = {v.number : v \in workers} \cup {n}
    BY <1>0, <1>3
  <2>4. n \notin Committed /\ \A v \in workers : v.number # n
    BY <1>2, <2>1
  <2>5. Committed' \cup {v.number : v \in workers'} \cup pending' = Numbers
    BY <1>0, <1>2, <2>1, <2>2, <2>3
  <2>6. \A v \in workers' : v.number \notin Committed' \cup pending'
    BY <1>0, <1>3, <2>1, <2>2, <2>4
  <2>7. \A u, v \in workers' : u.number = v.number => u = v
    BY <1>0, <1>3, <2>1, <2>4
  <2> QED
    BY <1>0, <2>1, <2>2, <2>5, <2>6, <2>7 DEF EveryGameOnce
<1>7. SlotToItself'
  <2>1. /\ \A u, v \in workers : u.slot = v.slot => u = v
        /\ \A s \in Slots : held[s] <=> \E u \in workers : u.slot = s
        /\ \A u \in workers : u.phase = "playing" => stored[u.slot] = [side \in Side |-> "none"]
        /\ \A s \in Slots, side \in Side : stored[s][side] \in {"none", side}
    BY <1>0 DEF MatchInv, SlotToItself
  <2>2. \A u \in workers : u.slot # t
    BY <1>1, <2>1
  <2>3. \A u, v \in workers' : u.slot = v.slot => u = v
    BY <1>0, <1>3, <2>1, <2>2
  <2>4. \A s \in Slots : held'[s] = IF s = t THEN TRUE ELSE held[s]
    BY <1>0 DEF MatchInv, TypeOK
  <2>5. \A s \in Slots : held'[s] <=> \E u \in workers' : u.slot = s
    BY <1>0, <1>3, <2>1, <2>4, ZenonT(60)
  <2>6. \A u \in workers' : u.phase = "playing" => stored'[u.slot] = [side \in Side |-> "none"]
    BY <1>0, <1>3, <2>1
  <2> QED
    BY <1>0, <2>1, <2>3, <2>5, <2>6 DEF SlotToItself
<1> QED
  BY <1>4, <1>5, <1>6, <1>7 DEF MatchInv

\* A game that returns moves from the workers to the journal and frees its slot.
LEMMA JoinStep == ASSUME MatchInv, Join PROVE MatchInv'
<1>1. PICK w \in workers :
        /\ workers' = workers \ {w}
        /\ held' = [held EXCEPT ![w.slot] = FALSE]
        /\ journal' = Append(journal, MatchGame(w.number, w.truth))
        /\ games' = Append(games, MatchGame(w.number, w.truth))
  BY DEF Join
<1>2. /\ pc = "loop" /\ pc' = "loop"
      /\ UNCHANGED <<published, pending, stored, stage, ending, sessions>>
  BY DEF Join
<1> DEFINE g == MatchGame(w.number, w.truth)
<1>3. g \in Game /\ g.number = w.number /\ w.slot \in Slots /\ w.number \in Numbers
  <2>1. w.number \in Numbers /\ w.truth \in Truth /\ w.slot \in Slots
    BY DEF MatchInv, TypeOK
  <2> QED
    BY <2>1, GameIsTyped
<1>4. journal' = Append(journal, g) /\ games' = Append(games, g)
  BY <1>1
<1> HIDE DEF g
<1>5. /\ journal \in Seq(Game) /\ games \in Seq(Game) /\ games = journal
      /\ Len(journal) \in Nat /\ DOMAIN journal = 1..Len(journal)
  BY <1>2, LenProperties DEF MatchInv, TypeOK, GamesAgree
<1>6. /\ journal' \in Seq(Game) /\ games' = journal'
      /\ DOMAIN journal' = 1..(Len(journal) + 1)
      /\ \A i \in 1..Len(journal) : journal'[i] = journal[i]
      /\ journal'[Len(journal) + 1] = g
  <2>1. /\ journal' \in Seq(Game) /\ Len(journal') = Len(journal) + 1
        /\ \A i \in 1..Len(journal) : journal'[i] = journal[i]
        /\ journal'[Len(journal) + 1] = g
    BY <1>3, <1>4, <1>5, AppendProperties
  <2> QED
    BY <1>4, <1>5, <2>1, LenProperties
<1>7. TypeOK' /\ IsFiniteSet(workers')
  <2>1. IsFiniteSet(workers \ {w})
    BY FS_RemoveElement DEF MatchInv
  <2> QED
    BY <1>1, <1>2, <1>3, <1>6, <2>1 DEF MatchInv, TypeOK
<1>8. GamesAgree' /\ DownIsEmpty' /\ EndsRight'
  BY <1>2, <1>6 DEF MatchInv, GamesAgree, DownIsEmpty, EndsRight
<1>9. Committed' = Committed \cup {w.number}
  <2>1. \A i \in DOMAIN journal' :
           (i \in DOMAIN journal /\ journal'[i] = journal[i]) \/ i = Len(journal) + 1
    BY <1>5, <1>6
  <2>2. \A i \in DOMAIN journal : i \in DOMAIN journal' /\ journal'[i] = journal[i]
    BY <1>5, <1>6
  <2>3. Len(journal) + 1 \in DOMAIN journal' /\ journal'[Len(journal) + 1].number = w.number
    BY <1>3, <1>5, <1>6
  <2> QED
    BY <2>1, <2>2, <2>3 DEF Committed
<1>10. EveryGameOnce'
  <2>1. /\ Committed \cup {v.number : v \in workers} \cup pending = Numbers
        /\ \A v \in workers : v.number \notin Committed \cup pending
        /\ Committed \cap pending = {}
        /\ \A u, v \in workers : u.number = v.number => u = v
        /\ \A i, k \in DOMAIN journal : journal[i].number = journal[k].number => i = k
    BY <1>2 DEF MatchInv, EveryGameOnce
  <2>2. {v.number : v \in workers'} = {v.number : v \in workers} \ {w.number}
    BY <1>1, <2>1
  <2>3. \A i \in DOMAIN journal : journal[i].number # w.number
    BY <2>1 DEF Committed
  <2>4. \A i, k \in DOMAIN journal' : journal'[i].number = journal'[k].number => i = k
    BY <1>3, <1>5, <1>6, <2>1, <2>3
  <2>5. Committed' \cup {v.number : v \in workers'} \cup pending' = Numbers
    BY <1>2, <1>9, <2>1, <2>2
  <2>6. \A v \in workers' : v.number \notin Committed' \cup pending'
    BY <1>1, <1>2, <1>9, <2>1
  <2>7. Committed' \cap pending' = {}
    BY <1>1, <1>2, <1>9, <2>1
  <2> QED
    BY <1>1, <2>1, <2>4, <2>5, <2>6, <2>7 DEF EveryGameOnce
<1>11. SlotToItself'
  <2>1. /\ \A u, v \in workers : u.slot = v.slot => u = v
        /\ \A s \in Slots : held[s] <=> \E u \in workers : u.slot = s
        /\ \A u \in workers : u.phase = "playing" => stored[u.slot] = [side \in Side |-> "none"]
        /\ \A s \in Slots, side \in Side : stored[s][side] \in {"none", side}
    BY <1>2 DEF MatchInv, SlotToItself
  <2>2. \A s \in Slots : held'[s] = IF s = w.slot THEN FALSE ELSE held[s]
    BY <1>1 DEF MatchInv, TypeOK
  <2>3. \A s \in Slots : held'[s] <=> \E u \in workers' : u.slot = s
    BY <1>1, <2>1, <2>2, ZenonT(60)
  <2> QED
    BY <1>1, <1>2, <2>1, <2>3 DEF SlotToItself
<1> QED
  BY <1>7, <1>8, <1>10, <1>11 DEF MatchInv

-----------------------------------------------------------------------------
(* The workers. *)

\* A worker that goes on keeps its number and its slot, and its slot's engines
\* are nobody else's.
LEMMA BecomesStep ==
    ASSUME MatchInv,
           NEW w \in workers, NEW v \in Worker, v.number = w.number, v.slot = w.slot,
           w.phase # "returned", v.phase # "launched",
           workers' = (workers \ {w}) \cup {v},
           NEW seats \in [Side -> Side \cup {"none"}],
           \A side \in Side : seats[side] \in {"none", side},
           stored' = [stored EXCEPT ![w.slot] = seats],
           v.phase = "playing" => seats = [side \in Side |-> "none"],
           UNCHANGED <<directory, pc, games, pending, held, stage, ending, sessions>>
    PROVE  MatchInv'
<1>0. /\ w.number \in Numbers /\ w.slot \in Slots
      /\ UNCHANGED <<journal, published>>
  BY DEF MatchInv, TypeOK, directory
<1>1. TypeOK' /\ IsFiniteSet(workers')
  <2>1. IsFiniteSet((workers \ {w}) \cup {v})
    BY FS_RemoveElement, FS_AddElement DEF MatchInv
  <2>2. workers' \subseteq Worker
    BY DEF MatchInv, TypeOK, Worker
  <2>3. stored' \in [Slots -> [Side -> Side \cup {"none"}]]
    BY DEF MatchInv, TypeOK
  <2> QED
    BY <1>0, <2>1, <2>2, <2>3 DEF MatchInv, TypeOK, Worker
<1>2. pc # "down"
  BY DEF MatchInv, DownIsEmpty
<1>3. GamesAgree' /\ DownIsEmpty' /\ EndsRight'
  BY <1>0, <1>2 DEF MatchInv, GamesAgree, DownIsEmpty, EndsRight, Stopping, Committed
<1>4. EveryGameOnce'
  <2>1. \A u1, u2 \in workers' : u1.number = u2.number => u1 = u2
    BY DEF MatchInv, EveryGameOnce
  <2>2. {u.number : u \in workers'} = {u.number : u \in workers}
    OBVIOUS
  <2>3. Committed' = Committed
    BY <1>0 DEF Committed
  <2>4. pc = "loop" => \A u \in workers' : u.number \notin Committed' \cup pending'
    BY <2>3 DEF MatchInv, EveryGameOnce
  <2> QED
    BY <1>0, <2>1, <2>2, <2>3, <2>4 DEF MatchInv, EveryGameOnce
<1>5. SlotToItself'
  <2> SUFFICES ASSUME pc = "loop"
               PROVE  SlotToItself'
    BY DEF SlotToItself
  <2>1. /\ \A u1, u2 \in workers : u1.slot = u2.slot => u1 = u2
        /\ \A s \in Slots : held[s] <=> \E u \in workers : u.slot = s
        /\ \A u \in workers : u.phase = "playing" => stored[u.slot] = [side \in Side |-> "none"]
        /\ \A s \in Slots, side \in Side : stored[s][side] \in {"none", side}
        /\ \A u \in workers : u.slot \in Slots
    BY DEF MatchInv, SlotToItself, TypeOK
  <2>2. \A u1, u2 \in workers' : u1.slot = u2.slot => u1 = u2
    BY <2>1
  <2>3. \A s \in Slots : held'[s] <=> \E u \in workers' : u.slot = s
    <3> SUFFICES ASSUME NEW s \in Slots
                 PROVE  (\E u \in workers : u.slot = s) <=> \E u \in workers' : u.slot = s
      BY <2>1
    <3> QED
      OBVIOUS
  <2>4. \A s \in Slots : stored'[s] = IF s = w.slot THEN seats ELSE stored[s]
    BY DEF MatchInv, TypeOK
  <2>5. \A u \in workers' : u.phase = "playing" => stored'[u.slot] = [side \in Side |-> "none"]
    <3> SUFFICES ASSUME NEW u \in workers', u.phase = "playing"
                 PROVE  stored'[u.slot] = [side \in Side |-> "none"]
      OBVIOUS
    <3>1. CASE u = v
      BY <1>0, <2>4, <3>1
    <3>2. CASE u # v
      <4>1. u \in workers /\ u # w
        BY <3>2
      <4>2. u.slot # w.slot /\ u.slot \in Slots
        BY <2>1, <4>1
      <4> QED
        BY <2>1, <2>4, <4>1, <4>2
    <3> QED
      BY <3>1, <3>2
  <2>6. \A s \in Slots, side \in Side : stored'[s][side] \in {"none", side}
    BY <2>1, <2>4
  <2> QED
    BY <2>2, <2>3, <2>5, <2>6 DEF SlotToItself
<1> QED
  BY <1>1, <1>3, <1>4, <1>5 DEF MatchInv

LEMMA TakeEnginesStep == ASSUME MatchInv, TakeEngines PROVE MatchInv'
<1>1. PICK w \in workers :
        /\ w.phase = "launched"
        /\ Becomes(w, "playing", NoTruth)
        /\ stored' = [stored EXCEPT ![w.slot] = [side \in Side |-> "none"]]
        /\ UNCHANGED <<directory, pc, games, pending, held, stage, ending, sessions>>
  BY DEF TakeEngines
<1> DEFINE v == [w EXCEPT !.phase = "playing", !.truth = NoTruth]
           seats == [side \in Side |-> "none"]
<1>2. w \in Worker
  BY DEF MatchInv, TypeOK, Worker
<1>3. v \in Worker /\ v.number = w.number /\ v.slot = w.slot /\ v.phase = "playing"
  BY <1>2, TruthIsTyped DEF Worker
<1>4. workers' = (workers \ {w}) \cup {v}
  BY <1>1 DEF Becomes
<1>5. seats \in [Side -> Side \cup {"none"}] /\ \A side \in Side : seats[side] \in {"none", side}
  OBVIOUS
<1>6. stored' = [stored EXCEPT ![w.slot] = seats] /\ (v.phase = "playing" => seats = [side \in Side |-> "none"])
  BY <1>1
<1> HIDE DEF v, seats
<1> QED
  BY <1>1, <1>3, <1>4, <1>5, <1>6, BecomesStep

LEMMA EndGameStep == ASSUME MatchInv, EndGame PROVE MatchInv'
<1>1. PICK w \in workers, truth \in Truth, ready \in {{}, Side} :
        LET fit == {s \in ready : truth.kind \notin {"forfeit", "timeloss"} \/ s # truth.by}
            Seat(color) == LET side == Playing(w.number, color)
                           IN  IF KeepEngines /\ side \in fit THEN side ELSE "none"
        IN  /\ w.phase = "playing"
            /\ Becomes(w, "returned", truth)
            /\ stored' = [stored EXCEPT ![w.slot] = PutBack(w.number, [c \in Color |-> Seat(c)])]
            /\ UNCHANGED <<directory, pc, games, pending, held, stage, ending, sessions>>
  BY DEF EndGame
<1> DEFINE fit == {s \in ready : truth.kind \notin {"forfeit", "timeloss"} \/ s # truth.by}
           Seats == [c \in Color |-> IF KeepEngines /\ Playing(w.number, c) \in fit
                                     THEN Playing(w.number, c) ELSE "none"]
           v == [w EXCEPT !.phase = "returned", !.truth = truth]
           seats == PutBack(w.number, Seats)
<1>2. w \in Worker /\ w.number \in Numbers
  BY DEF MatchInv, TypeOK, Worker
<1>3. v \in Worker /\ v.number = w.number /\ v.slot = w.slot /\ v.phase = "returned"
  BY <1>2 DEF Worker
<1>4. workers' = (workers \ {w}) \cup {v}
  BY <1>1 DEF Becomes
<1>5. \A c \in Color : Seats[c] \in {"none", Playing(w.number, c)}
  OBVIOUS
<1>6. stored' = [stored EXCEPT ![w.slot] = seats] /\ w.phase = "playing"
      /\ UNCHANGED <<directory, pc, games, pending, held, stage, ending, sessions>>
  BY <1>1
<1> HIDE DEF v, Seats
<1>7. seats \in [Side -> Side \cup {"none"}] /\ \A side \in Side : seats[side] \in {"none", side}
  BY <1>2, <1>5, PutBackFits
<1> HIDE DEF seats
<1> QED
  BY <1>3, <1>4, <1>6, <1>7, BecomesStep

-----------------------------------------------------------------------------
(* The ends of the loop, the stop and the resume. *)

LEMMA EndingStep == ASSUME MatchInv, JoinFails \/ EndLoop \/ Abandon PROVE MatchInv'
<1>1. /\ pc = "loop" /\ pc' = "ended" /\ workers' = {}
      /\ stored' = [s \in Slots |-> [side \in Side |-> "none"]]
      /\ UNCHANGED <<journal, published, games, pending, held, stage, sessions>>
      /\ ending' \in {"played out", "abandoned", "failed"}
  BY DEF JoinFails, EndLoop, Abandon, Ends, directory
<1>2. ending' # "failed" => Stopping \/ Committed = Numbers
  <2>1. CASE JoinFails
    BY <2>1 DEF JoinFails, Ends
  <2>2. CASE EndLoop
    <3>1. workers = {} /\ Cardinality(workers) = 0
      BY <2>2, FS_EmptySet DEF EndLoop
    <3>2. pending = {} \/ Stopping
      <4>1. ~(pending # {} /\ ~Stopping /\ 0 < Concurrency)
        BY <2>2, <3>1 DEF EndLoop, CanLaunch
      <4> QED
        BY <4>1, SizeAssumption
    <3>3. Committed \cup pending = Numbers
      BY <1>1, <3>1 DEF MatchInv, EveryGameOnce
    <3> QED
      BY <3>2, <3>3
  <2>3. CASE Abandon
    BY <2>3 DEF Abandon, Stopping
  <2> QED
    BY <2>1, <2>2, <2>3
<1>3. TypeOK' /\ IsFiniteSet(workers')
  BY <1>1, FS_EmptySet DEF MatchInv, TypeOK
<1>4. GamesAgree' /\ DownIsEmpty' /\ SlotToItself' /\ EveryGameOnce'
  BY <1>1 DEF MatchInv, GamesAgree, DownIsEmpty, SlotToItself, EveryGameOnce
<1>5. EndsRight'
  BY <1>1, <1>2 DEF EndsRight, Stopping, Committed
<1> QED
  BY <1>3, <1>4, <1>5 DEF MatchInv

LEMMA FrameStep ==
    ASSUME MatchInv, Interrupt \/ GraceExpires \/ UNCHANGED vars
    PROVE  MatchInv'
<1>1. /\ UNCHANGED <<journal, published, pc, games, pending, workers, held, stored, ending, sessions>>
      /\ stage' \in {"running", "stopping", "abandon"}
      /\ pc = "loop" \/ stage' = stage
  BY DEF Interrupt, GraceExpires, vars, directory, slots, MatchInv, TypeOK
<1>2. TypeOK' /\ IsFiniteSet(workers')
  BY <1>1 DEF MatchInv, TypeOK
<1>3. GamesAgree' /\ DownIsEmpty' /\ EndsRight'
  BY <1>1 DEF MatchInv, GamesAgree, DownIsEmpty, EndsRight, Stopping, Committed
<1>4. EveryGameOnce' /\ SlotToItself'
  BY <1>1 DEF MatchInv, EveryGameOnce, Committed, SlotToItself
<1> QED
  BY <1>2, <1>3, <1>4 DEF MatchInv

\* The next invocation plays what the journal lacks.
LEMMA ResumeStep == ASSUME MatchInv, Resume PROVE MatchInv'
<1>1. /\ pc = "down" /\ pc' = "loop" /\ games' = journal /\ pending' = Numbers \ Committed
      /\ sessions' = sessions + 1 /\ sessions < MaxSessions
      /\ UNCHANGED <<journal, published, workers, held, stored, stage, ending>>
  BY DEF Resume, Loaded, Committed, directory, slots
<1>2. /\ workers = {} /\ held = [s \in Slots |-> FALSE]
      /\ stored = [s \in Slots |-> [side \in Side |-> "none"]]
  BY <1>1 DEF MatchInv, DownIsEmpty
<1>3. Committed \subseteq Numbers
  <2>1. \A i \in DOMAIN journal : journal[i] \in Game
    <3>1. journal \in Seq(Game)
      BY DEF MatchInv, TypeOK
    <3>2. DOMAIN journal = 1..Len(journal)
      BY <3>1, LenProperties
    <3> QED
      BY <3>1, <3>2, ElementOfSeq
  <2>2. \A game \in Game : game.number \in Numbers
    BY DEF Game
  <2> QED
    BY <2>1, <2>2 DEF Committed
<1>4. sessions' \in 0..MaxSessions
  <2>1. sessions \in 0..MaxSessions
    BY DEF MatchInv, TypeOK
  <2> QED
    BY <1>1, <2>1, BoundsAssumption
<1>5. TypeOK' /\ IsFiniteSet(workers')
  BY <1>1, <1>4 DEF MatchInv, TypeOK
<1>6. GamesAgree' /\ DownIsEmpty' /\ EndsRight'
  BY <1>1 DEF MatchInv, GamesAgree, DownIsEmpty, EndsRight
<1>7. EveryGameOnce'
  BY <1>1, <1>2, <1>3 DEF MatchInv, EveryGameOnce, Committed
<1>8. SlotToItself'
  BY <1>1, <1>2 DEF SlotToItself
<1> QED
  BY <1>5, <1>6, <1>7, <1>8 DEF MatchInv

LEMMA MatchNext == MatchInv /\ [Next]_vars => MatchInv'
<1> SUFFICES ASSUME MatchInv, [Next]_vars
             PROVE  MatchInv'
  OBVIOUS
<1>1. CASE LoopNext
  BY <1>1, LaunchStep, JoinStep, EndingStep DEF LoopNext
<1>2. CASE JoinFails
  BY <1>2, EndingStep
<1>3. CASE WorkerNext
  BY <1>3, TakeEnginesStep, EndGameStep DEF WorkerNext
<1>4. CASE Interrupt \/ GraceExpires \/ UNCHANGED vars
  BY <1>4, FrameStep
<1>5. CASE Exit \/ Crash \/ Resume
  BY <1>5, ExitStep, CrashStep, ResumeStep
<1> QED
  BY <1>1, <1>2, <1>3, <1>4, <1>5 DEF Next

LEMMA MatchCorrect == Spec => []MatchInv
BY MatchInit, MatchNext, PTL DEF Spec

-----------------------------------------------------------------------------
\* The state of run_fixed_match and of its directory is well formed.
THEOREM MatchTypeTheorem == Spec => []TypeOK
<1>1. MatchInv => TypeOK
  BY DEF MatchInv
<1> QED
  BY <1>1, MatchCorrect, PTL

\* run_fixed_match and its resume play each number once, journal it once and
\* lose none.
THEOREM EveryGameOnceTheorem == Spec => []EveryGameOnce
<1>1. MatchInv => EveryGameOnce
  BY DEF MatchInv
<1> QED
  BY <1>1, MatchCorrect, PTL

\* SlotPool and SlotEngines: a game has its slot, and the engines kept there, to
\* itself, and a kept engine is the one of its side.
THEOREM SlotToItselfTheorem == Spec => []SlotToItself
<1>1. MatchInv => SlotToItself
  BY DEF MatchInv
<1> QED
  BY <1>1, MatchCorrect, PTL

\* The games of a journal that holds every number are as many as the match has,
\* and no journal holds more.
LEMMA JournalLength ==
    ASSUME MatchInv
    PROVE  /\ Len(journal) \in 0..Games
           /\ Committed = Numbers <=> Len(journal) = Games
<1>1. Len(journal) \in Nat /\ DOMAIN journal = 1..Len(journal)
  BY LenProperties DEF MatchInv, TypeOK
<1> DEFINE n == Len(journal)
           numberOf == [i \in 1..n |-> journal[i].number]
<1>2. numberOf \in Bijection(1..n, Committed)
  <2>1. numberOf \in [1..n -> Committed]
    BY <1>1 DEF Committed
  <2>2. \A i, k \in 1..n : numberOf[i] = numberOf[k] => i = k
    BY <1>1 DEF MatchInv, EveryGameOnce
  <2>3. \A number \in Committed : \E i \in 1..n : numberOf[i] = number
    BY <1>1 DEF Committed
  <2> HIDE DEF numberOf
  <2>4. numberOf \in Injection(1..n, Committed)
    BY <2>1, <2>2, Zenon DEF Injection, IsInjective
  <2>5. numberOf \in Surjection(1..n, Committed)
    BY <2>1, <2>3, Zenon DEF Surjection
  <2> QED
    BY <2>4, <2>5 DEF Bijection
<1> HIDE DEF numberOf
<1>3. IsFiniteSet(1..n) /\ Cardinality(1..n) = n
  <2>1. 1 \in Int /\ n \in Int /\ n \in Nat
    BY <1>1
  <2> HIDE DEF n
  <2> QED
    BY <2>1, FS_Interval
<1>4. IsFiniteSet(Committed) /\ Cardinality(Committed) = n
  <2>1. ExistsBijection(1..n, Committed)
    BY <1>2, Zenon DEF ExistsBijection
  <2> HIDE DEF n
  <2> QED
    BY <1>3, <2>1, FS_Bijection
<1>5. Committed \subseteq Numbers
  <2>1. \A i \in DOMAIN journal : journal[i] \in Game
    <3>1. journal \in Seq(Game)
      BY DEF MatchInv, TypeOK
    <3>2. DOMAIN journal = 1..Len(journal)
      BY <3>1, LenProperties
    <3> QED
      BY <3>1, <3>2, ElementOfSeq
  <2>2. \A game \in Game : game.number \in Numbers
    BY DEF Game
  <2> QED
    BY <2>1, <2>2 DEF Committed
<1>6. Cardinality(Committed) = Cardinality(Numbers) => Committed = Numbers
  BY <1>5, NumbersAreFinite, FS_Subset
<1> QED
  <2>1. n \in Nat /\ Games \in Nat
    BY <1>1, SizeAssumption
  <2>2. n <= Games
    BY <1>4, <1>5, NumbersAreFinite, FS_Subset
  <2> QED
    BY <1>4, <1>6, <2>1, <2>2, NumbersAreFinite

\* A number of games that is not short of all of them is all of them.
LEMMA AllPlayed == ASSUME NEW n \in 0..Games, ~(n < Games) PROVE n = Games
  BY SizeAssumption

\* The status run_fixed_match reports: cancelled only with games left unplayed,
\* and completed only with every game played.
LEMMA StatusInv == ASSUME MatchInv PROVE StatusIsRight
<1> SUFFICES ASSUME ending \in {"played out", "abandoned"}
             PROVE  /\ MatchStatus = "cancelled" => Stopping /\ Len(games) < Games
                    /\ MatchStatus = "completed" => Len(games) = Games
  BY DEF StatusIsRight
<1>0. games = journal
  BY DEF MatchInv, EndsRight, GamesAgree
<1>1. Stopping \/ Committed = Numbers
  BY DEF MatchInv, EndsRight
<1>2. Len(journal) \in 0..Games
  BY JournalLength
<1>3. Committed = Numbers <=> Len(journal) = Games
  BY JournalLength
<1>4. MatchStatus = "cancelled" => Stopping /\ Len(games) < Games
  BY DEF MatchStatus
<1>5. MatchStatus = "completed" => ~(Stopping /\ Len(games) < Games)
  BY DEF MatchStatus
<1>6. ASSUME ~(Stopping /\ Len(games) < Games)
      PROVE  Len(games) = Games
  <2>1. CASE Stopping
    <3>1. ~(Len(journal) < Games)
      BY <1>0, <1>6, <2>1, Zenon
    <3>2. Len(journal) = Games
      BY <1>2, <3>1, AllPlayed, Zenon
    <3> QED
      BY <1>0, <3>2
  <2>2. CASE Committed = Numbers
    BY <1>0, <1>3, <2>2
  <2> QED
    BY <1>1, <2>1, <2>2
<1> QED
  BY <1>4, <1>5, <1>6, Zenon

\* In every state of every behaviour the status of run_fixed_match is the one its
\* games and its stop give.
THEOREM StatusIsRightTheorem == Spec => []StatusIsRight
BY StatusInv, MatchCorrect, PTL

-----------------------------------------------------------------------------
(* The reports. *)

\* One list of games goes on where another ends.
Extends(longer, shorter) ==
    /\ Len(shorter) <= Len(longer)
    /\ \A i \in 1..Len(shorter) : longer[i] = shorter[i]

\* The newest report is of games that are still in the journal, and its status
\* is what those games say.
ReportInv ==
    /\ Extends(journal, published.games)
    /\ published.status = "infrastructure-error" => Infrastructure(published.games)
    /\ published.status = "invalid" => Exceeded(published.games)
    /\ published.status = "completed" =>
          /\ Len(published.games) = Games
          /\ ~Infrastructure(published.games) /\ ~Exceeded(published.games)

\* A match that ended has returned one way or another.
EndsForAReason == pc = "ended" => ending # "none"

LEMMA FaultsOfMore ==
    ASSUME NEW longer \in Seq(Game), NEW shorter \in Seq(Game), Extends(longer, shorter),
           NEW side, NEW kinds
    PROVE  /\ Cardinality(Faulted(shorter, side, kinds)) \in Nat
           /\ Cardinality(Faulted(longer, side, kinds)) \in Nat
           /\ Cardinality(Faulted(shorter, side, kinds)) <= Cardinality(Faulted(longer, side, kinds))
<1>1. /\ Len(shorter) \in Nat /\ DOMAIN shorter = 1..Len(shorter)
      /\ Len(longer) \in Nat /\ DOMAIN longer = 1..Len(longer)
  BY LenProperties
<1>2. Faulted(shorter, side, kinds) \subseteq Faulted(longer, side, kinds)
  BY <1>1 DEF Faulted, Extends
<1>3. Faulted(longer, side, kinds) \subseteq 1..Len(longer)
  BY <1>1 DEF Faulted
<1>4. IsFiniteSet(1..Len(longer))
  BY <1>1, FS_Interval
<1>5. IsFiniteSet(Faulted(longer, side, kinds))
  BY <1>3, <1>4, FS_Subset
<1>6. IsFiniteSet(Faulted(shorter, side, kinds))
      /\ Cardinality(Faulted(shorter, side, kinds)) <= Cardinality(Faulted(longer, side, kinds))
  BY <1>2, <1>5, FS_Subset
<1> QED
  BY <1>5, <1>6, FS_CardinalityType

\* More games make good neither a fault of the harness nor too many of the
\* engines.
LEMMA FaultsStay ==
    ASSUME NEW longer \in Seq(Game), NEW shorter \in Seq(Game), Extends(longer, shorter)
    PROVE  /\ Infrastructure(shorter) => Infrastructure(longer)
           /\ Exceeded(shorter) => Exceeded(longer)
<1>1. Infrastructure(shorter) => Infrastructure(longer)
  <2>1. /\ Len(shorter) \in Nat /\ DOMAIN shorter = 1..Len(shorter)
        /\ Len(longer) \in Nat /\ DOMAIN longer = 1..Len(longer)
    BY LenProperties
  <2> QED
    BY <2>1 DEF Infrastructure, Extends
<1>2. Exceeded(shorter) => Exceeded(longer)
  <2> DEFINE Count(list, side, kinds) == Cardinality(Faulted(list, side, kinds))
  <2>1. \A side, kinds : /\ Count(shorter, side, kinds) \in Nat
                         /\ Count(longer, side, kinds) \in Nat
                         /\ Count(shorter, side, kinds) <= Count(longer, side, kinds)
    BY FaultsOfMore
  <2>2. \A list : Exceeded(list) <=>
            \/ Count(list, "A", {"forfeit", "timeloss"}) + Count(list, "B", {"forfeit", "timeloss"})
                   > MaxEngineFaults
            \/ Count(list, "A", {"timeloss"}) + Count(list, "B", {"timeloss"}) > MaxTimeLosses
    BY DEF Exceeded, Score
  <2> HIDE DEF Count
  <2> DEFINE all == {"forfeit", "timeloss"}
             late == {"timeloss"}
  <2>3. /\ Count(shorter, "A", all) \in Nat /\ Count(longer, "A", all) \in Nat
        /\ Count(shorter, "B", all) \in Nat /\ Count(longer, "B", all) \in Nat
        /\ Count(shorter, "A", late) \in Nat /\ Count(longer, "A", late) \in Nat
        /\ Count(shorter, "B", late) \in Nat /\ Count(longer, "B", late) \in Nat
        /\ Count(shorter, "A", all) <= Count(longer, "A", all)
        /\ Count(shorter, "B", all) <= Count(longer, "B", all)
        /\ Count(shorter, "A", late) <= Count(longer, "A", late)
        /\ Count(shorter, "B", late) <= Count(longer, "B", late)
    BY <2>1
  <2> QED
    BY <2>2, <2>3, PolicyAssumption, SMTT(30)
<1> QED
  BY <1>1, <1>2

LEMMA ExtendsItself == ASSUME NEW list \in Seq(Game) PROVE Extends(list, list)
<1>1. Len(list) \in Nat
  BY LenProperties
<1> QED
  BY <1>1 DEF Extends

LEMMA ReportInit == Init => ReportInv /\ EndsForAReason
BY DEF Init, ReportInv, Extends, EndsForAReason

\* Only the steps that end the loop reach "ended", and each names its reason.
LEMMA ReasonNext == ASSUME EndsForAReason, [Next]_vars PROVE EndsForAReason'
BY DEF EndsForAReason, Next, LoopNext, WorkerNext, Launch, Join, EndLoop, Abandon, JoinFails, Ends,
       TakeEngines, EndGame, Interrupt, GraceExpires, Exit, Crash, Down, Resume, vars

\* The report of a match that ended is of the whole journal.
LEMMA ReportOfJournal ==
    ASSUME MatchInv, Exit, ending # "failed"
    PROVE  /\ published' = [status |-> MatchStatus, games |-> journal]
           /\ games = journal /\ journal' = journal /\ journal \in Seq(Game)
           /\ StatusIsRight
<1>1. games = journal /\ journal \in Seq(Game)
  BY DEF Exit, MatchInv, GamesAgree, TypeOK
<1> QED
  BY <1>1, StatusInv DEF Exit

LEMMA ReportNext ==
    ASSUME MatchInv, ReportInv, EndsForAReason, [Next]_vars
    PROVE  ReportInv'
<1>1. journal \in Seq(Game) /\ published.games \in Seq(Game)
  BY DEF MatchInv, TypeOK
<1>2. Len(journal) \in Nat /\ Len(published.games) \in Nat
  BY <1>1, LenProperties
<1>3. CASE Exit /\ ending # "failed"
  <2>1. /\ published' = [status |-> MatchStatus, games |-> journal] /\ journal' = journal
        /\ games = journal /\ StatusIsRight
    BY <1>3, ReportOfJournal
  <2>2. Extends(journal', published'.games)
    BY <1>1, <2>1, ExtendsItself
  <2>3. ending \in {"played out", "abandoned"} \/ MatchStatus # "completed"
    BY <1>3 DEF MatchInv, TypeOK, Exit, EndsForAReason
  <2> QED
    BY <2>1, <2>2, <2>3 DEF ReportInv, MatchStatus, StatusIsRight
<1>4. CASE Join
  <2>1. published' = published
    BY <1>4 DEF Join
  <2>2. PICK worker \in workers : journal' = Append(journal, MatchGame(worker.number, worker.truth))
    BY <1>4 DEF Join
  <2>5. worker.number \in Numbers /\ worker.truth \in Truth
    BY DEF MatchInv, TypeOK
  <2> DEFINE game == MatchGame(worker.number, worker.truth)
  <2>6. game \in Game
    BY <2>5, GameIsTyped
  <2>7. journal' = Append(journal, game)
    BY <2>2
  <2> HIDE DEF game
  <2>3. /\ Len(journal') = Len(journal) + 1
        /\ \A i \in 1..Len(journal) : journal'[i] = journal[i]
    BY <1>1, <2>6, <2>7, AppendProperties
  <2>4. Extends(journal', published.games)
    BY <1>2, <2>3 DEF ReportInv, Extends
  <2> QED
    BY <2>1, <2>4 DEF ReportInv
<1>5. CASE Crash
  <2>1. published' = published
    BY <1>5 DEF Crash
  <2>2. PICK kept \in Len(published.games)..Len(journal) : journal' = SubSeq(journal, 1, kept)
    BY <1>5 DEF Crash
  <2>3. Len(journal') = kept /\ \A i \in 1..kept : journal'[i] = journal[i]
    BY <1>1, <1>2, <2>2, SubSeqProperties
  <2>4. Extends(journal', published.games)
    BY <1>2, <2>3 DEF ReportInv, Extends
  <2> QED
    BY <2>1, <2>4 DEF ReportInv
<1>6. ASSUME UNCHANGED <<journal, published>>
      PROVE  ReportInv'
  BY <1>6 DEF ReportInv, Extends, Exceeded, Infrastructure, Score, Faulted, Won, Drawn, Named
<1> QED
  BY <1>3, <1>4, <1>5, <1>6
     DEF Next, LoopNext, WorkerNext, Launch, EndLoop, Abandon, JoinFails, TakeEngines, EndGame,
         Interrupt, GraceExpires, Exit, Resume, vars, directory

\* A report of every game is followed by the same report.
LEMMA CompleteStays ==
    ASSUME MatchInv, ReportInv, Exit, ending # "failed", published.status = "completed"
    PROVE  published' = published
<1>1. /\ published' = [status |-> MatchStatus, games |-> journal]
      /\ games = journal /\ journal \in Seq(Game)
  BY ReportOfJournal
<1>2. published \in [status : Status \cup {"none"}, games : Seq(Game)]
  BY DEF MatchInv, TypeOK
<1>3. Len(journal) = Len(published.games)
  <2>1. Len(journal) \in 0..Games
    BY JournalLength
  <2> QED
    BY <2>1, SizeAssumption DEF ReportInv, Extends
<1>4. journal = published.games
  <2>1. published.games \in Seq(Game)
    BY <1>2
  <2> QED
    BY <1>1, <1>3, <2>1, SeqEqual DEF ReportInv, Extends
<1>5. MatchStatus = "completed"
  <2>1. Len(games) = Games /\ Games \in Nat /\ ~Infrastructure(games) /\ ~Exceeded(games)
    BY <1>1, <1>4, SizeAssumption DEF ReportInv
  <2> QED
    BY <2>1 DEF MatchStatus
<1> QED
  BY <1>1, <1>2, <1>4, <1>5

\* The reports of run_match, one after the other: each is right, and stands.
THEOREM VerdictStandsTheorem == Spec => VerdictStands
<1>1. MatchInv /\ ReportInv /\ EndsForAReason /\ [Next]_vars => ReportInv' /\ EndsForAReason'
  BY ReportNext, ReasonNext
<1>2. ASSUME MatchInv, ReportInv, [Next]_vars
      PROVE  /\ published' # published => StatusIsRight
             /\ published.status = "completed" => published' = published
             /\ published.status = "invalid" =>
                    published'.status \in {"invalid", "infrastructure-error"}
             /\ published.status = "infrastructure-error" =>
                    published'.status = "infrastructure-error"
  <2>1. CASE Exit /\ ending # "failed"
    <3>1. /\ published' = [status |-> MatchStatus, games |-> journal]
          /\ games = journal /\ journal \in Seq(Game) /\ StatusIsRight
      BY <1>2, <2>1, ReportOfJournal
    <3>2. published.games \in Seq(Game)
      BY <1>2 DEF MatchInv, TypeOK
    <3>3. /\ Infrastructure(published.games) => Infrastructure(games)
          /\ Exceeded(published.games) => Exceeded(games)
      BY <1>2, <3>1, <3>2, FaultsStay DEF ReportInv
    <3>4. published.status = "completed" => published' = published
      BY <1>2, <2>1, CompleteStays
    <3> QED
      BY <1>2, <3>1, <3>3, <3>4 DEF ReportInv, MatchStatus
  <2>2. CASE ~(Exit /\ ending # "failed")
    <3>1. published' = published
      BY <1>2, <2>2
         DEF Next, LoopNext, WorkerNext, Launch, Join, EndLoop, Abandon, JoinFails, TakeEngines,
             EndGame, Interrupt, GraceExpires, Exit, Crash, Resume, vars, directory
    <3> QED
      BY <3>1
  <2> QED
    BY <2>1, <2>2
<1> QED
  BY <1>1, <1>2, MatchCorrect, ReportInit, PTL DEF Spec, VerdictStands

-----------------------------------------------------------------------------
(* Credit and blame.  A report names colours, the score is kept for engines.   *)
(* Both conversions go through the number of the game, so the colour a report  *)
(* names leads back to the engine it was about.                                *)

\* Every game of a list is the report of what happened in it.
Reported(list) ==
    \A i \in 1..Len(list) :
        list[i].truth \in Truth /\ list[i] = MatchGame(list[i].number, list[i].truth)

ReportedInv == Reported(journal) /\ Reported(games)

LEMMA ReportedAppend ==
    ASSUME NEW list \in Seq(Game), Reported(list), NEW number \in Numbers, NEW truth \in Truth
    PROVE  Reported(Append(list, MatchGame(number, truth)))
<1> DEFINE game == MatchGame(number, truth)
           longer == Append(list, game)
<1>1. game \in Game
  BY GameIsTyped
<1>2. game.truth = truth /\ game = MatchGame(game.number, game.truth)
  BY DEF MatchGame
<1> HIDE DEF game
<1>3. /\ Len(list) \in Nat /\ Len(longer) = Len(list) + 1
      /\ \A i \in 1..Len(list) : longer[i] = list[i]
      /\ longer[Len(list) + 1] = game
  BY <1>1, AppendProperties, LenProperties
<1> HIDE DEF longer
<1>4. ASSUME NEW i \in 1..Len(longer)
      PROVE  longer[i].truth \in Truth /\ longer[i] = MatchGame(longer[i].number, longer[i].truth)
  <2>1. CASE i = Len(list) + 1
    BY <1>2, <1>3, <2>1
  <2>2. CASE i # Len(list) + 1
    <3>1. i \in 1..Len(list)
      BY <1>3, <2>2
    <3> QED
      BY <1>3, <3>1 DEF Reported
  <2> QED
    BY <2>1, <2>2
<1>5. Reported(longer)
  BY <1>4 DEF Reported
<1> QED
  BY <1>5 DEF longer, game

LEMMA ReportedPrefix ==
    ASSUME NEW list \in Seq(Game), Reported(list), NEW n \in 0..Len(list)
    PROVE  Reported(SubSeq(list, 1, n))
<1> DEFINE cut == SubSeq(list, 1, n)
<1>1. /\ Len(list) \in Nat /\ Len(cut) = n
      /\ \A i \in 1..n : cut[i] = list[i] /\ i \in 1..Len(list)
  BY SubSeqProperties, LenProperties
<1> HIDE DEF cut
<1>2. Reported(cut)
  BY <1>1 DEF Reported
<1> QED
  BY <1>2 DEF cut

LEMMA ReportedInit == Init => ReportedInv
<1> SUFFICES ASSUME Init PROVE ReportedInv
  OBVIOUS
<1>1. journal = << >> /\ games = << >> /\ Len(<< >>) = 0
  BY DEF Init
<1> QED
  BY <1>1 DEF ReportedInv, Reported

LEMMA ReportedNext ==
    ASSUME MatchInv, ReportedInv, [Next]_vars
    PROVE  ReportedInv'
<1>1. journal \in Seq(Game) /\ games \in Seq(Game)
  BY DEF MatchInv, TypeOK
<1>2. Reported(<< >>)
  BY DEF Reported
<1>3. CASE Join
  <2>1. PICK worker \in workers :
            /\ journal' = Append(journal, MatchGame(worker.number, worker.truth))
            /\ games' = Append(games, MatchGame(worker.number, worker.truth))
    BY <1>3 DEF Join
  <2>2. worker.number \in Numbers /\ worker.truth \in Truth
    BY DEF MatchInv, TypeOK
  <2>3. PICK one : one = Append(journal, MatchGame(worker.number, worker.truth))
    OBVIOUS
  <2>4. PICK other : other = Append(games, MatchGame(worker.number, worker.truth))
    OBVIOUS
  <2>5. Reported(one) /\ Reported(other)
    BY <1>1, <2>2, <2>3, <2>4, ReportedAppend DEF ReportedInv
  <2> QED
    BY <2>1, <2>3, <2>4, <2>5 DEF ReportedInv, Reported
<1>4. CASE Crash
  <2>1. PICK kept \in Len(published.games)..Len(journal) : journal' = SubSeq(journal, 1, kept)
    BY <1>4 DEF Crash
  <2>2. Len(published.games) \in Nat /\ Len(journal) \in Nat
    BY <1>1, LenProperties DEF MatchInv, TypeOK
  <2>3. kept \in 0..Len(journal)
    BY <2>2
  <2>4. PICK cut : cut = SubSeq(journal, 1, kept)
    OBVIOUS
  <2>5. Reported(cut)
    BY <1>1, <2>3, <2>4, ReportedPrefix DEF ReportedInv
  <2>6. games' = << >>
    BY <1>4 DEF Crash, Down
  <2> QED
    BY <1>2, <2>1, <2>4, <2>5, <2>6 DEF ReportedInv, Reported
<1>5. CASE Exit \/ Resume
  <2>1. journal' = journal /\ (games' = << >> \/ games' = journal)
    BY <1>5 DEF Exit, Down, Resume, Loaded, directory
  <2> QED
    BY <1>2, <2>1 DEF ReportedInv, Reported
<1>6. ASSUME UNCHANGED <<journal, games>>
      PROVE  ReportedInv'
  BY <1>6 DEF ReportedInv, Reported
<1> QED
  BY <1>3, <1>4, <1>5, <1>6
     DEF Next, LoopNext, WorkerNext, Launch, EndLoop, Abandon, JoinFails, TakeEngines, EndGame,
         Interrupt, GraceExpires, vars, directory

\* The colour of a side leads back to the side.
LEMMA ColourIsNamed ==
    ASSUME NEW number \in Numbers, NEW truth \in Truth, NEW side \in Side
    PROVE  Named(MatchGame(number, truth), ColorOf(number, side)) = side
BY DEF Named, MatchGame, ColorOf, White, Other, Side

\* What a report says of a side, it says of what the side did.
LEMMA ReportIsRight ==
    ASSUME NEW number \in Numbers, NEW truth \in Truth, NEW side \in Side,
           NEW game, game = MatchGame(number, truth)
    PROVE  /\ (game.scorable /\ game.winner # "none" /\ Named(game, game.winner) = side) <=>
                  \/ truth.kind = "win" /\ truth.by = side
                  \/ truth.kind \in {"forfeit", "timeloss"} /\ truth.by = Other(side)
           /\ \A kinds \in SUBSET {"forfeit", "timeloss"} :
                  (game.fault.kind \in kinds /\ Named(game, game.fault.side) = side) <=>
                      truth.kind \in kinds /\ truth.by = side
<1>1. truth.by \in Side /\ truth.kind \in {"win", "forfeit", "timeloss", "draw", "unplayed"}
  BY DEF Truth, Side
<1>2. /\ Other(truth.by) \in Side /\ Other(side) \in Side
      /\ Other(truth.by) = side <=> truth.by = Other(side)
  BY <1>1 DEF Other, Side
<1>3. /\ Named(game, ColorOf(number, truth.by)) = truth.by
      /\ Named(game, ColorOf(number, Other(truth.by))) = Other(truth.by)
  BY <1>1, <1>2, ColourIsNamed
<1>4. \A s \in Side : ColorOf(number, s) # "none"
  BY DEF ColorOf
<1>5. /\ game.scorable <=> truth.kind # "unplayed"
      /\ truth.kind = "win" => game.winner = ColorOf(number, truth.by)
      /\ truth.kind \in {"forfeit", "timeloss"} => game.winner = ColorOf(number, Other(truth.by))
      /\ truth.kind \in {"draw", "unplayed"} => game.winner = "none"
      /\ game.fault.side = ColorOf(number, truth.by)
      /\ truth.kind \in {"forfeit", "timeloss"} => game.fault.kind = truth.kind
      /\ truth.kind \notin {"forfeit", "timeloss"} => game.fault.kind \notin {"forfeit", "timeloss"}
  BY <1>1 DEF MatchGame
<1>6. (game.scorable /\ game.winner # "none" /\ Named(game, game.winner) = side) <=>
          \/ truth.kind = "win" /\ truth.by = side
          \/ truth.kind \in {"forfeit", "timeloss"} /\ truth.by = Other(side)
  <2>1. CASE truth.kind = "win"
    BY <1>1, <1>3, <1>4, <1>5, <2>1
  <2>2. CASE truth.kind \in {"forfeit", "timeloss"}
    BY <1>2, <1>3, <1>4, <1>5, <2>2
  <2>3. CASE truth.kind \in {"draw", "unplayed"}
    BY <1>5, <2>3
  <2> QED
    BY <1>1, <2>1, <2>2, <2>3
<1>7. ASSUME NEW kinds \in SUBSET {"forfeit", "timeloss"}
      PROVE  (game.fault.kind \in kinds /\ Named(game, game.fault.side) = side) <=>
                 truth.kind \in kinds /\ truth.by = side
  BY <1>1, <1>3, <1>5
<1> QED
  BY <1>6, <1>7

\* Each engine is credited with its own wins and its opponent's forfeits, and
\* charged with its own, over any sequence of games, colours and resumes.
THEOREM CreditIsRightTheorem == Spec => []CreditIsRight
<1>1. ASSUME MatchInv, ReportedInv PROVE CreditIsRight
  <2> DEFINE Of(side, kinds) ==
                 {i \in DOMAIN games : games[i].truth.kind \in kinds /\ games[i].truth.by = side}
  <2>1. games \in Seq(Game) /\ Len(games) \in Nat /\ DOMAIN games = 1..Len(games)
    BY <1>1, LenProperties DEF MatchInv, TypeOK
  <2>2. \A i \in DOMAIN games : /\ games[i].number \in Numbers /\ games[i].truth \in Truth
                                /\ games[i] = MatchGame(games[i].number, games[i].truth)
    <3>1. \A i \in DOMAIN games : games[i] \in Game
      BY <2>1, ElementOfSeq
    <3>2. \A game \in Game : game.number \in Numbers
      BY DEF Game
    <3> QED
      BY <1>1, <2>1, <3>1, <3>2 DEF ReportedInv, Reported
  <2>3. \A i \in DOMAIN games, side \in Side :
            (games[i].scorable /\ games[i].winner # "none" /\ Named(games[i], games[i].winner) = side) <=>
                \/ games[i].truth.kind = "win" /\ games[i].truth.by = side
                \/ games[i].truth.kind \in {"forfeit", "timeloss"} /\ games[i].truth.by = Other(side)
    BY <2>2, ReportIsRight
  <2>4. \A i \in DOMAIN games, side \in Side, kinds \in SUBSET {"forfeit", "timeloss"} :
            (games[i].fault.kind \in kinds /\ Named(games[i], games[i].fault.side) = side) <=>
                games[i].truth.kind \in kinds /\ games[i].truth.by = side
    BY <2>2, ReportIsRight
  <2>5. \A side, kinds : IsFiniteSet(Of(side, kinds)) /\ Cardinality(Of(side, kinds)) \in Nat
    <3>1. IsFiniteSet(DOMAIN games)
      BY <2>1, FS_Interval
    <3>2. \A side, kinds : Of(side, kinds) \subseteq DOMAIN games
      OBVIOUS
    <3> HIDE DEF Of
    <3> QED
      BY <3>1, <3>2, FS_Subset, FS_CardinalityType
  <2>6. ASSUME NEW side \in Side
        PROVE  /\ Score(games, side).wins =
                      Cardinality(Of(side, {"win"})) + Cardinality(Of(Other(side), {"forfeit", "timeloss"}))
               /\ Score(games, side).faults = Cardinality(Of(side, {"forfeit", "timeloss"}))
               /\ Score(games, side).timeLosses = Cardinality(Of(side, {"timeloss"}))
    <3>1. Won(games, side) = Of(side, {"win"}) \cup Of(Other(side), {"forfeit", "timeloss"})
      BY <2>3 DEF Won
    <3>2. Of(side, {"win"}) \cap Of(Other(side), {"forfeit", "timeloss"}) = {}
      OBVIOUS
    <3>3. /\ Faulted(games, side, {"forfeit", "timeloss"}) = Of(side, {"forfeit", "timeloss"})
          /\ Faulted(games, side, {"timeloss"}) = Of(side, {"timeloss"})
      BY <2>4 DEF Faulted
    <3> HIDE DEF Of
    <3>4. Cardinality(Of(side, {"win"}) \cup Of(Other(side), {"forfeit", "timeloss"})) =
              Cardinality(Of(side, {"win"})) + Cardinality(Of(Other(side), {"forfeit", "timeloss"}))
      BY <2>5, <3>2, FS_Union, FS_EmptySet
    <3> QED
      BY <3>1, <3>3, <3>4 DEF Score
  <2> QED
    BY <2>6 DEF CreditIsRight
<1> QED
  BY <1>1, MatchCorrect, ReportedInit, ReportedNext, PTL DEF Spec

=============================================================================
