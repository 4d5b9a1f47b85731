------------------------------ MODULE TuneProofs ------------------------------
(***************************************************************************)
(* What a tune keeps for every number of iterations, of pairs in one and   *)
(* of CPU slots, in whatever order its games end and whatever its centres  *)
(* are: a mini-match is scored as a whole, an invalid tune stays so, and,  *)
(* unless a crash cuts inside an iteration, the journal gives the next     *)
(* invocation the centres of this one.                                     *)
(***************************************************************************)
EXTENDS Tune, SequenceTheorems, FiniteSetTheorems, WellFoundedInduction, TLAPS

LastPair == FirstPair(Iteration) + PairsPerIteration - 1
Pair == [first : Game, second : Game]

\* The White game of a pair and the one with colours reversed, in that order.
Proper(pair) ==
    pair \in Pair /\ \E id \in Nat : pair.first.number = 2 * id - 1 /\ pair.second.number = 2 * id

TuneTypeOK ==
    /\ journal \in Seq(Line) /\ settled \in 0..Len(journal)
    /\ pc \in {"down", "loop", "mini", "ended"}
    /\ \E S : scores \in Seq(S)
    /\ Len(scores) \in 0..Iterations
    /\ nextGame \in Nat /\ nextPair \in Nat
    /\ workers \subseteq [number : Numbers, slot : Slots] /\ IsFiniteSet(workers)
    /\ held \in [Slots -> BOOLEAN]
    /\ halves \subseteq Game
    /\ pending \subseteq Pair /\ pairs \in Seq(Pair)
    /\ pc \in {"down", "loop", "ended"} => workers = {}
    /\ pc = "down" => held = [s \in Slots |-> FALSE]

\* Games of one slot each.
SlotsApart ==
    /\ \A v, w \in workers : v.slot = w.slot => v = w
    /\ \A s \in Slots : held[s] <=> \E w \in workers : w.slot = s

\* A game that was launched is live, waits for its other half, waits with it for
\* an earlier pair, or is in a pair that was released; and in one of these only.
Assembled ==
    /\ Iteration < Iterations
    /\ nextGame \in FirstGame(Iteration)..(LastGame + 1)
    /\ \A w \in workers : w.number \in FirstGame(Iteration)..(nextGame - 1)
    /\ \A v, w \in workers : v.number = w.number => v = w
    /\ \A g \in halves : g.number \in FirstGame(Iteration)..(nextGame - 1)
    /\ \A g, h \in halves : PairOf(g.number) = PairOf(h.number) => g = h
    /\ \A w \in workers, g \in halves : w.number # g.number
    /\ \A p \in pending : Proper(p) /\ p.second.number < nextGame /\ IdOf(p) > nextPair
    /\ \A p, q \in pending : IdOf(p) = IdOf(q) => p = q
    /\ \A w \in workers, p \in pending : PairOf(w.number) # IdOf(p)
    /\ \A g \in halves, p \in pending : PairOf(g.number) # IdOf(p)
    /\ \A w \in workers : PairOf(w.number) >= nextPair
    /\ \A g \in halves : PairOf(g.number) >= nextPair
    /\ nextPair \in FirstPair(Iteration)..(LastPair + 1)
    /\ 2 * (nextPair - 1) < nextGame
    /\ Len(pairs) = nextPair - FirstPair(Iteration)
    /\ \A i \in 1..Len(pairs) : Proper(pairs[i]) /\ IdOf(pairs[i]) = FirstPair(Iteration) + i - 1
    /\ \A n \in FirstGame(Iteration)..(nextGame - 1) :
          \/ \E w \in workers : w.number = n
          \/ \E g \in halves : g.number = n
          \/ \E p \in pending : IdOf(p) = PairOf(n)
          \/ PairOf(n) < nextPair

TuneInv == TuneTypeOK /\ (pc = "mini" => Assembled /\ SlotsApart)

\* Once a line of an invalid iteration is in the journal, the tune is over: in
\* this invocation, and in the next one, which refuses the directory.
VoidInv ==
    /\ ending = "invalid" => pc = "ended"
    /\ ending = "invalid" => \E i \in 1..Len(journal) : journal[i].class = "invalid"
    /\ (\E i \in 1..Len(journal) : journal[i].class = "invalid") =>
           pc = "down" \/ (pc = "ended" /\ ending = "invalid")
    /\ published.status = "invalid" =>
           /\ pc = "down"
           /\ \E i \in 1..settled : journal[i].class = "invalid"

-----------------------------------------------------------------------------
(* Numbers. *)

AllPairs == Iterations * PairsPerIteration

LEMMA PairOfNumber ==
    ASSUME NEW n \in Nat
    PROVE  PairOf(n) \in Nat /\ (n = 2 * PairOf(n) - 1 \/ n = 2 * PairOf(n))
BY DEF PairOf

\* Where an iteration's pairs and games lie in the schedule.
LEMMA Bounds ==
    ASSUME Iteration \in Nat, Iteration < Iterations
    PROVE  /\ AllPairs \in Nat /\ Numbers = 1..(2 * AllPairs)
           /\ FirstPair(Iteration) \in Nat /\ LastPair \in Nat
           /\ 1 <= FirstPair(Iteration) /\ FirstPair(Iteration) <= LastPair
           /\ LastPair <= AllPairs
           /\ LastPair = FirstPair(Iteration) + PairsPerIteration - 1
           /\ FirstGame(Iteration) = 2 * FirstPair(Iteration) - 1
           /\ LastGame = 2 * LastPair
<1> DEFINE done == Iteration * PairsPerIteration
<1>1. PairsPerIteration \in Nat \ {0} /\ Iterations \in Nat \ {0}
  BY SizeAssumption
<1>2. AllPairs \in Nat /\ done \in Nat
  BY <1>1 DEF AllPairs
<1>3. (Iteration + 1) * PairsPerIteration <= AllPairs
  BY <1>1 DEF AllPairs
<1>4. (Iteration + 1) * PairsPerIteration = done + PairsPerIteration
  BY <1>1
<1>5. Iterations * GamesPerIteration = 2 * AllPairs /\ Iteration * GamesPerIteration = 2 * done
  BY <1>1 DEF AllPairs, GamesPerIteration
<1>6. GamesPerIteration = 2 * PairsPerIteration
  BY DEF GamesPerIteration
<1>7. FirstPair(Iteration) = done + 1 /\ FirstGame(Iteration) = 2 * done + 1
  BY <1>5 DEF FirstPair, FirstGame
<1>8. LastGame = FirstGame(Iteration) + GamesPerIteration - 1
      /\ LastPair = FirstPair(Iteration) + PairsPerIteration - 1 /\ Numbers = 1..(2 * AllPairs)
  BY <1>5 DEF LastGame, LastPair, Numbers
<1> HIDE DEF done
<1> QED
  BY <1>1, <1>2, <1>3, <1>4, <1>6, <1>7, <1>8

\* Arithmetic that the steps of a mini-match need in passing.
LEMMA Within ==
    ASSUME NEW a \in Nat, NEW b \in Nat, NEW k \in Nat, a <= k, ~(k >= b)
    PROVE  k \in a..(b - 1)
OBVIOUS

LEMMA Either ==
    ASSUME NEW a \in Nat, NEW b \in Nat, NEW k \in 1..b
    PROVE  k \in 1..a \/ k \in (a + 1)..b
OBVIOUS

LEMMA Cancelled ==
    ASSUME NEW a \in Nat, NEW b \in Nat, NEW k \in Int, NEW n \in Nat, n = a - b
    PROVE  a + k - n - 1 = b + k - 1
OBVIOUS

LEMMA NumbersArePositive == Numbers \subseteq Nat /\ \A n \in Numbers : n >= 1
<1>1. Iterations * GamesPerIteration \in Nat
  BY SizeAssumption DEF GamesPerIteration
<1> QED
  BY <1>1 DEF Numbers

LEMMA ProperNumbers ==
    ASSUME NEW pair, Proper(pair)
    PROVE  /\ pair \in Pair /\ IdOf(pair) \in Nat /\ IdOf(pair) >= 1
           /\ pair.first.number = 2 * IdOf(pair) - 1 /\ pair.second.number = 2 * IdOf(pair)
<1>1. PICK id \in Nat : pair.first.number = 2 * id - 1 /\ pair.second.number = 2 * id
  BY DEF Proper
<1>2. pair \in Pair /\ pair.first.number \in Nat /\ pair.first.number >= 1
  BY NumbersArePositive DEF Proper, Pair, Game
<1>3. IdOf(pair) = id
  <2> DEFINE n == pair.first.number
  <2>1. n \in Nat /\ n = 2 * id - 1 /\ IdOf(pair) = PairOf(n)
    BY <1>1, <1>2 DEF IdOf
  <2> HIDE DEF n
  <2>2. PairOf(n) \in Nat /\ (n = 2 * PairOf(n) - 1 \/ n = 2 * PairOf(n))
    BY <2>1, PairOfNumber
  <2> QED
    BY <2>1, <2>2
<1> QED
  BY <1>1, <1>2, <1>3

\* Two games of one pair make a proper one, whichever ended first.
LEMMA JoinedIsProper ==
    ASSUME NEW g \in Game, NEW h \in Game, PairOf(g.number) = PairOf(h.number),
           g.number # h.number
    PROVE  /\ Proper(Joined(g, h)) /\ IdOf(Joined(g, h)) = PairOf(g.number)
           /\ Joined(g, h).second.number \in {g.number, h.number}
<1>1. g.number \in Nat /\ h.number \in Nat
  BY NumbersArePositive DEF Game
<1>2. CASE g.number < h.number
  <2>1. Joined(g, h) = [first |-> g, second |-> h]
    BY <1>2 DEF Joined
  <2>2. g.number = 2 * PairOf(g.number) - 1 /\ h.number = 2 * PairOf(g.number)
        /\ PairOf(g.number) \in Nat
    BY <1>1, <1>2, PairOfNumber
  <2>3. Joined(g, h) \in Pair /\ Joined(g, h).first = g /\ Joined(g, h).second = h
    BY <2>1 DEF Pair
  <2>4. Proper(Joined(g, h))
    BY <2>2, <2>3 DEF Proper
  <2>5. IdOf(Joined(g, h)) = PairOf(g.number)
    BY <2>3 DEF IdOf
  <2> QED
    BY <2>3, <2>4, <2>5
<1>3. CASE h.number < g.number
  <2>1. Joined(g, h) = [first |-> h, second |-> g]
    BY <1>1, <1>3 DEF Joined
  <2>2. h.number = 2 * PairOf(g.number) - 1 /\ g.number = 2 * PairOf(g.number)
        /\ PairOf(g.number) \in Nat
    BY <1>1, <1>3, PairOfNumber
  <2>3. Joined(g, h) \in Pair /\ Joined(g, h).first = h /\ Joined(g, h).second = g
    BY <2>1 DEF Pair
  <2>4. Proper(Joined(g, h))
    BY <2>2, <2>3 DEF Proper
  <2>5. IdOf(Joined(g, h)) = PairOf(h.number)
    BY <2>3 DEF IdOf
  <2> QED
    BY <2>3, <2>4, <2>5
<1> QED
  BY <1>1, <1>2, <1>3

\* A set of numbers that is not empty has a least one.
LEMMA LeastExists ==
    ASSUME NEW S \in SUBSET Nat, S # {}
    PROVE  Least(S) \in S /\ \A n \in S : Least(S) <= n
<1>1. \E n \in S : \A m \in S : ~ (<<m, n>> \in OpToRel(<, Nat))
  BY NatLessThanWellFounded, WFMin
<1>2. \A m, n \in Nat : m < n => <<m, n>> \in OpToRel(<, Nat)
  <2> SUFFICES ASSUME NEW m \in Nat, NEW n \in Nat, m < n
               PROVE  <<m, n>> \in OpToRel(<, Nat)
    OBVIOUS
  <2> DEFINE two == <<m, n>>
  <2>1. two \in Nat \X Nat /\ two[1] < two[2]
    OBVIOUS
  <2> HIDE DEF two
  <2>2. two \in OpToRel(<, Nat)
    BY <2>1, Zenon DEF OpToRel
  <2> QED
    BY <2>2 DEF two
<1>3. PICK n \in S : \A m \in S : ~ (<<m, n>> \in OpToRel(<, Nat))
  BY <1>1
<1>4. \A m \in S : ~ (m < n)
  BY <1>2, <1>3
<1>5. \A m \in S : n <= m
  BY <1>4
<1> QED
  BY <1>5 DEF Least

-----------------------------------------------------------------------------
(* The pairs that are released. *)

\* PairCommitQueue::complete: every pair up to the first that is missing.
LEMMA ReleasedPairs ==
    ASSUME nextPair \in Nat, pairs \in Seq(Pair), AllPairs \in Nat,
           NEW waiting, NEW last \in Nat, nextPair <= last + 1, last <= AllPairs,
           \A p \in waiting : Proper(p) /\ nextPair <= IdOf(p) /\ IdOf(p) <= last,
           Released(waiting)
    PROVE  /\ nextPair' \in nextPair..(last + 1)
           /\ pending' = {p \in waiting : IdOf(p) > nextPair'}
           /\ \A p \in waiting : IdOf(p) # nextPair'
           /\ \A id \in nextPair..(nextPair' - 1) : \E p \in waiting : IdOf(p) = id
           /\ pairs' \in Seq(Pair) /\ Len(pairs') = Len(pairs) + nextPair' - nextPair
           /\ \A i \in 1..Len(pairs) : pairs'[i] = pairs[i]
           /\ \A i \in (Len(pairs) + 1)..Len(pairs') :
                 pairs'[i] \in waiting /\ IdOf(pairs'[i]) = nextPair + i - Len(pairs) - 1
<1> DEFINE missing == (nextPair..(AllPairs + 1)) \ {IdOf(p) : p \in waiting}
           next == Least(missing)
           released == [k \in 1..(next - nextPair) |->
                           CHOOSE p \in waiting : IdOf(p) = nextPair + k - 1]
<1>1. \A p \in waiting : p \in Pair /\ IdOf(p) \in Nat
  BY ProperNumbers
<1>2. missing \in SUBSET Nat /\ last + 1 \in missing
  BY <1>1
<1>3. next \in missing /\ next <= last + 1 /\ \A n \in missing : next <= n
  BY <1>2, LeastExists
<1>4. /\ pending' = {p \in waiting : IdOf(p) >= next} /\ nextPair' = next
      /\ pairs' = pairs \o released
  BY DEF Released, ReleasedUpTo, AllPairs
<1>5. next \in nextPair..(last + 1) /\ next \in Nat /\ \A p \in waiting : IdOf(p) # next
  <2> HIDE DEF next
  <2>1. next \in nextPair..(AllPairs + 1) /\ \A p \in waiting : IdOf(p) # next
    BY <1>3
  <2> QED
    BY <1>3, <2>1
<1>6. \A id \in nextPair..(next - 1) : \E p \in waiting : IdOf(p) = id
  <2> SUFFICES ASSUME NEW id \in nextPair..(next - 1), \A p \in waiting : IdOf(p) # id
               PROVE  FALSE
    OBVIOUS
  <2>1. id \in missing
    BY <1>5
  <2> QED
    BY <1>3, <1>5, <2>1
<1> HIDE DEF next, missing
<1>7. \A k \in 1..(next - nextPair) :
          released[k] \in waiting /\ IdOf(released[k]) = nextPair + k - 1
  <2> SUFFICES ASSUME NEW k \in 1..(next - nextPair)
               PROVE  released[k] \in waiting /\ IdOf(released[k]) = nextPair + k - 1
    OBVIOUS
  <2>1. nextPair + k - 1 \in nextPair..(next - 1)
    BY <1>5
  <2>2. \E p \in waiting : IdOf(p) = nextPair + k - 1
    BY <1>6, <2>1
  <2> QED
    BY <2>2
<1>8. released \in Seq(Pair) /\ Len(released) = next - nextPair
  <2>1. next - nextPair \in Nat
    BY <1>5
  <2>2. \A k \in 1..(next - nextPair) : released[k] \in Pair
    BY <1>1, <1>7
  <2> DEFINE n == next - nextPair
  <2>3. n \in Nat /\ released = [k \in 1..n |-> released[k]] /\ \A k \in 1..n : released[k] \in Pair
    BY <2>1, <2>2
  <2> HIDE DEF released, n
  <2>4. released \in [1..n -> Pair]
    BY <2>3
  <2>5. released \in Seq(Pair) /\ Len(released) = n
    BY <2>3, <2>4, SeqDef, LenProperties
  <2> QED
    BY <2>5 DEF n
<1> HIDE DEF released
<1>9. pending' = {p \in waiting : IdOf(p) > nextPair'}
  BY <1>1, <1>4, <1>5
<1>10. Len(pairs) \in Nat
  BY LenProperties
<1>11. /\ pairs' \in Seq(Pair) /\ Len(pairs') = Len(pairs) + (next - nextPair)
       /\ \A i \in 1..Len(pairs) : pairs'[i] = pairs[i]
       /\ \A i \in (Len(pairs) + 1)..Len(pairs') : pairs'[i] = released[i - Len(pairs)]
  <2> DEFINE extra == next - nextPair
  <2>1. extra \in Nat /\ Len(released) = extra
    BY <1>5, <1>8
  <2> HIDE DEF extra
  <2>2. /\ pairs' \in Seq(Pair) /\ Len(pairs') = Len(pairs) + extra
        /\ \A i \in 1..(Len(pairs) + extra) :
              pairs'[i] = IF i <= Len(pairs) THEN pairs[i] ELSE released[i - Len(pairs)]
    BY <1>4, <1>8, <2>1, ConcatProperties
  <2>3. \A i \in 1..Len(pairs) : i \in 1..(Len(pairs) + extra) /\ i <= Len(pairs)
    BY <1>10, <2>1
  <2>4. \A i \in (Len(pairs) + 1)..Len(pairs') :
           i \in 1..(Len(pairs) + extra) /\ ~(i <= Len(pairs))
    BY <1>10, <2>1, <2>2
  <2> QED
    BY <2>2, <2>3, <2>4 DEF extra
<1>12. \A i \in (Len(pairs) + 1)..Len(pairs') :
          pairs'[i] \in waiting /\ IdOf(pairs'[i]) = nextPair + i - Len(pairs) - 1
  <2> SUFFICES ASSUME NEW i \in (Len(pairs) + 1)..Len(pairs')
               PROVE  pairs'[i] \in waiting /\ IdOf(pairs'[i]) = nextPair + i - Len(pairs) - 1
    OBVIOUS
  <2>1. i - Len(pairs) \in 1..(next - nextPair)
    BY <1>5, <1>10, <1>11
  <2>2. pairs'[i] = released[i - Len(pairs)]
    BY <1>11
  <2> QED
    BY <1>5, <1>7, <1>10, <2>1, <2>2
<1> QED
  BY <1>4, <1>5, <1>6, <1>9, <1>10, <1>11, <1>12

-----------------------------------------------------------------------------
(* The games of a mini-match. *)

\* A slot is free whenever a game may be launched: `take` in play_mini_match
\* never finds every slot held.
LEMMA FreeSlot ==
    ASSUME TuneInv, pc = "mini", CanLaunch
    PROVE  Take \in Slots /\ ~held[Take]
<1> DEFINE Free == {s \in Slots : ~held[s]}
<1>1. Free # {}
  <2> SUFFICES ASSUME \A s \in Slots : held[s]
               PROVE  FALSE
    OBVIOUS
  <2> DEFINE slotOf == [w \in workers |-> w.slot]
  <2>1. slotOf \in Surjection(workers, Slots)
    <3>1. slotOf \in [workers -> Slots]
      BY DEF TuneInv, TuneTypeOK
    <3>2. \A s \in Slots : \E w \in workers : slotOf[w] = s
      BY DEF TuneInv, SlotsApart
    <3> QED
      BY <3>1, <3>2 DEF Surjection
  <2> HIDE DEF slotOf
  <2>2. Cardinality(Slots) <= Cardinality(workers)
    BY <2>1, FS_Surjection DEF TuneInv, TuneTypeOK
  <2>3. Cardinality(Slots) = Concurrency
    <3>1. Concurrency \in Int /\ 1 \in Int
      BY SizeAssumption
    <3> QED
      BY <3>1, FS_Interval, SizeAssumption DEF Slots
  <2>4. Cardinality(workers) \in Nat
    BY FS_CardinalityType DEF TuneInv, TuneTypeOK
  <2> QED
    BY <2>2, <2>3, <2>4, SizeAssumption DEF CanLaunch
<1>2. Free \in SUBSET Nat
  BY SizeAssumption DEF Slots
<1> HIDE DEF Free
<1>3. Least(Free) \in Free
  BY <1>1, <1>2, LeastExists
<1> QED
  BY <1>3 DEF Take, Free

LEMMA LaunchStep == ASSUME TuneInv, Launch PROVE TuneInv'
<1> DEFINE n == nextGame
           t == Take
           new == [number |-> n, slot |-> t]
<1>1. /\ pc = "mini" /\ pc' = "mini" /\ nextGame' = n + 1
      /\ workers' = workers \cup {new} /\ held' = [held EXCEPT ![t] = TRUE]
      /\ UNCHANGED <<directory, driver, assembly, stopping, stopAfter, sessions>>
  BY DEF Launch
<1>2. t \in Slots /\ ~held[t]
  BY <1>1, FreeSlot DEF Launch
<1> HIDE DEF t
<1>3. TuneTypeOK /\ Assembled /\ SlotsApart
  BY <1>1 DEF TuneInv
<1>4. /\ Iteration \in Nat /\ Iteration < Iterations
      /\ Iteration' = Iteration /\ LastPair' = LastPair /\ LastGame' = LastGame
      /\ FirstPair(Iteration') = FirstPair(Iteration) /\ FirstGame(Iteration') = FirstGame(Iteration)
  BY <1>1, <1>3 DEF Assembled, TuneTypeOK, Iteration, LastPair, LastGame, driver
<1>5. n \in Nat /\ n \in FirstGame(Iteration)..LastGame /\ n \in Numbers
      /\ LastGame \in Nat /\ FirstGame(Iteration) \in Nat
  <2>1. n \in Nat /\ n \in FirstGame(Iteration)..(LastGame + 1) /\ n <= LastGame
    BY <1>3 DEF Assembled, TuneTypeOK, Launch, CanLaunch
  <2>2. /\ AllPairs \in Nat /\ Numbers = 1..(2 * AllPairs)
        /\ FirstPair(Iteration) \in Nat /\ LastPair \in Nat /\ 1 <= FirstPair(Iteration)
        /\ LastPair <= AllPairs /\ FirstGame(Iteration) = 2 * FirstPair(Iteration) - 1
        /\ LastGame = 2 * LastPair
    BY <1>4, Bounds
  <2> HIDE DEF n
  <2> QED
    BY <2>1, <2>2
<1>6. TuneTypeOK'
  <2>1. new \in [number : Numbers, slot : Slots]
    BY <1>2, <1>5
  <2>2. IsFiniteSet(workers')
    BY <1>1, <1>3, FS_AddElement DEF TuneTypeOK
  <2> QED
    BY <1>1, <1>3, <1>5, <2>1, <2>2 DEF TuneTypeOK, directory, driver, assembly
<1>7. SlotsApart'
  <2>1. \A w \in workers : w.slot # t
    BY <1>2, <1>3 DEF SlotsApart
  <2>2. \A v, w \in workers' : v.slot = w.slot => v = w
    BY <1>1, <1>3, <2>1 DEF SlotsApart
  <2>3. \A s \in Slots : held'[s] = IF s = t THEN TRUE ELSE held[s]
    BY <1>1, <1>3 DEF TuneTypeOK
  <2>5. \A s \in Slots : (\E w \in workers' : w.slot = s) <=> s = t \/ (\E w \in workers : w.slot = s)
    <3>1. new.slot = t
      OBVIOUS
    <3> HIDE DEF new
    <3> QED
      BY <1>1, <3>1
  <2>6. \A s \in Slots : held[s] <=> \E w \in workers : w.slot = s
    BY <1>3 DEF SlotsApart
  <2>4. \A s \in Slots : held'[s] <=> \E w \in workers' : w.slot = s
    BY <2>3, <2>5, <2>6, Zenon
  <2> QED
    BY <2>2, <2>4 DEF SlotsApart
<1>8. Assembled'
  <2>1. \A w \in workers : w.number \in Nat /\ w.number < n
    BY <1>3, <1>5 DEF Assembled
  <2>2. \A g \in halves : g.number \in Nat /\ g.number < n
    BY <1>3, <1>5 DEF Assembled
  <2>3. \A p \in pending : IdOf(p) \in Nat /\ 2 * IdOf(p) < n
    BY <1>3, ProperNumbers DEF Assembled
  <2>4. PairOf(n) \in Nat /\ (n = 2 * PairOf(n) - 1 \/ n = 2 * PairOf(n))
    BY <1>5, PairOfNumber
  <2>5. \A p \in pending : PairOf(n) # IdOf(p)
    BY <1>5, <2>3, <2>4
  <2>6. PairOf(n) >= nextPair
    BY <1>3, <1>5, <2>4 DEF Assembled, TuneTypeOK
  <2>7. /\ halves' = halves /\ pending' = pending /\ pairs' = pairs /\ nextPair' = nextPair
    BY <1>1 DEF assembly
  <2>8. /\ nextGame' \in FirstGame(Iteration')..(LastGame' + 1)
        /\ \A w \in workers' : w.number \in FirstGame(Iteration')..(nextGame' - 1)
        /\ \A g \in halves' : g.number \in FirstGame(Iteration')..(nextGame' - 1)
    BY <1>1, <1>3, <1>4, <1>5, <2>7 DEF Assembled
  <2>9. \A v, w \in workers' : v.number = w.number => v = w
    BY <1>1, <1>3, <1>5, <2>1 DEF Assembled
  <2>10. \A w \in workers', g \in halves' : w.number # g.number
    BY <1>1, <1>3, <1>5, <2>2, <2>7 DEF Assembled
  <2>11. \A p \in pending' : Proper(p) /\ p.second.number < nextGame' /\ IdOf(p) > nextPair'
    <3> SUFFICES ASSUME NEW p \in pending
                 PROVE  Proper(p) /\ p.second.number < n + 1 /\ IdOf(p) > nextPair
      BY <1>1, <2>7
    <3>1. Proper(p) /\ p.second.number < n /\ IdOf(p) > nextPair
      BY <1>3 DEF Assembled
    <3>2. p.second.number = 2 * IdOf(p) /\ IdOf(p) \in Nat
      BY <3>1, ProperNumbers
    <3> QED
      BY <1>5, <3>1, <3>2
  <2>12. /\ \A w \in workers', p \in pending' : PairOf(w.number) # IdOf(p)
         /\ \A w \in workers' : PairOf(w.number) >= nextPair'
    BY <1>1, <1>3, <2>5, <2>6, <2>7 DEF Assembled
  <2>13. \A m \in FirstGame(Iteration')..(nextGame' - 1) :
            \/ \E w \in workers' : w.number = m
            \/ \E g \in halves' : g.number = m
            \/ \E p \in pending' : IdOf(p) = PairOf(m)
            \/ PairOf(m) < nextPair'
    <3> SUFFICES ASSUME NEW m \in FirstGame(Iteration)..n
                 PROVE  \/ \E w \in workers' : w.number = m
                        \/ \E g \in halves : g.number = m
                        \/ \E p \in pending : IdOf(p) = PairOf(m)
                        \/ PairOf(m) < nextPair
      BY <1>1, <1>4, <1>5, <2>7
    <3>1. CASE m = n
      <4>1. new \in workers' /\ new.number = n
        BY <1>1
      <4> QED
        BY <3>1, <4>1
    <3>2. CASE m # n
      <4>1. m \in FirstGame(Iteration)..(n - 1)
        BY <1>5, <3>2
      <4>2. \/ \E w \in workers : w.number = m
            \/ \E g \in halves : g.number = m
            \/ \E p \in pending : IdOf(p) = PairOf(m)
            \/ PairOf(m) < nextPair
        BY <1>3, <4>1 DEF Assembled
      <4> QED
        BY <1>1, <4>2, Zenon
    <3> QED
      BY <3>1, <3>2
  <2>14. 2 * (nextPair' - 1) < nextGame'
    BY <1>1, <1>3, <1>5, <2>7 DEF Assembled, TuneTypeOK
  <2> QED
    BY <1>3, <1>4, <2>7, <2>8, <2>9, <2>10, <2>11, <2>12, <2>13, <2>14 DEF Assembled
<1> QED
  BY <1>6, <1>7, <1>8 DEF TuneInv

\* The facts about a game that ends, whether its other half has or not.
LEMMA JoinFacts ==
    ASSUME TuneInv, pc = "mini", NEW w \in workers, NEW outcome \in Outcomes
    PROVE  /\ TuneTypeOK /\ Assembled /\ SlotsApart
           /\ [number |-> w.number, outcome |-> outcome] \in Game
           /\ w.number \in Nat /\ w.number \in FirstGame(Iteration)..(nextGame - 1)
           /\ PairOf(w.number) \in Nat /\ PairOf(w.number) >= nextPair
           /\ IsFiniteSet(workers \ {w})
           /\ \A v \in workers \ {w} : v.number # w.number
<1>1. TuneTypeOK /\ Assembled /\ SlotsApart
  BY DEF TuneInv
<1>2. w.number \in Numbers /\ w.number \in Nat
  BY <1>1, NumbersArePositive DEF TuneTypeOK
<1>3. PairOf(w.number) \in Nat
  BY <1>2, PairOfNumber
<1>4. IsFiniteSet(workers \ {w})
  BY <1>1, FS_RemoveElement DEF TuneTypeOK
<1> QED
  BY <1>1, <1>2, <1>3, <1>4 DEF Assembled, Game

\* A game frees its slot.
LEMMA SlotFreed ==
    ASSUME TuneTypeOK, SlotsApart, NEW w \in workers, workers' = workers \ {w},
           held' = [held EXCEPT ![w.slot] = FALSE]
    PROVE  SlotsApart' /\ held' \in [Slots -> BOOLEAN]
<1>1. w.slot \in Slots /\ held' \in [Slots -> BOOLEAN]
      /\ \A s \in Slots : held'[s] = IF s = w.slot THEN FALSE ELSE held[s]
  BY DEF TuneTypeOK
<1>2. \A v \in workers : v.slot = w.slot => v = w
  BY DEF SlotsApart
<1>3. \A s \in Slots : (\E v \in workers' : v.slot = s) <=> s # w.slot /\ (\E v \in workers : v.slot = s)
  BY <1>2
<1>4. \A s \in Slots : held[s] <=> \E v \in workers : v.slot = s
  BY DEF SlotsApart
<1>5. \A s \in Slots : held'[s] <=> \E v \in workers' : v.slot = s
  BY <1>1, <1>3, <1>4, Zenon
<1>6. \A u, v \in workers' : u.slot = v.slot => u = v
  BY DEF SlotsApart
<1> QED
  BY <1>1, <1>5, <1>6 DEF SlotsApart

\* The first half of a pair waits for the second.
LEMMA JoinHalf ==
    ASSUME TuneInv, pc = "mini", NEW w \in workers, NEW outcome \in Outcomes,
           \A g \in halves : PairOf(g.number) # PairOf(w.number),
           workers' = workers \ {w}, held' = [held EXCEPT ![w.slot] = FALSE],
           halves' = halves \cup {[number |-> w.number, outcome |-> outcome]},
           UNCHANGED <<directory, pc, driver, nextGame, pending, nextPair, pairs>>
    PROVE  TuneInv'
<1> DEFINE game == [number |-> w.number, outcome |-> outcome]
<1>1. /\ TuneTypeOK /\ Assembled /\ SlotsApart /\ game \in Game
      /\ w.number \in FirstGame(Iteration)..(nextGame - 1) /\ PairOf(w.number) >= nextPair
      /\ IsFiniteSet(workers \ {w}) /\ \A v \in workers \ {w} : v.number # w.number
  BY JoinFacts
<1>2. SlotsApart' /\ held' \in [Slots -> BOOLEAN]
  BY <1>1, SlotFreed
<1>3. /\ Iteration' = Iteration /\ LastPair' = LastPair /\ LastGame' = LastGame
      /\ FirstPair(Iteration') = FirstPair(Iteration) /\ FirstGame(Iteration') = FirstGame(Iteration)
  BY DEF Iteration, LastPair, LastGame, driver
<1>4. TuneTypeOK'
  BY <1>1, <1>2 DEF TuneTypeOK, directory, driver
<1>5. game.number = w.number /\ halves' = halves \cup {game}
  OBVIOUS
<1> HIDE DEF game
<1>6. Assembled'
  <2>1. /\ \A v \in workers' : v.number \in FirstGame(Iteration)..(nextGame - 1)
        /\ \A g \in halves' : g.number \in FirstGame(Iteration)..(nextGame - 1)
        /\ \A u, v \in workers' : u.number = v.number => u = v
    BY <1>1, <1>5 DEF Assembled
  <2>2. \A g, h \in halves' : PairOf(g.number) = PairOf(h.number) => g = h
    BY <1>1, <1>5 DEF Assembled
  <2>3. \A v \in workers', g \in halves' : v.number # g.number
    BY <1>1, <1>5 DEF Assembled
  <2>4. /\ \A v \in workers', p \in pending : PairOf(v.number) # IdOf(p)
        /\ \A g \in halves', p \in pending : PairOf(g.number) # IdOf(p)
        /\ \A v \in workers' : PairOf(v.number) >= nextPair
        /\ \A g \in halves' : PairOf(g.number) >= nextPair
    BY <1>1, <1>5 DEF Assembled
  <2>5. \A m \in FirstGame(Iteration)..(nextGame - 1) :
            \/ \E v \in workers' : v.number = m
            \/ \E g \in halves' : g.number = m
            \/ \E p \in pending : IdOf(p) = PairOf(m)
            \/ PairOf(m) < nextPair
    <3> SUFFICES ASSUME NEW m \in FirstGame(Iteration)..(nextGame - 1)
                 PROVE  \/ \E v \in workers' : v.number = m
                        \/ \E g \in halves' : g.number = m
                        \/ \E p \in pending : IdOf(p) = PairOf(m)
                        \/ PairOf(m) < nextPair
      OBVIOUS
    <3>1. \/ \E v \in workers : v.number = m
          \/ \E g \in halves : g.number = m
          \/ \E p \in pending : IdOf(p) = PairOf(m)
          \/ PairOf(m) < nextPair
      BY <1>1 DEF Assembled
    <3>2. \A v \in workers : v \in workers' \/ (game \in halves' /\ game.number = v.number)
      BY <1>5
    <3>3. \A g \in halves : g \in halves'
      BY <1>5
    <3> QED
      BY <3>1, <3>2, <3>3, Zenon
  <2> QED
    BY <1>1, <1>3, <2>1, <2>2, <2>3, <2>4, <2>5 DEF Assembled
<1> QED
  BY <1>2, <1>4, <1>6 DEF TuneInv

\* The second half completes the pair, and with it every pair that only waited
\* for this one is released.
LEMMA JoinPair ==
    ASSUME TuneInv, pc = "mini", NEW w \in workers, NEW outcome \in Outcomes,
           NEW mate \in halves, PairOf(mate.number) = PairOf(w.number),
           workers' = workers \ {w}, held' = [held EXCEPT ![w.slot] = FALSE],
           halves' = {g \in halves : PairOf(g.number) # PairOf(w.number)},
           Released(pending \cup {Joined(mate, [number |-> w.number, outcome |-> outcome])}),
           UNCHANGED <<directory, pc, driver, nextGame>>
    PROVE  TuneInv'
<1> DEFINE game == [number |-> w.number, outcome |-> outcome]
           pair == Joined(mate, game)
           waiting == pending \cup {pair}
           id == PairOf(w.number)
<1>1. /\ TuneTypeOK /\ Assembled /\ SlotsApart /\ game \in Game /\ game.number = w.number
      /\ w.number \in Nat /\ w.number \in FirstGame(Iteration)..(nextGame - 1)
      /\ id \in Nat /\ id >= nextPair
      /\ IsFiniteSet(workers \ {w}) /\ \A v \in workers \ {w} : v.number # w.number
  BY JoinFacts
<1>2. SlotsApart' /\ held' \in [Slots -> BOOLEAN]
  BY <1>1, SlotFreed
<1>3. /\ Iteration' = Iteration /\ LastPair' = LastPair /\ LastGame' = LastGame
      /\ FirstPair(Iteration') = FirstPair(Iteration) /\ FirstGame(Iteration') = FirstGame(Iteration)
  BY DEF Iteration, LastPair, LastGame, driver
<1>4. /\ Iteration \in Nat /\ Iteration < Iterations
      /\ nextGame \in Nat /\ nextPair \in Nat /\ pairs \in Seq(Pair) /\ Len(pairs) \in Nat
  BY <1>1, LenProperties DEF TuneTypeOK, Assembled, Iteration
<1>5. /\ AllPairs \in Nat /\ FirstPair(Iteration) \in Nat /\ LastPair \in Nat
      /\ 1 <= FirstPair(Iteration)
      /\ FirstPair(Iteration) <= LastPair /\ LastPair <= AllPairs /\ LastGame = 2 * LastPair
      /\ FirstGame(Iteration) = 2 * FirstPair(Iteration) - 1
  BY <1>4, Bounds
<1>6. /\ mate \in Game /\ mate.number \in Nat /\ mate.number # w.number
      /\ mate.number < nextGame /\ w.number < nextGame
  <2>1. mate \in Game /\ mate.number \in FirstGame(Iteration)..(nextGame - 1)
        /\ mate.number # w.number
    BY <1>1 DEF Assembled, TuneTypeOK
  <2>2. mate.number \in Nat
    BY <2>1, NumbersArePositive DEF Game
  <2> QED
    BY <1>1, <1>4, <1>5, <2>1, <2>2
<1>7. Proper(pair) /\ IdOf(pair) = id /\ pair.second.number < nextGame
  <2>1. PairOf(mate.number) = PairOf(game.number) /\ mate.number # game.number
    BY <1>1, <1>6
  <2> HIDE DEF game
  <2>2. Proper(pair) /\ IdOf(pair) = PairOf(mate.number)
        /\ pair.second.number \in {mate.number, game.number}
    BY <1>1, <1>6, <2>1, JoinedIsProper
  <2> QED
    BY <1>1, <1>6, <2>2
<1> HIDE DEF pair, game, id
<1>8. \A p \in waiting : /\ Proper(p) /\ p.second.number < nextGame /\ IdOf(p) >= nextPair
                         /\ IdOf(p) \in Nat /\ p.second.number = 2 * IdOf(p) /\ p \in Pair
  <2> SUFFICES ASSUME NEW p \in waiting
               PROVE  /\ Proper(p) /\ p.second.number < nextGame /\ IdOf(p) >= nextPair
                      /\ IdOf(p) \in Nat /\ p.second.number = 2 * IdOf(p) /\ p \in Pair
    OBVIOUS
  <2>1. Proper(p) /\ p.second.number < nextGame /\ (IdOf(p) > nextPair \/ IdOf(p) >= nextPair)
    BY <1>1, <1>7 DEF Assembled
  <2>2. IdOf(p) \in Nat /\ p.second.number = 2 * IdOf(p) /\ p \in Pair
    BY <2>1, ProperNumbers
  <2> QED
    BY <1>4, <2>1, <2>2
<1>9. \A p \in waiting : Proper(p) /\ nextPair <= IdOf(p) /\ IdOf(p) <= LastPair
  <2>1. nextGame <= 2 * LastPair + 1
    BY <1>1, <1>5 DEF Assembled
  <2> SUFFICES ASSUME NEW p \in waiting
               PROVE  Proper(p) /\ nextPair <= IdOf(p) /\ IdOf(p) <= LastPair
    OBVIOUS
  <2>2. /\ Proper(p) /\ 2 * IdOf(p) < nextGame /\ IdOf(p) >= nextPair /\ IdOf(p) \in Nat
    BY <1>8
  <2> QED
    BY <1>4, <1>5, <2>1, <2>2
<1>10. nextPair <= LastPair + 1
  BY <1>1, <1>4, <1>5 DEF Assembled
<1>11. Released(waiting)
  BY DEF pair, game
<1> HIDE DEF waiting
<1>12. /\ nextPair' \in nextPair..(LastPair + 1)
       /\ pending' = {p \in waiting : IdOf(p) > nextPair'}
       /\ \A p \in waiting : IdOf(p) # nextPair'
       /\ \A k \in nextPair..(nextPair' - 1) : \E p \in waiting : IdOf(p) = k
       /\ pairs' \in Seq(Pair) /\ Len(pairs') = Len(pairs) + nextPair' - nextPair
       /\ \A i \in 1..Len(pairs) : pairs'[i] = pairs[i]
       /\ \A i \in (Len(pairs) + 1)..Len(pairs') :
             pairs'[i] \in waiting /\ IdOf(pairs'[i]) = nextPair + i - Len(pairs) - 1
  BY <1>4, <1>5, <1>9, <1>10, <1>11, ReleasedPairs
<1>13. nextPair' \in Nat /\ nextPair' >= nextPair
  <2>1. nextPair' \in nextPair..(LastPair + 1)
    BY <1>12
  <2> QED
    BY <1>4, <2>1
<1>14. TuneTypeOK'
  BY <1>1, <1>2, <1>8, <1>12, <1>13 DEF TuneTypeOK, directory, driver
<1>15. \A p, q \in waiting : IdOf(p) = IdOf(q) => p = q
  BY <1>1, <1>7 DEF Assembled, waiting, id
<1>16. \A v \in workers', p \in waiting : PairOf(v.number) # IdOf(p)
  <2> SUFFICES ASSUME NEW v \in workers', NEW p \in waiting, PairOf(v.number) = IdOf(p)
               PROVE  FALSE
    OBVIOUS
  <2>1. v \in workers /\ v.number # w.number /\ v.number # mate.number
    BY <1>1 DEF Assembled
  <2>2. v.number \in Nat
    BY <1>1, <2>1, NumbersArePositive DEF TuneTypeOK
  <2>3. p = pair
    BY <1>1, <2>1 DEF Assembled, waiting
  <2>4. PairOf(v.number) = id /\ PairOf(mate.number) = id /\ PairOf(w.number) = id
    BY <1>7, <2>3 DEF id
  <2>5. /\ v.number = 2 * id - 1 \/ v.number = 2 * id
        /\ mate.number = 2 * id - 1 \/ mate.number = 2 * id
        /\ w.number = 2 * id - 1 \/ w.number = 2 * id
    BY <1>1, <1>6, <2>2, <2>4, PairOfNumber
  <2> QED
    BY <1>1, <1>6, <2>1, <2>2, <2>5
<1>17. \A g \in halves', p \in waiting : PairOf(g.number) # IdOf(p)
  BY <1>1, <1>7 DEF Assembled, waiting, id
<1>18. \A k \in Nat : k >= nextPair /\ (\A p \in waiting : k # IdOf(p)) => k >= nextPair'
  <2> SUFFICES ASSUME NEW k \in Nat, k >= nextPair, ~(k >= nextPair')
               PROVE  \E p \in waiting : IdOf(p) = k
    OBVIOUS
  <2>1. k \in nextPair..(nextPair' - 1)
    BY <1>4, <1>13, Within
  <2> QED
    BY <1>12, <2>1
<1>19. \A v \in workers' : PairOf(v.number) >= nextPair'
  <2> SUFFICES ASSUME NEW v \in workers' PROVE PairOf(v.number) >= nextPair'
    OBVIOUS
  <2>1. v \in workers /\ v.number \in Nat
    BY <1>1, NumbersArePositive DEF TuneTypeOK
  <2>2. PairOf(v.number) \in Nat /\ PairOf(v.number) >= nextPair
    BY <1>1, <2>1, PairOfNumber DEF Assembled
  <2> QED
    BY <1>16, <1>18, <2>2
<1>20. \A g \in halves' : PairOf(g.number) >= nextPair'
  <2> SUFFICES ASSUME NEW g \in halves' PROVE PairOf(g.number) >= nextPair'
    OBVIOUS
  <2>1. g \in halves /\ g.number \in Nat
    BY <1>1, NumbersArePositive DEF TuneTypeOK, Game
  <2>2. PairOf(g.number) \in Nat /\ PairOf(g.number) >= nextPair
    BY <1>1, <2>1, PairOfNumber DEF Assembled
  <2> QED
    BY <1>17, <1>18, <2>2
<1>21. 2 * (nextPair' - 1) < nextGame
  <2>1. CASE nextPair' = nextPair
    BY <1>1, <2>1 DEF Assembled
  <2>2. CASE nextPair' # nextPair
    <3>1. nextPair' - 1 \in nextPair..(nextPair' - 1)
      <4>1. nextPair' - 1 \in Nat /\ nextPair <= nextPair' - 1 /\ ~(nextPair' - 1 >= nextPair')
        BY <1>4, <1>13, <2>2
      <4> QED
        BY <1>4, <1>13, <4>1, Within
    <3>2. PICK p \in waiting : IdOf(p) = nextPair' - 1
      BY <1>12, <3>1
    <3>3. p.second.number < nextGame /\ p.second.number = 2 * IdOf(p)
      BY <1>8
    <3> QED
      BY <3>2, <3>3
  <2> QED
    BY <2>1, <2>2
<1>22. Len(pairs') = nextPair' - FirstPair(Iteration)
  BY <1>1, <1>4, <1>5, <1>12, <1>13, SMTT(30) DEF Assembled
<1>23. \A i \in 1..Len(pairs') : Proper(pairs'[i]) /\ IdOf(pairs'[i]) = FirstPair(Iteration) + i - 1
  <2> SUFFICES ASSUME NEW i \in 1..Len(pairs')
               PROVE  Proper(pairs'[i]) /\ IdOf(pairs'[i]) = FirstPair(Iteration) + i - 1
    OBVIOUS
  <2>1. CASE i \in 1..Len(pairs)
    <3>1. pairs'[i] = pairs[i]
      BY <1>12, <2>1
    <3>2. Proper(pairs[i]) /\ IdOf(pairs[i]) = FirstPair(Iteration) + i - 1
      BY <1>1, <2>1 DEF Assembled
    <3> QED
      BY <3>1, <3>2
  <2>2. CASE i \in (Len(pairs) + 1)..Len(pairs')
    <3>1. pairs'[i] \in waiting /\ IdOf(pairs'[i]) = nextPair + i - Len(pairs) - 1
      BY <1>12, <2>2
    <3>2. Len(pairs) = nextPair - FirstPair(Iteration)
      BY <1>1 DEF Assembled
    <3>3. nextPair + i - Len(pairs) - 1 = FirstPair(Iteration) + i - 1
      <4>1. i \in Int
        OBVIOUS
      <4> QED
        BY <1>4, <1>5, <3>2, <4>1, Cancelled, SMTT(30)
    <3> QED
      BY <1>8, <3>1, <3>3
  <2> QED
    <3>1. Len(pairs') \in Nat /\ Len(pairs) \in Nat
      BY <1>4, <1>12, LenProperties
    <3>2. i \in 1..Len(pairs) \/ i \in (Len(pairs) + 1)..Len(pairs')
      BY <3>1, Either
    <3> QED
      BY <2>1, <2>2, <3>2
<1>24. \A m \in FirstGame(Iteration)..(nextGame - 1) :
          \/ \E v \in workers' : v.number = m
          \/ \E g \in halves' : g.number = m
          \/ \E p \in pending' : IdOf(p) = PairOf(m)
          \/ PairOf(m) < nextPair'
  <2> SUFFICES ASSUME NEW m \in FirstGame(Iteration)..(nextGame - 1)
               PROVE  \/ \E v \in workers' : v.number = m
                      \/ \E g \in halves' : g.number = m
                      \/ \E p \in pending' : IdOf(p) = PairOf(m)
                      \/ PairOf(m) < nextPair'
    OBVIOUS
  <2>1. m \in Nat /\ PairOf(m) \in Nat
    BY <1>5, PairOfNumber
  <2>2. (\E p \in waiting : IdOf(p) = PairOf(m)) =>
            (\E p \in pending' : IdOf(p) = PairOf(m)) \/ PairOf(m) < nextPair'
    BY <1>12, <1>13, <2>1
  <2>3. pair \in waiting /\ \A p \in pending : p \in waiting
    BY DEF waiting
  <2>4. \/ \E v \in workers : v.number = m
        \/ \E g \in halves : g.number = m
        \/ \E p \in pending : IdOf(p) = PairOf(m)
        \/ PairOf(m) < nextPair
    BY <1>1 DEF Assembled
  <2>5. CASE \E v \in workers : v.number = m
    BY <1>7, <2>2, <2>3, <2>5 DEF id
  <2>6. CASE \E g \in halves : g.number = m
    BY <1>7, <2>2, <2>3, <2>6 DEF id
  <2>7. CASE \E p \in pending : IdOf(p) = PairOf(m)
    BY <2>2, <2>3, <2>7
  <2>8. CASE PairOf(m) < nextPair
    BY <1>4, <1>12, <1>13, <2>1, <2>8
  <2> QED
    BY <2>4, <2>5, <2>6, <2>7, <2>8
<1>25. /\ \A v \in workers' : v.number \in FirstGame(Iteration)..(nextGame - 1)
       /\ \A u, v \in workers' : u.number = v.number => u = v
       /\ \A g \in halves' : g.number \in FirstGame(Iteration)..(nextGame - 1)
       /\ \A g, h \in halves' : PairOf(g.number) = PairOf(h.number) => g = h
       /\ \A v \in workers', g \in halves' : v.number # g.number
       /\ nextGame \in FirstGame(Iteration)..(LastGame + 1)
  BY <1>1 DEF Assembled
<1>26. /\ \A p \in pending' : Proper(p) /\ p.second.number < nextGame /\ IdOf(p) > nextPair'
       /\ \A p, q \in pending' : IdOf(p) = IdOf(q) => p = q
       /\ \A v \in workers', p \in pending' : PairOf(v.number) # IdOf(p)
       /\ \A g \in halves', p \in pending' : PairOf(g.number) # IdOf(p)
  BY <1>8, <1>12, <1>15, <1>16, <1>17
<1>27. nextPair' \in FirstPair(Iteration)..(LastPair + 1)
  BY <1>1, <1>4, <1>5, <1>12, SMTT(30) DEF Assembled
<1>28. Assembled'
  BY <1>3, <1>4, <1>19, <1>20, <1>21, <1>22, <1>23, <1>24, <1>25, <1>26, <1>27 DEF Assembled
<1> QED
  BY <1>2, <1>14, <1>28 DEF TuneInv

LEMMA JoinStep == ASSUME TuneInv, Join PROVE TuneInv'
<1>1. PICK w \in workers, outcome \in Outcomes :
        LET game == [number |-> w.number, outcome |-> outcome]
            mates == {g \in halves : PairOf(g.number) = PairOf(game.number)}
        IN  /\ workers' = workers \ {w}
            /\ held' = [held EXCEPT ![w.slot] = FALSE]
            /\ IF mates = {}
               THEN halves' = halves \cup {game} /\ UNCHANGED <<pending, nextPair, pairs>>
               ELSE /\ halves' = halves \ mates
                    /\ Released(pending \cup {Joined(CHOOSE g \in mates : TRUE, game)})
  BY DEF Join
<1>2. pc = "mini" /\ UNCHANGED <<directory, pc, driver, nextGame>>
  BY DEF Join
<1> DEFINE game == [number |-> w.number, outcome |-> outcome]
           mates == {g \in halves : PairOf(g.number) = PairOf(w.number)}
<1>3. /\ workers' = workers \ {w} /\ held' = [held EXCEPT ![w.slot] = FALSE]
      /\ mates = {} => halves' = halves \cup {game} /\ UNCHANGED <<pending, nextPair, pairs>>
      /\ mates # {} => /\ halves' = halves \ mates
                       /\ Released(pending \cup {Joined(CHOOSE g \in mates : TRUE, game)})
  BY <1>1
<1>4. CASE mates = {}
  <2>1. \A g \in halves : PairOf(g.number) # PairOf(w.number)
    BY <1>4
  <2> QED
    BY <1>2, <1>3, <1>4, <2>1, JoinHalf
<1>5. CASE mates # {}
  <2> DEFINE mate == CHOOSE g \in mates : TRUE
  <2>1. mate \in mates
    BY <1>5
  <2> HIDE DEF mate
  <2>2. mate \in halves /\ PairOf(mate.number) = PairOf(w.number)
    BY <2>1
  <2>3. halves' = {g \in halves : PairOf(g.number) # PairOf(w.number)}
    BY <1>3, <1>5
  <2>4. Released(pending \cup {Joined(mate, game)})
    BY <1>3, <1>5 DEF mate
  <2> QED
    BY <1>2, <1>3, <2>2, <2>3, <2>4, JoinPair
<1> QED
  BY <1>4, <1>5

-----------------------------------------------------------------------------
(* The other steps. *)

LEMMA StartStep == ASSUME TuneInv, StartMiniMatch PROVE TuneInv'
<1>1. TuneTypeOK /\ pc = "loop" /\ Iteration < Iterations
  BY DEF TuneInv, StartMiniMatch
<1>2. /\ pc' = "mini" /\ nextGame' = FirstGame(Iteration) /\ nextPair' = FirstPair(Iteration)
      /\ workers' = {} /\ held' = [s \in Slots |-> FALSE]
      /\ halves' = {} /\ pending' = {} /\ pairs' = << >>
      /\ journal' = journal /\ settled' = settled /\ scores' = scores
  BY DEF StartMiniMatch, NoAssembly, directory, driver
<1>3. Iteration \in Nat
  BY <1>1 DEF TuneTypeOK, Iteration
<1>4. /\ FirstPair(Iteration) \in Nat /\ LastPair \in Nat
      /\ 1 <= FirstPair(Iteration) /\ FirstPair(Iteration) <= LastPair
      /\ FirstGame(Iteration) = 2 * FirstPair(Iteration) - 1 /\ LastGame = 2 * LastPair
  BY <1>1, <1>3, Bounds
<1>5. /\ Iteration' = Iteration /\ LastPair' = LastPair /\ LastGame' = LastGame
      /\ FirstPair(Iteration') = FirstPair(Iteration) /\ FirstGame(Iteration') = FirstGame(Iteration)
  BY <1>2 DEF Iteration, LastPair, LastGame
<1>6. Len(pairs') = 0 /\ pairs' \in Seq(Pair)
  BY <1>2
<1>7. TuneTypeOK'
  <2>1. IsFiniteSet(workers')
    BY <1>2, FS_EmptySet
  <2>2. nextGame' \in Nat /\ nextPair' \in Nat
    BY <1>2, <1>4
  <2> QED
    BY <1>1, <1>2, <1>6, <2>1, <2>2 DEF TuneTypeOK
<1>8. Assembled'
  <2>1. /\ nextGame' \in FirstGame(Iteration)..(LastGame + 1)
        /\ nextPair' \in FirstPair(Iteration)..(LastPair + 1) /\ 2 * (nextPair' - 1) < nextGame'
        /\ Len(pairs') = nextPair' - FirstPair(Iteration)
    BY <1>2, <1>4, <1>6
  <2>2. FirstGame(Iteration)..(nextGame' - 1) = {} /\ 1..Len(pairs') = {}
    BY <1>2, <1>4, <1>6
  <2> QED
    BY <1>1, <1>2, <1>5, <2>1, <2>2 DEF Assembled
<1>9. SlotsApart'
  BY <1>2 DEF SlotsApart
<1> QED
  BY <1>7, <1>8, <1>9 DEF TuneInv

\* What a mini-match comes to is journalled as lines of its iteration.
LEMMA LinesType ==
    ASSUME NEW somePairs \in Seq(Pair), NEW iteration \in 0..(Iterations - 1), NEW class \in Class
    PROVE  /\ LinesOf(somePairs, iteration, class) \in Seq(Line)
           /\ Len(LinesOf(somePairs, iteration, class)) = 2 * Len(somePairs)
           /\ \A k \in 1..(2 * Len(somePairs)) :
                 LinesOf(somePairs, iteration, class)[k].class = class
<1> DEFINE n == 2 * Len(somePairs)
           lines == LinesOf(somePairs, iteration, class)
           game(k) == IF k % 2 = 1 THEN somePairs[(k + 1) \div 2].first
                                   ELSE somePairs[(k + 1) \div 2].second
<1>1. Len(somePairs) \in Nat /\ n \in Nat
  BY LenProperties
<1>2. \A k \in 1..n : game(k) \in Game
  <2> SUFFICES ASSUME NEW k \in 1..n PROVE game(k) \in Game
    OBVIOUS
  <2>1. (k + 1) \div 2 \in 1..Len(somePairs)
    BY <1>1
  <2>2. somePairs[(k + 1) \div 2] \in Pair
    BY <2>1, ElementOfSeq
  <2> QED
    BY <2>2 DEF Pair
<1>3. lines = [k \in 1..n |-> LineOf(game(k), iteration, class)]
  BY DEF LinesOf
<1>4. \A g \in Game : LineOf(g, iteration, class) \in Line
                      /\ LineOf(g, iteration, class).class = class
  BY DEF LineOf, Line, Game
<1> HIDE DEF n, game, lines
<1>5. lines \in [1..n -> Line] /\ \A k \in 1..n : lines[k].class = class
  BY <1>2, <1>3, <1>4
<1>6. lines \in Seq(Line) /\ Len(lines) = n
  BY <1>1, <1>5, SeqDef, LenProperties
<1> QED
  BY <1>5, <1>6 DEF n, lines

LEMMA ReplayedType ==
    /\ \E S : ReplayedScores \in Seq(S)
    /\ Len(ReplayedScores) \in 0..Iterations
<1> DEFINE Whole(i) == Len(IterationPairs(i)) = PairsPerIteration
           S == {n \in 1..Iterations : \A i \in 0..(n - 1) : Whole(i)}
           score(i) == ScoreOf(IterationPairs(i - 1))
           values == {score(i) : i \in 1..Replayed}
<1>1. Replayed = Cardinality(S)
  BY DEF Replayed
<1>2. S \subseteq 1..Iterations
  OBVIOUS
<1>3. ReplayedScores = [i \in 1..Replayed |-> score(i)]
  BY DEF ReplayedScores
<1>4. IsFiniteSet(1..Iterations) /\ Cardinality(1..Iterations) = Iterations
  BY SizeAssumption, FS_Interval
<1> HIDE DEF S, score
<1>5. Replayed \in 0..Iterations
  <2>1. Cardinality(S) \in Nat /\ Cardinality(S) <= Iterations
    BY <1>2, <1>4, FS_Subset, FS_CardinalityType
  <2> QED
    BY <1>1, <2>1, SizeAssumption
<1>6. ReplayedScores \in Seq(values) /\ Len(ReplayedScores) = Replayed
  <2> DEFINE n == Replayed
             replayed == ReplayedScores
  <2>1. n \in Nat
    BY <1>5
  <2>2. replayed = [i \in 1..n |-> score(i)] /\ values = {score(i) : i \in 1..n}
    BY <1>3
  <2> HIDE DEF n, replayed, values
  <2>3. replayed \in [1..n -> values]
    BY <2>2
  <2>4. replayed \in Seq(values) /\ Len(replayed) = n
    BY <2>1, <2>3, SeqDef, LenProperties
  <2> QED
    BY <2>4 DEF n, replayed
<1> QED
  BY <1>5, <1>6

LEMMA CommitStep == ASSUME TuneInv, Commit PROVE TuneInv'
<1>1. TuneTypeOK /\ Assembled /\ Played
  BY DEF TuneInv, Commit, Played
<1>2. /\ pc' = "loop" /\ scores' = Append(scores, ScoreOf(pairs))
      /\ journal' = journal \o LinesOf(pairs, Iteration, "official")
      /\ settled' = settled /\ UNCHANGED <<nextGame, workers, held, nextPair>>
      /\ halves' = {} /\ pending' = {} /\ pairs' = << >> /\ workers = {}
  BY <1>1 DEF Commit, CommitIteration, NoAssembly, slots, Played
<1>3. Iteration \in 0..(Iterations - 1) /\ Len(scores) = Iteration
  BY <1>1, SizeAssumption DEF Assembled, TuneTypeOK, Iteration
<1>4. journal' \in Seq(Line) /\ settled' \in 0..Len(journal')
  <2> DEFINE lines == LinesOf(pairs, Iteration, "official")
  <2>1. lines \in Seq(Line) /\ Len(lines) = 2 * Len(pairs)
    BY <1>1, <1>3, LinesType DEF TuneTypeOK, Class
  <2>2. Len(pairs) \in Nat /\ Len(journal) \in Nat /\ settled \in 0..Len(journal)
        /\ journal \in Seq(Line)
    BY <1>1, LenProperties DEF TuneTypeOK
  <2> HIDE DEF lines
  <2>3. journal \o lines \in Seq(Line) /\ Len(journal \o lines) = Len(journal) + Len(lines)
    BY <2>1, <2>2, ConcatProperties
  <2> QED
    BY <1>2, <2>1, <2>2, <2>3 DEF lines
<1>5. (\E S : scores' \in Seq(S)) /\ Len(scores') \in 0..Iterations
  <2>1. PICK S : scores \in Seq(S)
    BY <1>1 DEF TuneTypeOK
  <2> DEFINE score == ScoreOf(pairs)
             T == S \cup {score}
  <2>2. scores \in Seq(T) /\ score \in T
    BY <2>1
  <2> HIDE DEF T, score
  <2>3. Append(scores, score) \in Seq(T) /\ Len(Append(scores, score)) = Len(scores) + 1
    BY <2>2, AppendProperties
  <2> QED
    BY <1>2, <1>3, <2>3, SizeAssumption DEF score
<1>6. pairs' \in Seq(Pair)
  BY <1>2
<1> QED
  BY <1>1, <1>2, <1>4, <1>5, <1>6 DEF TuneInv, TuneTypeOK

LEMMA InvalidateStep == ASSUME TuneInv, Invalidate PROVE TuneInv'
<1>1. TuneTypeOK /\ Assembled /\ Played
  BY DEF TuneInv, Invalidate, Played
<1>2. /\ pc' = "ended" /\ journal' = journal \o LinesOf(pairs, Iteration, "invalid")
      /\ settled' = settled /\ scores' = scores
      /\ UNCHANGED <<nextGame, held, halves, pending, nextPair, pairs>> /\ workers' = {}
  BY DEF Invalidate, Returns, assembly
<1>3. Iteration \in 0..(Iterations - 1)
  BY <1>1, SizeAssumption DEF Assembled, TuneTypeOK, Iteration
<1>4. journal' \in Seq(Line) /\ settled' \in 0..Len(journal')
  <2> DEFINE lines == LinesOf(pairs, Iteration, "invalid")
  <2>1. lines \in Seq(Line) /\ Len(lines) = 2 * Len(pairs)
    BY <1>1, <1>3, LinesType DEF TuneTypeOK, Class
  <2>2. Len(pairs) \in Nat /\ Len(journal) \in Nat /\ settled \in 0..Len(journal)
        /\ journal \in Seq(Line)
    BY <1>1, LenProperties DEF TuneTypeOK
  <2> HIDE DEF lines
  <2>3. journal \o lines \in Seq(Line) /\ Len(journal \o lines) = Len(journal) + Len(lines)
    BY <2>1, <2>2, ConcatProperties
  <2> QED
    BY <1>2, <2>1, <2>2, <2>3 DEF lines
<1> QED
  BY <1>1, <1>2, <1>4, FS_EmptySet DEF TuneInv, TuneTypeOK

\* The command has ended, orderly or not.
LEMMA DownStep ==
    ASSUME TuneInv, Down, journal' \in Seq(Line), settled' \in 0..Len(journal')
    PROVE  TuneInv'
<1>1. /\ pc' = "down" /\ scores' = << >> /\ nextGame' = 1 /\ workers' = {}
      /\ held' = [s \in Slots |-> FALSE]
      /\ nextPair' = 1 /\ halves' = {} /\ pending' = {} /\ pairs' = << >>
  BY DEF Down, NoAssembly
<1>2. (\E S : scores' \in Seq(S)) /\ Len(scores') = 0 /\ pairs' \in Seq(Pair)
  <2>1. scores' \in Seq({}) /\ Len(scores') = 0
    BY <1>1
  <2> QED
    BY <1>1, <2>1
<1>3. Len(scores') \in 0..Iterations
  BY <1>2, SizeAssumption
<1> QED
  BY <1>1, <1>2, <1>3, FS_EmptySet DEF TuneInv, TuneTypeOK

\* A crash keeps what a result was written for.
LEMMA CutJournal ==
    ASSUME TuneInv, NEW kept \in settled..Len(journal)
    PROVE  /\ SubSeq(journal, 1, kept) \in Seq(Line) /\ Len(SubSeq(journal, 1, kept)) = kept
           /\ settled \in 0..kept
           /\ \A i \in 1..kept : SubSeq(journal, 1, kept)[i] = journal[i]
<1>1. journal \in Seq(Line) /\ Len(journal) \in Nat /\ settled \in 0..Len(journal)
  BY LenProperties DEF TuneInv, TuneTypeOK
<1>2. kept \in 0..Len(journal) /\ settled \in 0..kept /\ kept \in Nat
  BY <1>1
<1>3. \A i \in 1..kept : journal[i] \in Line
  BY <1>1, <1>2, ElementOfSeq
<1>4. SubSeq(journal, 1, kept) = [i \in 1..kept |-> journal[i]]
  BY <1>1, <1>2
<1>5. [i \in 1..kept |-> journal[i]] \in [1..kept -> Line]
  BY <1>3
<1>6. SubSeq(journal, 1, kept) \in Seq(Line) /\ Len(SubSeq(journal, 1, kept)) = kept
  BY <1>2, <1>4, <1>5, SeqDef, LenProperties
<1> QED
  BY <1>2, <1>4, <1>6

LEMMA ResumeStep == ASSUME TuneInv, Resume PROVE TuneInv'
<1>1. TuneTypeOK /\ pc = "down" /\ pc' = "loop"
  BY DEF TuneInv, Resume
<1>2. UNCHANGED <<journal, settled, nextGame, workers, held, halves, pending, nextPair, pairs>>
      /\ scores' = ReplayedScores
  BY DEF Resume, directory, slots, assembly
<1> QED
  BY <1>1, <1>2, ReplayedType DEF TuneInv, TuneTypeOK

LEMMA ReturnStep ==
    ASSUME TuneInv, NEW reason, Returns(reason),
           UNCHANGED <<directory, scores, nextGame, held, assembly>>
    PROVE  TuneInv'
<1>1. pc' = "ended" /\ workers' = {}
      /\ UNCHANGED <<journal, settled, scores, nextGame, held, halves, pending, nextPair, pairs>>
  BY DEF Returns, directory, assembly
<1> QED
  BY <1>1, FS_EmptySet DEF TuneInv, TuneTypeOK

LEMMA SameStep ==
    ASSUME TuneInv, UNCHANGED <<directory, pc, driver, slots, assembly>>
    PROVE  TuneInv'
<1>1. UNCHANGED <<journal, settled, pc, scores, nextGame, workers, held, halves, pending, nextPair,
                  pairs>>
  BY DEF directory, driver, slots, assembly
<1>2. TuneTypeOK'
  BY <1>1 DEF TuneInv, TuneTypeOK
<1>3. pc' = "mini" => Assembled' /\ SlotsApart'
  <2> SUFFICES ASSUME pc' = "mini" PROVE Assembled' /\ SlotsApart'
    OBVIOUS
  <2>1. Assembled /\ SlotsApart
    BY <1>1 DEF TuneInv
  <2>2. /\ Iteration' = Iteration /\ LastPair' = LastPair /\ LastGame' = LastGame
        /\ FirstPair(Iteration') = FirstPair(Iteration)
        /\ FirstGame(Iteration') = FirstGame(Iteration)
    BY <1>1 DEF Iteration, LastPair, LastGame
  <2>3. Assembled'
    BY <1>1, <2>1, <2>2 DEF Assembled
  <2> QED
    BY <1>1, <2>1, <2>3 DEF SlotsApart
<1> QED
  BY <1>2, <1>3 DEF TuneInv

LEMMA TuneInit == Init => TuneInv
<1> SUFFICES ASSUME Init PROVE TuneInv
  OBVIOUS
<1>1. journal \in Seq(Line) /\ settled \in 0..Len(journal) /\ pairs \in Seq(Pair)
  BY DEF Init
<1>2. (\E S : scores \in Seq(S)) /\ Len(scores) \in 0..Iterations
  <2>1. scores \in Seq({}) /\ Len(scores) = 0
    BY DEF Init
  <2> QED
    BY <2>1, SizeAssumption
<1>3. IsFiniteSet(workers)
  BY FS_EmptySet DEF Init
<1> QED
  BY <1>1, <1>2, <1>3 DEF Init, TuneInv, TuneTypeOK

LEMMA TuneStep == TuneInv /\ [Next]_vars => TuneInv'
<1> SUFFICES ASSUME TuneInv, [Next]_vars PROVE TuneInv'
  OBVIOUS
<1>1. CASE Complete
  BY <1>1, ReturnStep DEF Complete
<1>2. CASE StopAtBoundary
  BY <1>2, ReturnStep DEF StopAtBoundary
<1>3. CASE StartMiniMatch
  BY <1>3, StartStep
<1>4. CASE Launch
  BY <1>4, LaunchStep
<1>5. CASE Join
  BY <1>5, JoinStep
<1>6. CASE JoinFails
  BY <1>6, ReturnStep DEF JoinFails
<1>7. CASE RefuseMiniMatch
  BY <1>7, ReturnStep DEF RefuseMiniMatch
<1>8. CASE Invalidate
  BY <1>8, InvalidateStep
<1>9. CASE Commit
  BY <1>9, CommitStep
<1>10. CASE Interrupt
  BY <1>10, SameStep DEF Interrupt
<1>11. CASE Exit
  <2>1. journal \in Seq(Line) /\ settled \in 0..Len(journal) /\ Len(journal) \in Nat
    BY LenProperties DEF TuneInv, TuneTypeOK
  <2>2. journal' = journal /\ settled' \in {settled, Len(journal)}
    BY <1>11 DEF Exit
  <2>3. journal' \in Seq(Line) /\ settled' \in 0..Len(journal')
    BY <2>1, <2>2
  <2> QED
    BY <1>11, <2>3, DownStep DEF Exit
<1>12. CASE Crash
  <2>1. PICK kept \in settled..Len(journal) : journal' = SubSeq(journal, 1, kept)
    BY <1>12 DEF Crash
  <2>2. settled' = settled
    BY <1>12 DEF Crash
  <2>3. journal' \in Seq(Line) /\ settled' \in 0..Len(journal')
    BY <2>1, <2>2, CutJournal
  <2> QED
    BY <1>12, <2>3, DownStep DEF Crash
<1>13. CASE Resume
  BY <1>13, ResumeStep
<1>14. CASE UNCHANGED vars
  BY <1>14, SameStep DEF vars
<1> QED
  BY <1>1, <1>2, <1>3, <1>4, <1>5, <1>6, <1>7, <1>8, <1>9, <1>10, <1>11, <1>12, <1>13, <1>14
     DEF Next

-----------------------------------------------------------------------------
(* What the tune rests on. *)

LEMMA WholeInv == TuneInv => MiniMatchIsWhole
<1> SUFFICES ASSUME TuneInv PROVE MiniMatchIsWhole
  OBVIOUS
<1>1. ASSUME Played
      PROVE  /\ halves = {} /\ pending = {}
             /\ Len(pairs) = PairsPerIteration /\ RightPairs(Iteration, pairs)
             /\ \A i \in DOMAIN pairs : pairs[i].first.number % 2 = 1
                                        /\ pairs[i].second.number = pairs[i].first.number + 1
  <2>1. TuneTypeOK /\ Assembled /\ workers = {} /\ nextGame > LastGame
    BY <1>1 DEF TuneInv, Played
  <2>2. /\ Iteration \in Nat /\ Iteration < Iterations /\ nextGame \in Nat /\ nextPair \in Nat
        /\ pairs \in Seq(Pair)
    BY <2>1 DEF TuneTypeOK, Assembled, Iteration
  <2>3. /\ FirstPair(Iteration) \in Nat /\ LastPair \in Nat
        /\ 1 <= FirstPair(Iteration) /\ FirstPair(Iteration) <= LastPair
        /\ LastPair = FirstPair(Iteration) + PairsPerIteration - 1
        /\ FirstGame(Iteration) = 2 * FirstPair(Iteration) - 1 /\ LastGame = 2 * LastPair
    BY <2>2, Bounds
  <2> DEFINE first == FirstPair(Iteration)
             last == LastPair
  <2>4. nextGame = 2 * last + 1 /\ nextPair \in first..(last + 1)
    <3>1. nextGame \in FirstGame(Iteration)..(LastGame + 1) /\ nextPair \in first..(last + 1)
      BY <2>1 DEF Assembled
    <3>2. nextGame <= 2 * last + 1 /\ nextGame > 2 * last
      BY <2>1, <2>2, <2>3, <3>1
    <3> HIDE DEF first, last
    <3>3. last \in Nat
      BY <2>3 DEF last
    <3> QED
      BY <2>2, <3>1, <3>2, <3>3
  <2>5. \A m \in (2 * first - 1)..(2 * last) :
            \/ \E g \in halves : g.number = m
            \/ \E p \in pending : IdOf(p) = PairOf(m)
            \/ PairOf(m) < nextPair
    <3>1. \A m \in FirstGame(Iteration)..(nextGame - 1) :
             \/ \E g \in halves : g.number = m
             \/ \E p \in pending : IdOf(p) = PairOf(m)
             \/ PairOf(m) < nextPair
      BY <2>1 DEF Assembled
    <3>2. FirstGame(Iteration) = 2 * first - 1 /\ nextGame - 1 = 2 * last
      BY <2>3, <2>4
    <3> HIDE DEF first, last
    <3> QED
      BY <3>1, <3>2
  <2>6. \A g \in halves : g.number \in (2 * first - 1)..(2 * last)
    BY <2>1, <2>3, <2>4 DEF Assembled
  <2>7. first \in Nat /\ last \in Nat /\ first >= 1 /\ last = first + PairsPerIteration - 1
    BY <2>3
  <2> HIDE DEF first, last
  <2>8. halves = {}
    <3> SUFFICES ASSUME NEW g \in halves PROVE FALSE
      OBVIOUS
    <3> DEFINE id == PairOf(g.number)
               other == IF g.number = 2 * id THEN 2 * id - 1 ELSE 2 * id
    <3>1. g.number \in Nat /\ g.number \in (2 * first - 1)..(2 * last)
      BY <2>6, <2>7
    <3>2. id \in Nat /\ (g.number = 2 * id - 1 \/ g.number = 2 * id)
      BY <3>1, PairOfNumber
    <3>3. id >= nextPair /\ \A p \in pending : id # IdOf(p)
      BY <2>1 DEF Assembled
    <3>4. other \in (2 * first - 1)..(2 * last) /\ other \in Nat /\ other # g.number
      <4> HIDE DEF id
      <4> QED
        BY <2>7, <3>1, <3>2
    <3>5. PairOf(other) = id
      <4> HIDE DEF id
      <4> QED
        BY <3>2, <3>4 DEF PairOf
    <3>6. \A h \in halves : h.number # other
      BY <2>1, <3>4, <3>5 DEF Assembled
    <3> HIDE DEF other, id
    <3> QED
      BY <2>2, <2>5, <3>2, <3>3, <3>4, <3>5, <3>6
  <2>9. nextPair = last + 1
    <3> SUFFICES ASSUME nextPair # last + 1 PROVE FALSE
      OBVIOUS
    <3>1. 2 * nextPair - 1 \in (2 * first - 1)..(2 * last)
      BY <2>2, <2>4, <2>7
    <3>2. PairOf(2 * nextPair - 1) = nextPair
      BY <2>2 DEF PairOf
    <3>3. \A p \in pending : IdOf(p) # nextPair
      <4> SUFFICES ASSUME NEW p \in pending, IdOf(p) = nextPair PROVE FALSE
        OBVIOUS
      <4>1. IdOf(p) > nextPair
        BY <2>1 DEF Assembled
      <4> QED
        BY <2>2, <4>1
    <3> QED
      BY <2>2, <2>5, <2>8, <3>1, <3>2, <3>3
  <2>10. pending = {}
    <3> SUFFICES ASSUME NEW p \in pending PROVE FALSE
      OBVIOUS
    <3>1. Proper(p) /\ p.second.number < nextGame /\ IdOf(p) > nextPair
      BY <2>1 DEF Assembled
    <3>2. IdOf(p) \in Nat /\ p.second.number = 2 * IdOf(p)
      BY <3>1, ProperNumbers
    <3> QED
      BY <2>4, <2>7, <2>9, <3>1, <3>2
  <2>11. Len(pairs) = PairsPerIteration
    <3>1. Len(pairs) = nextPair - first
      BY <2>1 DEF Assembled, first
    <3> QED
      BY <2>7, <2>9, <3>1, SizeAssumption
  <2>12. DOMAIN pairs = 1..Len(pairs)
    BY <2>2, LenProperties
  <2>13. RightPairs(Iteration, pairs)
    BY <2>1, <2>12 DEF Assembled, RightPairs, IdOf
  <2>14. \A i \in DOMAIN pairs : pairs[i].first.number % 2 = 1
                                 /\ pairs[i].second.number = pairs[i].first.number + 1
    <3> SUFFICES ASSUME NEW i \in DOMAIN pairs
                 PROVE  pairs[i].first.number % 2 = 1
                        /\ pairs[i].second.number = pairs[i].first.number + 1
      OBVIOUS
    <3>1. Proper(pairs[i])
      BY <2>1, <2>12 DEF Assembled
    <3>2. PICK id \in Nat :
              pairs[i].first.number = 2 * id - 1 /\ pairs[i].second.number = 2 * id
      BY <3>1 DEF Proper
    <3>3. (2 * id - 1) % 2 = 1 /\ 2 * id = (2 * id - 1) + 1
      OBVIOUS
    <3> QED
      BY <3>2, <3>3
  <2> QED
    BY <2>8, <2>10, <2>11, <2>13, <2>14
<1>2. pc = "mini" => SlotsApart
  BY DEF TuneInv
<1> QED
  BY <1>1, <1>2 DEF MiniMatchIsWhole, SlotsApart

\* No game, and no pair, is left behind when the last game of a mini-match has
\* ended, whatever the order they ended in.
THEOREM MiniMatchIsWholeTheorem == Spec => []MiniMatchIsWhole
<1>1. Spec => []TuneInv
  BY TuneInit, TuneStep, PTL DEF Spec
<1> QED
  BY <1>1, WholeInv, PTL

-----------------------------------------------------------------------------
(* Once invalid, invalid for good. *)

HasInvalid == \E i \in 1..Len(journal) : journal[i].class = "invalid"

LEMMA VoidInit == Init => VoidInv
<1> SUFFICES ASSUME Init PROVE VoidInv
  OBVIOUS
<1>1. Len(journal) = 0 /\ settled = 0 /\ ending = "none" /\ pc = "down"
      /\ published.status = "none"
  BY DEF Init
<1> QED
  BY <1>1 DEF VoidInv

\* The directory of an invalid tune is refused.
LEMMA ResumeIsClean == ASSUME TuneInv, Resume PROVE ~HasInvalid
<1>1. DOMAIN journal = 1..Len(journal)
  BY LenProperties DEF TuneInv, TuneTypeOK
<1> QED
  BY <1>1 DEF Resume, CanResume, HasInvalid

\* The lines an iteration adds are of the class it was given, and there are some.
LEMMA Journalled ==
    ASSUME TuneInv, Played, NEW class \in Class, journal' = journal \o LinesOf(pairs, Iteration, class)
    PROVE  /\ class = "invalid" => HasInvalid'
           /\ class # "invalid" /\ ~HasInvalid => ~HasInvalid'
<1> DEFINE lines == LinesOf(pairs, Iteration, class)
           old == Len(journal)
           new == Len(lines)
<1>1. TuneTypeOK /\ Assembled
  BY DEF TuneInv, Played
<1>2. Iteration \in 0..(Iterations - 1)
  BY <1>1, SizeAssumption DEF Assembled, TuneTypeOK, Iteration
<1>3. Len(pairs) = PairsPerIteration
  BY WholeInv DEF MiniMatchIsWhole
<1>4. lines \in Seq(Line) /\ new = 2 * Len(pairs) /\ \A k \in 1..new : lines[k].class = class
  BY <1>1, <1>2, LinesType DEF TuneTypeOK
<1>5. new \in Nat /\ new >= 1 /\ old \in Nat /\ journal \in Seq(Line)
  BY <1>1, <1>3, <1>4, SizeAssumption, LenProperties DEF TuneTypeOK
<1> HIDE DEF lines, new, old
<1>6. /\ Len(journal') = old + new
      /\ \A i \in 1..(old + new) : journal'[i] = IF i <= old THEN journal[i] ELSE lines[i - old]
  BY <1>4, <1>5, ConcatProperties DEF lines, old, new
<1>7. ASSUME class = "invalid" PROVE HasInvalid'
  <2>1. old + 1 \in 1..(old + new) /\ ~(old + 1 <= old) /\ (old + 1) - old = 1 /\ 1 \in 1..new
    BY <1>5
  <2>2. journal'[old + 1] = lines[1]
    BY <1>6, <2>1
  <2>3. journal'[old + 1].class = "invalid"
    BY <1>4, <1>7, <2>1, <2>2
  <2> QED
    BY <1>6, <2>1, <2>3 DEF HasInvalid
<1>8. ASSUME class # "invalid", ~HasInvalid PROVE ~HasInvalid'
  <2> SUFFICES ASSUME NEW i \in 1..(old + new) PROVE journal'[i].class # "invalid"
    BY <1>6 DEF HasInvalid
  <2>1. CASE i <= old
    <3>1. i \in 1..old
      BY <1>5, <2>1
    <3>2. journal[i].class # "invalid"
      BY <1>8, <3>1 DEF HasInvalid, old
    <3> QED
      BY <1>6, <2>1, <3>2
  <2>2. CASE ~(i <= old)
    <3>1. i - old \in 1..new
      BY <1>5, <2>2
    <3>2. lines[i - old].class # "invalid"
      BY <1>4, <1>8, <3>1
    <3> QED
      BY <1>6, <2>2, <3>2
  <2> QED
    BY <2>1, <2>2
<1> QED
  BY <1>7, <1>8

LEMMA VoidStep == TuneInv /\ VoidInv /\ [Next]_vars => VoidInv'
<1> SUFFICES ASSUME TuneInv, VoidInv, [Next]_vars PROVE VoidInv'
  OBVIOUS
<1>0. /\ ending = "invalid" => pc = "ended"
      /\ ending = "invalid" => HasInvalid
      /\ HasInvalid => pc = "down" \/ (pc = "ended" /\ ending = "invalid")
      /\ published.status = "invalid" => pc = "down"
  BY DEF VoidInv, HasInvalid
<1>1. ASSUME pc \in {"loop", "mini"}, journal' = journal, published' = published,
             ending' # "invalid"
      PROVE  VoidInv'
  BY <1>0, <1>1 DEF VoidInv, HasInvalid
<1>2. CASE Complete \/ StopAtBoundary \/ JoinFails \/ RefuseMiniMatch
  <2>1. ending' # "invalid"
    BY <1>2 DEF Complete, StopAtBoundary, JoinFails, RefuseMiniMatch, Returns
  <2> QED
    BY <1>1, <1>2, <2>1
       DEF Complete, StopAtBoundary, JoinFails, RefuseMiniMatch, Played, directory
<1>3. CASE StartMiniMatch \/ Launch \/ Join \/ Interrupt
  <2>1. pc \in {"loop", "mini"} /\ journal' = journal /\ published' = published /\ ending' = ending
    BY <1>3 DEF StartMiniMatch, Launch, Join, Interrupt, directory, driver
  <2> QED
    BY <1>0, <1>1, <2>1
<1>4. CASE Invalidate
  <2>1. HasInvalid'
    BY <1>4, Journalled DEF Invalidate, Class
  <2> QED
    BY <1>0, <1>4, <2>1 DEF Invalidate, Returns, Played, VoidInv, HasInvalid
<1>5. CASE Commit
  <2>1. pc = "mini" /\ published' = published /\ ending' = ending /\ ~HasInvalid
    BY <1>0, <1>5 DEF Commit, Played
  <2>2. ~HasInvalid'
    BY <1>5, <2>1, Journalled DEF Commit, Class
  <2> QED
    BY <1>0, <2>1, <2>2 DEF VoidInv, HasInvalid
<1>6. CASE Exit
  <2>1. pc = "ended" /\ pc' = "down" /\ ending' = "none" /\ journal' = journal
    BY <1>6 DEF Exit, Down
  <2>2. \/ ending = "failed" /\ published' = published
        \/ published'.status = ending /\ settled' = Len(journal)
    BY <1>6 DEF Exit
  <2> QED
    BY <1>0, <2>1, <2>2 DEF VoidInv, HasInvalid
<1>7. CASE Crash
  <2>1. pc # "down" /\ pc' = "down" /\ ending' = "none" /\ published' = published
    BY <1>7 DEF Crash, Down
  <2> QED
    BY <1>0, <2>1 DEF VoidInv
<1>8. CASE Resume
  <2>1. ~HasInvalid /\ pc = "down"
    BY <1>8, ResumeIsClean DEF Resume
  <2>2. journal' = journal /\ published' = published /\ ending' = ending /\ settled' = settled
    BY <1>8 DEF Resume, directory
  <2>3. settled \in 0..Len(journal) /\ Len(journal) \in Nat
    BY LenProperties DEF TuneInv, TuneTypeOK
  <2>4. published.status # "invalid"
    BY <2>1, <2>3 DEF VoidInv, HasInvalid
  <2> QED
    BY <1>0, <2>1, <2>2, <2>4 DEF VoidInv, HasInvalid
<1>9. CASE UNCHANGED vars
  BY <1>9 DEF vars, directory, driver, VoidInv
<1> QED
  BY <1>2, <1>3, <1>4, <1>5, <1>6, <1>7, <1>8, <1>9 DEF Next

LEMMA VoidStands ==
    ASSUME TuneInv, VoidInv, [Next]_vars
    PROVE  /\ published.status = "invalid" => published' = published /\ workers' = {}
           /\ (\E i \in DOMAIN journal : journal[i].class = "invalid") => workers' \subseteq workers
<1>1. DOMAIN journal = 1..Len(journal) /\ settled \in 0..Len(journal) /\ Len(journal) \in Nat
  BY LenProperties DEF TuneInv, TuneTypeOK
<1>2. published.status = "invalid" => pc = "down" /\ HasInvalid
  BY <1>1 DEF VoidInv, HasInvalid
<1>3. ASSUME HasInvalid PROVE workers' = {} /\ (pc = "down" => published' = published)
  <2>1. (pc = "down" \/ pc = "ended") /\ workers = {}
    BY <1>3 DEF VoidInv, HasInvalid, TuneInv, TuneTypeOK
  <2>2. \/ UNCHANGED vars
        \/ pc = "ended" /\ Exit
        \/ pc = "ended" /\ Crash
    BY <1>3, <2>1, ResumeIsClean
       DEF Next, Complete, StopAtBoundary, StartMiniMatch, Launch, Join, JoinFails,
           RefuseMiniMatch, Invalidate, Commit, Interrupt, Exit, Crash, Played
  <2> QED
    BY <2>1, <2>2 DEF vars, directory, slots, Exit, Crash, Down
<1> QED
  BY <1>1, <1>2, <1>3 DEF HasInvalid

\* A tune that was voided plays no other game: its result is never replaced, and
\* no later invocation gets past the line that says so.
THEOREM InvalidStandsTheorem == Spec => InvalidStands
<1>1. Spec => []TuneInv
  BY TuneInit, TuneStep, PTL DEF Spec
<1>2. Spec => []VoidInv
  BY <1>1, VoidInit, VoidStep, PTL DEF Spec
<1>3. TuneInv /\ VoidInv /\ [Next]_vars =>
          [/\ published.status = "invalid" => published' = published /\ workers' = {}
           /\ (\E i \in DOMAIN journal : journal[i].class = "invalid") =>
                  workers' \subseteq workers]_vars
  BY VoidStands
<1> QED
  BY <1>1, <1>2, <1>3, PTL DEF Spec, InvalidStands

-----------------------------------------------------------------------------
(* What the journal gives back.  As long as no crash cuts inside an iteration, *)
(* the journal is a row of blocks: the lines of each committed iteration, one  *)
(* for every game and in the order of their numbers, and, behind them, at most *)
(* those of the iteration that voided the tune.                                *)

\* Where the lines of the first b iterations end.
EndOf(b) == b * GamesPerIteration

\* Line i is the game of that number, of the iteration it lies in.
InPlace(i) ==
    /\ journal[i].number = i
    /\ EndOf(journal[i].iteration) < i /\ i <= EndOf(journal[i].iteration + 1)

\* The journal of b committed iterations.
JournalOf(b) ==
    /\ Len(journal) = EndOf(b) \/ Len(journal) = EndOf(b + 1)
    /\ \A i \in 1..Len(journal) :
          InPlace(i) /\ journal[i].class = IF i <= EndOf(b) THEN "official" ELSE "invalid"

\* The pairs of a block.
BlockPairs(iteration) ==
    [n \in 1..PairsPerIteration |->
        [first |-> GameOf(journal[EndOf(iteration) + 2 * n - 1]),
         second |-> GameOf(journal[EndOf(iteration) + 2 * n])]]

\* The scores of the first n blocks.
ScoresUpTo(n) == [i \in 1..n |-> ScoreOf(BlockPairs(i - 1))]

\* The driver has the scores of the journal's official blocks, and a result
\* those of blocks it was settled with.
Stands(b) ==
    /\ JournalOf(b)
    /\ pc # "down" => scores = ScoresUpTo(b)
    /\ pc \in {"loop", "mini"} => Len(journal) = EndOf(b)
    /\ \E n \in 0..b : published.scores = ScoresUpTo(n) /\ EndOf(n) <= settled

BlocksInv == \E b \in 0..Iterations : Stands(b)

LEMMA EndOfType ==
    /\ PairsPerIteration \in Nat \ {0} /\ GamesPerIteration \in Nat \ {0}
    /\ GamesPerIteration = 2 * PairsPerIteration
    /\ \A b \in Nat : /\ EndOf(b) \in Nat /\ EndOf(b + 1) = EndOf(b) + GamesPerIteration
                      /\ EndOf(b) = 2 * (b * PairsPerIteration) /\ b * PairsPerIteration \in Nat
    /\ EndOf(0) = 0
<1>1. /\ PairsPerIteration \in Nat \ {0} /\ GamesPerIteration \in Nat \ {0}
      /\ GamesPerIteration = 2 * PairsPerIteration
  BY SizeAssumption DEF GamesPerIteration
<1>2. ASSUME NEW b \in Nat
      PROVE  /\ EndOf(b) \in Nat /\ EndOf(b + 1) = EndOf(b) + GamesPerIteration
             /\ EndOf(b) = 2 * (b * PairsPerIteration) /\ b * PairsPerIteration \in Nat
  <2>1. b * PairsPerIteration \in Nat /\ b * GamesPerIteration \in Nat
    BY <1>1
  <2>2. b * (2 * PairsPerIteration) = 2 * (b * PairsPerIteration)
    BY <1>1
  <2>3. (b + 1) * GamesPerIteration = b * GamesPerIteration + GamesPerIteration
    BY <1>1
  <2> QED
    BY <1>1, <2>1, <2>2, <2>3 DEF EndOf
<1>3. EndOf(0) = 0
  BY <1>1 DEF EndOf
<1> QED
  BY <1>1, <1>2, <1>3

LEMMA EndOfOrder ==
    ASSUME NEW a \in Nat, NEW b \in Nat
    PROVE  /\ a < b => EndOf(a + 1) <= EndOf(b)
           /\ a <= b => EndOf(a) <= EndOf(b)
<1>1. GamesPerIteration \in Nat
  BY EndOfType
<1>2. \A c, d \in Nat : c <= d => c * GamesPerIteration <= d * GamesPerIteration
  <2> SUFFICES ASSUME NEW c \in Nat, NEW d \in Nat, c <= d
               PROVE  c * GamesPerIteration <= d * GamesPerIteration
    OBVIOUS
  <2>1. PICK e \in Nat : d = c + e
    <3>1. d - c \in Nat /\ d = c + (d - c)
      OBVIOUS
    <3> QED
      BY <3>1
  <2>2. d * GamesPerIteration = c * GamesPerIteration + e * GamesPerIteration
    BY <1>1, <2>1
  <2>3. c * GamesPerIteration \in Nat /\ e * GamesPerIteration \in Nat
    BY <1>1
  <2> QED
    BY <2>2, <2>3
<1>3. a < b => a + 1 <= b
  OBVIOUS
<1>4. a + 1 \in Nat
  OBVIOUS
<1> QED
  BY <1>2, <1>3, <1>4 DEF EndOf

\* A line lies in one block.
LEMMA OneBlock ==
    ASSUME NEW a \in Nat, NEW b \in Nat, NEW i \in Nat,
           EndOf(a) < i, i <= EndOf(a + 1), EndOf(b) < i, i <= EndOf(b + 1)
    PROVE  a = b
<1>1. EndOf(a) \in Nat /\ EndOf(b) \in Nat /\ EndOf(a + 1) \in Nat /\ EndOf(b + 1) \in Nat
  <2>1. a + 1 \in Nat /\ b + 1 \in Nat
    OBVIOUS
  <2> QED
    BY <2>1, EndOfType
<1>2. ~(a < b)
  <2> SUFFICES ASSUME a < b PROVE FALSE
    OBVIOUS
  <2>1. EndOf(a + 1) <= EndOf(b)
    BY EndOfOrder
  <2> QED
    BY <1>1, <2>1
<1>3. ~(b < a)
  <2> SUFFICES ASSUME b < a PROVE FALSE
    OBVIOUS
  <2>1. EndOf(b + 1) <= EndOf(a)
    BY EndOfOrder
  <2> QED
    BY <1>1, <2>1
<1> QED
  BY <1>2, <1>3

\* The official lines of an iteration are its block, and there are none of an
\* iteration that was not committed.
LEMMA OfficialBlock ==
    ASSUME journal \in Seq(Line), NEW b \in Nat, JournalOf(b), NEW iteration \in Nat
    PROVE  /\ iteration < b =>
                  Official(iteration) = (EndOf(iteration) + 1)..EndOf(iteration + 1)
           /\ ~(iteration < b) => Official(iteration) = {}
<1>1. Len(journal) \in Nat /\ DOMAIN journal = 1..Len(journal)
  BY LenProperties
<1>2. /\ EndOf(iteration) \in Nat /\ EndOf(iteration + 1) \in Nat
      /\ EndOf(b) \in Nat /\ EndOf(b) <= Len(journal)
      /\ EndOf(iteration) < EndOf(iteration + 1)
  <2>1. iteration + 1 \in Nat /\ b + 1 \in Nat /\ GamesPerIteration \in Nat \ {0}
    BY EndOfType
  <2>2. /\ EndOf(iteration) \in Nat /\ EndOf(iteration + 1) = EndOf(iteration) + GamesPerIteration
        /\ EndOf(b) \in Nat /\ EndOf(b + 1) = EndOf(b) + GamesPerIteration
    BY EndOfType
  <2>3. Len(journal) = EndOf(b) \/ Len(journal) = EndOf(b + 1)
    BY DEF JournalOf
  <2> QED
    BY <2>1, <2>2, <2>3
<1>3. \A i \in 1..Len(journal) : /\ InPlace(i) /\ journal[i].iteration \in Nat
                                 /\ journal[i].class = "official" <=> i <= EndOf(b)
  <2>1. \A i \in 1..Len(journal) : journal[i].iteration \in Nat
    <3>1. \A i \in 1..Len(journal) : journal[i] \in Line
      BY <1>1, ElementOfSeq
    <3>2. \A line \in Line : line.iteration \in Nat
      BY SizeAssumption DEF Line
    <3> QED
      BY <3>1, <3>2
  <2> QED
    BY <2>1 DEF JournalOf
<1>4. ASSUME NEW i \in Official(iteration)
      PROVE  EndOf(iteration) < i /\ i <= EndOf(iteration + 1) /\ i <= EndOf(b) /\ i \in Nat
  BY <1>1, <1>3 DEF Official, InPlace
<1>5. CASE iteration < b
  <2>1. EndOf(iteration + 1) <= EndOf(b)
    BY <1>5, EndOfOrder
  <2>2. ASSUME NEW i \in (EndOf(iteration) + 1)..EndOf(iteration + 1)
        PROVE  i \in Official(iteration)
    <3>1. /\ i \in Nat /\ i \in 1..Len(journal) /\ i <= EndOf(b)
          /\ EndOf(iteration) < i /\ i <= EndOf(iteration + 1)
      BY <1>1, <1>2, <2>1
    <3>2. journal[i].iteration = iteration
      BY <1>3, <3>1, OneBlock DEF InPlace
    <3> QED
      BY <1>1, <1>3, <3>1, <3>2 DEF Official
  <2>3. ASSUME NEW i \in Official(iteration)
        PROVE  i \in (EndOf(iteration) + 1)..EndOf(iteration + 1)
    BY <1>2, <1>4
  <2> QED
    BY <1>5, <2>2, <2>3
<1>6. CASE ~(iteration < b)
  <2>1. EndOf(b) <= EndOf(iteration)
    BY <1>6, EndOfOrder
  <2>2. ASSUME NEW i \in Official(iteration) PROVE FALSE
    BY <1>2, <1>4, <2>1
  <2> QED
    BY <1>6, <2>2
<1> QED
  BY <1>5, <1>6

\* Where a line's number is its index, two lines make a pair if the first of
\* them is odd.
LEMMA IdAtIs ==
    ASSUME NEW i \in Nat, journal[i].number = i, NEW j \in Nat
    PROVE  IdAt(i) = j <=> i = 2 * j - 1 \/ i = 2 * j
BY DEF IdAt, PairOf

\* What pairs_from_journal makes of such a block: every second line completes a
\* pair with the line before it.
LEMMA CompletingIs ==
    ASSUME NEW m \in Nat, NEW mine, mine = (2 * m + 1)..(2 * m + 2 * PairsPerIteration),
           \A i \in mine : journal[i].number = i
    PROVE  /\ Completing(mine) = {2 * (m + n) : n \in 1..PairsPerIteration}
           /\ \A n \in 1..PairsPerIteration :
                 Other(mine, 2 * (m + n)) = 2 * (m + n) - 1 /\ IdAt(2 * (m + n)) = m + n
<1> DEFINE P == PairsPerIteration
           same(i) == {k \in mine : k <= i /\ IdAt(k) = IdAt(i)}
<1>0. P \in Nat \ {0}
  BY SizeAssumption
<1>1. ASSUME NEW n \in 1..P
      PROVE  /\ 2 * (m + n) \in mine /\ 2 * (m + n) - 1 \in mine /\ m + n \in Nat
             /\ IdAt(2 * (m + n)) = m + n /\ IdAt(2 * (m + n) - 1) = m + n
             /\ \A k \in mine : IdAt(k) = m + n => k = 2 * (m + n) - 1 \/ k = 2 * (m + n)
  <2>1. m + n \in Nat /\ 2 * (m + n) \in mine /\ 2 * (m + n) - 1 \in mine
    BY <1>0
  <2>2. \A k \in mine : k \in Nat /\ journal[k].number = k
    BY <1>0
  <2>3. IdAt(2 * (m + n)) = m + n /\ IdAt(2 * (m + n) - 1) = m + n
    BY <2>1, <2>2, IdAtIs
  <2>4. \A k \in mine : IdAt(k) = m + n => k = 2 * (m + n) - 1 \/ k = 2 * (m + n)
    BY <2>1, <2>2, IdAtIs
  <2> QED
    BY <2>1, <2>3, <2>4
<1>2. \A i \in mine : \E n \in 1..P : i = 2 * (m + n) \/ i = 2 * (m + n) - 1
  <2> SUFFICES ASSUME NEW i \in mine
               PROVE  \E n \in 1..P : i = 2 * (m + n) \/ i = 2 * (m + n) - 1
    OBVIOUS
  <2>1. i \in Nat /\ 2 * m + 1 <= i /\ i <= 2 * m + 2 * P
    BY <1>0
  <2>2. PICK j \in Nat : i = 2 * j - 1 \/ i = 2 * j
    BY <2>1, PairOfNumber
  <2>3. j - m \in 1..P /\ m + (j - m) = j
    BY <1>0, <2>1, <2>2
  <2> QED
    BY <2>2, <2>3
<1>3. ASSUME NEW n \in 1..P
      PROVE  /\ Cardinality(same(2 * (m + n))) = 2
             /\ Cardinality(same(2 * (m + n) - 1)) = 1
  <2> DEFINE i == 2 * (m + n)
  <2>1. i \in Nat /\ i - 1 \in Nat /\ i # i - 1
    BY <1>0
  <2>2. same(i) = {i - 1, i}
    BY <1>1, <2>1
  <2>3. same(i - 1) = {i - 1}
    BY <1>1, <2>1
  <2> HIDE DEF i, same
  <2>4. Cardinality({i - 1}) = 1 /\ IsFiniteSet({i - 1})
    BY FS_Singleton
  <2>5. Cardinality({i - 1} \cup {i}) = 2
    <3> DEFINE one == {i - 1}
               two == one \cup {i}
    <3>1. i \notin one /\ IsFiniteSet(one) /\ Cardinality(one) = 1
      BY <2>1, <2>4
    <3> HIDE DEF one
    <3>2. Cardinality(two) = Cardinality(one) + 1
      BY <3>1, FS_AddElement
    <3> HIDE DEF two
    <3>3. Cardinality(two) = 2
      BY <3>1, <3>2
    <3> QED
      BY <3>3 DEF two, one
  <2>6. {i - 1} \cup {i} = {i - 1, i}
    OBVIOUS
  <2> QED
    BY <2>2, <2>3, <2>4, <2>5, <2>6 DEF i
<1>4. ASSUME NEW i \in mine
      PROVE  i \in Completing(mine) <=> \E n \in 1..P : i = 2 * (m + n)
  <2>1. i \in Completing(mine) <=> Cardinality(same(i)) % 2 = 0
    BY DEF Completing
  <2> HIDE DEF same
  <2>2. PICK n \in 1..P : i = 2 * (m + n) \/ i = 2 * (m + n) - 1
    BY <1>2
  <2>3. CASE i = 2 * (m + n)
    BY <1>3, <2>1, <2>3
  <2>4. CASE i = 2 * (m + n) - 1
    <3>1. ~ \E q \in 1..P : i = 2 * (m + q)
      BY <1>0, <2>4
    <3>2. Cardinality(same(i)) = 1
      BY <1>3, <2>4
    <3> QED
      BY <2>1, <3>1, <3>2
  <2> QED
    BY <2>2, <2>3, <2>4
<1>5. Completing(mine) = {2 * (m + n) : n \in 1..P}
  <2>1. Completing(mine) \subseteq mine
    BY DEF Completing
  <2>2. \A n \in 1..P : 2 * (m + n) \in mine
    BY <1>1
  <2> QED
    BY <1>4, <2>1, <2>2
<1>6. ASSUME NEW n \in 1..P
      PROVE  Other(mine, 2 * (m + n)) = 2 * (m + n) - 1
  <2> DEFINE i == 2 * (m + n)
  <2>1. i \in Nat /\ i - 1 < i
    BY <1>0
  <2>2. /\ i - 1 \in mine /\ IdAt(i - 1) = IdAt(i)
        /\ \A k \in mine : k < i /\ IdAt(k) = IdAt(i) => k = i - 1
    BY <1>1, <2>1
  <2>3. \A j \in mine : ~(i - 1 < j /\ j < i)
    <3>1. \A j \in mine : j \in Nat
      BY <1>0
    <3> QED
      BY <2>1, <3>1
  <2> HIDE DEF i
  <2>4. Other(mine, i) = i - 1
    BY <2>1, <2>2, <2>3 DEF Other
  <2> QED
    BY <2>4 DEF i
<1> QED
  BY <1>1, <1>5, <1>6

\* So the pairs of a block are its lines two by two, in order.
LEMMA PairsOfBlock ==
    ASSUME NEW m \in Nat, NEW mine, mine = (2 * m + 1)..(2 * m + 2 * PairsPerIteration),
           \A i \in mine : journal[i].number = i
    PROVE  PairsFrom(mine) = [n \in 1..PairsPerIteration |->
               [first |-> GameOf(journal[2 * (m + n) - 1]), second |-> GameOf(journal[2 * (m + n)])]]
<1> DEFINE P == PairsPerIteration
           complete == Completing(mine)
           last == [n \in 1..P |-> 2 * (m + n)]
           At(n) == CHOOSE i \in complete :
                        Cardinality({k \in complete : Precedes(k, i)}) = n - 1
<1>0. P \in Nat \ {0}
  BY SizeAssumption
<1>1. /\ complete = {2 * (m + n) : n \in 1..P}
      /\ \A n \in 1..P : Other(mine, 2 * (m + n)) = 2 * (m + n) - 1 /\ IdAt(2 * (m + n)) = m + n
  BY CompletingIs
<1> HIDE DEF complete
<1>2. ASSUME NEW q \in 0..P
      PROVE  Cardinality({last[n] : n \in 1..q}) = q
  <2> DEFINE f == [n \in 1..q |-> last[n]]
             S == {last[n] : n \in 1..q}
  <2>1. \A n \in 1..q : n \in 1..P /\ f[n] = 2 * (m + n) /\ last[n] = 2 * (m + n)
    BY <1>0
  <2>2. \A n, k \in 1..q : f[n] = f[k] => n = k
    BY <1>0, <2>1
  <2>3. f \in [1..q -> S] /\ \A s \in S : \E n \in 1..q : f[n] = s
    OBVIOUS
  <2>4. f \in Bijection(1..q, S)
    <3> HIDE DEF f, S
    <3> QED
      BY <2>2, <2>3 DEF Bijection, Injection, Surjection, IsInjective
  <2>5. ExistsBijection(1..q, S)
    BY <2>4 DEF ExistsBijection
  <2>6. IsFiniteSet(1..q) /\ Cardinality(1..q) = q
    <3>1. q \in Int /\ 1 \in Int /\ q >= 0
      BY <1>0
    <3>2. IsFiniteSet(1..q) /\ Cardinality(1..q) = IF 1 > q THEN 0 ELSE q - 1 + 1
      BY <3>1, FS_Interval
    <3> QED
      BY <3>1, <3>2
  <2> HIDE DEF S
  <2>7. Cardinality(S) = q
    BY <2>5, <2>6, FS_Bijection
  <2> QED
    BY <2>7 DEF S
<1>3. complete = {last[n] : n \in 1..P} /\ \A n \in 1..P : last[n] = 2 * (m + n)
  BY <1>1
<1>4. Cardinality(complete) = P
  <2>1. P \in 0..P
    BY <1>0
  <2> HIDE DEF last
  <2> QED
    BY <1>2, <1>3, <2>1
<1>5. ASSUME NEW n \in 1..P
      PROVE  Cardinality({k \in complete : Precedes(k, last[n])}) = n - 1
  <2>1. ASSUME NEW k \in 1..P
        PROVE  Precedes(last[k], last[n]) <=> k < n
    <3>1. IdAt(last[k]) = m + k /\ IdAt(last[n]) = m + n
      BY <1>1, <1>3
    <3>2. last[k] = 2 * (m + k) /\ last[n] = 2 * (m + n)
      BY <1>3
    <3> HIDE DEF last
    <3> QED
      BY <1>0, <3>1, <3>2 DEF Precedes
  <2>2. {k \in complete : Precedes(k, last[n])} = {last[k] : k \in 1..(n - 1)}
    <3>1. \A k \in 1..(n - 1) : k \in 1..P /\ k < n
      BY <1>0
    <3>2. \A k \in 1..P : k < n => k \in 1..(n - 1)
      BY <1>0
    <3> HIDE DEF last
    <3> QED
      BY <1>3, <2>1, <3>1, <3>2
  <2>3. n - 1 \in 0..P
    BY <1>0
  <2> QED
    BY <1>2, <2>2, <2>3
<1>6. ASSUME NEW n \in 1..P
      PROVE  At(n) = last[n]
  <2>1. last[n] \in complete
    BY <1>3
  <2>2. ASSUME NEW i \in complete, Cardinality({k \in complete : Precedes(k, i)}) = n - 1
        PROVE  i = last[n]
    <3>1. PICK q \in 1..P : i = last[q]
      BY <1>3
    <3>2. q - 1 = n - 1
      BY <1>5, <2>2, <3>1
    <3> QED
      BY <3>1, <3>2
  <2> HIDE DEF last
  <2> QED
    BY <1>5, <2>1, <2>2
<1>7. ASSUME NEW n \in 1..P
      PROVE  Joined(GameOf(journal[Other(mine, At(n))]), GameOf(journal[At(n)])) =
                 [first |-> GameOf(journal[2 * (m + n) - 1]), second |-> GameOf(journal[2 * (m + n)])]
  <2>1. At(n) = 2 * (m + n) /\ Other(mine, At(n)) = 2 * (m + n) - 1
    BY <1>1, <1>3, <1>6
  <2>2. /\ journal[2 * (m + n)].number = 2 * (m + n)
        /\ journal[2 * (m + n) - 1].number = 2 * (m + n) - 1
        /\ 2 * (m + n) \in Nat
    <3>1. 2 * (m + n) \in mine /\ 2 * (m + n) - 1 \in mine /\ 2 * (m + n) \in Nat
      BY <1>0
    <3> QED
      BY <3>1
  <2> HIDE DEF At
  <2> QED
    BY <2>1, <2>2 DEF Joined, GameOf
<1>8. PairsFrom(mine) = [n \in 1..P |-> Joined(GameOf(journal[Other(mine, At(n))]), GameOf(journal[At(n)]))]
  BY <1>4 DEF PairsFrom, complete
<1> HIDE DEF At
<1> QED
  BY <1>7, <1>8

\* iterations_from_journal gives each committed iteration its block, and no
\* other iteration anything.
LEMMA IterationIs ==
    ASSUME journal \in Seq(Line), NEW b \in Nat, JournalOf(b), NEW iteration \in Nat
    PROVE  /\ iteration < b =>
                  /\ IterationPairs(iteration) = BlockPairs(iteration)
                  /\ Len(IterationPairs(iteration)) = PairsPerIteration
           /\ ~(iteration < b) => Len(IterationPairs(iteration)) = 0
<1> DEFINE P == PairsPerIteration
           m == iteration * P
<1>1. /\ P \in Nat \ {0} /\ m \in Nat /\ EndOf(iteration) = 2 * m
      /\ EndOf(iteration + 1) = 2 * m + 2 * P
  BY EndOfType
<1>2. CASE iteration < b
  <2> DEFINE mine == Official(iteration)
  <2>1. mine = (2 * m + 1)..(2 * m + 2 * P)
    BY <1>1, <1>2, OfficialBlock
  <2>2. \A i \in mine : journal[i].number = i
    <3>1. Len(journal) \in Nat /\ DOMAIN journal = 1..Len(journal)
      BY LenProperties
    <3>2. \A i \in mine : i \in 1..Len(journal)
      BY <3>1 DEF Official
    <3> QED
      BY <3>2 DEF JournalOf, InPlace
  <2> HIDE DEF m, mine
  <2>3. PairsFrom(mine) = [n \in 1..P |->
            [first |-> GameOf(journal[2 * (m + n) - 1]), second |-> GameOf(journal[2 * (m + n)])]]
    BY <1>1, <2>1, <2>2, PairsOfBlock
  <2>4. \A n \in 1..P : 2 * (m + n) - 1 = EndOf(iteration) + 2 * n - 1
                        /\ 2 * (m + n) = EndOf(iteration) + 2 * n
    BY <1>1
  <2>5. PairsFrom(mine) = BlockPairs(iteration)
    BY <2>3, <2>4 DEF BlockPairs
  <2>6. Len(BlockPairs(iteration)) = P
    <3> DEFINE block == BlockPairs(iteration)
               S == {block[n] : n \in 1..P}
    <3>1. block \in [1..P -> S]
      BY DEF BlockPairs
    <3> HIDE DEF S, block
    <3>2. Len(block) = P
      BY <1>1, <3>1, SeqDef, LenProperties
    <3> QED
      BY <3>2 DEF block
  <2> QED
    BY <1>2, <2>5, <2>6 DEF IterationPairs, mine
<1>3. CASE ~(iteration < b)
  <2>1. Official(iteration) = {}
    BY <1>3, OfficialBlock
  <2>2. Completing({}) = {} /\ Cardinality({}) = 0
    BY FS_EmptySet DEF Completing
  <2> DEFINE none == PairsFrom({})
  <2>3. none \in [1..0 -> {}]
    <3> DEFINE At(n) == CHOOSE i \in Completing({}) :
                            Cardinality({k \in Completing({}) : Precedes(k, i)}) = n - 1
               pair(n) == Joined(GameOf(journal[Other({}, At(n))]), GameOf(journal[At(n)]))
    <3>1. none = [n \in 1..Cardinality(Completing({})) |-> pair(n)]
      BY DEF PairsFrom
    <3>2. 1..Cardinality(Completing({})) = 1..0
      BY <2>2
    <3>3. \A n \in 1..0 : pair(n) \in {}
      <4>1. 1..0 = {}
        OBVIOUS
      <4> QED
        BY <4>1
    <3> HIDE DEF none, pair
    <3>4. none = [n \in 1..0 |-> pair(n)]
      BY <3>1, <3>2
    <3> QED
      BY <3>3, <3>4
  <2> HIDE DEF none
  <2>4. Len(none) = 0
    BY <2>3, SeqDef, LenProperties
  <2> QED
    BY <1>3, <2>1, <2>4 DEF IterationPairs, none
<1> QED
  BY <1>2, <1>3

\* So replay_iterations comes to the committed iterations, every one of them and
\* no other.
LEMMA ReplayIs ==
    ASSUME journal \in Seq(Line), NEW b \in 0..Iterations, JournalOf(b)
    PROVE  Replayed = b /\ ReplayedScores = ScoresUpTo(b)
<1>1. Iterations \in Nat /\ b \in Nat /\ b <= Iterations /\ PairsPerIteration \in Nat \ {0}
  BY SizeAssumption
<1>2. \A i \in Nat : Len(IterationPairs(i)) = PairsPerIteration <=> i < b
  <2> SUFFICES ASSUME NEW i \in Nat
               PROVE  Len(IterationPairs(i)) = PairsPerIteration <=> i < b
    OBVIOUS
  <2> QED
    BY <1>1, IterationIs
<1>3. {n \in 1..Iterations : \A i \in 0..(n - 1) : Len(IterationPairs(i)) = PairsPerIteration} = 1..b
  <2>1. ASSUME NEW n \in 1..Iterations
        PROVE  (\A i \in 0..(n - 1) : Len(IterationPairs(i)) = PairsPerIteration) <=> n \in 1..b
    <3>1. \A i \in 0..(n - 1) : i \in Nat
      OBVIOUS
    <3>2. (\A i \in 0..(n - 1) : Len(IterationPairs(i)) = PairsPerIteration)
          <=> (\A i \in 0..(n - 1) : i < b)
      BY <1>2, <3>1
    <3>3. (\A i \in 0..(n - 1) : i < b) <=> n \in 1..b
      <4>1. n - 1 \in 0..(n - 1)
        BY <1>1
      <4> QED
        BY <1>1, <4>1
    <3> QED
      BY <3>2, <3>3
  <2>2. 1..b \subseteq 1..Iterations
    BY <1>1
  <2> QED
    BY <2>1, <2>2
<1>4. Cardinality(1..b) = b
  <2>1. b \in Int /\ 1 \in Int
    BY <1>1
  <2>2. Cardinality(1..b) = IF 1 > b THEN 0 ELSE b - 1 + 1
    BY <2>1, FS_Interval
  <2> QED
    BY <1>1, <2>2
<1>5. Replayed = b
  BY <1>3, <1>4 DEF Replayed
<1>6. ASSUME NEW i \in 1..b
      PROVE  IterationPairs(i - 1) = BlockPairs(i - 1)
  <2>1. i - 1 \in Nat /\ i - 1 < b
    BY <1>1
  <2> QED
    BY <1>1, <2>1, IterationIs
<1> QED
  BY <1>5, <1>6 DEF ReplayedScores, ScoresUpTo

LEMMA ScoresUpToLen ==
    ASSUME NEW n \in Nat
    PROVE  /\ Len(ScoresUpTo(n)) = n
           /\ ScoresUpTo(n) \in Seq({ScoreOf(BlockPairs(i - 1)) : i \in 1..n})
<1> DEFINE list == ScoresUpTo(n)
           S == {ScoreOf(BlockPairs(i - 1)) : i \in 1..n}
<1>1. list \in [1..n -> S]
  BY DEF ScoresUpTo
<1> HIDE DEF list, S
<1>2. list \in Seq(S) /\ Len(list) = n
  BY <1>1, SeqDef, LenProperties
<1> QED
  BY <1>2 DEF list, S

LEMMA FewerScores ==
    ASSUME NEW b \in Nat, NEW n \in 0..b
    PROVE  IsPrefix(ScoresUpTo(n), ScoresUpTo(b))
<1> DEFINE few == ScoresUpTo(n)
           all == ScoresUpTo(b)
           S == {ScoreOf(BlockPairs(i - 1)) : i \in 1..n}
           T == {ScoreOf(BlockPairs(i - 1)) : i \in 1..b}
<1>1. n \in Nat /\ n <= b
  OBVIOUS
<1>2. few \in Seq(S) /\ Len(few) = n /\ all \in Seq(T) /\ Len(all) = b
  BY <1>1, ScoresUpToLen
<1>3. \A i \in 1..n : i \in 1..b /\ few[i] = all[i]
  BY <1>1 DEF ScoresUpTo
<1> HIDE DEF few, all, S, T
<1>4. SubSeq(few, 1, n) = [i \in 1..n |-> few[i]] /\ SubSeq(all, 1, n) = [i \in 1..n |-> all[i]]
  BY <1>1, <1>2
<1>5. SubSeq(few, 1, n) = SubSeq(all, 1, n)
  BY <1>3, <1>4
<1>6. IsPrefix(few, all)
  BY <1>1, <1>2, <1>5 DEF IsPrefix
<1> QED
  BY <1>6 DEF few, all

LEMMA BlocksMean ==
    ASSUME TuneInv, BlocksInv
    PROVE  CentresAreJournalled /\ ReplayIsFaithful
<1>1. PICK b \in 0..Iterations : Stands(b)
  BY DEF BlocksInv
<1>2. b \in Nat /\ journal \in Seq(Line) /\ JournalOf(b)
  BY <1>1, SizeAssumption DEF TuneInv, TuneTypeOK, Stands
<1>3. ReplayedScores = ScoresUpTo(b)
  BY <1>2, ReplayIs
<1>4. PICK n \in 0..b : published.scores = ScoresUpTo(n)
  BY <1>1 DEF Stands
<1>5. IsPrefix(published.scores, ReplayedScores)
  BY <1>2, <1>3, <1>4, FewerScores
<1> QED
  BY <1>1, <1>3, <1>5 DEF Stands, CentresAreJournalled, ReplayIsFaithful

-----------------------------------------------------------------------------
(* What a step does to the blocks. *)

\* Blocks whose lines stay keep their scores.
LEMMA SameBlocks ==
    ASSUME NEW n \in Nat, \A i \in 1..EndOf(n) : journal'[i] = journal[i]
    PROVE  ScoresUpTo(n)' = ScoresUpTo(n)
<1>1. ASSUME NEW i \in 1..n
      PROVE  BlockPairs(i - 1)' = BlockPairs(i - 1)
  <2>1. i - 1 \in Nat /\ (i - 1) + 1 = i /\ i \in Nat /\ i <= n
    OBVIOUS
  <2>2. /\ EndOf(i - 1) \in Nat /\ EndOf(i) = EndOf(i - 1) + 2 * PairsPerIteration
        /\ EndOf(i) <= EndOf(n) /\ EndOf(n) \in Nat /\ PairsPerIteration \in Nat
    BY <2>1, EndOfType, EndOfOrder
  <2>3. ASSUME NEW k \in 1..PairsPerIteration
        PROVE  /\ journal'[EndOf(i - 1) + 2 * k - 1] = journal[EndOf(i - 1) + 2 * k - 1]
               /\ journal'[EndOf(i - 1) + 2 * k] = journal[EndOf(i - 1) + 2 * k]
    <3>1. EndOf(i - 1) + 2 * k - 1 \in 1..EndOf(n) /\ EndOf(i - 1) + 2 * k \in 1..EndOf(n)
      BY <2>2
    <3> QED
      BY <3>1
  <2> QED
    BY <2>3 DEF BlockPairs, GameOf, EndOf, GamesPerIteration
<1>2. ASSUME NEW i \in 1..n
      PROVE  ScoreOf(BlockPairs(i - 1))' = ScoreOf(BlockPairs(i - 1))
  BY <1>1 DEF ScoreOf, Count
<1> QED
  BY <1>2 DEF ScoresUpTo

LEMMA SameJournal ==
    ASSUME NEW b \in Nat, JournalOf(b), journal' = journal
    PROVE  JournalOf(b)'
BY DEF JournalOf, InPlace, EndOf, GamesPerIteration

\* A step after which the driver, if it is up, stands on the blocks there were.
LEMMA StandsNext ==
    ASSUME NEW b \in Nat, JournalOf(b)', \A i \in 1..EndOf(b) : journal'[i] = journal[i],
           NEW n \in 0..b, published'.scores = ScoresUpTo(n), EndOf(n) <= settled',
           pc' # "down" => scores' = ScoresUpTo(b),
           pc' \in {"loop", "mini"} => Len(journal') = EndOf(b)
    PROVE  Stands(b)'
<1>1. n \in Nat /\ n <= b
  OBVIOUS
<1>2. EndOf(n) <= EndOf(b) /\ EndOf(n) \in Nat /\ EndOf(b) \in Nat
  BY <1>1, EndOfType, EndOfOrder
<1>3. \A i \in 1..EndOf(n) : i \in 1..EndOf(b)
  BY <1>2
<1>4. ScoresUpTo(b)' = ScoresUpTo(b) /\ ScoresUpTo(n)' = ScoresUpTo(n)
  BY <1>1, <1>3, SameBlocks
<1>5. published'.scores = ScoresUpTo(n)'
  BY <1>4
<1>6. pc' # "down" => scores' = ScoresUpTo(b)'
  BY <1>4
<1> QED
  BY <1>5, <1>6 DEF Stands, EndOf, GamesPerIteration

LEMMA QuietStands ==
    ASSUME NEW b \in Nat, Stands(b), journal' = journal,
           published' = published, settled' = settled,
           pc' = "down" \/ (pc # "down" /\ scores' = scores),
           pc' \in {"loop", "mini"} => pc \in {"loop", "mini"}
    PROVE  Stands(b)'
<1>1. JournalOf(b)'
  BY SameJournal DEF Stands
<1>2. PICK n \in 0..b : published.scores = ScoresUpTo(n) /\ EndOf(n) <= settled
  BY DEF Stands
<1>3. /\ published'.scores = ScoresUpTo(n) /\ EndOf(n) <= settled'
      /\ pc' # "down" => scores' = ScoresUpTo(b)
      /\ pc' \in {"loop", "mini"} => Len(journal') = EndOf(b)
      /\ \A i \in 1..EndOf(b) : journal'[i] = journal[i]
  BY <1>2 DEF Stands
<1> QED
  BY <1>1, <1>3, StandsNext

\* A result is written for the scores the driver has, and for all its lines.
LEMMA ExitStands ==
    ASSUME TuneInv, NEW b \in Nat, Stands(b), Exit
    PROVE  Stands(b)'
<1>1. /\ pc = "ended" /\ pc' = "down" /\ journal' = journal
      /\ \/ published' = published /\ settled' = settled
         \/ published'.scores = scores /\ settled' = Len(journal)
  BY DEF Exit, Down
<1>2. CASE published' = published /\ settled' = settled
  BY <1>1, <1>2, QuietStands
<1>3. CASE published'.scores = scores /\ settled' = Len(journal)
  <2>1. JournalOf(b)' /\ b \in 0..b
    BY <1>1, SameJournal DEF Stands
  <2>2. published'.scores = ScoresUpTo(b)
    BY <1>1, <1>3 DEF Stands
  <2>3. EndOf(b) <= Len(journal)
    <3>1. EndOf(b) \in Nat /\ EndOf(b + 1) = EndOf(b) + GamesPerIteration
          /\ GamesPerIteration \in Nat
      BY EndOfType
    <3> QED
      BY <3>1 DEF Stands, JournalOf
  <2>4. /\ pc' # "down" => scores' = ScoresUpTo(b)
        /\ pc' \in {"loop", "mini"} => Len(journal') = EndOf(b)
        /\ \A i \in 1..EndOf(b) : journal'[i] = journal[i]
        /\ EndOf(b) <= settled'
    BY <1>1, <1>3, <2>3
  <2> QED
    BY <2>1, <2>2, <2>4, StandsNext
<1> QED
  BY <1>1, <1>2, <1>3

\* The next invocation has the scores of the journal it finds.
LEMMA ResumeStands ==
    ASSUME TuneInv, NEW b \in 0..Iterations, Stands(b), Resume
    PROVE  Stands(b)'
<1>1. b \in Nat /\ journal \in Seq(Line) /\ JournalOf(b) /\ Len(journal) \in Nat
  BY SizeAssumption, LenProperties DEF TuneInv, TuneTypeOK, Stands
<1>2. /\ journal' = journal /\ published' = published /\ settled' = settled
      /\ pc' = "loop" /\ scores' = ScoresUpTo(b)
  BY <1>1, ReplayIs DEF Resume, directory
<1>3. Len(journal) = EndOf(b)
  <2> SUFFICES ASSUME Len(journal) = EndOf(b + 1) PROVE Len(journal) = EndOf(b)
    BY <1>1 DEF JournalOf
  <2>1. EndOf(b) \in Nat /\ EndOf(b + 1) = EndOf(b) + GamesPerIteration
        /\ GamesPerIteration \in Nat \ {0}
    BY <1>1, EndOfType
  <2>2. Len(journal) \in 1..Len(journal) /\ ~(Len(journal) <= EndOf(b))
    BY <1>1, <2>1
  <2>3. journal[Len(journal)].class = "invalid"
    BY <1>1, <2>2 DEF JournalOf
  <2>4. HasInvalid
    BY <2>2, <2>3 DEF HasInvalid
  <2> QED
    BY <2>4, ResumeIsClean
<1>4. PICK n \in 0..b : published.scores = ScoresUpTo(n) /\ EndOf(n) <= settled
  BY DEF Stands
<1>5. JournalOf(b)'
  BY <1>1, <1>2, SameJournal
<1>6. /\ published'.scores = ScoresUpTo(n) /\ EndOf(n) <= settled'
      /\ pc' # "down" => scores' = ScoresUpTo(b)
      /\ pc' \in {"loop", "mini"} => Len(journal') = EndOf(b)
      /\ \A i \in 1..EndOf(b) : journal'[i] = journal[i]
  BY <1>2, <1>3, <1>4
<1> QED
  BY <1>1, <1>5, <1>6, StandsNext

\* A multiple of the games of an iteration is where a block ends.
LEMMA WholeBlocks ==
    ASSUME NEW kept \in Nat, kept % GamesPerIteration = 0
    PROVE  \E q \in Nat : kept = EndOf(q)
<1>1. GamesPerIteration \in Nat \ {0}
  BY EndOfType
<1> DEFINE q == kept \div GamesPerIteration
<1>2. q \in Nat /\ kept = (GamesPerIteration * q) + (kept % GamesPerIteration)
  BY <1>1
<1>3. kept = q * GamesPerIteration
  <2> HIDE DEF q
  <2>1. GamesPerIteration * q \in Nat /\ GamesPerIteration * q = q * GamesPerIteration
    BY <1>1, <1>2
  <2> QED
    BY <1>2, <2>1
<1> HIDE DEF q
<1> QED
  BY <1>2, <1>3 DEF EndOf

\* A crash that cuts between two iterations leaves blocks, and those a result
\* was written for.
LEMMA CrashStands ==
    ASSUME TuneInv, CutAnywhere = FALSE, NEW b \in 0..Iterations, Stands(b), Crash
    PROVE  BlocksInv'
<1>1. PICK kept \in settled..Len(journal) :
          kept % GamesPerIteration = 0 /\ journal' = SubSeq(journal, 1, kept)
  BY DEF Crash
<1>2. /\ Len(journal') = kept /\ \A i \in 1..kept : journal'[i] = journal[i]
      /\ kept \in Nat /\ settled <= kept /\ kept <= Len(journal) /\ settled \in Nat
      /\ Len(journal) \in Nat /\ journal \in Seq(Line)
  <2>1. Len(journal) \in Nat /\ settled \in 0..Len(journal) /\ journal \in Seq(Line)
    BY LenProperties DEF TuneInv, TuneTypeOK
  <2>2. Len(journal') = kept /\ \A i \in 1..kept : journal'[i] = journal[i]
    BY <1>1, CutJournal
  <2> QED
    BY <2>1, <2>2
<1>3. pc' = "down" /\ published' = published /\ settled' = settled
  BY DEF Crash, Down
<1>4. PICK n \in 0..b : published.scores = ScoresUpTo(n) /\ EndOf(n) <= settled
  BY DEF Stands
<1>5. /\ b \in Nat /\ n \in Nat /\ b <= Iterations /\ Iterations \in Nat
      /\ EndOf(b) \in Nat /\ EndOf(n) \in Nat
      /\ EndOf(b + 1) = EndOf(b) + GamesPerIteration /\ GamesPerIteration \in Nat \ {0}
      /\ JournalOf(b)
  <2>1. b \in Nat /\ n \in Nat /\ b <= Iterations /\ Iterations \in Nat
    BY SizeAssumption
  <2> QED
    BY <2>1, EndOfType DEF Stands
<1>6. PICK q \in Nat : kept = EndOf(q)
  BY <1>1, <1>2, WholeBlocks
<1>7. n <= q
  <2> SUFFICES ASSUME q < n PROVE FALSE
    BY <1>5
  <2>1. EndOf(q + 1) <= EndOf(n) /\ EndOf(q + 1) = EndOf(q) + GamesPerIteration /\ EndOf(q) \in Nat
    BY <1>5, EndOfOrder, EndOfType
  <2> QED
    BY <1>2, <1>4, <1>5, <1>6, <2>1
<1>8. CASE q <= b
  <2>1. EndOf(q) <= EndOf(b) /\ EndOf(q) \in Nat
    BY <1>5, <1>8, EndOfOrder, EndOfType
  <2>2. ASSUME NEW i \in 1..kept
        PROVE  InPlace(i) /\ journal[i].class = "official" /\ journal'[i] = journal[i]
    <3>1. i \in 1..Len(journal) /\ i <= EndOf(b)
      BY <1>2, <1>5, <1>6, <2>1
    <3> QED
      BY <1>2, <1>5, <3>1 DEF JournalOf
  <2>3. JournalOf(q)'
    <3>1. Len(journal') = EndOf(q)
      BY <1>2, <1>6
    <3>2. \A i \in 1..EndOf(q) : /\ InPlace(i)' /\ journal'[i].class = "official" /\ i <= EndOf(q)
      <4> SUFFICES ASSUME NEW i \in 1..EndOf(q)
                   PROVE  InPlace(i)' /\ journal'[i].class = "official" /\ i <= EndOf(q)
        OBVIOUS
      <4>1. InPlace(i) /\ journal[i].class = "official" /\ journal'[i] = journal[i]
        BY <1>6, <2>2
      <4> QED
        BY <2>1, <4>1 DEF InPlace, EndOf, GamesPerIteration
    <3> QED
      BY <3>1, <3>2 DEF JournalOf, EndOf, GamesPerIteration
  <2>4. /\ \A i \in 1..EndOf(q) : journal'[i] = journal[i]
        /\ n \in 0..q /\ published'.scores = ScoresUpTo(n) /\ EndOf(n) <= settled'
        /\ pc' # "down" => scores' = ScoresUpTo(q)
        /\ pc' \in {"loop", "mini"} => Len(journal') = EndOf(q)
    BY <1>2, <1>3, <1>4, <1>5, <1>6, <1>7
  <2>5. Stands(q)'
    BY <2>3, <2>4, StandsNext
  <2>6. q \in 0..Iterations
    BY <1>5, <1>8
  <2> QED
    BY <2>5, <2>6 DEF BlocksInv
<1>9. CASE b < q
  <2>1. EndOf(b + 1) <= EndOf(q)
    BY <1>5, <1>9, EndOfOrder
  <2>2. kept = Len(journal)
    BY <1>2, <1>5, <1>6, <2>1 DEF JournalOf
  <2>3. journal' = journal
    BY <1>1, <1>2, <2>2
  <2>4. Stands(b)'
    BY <1>3, <1>5, <2>3, QuietStands
  <2> QED
    BY <2>4 DEF BlocksInv
<1> QED
  BY <1>5, <1>8, <1>9

\* The lines of a mini-match that was played, behind those of b iterations, are
\* the block of iteration b, and its pairs are those that were scored.
LEMMA PlayedBlock ==
    ASSUME TuneInv, Played, NEW b \in Nat, JournalOf(b), Len(journal) = EndOf(b), Iteration = b,
           NEW class \in Class, journal' = journal \o LinesOf(pairs, Iteration, class)
    PROVE  /\ Len(journal') = EndOf(b + 1)
           /\ \A i \in 1..EndOf(b) : journal'[i] = journal[i]
           /\ \A i \in (EndOf(b) + 1)..EndOf(b + 1) : InPlace(i)' /\ journal'[i].class = class
           /\ BlockPairs(b)' = pairs
<1> DEFINE P == PairsPerIteration
           old == EndOf(b)
           lines == LinesOf(pairs, b, class)
<1>1. TuneTypeOK /\ Assembled
  BY DEF TuneInv, Played
<1>2. /\ P \in Nat \ {0} /\ old \in Nat /\ old = 2 * (b * P) /\ b * P \in Nat
      /\ EndOf(b + 1) = old + 2 * P
  BY EndOfType
<1>3. /\ pairs \in Seq(Pair) /\ journal \in Seq(Line) /\ Len(pairs) = P /\ Len(journal) = old
      /\ b \in 0..(Iterations - 1)
  <2>1. Len(pairs) = P
    BY WholeInv DEF MiniMatchIsWhole
  <2> QED
    BY <1>1, <2>1, SizeAssumption DEF TuneTypeOK, Assembled
<1>4. ASSUME NEW j \in 1..P
      PROVE  /\ pairs[j].first \in Game /\ pairs[j].second \in Game
             /\ pairs[j] = [first |-> pairs[j].first, second |-> pairs[j].second]
             /\ pairs[j].first.number = old + 2 * j - 1
             /\ pairs[j].second.number = old + 2 * j
  <2>1. Proper(pairs[j]) /\ IdOf(pairs[j]) = FirstPair(b) + j - 1
    BY <1>1, <1>3 DEF Assembled
  <2>2. FirstPair(b) = b * P + 1
    BY DEF FirstPair
  <2>3. /\ pairs[j].first.number = 2 * IdOf(pairs[j]) - 1
        /\ pairs[j].second.number = 2 * IdOf(pairs[j])
        /\ pairs[j] \in Pair
    BY <2>1, ProperNumbers
  <2>4. pairs[j].first.number = old + 2 * j - 1 /\ pairs[j].second.number = old + 2 * j
    BY <1>2, <2>1, <2>2, <2>3
  <2> QED
    BY <2>3, <2>4 DEF Pair
<1>5. lines \in Seq(Line) /\ Len(lines) = 2 * P
  BY <1>3, LinesType
<1>6. ASSUME NEW j \in 1..P
      PROVE  /\ lines[2 * j - 1] = LineOf(pairs[j].first, b, class)
             /\ lines[2 * j] = LineOf(pairs[j].second, b, class)
  <2>1. /\ 2 * j - 1 \in 1..(2 * P) /\ (2 * j - 1) % 2 = 1 /\ ((2 * j - 1) + 1) \div 2 = j
        /\ 2 * j \in 1..(2 * P) /\ (2 * j) % 2 = 0 /\ ((2 * j) + 1) \div 2 = j
    BY <1>2
  <2> DEFINE game(k) == IF k % 2 = 1 THEN pairs[(k + 1) \div 2].first
                                     ELSE pairs[(k + 1) \div 2].second
  <2>2. lines = [k \in 1..(2 * P) |-> LineOf(game(k), b, class)]
    BY <1>3 DEF LinesOf
  <2>3. game(2 * j - 1) = pairs[j].first
    BY <2>1
  <2>4. game(2 * j) = pairs[j].second
    BY <2>1
  <2> HIDE DEF lines, game
  <2> QED
    BY <2>1, <2>2, <2>3, <2>4
<1> HIDE DEF lines
<1>7. /\ Len(journal') = old + 2 * P
      /\ \A i \in 1..old : journal'[i] = journal[i]
      /\ \A k \in 1..(2 * P) : journal'[old + k] = lines[k]
  <2> DEFINE more == 2 * P
  <2>1. journal' = journal \o lines /\ more \in Nat /\ Len(lines) = more
    BY <1>2, <1>5 DEF lines
  <2> HIDE DEF more, old
  <2> DEFINE longer == journal \o lines
  <2>0. journal \in Seq(Line) /\ lines \in Seq(Line) /\ Len(journal) = old /\ Len(lines) = more
    BY <1>3, <1>5, <2>1
  <2>6. /\ Len(longer) = old + more
        /\ \A i \in 1..(old + more) : longer[i] = IF i <= old THEN journal[i] ELSE lines[i - old]
    BY <2>0, ConcatProperties
  <2> HIDE DEF longer
  <2>2. /\ Len(journal') = old + more
        /\ \A i \in 1..(old + more) : journal'[i] = IF i <= old THEN journal[i] ELSE lines[i - old]
    <3>1. journal' = longer
      BY <2>1 DEF longer
    <3> QED
      BY <2>6, <3>1
  <2>3. old \in Nat
    BY <1>2
  <2>4. \A i \in 1..old : i \in 1..(old + more) /\ i <= old
    BY <2>1, <2>3
  <2>5. \A k \in 1..more : old + k \in 1..(old + more) /\ ~(old + k <= old) /\ (old + k) - old = k
    BY <2>1, <2>3
  <2> QED
    BY <2>2, <2>4, <2>5 DEF more
<1>8. ASSUME NEW j \in 1..P
      PROVE  /\ journal'[old + 2 * j - 1] = LineOf(pairs[j].first, b, class)
             /\ journal'[old + 2 * j] = LineOf(pairs[j].second, b, class)
  <2>1. 2 * j - 1 \in 1..(2 * P) /\ 2 * j \in 1..(2 * P) /\ old + (2 * j - 1) = old + 2 * j - 1
    BY <1>2
  <2>2. journal'[old + (2 * j - 1)] = lines[2 * j - 1] /\ journal'[old + 2 * j] = lines[2 * j]
    BY <1>7, <2>1
  <2> QED
    BY <1>6, <2>1, <2>2
<1>9. ASSUME NEW i \in (old + 1)..(old + 2 * P)
      PROVE  journal'[i].number = i /\ journal'[i].iteration = b /\ journal'[i].class = class
  <2>1. i - old \in Nat /\ i - old >= 1 /\ i - old <= 2 * P /\ i \in Nat
    <3>1. old \in Nat /\ P \in Nat
      BY <1>2
    <3> HIDE DEF old, P
    <3> QED
      BY <3>1
  <2>2. PICK j \in Nat : i - old = 2 * j - 1 \/ i - old = 2 * j
    BY <2>1, PairOfNumber
  <2>3. j \in 1..P /\ (i = old + 2 * j - 1 \/ i = old + 2 * j)
    BY <1>2, <2>1, <2>2
  <2> HIDE DEF old
  <2>4. CASE i = old + 2 * j - 1
    <3>1. journal'[i] = LineOf(pairs[j].first, b, class) /\ pairs[j].first.number = i
      BY <1>4, <1>8, <2>3, <2>4
    <3> QED
      BY <3>1 DEF LineOf
  <2>5. CASE i = old + 2 * j
    <3>1. journal'[i] = LineOf(pairs[j].second, b, class) /\ pairs[j].second.number = i
      BY <1>4, <1>8, <2>3, <2>5
    <3> QED
      BY <3>1 DEF LineOf
  <2> QED
    BY <2>3, <2>4, <2>5
<1>10. ASSUME NEW i \in (EndOf(b) + 1)..EndOf(b + 1)
       PROVE  InPlace(i)' /\ journal'[i].class = class
  <2>1. i \in (old + 1)..(old + 2 * P) /\ EndOf(b) < i /\ i <= EndOf(b + 1)
    BY <1>2
  <2>2. journal'[i].number = i /\ journal'[i].iteration = b /\ journal'[i].class = class
    BY <1>9, <2>1
  <2> QED
    BY <2>1, <2>2 DEF InPlace, EndOf, GamesPerIteration
<1>11. BlockPairs(b)' = pairs
  <2>1. ASSUME NEW g \in Game
        PROVE  GameOf(LineOf(g, b, class)) = g
    BY DEF GameOf, LineOf, Game
  <2>2. ASSUME NEW j \in 1..P
        PROVE  /\ [number |-> journal'[old + 2 * j - 1].number,
                   outcome |-> journal'[old + 2 * j - 1].outcome] = pairs[j].first
               /\ [number |-> journal'[old + 2 * j].number,
                   outcome |-> journal'[old + 2 * j].outcome] = pairs[j].second
    BY <1>4, <1>8, <2>1 DEF GameOf
  <2>3. BlockPairs(b)' =
            [n \in 1..P |->
                [first |-> [number |-> journal'[old + 2 * n - 1].number,
                            outcome |-> journal'[old + 2 * n - 1].outcome],
                 second |-> [number |-> journal'[old + 2 * n].number,
                             outcome |-> journal'[old + 2 * n].outcome]]]
    BY DEF BlockPairs, GameOf, EndOf, GamesPerIteration
  <2>4. BlockPairs(b)' = [n \in 1..P |-> [first |-> pairs[n].first, second |-> pairs[n].second]]
    BY <2>2, <2>3
  <2>5. [n \in 1..P |-> [first |-> pairs[n].first, second |-> pairs[n].second]]
        = [n \in 1..P |-> pairs[n]]
    BY <1>4
  <2>6. pairs = [n \in 1..P |-> pairs[n]]
    BY <1>3
  <2> QED
    BY <2>4, <2>5, <2>6
<1> QED
  BY <1>2, <1>7, <1>10, <1>11

\* A voided iteration is behind the blocks, and leaves them as they were.
LEMMA InvalidateStands ==
    ASSUME TuneInv, NEW b \in Nat, Stands(b), Invalidate
    PROVE  Stands(b)'
<1>1. /\ Played /\ pc = "mini" /\ pc' = "ended" /\ scores' = scores
      /\ published' = published /\ settled' = settled
      /\ journal' = journal \o LinesOf(pairs, Iteration, "invalid")
  BY DEF Invalidate, Returns, Played
<1>2. JournalOf(b) /\ Len(journal) = EndOf(b) /\ scores = ScoresUpTo(b)
  BY <1>1 DEF Stands
<1>3. Iteration = b
  BY <1>2, ScoresUpToLen DEF Iteration
<1>4. /\ Len(journal') = EndOf(b + 1)
      /\ \A i \in 1..EndOf(b) : journal'[i] = journal[i]
      /\ \A i \in (EndOf(b) + 1)..EndOf(b + 1) : InPlace(i)' /\ journal'[i].class = "invalid"
  BY <1>1, <1>2, <1>3, PlayedBlock DEF Class
<1>5. EndOf(b) \in Nat /\ EndOf(b + 1) = EndOf(b) + GamesPerIteration /\ GamesPerIteration \in Nat
  BY EndOfType
<1>6. JournalOf(b)'
  <2>1. \A i \in 1..EndOf(b) : InPlace(i) /\ journal[i].class = "official"
    BY <1>2, <1>5 DEF JournalOf
  <2>2. ASSUME NEW i \in 1..Len(journal')
        PROVE  InPlace(i)' /\ journal'[i].class = IF i <= EndOf(b) THEN "official" ELSE "invalid"
    <3>1. CASE i <= EndOf(b)
      <4>1. i \in 1..EndOf(b)
        BY <1>5, <3>1
      <4>2. InPlace(i) /\ journal[i].class = "official" /\ journal'[i] = journal[i]
        BY <1>4, <2>1, <4>1
      <4> QED
        BY <3>1, <4>2 DEF InPlace, EndOf, GamesPerIteration
    <3>2. CASE ~(i <= EndOf(b))
      <4>1. i \in (EndOf(b) + 1)..EndOf(b + 1)
        BY <1>4, <1>5, <3>2
      <4> QED
        BY <1>4, <3>2, <4>1
    <3> QED
      BY <3>1, <3>2
  <2> QED
    BY <1>4, <2>2 DEF JournalOf, EndOf, GamesPerIteration
<1>7. PICK n \in 0..b : published.scores = ScoresUpTo(n) /\ EndOf(n) <= settled
  BY DEF Stands
<1>8. /\ published'.scores = ScoresUpTo(n) /\ EndOf(n) <= settled'
      /\ pc' # "down" => scores' = ScoresUpTo(b)
      /\ pc' \in {"loop", "mini"} => Len(journal') = EndOf(b)
  BY <1>1, <1>2, <1>7
<1> QED
  BY <1>4, <1>6, <1>8, StandsNext

\* A committed iteration is one block more, and one score.
LEMMA CommitStands ==
    ASSUME TuneInv, NEW b \in Nat, Stands(b), Commit
    PROVE  Stands(b + 1)' /\ b + 1 \in 0..Iterations
<1>1. /\ Played /\ pc = "mini" /\ pc' = "loop" /\ scores' = Append(scores, ScoreOf(pairs))
      /\ published' = published /\ settled' = settled
      /\ journal' = journal \o LinesOf(pairs, Iteration, "official")
  BY DEF Commit, CommitIteration, Played
<1>2. JournalOf(b) /\ Len(journal) = EndOf(b) /\ scores = ScoresUpTo(b)
  BY <1>1 DEF Stands
<1>3. Iteration = b /\ b + 1 \in 0..Iterations /\ b + 1 \in Nat
  <2>1. Iteration = b
    BY <1>2, ScoresUpToLen DEF Iteration
  <2>2. Iteration < Iterations
    BY <1>1 DEF TuneInv, Assembled
  <2> QED
    BY <2>1, <2>2, SizeAssumption
<1>4. /\ Len(journal') = EndOf(b + 1)
      /\ \A i \in 1..EndOf(b) : journal'[i] = journal[i]
      /\ \A i \in (EndOf(b) + 1)..EndOf(b + 1) : InPlace(i)' /\ journal'[i].class = "official"
      /\ BlockPairs(b)' = pairs
  BY <1>1, <1>2, <1>3, PlayedBlock DEF Class
<1>5. EndOf(b) \in Nat /\ EndOf(b + 1) = EndOf(b) + GamesPerIteration /\ GamesPerIteration \in Nat
  BY EndOfType
<1>6. JournalOf(b + 1)'
  <2>1. \A i \in 1..EndOf(b) : InPlace(i) /\ journal[i].class = "official"
    BY <1>2, <1>5 DEF JournalOf
  <2>2. ASSUME NEW i \in 1..EndOf(b + 1)
        PROVE  InPlace(i)' /\ journal'[i].class = "official"
    <3>1. CASE i <= EndOf(b)
      <4>1. i \in 1..EndOf(b)
        BY <1>5, <3>1
      <4>2. InPlace(i) /\ journal[i].class = "official" /\ journal'[i] = journal[i]
        BY <1>4, <2>1, <4>1
      <4> QED
        BY <4>2 DEF InPlace, EndOf, GamesPerIteration
    <3>2. CASE ~(i <= EndOf(b))
      <4>1. i \in (EndOf(b) + 1)..EndOf(b + 1)
        BY <1>5, <3>2
      <4> QED
        BY <1>4, <4>1
    <3> QED
      BY <3>1, <3>2
  <2>3. \A i \in 1..EndOf(b + 1) : i <= EndOf(b + 1)
    BY <1>5
  <2> QED
    BY <1>4, <2>2, <2>3 DEF JournalOf, EndOf, GamesPerIteration
<1>7. PICK n \in 0..b : published.scores = ScoresUpTo(n) /\ EndOf(n) <= settled
  BY DEF Stands
<1>8. n \in Nat /\ n \in 0..(b + 1) /\ EndOf(n) \in Nat /\ EndOf(n) <= EndOf(b)
  <2>1. n \in Nat /\ n \in 0..(b + 1) /\ n <= b
    OBVIOUS
  <2> QED
    BY <2>1, EndOfType, EndOfOrder
<1>9. ScoresUpTo(b)' = ScoresUpTo(b) /\ ScoresUpTo(n)' = ScoresUpTo(n)
  <2>1. \A i \in 1..EndOf(n) : i \in 1..EndOf(b)
    BY <1>5, <1>8
  <2> QED
    BY <1>4, <1>8, <2>1, SameBlocks
<1>10. scores' = ScoresUpTo(b + 1)'
  <2>1. ScoreOf(BlockPairs(b))' = ScoreOf(pairs)
    BY <1>4 DEF ScoreOf, Count
  <2>2. ScoresUpTo(b)' = [i \in 1..b |-> ScoreOf(BlockPairs(i - 1))']
    BY DEF ScoresUpTo
  <2>3. ScoresUpTo(b + 1)' = [i \in 1..(b + 1) |-> ScoreOf(BlockPairs(i - 1))']
    BY DEF ScoresUpTo
  <2>4. Append(ScoresUpTo(b), ScoreOf(pairs))
        = [i \in 1..(b + 1) |-> IF i <= b THEN ScoresUpTo(b)[i] ELSE ScoreOf(pairs)]
    <3> DEFINE list == ScoresUpTo(b)
               S == {ScoreOf(BlockPairs(i - 1)) : i \in 1..b}
               score == ScoreOf(pairs)
    <3>1. list \in Seq(S) /\ Len(list) = b
      BY ScoresUpToLen
    <3> HIDE DEF list, S, score
    <3> DEFINE T == S \cup {score}
               longer == Append(list, score)
    <3>2. list \in Seq(T) /\ score \in T
      BY <3>1
    <3> HIDE DEF T
    <3>3. /\ longer \in Seq(T) /\ Len(longer) = b + 1
          /\ \A i \in 1..b : longer[i] = list[i]
          /\ longer[b + 1] = score
      BY <3>1, <3>2, AppendProperties
    <3> HIDE DEF longer
    <3>4. longer = [i \in 1..(b + 1) |-> longer[i]]
      BY <3>3
    <3>5. \A i \in 1..(b + 1) : longer[i] = IF i <= b THEN list[i] ELSE score
      BY <3>3
    <3>6. longer = [i \in 1..(b + 1) |-> IF i <= b THEN list[i] ELSE score]
      BY <3>4, <3>5
    <3> QED
      BY <3>6 DEF longer, list, score
  <2>5. ASSUME NEW i \in 1..(b + 1)
        PROVE  ScoreOf(BlockPairs(i - 1))' = IF i <= b THEN ScoresUpTo(b)[i] ELSE ScoreOf(pairs)
    <3>1. CASE i <= b
      <4>1. i \in 1..b
        BY <3>1
      <4>2. ScoresUpTo(b)'[i] = ScoreOf(BlockPairs(i - 1))'
        BY <2>2, <4>1
      <4> QED
        BY <1>9, <3>1, <4>2
    <3>2. CASE ~(i <= b)
      <4>1. i - 1 = b
        BY <3>2
      <4> QED
        BY <2>1, <3>2, <4>1
    <3> QED
      BY <3>1, <3>2
  <2> QED
    BY <1>1, <1>2, <2>3, <2>4, <2>5
<1>11. published'.scores = ScoresUpTo(n)' /\ EndOf(n) <= settled'
  BY <1>1, <1>7, <1>9
<1> QED
  BY <1>1, <1>3, <1>4, <1>6, <1>8, <1>10, <1>11 DEF Stands, EndOf, GamesPerIteration

LEMMA BlocksInit == Init => BlocksInv
<1> SUFFICES ASSUME Init PROVE BlocksInv
  OBVIOUS
<1>1. EndOf(0) = 0 /\ 0 \in 0..Iterations
  BY EndOfType, SizeAssumption
<1>2. JournalOf(0)
  BY <1>1 DEF Init, JournalOf
<1>3. published.scores = ScoresUpTo(0)
  BY DEF Init, ScoresUpTo
<1>4. settled = 0 /\ pc = "down" /\ 0 \in 0..0
  BY DEF Init
<1>5. Stands(0)
  BY <1>1, <1>2, <1>3, <1>4 DEF Stands
<1> QED
  BY <1>1, <1>5 DEF BlocksInv

LEMMA BlocksStep ==
    ASSUME CutAnywhere = FALSE
    PROVE  TuneInv /\ BlocksInv /\ [Next]_vars => BlocksInv'
<1> SUFFICES ASSUME TuneInv, BlocksInv, [Next]_vars PROVE BlocksInv'
  OBVIOUS
<1>1. PICK b \in 0..Iterations : Stands(b)
  BY DEF BlocksInv
<1>2. b \in Nat
  BY SizeAssumption
<1>3. ASSUME Stands(b)' PROVE BlocksInv'
  BY <1>3 DEF BlocksInv
<1>4. CASE Complete \/ StopAtBoundary \/ JoinFails \/ RefuseMiniMatch
  <2>1. journal' = journal /\ published' = published /\ settled' = settled
        /\ pc # "down" /\ scores' = scores /\ pc' = "ended"
    BY <1>4 DEF Complete, StopAtBoundary, JoinFails, RefuseMiniMatch, Returns, Played, directory
  <2> QED
    BY <1>1, <1>2, <1>3, <2>1, QuietStands
<1>5. CASE StartMiniMatch \/ Launch \/ Join \/ Interrupt
  <2>1. journal' = journal /\ published' = published /\ settled' = settled
        /\ pc \in {"loop", "mini"} /\ scores' = scores
    BY <1>5 DEF StartMiniMatch, Launch, Join, Interrupt, directory, driver
  <2> QED
    BY <1>1, <1>2, <1>3, <2>1, QuietStands
<1>6. CASE Invalidate
  BY <1>1, <1>2, <1>3, <1>6, InvalidateStands
<1>7. CASE Commit
  <2>1. Stands(b + 1)' /\ b + 1 \in 0..Iterations
    BY <1>1, <1>2, <1>7, CommitStands
  <2> QED
    BY <2>1 DEF BlocksInv
<1>8. CASE Exit
  BY <1>1, <1>2, <1>3, <1>8, ExitStands
<1>9. CASE Crash
  BY <1>1, <1>9, CrashStands
<1>10. CASE Resume
  BY <1>1, <1>3, <1>10, ResumeStands
<1>11. CASE UNCHANGED vars
  <2>1. journal' = journal /\ published' = published /\ settled' = settled
        /\ pc' = pc /\ scores' = scores
    BY <1>11 DEF vars, directory, driver
  <2> QED
    BY <1>1, <1>2, <1>3, <2>1, QuietStands
<1> QED
  BY <1>4, <1>5, <1>6, <1>7, <1>8, <1>9, <1>10, <1>11 DEF Next

LEMMA BlocksHold == ASSUME CutAnywhere = FALSE PROVE Spec => [](TuneInv /\ BlocksInv)
<1>1. Init => TuneInv /\ BlocksInv
  BY TuneInit, BlocksInit
<1>2. TuneInv /\ BlocksInv /\ [Next]_vars => (TuneInv /\ BlocksInv)'
  BY TuneStep, BlocksStep
<1> QED
  BY <1>1, <1>2, PTL DEF Spec

\* As long as no crash cuts inside an iteration, the driver's centres are those
\* its journal would give back to the next invocation, at every moment.
THEOREM CentresAreJournalledTheorem ==
    ASSUME CutAnywhere = FALSE PROVE Spec => []CentresAreJournalled
<1>1. TuneInv /\ BlocksInv => CentresAreJournalled
  BY BlocksMean
<1> QED
  BY <1>1, BlocksHold, PTL

\* And no crash between two iterations takes back one that a published result
\* was written for: what undoes a result is a cut inside an iteration.
THEOREM ReplayIsFaithfulTheorem ==
    ASSUME CutAnywhere = FALSE PROVE Spec => []ReplayIsFaithful
<1>1. TuneInv /\ BlocksInv => ReplayIsFaithful
  BY BlocksMean
<1> QED
  BY <1>1, BlocksHold, PTL

===============================================================================
