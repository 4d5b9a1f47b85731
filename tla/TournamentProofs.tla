-------------------------- MODULE TournamentProofs --------------------------
(***************************************************************************)
(* Proofs about a tournament of the command line, for every design,        *)
(* placement and number of invocations: every game is played once and in a *)
(* slot of its own, the games in flight share no CPU, the engines a slot   *)
(* keeps serve their own participants, the schedule is fair, the book is   *)
(* read in full and shared out evenly, the verdict is right and stands.    *)
(*                                                                         *)
(* The schedule and the slots are built by recursive functions.  Of the    *)
(* schedule most of the argument needs that it is a sequence and that      *)
(* nobody is scheduled against himself, which for the circle means that    *)
(* its rotations are permutations; that it is fair needs the places of     *)
(* everyone after r rotations, by which two sit opposite each other in     *)
(* exactly one round.  Of the slots it needs that each takes cores from    *)
(* what the ones before it left.  Of a book it needs that the parts it is  *)
(* read in begin with lines, and that a shuffle is a row of swaps.         *)
(***************************************************************************)
EXTENDS Tournament, SequenceTheorems, FiniteSetTheorems, WellFoundedInduction, TLAPS

-----------------------------------------------------------------------------
(* Numbers and lists. *)

\* A non-empty set of numbers has a least one.
LEMMA LeastNumber ==
    ASSUME NEW S \in SUBSET Nat, S # {}
    PROVE  \E n \in S : \A m \in S : n <= m
<1>1. IsWellFoundedOn(OpToRel(<, Nat), Nat)
  BY NatLessThanWellFounded
<1>2. \A T \in SUBSET Nat : T # {} => \E n \in T : \A m \in T : ~ (<<m, n>> \in OpToRel(<, Nat))
  BY <1>1, WFMin
<1>3. \A m, n \in Nat : m < n => <<m, n>> \in OpToRel(<, Nat)
  <2> SUFFICES ASSUME NEW m \in Nat, NEW n \in Nat, m < n
               PROVE  <<m, n>> \in OpToRel(<, Nat)
    OBVIOUS
  <2> DEFINE p == <<m, n>>
  <2>1. p \in Nat \X Nat /\ p[1] < p[2]
    OBVIOUS
  <2> HIDE DEF p
  <2>2. p \in OpToRel(<, Nat)
    BY <2>1, Zenon DEF OpToRel
  <2> QED
    BY <2>2 DEF p
<1>4. PICK n \in S : \A m \in S : ~ (<<m, n>> \in OpToRel(<, Nat))
  BY <1>2
<1>5. \A m \in S : n <= m
  <2>1. \A m \in S : ~ (m < n)
    BY <1>3, <1>4
  <2> QED
    BY <2>1
<1> QED
  BY <1>5

LEMMA LeastIs ==
    ASSUME NEW S \in SUBSET Nat, S # {}
    PROVE  Least(S) \in S
BY LeastNumber DEF Least

\* A list of anything.
Elements(list) == {list[i] : i \in DOMAIN list}
Listed(list) == list \in Seq(Elements(list))

LEMMA ListIs ==
    ASSUME NEW list, Listed(list)
    PROVE  Len(list) \in Nat /\ DOMAIN list = 1..Len(list)
BY LenProperties DEF Listed

LEMMA NoList == Listed(<< >>) /\ Len(<< >>) = 0 /\ DOMAIN << >> = {}
BY EmptySeq DEF Listed

\* Every sequence is a list.
LEMMA SequenceIsListed ==
    ASSUME NEW S, NEW list \in Seq(S)
    PROVE  Listed(list)
<1>1. list \in [1..Len(list) -> S] /\ Len(list) \in Nat /\ DOMAIN list = 1..Len(list)
  BY LenProperties
<1>2. list \in [1..Len(list) -> Elements(list)]
  BY <1>1 DEF Elements
<1> QED
  BY <1>1, <1>2 DEF Listed

LEMMA ListGrows ==
    ASSUME NEW list, Listed(list), NEW e
    PROVE  /\ Listed(Append(list, e)) /\ Len(Append(list, e)) = Len(list) + 1
           /\ \A i \in 1..Len(list) : Append(list, e)[i] = list[i]
           /\ Append(list, e)[Len(list) + 1] = e
<1> DEFINE S == Elements(list) \cup {e}
<1>1. list \in Seq(S)
  <2>1. list \in [1..Len(list) -> Elements(list)] /\ Len(list) \in Nat
    BY LenProperties DEF Listed
  <2>2. list \in [1..Len(list) -> S]
    BY <2>1
  <2> QED
    BY <2>1, <2>2
<1>2. e \in S
  OBVIOUS
<1> HIDE DEF S
<1>3. /\ Append(list, e) \in Seq(S)
      /\ Len(Append(list, e)) = Len(list) + 1
      /\ \A i \in 1..Len(list) : Append(list, e)[i] = list[i]
      /\ Append(list, e)[Len(list) + 1] = e
  BY <1>1, <1>2, AppendProperties
<1>4. Listed(Append(list, e))
  BY <1>3, SequenceIsListed
<1> QED
  BY <1>3, <1>4

LEMMA ListCut ==
    ASSUME NEW list, Listed(list), NEW n \in 0..Len(list)
    PROVE  /\ Listed(SubSeq(list, 1, n)) /\ Len(SubSeq(list, 1, n)) = n
           /\ \A i \in 1..n : SubSeq(list, 1, n)[i] = list[i]
<1>1. Len(list) \in Nat /\ DOMAIN list = 1..Len(list)
  BY ListIs
<1>2. n \in Int /\ 1 \in Int /\ \A i \in 1..n : list[i] \in Elements(list)
  BY <1>1 DEF Elements
<1>3. /\ SubSeq(list, 1, n) \in Seq(Elements(list))
      /\ Len(SubSeq(list, 1, n)) = IF 1 <= n THEN n - 1 + 1 ELSE 0
      /\ \A i \in 1..(n - 1 + 1) : SubSeq(list, 1, n)[i] = list[1 + i - 1]
  BY <1>2, SubSeqProperties
<1>4. Listed(SubSeq(list, 1, n))
  BY <1>3, SequenceIsListed
<1>5. n - 1 + 1 = n /\ \A i \in 1..n : 1 + i - 1 = i
  BY <1>1
<1>6. Len(SubSeq(list, 1, n)) = n
  BY <1>1, <1>3
<1>7. \A i \in 1..n : SubSeq(list, 1, n)[i] = list[i]
  BY <1>3, <1>5
<1> QED
  BY <1>4, <1>6, <1>7

-----------------------------------------------------------------------------
(* The sequences a recursion builds. *)

\* A recursion that joins sequences has a solution.
LEMMA FlattenExists ==
    ASSUME NEW seqs, NEW n \in Nat
    PROVE  \E g : g = [i \in 1..n |-> IF i = 1 THEN seqs[i] ELSE g[i - 1] \o seqs[i]]
<1> DEFINE Solves(g, m) == g = [i \in 1..m |-> IF i = 1 THEN seqs[i] ELSE g[i - 1] \o seqs[i]]
           Open == {m \in Nat : ~\E g : Solves(g, m)}
<1> SUFFICES ASSUME Open # {} PROVE FALSE
  OBVIOUS
<1>1. PICK m \in Open : \A k \in Open : m <= k
  BY LeastNumber
<1>2. m # 0
  <2>1. Solves([i \in 1..0 |-> 0], 0)
    OBVIOUS
  <2> QED
    BY <1>1, <2>1
<1>3. m \in Nat \ {0} /\ m - 1 \in Nat /\ m - 1 < m
  BY <1>1, <1>2
<1>4. PICK g : Solves(g, m - 1)
  <2>1. m - 1 \notin Open
    <3> HIDE DEF Open
    <3> QED
      BY <1>1, <1>3
  <2> QED
    BY <1>3, <2>1
<1> DEFINE h == [i \in 1..m |-> IF i < m THEN g[i]
                                ELSE IF i = 1 THEN seqs[i] ELSE g[i - 1] \o seqs[i]]
<1>5. \A i \in 1..(m - 1) : g[i] = IF i = 1 THEN seqs[i] ELSE g[i - 1] \o seqs[i]
  BY <1>4
<1>6. ASSUME NEW i \in 1..m
      PROVE  h[i] = IF i = 1 THEN seqs[i] ELSE h[i - 1] \o seqs[i]
  <2>1. CASE i < m
    <3>1. i \in 1..(m - 1) /\ (i # 1 => i - 1 \in 1..m /\ i - 1 < m)
      BY <1>3, <2>1
    <3> QED
      BY <1>5, <2>1, <3>1
  <2>2. CASE i = m
    <3>1. i # 1 => i - 1 \in 1..m /\ i - 1 < m
      BY <1>3, <2>2
    <3> QED
      BY <2>2, <3>1
  <2> QED
    BY <1>3, <2>1, <2>2
<1>7. Solves(h, m)
  BY <1>6
<1> QED
  BY <1>1, <1>7

LEMMA FlattenIs ==
    ASSUME NEW S, NEW seqs \in Seq(Seq(S))
    PROVE  FlattenSeq(seqs) \in Seq(S)
<1>1. Len(seqs) \in Nat /\ \A i \in 1..Len(seqs) : seqs[i] \in Seq(S)
  BY LenProperties, ElementOfSeq
<1>2. CASE Len(seqs) = 0
  <2>1. seqs = << >>
    BY <1>2, EmptySeq
  <2> QED
    BY <1>2, <2>1, EmptySeq DEF FlattenSeq
<1>3. CASE Len(seqs) # 0
  <2> DEFINE Step(g) == [i \in 1..Len(seqs) |-> IF i = 1 THEN seqs[i] ELSE g[i - 1] \o seqs[i]]
             f == CHOOSE g : g = Step(g)
  <2>1. FlattenSeq(seqs) = f[Len(seqs)]
    BY <1>3 DEF FlattenSeq
  <2>2. f = Step(f)
    <3>1. \E g : g = Step(g)
      BY <1>1, FlattenExists
    <3> HIDE DEF Step
    <3> QED
      BY <3>1
  <2> HIDE DEF f
  <2>3. \A i \in 1..Len(seqs) : f[i] = IF i = 1 THEN seqs[i] ELSE f[i - 1] \o seqs[i]
    BY <2>2
  <2> DEFINE Bad == {i \in 1..Len(seqs) : f[i] \notin Seq(S)}
  <2>4. Bad = {}
    <3> SUFFICES ASSUME Bad # {} PROVE FALSE
      OBVIOUS
    <3>1. Bad \in SUBSET Nat
      BY <1>1
    <3>2. PICK i \in Bad : \A k \in Bad : i <= k
      BY <3>1, LeastNumber
    <3>3. i \in 1..Len(seqs) /\ i # 1
      BY <1>1, <2>3, <3>2
    <3>4. i - 1 \in 1..Len(seqs) /\ i - 1 \notin Bad
      BY <1>1, <3>1, <3>2, <3>3
    <3>5. f[i - 1] \in Seq(S) /\ seqs[i] \in Seq(S)
      BY <1>1, <3>3, <3>4
    <3>6. f[i] \in Seq(S)
      BY <2>3, <3>3, <3>5, ConcatProperties
    <3> QED
      BY <3>2, <3>6
  <2>5. Len(seqs) \in 1..Len(seqs)
    BY <1>1, <1>3
  <2> QED
    BY <2>1, <2>4, <2>5
<1> QED
  BY <1>2, <1>3

\* One slot more of a placement.
SlotAfter(r, before) ==
    LET step == IF r.mode = "shared" THEN TakeShared(Last(before.lefts), r.each)
                ELSE TakeSymmetric(Last(before.lefts), r.each)
    IN  [slots |-> Append(before.slots, step.slot), lefts |-> Append(before.lefts, step.left)]

NoneTaken(cores) == [slots |-> << >>, lefts |-> <<cores>>]

TakenStep(r, cores, n, g) ==
    [i \in 0..n |-> IF i = 0 THEN NoneTaken(cores) ELSE SlotAfter(r, g[i - 1])]

\* A placement is taken slot by slot.
LEMMA TakenExists ==
    ASSUME NEW r, NEW cores, NEW n \in Nat
    PROVE  \E g : g = TakenStep(r, cores, n, g)
<1> DEFINE Solves(g, m) == g = [i \in 0..m |-> IF i = 0 THEN NoneTaken(cores) ELSE SlotAfter(r, g[i - 1])]
           Open == {m \in Nat : ~\E g : Solves(g, m)}
<1> SUFFICES ASSUME Open # {} PROVE FALSE
  BY DEF TakenStep
<1>1. PICK m \in Open : \A k \in Open : m <= k
  BY LeastNumber
<1>2. m # 0
  <2>1. Solves([i \in 0..0 |-> NoneTaken(cores)], 0)
    OBVIOUS
  <2> QED
    BY <1>1, <2>1
<1>3. m \in Nat \ {0} /\ m - 1 \in Nat /\ m - 1 < m
  BY <1>1, <1>2
<1>4. PICK g : Solves(g, m - 1)
  <2>1. m - 1 \notin Open
    <3> HIDE DEF Open
    <3> QED
      BY <1>1, <1>3
  <2> QED
    BY <1>3, <2>1
<1> DEFINE h == [i \in 0..m |-> IF i < m THEN g[i] ELSE SlotAfter(r, g[i - 1])]
<1>5. \A i \in 0..(m - 1) : g[i] = IF i = 0 THEN NoneTaken(cores) ELSE SlotAfter(r, g[i - 1])
  BY <1>4
<1>6. ASSUME NEW i \in 0..m
      PROVE  h[i] = IF i = 0 THEN NoneTaken(cores) ELSE SlotAfter(r, h[i - 1])
  <2>1. CASE i < m
    <3>1. i \in 0..(m - 1) /\ (i # 0 => i - 1 \in 0..m /\ i - 1 < m)
      BY <1>3, <2>1
    <3> QED
      BY <1>5, <2>1, <3>1
  <2>2. CASE i = m
    <3>1. i # 0 /\ i - 1 \in 0..m /\ i - 1 < m
      BY <1>3, <2>2
    <3> QED
      BY <2>2, <3>1
  <2> QED
    BY <1>3, <2>1, <2>2
<1>7. Solves(h, m)
  BY <1>6
<1> QED
  BY <1>1, <1>7

LEMMA TakenIsListed ==
    ASSUME NEW r, NEW cores, NEW n \in Nat
    PROVE  Listed(Taken(r, cores, n).slots)
<1> DEFINE Step(g) == TakenStep(r, cores, n, g)
           f == CHOOSE g : g = Step(g)
<1>1. f = Step(f)
  <2>1. \E g : g = Step(g)
    BY TakenExists
  <2> HIDE DEF Step
  <2> QED
    BY <2>1
<1>2. Taken(r, cores, n) = f[n]
  BY DEF Taken, TakenStep, SlotAfter, NoneTaken
<1> HIDE DEF f
<1>3. \A k \in 0..n : f[k] = IF k = 0 THEN NoneTaken(cores) ELSE SlotAfter(r, f[k - 1])
  BY <1>1 DEF TakenStep
<1> DEFINE Bad == {k \in 0..n : ~Listed(f[k].slots)}
<1>4. Bad = {}
  <2> SUFFICES ASSUME Bad # {} PROVE FALSE
    OBVIOUS
  <2>1. PICK k \in Bad : \A l \in Bad : k <= l
    <3>1. Bad \in SUBSET Nat
      OBVIOUS
    <3> QED
      BY <3>1, LeastNumber
  <2>2. k # 0
    <3>1. 0 \in 0..n /\ f[0].slots = << >>
      BY <1>3 DEF NoneTaken
    <3> QED
      BY <2>1, <3>1, NoList
  <2>3. k \in 0..n /\ k - 1 \in 0..n /\ k - 1 < k
    BY <2>1, <2>2
  <2>4. Listed(f[k - 1].slots)
    <3>1. k - 1 \notin Bad
      BY <2>1, <2>3
    <3> QED
      BY <2>3, <3>1
  <2>5. PICK e : f[k].slots = Append(f[k - 1].slots, e)
    <3>1. f[k] = SlotAfter(r, f[k - 1])
      BY <1>3, <2>2, <2>3
    <3>2. \E e : SlotAfter(r, f[k - 1]).slots = Append(f[k - 1].slots, e)
      BY DEF SlotAfter
    <3> QED
      BY <3>1, <3>2
  <2>6. Listed(f[k].slots)
    BY <2>4, <2>5, ListGrows
  <2> QED
    BY <2>1, <2>6
<1> QED
  BY <1>2, <1>4

\* Whatever a request comes to, its slots are a list.
LEMMA AllocationIsListed ==
    ASSUME NEW r, r.slots \in Nat
    PROVE  Listed(Allocation(r).slots)
<1>1. \/ Allocation(r).slots = << >>
      \/ Allocation(r).slots = [k \in 1..r.slots |-> << << >>, << >> >>]
      \/ Allocation(r).slots = Taken(r, PlanCpuPlacement(r).cores, r.slots).slots
  BY DEF Allocation
<1>2. Listed([k \in 1..r.slots |-> << << >>, << >> >>])
  <2> DEFINE list == [k \in 1..r.slots |-> << << >>, << >> >>]
  <2>1. list \in Seq({<< << >>, << >> >>})
    OBVIOUS
  <2> HIDE DEF list
  <2>2. Listed(list)
    BY <2>1, SequenceIsListed
  <2> QED
    BY <2>2 DEF list
<1>3. Listed(Taken(r, PlanCpuPlacement(r).cores, r.slots).slots)
  BY TakenIsListed
<1> QED
  BY <1>1, <1>2, <1>3, NoList

\* The circle is rotated round by round.
LEMMA ArrangementExists ==
    ASSUME NEW size, NEW n \in Nat
    PROVE  \E g : g = [i \in 0..n |-> IF i = 0 THEN [place \in 0..(size - 1) |-> place] ELSE Rotated(g[i - 1], size)]
<1> DEFINE Solves(g, m) == g = [i \in 0..m |-> IF i = 0 THEN [place \in 0..(size - 1) |-> place] ELSE Rotated(g[i - 1], size)]
           Open == {m \in Nat : ~\E g : Solves(g, m)}
<1> SUFFICES ASSUME Open # {} PROVE FALSE
  OBVIOUS
<1>1. PICK m \in Open : \A k \in Open : m <= k
  BY LeastNumber
<1>2. m # 0
  <2>1. Solves([i \in 0..0 |-> [place \in 0..(size - 1) |-> place]], 0)
    OBVIOUS
  <2> QED
    BY <1>1, <2>1
<1>3. m \in Nat \ {0} /\ m - 1 \in Nat /\ m - 1 < m
  BY <1>1, <1>2
<1>4. PICK g : Solves(g, m - 1)
  <2>1. m - 1 \notin Open
    <3> HIDE DEF Open
    <3> QED
      BY <1>1, <1>3
  <2> QED
    BY <1>3, <2>1
<1> DEFINE h == [i \in 0..m |-> IF i < m THEN g[i] ELSE Rotated(g[i - 1], size)]
<1>5. \A i \in 0..(m - 1) : g[i] = IF i = 0 THEN [place \in 0..(size - 1) |-> place] ELSE Rotated(g[i - 1], size)
  BY <1>4
<1>6. ASSUME NEW i \in 0..m
      PROVE  h[i] = IF i = 0 THEN [place \in 0..(size - 1) |-> place] ELSE Rotated(h[i - 1], size)
  <2>1. CASE i < m
    <3>1. i \in 0..(m - 1) /\ (i # 0 => i - 1 \in 0..m /\ i - 1 < m)
      BY <1>3, <2>1
    <3> QED
      BY <1>5, <2>1, <3>1
  <2>2. CASE i = m
    <3>1. i # 0 /\ i - 1 \in 0..m /\ i - 1 < m
      BY <1>3, <2>2
    <3> QED
      BY <2>2, <3>1
  <2> QED
    BY <1>3, <2>1, <2>2
<1>7. Solves(h, m)
  BY <1>6
<1> QED
  BY <1>1, <1>7

\* A rotation of the circle is a permutation of it.
LEMMA RotatedIs ==
    ASSUME NEW m \in Nat, m >= 2, NEW a \in [0..(m - 1) -> 0..(m - 1)],
           \A i, k \in 0..(m - 1) : a[i] = a[k] => i = k
    PROVE  /\ Rotated(a, m) \in [0..(m - 1) -> 0..(m - 1)]
           /\ \A i, k \in 0..(m - 1) : Rotated(a, m)[i] = Rotated(a, m)[k] => i = k
<1> DEFINE From(i) == IF i = 0 THEN 0 ELSE IF i = 1 THEN m - 1 ELSE i - 1
           b == Rotated(a, m)
<1>1. \A i \in 0..(m - 1) : From(i) \in 0..(m - 1)
  OBVIOUS
<1>2. \A i, k \in 0..(m - 1) : From(i) = From(k) => i = k
  OBVIOUS
<1>3. b = [i \in 0..(m - 1) |-> a[From(i)]]
  BY DEF Rotated
<1> HIDE DEF From, b
<1>4. b \in [0..(m - 1) -> 0..(m - 1)]
  BY <1>1, <1>3
<1>5. \A i, k \in 0..(m - 1) : b[i] = b[k] => i = k
  BY <1>1, <1>2, <1>3
<1> QED
  BY <1>4, <1>5 DEF b

LEMMA ArrangementIs ==
    ASSUME NEW m \in Nat, m >= 2, NEW r \in Nat
    PROVE  /\ Arrangement(m, r) \in [0..(m - 1) -> 0..(m - 1)]
           /\ \A i, k \in 0..(m - 1) : Arrangement(m, r)[i] = Arrangement(m, r)[k] => i = k
<1> DEFINE Step(g) == [k \in 0..r |-> IF k = 0 THEN [place \in 0..(m - 1) |-> place]
                                     ELSE Rotated(g[k - 1], m)]
           f == CHOOSE g : g = Step(g)
           Permutes(a) == /\ a \in [0..(m - 1) -> 0..(m - 1)]
                          /\ \A i, k \in 0..(m - 1) : a[i] = a[k] => i = k
<1>1. f = Step(f)
  <2>1. \E g : g = Step(g)
    BY ArrangementExists
  <2> HIDE DEF Step
  <2> QED
    BY <2>1
<1>2. Arrangement(m, r) = f[r]
  BY DEF Arrangement
<1> HIDE DEF f
<1>3. \A k \in 0..r : f[k] = IF k = 0 THEN [place \in 0..(m - 1) |-> place] ELSE Rotated(f[k - 1], m)
  BY <1>1
<1> DEFINE Bad == {k \in 0..r : ~Permutes(f[k])}
<1>4. Bad = {}
  <2> SUFFICES ASSUME Bad # {} PROVE FALSE
    OBVIOUS
  <2>1. PICK k \in Bad : \A l \in Bad : k <= l
    <3>1. Bad \in SUBSET Nat
      OBVIOUS
    <3> QED
      BY <3>1, LeastNumber
  <2>2. k # 0
    <3>1. 0 \in 0..r
      OBVIOUS
    <3>2. f[0] = [place \in 0..(m - 1) |-> place]
      BY <1>3, <3>1
    <3>3. Permutes(f[0])
      BY <3>2
    <3> QED
      BY <2>1, <3>3
  <2>3. k \in 0..r /\ k - 1 \in 0..r /\ k - 1 < k
    BY <2>1, <2>2
  <2>4. Permutes(f[k - 1])
    <3>1. k - 1 \notin Bad
      <4> HIDE DEF Permutes
      <4> QED
        BY <2>1, <2>3
    <3> HIDE DEF Permutes
    <3> QED
      BY <2>3, <3>1
  <2>5. f[k] = Rotated(f[k - 1], m)
    BY <1>3, <2>2, <2>3
  <2>6. Permutes(f[k])
    <3>1. PICK a : a = f[k - 1]
      OBVIOUS
    <3>2. /\ a \in [0..(m - 1) -> 0..(m - 1)]
          /\ \A i, l \in 0..(m - 1) : a[i] = a[l] => i = l
      BY <2>4, <3>1
    <3>3. /\ Rotated(a, m) \in [0..(m - 1) -> 0..(m - 1)]
          /\ \A i, l \in 0..(m - 1) : Rotated(a, m)[i] = Rotated(a, m)[l] => i = l
      BY <3>2, RotatedIs
    <3> QED
      BY <2>5, <3>1, <3>3
  <2> QED
    BY <2>1, <2>6
<1>5. Permutes(f[r])
  <2> HIDE DEF Permutes
  <2> QED
    BY <1>4
<1> QED
  BY <1>2, <1>5

-----------------------------------------------------------------------------
(* The schedule. *)

\* Two different participants, and a game between two.
Pair == {p \in Nat \X Nat : p[1] # p[2]}
Pairing == {p \in [round : Nat, white : Nat, black : Nat] : p.white # p.black}

LEMMA HalfOf ==
    ASSUME NEW n \in Nat, n >= 2
    PROVE  /\ n + (n % 2) \in Nat /\ n + (n % 2) >= 2
           /\ (n + (n % 2)) \div 2 \in Nat
           /\ 2 * ((n + (n % 2)) \div 2) <= n + (n % 2)
<1>1. n % 2 \in 0..1
  OBVIOUS
<1> QED
  BY <1>1

\* The circle method opposes nobody to himself.
LEMMA CircleRoundIs ==
    ASSUME NEW n \in Nat, n >= 2, NEW r \in Nat
    PROVE  CircleRound(n, r) \in Seq(Pair)
<1> DEFINE m == n + (n % 2)
           a == Arrangement(m, r)
           Met(i) == IF n \in {a[i - 1], a[m - i]} THEN << >> ELSE << <<a[i - 1], a[m - i]>> >>
           half == m \div 2
           seqs == [i \in 1..half |-> Met(i)]
<1>1. m \in Nat /\ m >= 2 /\ half \in Nat /\ 2 * half <= m
  BY HalfOf
<1>2. CircleRound(n, r) = FlattenSeq(seqs)
  BY DEF CircleRound
<1> HIDE DEF m, half
<1>3. /\ a \in [0..(m - 1) -> 0..(m - 1)]
      /\ \A i, k \in 0..(m - 1) : a[i] = a[k] => i = k
  BY <1>1, ArrangementIs
<1> HIDE DEF a
<1>4. ASSUME NEW i \in 1..half PROVE Met(i) \in Seq(Pair)
  <2>1. i - 1 \in 0..(m - 1) /\ m - i \in 0..(m - 1) /\ i - 1 # m - i
    BY <1>1
  <2>2. a[i - 1] \in Nat /\ a[m - i] \in Nat /\ a[i - 1] # a[m - i]
    BY <1>1, <1>3, <2>1
  <2> DEFINE pair == <<a[i - 1], a[m - i]>>
  <2>3. pair \in Pair
    BY <2>2 DEF Pair
  <2> HIDE DEF pair
  <2>4. <<pair>> \in Seq(Pair) /\ << >> \in Seq(Pair)
    BY <2>3
  <2> QED
    BY <2>4 DEF pair
<1>5. seqs \in Seq(Seq(Pair))
  <2> HIDE DEF Met
  <2> QED
    BY <1>1, <1>4
<1> HIDE DEF seqs
<1> QED
  BY <1>2, <1>5, FlattenIs

\* Division by a positive number.
LEMMA Quotient ==
    ASSUME NEW n \in Nat, NEW by \in Nat, by > 0
    PROVE  n \div by \in Nat /\ n % by \in Nat /\ n >= by * (n \div by)
<1>1. n \div by \in Nat
  OBVIOUS
<1>2. n % by \in 0..(by - 1)
  OBVIOUS
<1>3. n >= by * (n \div by)
  OBVIOUS
<1> QED
  BY <1>1, <1>2, <1>3

LEMMA ProductIs ==
    ASSUME NEW m \in Nat, NEW n \in Nat
    PROVE  m * n \in Nat
OBVIOUS

LEMMA ProductGrows ==
    ASSUME NEW m \in Nat, NEW n \in Nat, NEW by \in Nat, m >= n
    PROVE  by * m >= n * by /\ by * m \in Nat /\ n * by \in Nat
<1>1. by * m >= n * by
  OBVIOUS
<1> QED
  BY <1>1, ProductIs

LEMMA QuotientIsLess ==
    ASSUME NEW n \in Nat, NEW by \in Nat, by > 0, NEW times \in Nat, n < times * by
    PROVE  n \div by < times
<1> DEFINE q == n \div by
<1>1. q \in Nat /\ n >= by * q
  BY Quotient
<1> HIDE DEF q
<1>2. q >= times => by * q >= times * by /\ by * q \in Nat /\ times * by \in Nat
  BY <1>1, ProductGrows
<1>3. ~ (q >= times)
  <2> SUFFICES ASSUME q >= times PROVE FALSE
    OBVIOUS
  <2>1. PICK x \in Nat, y \in Nat : x = by * q /\ y = times * by
    BY <1>2
  <2>2. n >= x /\ x >= y /\ n < y
    BY <1>1, <1>2, <2>1
  <2> QED
    BY <2>2
<1>4. q < times
  BY <1>1, <1>3
<1> QED
  BY <1>4 DEF q

LEMMA RoundsAre ==
    ASSUME NEW d \in Design, d.format = "gauntlet" => d.seeds \in 1..(d.participants - 1)
    PROVE  Rounds(d) \in Seq(Seq(Pair))
<1>1. /\ d.participants \in Nat /\ d.participants >= 2
      /\ d.cycles \in Nat \ {0} /\ d.games \in Nat \ {0}
      /\ d.format \in {"round-robin", "gauntlet"}
  BY DEF Design
<1>2. CASE d.format = "round-robin"
  <2> DEFINE n == d.participants
             circle == n + (n % 2) - 1
             length == d.cycles * circle
             rounds == [r \in 1..length |-> CircleRound(n, (r - 1) % circle)]
  <2>1. circle \in Nat \ {0}
    BY <1>1, HalfOf
  <2>2. length \in Nat
    BY <1>1, <2>1, ProductIs
  <2>3. Rounds(d) = rounds
    BY <1>2 DEF Rounds
  <2> HIDE DEF length, circle
  <2>4. ASSUME NEW r \in 1..length PROVE CircleRound(n, (r - 1) % circle) \in Seq(Pair)
    <3>1. r - 1 \in Nat
      BY <2>2
    <3>2. (r - 1) % circle \in Nat
      BY <2>1, <3>1, Quotient
    <3> QED
      BY <1>1, <3>2, CircleRoundIs
  <2>5. rounds \in Seq(Seq(Pair))
    BY <2>2, <2>4
  <2> QED
    BY <2>3, <2>5
<1>3. CASE d.format = "gauntlet"
  <2> DEFINE opponents == d.participants - d.seeds
             length == d.seeds * opponents
             Met(k) == <<(k - 1) \div opponents, d.seeds + ((k - 1) % opponents)>>
             met == [k \in 1..length |-> Met(k)]
  <2>1. d.seeds \in Nat /\ opponents \in Nat \ {0}
    BY <1>1, <1>3
  <2>2. length \in Nat
    BY <2>1, ProductIs
  <2>3. Rounds(d) = [r \in 1..d.cycles |-> met]
    BY <1>3 DEF Rounds
  <2>4. ASSUME NEW k \in 1..length PROVE Met(k) \in Pair
    <3> HIDE DEF opponents
    <3>1. k - 1 \in Nat /\ k - 1 < d.seeds * opponents
      BY <2>2
    <3>2. (k - 1) \div opponents \in Nat /\ (k - 1) % opponents \in Nat
      BY <2>1, <3>1, Quotient
    <3>3. (k - 1) \div opponents < d.seeds
      BY <2>1, <3>1, QuotientIsLess
    <3>4. d.seeds + ((k - 1) % opponents) \in Nat /\ (k - 1) \div opponents # d.seeds + ((k - 1) % opponents)
      BY <2>1, <3>2, <3>3
    <3> QED
      BY <3>2, <3>4 DEF Pair
  <2> HIDE DEF length, Met
  <2>5. met \in Seq(Pair)
    BY <2>2, <2>4
  <2> HIDE DEF met
  <2>6. [r \in 1..d.cycles |-> met] \in Seq(Seq(Pair))
    BY <1>1, <2>5
  <2> QED
    BY <2>3, <2>6
<1> QED
  BY <1>1, <1>2, <1>3

LEMMA PairingsAre ==
    ASSUME NEW d \in Design, d.format = "gauntlet" => d.seeds \in 1..(d.participants - 1)
    PROVE  Pairings(d) \in Seq(Pairing)
<1> DEFINE rounds == Rounds(d)
           Games(r, pair) == [g \in 1..d.games |->
               [round |-> r, white |-> pair[2 - (g % 2)], black |-> pair[1 + (g % 2)]]]
           OfRound(r) == FlattenSeq([k \in DOMAIN rounds[r] |-> Games(r, rounds[r][k])])
<1>1. /\ rounds \in Seq(Seq(Pair)) /\ DOMAIN rounds = 1..Len(rounds) /\ Len(rounds) \in Nat
      /\ d.games \in Nat
  BY RoundsAre, LenProperties DEF Design
<1>2. Pairings(d) = FlattenSeq([r \in DOMAIN rounds |-> OfRound(r)])
  BY DEF Pairings
<1>3. ASSUME NEW r \in Nat, NEW pair \in Pair PROVE Games(r, pair) \in Seq(Pairing)
  <2> DEFINE Game(g) == [round |-> r, white |-> pair[2 - (g % 2)], black |-> pair[1 + (g % 2)]]
  <2>1. pair[1] \in Nat /\ pair[2] \in Nat /\ pair[1] # pair[2]
    BY DEF Pair
  <2>2. ASSUME NEW g \in 1..d.games PROVE Game(g) \in Pairing
    <3>1. \/ 2 - (g % 2) = 2 /\ 1 + (g % 2) = 1
          \/ 2 - (g % 2) = 1 /\ 1 + (g % 2) = 2
      BY <1>1
    <3> QED
      BY <2>1, <3>1 DEF Pairing
  <2>3. Games(r, pair) = [g \in 1..d.games |-> Game(g)]
    OBVIOUS
  <2> HIDE DEF Game, Games
  <2>4. [g \in 1..d.games |-> Game(g)] \in Seq(Pairing)
    BY <1>1, <2>2
  <2> QED
    BY <2>3, <2>4
<1> HIDE DEF rounds, Games
<1>4. ASSUME NEW r \in DOMAIN rounds PROVE OfRound(r) \in Seq(Pairing)
  <2>1. r \in Nat /\ rounds[r] \in Seq(Pair)
    BY <1>1, ElementOfSeq
  <2> DEFINE played == [k \in DOMAIN rounds[r] |-> Games(r, rounds[r][k])]
  <2>2. DOMAIN rounds[r] = 1..Len(rounds[r]) /\ Len(rounds[r]) \in Nat
    BY <2>1, LenProperties
  <2>3. \A k \in 1..Len(rounds[r]) : rounds[r][k] \in Pair
    BY <2>1, ElementOfSeq
  <2>4. \A k \in 1..Len(rounds[r]) : Games(r, rounds[r][k]) \in Seq(Pairing)
    BY <1>3, <2>1, <2>3
  <2>5. played \in Seq(Seq(Pairing))
    BY <2>2, <2>4
  <2> HIDE DEF played
  <2>6. FlattenSeq(played) \in Seq(Pairing)
    BY <2>5, FlattenIs
  <2> QED
    BY <2>6 DEF played
<1> HIDE DEF OfRound
<1> DEFINE seqs == [r \in DOMAIN rounds |-> OfRound(r)]
<1>5. seqs \in Seq(Seq(Pairing))
  BY <1>1, <1>4
<1> HIDE DEF seqs
<1>6. FlattenSeq(seqs) \in Seq(Pairing)
  BY <1>5, FlattenIs
<1> QED
  BY <1>2, <1>6 DEF seqs

LEMMA ScheduleIs ==
    ASSUME NEW d \in Design, d.format = "gauntlet" => d.seeds \in 1..(d.participants - 1)
    PROVE  /\ Listed(Schedule(d))
           /\ \A i \in DOMAIN Schedule(d) :
                 /\ Schedule(d)[i].white \in Nat /\ Schedule(d)[i].black \in Nat
                 /\ Schedule(d)[i].white # Schedule(d)[i].black
<1> DEFINE pairings == Pairings(d)
           Entry(i) == [encounter |-> (i - 1) \div d.games + 1,
                        gameInEncounter |-> ((i - 1) % d.games) + 1,
                        round |-> pairings[i].round,
                        white |-> pairings[i].white,
                        black |-> pairings[i].black]
           entries == [i \in DOMAIN pairings |-> Entry(i)]
<1>1. /\ DOMAIN pairings = 1..Len(pairings) /\ Len(pairings) \in Nat
      /\ \A i \in 1..Len(pairings) : pairings[i] \in Pairing
  BY PairingsAre, LenProperties, ElementOfSeq
<1>2. Schedule(d) = entries
  BY DEF Schedule
<1>3. \A i \in DOMAIN entries : /\ entries[i].white \in Nat /\ entries[i].black \in Nat
                               /\ entries[i].white # entries[i].black
  BY <1>1 DEF Pairing
<1> HIDE DEF pairings, Entry
<1>4. Listed(entries)
  <2> DEFINE S == {Entry(i) : i \in 1..Len(pairings)}
  <2>1. entries \in Seq(S)
    BY <1>1
  <2> HIDE DEF entries, S
  <2> QED
    BY <2>1, SequenceIsListed
<1> HIDE DEF entries
<1> QED
  BY <1>2, <1>3, <1>4

-----------------------------------------------------------------------------
(* Numbers in rows. *)

\* A number is its row's start and its place in the row.
LEMMA Division ==
    ASSUME NEW n \in Nat, NEW by \in Nat, by > 0
    PROVE  n \div by \in Nat /\ n % by \in 0..(by - 1) /\ n = (n \div by) * by + (n % by)
OBVIOUS

LEMMA Divided ==
    ASSUME NEW row \in Nat, NEW by \in Nat, by > 0, NEW place \in 0..(by - 1)
    PROVE  (row * by + place) \div by = row /\ (row * by + place) % by = place
<1>1. (row * by + place) \div by = row
  OBVIOUS
<1>2. (row * by + place) % by = place
  OBVIOUS
<1> QED
  BY <1>1, <1>2

\* The numbers below n * by are n rows.
LEMMA RowIs ==
    ASSUME NEW n \in Nat, NEW by \in Nat, NEW row \in 0..(n - 1), NEW place \in 0..(by - 1)
    PROVE  row * by + place \in 0..(n * by - 1)
<1>1. n * by \in Nat /\ row * by \in Nat /\ row \in Nat
  BY ProductIs
<1>2. row * by + by = (row + 1) * by
  BY <1>1
<1>3. PICK next \in Nat : next = row + 1 /\ n >= next
  BY <1>1
<1>4. by * n >= next * by
  BY <1>3, ProductGrows
<1>5. by * n = n * by
  OBVIOUS
<1>6. PICK x \in Nat, y \in Nat, z \in Nat : x = row * by /\ y = n * by /\ z = next * by
  BY <1>1, <1>3, ProductIs
<1>7. x + by = z /\ y >= z
  BY <1>2, <1>3, <1>4, <1>5, <1>6
<1>8. x + place \in 0..(y - 1)
  BY <1>7
<1> QED
  BY <1>6, <1>8

LEMMA RowOf ==
    ASSUME NEW n \in Nat, NEW by \in Nat, NEW x \in 0..(n * by - 1)
    PROVE  /\ by > 0
           /\ x \div by \in 0..(n - 1) /\ x % by \in 0..(by - 1)
           /\ x = (x \div by) * by + (x % by)
<1>1. n * by \in Nat /\ x \in Nat /\ x < n * by
  BY ProductIs
<1>2. by > 0
  <2> SUFFICES ASSUME by = 0 PROVE FALSE
    OBVIOUS
  <2>1. n * by = 0
    OBVIOUS
  <2> QED
    BY <1>1, <2>1
<1>3. x \div by < n
  BY <1>1, <1>2, QuotientIsLess
<1>4. x \div by \in Nat /\ x % by \in 0..(by - 1) /\ x = (x \div by) * by + (x % by)
  BY <1>1, <1>2, Division
<1> QED
  BY <1>2, <1>3, <1>4

LEMMA JoinedTwo ==
    ASSUME NEW S, NEW s \in Seq(S), NEW t \in Seq(S)
    PROVE  /\ s \o t \in Seq(S) /\ Len(s \o t) = Len(s) + Len(t)
           /\ \A x \in 1..(Len(s) + Len(t)) : (s \o t)[x] = IF x <= Len(s) THEN s[x] ELSE t[x - Len(s)]
BY ConcatProperties

\* Sequences joined: each begins where the ones before it end.
Ends(seqs, n, at) ==
    /\ at \in [0..n -> Nat] /\ at[0] = 0
    /\ \A i \in 1..n : at[i] = at[i - 1] + Len(seqs[i])
JoinedAt(list, seqs, n, at) ==
    \A i \in 1..n : \A j \in 1..Len(seqs[i]) : list[at[i - 1] + j] = seqs[i][j]

LEMMA Joined ==
    ASSUME NEW S, NEW seqs \in Seq(Seq(S)), NEW n \in Nat, n = Len(seqs), NEW at, Ends(seqs, n, at)
    PROVE  Len(FlattenSeq(seqs)) = at[n] /\ JoinedAt(FlattenSeq(seqs), seqs, n, at)
<1> SUFFICES /\ Len(FlattenSeq(seqs)) = at[n]
             /\ \A i \in 1..n : \A j \in 1..Len(seqs[i]) : FlattenSeq(seqs)[at[i - 1] + j] = seqs[i][j]
  BY DEF JoinedAt
<1>1. /\ at \in [0..n -> Nat] /\ at[0] = 0
      /\ \A i \in 1..n : at[i] = at[i - 1] + Len(seqs[i])
  BY DEF Ends
<1>2. \A i \in 1..n : seqs[i] \in Seq(S)
  BY ElementOfSeq
<1>3. CASE n = 0
  <2>1. seqs = << >>
    BY <1>3, EmptySeq
  <2>2. FlattenSeq(seqs) = << >>
    BY <2>1 DEF FlattenSeq
  <2> QED
    BY <1>3, <1>1, <2>2, EmptySeq
<1>4. CASE n # 0
  <2> DEFINE Step(g) == [i \in 1..n |-> IF i = 1 THEN seqs[i] ELSE g[i - 1] \o seqs[i]]
             f == CHOOSE g : g = Step(g)
             Good(i) == /\ f[i] \in Seq(S) /\ Len(f[i]) = at[i]
                        /\ \A k \in 1..i : at[k] <= at[i]
                        /\ \A k \in 1..i : \A j \in 1..Len(seqs[k]) : f[i][at[k - 1] + j] = seqs[k][j]
  <2>1. FlattenSeq(seqs) = f[n]
    BY <1>4 DEF FlattenSeq
  <2>2. f = Step(f)
    <3>1. \E g : g = Step(g)
      BY FlattenExists
    <3> HIDE DEF Step
    <3> QED
      BY <3>1
  <2> HIDE DEF f
  <2>3. \A i \in 1..n : f[i] = IF i = 1 THEN seqs[i] ELSE f[i - 1] \o seqs[i]
    BY <2>2
  <2> DEFINE Bad == {i \in 1..n : ~Good(i)}
  <2>4. Bad = {}
    <3> SUFFICES ASSUME Bad # {} PROVE FALSE
      OBVIOUS
    <3> HIDE DEF Good
    <3>1. Bad \in SUBSET Nat
      OBVIOUS
    <3>2. PICK i \in Bad : \A k \in Bad : i <= k
      BY <3>1, LeastNumber
    <3>3. i \in 1..n /\ i \in Nat /\ ~Good(i)
      BY <3>2
    <3>4. CASE i = 1
      <4>1. f[i] = seqs[i] /\ seqs[i] \in Seq(S)
        BY <1>2, <2>3, <3>3, <3>4
      <4>2. at[i] = Len(seqs[i]) /\ at[i] \in Nat
        <5>1. at[1] = at[0] + Len(seqs[1]) /\ at[1] \in Nat
          BY <1>1, <3>3, <3>4
        <5>2. Len(seqs[1]) \in Nat
          BY <3>4, <4>1, LenProperties
        <5> QED
          BY <1>1, <3>4, <5>1, <5>2
      <4>3. ASSUME NEW k \in 1..i, NEW j \in 1..Len(seqs[k]) PROVE f[i][at[k - 1] + j] = seqs[k][j]
        <5>1. k = 1 /\ at[k - 1] = 0
          BY <1>1, <3>4
        <5>2. at[k - 1] + j = j
          BY <5>1, <4>2
        <5> QED
          BY <3>4, <4>1, <5>1, <5>2
      <4>4. \A k \in 1..i : at[k] <= at[i]
        BY <3>4, <4>2
      <4>5. Good(i)
        BY <4>1, <4>2, <4>3, <4>4 DEF Good
      <4> QED
        BY <3>3, <4>5
    <3>5. CASE i # 1
      <4>1. PICK h \in 1..n : h = i - 1 /\ h < i /\ i = h + 1
        BY <3>3, <3>5
      <4>2. Good(h)
        <5>1. h \notin Bad
          BY <3>2, <3>3, <4>1
        <5> QED
          BY <5>1
      <4>3. /\ f[h] \in Seq(S) /\ Len(f[h]) = at[h] /\ at[h] \in Nat
            /\ \A k \in 1..h : at[k] <= at[h]
            /\ \A k \in 1..h : \A j \in 1..Len(seqs[k]) : f[h][at[k - 1] + j] = seqs[k][j]
        <5>1. h \in 0..n
          BY <4>1
        <5>2. at[h] \in Nat
          BY <1>1, <5>1
        <5>3. f[h] \in Seq(S) /\ Len(f[h]) = at[h]
          BY <4>2 DEF Good
        <5>4. \A k \in 1..h : at[k] <= at[h]
          BY <4>2 DEF Good
        <5>5. \A k \in 1..h : \A j \in 1..Len(seqs[k]) : f[h][at[k - 1] + j] = seqs[k][j]
          BY <4>2 DEF Good
        <5> QED
          BY <5>2, <5>3, <5>4, <5>5
      <4>4. f[i] = f[h] \o seqs[i] /\ seqs[i] \in Seq(S)
        BY <1>2, <2>3, <3>3, <3>5, <4>1
      <4>5. PICK size \in Nat, more \in Nat : size = at[h] /\ more = Len(seqs[i])
        BY <4>3, <4>4, LenProperties
      <4>6. at[i] = size + more
        BY <1>1, <3>3, <4>1, <4>5
      <4>7. PICK s \in Seq(S), t \in Seq(S) :
                 s = f[h] /\ t = seqs[i] /\ f[i] = s \o t /\ Len(s) = size /\ Len(t) = more
        BY <4>3, <4>4, <4>5
      <4>8. f[i] \in Seq(S) /\ Len(f[i]) = size + more
        <5>1. s \o t \in Seq(S) /\ Len(s \o t) = Len(s) + Len(t)
          BY JoinedTwo
        <5> QED
          BY <4>7, <5>1
      <4>9. \A x \in 1..(size + more) : f[i][x] = IF x <= size THEN f[h][x] ELSE seqs[i][x - size]
        <5>1. \A x \in 1..(Len(s) + Len(t)) : (s \o t)[x] = IF x <= Len(s) THEN s[x] ELSE t[x - Len(s)]
          BY JoinedTwo
        <5> QED
          BY <4>7, <5>1
      <4>10. \A k \in 1..i : at[k] <= at[i]
        <5> SUFFICES ASSUME NEW k \in 1..i PROVE at[k] <= at[i]
          OBVIOUS
        <5>1. CASE k = i
          BY <4>6, <5>1
        <5>2. CASE k # i
          <6>1. k \in 1..h /\ k \in 0..n
            BY <3>3, <4>1, <5>2
          <6>2. at[k] \in Nat /\ at[k] <= size
            BY <1>1, <4>3, <4>5, <6>1
          <6> QED
            BY <4>6, <6>2
        <5> QED
          BY <5>1, <5>2
      <4>11. ASSUME NEW k \in 1..i, NEW j \in 1..Len(seqs[k]) PROVE f[i][at[k - 1] + j] = seqs[k][j]
        <5>1. CASE k = i
          <6>1. at[k - 1] = size /\ j \in 1..more
            BY <4>1, <4>5, <5>1
          <6>2. PICK x \in 1..(size + more) : x = size + j /\ ~(x <= size) /\ x - size = j
            BY <6>1
          <6> QED
            BY <4>9, <5>1, <6>1, <6>2
        <5>2. CASE k # i
          <6>1. k \in 1..h /\ k \in 1..n
            BY <3>3, <4>1, <5>2
          <6>2. PICK before \in Nat, own \in Nat : before = at[k - 1] /\ own = Len(seqs[k])
            <7>1. k - 1 \in 0..n /\ seqs[k] \in Seq(S)
              BY <1>2, <6>1
            <7> QED
              BY <1>1, <7>1, LenProperties
          <6>3. before + own <= size
            <7>1. at[k] = before + own /\ at[k] <= size
              BY <1>1, <4>3, <4>5, <6>1, <6>2
            <7> QED
              BY <7>1
          <6>4. PICK x \in 1..(size + more) : x = before + j /\ x <= size
            <7>1. j \in 1..own
              BY <6>2
            <7>2. before + j \in 1..(size + more) /\ before + j <= size
              BY <6>3, <7>1
            <7> QED
              BY <7>2
          <6>5. f[h][at[k - 1] + j] = seqs[k][j]
            BY <4>3, <6>1
          <6> QED
            BY <4>9, <6>2, <6>4, <6>5
        <5> QED
          BY <5>1, <5>2
      <4>12. Good(i)
        BY <4>6, <4>8, <4>10, <4>11 DEF Good
      <4> QED
        BY <3>3, <4>12
    <3> QED
      BY <3>4, <3>5
  <2>5. n \in 1..n
    BY <1>4
  <2>6. Good(n)
    <3> HIDE DEF Good
    <3> QED
      BY <2>4, <2>5
  <2> QED
    BY <2>1, <2>6
<1> QED
  BY <1>3, <1>4

\* Sequences of one length, read by number: the row, and the place in it.
SameLength(seqs, n, by) == \A i \in 1..n : Len(seqs[i]) = by
InRows(list, seqs, n, by) ==
    \A row \in 0..(n - 1), place \in 0..(by - 1) : list[row * by + place + 1] = seqs[row + 1][place + 1]

LEMMA JoinedRows ==
    ASSUME NEW S, NEW seqs \in Seq(Seq(S)), NEW n \in Nat, n = Len(seqs), NEW by \in Nat,
           SameLength(seqs, n, by)
    PROVE  Len(FlattenSeq(seqs)) = n * by /\ InRows(FlattenSeq(seqs), seqs, n, by)
<1> USE DEF SameLength
<1> DEFINE at == [i \in 0..n |-> i * by]
<1>1. at \in [0..n -> Nat]
  <2>1. \A i \in 0..n : i * by \in Nat
    BY ProductIs
  <2> QED
    BY <2>1
<1>2. at[0] = 0 /\ at[n] = n * by
  OBVIOUS
<1>3. \A i \in 1..n : at[i] = at[i - 1] + Len(seqs[i])
  <2> SUFFICES ASSUME NEW i \in 1..n PROVE at[i] = at[i - 1] + Len(seqs[i])
    OBVIOUS
  <2>1. i - 1 \in 0..n /\ i \in 0..n
    OBVIOUS
  <2>2. PICK x \in Nat : x = (i - 1) * by
    BY <2>1, ProductIs
  <2>3. i * by = x + by
    BY <2>2
  <2> QED
    BY <2>1, <2>2, <2>3
<1> HIDE DEF at
<1>4. /\ Len(FlattenSeq(seqs)) = at[n]
      /\ \A i \in 1..n : \A j \in 1..Len(seqs[i]) : FlattenSeq(seqs)[at[i - 1] + j] = seqs[i][j]
  <2>1. Ends(seqs, n, at)
    BY <1>1, <1>2, <1>3 DEF Ends
  <2>2. Len(FlattenSeq(seqs)) = at[n] /\ JoinedAt(FlattenSeq(seqs), seqs, n, at)
    BY <2>1, Joined
  <2> QED
    BY <2>2 DEF JoinedAt
<1>5. ASSUME NEW row \in 0..(n - 1), NEW place \in 0..(by - 1)
      PROVE  FlattenSeq(seqs)[row * by + place + 1] = seqs[row + 1][place + 1]
  <2>1. PICK i \in 1..n, j \in 1..by : i = row + 1 /\ j = place + 1 /\ i - 1 = row /\ i - 1 \in 0..n
    OBVIOUS
  <2>2. FlattenSeq(seqs)[at[i - 1] + j] = seqs[i][j]
    BY <1>4, <2>1
  <2>3. PICK x \in Nat : x = row * by
    BY ProductIs
  <2>4. at[i - 1] = x
    BY <2>1, <2>3 DEF at
  <2>5. x + place + 1 = x + j
    BY <2>1
  <2> QED
    BY <2>1, <2>2, <2>3, <2>4, <2>5
<1> QED
  BY <1>2, <1>4, <1>5 DEF InRows

-----------------------------------------------------------------------------
(* The numbers of a schedule. *)

LEMMA NumberInRows ==
    ASSUME NEW row \in Nat, NEW by \in Nat, NEW place \in Nat, NEW g \in Nat, NEW j \in Nat
    PROVE  (row * by + place) * g + j = row * (by * g) + (place * g + j)
<1>1. PICK x \in Nat : x = row * by
  BY ProductIs
<1>2. (x + place) * g = x * g + place * g
  OBVIOUS
<1>3. x * g = row * (by * g)
  BY <1>1
<1>4. PICK y \in Nat, z \in Nat : y = x * g /\ z = place * g
  BY ProductIs
<1>5. (y + z) + j = y + (z + j)
  OBVIOUS
<1> QED
  BY <1>1, <1>2, <1>3, <1>4, <1>5

LEMMA Parity ==
    ASSUME NEW j \in Nat
    PROVE  (j % 2 = 0 /\ (j + 1) % 2 = 1) \/ (j % 2 = 1 /\ (j + 1) % 2 = 0)
OBVIOUS

\* A game of the encounter between the two of p: White and Black in turn.
GameOf(r, p, j) ==
    [round |-> r, white |-> IF j % 2 = 0 THEN p[1] ELSE p[2], black |-> IF j % 2 = 0 THEN p[2] ELSE p[1]]

\* A design `validate` lets through, its rounds of one length, and where the
\* games of a round's encounter are among its pairings.
IsValid(d) == d \in Design /\ (d.format = "gauntlet" => d.seeds \in 1..(d.participants - 1))
HasRounds(d, n, by) == n \in Nat /\ by \in Nat /\ n = Len(Rounds(d)) /\ SameLength(Rounds(d), n, by)
HasGames(d, n, by, g, size) ==
    \A row \in 0..(n - 1), place \in 0..(by - 1), j \in 0..(g - 1) :
        Pairings(d)[row * size + (place * g + j) + 1]
            = GameOf(row + 1, Rounds(d)[row + 1][place + 1], j)

LEMMA PairingsAt ==
    ASSUME NEW d, IsValid(d), NEW n, NEW by, HasRounds(d, n, by), NEW size \in Nat, size = by * d.games
    PROVE  Len(Pairings(d)) = n * size /\ HasGames(d, n, by, d.games, size)
<1> DEFINE rounds == Rounds(d)
           Games(r, pair) == [g \in 1..d.games |->
               [round |-> r, white |-> pair[2 - (g % 2)], black |-> pair[1 + (g % 2)]]]
           OfRound(r) == FlattenSeq([k \in DOMAIN rounds[r] |-> Games(r, rounds[r][k])])
<1> USE DEF HasRounds, SameLength
<1>1. /\ rounds \in Seq(Seq(Pair)) /\ DOMAIN rounds = 1..n
      /\ d.games \in Nat /\ by \in Nat /\ n \in Nat
  BY RoundsAre, LenProperties DEF Design, IsValid
<1>2. Pairings(d) = FlattenSeq([r \in DOMAIN rounds |-> OfRound(r)])
  BY DEF Pairings
<1>3. ASSUME NEW r \in Nat, NEW pair \in Pair
      PROVE  /\ Games(r, pair) \in Seq(Pairing) /\ Len(Games(r, pair)) = d.games
             /\ \A j \in 0..(d.games - 1) : Games(r, pair)[j + 1] = GameOf(r, pair, j)
  <2> DEFINE Game(g) == [round |-> r, white |-> pair[2 - (g % 2)], black |-> pair[1 + (g % 2)]]
  <2>1. pair[1] \in Nat /\ pair[2] \in Nat /\ pair[1] # pair[2]
    BY DEF Pair
  <2>2. ASSUME NEW g \in 1..d.games PROVE Game(g) \in Pairing
    <3>1. \/ 2 - (g % 2) = 2 /\ 1 + (g % 2) = 1
          \/ 2 - (g % 2) = 1 /\ 1 + (g % 2) = 2
      BY <1>1
    <3> QED
      BY <2>1, <3>1 DEF Pairing
  <2>3. Games(r, pair) = [g \in 1..d.games |-> Game(g)]
    OBVIOUS
  <2>4. ASSUME NEW j \in 0..(d.games - 1) PROVE Game(j + 1) = GameOf(r, pair, j)
    <3>1. \/ j % 2 = 0 /\ (j + 1) % 2 = 1
          \/ j % 2 = 1 /\ (j + 1) % 2 = 0
      BY Parity
    <3> QED
      BY <3>1 DEF GameOf
  <2> HIDE DEF Game, Games
  <2>5. [g \in 1..d.games |-> Game(g)] \in Seq(Pairing) /\ Len([g \in 1..d.games |-> Game(g)]) = d.games
    <3>1. PICK count \in Nat : count = d.games
      BY <1>1
    <3>2. [g \in 1..count |-> Game(g)] \in Seq(Pairing)
      BY <2>2, <3>1
    <3>3. Len([g \in 1..count |-> Game(g)]) = count
      OBVIOUS
    <3> QED
      BY <3>1, <3>2, <3>3
  <2>6. ASSUME NEW j \in 0..(d.games - 1) PROVE Games(r, pair)[j + 1] = GameOf(r, pair, j)
    <3>1. j + 1 \in 1..d.games
      BY <1>1
    <3> QED
      BY <2>3, <2>4, <3>1
  <2> QED
    BY <2>3, <2>5, <2>6
<1> HIDE DEF rounds, Games
<1>4. ASSUME NEW r \in 1..n
      PROVE  /\ OfRound(r) \in Seq(Pairing) /\ Len(OfRound(r)) = size
             /\ \A place \in 0..(by - 1), j \in 0..(d.games - 1) :
                   OfRound(r)[place * d.games + j + 1] = GameOf(r, rounds[r][place + 1], j)
  <2>1. r \in Nat /\ rounds[r] \in Seq(Pair) /\ Len(rounds[r]) = by
    BY <1>1, ElementOfSeq DEF rounds
  <2> DEFINE played == [k \in DOMAIN rounds[r] |-> Games(r, rounds[r][k])]
  <2>2. DOMAIN rounds[r] = 1..by
    BY <2>1, LenProperties
  <2>3. \A k \in 1..by : rounds[r][k] \in Pair
    BY <2>1, ElementOfSeq
  <2>4. \A k \in 1..by : Games(r, rounds[r][k]) \in Seq(Pairing) /\ Len(Games(r, rounds[r][k])) = d.games
    BY <1>3, <2>1, <2>3
  <2>5. played \in Seq(Seq(Pairing)) /\ Len(played) = by
    BY <2>2, <2>4
  <2>6. \A k \in 1..by : played[k] = Games(r, rounds[r][k])
    BY <2>2
  <2> HIDE DEF played
  <2>7. \A k \in 1..by : Len(played[k]) = d.games
    BY <2>4, <2>6
  <2>8. FlattenSeq(played) \in Seq(Pairing)
    BY <2>5, FlattenIs
  <2>9. PICK g \in Nat : g = d.games
    BY <1>1
  <2>10. SameLength(played, by, g)
    BY <2>7, <2>9 DEF SameLength
  <2>11. Len(FlattenSeq(played)) = by * g /\ InRows(FlattenSeq(played), played, by, g)
    BY <2>5, <2>10, JoinedRows
  <2>12. ASSUME NEW place \in 0..(by - 1), NEW j \in 0..(g - 1)
         PROVE  FlattenSeq(played)[place * g + j + 1] = GameOf(r, rounds[r][place + 1], j)
    <3>1. place + 1 \in 1..by
      OBVIOUS
    <3>2. played[place + 1][j + 1] = GameOf(r, rounds[r][place + 1], j)
      BY <1>3, <2>1, <2>3, <2>6, <2>9, <3>1
    <3>3. FlattenSeq(played)[place * g + j + 1] = played[place + 1][j + 1]
      BY <2>11 DEF InRows
    <3> QED
      BY <3>2, <3>3
  <2> QED
    BY <2>8, <2>9, <2>11, <2>12 DEF played
<1> HIDE DEF OfRound
<1> DEFINE seqs == [r \in DOMAIN rounds |-> OfRound(r)]
<1>5. /\ seqs \in Seq(Seq(Pairing)) /\ Len(seqs) = n
      /\ \A r \in 1..n : seqs[r] = OfRound(r)
  BY <1>1, <1>4
<1> HIDE DEF seqs
<1>6. SameLength(seqs, n, size)
  BY <1>4, <1>5 DEF SameLength
<1>7. Len(FlattenSeq(seqs)) = n * size /\ InRows(FlattenSeq(seqs), seqs, n, size)
  BY <1>5, <1>6, JoinedRows
<1>9. ASSUME NEW row \in 0..(n - 1), NEW place \in 0..(by - 1), NEW j \in 0..(d.games - 1)
      PROVE  FlattenSeq(seqs)[row * size + (place * d.games + j) + 1]
                 = GameOf(row + 1, rounds[row + 1][place + 1], j)
  <2>1. row + 1 \in 1..n
    OBVIOUS
  <2>2. place * d.games + j \in 0..(size - 1)
    BY <1>1, RowIs
  <2>3. PICK p \in 0..(size - 1) : p = place * d.games + j
    BY <2>2
  <2>4. FlattenSeq(seqs)[row * size + p + 1] = seqs[row + 1][p + 1]
    BY <1>7 DEF InRows
  <2>5. seqs[row + 1][p + 1] = GameOf(row + 1, rounds[row + 1][place + 1], j)
    BY <1>4, <1>5, <2>1, <2>3
  <2> QED
    BY <2>3, <2>4, <2>5
<1> QED
  BY <1>2, <1>7, <1>9 DEF seqs, rounds, HasGames

EntryOf(e, j, r, p) ==
    [encounter |-> e + 1, gameInEncounter |-> j + 1, round |-> r,
     white |-> IF j % 2 = 0 THEN p[1] ELSE p[2], black |-> IF j % 2 = 0 THEN p[2] ELSE p[1]]

\* The encounters of rounds of one length, from 0, and the plan they make.
Turns(rounds, n, by) ==
    [e \in 0..(n * by - 1) |-> [round |-> e \div by + 1, pair |-> rounds[e \div by + 1][(e % by) + 1]]]
IsPlan(s, total, g, turns) ==
    /\ DOMAIN s = 1..(total * g)
    /\ \A e \in 0..(total - 1), j \in 0..(g - 1) :
          s[e * g + j + 1] = EntryOf(e, j, turns[e].round, turns[e].pair)

\* A game's number says which encounter it is of, and which of its games.
LEMMA NumberedBy ==
    ASSUME NEW total \in Nat, NEW g \in Nat
    PROVE  /\ \A e \in 0..(total - 1), j \in 0..(g - 1) : e * g + j + 1 \in 1..(total * g)
           /\ \A i \in 1..(total * g) :
                 \E e \in 0..(total - 1), j \in 0..(g - 1) : i = e * g + j + 1
<1>1. ASSUME NEW e \in 0..(total - 1), NEW j \in 0..(g - 1) PROVE e * g + j + 1 \in 1..(total * g)
  <2>1. e * g + j \in 0..(total * g - 1)
    BY RowIs
  <2>2. PICK x \in Nat, y \in Nat : x = e * g /\ y = total * g
    BY ProductIs
  <2> QED
    BY <2>1, <2>2
<1>2. ASSUME NEW i \in 1..(total * g)
      PROVE  \E e \in 0..(total - 1), j \in 0..(g - 1) : i = e * g + j + 1
  <2>1. PICK y \in Nat : y = total * g
    BY ProductIs
  <2>2. PICK x \in 0..(total * g - 1) : i = x + 1
    BY <2>1
  <2>3. x \div g \in 0..(total - 1) /\ x % g \in 0..(g - 1) /\ x = (x \div g) * g + (x % g)
    BY RowOf
  <2> QED
    BY <2>2, <2>3
<1> QED
  BY <1>1, <1>2

LEMMA PlanOf ==
    ASSUME NEW d, IsValid(d), NEW n, NEW by, HasRounds(d, n, by)
    PROVE  IsPlan(Schedule(d), n * by, d.games, Turns(Rounds(d), n, by))
<1> DEFINE pairings == Pairings(d)
           rounds == Rounds(d)
           s == Schedule(d)
<1>1. PICK g \in Nat \ {0} : g = d.games
  BY DEF Design, IsValid
<1>0. n \in Nat /\ by \in Nat
  BY DEF HasRounds
<1>2. PICK size \in Nat : size = by * g
  BY <1>0, <1>1, ProductIs
<1>3. Len(pairings) = n * size /\ HasGames(d, n, by, g, size)
  BY <1>1, <1>2, PairingsAt
<1>4. \A row \in 0..(n - 1), place \in 0..(by - 1), j \in 0..(g - 1) :
         pairings[row * size + (place * g + j) + 1] = GameOf(row + 1, rounds[row + 1][place + 1], j)
  BY <1>3 DEF HasGames
<1>5. DOMAIN pairings = 1..(n * size)
  BY <1>3, PairingsAre, LenProperties DEF IsValid
<1>6. s = [i \in DOMAIN pairings |-> [encounter |-> (i - 1) \div g + 1,
                        gameInEncounter |-> ((i - 1) % g) + 1,
                        round |-> pairings[i].round,
                        white |-> pairings[i].white,
                        black |-> pairings[i].black]]
  BY <1>1 DEF Schedule
<1> HIDE DEF pairings, rounds, s
<1>7. n * size = (n * by) * g
  BY <1>0, <1>2
<1>8. DOMAIN s = 1..((n * by) * g)
  BY <1>5, <1>6, <1>7
<1>9. PICK total \in Nat : total = n * by
  BY <1>0, ProductIs
<1>10. ASSUME NEW e \in 0..(total - 1), NEW j \in 0..(g - 1)
       PROVE  s[e * g + j + 1] = EntryOf(e, j, e \div by + 1, rounds[e \div by + 1][(e % by) + 1])
  <2>1. /\ e \div by \in 0..(n - 1) /\ e % by \in 0..(by - 1)
        /\ e = (e \div by) * by + (e % by)
    BY <1>0, <1>9, RowOf
  <2>2. PICK row \in 0..(n - 1), place \in 0..(by - 1) :
            row = e \div by /\ place = e % by /\ e = row * by + place
    BY <2>1
  <2>3. e * g + j = row * size + (place * g + j)
    <3>1. (row * by + place) * g + j = row * (by * g) + (place * g + j)
      BY <1>0, NumberInRows
    <3> QED
      BY <1>2, <2>2, <3>1
  <2>4. e * g + j + 1 \in DOMAIN s
    BY <1>8, <1>9, NumberedBy
  <2>5. PICK x \in Nat, i \in DOMAIN s : x = e * g + j /\ i = x + 1
    <3>1. PICK y \in Nat : y = e * g
      BY ProductIs
    <3>2. y + j \in Nat
      BY <3>1
    <3> QED
      BY <2>4, <3>1, <3>2
  <2>6. x \div g = e /\ x % g = j
    BY <2>5, Divided
  <2>7. i - 1 = x /\ i \in DOMAIN pairings
    BY <1>6, <2>5
  <2>8. s[i] = [encounter |-> e + 1, gameInEncounter |-> j + 1, round |-> pairings[i].round,
                white |-> pairings[i].white, black |-> pairings[i].black]
    BY <1>6, <2>6, <2>7
  <2>9. pairings[i] = GameOf(row + 1, rounds[row + 1][place + 1], j)
    BY <1>4, <2>3, <2>5
  <2>10. s[i] = EntryOf(e, j, row + 1, rounds[row + 1][place + 1])
    BY <2>8, <2>9 DEF EntryOf, GameOf
  <2> QED
    BY <2>2, <2>5, <2>10
<1>11. \A e \in 0..(total - 1), j \in 0..(g - 1) :
          s[e * g + j + 1] = EntryOf(e, j, Turns(rounds, n, by)[e].round, Turns(rounds, n, by)[e].pair)
  <2> SUFFICES ASSUME NEW e \in 0..(total - 1), NEW j \in 0..(g - 1)
               PROVE  s[e * g + j + 1] = EntryOf(e, j, Turns(rounds, n, by)[e].round, Turns(rounds, n, by)[e].pair)
    OBVIOUS
  <2>1. /\ Turns(rounds, n, by)[e].round = e \div by + 1
        /\ Turns(rounds, n, by)[e].pair = rounds[e \div by + 1][(e % by) + 1]
    BY <1>9 DEF Turns
  <2> QED
    BY <1>10, <2>1
<1>12. IsPlan(s, total, g, Turns(rounds, n, by))
  BY <1>8, <1>9, <1>11 DEF IsPlan
<1> QED
  BY <1>1, <1>9, <1>12 DEF s, rounds

IsTurns(turns, total) == \A e \in 0..(total - 1) : turns[e].pair \in Pair
Two(p) == {p[1], p[2]}
PlayersOf(s, i) == {s[i].white, s[i].black}

\* The number of a game, and the game of a number.
LEMMA EntryAt ==
    ASSUME NEW s, NEW total \in Nat, NEW g \in Nat, NEW turns, IsPlan(s, total, g, turns),
           NEW e \in 0..(total - 1), NEW j \in 0..(g - 1)
    PROVE  /\ e * g + j + 1 \in DOMAIN s
           /\ s[e * g + j + 1] = EntryOf(e, j, turns[e].round, turns[e].pair)
<1>1. e * g + j + 1 \in DOMAIN s
  BY NumberedBy DEF IsPlan
<1>2. s[e * g + j + 1] = EntryOf(e, j, turns[e].round, turns[e].pair)
  BY DEF IsPlan
<1> QED
  BY <1>1, <1>2

LEMMA NumberAt ==
    ASSUME NEW s, NEW total \in Nat, NEW g \in Nat, NEW turns, IsPlan(s, total, g, turns),
           NEW i \in DOMAIN s
    PROVE  \E e \in 0..(total - 1), j \in 0..(g - 1) :
              i = e * g + j + 1 /\ s[i] = EntryOf(e, j, turns[e].round, turns[e].pair)
<1>1. PICK e \in 0..(total - 1), j \in 0..(g - 1) : i = e * g + j + 1
  <2>1. i \in 1..(total * g)
    BY DEF IsPlan
  <2> QED
    BY <2>1, NumberedBy
<1>2. s[i] = EntryOf(e, j, turns[e].round, turns[e].pair)
  BY <1>1, EntryAt
<1> QED
  BY <1>1, <1>2

\* An encounter is g games in a row, in turn.
GamesOf(s, e) == {k \in DOMAIN s : s[k].encounter = e}
InTurn(s, i, k) ==
    /\ s[k].round = s[i].round
    /\ k - i = s[k].gameInEncounter - s[i].gameInEncounter
    /\ IF (k - i) % 2 = 0 THEN s[k].white = s[i].white /\ s[k].black = s[i].black
                          ELSE s[k].white = s[i].black /\ s[k].black = s[i].white

LEMMA GamesOfIs ==
    ASSUME NEW s, NEW total \in Nat, NEW g \in Nat, NEW turns, IsPlan(s, total, g, turns),
           NEW e \in 0..(total - 1)
    PROVE  Cardinality(GamesOf(s, e + 1)) = g
<1>1. PICK x \in Nat : x = e * g
  BY ProductIs
<1> DEFINE S == GamesOf(s, e + 1)
<1>2. S = (x + 1)..(x + g)
  <2>1. ASSUME NEW k \in S PROVE k \in (x + 1)..(x + g)
    <3>1. PICK f \in 0..(total - 1), j \in 0..(g - 1) :
              k = f * g + j + 1 /\ s[k] = EntryOf(f, j, turns[f].round, turns[f].pair)
      BY NumberAt DEF GamesOf
    <3>2. f + 1 = e + 1
      BY <3>1 DEF GamesOf, EntryOf
    <3>3. f = e
      BY <3>2
    <3> QED
      BY <1>1, <3>1, <3>3
  <2>2. ASSUME NEW k \in (x + 1)..(x + g) PROVE k \in S
    <3>1. PICK j \in 0..(g - 1) : k = x + j + 1
      <4>1. k - x - 1 \in 0..(g - 1) /\ k = x + (k - x - 1) + 1
        OBVIOUS
      <4> QED
        BY <4>1
    <3>2. k \in DOMAIN s /\ s[k] = EntryOf(e, j, turns[e].round, turns[e].pair)
      BY <1>1, <3>1, EntryAt
    <3> QED
      BY <3>2 DEF GamesOf, EntryOf
  <2> QED
    BY <2>1, <2>2
<1> HIDE DEF S
<1>3. PICK a \in Int, b \in Int : a = x + 1 /\ b = x + g
  OBVIOUS
<1>4. Cardinality(a..b) = IF a > b THEN 0 ELSE b - a + 1
  BY FS_Interval
<1>5. Cardinality(a..b) = g
  BY <1>3, <1>4
<1>6. S = a..b
  BY <1>2, <1>3
<1> QED
  BY <1>5, <1>6 DEF S

LEMMA DifferenceIsOdd ==
    ASSUME NEW j \in Nat, NEW l \in Nat
    PROVE  (l - j) % 2 = 0 <=> l % 2 = j % 2
OBVIOUS

LEMMA EncounterInTurn ==
    ASSUME NEW s, NEW total \in Nat, NEW g \in Nat, NEW turns, IsPlan(s, total, g, turns),
           NEW i \in DOMAIN s
    PROVE  /\ s[i].gameInEncounter \in 1..g
           /\ Cardinality(GamesOf(s, s[i].encounter)) = g
           /\ \A k \in GamesOf(s, s[i].encounter) : InTurn(s, i, k)
<1>1. PICK e \in 0..(total - 1), j \in 0..(g - 1) :
          i = e * g + j + 1 /\ s[i] = EntryOf(e, j, turns[e].round, turns[e].pair)
  BY NumberAt
<1>2. s[i].encounter = e + 1 /\ s[i].gameInEncounter = j + 1
  BY <1>1 DEF EntryOf
<1>3. Cardinality(GamesOf(s, s[i].encounter)) = g
  BY <1>2, GamesOfIs
<1>4. ASSUME NEW k \in GamesOf(s, s[i].encounter) PROVE InTurn(s, i, k)
  <2>1. PICK f \in 0..(total - 1), l \in 0..(g - 1) :
            k = f * g + l + 1 /\ s[k] = EntryOf(f, l, turns[f].round, turns[f].pair)
    BY NumberAt DEF GamesOf
  <2>2. f + 1 = e + 1
    BY <1>2, <2>1 DEF GamesOf, EntryOf
  <2>3. PICK x \in Nat : x = e * g
    BY ProductIs
  <2>4. f = e /\ k = x + l + 1 /\ i = x + j + 1
    BY <1>1, <2>1, <2>2, <2>3
  <2>5. k - i = l - j /\ k - i = (l + 1) - (j + 1)
    BY <2>4
  <2>6. s[k] = EntryOf(e, l, turns[e].round, turns[e].pair)
    BY <2>1, <2>4
  <2>7. s[k].round = s[i].round /\ k - i = s[k].gameInEncounter - s[i].gameInEncounter
    BY <1>1, <2>5, <2>6 DEF EntryOf
  <2>8. (k - i) % 2 = 0 <=> l % 2 = j % 2
    BY <2>5, DifferenceIsOdd
  <2>9. (l % 2 = 0 \/ l % 2 = 1) /\ (j % 2 = 0 \/ j % 2 = 1)
    BY Parity
  <2>10. IF (k - i) % 2 = 0 THEN s[k].white = s[i].white /\ s[k].black = s[i].black
                            ELSE s[k].white = s[i].black /\ s[k].black = s[i].white
    <3>1. /\ s[i].white = IF j % 2 = 0 THEN turns[e].pair[1] ELSE turns[e].pair[2]
          /\ s[i].black = IF j % 2 = 0 THEN turns[e].pair[2] ELSE turns[e].pair[1]
      BY <1>1 DEF EntryOf
    <3>2. /\ s[k].white = IF l % 2 = 0 THEN turns[e].pair[1] ELSE turns[e].pair[2]
          /\ s[k].black = IF l % 2 = 0 THEN turns[e].pair[2] ELSE turns[e].pair[1]
      BY <2>6 DEF EntryOf
    <3> QED
      BY <2>8, <2>9, <3>1, <3>2
  <2> QED
    BY <2>7, <2>10 DEF InTurn
<1>5. s[i].gameInEncounter \in 1..g
  BY <1>2
<1> QED
  BY <1>3, <1>4, <1>5

\* Who meets in which encounters.
MeetingsOf(s, a, b) == {s[i].encounter : i \in {k \in DOMAIN s : PlayersOf(s, k) = {a, b}}}
MeetAt(turns, total, a, b) == {e \in 1..total : Two(turns[e - 1].pair) = {a, b}}

LEMMA PlayersAt ==
    ASSUME NEW s, NEW total \in Nat, NEW g \in Nat, NEW turns, IsPlan(s, total, g, turns),
           NEW i \in DOMAIN s
    PROVE  /\ s[i].encounter \in 1..total
           /\ PlayersOf(s, i) = Two(turns[s[i].encounter - 1].pair)
           /\ s[i].round = turns[s[i].encounter - 1].round
<1>1. PICK e \in 0..(total - 1), j \in 0..(g - 1) :
          i = e * g + j + 1 /\ s[i] = EntryOf(e, j, turns[e].round, turns[e].pair)
  BY NumberAt
<1>2. /\ s[i].encounter = e + 1 /\ s[i].round = turns[e].round
      /\ s[i].white = IF j % 2 = 0 THEN turns[e].pair[1] ELSE turns[e].pair[2]
      /\ s[i].black = IF j % 2 = 0 THEN turns[e].pair[2] ELSE turns[e].pair[1]
  BY <1>1 DEF EntryOf
<1>3. e + 1 - 1 = e /\ e + 1 \in 1..total
  OBVIOUS
<1>4. PlayersOf(s, i) = Two(turns[e].pair)
  BY <1>2 DEF PlayersOf, Two
<1> QED
  BY <1>2, <1>3, <1>4

LEMMA MeetingsAre ==
    ASSUME NEW s, NEW total \in Nat, NEW g \in Nat, g > 0, NEW turns, IsPlan(s, total, g, turns),
           NEW a, NEW b
    PROVE  MeetingsOf(s, a, b) = MeetAt(turns, total, a, b)
<1>1. ASSUME NEW e \in MeetingsOf(s, a, b) PROVE e \in MeetAt(turns, total, a, b)
  <2>1. PICK i \in DOMAIN s : PlayersOf(s, i) = {a, b} /\ e = s[i].encounter
    BY <1>1 DEF MeetingsOf
  <2> QED
    BY <2>1, PlayersAt DEF MeetAt
<1>2. ASSUME NEW e \in MeetAt(turns, total, a, b) PROVE e \in MeetingsOf(s, a, b)
  <2>1. PICK f \in 0..(total - 1) : f = e - 1 /\ e = f + 1
    BY <1>2 DEF MeetAt
  <2>2. PICK j \in 0..(g - 1) : j = 0
    OBVIOUS
  <2>3. PICK i \in DOMAIN s : s[i] = EntryOf(f, j, turns[f].round, turns[f].pair)
    BY EntryAt
  <2>4. s[i].encounter = e
    BY <2>1, <2>3 DEF EntryOf
  <2>5. PlayersOf(s, i) = {a, b}
    <3>1. PlayersOf(s, i) = Two(turns[s[i].encounter - 1].pair)
      BY PlayersAt
    <3>2. PlayersOf(s, i) = Two(turns[e - 1].pair)
      BY <2>4, <3>1
    <3> QED
      BY <1>2, <3>2 DEF MeetAt
  <2> QED
    BY <2>4, <2>5 DEF MeetingsOf
<1> QED
  BY <1>1, <1>2

-----------------------------------------------------------------------------
(* The cycles of a plan. *)

\* The same encounters cycle for cycle.
Repeats(turns, cycles, each, base) ==
    \A c \in 0..(cycles - 1), x \in 0..(each - 1) : turns[c * each + x].pair = base[x]
NeverMeet(base, each, a, b) == \A x \in 0..(each - 1) : Two(base[x]) # {a, b}
MeetOnceAt(base, each, a, b, once) == \A x \in 0..(each - 1) : Two(base[x]) = {a, b} <=> x = once

LEMMA MeetEveryCycle ==
    ASSUME NEW turns, NEW cycles \in Nat, NEW each \in Nat, NEW total \in Nat, total = cycles * each,
           NEW base, Repeats(turns, cycles, each, base), NEW a, NEW b, NEW once \in 0..(each - 1),
           MeetOnceAt(base, each, a, b, once)
    PROVE  Cardinality(MeetAt(turns, total, a, b)) = cycles
<1> DEFINE Nth(c) == (c - 1) * each + once + 1
           f == [c \in 1..cycles |-> Nth(c)]
           T == MeetAt(turns, total, a, b)
<1>1. ASSUME NEW c \in 1..cycles PROVE Nth(c) \in T
  <2>1. PICK h \in 0..(cycles - 1) : h = c - 1
    OBVIOUS
  <2>2. h * each + once \in 0..(total - 1)
    BY RowIs
  <2>3. PICK e \in 0..(total - 1) : e = h * each + once
    BY <2>2
  <2>4. turns[e].pair = base[once] /\ Two(base[once]) = {a, b}
    BY <2>3 DEF Repeats, MeetOnceAt
  <2>5. e + 1 \in 1..total /\ e + 1 - 1 = e
    OBVIOUS
  <2>6. e + 1 \in T
    BY <2>4, <2>5 DEF MeetAt
  <2> QED
    BY <2>1, <2>3, <2>6
<1>2. ASSUME NEW t \in T PROVE \E c \in 1..cycles : Nth(c) = t
  <2>1. PICK e \in 0..(total - 1) : t = e + 1 /\ Two(turns[e].pair) = {a, b}
    <3>1. t \in 1..total /\ t - 1 \in 0..(total - 1) /\ t = (t - 1) + 1 /\ Two(turns[t - 1].pair) = {a, b}
      BY <1>2 DEF MeetAt
    <3> QED
      BY <3>1
  <2>2. e \div each \in 0..(cycles - 1) /\ e % each \in 0..(each - 1) /\ e = (e \div each) * each + (e % each)
    BY RowOf
  <2>3. PICK h \in 0..(cycles - 1), x \in 0..(each - 1) : e = h * each + x
    BY <2>2
  <2>4. turns[e].pair = base[x]
    BY <2>3 DEF Repeats
  <2>5. x = once
    BY <2>1, <2>4 DEF MeetOnceAt
  <2>6. PICK c \in 1..cycles : h = c - 1
    <3>1. h + 1 \in 1..cycles /\ h = h + 1 - 1
      OBVIOUS
    <3> QED
      BY <3>1
  <2> QED
    BY <2>1, <2>3, <2>5, <2>6
<1>3. ASSUME NEW c \in 1..cycles, NEW k \in 1..cycles, Nth(c) = Nth(k) PROVE c = k
  <2>1. PICK h \in Nat, l \in Nat : h = c - 1 /\ l = k - 1
    OBVIOUS
  <2>2. PICK x \in Nat, y \in Nat : x = h * each /\ y = l * each
    BY ProductIs
  <2>3. x + once = y + once
    BY <1>3, <2>1, <2>2
  <2>4. (h * each + once) \div each = h /\ (l * each + once) \div each = l
    BY Divided
  <2>5. h = l
    BY <2>2, <2>3, <2>4
  <2> QED
    BY <2>1, <2>5
<1> HIDE DEF Nth, T
<1>4. f \in Bijection(1..cycles, T)
  <2>1. f \in [1..cycles -> T]
    BY <1>1
  <2>2. f \in Injection(1..cycles, T)
    BY <1>3, <2>1 DEF Injection, IsInjective
  <2>3. f \in Surjection(1..cycles, T)
    BY <1>2, <2>1 DEF Surjection
  <2> QED
    BY <2>2, <2>3 DEF Bijection
<1>5. ExistsBijection(1..cycles, T)
  BY <1>4 DEF ExistsBijection
<1>6. IsFiniteSet(1..cycles) /\ Cardinality(1..cycles) = cycles
  BY FS_Interval
<1>7. Cardinality(T) = Cardinality(1..cycles)
  BY <1>5, <1>6, FS_Bijection
<1> QED
  BY <1>6, <1>7 DEF T

LEMMA MeetNever ==
    ASSUME NEW turns, NEW cycles \in Nat, NEW each \in Nat, NEW total \in Nat, total = cycles * each,
           NEW base, Repeats(turns, cycles, each, base), NEW a, NEW b,
           NeverMeet(base, each, a, b)
    PROVE  Cardinality(MeetAt(turns, total, a, b)) = 0
<1>1. ASSUME NEW t \in MeetAt(turns, total, a, b) PROVE FALSE
  <2>1. PICK e \in 0..(total - 1) : t = e + 1 /\ Two(turns[e].pair) = {a, b}
    <3>1. t \in 1..total /\ t - 1 \in 0..(total - 1) /\ t = (t - 1) + 1 /\ Two(turns[t - 1].pair) = {a, b}
      BY <1>1 DEF MeetAt
    <3> QED
      BY <3>1
  <2>2. e \div each \in 0..(cycles - 1) /\ e % each \in 0..(each - 1) /\ e = (e \div each) * each + (e % each)
    BY RowOf
  <2>3. PICK h \in 0..(cycles - 1), x \in 0..(each - 1) : e = h * each + x
    BY <2>2
  <2>4. turns[e].pair = base[x]
    BY <2>3 DEF Repeats
  <2> QED
    BY <2>1, <2>4 DEF NeverMeet
<1>2. MeetAt(turns, total, a, b) = {}
  BY <1>1
<1> QED
  BY <1>2, FS_EmptySet

\* The rounds of a cycle: as many as the circle has, or one of a gauntlet.
CircleOf(d) == IF d.format = "round-robin" THEN d.participants + (d.participants % 2) - 1 ELSE 1
RoundOf(d, q) ==
    IF d.format = "round-robin" THEN CircleRound(d.participants, q)
    ELSE [k \in 1..(d.seeds * (d.participants - d.seeds)) |->
             <<(k - 1) \div (d.participants - d.seeds),
               d.seeds + ((k - 1) % (d.participants - d.seeds))>>]

LEMMA RoundsInCycles ==
    ASSUME NEW d, IsValid(d)
    PROVE  /\ CircleOf(d) \in Nat \ {0}
           /\ Rounds(d) = [r \in 1..(d.cycles * CircleOf(d)) |-> RoundOf(d, (r - 1) % CircleOf(d))]
<1>1. /\ d.participants \in Nat /\ d.participants >= 2
      /\ d.cycles \in Nat \ {0}
      /\ d.format \in {"round-robin", "gauntlet"}
  BY DEF IsValid, Design
<1>2. CircleOf(d) \in Nat \ {0}
  BY <1>1, HalfOf DEF CircleOf
<1>3. CASE d.format = "round-robin"
  <2>1. CircleOf(d) = d.participants + (d.participants % 2) - 1
    BY <1>3 DEF CircleOf
  <2>2. \A q : RoundOf(d, q) = CircleRound(d.participants, q)
    BY <1>3 DEF RoundOf
  <2> QED
    BY <1>2, <1>3, <2>1, <2>2 DEF Rounds
<1>4. CASE d.format = "gauntlet"
  <2>1. CircleOf(d) = 1 /\ d.cycles * CircleOf(d) = d.cycles
    BY <1>1, <1>4 DEF CircleOf
  <2>2. \A r : Rounds(d) = [k \in 1..d.cycles |-> RoundOf(d, r)]
    BY <1>4 DEF Rounds, RoundOf
  <2> DEFINE met == RoundOf(d, 0)
  <2>3. \A q : RoundOf(d, q) = met
    BY <1>4 DEF RoundOf
  <2>4. Rounds(d) = [k \in 1..d.cycles |-> met]
    BY <2>2
  <2> HIDE DEF met
  <2> QED
    BY <1>2, <2>1, <2>3, <2>4
<1> QED
  BY <1>1, <1>3, <1>4

\* Every encounter of one cycle, from 0.
CycleOf(d, by) == [x \in 0..(CircleOf(d) * by - 1) |-> RoundOf(d, x \div by)[(x % by) + 1]]

LEMMA TurnsRepeat ==
    ASSUME NEW d, IsValid(d), NEW n, NEW by, HasRounds(d, n, by)
    PROVE  /\ n = d.cycles * CircleOf(d)
           /\ Repeats(Turns(Rounds(d), n, by), d.cycles, CircleOf(d) * by, CycleOf(d, by))
<1>1. PICK circle \in Nat \ {0}, cycles \in Nat : circle = CircleOf(d) /\ cycles = d.cycles
  BY RoundsInCycles DEF IsValid, Design
<1>2. Rounds(d) = [r \in 1..(cycles * circle) |-> RoundOf(d, (r - 1) % circle)]
  BY <1>1, RoundsInCycles
<1>3. n \in Nat /\ by \in Nat
  BY DEF HasRounds
<1>4. n = cycles * circle
  <2>1. PICK y \in Nat : y = cycles * circle
    BY <1>1, ProductIs
  <2>2. DOMAIN Rounds(d) = 1..y
    BY <1>2, <2>1
  <2>3. DOMAIN Rounds(d) = 1..n
    BY RoundsAre, LenProperties DEF IsValid, HasRounds
  <2>4. y = n
    <3>1. y > n => y \in 1..y /\ y \notin 1..n
      BY <1>3
    <3>2. n > y => n \in 1..n /\ n \notin 1..y
      BY <1>3
    <3> QED
      BY <1>3, <2>2, <2>3, <3>1, <3>2
  <2> QED
    BY <2>1, <2>4
<1>5. PICK each \in Nat : each = circle * by
  BY <1>1, <1>3, ProductIs
<1>6. ASSUME NEW c \in 0..(cycles - 1), NEW x \in 0..(each - 1)
      PROVE  Turns(Rounds(d), n, by)[c * each + x].pair = CycleOf(d, by)[x]
  <2>1. by > 0 /\ x \div by \in 0..(circle - 1) /\ x % by \in 0..(by - 1) /\ x = (x \div by) * by + (x % by)
    BY <1>1, <1>3, <1>5, RowOf
  <2>2. PICK q \in 0..(circle - 1), place \in 0..(by - 1) : q = x \div by /\ place = x % by /\ x = q * by + place
    BY <2>1
  <2>3. c * circle + q \in 0..(n - 1)
    BY <1>1, <1>4, RowIs
  <2>4. PICK row \in 0..(n - 1) : row = c * circle + q
    BY <2>3
  <2>5. row * by + place = c * (circle * by) + (q * by + place)
    <3>1. (c * circle + q) * by + place = c * (circle * by) + (q * by + place)
      BY <1>1, <1>3, NumberInRows
    <3> QED
      BY <2>4, <3>1
  <2>6. c * each + x = row * by + place
    BY <1>5, <2>2, <2>5
  <2>7. row * by + place \in 0..(n * by - 1)
    BY <1>3, RowIs
  <2>8. (row * by + place) \div by = row /\ (row * by + place) % by = place
    BY <1>3, <2>1, Divided
  <2>9. Turns(Rounds(d), n, by)[c * each + x].pair = Rounds(d)[row + 1][place + 1]
    BY <2>6, <2>7, <2>8 DEF Turns
  <2>10. row % circle = q
    <3>0. circle \in Nat /\ circle > 0 /\ c \in Nat
      BY <1>1
    <3>1. (c * circle + q) % circle = q
      BY <3>0, Divided
    <3> QED
      BY <2>4, <3>1
  <2>11. Rounds(d)[row + 1] = RoundOf(d, q)
    <3>1. PICK i \in 1..n : i = row + 1 /\ i - 1 = row
      BY <1>3
    <3>2. Rounds(d)[i] = RoundOf(d, (i - 1) % circle)
      BY <1>2, <1>4
    <3> QED
      BY <2>10, <3>1, <3>2
  <2>12. CycleOf(d, by)[x] = RoundOf(d, q)[place + 1]
    BY <1>1, <1>5, <2>2 DEF CycleOf
  <2> QED
    BY <2>9, <2>11, <2>12
<1> QED
  BY <1>1, <1>4, <1>5, <1>6 DEF Repeats

-----------------------------------------------------------------------------
(* The circle. *)

\* Who sits where after r rotations, and the other way round.
SeatedAt(m, r, i) == IF i = 0 THEN 0 ELSE IF i > r THEN i - r ELSE i - r + (m - 1)
PlaceOf(m, r, x) == IF x = 0 THEN 0 ELSE IF x + r <= m - 1 THEN x + r ELSE x + r - (m - 1)

LEMMA ArrangementAt ==
    ASSUME NEW m \in Nat, m >= 2, NEW r \in 0..(m - 2)
    PROVE  Arrangement(m, r) = [i \in 0..(m - 1) |-> SeatedAt(m, r, i)]
<1> DEFINE Step(g) == [k \in 0..r |-> IF k = 0 THEN [place \in 0..(m - 1) |-> place]
                                     ELSE Rotated(g[k - 1], m)]
           f == CHOOSE g : g = Step(g)
           Seats(k) == [i \in 0..(m - 1) |-> SeatedAt(m, k, i)]
<1>1. f = Step(f)
  <2>1. \E g : g = Step(g)
    <3>1. r \in Nat
      OBVIOUS
    <3> QED
      BY <3>1, ArrangementExists
  <2> HIDE DEF Step
  <2> QED
    BY <2>1
<1>2. Arrangement(m, r) = f[r]
  BY DEF Arrangement
<1> HIDE DEF f
<1>3. \A k \in 0..r : f[k] = IF k = 0 THEN [place \in 0..(m - 1) |-> place] ELSE Rotated(f[k - 1], m)
  BY <1>1
<1> DEFINE Bad == {k \in 0..r : f[k] # Seats(k)}
<1>4. Bad = {}
  <2> SUFFICES ASSUME Bad # {} PROVE FALSE
    OBVIOUS
  <2> HIDE DEF Seats
  <2>1. PICK k \in Bad : \A l \in Bad : k <= l
    <3>1. Bad \in SUBSET Nat
      OBVIOUS
    <3> QED
      BY <3>1, LeastNumber
  <2>2. k # 0
    <3>1. 0 \in 0..r
      OBVIOUS
    <3>2. f[0] = [place \in 0..(m - 1) |-> place]
      BY <1>3, <3>1
    <3>3. \A i \in 0..(m - 1) : SeatedAt(m, 0, i) = i
      BY DEF SeatedAt
    <3>4. f[0] = Seats(0)
      BY <3>2, <3>3 DEF Seats
    <3> QED
      BY <2>1, <3>4
  <2>3. PICK l \in 0..(r - 1) : l = k - 1 /\ k = l + 1 /\ k \in 0..r
    <3>1. k \in 0..r /\ k - 1 \in 0..(r - 1) /\ k = (k - 1) + 1
      BY <2>1, <2>2
    <3> QED
      BY <3>1
  <2>4. f[l] = Seats(l)
    <3>1. l \notin Bad /\ l \in 0..r
      BY <2>1, <2>3
    <3> QED
      BY <3>1
  <2>5. f[k] = Rotated(Seats(l), m)
    BY <1>3, <2>2, <2>3, <2>4
  <2>6. ASSUME NEW i \in 0..(m - 1)
        PROVE  (CASE i = 0 -> Seats(l)[0] [] i = 1 -> Seats(l)[m - 1] [] OTHER -> Seats(l)[i - 1])
                  = SeatedAt(m, k, i)
    <3>1. CASE i = 0
      <4>1. 0 \in 0..(m - 1)
        OBVIOUS
      <4>2. Seats(l)[0] = 0
        BY <4>1 DEF Seats, SeatedAt
      <4> QED
        BY <3>1, <4>2 DEF SeatedAt
    <3>2. CASE i = 1
      <4>1. m - 1 \in 0..(m - 1) /\ m - 1 # 0 /\ m - 1 > l
        BY <2>3
      <4>2. Seats(l)[m - 1] = m - 1 - l
        BY <4>1 DEF Seats, SeatedAt
      <4>3. SeatedAt(m, k, 1) = m - 1 - l
        BY <2>3 DEF SeatedAt
      <4> QED
        BY <3>2, <4>2, <4>3
    <3>3. CASE i # 0 /\ i # 1
      <4>1. i - 1 \in 0..(m - 1) /\ i - 1 # 0
        BY <3>3
      <4>2. Seats(l)[i - 1] = SeatedAt(m, l, i - 1)
        BY <4>1 DEF Seats
      <4>3. SeatedAt(m, l, i - 1) = SeatedAt(m, k, i)
        BY <2>3, <3>3 DEF SeatedAt
      <4> QED
        BY <3>3, <4>2, <4>3
    <3> QED
      BY <3>1, <3>2, <3>3
  <2>7. f[k] = Seats(k)
    <3>1. PICK a : a = Seats(l)
      OBVIOUS
    <3>2. f[k] = [i \in 0..(m - 1) |-> CASE i = 0 -> a[0] [] i = 1 -> a[m - 1] [] OTHER -> a[i - 1]]
      BY <2>5, <3>1 DEF Rotated
    <3>3. \A i \in 0..(m - 1) :
             (CASE i = 0 -> a[0] [] i = 1 -> a[m - 1] [] OTHER -> a[i - 1]) = SeatedAt(m, k, i)
      BY <2>6, <3>1
    <3>4. f[k] = [i \in 0..(m - 1) |-> SeatedAt(m, k, i)]
      BY <3>2, <3>3
    <3> QED
      BY <3>4 DEF Seats
  <2> QED
    BY <2>1, <2>7
<1>5. f[r] = Seats(r)
  <2> HIDE DEF Seats
  <2>1. r \in 0..r
    OBVIOUS
  <2> QED
    BY <1>4, <2>1
<1> QED
  BY <1>2, <1>5

LEMMA PlaceIs ==
    ASSUME NEW m \in Nat, m >= 2, NEW r \in 0..(m - 2)
    PROVE  /\ \A i \in 0..(m - 1) : Arrangement(m, r)[i] \in 0..(m - 1)
           /\ \A x \in 0..(m - 1) : PlaceOf(m, r, x) \in 0..(m - 1)
           /\ \A i \in 0..(m - 1), x \in 0..(m - 1) : Arrangement(m, r)[i] = x <=> i = PlaceOf(m, r, x)
<1>1. \A i \in 0..(m - 1) : Arrangement(m, r)[i] = SeatedAt(m, r, i)
  BY ArrangementAt
<1>2. \A i \in 0..(m - 1) : SeatedAt(m, r, i) \in 0..(m - 1)
  BY DEF SeatedAt
<1>3. \A x \in 0..(m - 1) : PlaceOf(m, r, x) \in 0..(m - 1)
  BY DEF PlaceOf
<1>4. ASSUME NEW i \in 0..(m - 1), NEW x \in 0..(m - 1) PROVE SeatedAt(m, r, i) = x <=> i = PlaceOf(m, r, x)
  BY DEF SeatedAt, PlaceOf
<1> QED
  BY <1>1, <1>2, <1>3, <1>4

\* Two sit opposite each other in exactly one round.
Opposite(m, r, x, y) == PlaceOf(m, r, x) + PlaceOf(m, r, y) = m - 1

LEMMA OppositeZero ==
    ASSUME NEW m \in Nat, m >= 2, NEW y \in 1..(m - 1)
    PROVE  \E once \in 0..(m - 2) : \A r \in 0..(m - 2) : Opposite(m, r, 0, y) <=> r = once
<1>1. m - 1 - y \in 0..(m - 2)
  OBVIOUS
<1>2. \A r \in 0..(m - 2) : Opposite(m, r, 0, y) <=> r = m - 1 - y
  BY DEF Opposite, PlaceOf
<1> QED
  BY <1>1, <1>2

LEMMA OppositeOthers ==
    ASSUME NEW half \in Nat, NEW m \in Nat, m = 2 * half, m >= 2,
           NEW x \in 1..(m - 1), NEW y \in 1..(m - 1), x # y
    PROVE  \E once \in 0..(m - 2) : \A r \in 0..(m - 2) : Opposite(m, r, x, y) <=> r = once
<1>1. \E z \in Nat : x + y = 2 * z \/ x + y = 2 * z + 1
  <2>1. (x + y) \div 2 \in Nat /\ (x + y = 2 * ((x + y) \div 2) \/ x + y = 2 * ((x + y) \div 2) + 1)
    OBVIOUS
  <2> QED
    BY <2>1
<1>2. PICK z \in Nat : x + y = 2 * z \/ x + y = 2 * z + 1
  BY <1>1
<1>3. CASE x + y = 2 * z
  <2>1. m - 1 - z \in 0..(m - 2)
    BY <1>3
  <2>2. \A r \in 0..(m - 2) : Opposite(m, r, x, y) <=> r = m - 1 - z
    BY <1>3 DEF Opposite, PlaceOf
  <2> QED
    BY <2>1, <2>2
<1>4. CASE x + y = 2 * z + 1 /\ x + y <= m - 1
  <2>1. half - 1 - z \in 0..(m - 2)
    BY <1>4
  <2>2. \A r \in 0..(m - 2) : Opposite(m, r, x, y) <=> r = half - 1 - z
    BY <1>4 DEF Opposite, PlaceOf
  <2> QED
    BY <2>1, <2>2
<1>5. CASE x + y = 2 * z + 1 /\ ~(x + y <= m - 1)
  <2>1. 3 * half - 2 - z \in 0..(m - 2)
    BY <1>5
  <2>2. \A r \in 0..(m - 2) : Opposite(m, r, x, y) <=> r = 3 * half - 2 - z
    BY <1>5 DEF Opposite, PlaceOf
  <2> QED
    BY <2>1, <2>2
<1> QED
  BY <1>2, <1>3, <1>4, <1>5

LEMMA OppositeOnce ==
    ASSUME NEW half \in Nat, NEW m \in Nat, m = 2 * half, m >= 2,
           NEW x \in 0..(m - 1), NEW y \in 0..(m - 1), x # y
    PROVE  \E once \in 0..(m - 2) : \A r \in 0..(m - 2) : Opposite(m, r, x, y) <=> r = once
<1>1. \A r \in 0..(m - 2) : Opposite(m, r, x, y) <=> Opposite(m, r, y, x)
  <2>1. \A r \in 0..(m - 2), w \in 0..(m - 1) : PlaceOf(m, r, w) \in 0..(m - 1)
    BY PlaceIs
  <2>2. ASSUME NEW i \in 0..(m - 1), NEW k \in 0..(m - 1) PROVE i + k = k + i
    OBVIOUS
  <2> QED
    BY <2>1, <2>2 DEF Opposite
<1>2. CASE x = 0
  <2>1. y \in 1..(m - 1)
    BY <1>2
  <2> QED
    BY <1>2, <2>1, OppositeZero
<1>3. CASE y = 0
  <2>1. x \in 1..(m - 1)
    BY <1>3
  <2>2. PICK once \in 0..(m - 2) : \A r \in 0..(m - 2) : Opposite(m, r, 0, x) <=> r = once
    BY <2>1, OppositeZero
  <2> QED
    BY <1>1, <1>3, <2>2
<1>4. CASE x # 0 /\ y # 0
  <2>1. x \in 1..(m - 1) /\ y \in 1..(m - 1)
    BY <1>4
  <2> QED
    BY <2>1, OppositeOthers
<1> QED
  BY <1>2, <1>3, <1>4

\* The rows of the circle without the one the bye is in, which is h.
Skip(h, k) == IF k < h THEN k ELSE k + 1
InRow(m, r, i) == {Arrangement(m, r)[i - 1], Arrangement(m, r)[m - i]}
IsBye(n, m, r, half, h) ==
    /\ h \in 1..(half + 1)
    /\ n \div 2 = IF h = half + 1 THEN half ELSE half - 1
    /\ \A i \in 1..half : n \in InRow(m, r, i) <=> i = h
IsCircle(n, m, half) == n \in Nat /\ n >= 2 /\ m \in Nat /\ m >= 2 /\ half \in Nat /\ m = n + (n % 2) /\ m = 2 * half /\ half = m \div 2

LEMMA CircleIs ==
    ASSUME NEW n \in Nat, n >= 2
    PROVE  \E m, half \in Nat : IsCircle(n, m, half)
<1>1. n % 2 \in 0..1 /\ n = 2 * (n \div 2) + (n % 2) /\ n \div 2 \in Nat
  OBVIOUS
<1>2. PICK h \in Nat, b \in 0..1 : h = n \div 2 /\ b = n % 2 /\ n = 2 * h + b
  BY <1>1
<1>3. PICK m \in Nat, half \in Nat : m = n + b /\ half = h + b /\ m = 2 * half
  <2>1. n + b \in Nat /\ h + b \in Nat /\ n + b = 2 * (h + b)
    BY <1>2
  <2> QED
    BY <2>1
<1>4. half = m \div 2
  BY <1>3
<1> QED
  BY <1>2, <1>3, <1>4 DEF IsCircle

LEMMA ByeIs ==
    ASSUME NEW n, NEW m, NEW half, IsCircle(n, m, half), NEW r \in 0..(m - 2)
    PROVE  \E h : IsBye(n, m, r, half, h)
<1>0. n \in Nat /\ n >= 2 /\ m \in Nat /\ m >= 2 /\ half \in Nat /\ m = n + (n % 2) /\ m = 2 * half
  BY DEF IsCircle
<1>1. /\ \A i \in 0..(m - 1) : Arrangement(m, r)[i] \in 0..(m - 1)
      /\ \A x \in 0..(m - 1) : PlaceOf(m, r, x) \in 0..(m - 1)
      /\ \A i \in 0..(m - 1), x \in 0..(m - 1) : Arrangement(m, r)[i] = x <=> i = PlaceOf(m, r, x)
  BY <1>0, PlaceIs
<1>2. n % 2 = 0 \/ n % 2 = 1
  BY <1>0
<1>3. \A i \in 1..half : i - 1 \in 0..(m - 1) /\ m - i \in 0..(m - 1)
  BY <1>0
<1>4. CASE n % 2 = 0
  <2>1. n = m /\ n \div 2 = half
    BY <1>0, <1>4
  <2>2. \A i \in 1..half : n \notin InRow(m, r, i) /\ i # half + 1
    BY <1>0, <1>1, <1>3, <2>1 DEF InRow
  <2>3. half + 1 \in 1..(half + 1)
    BY <1>0
  <2> QED
    BY <2>1, <2>2, <2>3 DEF IsBye
<1>5. CASE n % 2 = 1
  <2>1. n = m - 1 /\ n \in 0..(m - 1) /\ n \div 2 = half - 1
    BY <1>0, <1>5
  <2>2. PICK p \in 0..(m - 1) : p = PlaceOf(m, r, n)
    BY <1>1, <2>1
  <2>3. PICK h \in 1..half : h = IF p < half THEN p + 1 ELSE m - p
    <3>1. p < half => p + 1 \in 1..half
      BY <1>0
    <3>2. ~(p < half) => m - p \in 1..half
      BY <1>0
    <3> QED
      BY <3>1, <3>2
  <2>4. \A i \in 1..half : n \in InRow(m, r, i) <=> (i - 1 = p \/ m - i = p)
    BY <1>1, <1>3, <2>1, <2>2 DEF InRow
  <2>5. \A i \in 1..half : (i - 1 = p \/ m - i = p) <=> i = h
    BY <1>0, <2>3
  <2>6. h \in 1..(half + 1) /\ h # half + 1
    BY <1>0
  <2>7. \A i \in 1..half : n \in InRow(m, r, i) <=> i = h
    BY <2>4, <2>5
  <2>8. n \div 2 = IF h = half + 1 THEN half ELSE half - 1
    BY <2>1, <2>6
  <2>9. IsBye(n, m, r, half, h)
    BY <2>6, <2>7, <2>8 DEF IsBye
  <2> QED
    BY <2>9
<1> QED
  BY <1>2, <1>4, <1>5

\* The encounters of a round of the circle.
IsRound(list, n, m, r, h) ==
    /\ Len(list) = n \div 2
    /\ \A k \in 1..(n \div 2) :
          list[k] = <<Arrangement(m, r)[Skip(h, k) - 1], Arrangement(m, r)[m - Skip(h, k)]>>

LEMMA CircleRoundAt ==
    ASSUME NEW n, NEW m, NEW half, IsCircle(n, m, half), NEW r \in 0..(m - 2),
           NEW h, IsBye(n, m, r, half, h)
    PROVE  IsRound(CircleRound(n, r), n, m, r, h)
<1> DEFINE a == Arrangement(m, r)
           Met(i) == IF n \in {a[i - 1], a[m - i]} THEN << >> ELSE << <<a[i - 1], a[m - i]>> >>
           seqs == [i \in 1..half |-> Met(i)]
           at == [i \in 0..half |-> IF i < h THEN i ELSE i - 1]
<1>1. n \in Nat /\ m \in Nat /\ m >= 2 /\ half \in Nat /\ m = 2 * half
  BY DEF IsCircle
<1>2. h \in 1..(half + 1) /\ n \div 2 = IF h = half + 1 THEN half ELSE half - 1
  BY DEF IsBye
<1>3. CircleRound(n, r) = FlattenSeq(seqs)
  BY DEF CircleRound, IsCircle
<1>4. ASSUME NEW i \in 1..half
      PROVE  /\ Met(i) \in Seq(Nat \X Nat)
             /\ i = h => Len(Met(i)) = 0
             /\ i # h => Len(Met(i)) = 1 /\ Met(i)[1] = <<a[i - 1], a[m - i]>>
  <2>1. i - 1 \in 0..(m - 1) /\ m - i \in 0..(m - 1)
    BY <1>1
  <2>2. a[i - 1] \in Nat /\ a[m - i] \in Nat
    BY <1>1, <2>1, PlaceIs
  <2>3. n \in {a[i - 1], a[m - i]} <=> i = h
    BY DEF IsBye, InRow
  <2> DEFINE pair == <<a[i - 1], a[m - i]>>
  <2>4. pair \in Nat \X Nat
    BY <2>2
  <2>5. Met(i) = IF i = h THEN << >> ELSE <<pair>>
    BY <2>3
  <2> HIDE DEF pair, Met, a
  <2>6. /\ <<pair>> \in Seq(Nat \X Nat) /\ << >> \in Seq(Nat \X Nat)
        /\ Len(<<pair>>) = 1 /\ <<pair>>[1] = pair
        /\ Len(<< >>) = 0
    BY <2>4
  <2> QED
    BY <2>5, <2>6 DEF pair
<1> HIDE DEF Met, a
<1>5. seqs \in Seq(Seq(Nat \X Nat)) /\ Len(seqs) = half
  BY <1>1, <1>4
<1>6. \A i \in 1..half : seqs[i] = Met(i)
  OBVIOUS
<1> HIDE DEF seqs
<1>7. Ends(seqs, half, at)
  <2>1. at \in [0..half -> Nat] /\ at[0] = 0
    BY <1>1, <1>2
  <2>2. \A i \in 1..half : at[i] = at[i - 1] + Len(seqs[i])
    <3> SUFFICES ASSUME NEW i \in 1..half PROVE at[i] = at[i - 1] + Len(seqs[i])
      OBVIOUS
    <3>1. Len(seqs[i]) = IF i = h THEN 0 ELSE 1
      BY <1>4, <1>6
    <3>2. i \in 0..half /\ i - 1 \in 0..half
      BY <1>1
    <3>3. at[i] = (IF i < h THEN i ELSE i - 1) /\ at[i - 1] = IF i - 1 < h THEN i - 1 ELSE i - 1 - 1
      BY <3>2
    <3> HIDE DEF at
    <3> QED
      BY <1>1, <1>2, <3>1, <3>3
  <2> HIDE DEF at
  <2> QED
    BY <2>1, <2>2 DEF Ends
<1>8. at[half] = n \div 2
  BY <1>1, <1>2
<1>9. \A k \in 1..(n \div 2) : /\ Skip(h, k) \in 1..half /\ Skip(h, k) # h
                              /\ Skip(h, k) - 1 \in 0..half /\ at[Skip(h, k) - 1] + 1 = k
  BY <1>1, <1>2 DEF Skip
<1> HIDE DEF at
<1>10. Len(FlattenSeq(seqs)) = at[half] /\ JoinedAt(FlattenSeq(seqs), seqs, half, at)
  BY <1>1, <1>5, <1>7, Joined
<1>11. ASSUME NEW k \in 1..(n \div 2)
       PROVE  FlattenSeq(seqs)[k] = <<a[Skip(h, k) - 1], a[m - Skip(h, k)]>>
  <2>1. PICK i \in 1..half : i = Skip(h, k) /\ i # h /\ at[i - 1] + 1 = k
    BY <1>9
  <2>2. Len(seqs[i]) = 1 /\ seqs[i][1] = <<a[i - 1], a[m - i]>>
    BY <1>4, <1>6, <2>1
  <2>3. 1 \in 1..Len(seqs[i])
    BY <2>2
  <2>4. FlattenSeq(seqs)[at[i - 1] + 1] = seqs[i][1]
    BY <1>10, <2>3 DEF JoinedAt
  <2> QED
    BY <2>1, <2>2, <2>4
<1> QED
  BY <1>3, <1>8, <1>10, <1>11 DEF IsRound, a

LEMMA SkipIs ==
    ASSUME NEW n \in Nat, NEW half \in Nat, NEW h \in 1..(half + 1),
           n \div 2 = IF h = half + 1 THEN half ELSE half - 1
    PROVE  /\ \A k \in 1..(n \div 2) : Skip(h, k) \in 1..half /\ Skip(h, k) # h
           /\ \A k, l \in 1..(n \div 2) : Skip(h, k) = Skip(h, l) => k = l
           /\ \A i \in 1..half : i # h => \E k \in 1..(n \div 2) : Skip(h, k) = i
<1>1. /\ \A k \in 1..(n \div 2) : Skip(h, k) \in 1..half /\ Skip(h, k) # h
      /\ \A k, l \in 1..(n \div 2) : Skip(h, k) = Skip(h, l) => k = l
  BY DEF Skip
<1>2. ASSUME NEW i \in 1..half, i # h PROVE \E k \in 1..(n \div 2) : Skip(h, k) = i
  <2>1. CASE i < h
    <3>1. i \in 1..(n \div 2) /\ Skip(h, i) = i
      BY <2>1 DEF Skip
    <3> QED
      BY <3>1
  <2>2. CASE ~(i < h)
    <3>1. i - 1 \in 1..(n \div 2) /\ Skip(h, i - 1) = i
      BY <1>2, <2>2 DEF Skip
    <3> QED
      BY <3>1
  <2> QED
    BY <2>1, <2>2
<1> QED
  BY <1>1, <1>2

\* Who is in a row: the two whose places are its.
LEMMA RowHolds ==
    ASSUME NEW n, NEW m, NEW half, IsCircle(n, m, half), NEW r \in 0..(m - 2), NEW i \in 1..half,
           NEW x \in 0..(m - 1)
    PROVE  /\ x \in InRow(m, r, i) <=> (i - 1 = PlaceOf(m, r, x) \/ m - i = PlaceOf(m, r, x))
           /\ InRow(m, r, i) \in SUBSET (0..(m - 1))
<1>1. m \in Nat /\ m >= 2 /\ half \in Nat /\ m = 2 * half
  BY DEF IsCircle
<1>2. i - 1 \in 0..(m - 1) /\ m - i \in 0..(m - 1)
  BY <1>1
<1>3. /\ Arrangement(m, r)[i - 1] \in 0..(m - 1) /\ Arrangement(m, r)[m - i] \in 0..(m - 1)
      /\ Arrangement(m, r)[i - 1] = x <=> i - 1 = PlaceOf(m, r, x)
      /\ Arrangement(m, r)[m - i] = x <=> m - i = PlaceOf(m, r, x)
  BY <1>1, <1>2, PlaceIs
<1> QED
  BY <1>3 DEF InRow

\* The encounter of a round that is a row's.
LEMMA RowMeets ==
    ASSUME NEW n, NEW m, NEW half, IsCircle(n, m, half), NEW r \in 0..(m - 2),
           NEW h, IsBye(n, m, r, half, h), NEW k \in 1..(n \div 2)
    PROVE  Two(CircleRound(n, r)[k]) = InRow(m, r, Skip(h, k))
<1>1. CircleRound(n, r)[k] = <<Arrangement(m, r)[Skip(h, k) - 1], Arrangement(m, r)[m - Skip(h, k)]>>
  BY CircleRoundAt DEF IsRound
<1> QED
  BY <1>1 DEF Two, InRow

\* Two of a circle meet in one round of it, once.
MeetOnce(n, m, x, y) ==
    \E once \in 0..(m - 2), at \in 1..(n \div 2) :
        \A r \in 0..(m - 2), k \in 1..(n \div 2) :
            Two(CircleRound(n, r)[k]) = {x, y} <=> r = once /\ k = at

LEMMA CircleMeetsOnce ==
    ASSUME NEW n, NEW m, NEW half, IsCircle(n, m, half), NEW x \in 0..(n - 1), NEW y \in 0..(n - 1), x # y
    PROVE  MeetOnce(n, m, x, y)
<1>1. /\ n \in Nat /\ n >= 2 /\ m \in Nat /\ m >= 2 /\ half \in Nat /\ m = 2 * half
      /\ x \in 0..(m - 1) /\ y \in 0..(m - 1) /\ x # n /\ y # n
  <2>1. n % 2 \in 0..1 /\ m = n + (n % 2) /\ n \in Nat /\ n >= 2 /\ m \in Nat /\ m >= 2 /\ half \in Nat /\ m = 2 * half
    BY DEF IsCircle
  <2> QED
    BY <2>1
<1>2. PICK once \in 0..(m - 2) : \A r \in 0..(m - 2) : Opposite(m, r, x, y) <=> r = once
  BY <1>1, OppositeOnce
\* A row is these two's.
<1> DEFINE Px(r) == PlaceOf(m, r, x)
           Py(r) == PlaceOf(m, r, y)
<1>3. ASSUME NEW r \in 0..(m - 2) PROVE Px(r) \in 0..(m - 1) /\ Py(r) \in 0..(m - 1) /\ Px(r) # Py(r)
  <2>1. \A i \in 0..(m - 1), w \in 0..(m - 1) : Arrangement(m, r)[i] = w <=> i = PlaceOf(m, r, w)
    BY <1>1, PlaceIs
  <2>2. Px(r) \in 0..(m - 1) /\ Py(r) \in 0..(m - 1)
    BY <1>1, PlaceIs
  <2> QED
    BY <1>1, <2>1, <2>2
<1>4. ASSUME NEW r \in 0..(m - 2), NEW i \in 1..half
      PROVE  InRow(m, r, i) = {x, y} <=> (i - 1 = Px(r) /\ m - i = Py(r)) \/ (i - 1 = Py(r) /\ m - i = Px(r))
  <2>1. /\ x \in InRow(m, r, i) <=> (i - 1 = Px(r) \/ m - i = Px(r))
        /\ y \in InRow(m, r, i) <=> (i - 1 = Py(r) \/ m - i = Py(r))
    BY <1>1, RowHolds
  <2>2. InRow(m, r, i) = {x, y} <=> x \in InRow(m, r, i) /\ y \in InRow(m, r, i)
    BY DEF InRow
  <2> QED
    BY <1>1, <1>3, <2>1, <2>2
<1> HIDE DEF Px, Py
<1>5. \A r \in 0..(m - 2), i \in 1..half : InRow(m, r, i) = {x, y} => r = once
  <2> SUFFICES ASSUME NEW r \in 0..(m - 2), NEW i \in 1..half, InRow(m, r, i) = {x, y} PROVE r = once
    OBVIOUS
  <2>1. Px(r) + Py(r) = m - 1
    <3>1. (i - 1 = Px(r) /\ m - i = Py(r)) \/ (i - 1 = Py(r) /\ m - i = Px(r))
      BY <1>4
    <3>2. (i - 1) + (m - i) = m - 1 /\ (m - i) + (i - 1) = m - 1
      BY <1>1
    <3> QED
      BY <3>1, <3>2
  <2>2. Opposite(m, r, x, y)
    BY <2>1 DEF Opposite, Px, Py
  <2> QED
    BY <1>2, <2>2
<1>6. PICK row \in 1..half : \A i \in 1..half : InRow(m, once, i) = {x, y} <=> i = row
  <2>1. Px(once) + Py(once) = m - 1
    BY <1>2 DEF Opposite, Px, Py
  <2>2. PICK u \in 0..(m - 1), v \in 0..(m - 1) : u = Px(once) /\ v = Py(once) /\ u + v = m - 1
    BY <1>3, <2>1
  <2>3. PICK row \in 1..half : row = IF u < half THEN u + 1 ELSE v + 1
    <3>1. u < half => u + 1 \in 1..half
      BY <1>1
    <3>2. ~(u < half) => v + 1 \in 1..half
      BY <1>1, <2>2
    <3> QED
      BY <3>1, <3>2
  <2>4. \A i \in 1..half : (i - 1 = u /\ m - i = v) \/ (i - 1 = v /\ m - i = u) <=> i = row
    BY <1>1, <2>2, <2>3
  <2>5. \A i \in 1..half : InRow(m, once, i) = {x, y} <=> (i - 1 = u /\ m - i = v) \/ (i - 1 = v /\ m - i = u)
    BY <1>4, <2>2
  <2> QED
    BY <2>4, <2>5
<1>7. PICK h : IsBye(n, m, once, half, h)
  BY ByeIs
<1>8. h \in 1..(half + 1) /\ n \div 2 = IF h = half + 1 THEN half ELSE half - 1
  BY <1>7 DEF IsBye
<1>9. row # h
  <2>1. InRow(m, once, row) = {x, y}
    BY <1>6
  <2>2. n \notin InRow(m, once, row)
    BY <1>1, <2>1
  <2> QED
    BY <1>7, <2>2 DEF IsBye
<1>10. PICK at \in 1..(n \div 2) : Skip(h, at) = row
  BY <1>1, <1>8, <1>9, SkipIs
<1>11. ASSUME NEW r \in 0..(m - 2), NEW k \in 1..(n \div 2)
       PROVE  Two(CircleRound(n, r)[k]) = {x, y} <=> r = once /\ k = at
  <2>1. ASSUME Two(CircleRound(n, r)[k]) = {x, y} PROVE r = once /\ k = at
    <3>1. PICK g : IsBye(n, m, r, half, g)
      BY ByeIs
    <3>2. g \in 1..(half + 1) /\ n \div 2 = IF g = half + 1 THEN half ELSE half - 1
      BY <3>1 DEF IsBye
    <3>3. PICK i \in 1..half : i = Skip(g, k)
      BY <1>1, <3>2, SkipIs
    <3>4. InRow(m, r, i) = {x, y}
      BY <2>1, <3>1, <3>3, RowMeets
    <3>5. r = once
      BY <1>5, <3>4
    <3>6. Two(CircleRound(n, once)[k]) = InRow(m, once, Skip(h, k))
      BY <1>7, RowMeets
    <3>7. Skip(h, k) \in 1..half
      BY <1>1, <1>8, SkipIs
    <3>8. Skip(h, k) = row
      BY <1>6, <2>1, <3>5, <3>6, <3>7
    <3>9. k = at
      BY <1>1, <1>8, <1>10, <3>8, SkipIs
    <3> QED
      BY <3>5, <3>9
  <2>2. ASSUME r = once /\ k = at PROVE Two(CircleRound(n, r)[k]) = {x, y}
    <3>1. Two(CircleRound(n, once)[at]) = InRow(m, once, Skip(h, at))
      BY <1>7, RowMeets
    <3> QED
      BY <1>6, <1>10, <2>2, <3>1
  <2> QED
    BY <2>1, <2>2
<1> QED
  BY <1>11 DEF MeetOnce

\* Nobody has two encounters in a round of the circle.
LEMMA CircleRoundApart ==
    ASSUME NEW n, NEW m, NEW half, IsCircle(n, m, half), NEW r \in 0..(m - 2),
           NEW k \in 1..(n \div 2), NEW l \in 1..(n \div 2),
           Two(CircleRound(n, r)[k]) \cap Two(CircleRound(n, r)[l]) # {}
    PROVE  k = l
<1>1. n \in Nat /\ m \in Nat /\ m >= 2 /\ half \in Nat /\ m = 2 * half
  BY DEF IsCircle
<1>2. PICK h : IsBye(n, m, r, half, h)
  BY ByeIs
<1>3. h \in 1..(half + 1) /\ n \div 2 = IF h = half + 1 THEN half ELSE half - 1
  BY <1>2 DEF IsBye
<1>4. PICK i \in 1..half, j \in 1..half : i = Skip(h, k) /\ j = Skip(h, l)
  BY <1>1, <1>3, SkipIs
<1>5. Two(CircleRound(n, r)[k]) = InRow(m, r, i) /\ Two(CircleRound(n, r)[l]) = InRow(m, r, j)
  BY <1>2, <1>4, RowMeets
<1>6. PICK x \in InRow(m, r, i) : x \in InRow(m, r, j)
  BY <1>5
<1>7. x \in 0..(m - 1)
  <2>1. 0 \in 0..(m - 1)
    BY <1>1
  <2> QED
    BY <1>6, <2>1, RowHolds
<1>8. PICK p : p = PlaceOf(m, r, x) /\ (i - 1 = p \/ m - i = p) /\ (j - 1 = p \/ m - j = p)
  BY <1>6, <1>7, RowHolds
<1>9. i = j
  BY <1>1, <1>8
<1> QED
  <2>1. \A a, b \in 1..(n \div 2) : Skip(h, a) = Skip(h, b) => a = b
    BY <1>1, <1>3, SkipIs
  <2> QED
    BY <1>4, <1>9, <2>1

EncountersOf(d) ==
    IF d.format = "round-robin" THEN d.participants \div 2
    ELSE d.seeds * (d.participants - d.seeds)

LEMMA DesignIs ==
    ASSUME NEW d, IsValid(d)
    PROVE  /\ d.participants \in Nat /\ d.participants >= 2
           /\ d.cycles \in Nat \ {0} /\ d.games \in Nat \ {0}
           /\ d.format \in {"round-robin", "gauntlet"}
           /\ d.format = "gauntlet" => d.seeds \in 1..(d.participants - 1)
BY DEF IsValid, Design

LEMMA RoundHas ==
    ASSUME NEW d, IsValid(d), NEW q \in 0..(CircleOf(d) - 1)
    PROVE  Len(RoundOf(d, q)) = EncountersOf(d) /\ EncountersOf(d) \in Nat
<1>1. CASE d.format = "round-robin"
  <2>1. PICK n \in Nat : n = d.participants /\ n >= 2
    BY DesignIs
  <2>2. PICK m \in Nat, half \in Nat : IsCircle(n, m, half)
    BY <2>1, CircleIs
  <2>3. q \in 0..(m - 2)
    <3>1. m \in Nat /\ m = n + (n % 2)
      BY <2>2 DEF IsCircle
    <3>2. CircleOf(d) = m - 1
      BY <1>1, <2>1, <3>1 DEF CircleOf
    <3> QED
      BY <3>1, <3>2
  <2>4. PICK h : IsBye(n, m, q, half, h)
    BY <2>2, <2>3, ByeIs
  <2>5. Len(CircleRound(n, q)) = n \div 2
    BY <2>2, <2>3, <2>4, CircleRoundAt DEF IsRound
  <2>6. n \div 2 \in Nat
    BY <2>1
  <2> QED
    BY <1>1, <2>1, <2>5, <2>6 DEF RoundOf, EncountersOf
<1>2. CASE d.format = "gauntlet"
  <2>1. PICK seeds \in Nat, opponents \in Nat : seeds = d.seeds /\ opponents = d.participants - d.seeds
    <3>1. d.seeds \in Nat /\ d.participants - d.seeds \in Nat
      BY <1>2, DesignIs
    <3> QED
      BY <3>1
  <2>2. PICK size \in Nat : size = seeds * opponents
    BY ProductIs
  <2>3. RoundOf(d, q) = [k \in 1..size |-> <<(k - 1) \div opponents, seeds + ((k - 1) % opponents)>>]
    BY <1>2, <2>1, <2>2 DEF RoundOf
  <2>4. Len([k \in 1..size |-> <<(k - 1) \div opponents, seeds + ((k - 1) % opponents)>>]) = size
    OBVIOUS
  <2> QED
    BY <1>2, <2>1, <2>2, <2>3, <2>4 DEF EncountersOf
<1> QED
  BY <1>1, <1>2, DesignIs

LEMMA RoundsHave ==
    ASSUME NEW d, IsValid(d)
    PROVE  HasRounds(d, d.cycles * CircleOf(d), EncountersOf(d))
<1>1. PICK circle \in Nat, cycles \in Nat :
          circle = CircleOf(d) /\ circle > 0 /\ cycles = d.cycles
  BY RoundsInCycles, DesignIs
<1>2. PICK n \in Nat : n = cycles * circle
  BY ProductIs
<1>3. Rounds(d) = [r \in 1..n |-> RoundOf(d, (r - 1) % circle)]
  BY <1>1, <1>2, RoundsInCycles
<1>4. EncountersOf(d) \in Nat
  <2>1. 0 \in 0..(CircleOf(d) - 1)
    BY <1>1
  <2> QED
    BY <2>1, RoundHas
<1>5. Len(Rounds(d)) = n
  BY <1>3
<1>6. ASSUME NEW r \in 1..n PROVE Len(Rounds(d)[r]) = EncountersOf(d)
  <2>1. (r - 1) % circle \in 0..(CircleOf(d) - 1)
    <3>1. r - 1 \in Nat
      OBVIOUS
    <3> QED
      BY <1>1, <3>1, Division
  <2>2. Rounds(d)[r] = RoundOf(d, (r - 1) % circle)
    BY <1>3
  <2> QED
    BY <2>1, <2>2, RoundHas
<1> QED
  BY <1>1, <1>2, <1>4, <1>5, <1>6 DEF HasRounds, SameLength

CycleLength(d) == CircleOf(d) * EncountersOf(d)

\* Whom a design opposes.
IsOpposed(d, a, b) == a # b /\ (d.format = "gauntlet" => (a < d.seeds) # (b < d.seeds))

LEMMA CircleCycle ==
    ASSUME NEW d, IsValid(d), d.format = "round-robin",
           NEW a \in 0..(d.participants - 1), NEW b \in 0..(d.participants - 1), a # b,
           NEW each \in Nat, each = CycleLength(d)
    PROVE  \E once \in 0..(each - 1) : MeetOnceAt(CycleOf(d, EncountersOf(d)), each, a, b, once)
<1>1. PICK n \in Nat : n = d.participants /\ n >= 2
  BY DesignIs
<1>2. PICK m \in Nat, half \in Nat : IsCircle(n, m, half)
  BY <1>1, CircleIs
<1>3. PICK circle \in Nat : circle = CircleOf(d) /\ circle = m - 1
  <2>1. m \in Nat /\ m >= 2 /\ m = n + (n % 2)
    BY <1>2 DEF IsCircle
  <2>2. CircleOf(d) = m - 1 /\ m - 1 \in Nat
    BY <1>1, <2>1 DEF CircleOf
  <2> QED
    BY <2>2
<1>4. PICK by \in Nat : by = EncountersOf(d) /\ by = n \div 2
  <2>1. n \div 2 \in Nat
    BY <1>1
  <2> QED
    BY <1>1, <2>1 DEF EncountersOf
<1>5. \A q, k : RoundOf(d, q)[k] = CircleRound(n, q)[k]
  BY <1>1 DEF RoundOf
<1>6. PICK round \in 0..(m - 2), at \in 1..(n \div 2) :
          \A r \in 0..(m - 2), k \in 1..(n \div 2) :
              Two(CircleRound(n, r)[k]) = {a, b} <=> r = round /\ k = at
  <2>1. a \in 0..(n - 1) /\ b \in 0..(n - 1) /\ a # b
    BY <1>1
  <2>2. MeetOnce(n, m, a, b)
    BY <1>2, <2>1, CircleMeetsOnce
  <2> QED
    BY <2>2 DEF MeetOnce
<1>7. PICK place \in 0..(by - 1) : at = place + 1
  <2>1. at - 1 \in 0..(by - 1) /\ at = (at - 1) + 1
    BY <1>4
  <2> QED
    BY <2>1
<1>8. round \in 0..(circle - 1)
  BY <1>3
<1>9. round * by + place \in 0..(circle * by - 1)
  BY <1>8, RowIs
<1>10. PICK once \in 0..(each - 1) : once = round * by + place
  BY <1>3, <1>4, <1>9 DEF CycleLength
<1>11. ASSUME NEW x \in 0..(each - 1) PROVE Two(CycleOf(d, by)[x]) = {a, b} <=> x = once
  <2>1. /\ by > 0 /\ x \div by \in 0..(circle - 1) /\ x % by \in 0..(by - 1)
        /\ x = (x \div by) * by + (x % by)
    BY <1>3, <1>4, RowOf DEF CycleLength
  <2>2. PICK q \in 0..(circle - 1), p \in 0..(by - 1) : q = x \div by /\ p = x % by /\ x = q * by + p
    BY <2>1
  <2>3. CycleOf(d, by)[x] = CircleRound(n, q)[p + 1]
    BY <1>3, <1>4, <1>5, <2>2 DEF CycleOf, CycleLength
  <2>4. q \in 0..(m - 2) /\ p + 1 \in 1..(n \div 2)
    BY <1>3, <1>4
  <2>5. Two(CycleOf(d, by)[x]) = {a, b} <=> q = round /\ p + 1 = at
    BY <1>6, <2>3, <2>4
  <2>6. p + 1 = at <=> p = place
    BY <1>7
  <2>7. x = once => q = round /\ p = place
    <3> SUFFICES ASSUME x = once PROVE q = round /\ p = place
      OBVIOUS
    <3>1. (round * by + place) \div by = round /\ (round * by + place) % by = place
      BY <2>1, Divided
    <3> QED
      BY <1>10, <2>2, <3>1
  <2>8. q = round /\ p = place => x = once
    BY <1>10, <2>2
  <2> QED
    BY <2>5, <2>6, <2>7, <2>8
<1> QED
  BY <1>4, <1>10, <1>11 DEF MeetOnceAt

\* A gauntlet's cycle: each seed against each opponent.
SeedMeets(d, x, seeds, opponents) ==
    /\ x \div opponents \in 0..(seeds - 1) /\ x % opponents \in 0..(opponents - 1)
    /\ x = (x \div opponents) * opponents + (x % opponents)
    /\ CycleOf(d, EncountersOf(d))[x] = <<x \div opponents, seeds + (x % opponents)>>

LEMMA GauntletCycle ==
    ASSUME NEW d, IsValid(d), d.format = "gauntlet", NEW seeds \in Nat, seeds = d.seeds,
           NEW opponents \in Nat, opponents = d.participants - d.seeds,
           NEW each \in Nat, each = CycleLength(d), NEW x \in 0..(each - 1)
    PROVE  SeedMeets(d, x, seeds, opponents)
<1>1. opponents > 0
  BY DesignIs
<1>2. PICK by \in Nat : by = seeds * opponents /\ by = EncountersOf(d)
  BY ProductIs DEF EncountersOf
<1>3. CircleOf(d) = 1 /\ each = by /\ each = 1 * by
  BY <1>2 DEF CircleOf, CycleLength
<1>4. by > 0 /\ x \div by \in 0..(1 - 1) /\ x % by \in 0..(by - 1) /\ x = (x \div by) * by + (x % by)
  BY <1>3, RowOf
<1>5. x \div by = 0 /\ x % by = x
  <2>1. x \div by = 0
    BY <1>4
  <2>2. 0 * by = 0
    OBVIOUS
  <2>3. PICK p \in 0..(by - 1) : p = x % by /\ x = 0 * by + p
    BY <1>4, <2>1
  <2> QED
    BY <2>1, <2>2, <2>3
<1>6. \A q : RoundOf(d, q) = [k \in 1..by |-> <<(k - 1) \div opponents, seeds + ((k - 1) % opponents)>>]
  BY <1>2 DEF RoundOf
<1>7. CycleOf(d, by)[x] = RoundOf(d, 0)[x + 1]
  BY <1>3, <1>5 DEF CycleOf, CycleLength
<1>8. RoundOf(d, 0)[x + 1] = <<x \div opponents, seeds + (x % opponents)>>
  <2>1. PICK k \in 1..by : k = x + 1 /\ k - 1 = x
    BY <1>3
  <2>2. RoundOf(d, 0)[k] = <<(k - 1) \div opponents, seeds + ((k - 1) % opponents)>>
    BY <1>6
  <2> QED
    BY <2>1, <2>2
<1>9. /\ x \div opponents \in 0..(seeds - 1) /\ x % opponents \in 0..(opponents - 1)
      /\ x = (x \div opponents) * opponents + (x % opponents)
  <2>1. PICK w \in 0..(seeds * opponents - 1) : w = x
    BY <1>2, <1>3
  <2>2. w \div opponents \in 0..(seeds - 1)
    BY RowOf
  <2>3. w % opponents \in 0..(opponents - 1)
    BY RowOf
  <2>4. w = (w \div opponents) * opponents + (w % opponents)
    <3>1. w \in Nat
      BY ProductIs
    <3> QED
      BY <1>1, <3>1, Division
  <2> QED
    BY <2>1, <2>2, <2>3, <2>4
<1> QED
  BY <1>2, <1>7, <1>8, <1>9 DEF SeedMeets

LEMMA CycleLengthIs ==
    ASSUME NEW d, IsValid(d)
    PROVE  CycleLength(d) \in Nat /\ CircleOf(d) \in Nat /\ EncountersOf(d) \in Nat
<1>1. CircleOf(d) \in Nat /\ CircleOf(d) > 0
  BY RoundsInCycles
<1>2. EncountersOf(d) \in Nat
  <2>1. 0 \in 0..(CircleOf(d) - 1)
    BY <1>1
  <2> QED
    BY <2>1, RoundHas
<1>3. CycleLength(d) \in Nat
  BY <1>1, <1>2, ProductIs DEF CycleLength
<1> QED
  BY <1>1, <1>2, <1>3

\* A seed and an opponent meet once in a gauntlet's cycle.
LEMMA GauntletMeets ==
    ASSUME NEW d, IsValid(d), d.format = "gauntlet", NEW each \in Nat, each = CycleLength(d),
           NEW low \in 0..(d.seeds - 1), NEW high \in d.seeds..(d.participants - 1)
    PROVE  \E once \in 0..(each - 1) : MeetOnceAt(CycleOf(d, EncountersOf(d)), each, low, high, once)
<1>1. PICK seeds \in Nat, opponents \in Nat :
          /\ seeds = d.seeds /\ opponents = d.participants - d.seeds
          /\ opponents > 0 /\ low \in 0..(seeds - 1)
  <2>1. d.seeds \in Nat /\ d.participants - d.seeds \in Nat /\ d.participants - d.seeds > 0
    BY DesignIs
  <2> QED
    BY <2>1
<1>2. PICK place \in 0..(opponents - 1) : high = seeds + place
  <2>1. PICK n \in Nat : n = d.participants /\ opponents = n - seeds /\ high \in seeds..(n - 1)
    BY <1>1, DesignIs
  <2>2. high - seeds \in 0..(opponents - 1) /\ high = seeds + (high - seeds)
    BY <2>1
  <2> QED
    BY <2>2
<1>3. ASSUME NEW x \in 0..(each - 1)
      PROVE  /\ x \div opponents \in 0..(seeds - 1) /\ x % opponents \in 0..(opponents - 1)
             /\ x = (x \div opponents) * opponents + (x % opponents)
             /\ CycleOf(d, EncountersOf(d))[x] = <<x \div opponents, seeds + (x % opponents)>>
  <2>1. SeedMeets(d, x, seeds, opponents)
    BY <1>1, GauntletCycle
  <2> QED
    BY <2>1 DEF SeedMeets
<1>4. each = seeds * opponents
  <2>1. CircleOf(d) = 1 /\ EncountersOf(d) = seeds * opponents
    BY <1>1 DEF CircleOf, EncountersOf
  <2>2. PICK y \in Nat : y = seeds * opponents
    BY ProductIs
  <2> QED
    BY <2>1, <2>2 DEF CycleLength
<1>5. PICK once \in 0..(each - 1) : once = low * opponents + place
  <2>1. low * opponents + place \in 0..(seeds * opponents - 1)
    BY <1>1, RowIs
  <2> QED
    BY <1>4, <2>1
<1>6. ASSUME NEW x \in 0..(each - 1)
      PROVE  Two(CycleOf(d, EncountersOf(d))[x]) = {low, high} <=> x = once
  <2>1. PICK q \in 0..(seeds - 1), p \in 0..(opponents - 1) :
            q = x \div opponents /\ p = x % opponents /\ x = q * opponents + p
    BY <1>3
  <2>2. Two(CycleOf(d, EncountersOf(d))[x]) = {q, seeds + p}
    BY <1>3, <2>1 DEF Two
  <2>3. {q, seeds + p} = {low, seeds + place} <=> q = low /\ p = place
    <3>1. q # seeds + place /\ low # seeds + p /\ (seeds + p = seeds + place <=> p = place)
      BY <1>1
    <3> QED
      BY <3>1
  <2>4. q = low /\ p = place => x = once
    BY <1>5, <2>1
  <2>5. x = once => q = low /\ p = place
    <3> SUFFICES ASSUME x = once PROVE q = low /\ p = place
      OBVIOUS
    <3>1. (low * opponents + place) \div opponents = low /\ (low * opponents + place) % opponents = place
      <4>1. low \in Nat /\ opponents > 0
        BY <1>1
      <4> QED
        BY <4>1, Divided
    <3> QED
      BY <1>5, <2>1, <3>1
  <2> QED
    BY <1>2, <2>2, <2>3, <2>4, <2>5
<1> QED
  BY <1>6 DEF MeetOnceAt

\* In a cycle those a design opposes meet once, and no others do.
LEMMA CycleMeets ==
    ASSUME NEW d, IsValid(d), NEW a \in 0..(d.participants - 1), NEW b \in 0..(d.participants - 1),
           IsOpposed(d, a, b), NEW each \in Nat, each = CycleLength(d)
    PROVE  \E once \in 0..(each - 1) : MeetOnceAt(CycleOf(d, EncountersOf(d)), each, a, b, once)
<1>1. CASE d.format = "round-robin"
  BY <1>1, CircleCycle DEF IsOpposed
<1>2. CASE d.format = "gauntlet"
  <2>1. PICK seeds \in Nat, n \in Nat : seeds = d.seeds /\ n = d.participants
    BY <1>2, DesignIs
  <2>2. CASE a < seeds
    <3>1. a \in 0..(d.seeds - 1) /\ b \in d.seeds..(d.participants - 1)
      BY <1>2, <2>1, <2>2 DEF IsOpposed
    <3> QED
      BY <1>2, <3>1, GauntletMeets
  <2>3. CASE ~(a < seeds)
    <3>1. b \in 0..(d.seeds - 1) /\ a \in d.seeds..(d.participants - 1)
      BY <1>2, <2>1, <2>3 DEF IsOpposed
    <3>2. PICK once \in 0..(each - 1) : MeetOnceAt(CycleOf(d, EncountersOf(d)), each, b, a, once)
      BY <1>2, <3>1, GauntletMeets
    <3>3. {a, b} = {b, a}
      OBVIOUS
    <3>4. MeetOnceAt(CycleOf(d, EncountersOf(d)), each, a, b, once)
      BY <3>2, <3>3 DEF MeetOnceAt
    <3> QED
      BY <3>4
  <2> QED
    BY <2>2, <2>3
<1> QED
  BY <1>1, <1>2, DesignIs

LEMMA CycleNever ==
    ASSUME NEW d, IsValid(d), NEW a \in 0..(d.participants - 1), NEW b \in 0..(d.participants - 1),
           ~IsOpposed(d, a, b), NEW each \in Nat, each = CycleLength(d), NEW x \in 0..(each - 1)
    PROVE  Two(CycleOf(d, EncountersOf(d))[x]) # {a, b}
<1>1. CASE d.format = "round-robin"
  <2>1. a = b
    BY <1>1 DEF IsOpposed
  <2>2. PICK circle \in Nat, by \in Nat : circle = CircleOf(d) /\ by = EncountersOf(d) /\ each = circle * by
    BY CycleLengthIs DEF CycleLength
  <2>3. x \div by \in 0..(circle - 1) /\ x % by \in 0..(by - 1)
    BY <2>2, RowOf
  <2>4. PICK q \in 0..(circle - 1), p \in 0..(by - 1) : q = x \div by /\ p = x % by
    BY <2>3
  <2>5. CycleOf(d, by)[x] = RoundOf(d, q)[p + 1]
    BY <2>2, <2>4 DEF CycleOf
  <2>6. RoundOf(d, q) \in Seq(Pair)
    <3>1. RoundOf(d, q) = CircleRound(d.participants, q)
      BY <1>1 DEF RoundOf
    <3>2. d.participants \in Nat /\ d.participants >= 2 /\ q \in Nat
      BY DesignIs
    <3> QED
      BY <3>1, <3>2, CircleRoundIs
  <2>7. Len(RoundOf(d, q)) = by
    BY <2>2, RoundHas
  <2>8. p + 1 \in 1..Len(RoundOf(d, q))
    BY <2>7
  <2>9. RoundOf(d, q)[p + 1] \in Pair
    BY <2>6, <2>8, ElementOfSeq
  <2>10. CycleOf(d, by)[x][1] # CycleOf(d, by)[x][2]
    BY <2>5, <2>9 DEF Pair
  <2> QED
    BY <2>1, <2>2, <2>10 DEF Two
<1>2. CASE d.format = "gauntlet"
  <2>1. PICK seeds \in Nat, opponents \in Nat :
            seeds = d.seeds /\ opponents = d.participants - d.seeds
    <3>1. d.seeds \in Nat /\ d.participants - d.seeds \in Nat
      BY <1>2, DesignIs
    <3> QED
      BY <3>1
  <2>2. /\ x \div opponents \in 0..(seeds - 1) /\ x % opponents \in 0..(opponents - 1)
        /\ CycleOf(d, EncountersOf(d))[x] = <<x \div opponents, seeds + (x % opponents)>>
    <3>1. SeedMeets(d, x, seeds, opponents)
      BY <1>2, <2>1, GauntletCycle
    <3> QED
      BY <3>1 DEF SeedMeets
  <2>3. PICK q \in 0..(seeds - 1), p \in 0..(opponents - 1) : q = x \div opponents /\ p = x % opponents
    BY <2>2
  <2>4. CycleOf(d, EncountersOf(d))[x] = <<q, seeds + p>>
    BY <2>2, <2>3
  <2>5. Two(CycleOf(d, EncountersOf(d))[x]) = {q, seeds + p}
    BY <2>4 DEF Two
  <2>6. q < seeds /\ ~(seeds + p < seeds) /\ q # seeds + p
    OBVIOUS
  <2>7. a = b \/ ((a < seeds) <=> (b < seeds))
    BY <1>2, <2>1 DEF IsOpposed
  <2> QED
    BY <2>5, <2>6, <2>7
<1> QED
  BY <1>1, <1>2, DesignIs

\* The plan of a design, as its cycles.
IsPlanned(d, s, cycles, circle, by, total, each, turns) ==
    /\ cycles \in Nat /\ circle \in Nat /\ circle > 0 /\ by \in Nat /\ total \in Nat /\ each \in Nat
    /\ cycles = d.cycles /\ circle = CircleOf(d) /\ by = EncountersOf(d) /\ each = CycleLength(d)
    /\ d.games \in Nat /\ d.games > 0
    /\ HasRounds(d, cycles * circle, by)
    /\ total = (cycles * circle) * by /\ total = cycles * each
    /\ turns = Turns(Rounds(d), cycles * circle, by)
    /\ IsPlan(s, total, d.games, turns)
    /\ Repeats(turns, cycles, each, CycleOf(d, by))

LEMMA Planned ==
    ASSUME NEW d, IsValid(d)
    PROVE  \E cycles, circle, by, total, each, turns :
              IsPlanned(d, Schedule(d), cycles, circle, by, total, each, turns)
<1>1. PICK cycles \in Nat, circle \in Nat, by \in Nat, each \in Nat :
          /\ cycles = d.cycles /\ circle = CircleOf(d) /\ circle > 0
          /\ by = EncountersOf(d) /\ each = CycleLength(d)
  BY CycleLengthIs, DesignIs, RoundsInCycles
<1>2. HasRounds(d, cycles * circle, by)
  BY <1>1, RoundsHave
<1>3. PICK n \in Nat : n = cycles * circle
  BY ProductIs
<1>4. PICK total \in Nat : total = n * by
  BY ProductIs
<1>5. total = cycles * each
  <2>1. (cycles * circle) * by = cycles * (circle * by)
    BY <1>3
  <2>2. each = circle * by
    BY <1>1 DEF CycleLength
  <2> QED
    BY <1>3, <1>4, <2>1, <2>2
<1>6. PICK turns : turns = Turns(Rounds(d), n, by)
  OBVIOUS
<1>7. IsPlan(Schedule(d), total, d.games, turns)
  BY <1>2, <1>3, <1>4, <1>6, PlanOf
<1>8. Repeats(turns, cycles, each, CycleOf(d, by))
  <2>1. Repeats(Turns(Rounds(d), n, by), d.cycles, CircleOf(d) * by, CycleOf(d, by))
    BY <1>2, <1>3, TurnsRepeat
  <2> QED
    BY <1>1, <1>6, <2>1 DEF CycleLength
<1>9. d.games \in Nat /\ d.games > 0
  BY DesignIs
<1>10. IsPlanned(d, Schedule(d), cycles, circle, by, total, each, turns)
  BY <1>1, <1>2, <1>3, <1>4, <1>5, <1>6, <1>7, <1>8, <1>9 DEF IsPlanned
<1> QED
  BY <1>10

LEMMA MeetingsOfPlan ==
    ASSUME NEW d, IsValid(d), NEW a \in 0..(d.participants - 1), NEW b \in 0..(d.participants - 1)
    PROVE  Cardinality(MeetingsOf(Schedule(d), a, b)) = IF IsOpposed(d, a, b) THEN d.cycles ELSE 0
<1>1. PICK cycles, circle, by, total, each, turns :
          IsPlanned(d, Schedule(d), cycles, circle, by, total, each, turns)
  BY Planned
<1>2. /\ cycles \in Nat /\ cycles = d.cycles /\ total \in Nat /\ each \in Nat /\ by = EncountersOf(d)
      /\ each = CycleLength(d) /\ total = cycles * each
      /\ d.games \in Nat /\ d.games > 0
      /\ IsPlan(Schedule(d), total, d.games, turns) /\ Repeats(turns, cycles, each, CycleOf(d, by))
  BY <1>1 DEF IsPlanned
<1>3. MeetingsOf(Schedule(d), a, b) = MeetAt(turns, total, a, b)
  BY <1>2, MeetingsAre
<1>4. CASE IsOpposed(d, a, b)
  <2>1. PICK once \in 0..(each - 1) : MeetOnceAt(CycleOf(d, by), each, a, b, once)
    BY <1>2, <1>4, CycleMeets
  <2>2. Cardinality(MeetAt(turns, total, a, b)) = cycles
    BY <1>2, <2>1, MeetEveryCycle
  <2> QED
    BY <1>2, <1>3, <1>4, <2>2
<1>5. CASE ~IsOpposed(d, a, b)
  <2>1. NeverMeet(CycleOf(d, by), each, a, b)
    BY <1>2, <1>5, CycleNever DEF NeverMeet
  <2>2. Cardinality(MeetAt(turns, total, a, b)) = 0
    BY <1>2, <2>1, MeetNever
  <2> QED
    BY <1>3, <1>5, <2>2
<1> QED
  BY <1>4, <1>5

\* In a round robin's plan nobody has two encounters in one round.
LEMMA RoundsApart ==
    ASSUME NEW d, IsValid(d), d.format = "round-robin",
           NEW i \in DOMAIN Schedule(d), NEW k \in DOMAIN Schedule(d),
           Schedule(d)[i].round = Schedule(d)[k].round,
           PlayersOf(Schedule(d), i) \cap PlayersOf(Schedule(d), k) # {}
    PROVE  Schedule(d)[i].encounter = Schedule(d)[k].encounter
<1> DEFINE s == Schedule(d)
<1>1. PICK cycles, circle, by, total, each, turns :
          IsPlanned(d, s, cycles, circle, by, total, each, turns)
  BY Planned
<1>2. /\ cycles \in Nat /\ circle \in Nat /\ circle > 0 /\ by \in Nat /\ total \in Nat
      /\ cycles = d.cycles /\ circle = CircleOf(d) /\ by = EncountersOf(d)
      /\ total = (cycles * circle) * by
      /\ turns = Turns(Rounds(d), cycles * circle, by)
      /\ d.games \in Nat /\ IsPlan(s, total, d.games, turns)
  BY <1>1 DEF IsPlanned
<1>3. PICK n \in Nat : n = cycles * circle /\ total = n * by
  BY <1>2, ProductIs
<1>4. /\ s[i].encounter \in 1..total /\ s[k].encounter \in 1..total
      /\ PlayersOf(s, i) = Two(turns[s[i].encounter - 1].pair)
      /\ PlayersOf(s, k) = Two(turns[s[k].encounter - 1].pair)
      /\ s[i].round = turns[s[i].encounter - 1].round
      /\ s[k].round = turns[s[k].encounter - 1].round
  BY <1>2, PlayersAt
<1>5. PICK e \in 0..(total - 1), f \in 0..(total - 1) :
          /\ e = s[i].encounter - 1 /\ f = s[k].encounter - 1
          /\ s[i].encounter = e + 1 /\ s[k].encounter = f + 1
  <2>1. PICK u \in 1..total, v \in 1..total : u = s[i].encounter /\ v = s[k].encounter
    BY <1>4
  <2>2. u - 1 \in 0..(total - 1) /\ u = (u - 1) + 1 /\ v - 1 \in 0..(total - 1) /\ v = (v - 1) + 1
    BY <1>2
  <2> QED
    BY <2>1, <2>2
<1>6. turns[e].round = turns[f].round /\ Two(turns[e].pair) \cap Two(turns[f].pair) # {}
  BY <1>4, <1>5
<1>7. ASSUME NEW x \in 0..(total - 1)
      PROVE  \E row \in 0..(n - 1), place \in 0..(by - 1) :
                /\ x = row * by + place /\ turns[x].round = row + 1
                /\ turns[x].pair = CircleRound(d.participants, row % circle)[place + 1]
  <2>1. x \div by \in 0..(n - 1) /\ x % by \in 0..(by - 1) /\ x = (x \div by) * by + (x % by)
    <3>1. by \in Nat /\ x \in 0..(n * by - 1)
      BY <1>2, <1>3
    <3> QED
      BY <3>1, RowOf
  <2>2. PICK row \in 0..(n - 1), place \in 0..(by - 1) : row = x \div by /\ place = x % by /\ x = row * by + place
    BY <2>1
  <2>3. turns[x] = [round |-> row + 1, pair |-> Rounds(d)[row + 1][place + 1]]
    BY <1>2, <1>3, <2>2 DEF Turns
  <2>4. Rounds(d)[row + 1] = RoundOf(d, row % circle)
    <3>1. Rounds(d) = [r \in 1..n |-> RoundOf(d, (r - 1) % circle)]
      BY <1>2, <1>3, RoundsInCycles
    <3>2. PICK r \in 1..n : r = row + 1 /\ r - 1 = row
      BY <1>3
    <3> QED
      BY <3>1, <3>2
  <2>5. RoundOf(d, row % circle) = CircleRound(d.participants, row % circle)
    BY DEF RoundOf
  <2>6. turns[x].round = row + 1 /\ turns[x].pair = Rounds(d)[row + 1][place + 1]
    BY <2>3
  <2>7. turns[x].pair = CircleRound(d.participants, row % circle)[place + 1]
    BY <2>4, <2>5, <2>6
  <2> QED
    BY <2>2, <2>6, <2>7
<1>8. PICK row \in 0..(n - 1), place \in 0..(by - 1) :
          /\ e = row * by + place /\ turns[e].round = row + 1
          /\ turns[e].pair = CircleRound(d.participants, row % circle)[place + 1]
  BY <1>7
<1>9. PICK line \in 0..(n - 1), spot \in 0..(by - 1) :
          /\ f = line * by + spot /\ turns[f].round = line + 1
          /\ turns[f].pair = CircleRound(d.participants, line % circle)[spot + 1]
  BY <1>7
<1>10. row = line
  BY <1>6, <1>8, <1>9
<1>11. PICK q \in 0..(circle - 1) : q = row % circle
  <2>1. row \in Nat
    BY <1>3
  <2>2. row % circle \in 0..(circle - 1)
    BY <1>2, <2>1, Division
  <2> QED
    BY <2>2
<1>12. PICK p \in Nat : p = d.participants /\ p >= 2
  BY DesignIs
<1>13. PICK m \in Nat, half \in Nat : IsCircle(p, m, half)
  BY <1>12, CircleIs
<1>14. q \in 0..(m - 2)
  <2>1. m \in Nat /\ m = p + (p % 2)
    BY <1>13 DEF IsCircle
  <2>2. circle = m - 1
    BY <1>2, <1>12, <2>1 DEF CircleOf
  <2> QED
    BY <2>1, <2>2
<1>15. by = p \div 2
  BY <1>2, <1>12 DEF EncountersOf
<1>16. place + 1 \in 1..(p \div 2) /\ spot + 1 \in 1..(p \div 2)
  BY <1>2, <1>15
<1>17. Two(CircleRound(p, q)[place + 1]) \cap Two(CircleRound(p, q)[spot + 1]) # {}
  BY <1>6, <1>8, <1>9, <1>10, <1>11, <1>12
<1>18. place + 1 = spot + 1
  BY <1>13, <1>14, <1>16, <1>17, CircleRoundApart
<1>19. e = f
  BY <1>8, <1>9, <1>10, <1>18
<1> QED
  BY <1>5, <1>19

-----------------------------------------------------------------------------
(* The order of numbers. *)

Below(S, n) == {m \in S : m < n}

\* Of two numbers of a finite set the lesser has fewer below it.
LEMMA RankGrows ==
    ASSUME NEW S \in SUBSET Int, IsFiniteSet(S), NEW m \in S, NEW n \in S
    PROVE  /\ Cardinality(Below(S, n)) \in 0..(Cardinality(S) - 1)
           /\ m < n => Cardinality(Below(S, m)) < Cardinality(Below(S, n))
<1>1. /\ IsFiniteSet(Below(S, n)) /\ Cardinality(Below(S, n)) <= Cardinality(S)
      /\ Cardinality(Below(S, n)) # Cardinality(S)
  <2>1. Below(S, n) \in SUBSET S /\ n \notin Below(S, n)
    BY DEF Below
  <2> QED
    BY <2>1, FS_Subset
<1>2. Cardinality(Below(S, n)) \in Nat /\ Cardinality(S) \in Nat
  BY <1>1, FS_CardinalityType
<1>3. ASSUME m < n PROVE Cardinality(Below(S, m)) < Cardinality(Below(S, n))
  <2>1. Below(S, m) \in SUBSET Below(S, n) /\ m \in Below(S, n) /\ m \notin Below(S, m)
    <3>1. \A x \in S : x < m => x < n
      <4> SUFFICES ASSUME NEW x \in S, x < m PROVE x < n
        OBVIOUS
      <4>1. x \in Int /\ m \in Int /\ n \in Int
        OBVIOUS
      <4> QED
        BY <1>3, <4>1
    <3>2. ~(m < m)
      <4>1. m \in Int
        OBVIOUS
      <4> QED
        BY <4>1
    <3> QED
      BY <1>3, <3>1, <3>2 DEF Below
  <2>2. /\ IsFiniteSet(Below(S, m)) /\ Cardinality(Below(S, m)) <= Cardinality(Below(S, n))
        /\ Cardinality(Below(S, m)) # Cardinality(Below(S, n))
    BY <1>1, <2>1, FS_Subset
  <2>3. Cardinality(Below(S, m)) \in Nat
    BY <2>2, FS_CardinalityType
  <2> QED
    BY <1>2, <2>2, <2>3
<1> QED
  BY <1>1, <1>2, <1>3

\* Each number has its own place in the order.
LEMMA InOrderIs ==
    ASSUME NEW S \in SUBSET Int, IsFiniteSet(S)
    PROVE  /\ Cardinality(S) \in Nat
           /\ InOrder(S) \in [1..Cardinality(S) -> S]
           /\ \A k \in 1..Cardinality(S) : Cardinality(Below(S, InOrder(S)[k])) = k - 1
           /\ \A n \in S : /\ Cardinality(Below(S, n)) + 1 \in 1..Cardinality(S)
                           /\ InOrder(S)[Cardinality(Below(S, n)) + 1] = n
           /\ \A k, l \in 1..Cardinality(S) : k < l => InOrder(S)[k] < InOrder(S)[l]
<1> DEFINE c == Cardinality(S)
           Rank(n) == Cardinality(Below(S, n))
           rank == [n \in S |-> Rank(n)]
<1>1. c \in Nat
  BY FS_CardinalityType
<1>2. \A n \in S : Rank(n) \in 0..(c - 1)
  BY RankGrows
<1>3. \A m, n \in S : m < n => Rank(m) < Rank(n)
  BY RankGrows
<1>4. InOrder(S) = [k \in 1..c |-> CHOOSE n \in S : Rank(n) = k - 1]
  BY DEF InOrder, Below
<1> HIDE DEF Rank, c
<1>5. \A m, n \in S : Rank(m) = Rank(n) => m = n
  <2> SUFFICES ASSUME NEW m \in S, NEW n \in S, Rank(m) = Rank(n), m # n PROVE FALSE
    OBVIOUS
  <2>1. Rank(m) \in Int /\ (m < n \/ n < m)
    BY <1>1, <1>2
  <2> QED
    BY <1>3, <2>1
<1>6. ASSUME NEW k \in 1..c PROVE \E n \in S : Rank(n) = k - 1
  <2>1. rank \in Injection(S, 0..(c - 1))
    BY <1>2, <1>5 DEF Injection, IsInjective
  <2>2. IsFiniteSet(0..(c - 1)) /\ Cardinality(0..(c - 1)) = c
    BY <1>1, FS_Interval
  <2> HIDE DEF rank
  <2>3. rank \in Surjection(S, 0..(c - 1))
    BY <2>1, <2>2, FS_Injection DEF c
  <2>4. k - 1 \in 0..(c - 1)
    BY <1>1
  <2> QED
    BY <2>3, <2>4 DEF Surjection, rank
<1>7. \A k \in 1..c : InOrder(S)[k] \in S /\ Rank(InOrder(S)[k]) = k - 1
  <2> SUFFICES ASSUME NEW k \in 1..c
               PROVE  InOrder(S)[k] \in S /\ Rank(InOrder(S)[k]) = k - 1
    OBVIOUS
  <2>1. InOrder(S)[k] = CHOOSE n \in S : Rank(n) = k - 1
    BY <1>4
  <2> QED
    BY <1>6, <2>1
<1>8. InOrder(S) \in [1..c -> S]
  <2>1. DOMAIN InOrder(S) = 1..c /\ InOrder(S) = [k \in 1..c |-> InOrder(S)[k]]
    BY <1>4
  <2> HIDE DEF c
  <2> QED
    BY <1>7, <2>1
<1>9. \A n \in S : Rank(n) + 1 \in 1..c /\ InOrder(S)[Rank(n) + 1] = n
  <2> SUFFICES ASSUME NEW n \in S
               PROVE  Rank(n) + 1 \in 1..c /\ InOrder(S)[Rank(n) + 1] = n
    OBVIOUS
  <2>1. Rank(n) + 1 \in 1..c /\ Rank(n) + 1 - 1 = Rank(n)
    BY <1>1, <1>2
  <2>2. PICK k \in 1..c : k = Rank(n) + 1 /\ k - 1 = Rank(n)
    BY <1>1, <1>2, <2>1
  <2>3. PICK m \in S : m = InOrder(S)[k] /\ Rank(m) = k - 1
    BY <1>7
  <2>4. m = n
    BY <1>5, <2>2, <2>3
  <2> QED
    BY <2>1, <2>2, <2>3, <2>4
<1>10. ASSUME NEW k \in 1..c, NEW l \in 1..c, k < l PROVE InOrder(S)[k] < InOrder(S)[l]
  <2>1. PICK m \in S : m = InOrder(S)[k] /\ Rank(m) = k - 1
    BY <1>7
  <2>2. PICK n \in S : n = InOrder(S)[l] /\ Rank(n) = l - 1
    BY <1>7
  <2>3. k - 1 # l - 1 /\ ~(l - 1 < k - 1)
    BY <1>1, <1>10
  <2>4. m # n /\ ~(n < m)
    BY <1>3, <2>1, <2>2, <2>3
  <2>5. m \in Int /\ n \in Int
    OBVIOUS
  <2> QED
    BY <2>1, <2>2, <2>4, <2>5
<1> QED
  BY <1>1, <1>7, <1>8, <1>9, <1>10 DEF c, Rank

\* The lowest of a group are as many as were asked.
LEMMA LowestIs ==
    ASSUME NEW S \in SUBSET Int, IsFiniteSet(S), NEW n \in Nat, n <= Cardinality(S)
    PROVE  /\ Lowest(S, n) \in SUBSET S
           /\ IsFiniteSet(Lowest(S, n)) /\ Cardinality(Lowest(S, n)) = n
<1>1. /\ Cardinality(S) \in Nat
      /\ InOrder(S) \in [1..Cardinality(S) -> S]
      /\ \A k \in 1..Cardinality(S) : Cardinality(Below(S, InOrder(S)[k])) = k - 1
      /\ \A m \in S : /\ Cardinality(Below(S, m)) + 1 \in 1..Cardinality(S)
                      /\ InOrder(S)[Cardinality(Below(S, m)) + 1] = m
      /\ \A k, l \in 1..Cardinality(S) : k < l => InOrder(S)[k] < InOrder(S)[l]
  BY InOrderIs
<1> DEFINE f == [k \in 1..n |-> InOrder(S)[k]]
<1>2. Lowest(S, n) = {m \in S : Cardinality(Below(S, m)) < n}
  BY DEF Lowest, Below
<1>3. f \in Bijection(1..n, Lowest(S, n))
  <2>1. \A k \in 1..n : k \in 1..Cardinality(S)
    BY <1>1
  <2>2. \A k \in 1..n : f[k] \in Lowest(S, n)
    <3> SUFFICES ASSUME NEW k \in 1..n PROVE f[k] \in Lowest(S, n)
      OBVIOUS
    <3>1. f[k] \in S /\ Cardinality(Below(S, f[k])) = k - 1
      BY <1>1, <2>1
    <3> QED
      BY <1>2, <3>1
  <2>3. \A k, l \in 1..n : f[k] = f[l] => k = l
    <3> SUFFICES ASSUME NEW k \in 1..n, NEW l \in 1..n, f[k] = f[l], k # l PROVE FALSE
      OBVIOUS
    <3>1. f[k] \in Int /\ (f[k] < f[l] \/ f[l] < f[k])
      BY <1>1, <2>1
    <3> QED
      BY <3>1
  <2>4. \A m \in Lowest(S, n) : \E k \in 1..n : f[k] = m
    <3> SUFFICES ASSUME NEW m \in Lowest(S, n) PROVE \E k \in 1..n : f[k] = m
      OBVIOUS
    <3> DEFINE k == Cardinality(Below(S, m)) + 1
    <3>1. m \in S /\ Cardinality(Below(S, m)) < n
      BY <1>2
    <3>2. k \in 1..Cardinality(S) /\ InOrder(S)[k] = m
      BY <1>1, <3>1
    <3>3. k \in 1..n
      BY <1>1, <3>1, <3>2
    <3> HIDE DEF k
    <3> QED
      BY <3>2, <3>3
  <2> HIDE DEF f
  <2>5. DOMAIN f = 1..n /\ f = [k \in 1..n |-> f[k]]
    BY DEF f
  <2> QED
    BY <2>2, <2>3, <2>4, <2>5 DEF Bijection, Injection, IsInjective, Surjection
<1>4. IsFiniteSet(1..n) /\ Cardinality(1..n) = n
  BY FS_Interval
<1>5. ExistsBijection(1..n, Lowest(S, n))
  BY <1>3 DEF ExistsBijection
<1> QED
  BY <1>2, <1>4, <1>5, FS_Bijection

-----------------------------------------------------------------------------
(* Pools of cores. *)

CoresAt(list, places) == {list[i] : i \in places}

\* No CPU belongs to two cores, and every core of a pool has one.
IsDisjoint(p) ==
    /\ p \in Seq(Core)
    /\ \A i, k \in DOMAIN p : p[i].cpus \cap p[k].cpus # {} => i = k

IsPool(p) == IsDisjoint(p) /\ \A i \in DOMAIN p : p[i].cpus # {}

LEMMA SmallestIs ==
    ASSUME NEW S \in SUBSET Nat, S # {}
    PROVE  Smallest(S) \in S /\ \A n \in S : Smallest(S) <= n
BY LeastNumber DEF Smallest

\* The cores of a pool differ, and so do their lowest CPUs.
LEMMA PoolIs ==
    ASSUME NEW p, IsPool(p)
    PROVE  /\ Len(p) \in Nat /\ DOMAIN p = 1..Len(p) /\ IsFiniteSet(1..Len(p))
           /\ \A i \in 1..Len(p) : /\ p[i] \in Core
                                   /\ Smallest(p[i].cpus) \in p[i].cpus
                                   /\ Smallest(p[i].cpus) \in Nat
           /\ \A i, k \in 1..Len(p) : p[i] = p[k] => i = k
           /\ \A i, k \in 1..Len(p) : Smallest(p[i].cpus) = Smallest(p[k].cpus) => i = k
<1>1. Len(p) \in Nat /\ DOMAIN p = 1..Len(p) /\ \A i \in 1..Len(p) : p[i] \in Core
  BY LenProperties, ElementOfSeq DEF IsPool, IsDisjoint
<1>2. \A i \in 1..Len(p) : p[i].cpus \in SUBSET Nat /\ p[i].cpus # {}
  BY <1>1 DEF Core, IsPool
<1>3. \A i \in 1..Len(p) : Smallest(p[i].cpus) \in p[i].cpus /\ Smallest(p[i].cpus) \in Nat
  <2> SUFFICES ASSUME NEW i \in 1..Len(p)
               PROVE  Smallest(p[i].cpus) \in p[i].cpus /\ Smallest(p[i].cpus) \in Nat
    OBVIOUS
  <2>1. PICK S \in SUBSET Nat : S = p[i].cpus /\ S # {}
    BY <1>2
  <2> QED
    BY <2>1, SmallestIs
<1>4. \A i, k \in 1..Len(p) : p[i].cpus \cap p[k].cpus # {} => i = k
  BY <1>1 DEF IsPool, IsDisjoint
<1>5. ASSUME NEW i \in 1..Len(p), NEW k \in 1..Len(p), p[i] = p[k] PROVE i = k
  BY <1>2, <1>4, <1>5
<1>6. ASSUME NEW i \in 1..Len(p), NEW k \in 1..Len(p), Smallest(p[i].cpus) = Smallest(p[k].cpus)
      PROVE  i = k
  <2>1. Smallest(p[i].cpus) \in p[i].cpus \cap p[k].cpus
    BY <1>3, <1>6
  <2> QED
    BY <1>4, <2>1
<1>7. IsFiniteSet(1..Len(p))
  BY <1>1, FS_Interval
<1> QED
  BY <1>1, <1>3, <1>5, <1>6, <1>7

\* What is picked from a list is a list of what was at the places.
LEMMA PickedIs ==
    ASSUME NEW T, NEW p \in Seq(T), NEW places \in SUBSET (DOMAIN p)
    PROVE  /\ IsFiniteSet(places) /\ Cardinality(places) \in Nat
           /\ Picked(p, places) \in Seq(T) /\ Len(Picked(p, places)) = Cardinality(places)
           /\ DOMAIN Picked(p, places) = 1..Cardinality(places)
           /\ \A k \in 1..Cardinality(places) :
                 InOrder(places)[k] \in places /\ Picked(p, places)[k] = p[InOrder(places)[k]]
           /\ \A i \in places : \E k \in 1..Cardinality(places) : Picked(p, places)[k] = p[i]
           /\ ToSet(Picked(p, places)) = CoresAt(p, places)
<1> DEFINE c == Cardinality(places)
           order == InOrder(places)
           q == Picked(p, places)
<1>1. Len(p) \in Nat /\ DOMAIN p = 1..Len(p) /\ \A i \in DOMAIN p : p[i] \in T
  BY LenProperties, ElementOfSeq
<1>2. IsFiniteSet(places) /\ places \in SUBSET Int
  <2>1. IsFiniteSet(1..Len(p)) /\ places \in SUBSET (1..Len(p))
    BY <1>1, FS_Interval
  <2> QED
    BY <2>1, FS_Subset
<1>3. /\ c \in Nat /\ order \in [1..c -> places]
      /\ \A i \in places : Cardinality(Below(places, i)) + 1 \in 1..c
                           /\ order[Cardinality(Below(places, i)) + 1] = i
  BY <1>2, InOrderIs
<1>4. q = [k \in 1..c |-> p[order[k]]]
  BY <1>3 DEF Picked
<1> HIDE DEF c, order, q
<1>5. \A k \in 1..c : order[k] \in places /\ q[k] = p[order[k]]
  BY <1>3, <1>4
<1>6. q \in [1..c -> T]
  BY <1>1, <1>3, <1>4
<1>7. q \in Seq(T)
  BY <1>3, <1>6
<1>8. Len(q) = c /\ DOMAIN q = 1..c
  BY <1>3, <1>6, <1>7, LenProperties
<1>9. \A i \in places : \E k \in 1..c : q[k] = p[i]
  BY <1>3, <1>5
<1>10. ToSet(q) = CoresAt(p, places)
  <2>1. ToSet(q) = {q[k] : k \in 1..c}
    BY <1>8 DEF ToSet
  <2>2. {q[k] : k \in 1..c} \subseteq CoresAt(p, places)
    BY <1>5 DEF CoresAt
  <2>3. CoresAt(p, places) \subseteq {q[k] : k \in 1..c}
    BY <1>9 DEF CoresAt
  <2> QED
    BY <2>1, <2>2, <2>3
<1> QED
  BY <1>2, <1>3, <1>5, <1>7, <1>8, <1>9, <1>10 DEF c, order, q

\* Cores that are picked, each with a CPU, make a pool.
LEMMA PickedPool ==
    ASSUME NEW p, IsDisjoint(p), NEW places \in SUBSET (DOMAIN p), \A i \in places : p[i].cpus # {}
    PROVE  IsPool(Picked(p, places))
<1> DEFINE c == Cardinality(places)
           order == InOrder(places)
           q == Picked(p, places)
<1>1. p \in Seq(Core) /\ \A i, k \in DOMAIN p : p[i].cpus \cap p[k].cpus # {} => i = k
  BY DEF IsDisjoint
<1>2. /\ IsFiniteSet(places) /\ c \in Nat
      /\ q \in Seq(Core) /\ DOMAIN q = 1..c
      /\ \A k \in 1..c : order[k] \in places /\ q[k] = p[order[k]]
  BY <1>1, PickedIs
<1>3. \A k, l \in 1..c : k < l => order[k] < order[l]
  <2>1. places \in SUBSET Int
    BY <1>1, LenProperties
  <2> QED
    BY <1>2, <2>1, InOrderIs
<1>4. \A k \in 1..c : order[k] \in Int
  BY <1>1, <1>2, LenProperties
<1> HIDE DEF c, order, q
<1>5. ASSUME NEW k \in 1..c, NEW l \in 1..c, q[k].cpus \cap q[l].cpus # {} PROVE k = l
  <2>1. order[k] = order[l]
    BY <1>1, <1>2, <1>5
  <2>2. ~(k < l) /\ ~(l < k)
    BY <1>3, <1>4, <2>1
  <2> QED
    BY <1>2, <2>2
<1> QED
  BY <1>2, <1>5 DEF IsPool, IsDisjoint, q

\* Sorting a pool keeps its cores.
LEMMA ByCpuIs ==
    ASSUME NEW p, IsPool(p)
    PROVE  /\ IsPool(ByCpu(p)) /\ Len(ByCpu(p)) = Len(p)
           /\ ToSet(ByCpu(p)) = ToSet(p)
           /\ \A k, l \in 1..Len(p) :
                 k < l => Smallest(ByCpu(p)[k].cpus) < Smallest(ByCpu(p)[l].cpus)
<1> DEFINE Low(i) == Smallest(p[i].cpus)
           S == {Low(i) : i \in DOMAIN p}
           n == Len(p)
           order == InOrder(S)
           q == ByCpu(p)
           From(k) == CHOOSE i \in DOMAIN p : Low(i) = order[k]
<1>1. /\ n \in Nat /\ DOMAIN p = 1..n /\ IsFiniteSet(1..n)
      /\ \A i \in 1..n : p[i] \in Core /\ Low(i) \in Nat
      /\ \A i, k \in 1..n : Low(i) = Low(k) => i = k
      /\ \A i, k \in 1..n : p[i] = p[k] => i = k
  BY PoolIs
<1>2. S \in SUBSET Int
  BY <1>1
<1>3. IsFiniteSet(S) /\ Cardinality(S) = n
  <2> DEFINE f == [i \in 1..n |-> Low(i)]
  <2> HIDE DEF Low
  <2>1. f \in Bijection(1..n, S)
    BY <1>1 DEF Bijection, Injection, IsInjective, Surjection
  <2>2. Cardinality(1..n) = n
    BY <1>1, FS_Interval
  <2> HIDE DEF f, S, n
  <2>3. ExistsBijection(1..n, S)
    BY <2>1 DEF ExistsBijection
  <2> QED
    BY <1>1, <2>2, <2>3, FS_Bijection
<1>4. /\ order \in [1..n -> S]
      /\ \A s \in S : Cardinality(Below(S, s)) + 1 \in 1..n /\ order[Cardinality(Below(S, s)) + 1] = s
      /\ \A k, l \in 1..n : k < l => order[k] < order[l]
  <2> HIDE DEF S, n
  <2> QED
    BY <1>2, <1>3, InOrderIs
<1>5. q = [k \in 1..n |-> p[From(k)]]
  <2>1. DOMAIN order = 1..n
    BY <1>4
  <2> QED
    BY <2>1 DEF ByCpu
<1>6. \A k \in 1..n : From(k) \in 1..n /\ Low(From(k)) = order[k]
  <2> SUFFICES ASSUME NEW k \in 1..n PROVE From(k) \in 1..n /\ Low(From(k)) = order[k]
    OBVIOUS
  <2>1. \E i \in DOMAIN p : Low(i) = order[k]
    BY <1>4
  <2> HIDE DEF Low, order
  <2> QED
    BY <1>1, <2>1
<1>7. \A i \in 1..n : \E k \in 1..n : From(k) = i
  <2> SUFFICES ASSUME NEW i \in 1..n PROVE \E k \in 1..n : From(k) = i
    OBVIOUS
  <2>1. Low(i) \in S
    BY <1>1
  <2>2. PICK k \in 1..n : order[k] = Low(i)
    BY <1>4, <2>1
  <2> HIDE DEF Low, order, S
  <2>3. PICK m \in 1..n : m = From(k) /\ Low(m) = order[k]
    BY <1>6
  <2> QED
    BY <1>1, <2>2, <2>3
<1> HIDE DEF From, order, S, Low
<1>8. \A k, l \in 1..n : From(k) = From(l) => k = l
  <2> SUFFICES ASSUME NEW k \in 1..n, NEW l \in 1..n, From(k) = From(l), k # l PROVE FALSE
    OBVIOUS
  <2>1. order[k] = order[l]
    BY <1>6
  <2>2. order[k] \in Int
    BY <1>2, <1>4
  <2>3. k < l \/ l < k
    BY <1>1
  <2> QED
    BY <1>4, <2>1, <2>2, <2>3
<1> HIDE DEF n, q
<1>9. q \in Seq(Core) /\ DOMAIN q = 1..n
  <2>1. q \in [1..n -> Core]
    BY <1>1, <1>5, <1>6
  <2> QED
    BY <1>1, <2>1
<1>10. Len(q) = n
  BY <1>1, <1>9, LenProperties
<1>11. \A k \in 1..n : From(k) \in 1..n /\ q[k] = p[From(k)]
  BY <1>5, <1>6
<1>12. ToSet(q) = ToSet(p)
  <2>1. ToSet(q) = {q[k] : k \in 1..n} /\ ToSet(p) = CoresAt(p, 1..n)
    BY <1>1, <1>9 DEF ToSet, CoresAt
  <2> QED
    BY <1>7, <1>11, <2>1 DEF CoresAt
<1>13. IsPool(q)
  <2>1. /\ \A i, k \in 1..n : p[i].cpus \cap p[k].cpus # {} => i = k
        /\ \A i \in 1..n : p[i].cpus # {}
    BY <1>1 DEF IsPool, IsDisjoint
  <2>2. \A k, l \in 1..n : q[k].cpus \cap q[l].cpus # {} => k = l
    BY <1>8, <1>11, <2>1
  <2>3. \A k \in 1..n : q[k].cpus # {}
    BY <1>11, <2>1
  <2> QED
    BY <1>9, <2>2, <2>3 DEF IsPool, IsDisjoint
<1>14. ASSUME NEW k \in 1..n, NEW l \in 1..n, k < l
       PROVE  Smallest(q[k].cpus) < Smallest(q[l].cpus)
  <2>1. Smallest(q[k].cpus) = order[k] /\ Smallest(q[l].cpus) = order[l]
    BY <1>6, <1>11 DEF Low
  <2> QED
    BY <1>4, <1>14, <2>1
<1> QED
  BY <1>10, <1>12, <1>13, <1>14 DEF n, q

-----------------------------------------------------------------------------
(* Locations, and the groups of a pool. *)

Key == Nat \X Nat \X Nat

LEMMA BeforeIs ==
    ASSUME NEW k \in Key, NEW l \in Key
    PROVE  /\ k = l \/ Before(k, l) \/ Before(l, k)
           /\ ~Before(k, k)
<1>1. PICK a \in Nat, b \in Nat, c \in Nat : k = <<a, b, c>>
  BY DEF Key
<1>2. PICK d \in Nat, e \in Nat, f \in Nat : l = <<d, e, f>>
  BY DEF Key
<1> QED
  BY <1>1, <1>2 DEF Before

\* Of some locations one is the first.
LEMMA FirstKeyIs ==
    ASSUME NEW K \in SUBSET Key, K # {}
    PROVE  FirstKey(K) \in K /\ \A l \in K : FirstKey(K) = l \/ Before(FirstKey(K), l)
<1> DEFINE S1 == {k[1] : k \in K}
<1>1. PICK a \in S1 : \A m \in S1 : a <= m
  <2>1. S1 \in SUBSET Nat /\ S1 # {}
    BY DEF Key
  <2> QED
    BY <2>1, LeastNumber
<1> DEFINE S2 == {k[2] : k \in {l \in K : l[1] = a}}
<1>2. PICK b \in S2 : \A m \in S2 : b <= m
  <2>1. S2 \in SUBSET Nat /\ S2 # {}
    BY <1>1 DEF Key
  <2> HIDE DEF S2
  <2> QED
    BY <2>1, LeastNumber
<1> DEFINE S3 == {k[3] : k \in {l \in K : l[1] = a /\ l[2] = b}}
<1>3. PICK c \in S3 : \A m \in S3 : c <= m
  <2>1. S3 \in SUBSET Nat /\ S3 # {}
    BY <1>2 DEF Key
  <2> HIDE DEF S3
  <2> QED
    BY <2>1, LeastNumber
<1>4. PICK k \in K : k[1] = a /\ k[2] = b /\ k[3] = c
  BY <1>3
<1>5. ASSUME NEW l \in K PROVE k = l \/ Before(k, l)
  <2>1. PICK d \in Nat, e \in Nat, f \in Nat : l = <<d, e, f>>
    BY DEF Key
  <2>2. a <= d
    BY <1>1, <2>1
  <2>3. a = d => b <= e
    BY <1>2, <2>1
  <2>4. a = d /\ b = e => c <= f
    BY <1>3, <2>1
  <2>5. k = <<a, b, c>> /\ a \in Nat /\ b \in Nat /\ c \in Nat
    BY <1>4 DEF Key
  <2> HIDE DEF S1, S2, S3
  <2> QED
    BY <2>1, <2>2, <2>3, <2>4, <2>5 DEF Before
<1>6. \E m \in K : \A l \in K : m = l \/ Before(m, l)
  BY <1>4, <1>5
<1> QED
  BY <1>6 DEF FirstKey

\* The groups of a pool: the keys, and their places.
LEMMA GroupIs ==
    ASSUME NEW left, IsPool(left), NEW key
    PROVE  /\ Group(left, key) \in SUBSET (1..Len(left)) /\ Group(left, key) \in SUBSET Int
           /\ IsFiniteSet(Group(left, key))
           /\ Cardinality(Group(left, key)) \in Nat
           /\ \A i \in Group(left, key) : Location(left[i]) = key
<1>1. Len(left) \in Nat /\ DOMAIN left = 1..Len(left) /\ IsFiniteSet(1..Len(left))
  BY PoolIs
<1>2. Group(left, key) \in SUBSET (1..Len(left))
  BY <1>1 DEF Group
<1>3. IsFiniteSet(Group(left, key))
  BY <1>1, <1>2, FS_Subset
<1> QED
  BY <1>1, <1>2, <1>3, FS_CardinalityType DEF Group

LEMMA RoomIs ==
    ASSUME NEW left, IsPool(left), NEW n
    PROVE  /\ RoomFor(left, n) \in SUBSET Key
           /\ \A key \in RoomFor(left, n) : Cardinality(Group(left, key)) >= n
<1>1. \A i \in DOMAIN left : left[i] \in Core
  BY PoolIs
<1>2. \A i \in DOMAIN left : Location(left[i]) \in Key
  BY <1>1 DEF Location, Key, Core
<1> QED
  BY <1>2 DEF RoomFor, Keys

\* Of the pairs of locations with room for an engine each one is chosen.
LEMMA BestPairIs ==
    ASSUME NEW left, IsPool(left), NEW n, PairsOfKeys(left, n) # {}
    PROVE  /\ BestPair(left, n)[1] \in RoomFor(left, n)
           /\ BestPair(left, n)[2] \in RoomFor(left, n)
           /\ BestPair(left, n)[1] # BestPair(left, n)[2]
<1> DEFINE pairs == PairsOfKeys(left, n)
           alike == {p \in pairs : p[1][1] = p[2][1]}
           eligible == IF alike # {} THEN alike ELSE pairs
           room == RoomFor(left, n)
           First(E, p) == \A q \in E : \/ Before(p[1], q[1])
                                       \/ p[1] = q[1] /\ (p[2] = q[2] \/ Before(p[2], q[2]))
<1>1. room \in SUBSET Key
  BY RoomIs
<1> HIDE DEF room
<1>2. \A p \in pairs : p \in room \X room /\ Before(p[1], p[2])
  BY DEF PairsOfKeys, room
<1>3. eligible \in SUBSET pairs /\ eligible # {}
  OBVIOUS
<1> HIDE DEF eligible, pairs
<1> DEFINE K1 == {q[1] : q \in eligible}
<1>4. PICK k \in K1 : \A l \in K1 : k = l \/ Before(k, l)
  <2>1. K1 \in SUBSET Key /\ K1 # {}
    BY <1>1, <1>2, <1>3
  <2> HIDE DEF K1
  <2> QED
    BY <2>1, FirstKeyIs
<1> DEFINE K2 == {q[2] : q \in {p \in eligible : p[1] = k}}
<1>5. PICK m \in K2 : \A l \in K2 : m = l \/ Before(m, l)
  <2>1. K2 \in SUBSET Key /\ K2 # {}
    BY <1>1, <1>2, <1>3, <1>4
  <2> HIDE DEF K2
  <2> QED
    BY <2>1, FirstKeyIs
<1>6. PICK p \in eligible : p[1] = k /\ p[2] = m
  BY <1>5
<1>7. First(eligible, p)
  <2> SUFFICES ASSUME NEW q \in eligible
               PROVE  \/ Before(p[1], q[1])
                      \/ p[1] = q[1] /\ (p[2] = q[2] \/ Before(p[2], q[2]))
    OBVIOUS
  <2>1. k = q[1] \/ Before(k, q[1])
    BY <1>4
  <2>2. k = q[1] => m = q[2] \/ Before(m, q[2])
    BY <1>5
  <2> QED
    BY <1>6, <2>1, <2>2
<1>8. BestPair(left, n) = CHOOSE q \in eligible : First(eligible, q)
  BY DEF BestPair, eligible, pairs
<1> HIDE DEF First
<1>9. BestPair(left, n) \in eligible
  BY <1>7, <1>8
<1>10. BestPair(left, n) \in room \X room /\ Before(BestPair(left, n)[1], BestPair(left, n)[2])
  BY <1>2, <1>3, <1>9
<1> QED
  <2>1. PICK c \in room, d \in room : BestPair(left, n) = <<c, d>>
    BY <1>10
  <2>2. Before(c, d) /\ c \in Key /\ ~Before(c, c)
    BY <1>1, <1>10, <2>1, BeforeIs
  <2> QED
    BY <2>1, <2>2 DEF room

-----------------------------------------------------------------------------
(* What is taken from a pool, and what is left. *)

\* The cores of a pool are as many as it is long.
LEMMA CoresOfPool ==
    ASSUME NEW p, IsPool(p)
    PROVE  IsFiniteSet(ToSet(p)) /\ Cardinality(ToSet(p)) = Len(p)
<1>1. /\ Len(p) \in Nat /\ DOMAIN p = 1..Len(p) /\ IsFiniteSet(1..Len(p))
      /\ \A i, k \in 1..Len(p) : p[i] = p[k] => i = k
  BY PoolIs
<1> DEFINE f == [i \in 1..Len(p) |-> p[i]]
<1>2. f \in Bijection(1..Len(p), ToSet(p))
  BY <1>1 DEF Bijection, Injection, IsInjective, Surjection, ToSet
<1> HIDE DEF f
<1>3. ExistsBijection(1..Len(p), ToSet(p))
  BY <1>2 DEF ExistsBijection
<1>4. Cardinality(1..Len(p)) = Len(p)
  BY <1>1, FS_Interval
<1> QED
  BY <1>1, <1>3, <1>4, FS_Bijection

LEMMA AtIs ==
    ASSUME NEW left, IsPool(left), NEW places \in SUBSET (DOMAIN left)
    PROVE  /\ IsPool(At(left, places)) /\ Len(At(left, places)) = Cardinality(places)
           /\ ToSet(At(left, places)) = CoresAt(left, places)
<1>1. left \in Seq(Core) /\ IsDisjoint(left) /\ \A i \in places : left[i].cpus # {}
  BY DEF IsPool, IsDisjoint
<1>2. IsPool(Picked(left, places))
  BY <1>1, PickedPool
<1>3. /\ Len(Picked(left, places)) = Cardinality(places)
      /\ ToSet(Picked(left, places)) = CoresAt(left, places)
  BY <1>1, PickedIs
<1> QED
  BY <1>2, <1>3, ByCpuIs DEF At

LEMMA RestIs ==
    ASSUME NEW left, IsPool(left), NEW places \in SUBSET (DOMAIN left)
    PROVE  /\ IsPool(Rest(left, places))
           /\ Len(Rest(left, places)) = Len(left) - Cardinality(places)
           /\ ToSet(Rest(left, places)) = ToSet(left) \ CoresAt(left, places)
           /\ \A k \in 1..Len(Rest(left, places)) :
                 Rest(left, places)[k] = left[InOrder(DOMAIN left \ places)[k]]
<1> DEFINE others == DOMAIN left \ places
<1>1. left \in Seq(Core) /\ IsDisjoint(left) /\ \A i \in others : left[i].cpus # {}
  BY DEF IsPool, IsDisjoint
<1>2. /\ Len(left) \in Nat /\ DOMAIN left = 1..Len(left) /\ IsFiniteSet(1..Len(left))
      /\ \A i, k \in 1..Len(left) : left[i] = left[k] => i = k
  BY PoolIs
<1>3. others \in SUBSET (DOMAIN left)
  OBVIOUS
<1> HIDE DEF others
<1>4. IsPool(Picked(left, others))
  BY <1>1, <1>3, PickedPool
<1>5. /\ Len(Picked(left, others)) = Cardinality(others)
      /\ \A k \in 1..Cardinality(others) : Picked(left, others)[k] = left[InOrder(others)[k]]
      /\ ToSet(Picked(left, others)) = CoresAt(left, others)
  BY <1>1, <1>3, PickedIs
<1>6. Cardinality(others) = Len(left) - Cardinality(places)
  <2>1. (1..Len(left)) \cap places = places
    BY <1>2
  <2>2. Cardinality(1..Len(left)) = Len(left)
    <3>1. PICK n \in Nat : n = Len(left)
      BY <1>2
    <3>2. Cardinality(1..n) = n
      BY FS_Interval
    <3> QED
      BY <3>1, <3>2
  <2> QED
    BY <1>2, <2>1, <2>2, FS_Difference DEF others
<1>7. CoresAt(left, others) = ToSet(left) \ CoresAt(left, places)
  BY <1>2 DEF others, ToSet, CoresAt
<1> QED
  BY <1>4, <1>5, <1>6, <1>7 DEF Rest, others

LEMMA SubSeqPool ==
    ASSUME NEW p, IsPool(p), NEW a \in Nat, NEW b \in Nat, 1 <= a, a <= b + 1, b <= Len(p)
    PROVE  /\ IsPool(SubSeq(p, a, b)) /\ Len(SubSeq(p, a, b)) = b - a + 1
           /\ ToSet(SubSeq(p, a, b)) = CoresAt(p, a..b)
           /\ \A k \in 1..(b - a + 1) : SubSeq(p, a, b)[k] = p[a + k - 1]
<1> DEFINE q == SubSeq(p, a, b)
           n == b - a + 1
<1>1. /\ Len(p) \in Nat /\ DOMAIN p = 1..Len(p)
      /\ \A i \in 1..Len(p) : p[i] \in Core
  BY PoolIs
<1>2. /\ \A i, k \in 1..Len(p) : p[i].cpus \cap p[k].cpus # {} => i = k
      /\ \A i \in 1..Len(p) : p[i].cpus # {}
  BY <1>1 DEF IsPool, IsDisjoint
<1>3. n \in Nat /\ q = [k \in 1..n |-> p[a + k - 1]]
  BY <1>1
<1>4. \A k \in 1..n : a + k - 1 \in 1..Len(p) /\ a + k - 1 \in a..b
  BY <1>1
<1> HIDE DEF q
<1>5. q \in [1..n -> Core]
  BY <1>1, <1>3, <1>4
<1>6. q \in Seq(Core) /\ DOMAIN q = 1..n
  <2>1. PICK c \in Nat : c = n
    BY <1>3
  <2>2. q \in [1..c -> Core]
    BY <1>5, <2>1
  <2>3. q \in Seq(Core) /\ DOMAIN q = 1..c
    BY <2>2
  <2> QED
    BY <2>1, <2>3
<1>7. Len(q) = n
  BY <1>3, <1>6, LenProperties
<1>8. \A k, l \in 1..n : q[k].cpus \cap q[l].cpus # {} => k = l
  <2> SUFFICES ASSUME NEW k \in 1..n, NEW l \in 1..n, q[k].cpus \cap q[l].cpus # {} PROVE k = l
    OBVIOUS
  <2>1. PICK i \in 1..Len(p) : i = a + k - 1 /\ q[k] = p[i]
    BY <1>3, <1>4
  <2>2. PICK j \in 1..Len(p) : j = a + l - 1 /\ q[l] = p[j]
    BY <1>3, <1>4
  <2>3. i = j
    BY <1>2, <2>1, <2>2
  <2> QED
    BY <2>1, <2>2, <2>3
<1>9. \A k \in 1..n : q[k].cpus # {}
  BY <1>2, <1>3, <1>4
<1>10. IsPool(q)
  BY <1>6, <1>8, <1>9 DEF IsPool, IsDisjoint
<1>11. ToSet(q) = CoresAt(p, a..b)
  <2>1. ToSet(q) = {q[k] : k \in 1..n}
    BY <1>6 DEF ToSet
  <2>2. \A k \in 1..n : q[k] \in CoresAt(p, a..b)
    BY <1>3, <1>4 DEF CoresAt
  <2>3. \A i \in a..b : \E k \in 1..n : q[k] = p[i]
    <3> SUFFICES ASSUME NEW i \in a..b PROVE \E k \in 1..n : q[k] = p[i]
      OBVIOUS
    <3>1. i - a + 1 \in 1..n /\ a + (i - a + 1) - 1 = i
      OBVIOUS
    <3>2. q[i - a + 1] = p[i]
      BY <1>3, <3>1
    <3> QED
      BY <3>1, <3>2
  <2> QED
    BY <2>1, <2>2, <2>3 DEF CoresAt
<1> QED
  BY <1>3, <1>7, <1>10, <1>11 DEF q

\* The two halves of what was taken.
LEMMA HalvesAre ==
    ASSUME NEW cores, IsPool(cores), NEW n \in Nat, Len(cores) = 2 * n
    PROVE  /\ IsPool(Halves(cores, n)[1]) /\ Len(Halves(cores, n)[1]) = n
           /\ IsPool(Halves(cores, n)[2]) /\ Len(Halves(cores, n)[2]) = n
           /\ ToSet(Halves(cores, n)[1]) \cup ToSet(Halves(cores, n)[2]) = ToSet(cores)
           /\ ToSet(Halves(cores, n)[1]) \cap ToSet(Halves(cores, n)[2]) = {}
<1> DEFINE a == SubSeq(cores, 1, n)
           b == SubSeq(cores, n + 1, 2 * n)
<1>1. Halves(cores, n)[1] = a /\ Halves(cores, n)[2] = b
  BY DEF Halves
<1>2. IsPool(a) /\ Len(a) = n /\ ToSet(a) = CoresAt(cores, 1..n)
  <2>1. PICK one \in Nat : one = 1
    OBVIOUS
  <2>2. n - one + 1 = n /\ 1 <= one /\ one <= n + 1 /\ n <= Len(cores)
    BY <2>1
  <2>3. /\ IsPool(SubSeq(cores, one, n)) /\ Len(SubSeq(cores, one, n)) = n - one + 1
        /\ ToSet(SubSeq(cores, one, n)) = CoresAt(cores, one..n)
    BY <2>2, SubSeqPool
  <2> QED
    BY <2>1, <2>2, <2>3
<1>3. IsPool(b) /\ Len(b) = n /\ ToSet(b) = CoresAt(cores, (n + 1)..(2 * n))
  <2>1. PICK m \in Nat : m = n + 1
    OBVIOUS
  <2>2. PICK k \in Nat : k = 2 * n
    OBVIOUS
  <2>3. 1 <= m /\ m <= k + 1 /\ k <= Len(cores) /\ k - m + 1 = n
    BY <2>1, <2>2
  <2>4. /\ IsPool(SubSeq(cores, m, k)) /\ Len(SubSeq(cores, m, k)) = k - m + 1
        /\ ToSet(SubSeq(cores, m, k)) = CoresAt(cores, m..k)
    BY <2>3, SubSeqPool
  <2> QED
    BY <2>1, <2>2, <2>3, <2>4
<1> HIDE DEF a, b
<1>4. /\ DOMAIN cores = 1..(2 * n)
      /\ \A i, k \in 1..(2 * n) : cores[i] = cores[k] => i = k
  BY PoolIs
<1>5. ToSet(a) \cup ToSet(b) = ToSet(cores)
  <2>1. ToSet(cores) = CoresAt(cores, 1..(2 * n))
    BY <1>4 DEF ToSet, CoresAt
  <2>2. \A i \in Int : i \in 1..(2 * n) <=> i \in 1..n \/ i \in (n + 1)..(2 * n)
    OBVIOUS
  <2>3. 1..(2 * n) = (1..n) \cup ((n + 1)..(2 * n))
    BY <2>2
  <2> QED
    BY <1>2, <1>3, <2>1, <2>3 DEF CoresAt
<1>6. ToSet(a) \cap ToSet(b) = {}
  <2> SUFFICES ASSUME NEW i \in 1..n, NEW k \in (n + 1)..(2 * n), cores[i] = cores[k] PROVE FALSE
    BY <1>2, <1>3 DEF CoresAt
  <2>1. i \in 1..(2 * n) /\ k \in 1..(2 * n) /\ i # k
    OBVIOUS
  <2> QED
    BY <1>4, <2>1
<1> QED
  BY <1>1, <1>2, <1>3, <1>5, <1>6

\* Where the cores at b are once those at a have gone.
Adjusted(a, b) == {i - Cardinality(Below(a, i)) : i \in b}

LEMMA AdjustedIs ==
    ASSUME NEW left, IsPool(left), NEW a \in SUBSET (DOMAIN left), NEW b \in SUBSET (DOMAIN left),
           a \cap b = {}
    PROVE  /\ Adjusted(a, b) \in SUBSET (DOMAIN Rest(left, a))
           /\ Cardinality(Adjusted(a, b)) = Cardinality(b)
           /\ CoresAt(Rest(left, a), Adjusted(a, b)) = CoresAt(left, b)
<1> DEFINE rest == Rest(left, a)
           others == DOMAIN left \ a
           Moved(i) == i - Cardinality(Below(a, i))
           adjusted == {Moved(i) : i \in b}
<1>1. /\ Len(left) \in Nat /\ DOMAIN left = 1..Len(left) /\ IsFiniteSet(1..Len(left))
      /\ \A i, k \in 1..Len(left) : left[i] = left[k] => i = k
  BY PoolIs
<1>2. IsPool(rest) /\ \A k \in 1..Len(rest) : rest[k] = left[InOrder(others)[k]]
  BY RestIs
<1>3. others \in SUBSET (1..Len(left)) /\ others \in SUBSET Int /\ IsFiniteSet(others)
      /\ IsFiniteSet(a) /\ IsFiniteSet(b) /\ b \in SUBSET others
  BY <1>1, FS_Subset
<1>4. Len(rest) = Cardinality(others) /\ DOMAIN rest = 1..Cardinality(others)
  <2>1. left \in Seq(Core) /\ others \in SUBSET (DOMAIN left) /\ rest = Picked(left, others)
    BY DEF IsPool, IsDisjoint, Rest
  <2> HIDE DEF rest, others
  <2> QED
    BY <2>1, PickedIs
<1>5. \A i \in others : /\ Cardinality(Below(others, i)) + 1 \in 1..Cardinality(others)
                        /\ InOrder(others)[Cardinality(Below(others, i)) + 1] = i
  <2> HIDE DEF others
  <2> QED
    BY <1>3, InOrderIs
<1>6. \A i \in others : Cardinality(Below(others, i)) + 1 = Moved(i)
  <2> SUFFICES ASSUME NEW i \in others PROVE Cardinality(Below(others, i)) + 1 = Moved(i)
    OBVIOUS
  <2>1. i \in Int /\ 1 <= i /\ i <= Len(left)
    BY <1>1, <1>3
  <2>2. Below(others, i) = (1..(i - 1)) \ Below(a, i) /\ (1..(i - 1)) \cap Below(a, i) = Below(a, i)
    BY <1>1, <2>1 DEF Below
  <2>3. IsFiniteSet(1..(i - 1)) /\ Cardinality(1..(i - 1)) = i - 1
    <3>1. PICK m \in Nat : m = i - 1
      BY <2>1
    <3>2. IsFiniteSet(1..m) /\ Cardinality(1..m) = m
      BY FS_Interval
    <3> QED
      BY <3>1, <3>2
  <2>4. Cardinality(Below(others, i)) = i - 1 - Cardinality(Below(a, i))
    <3>1. PICK S, T : S = 1..(i - 1) /\ T = Below(a, i)
      OBVIOUS
    <3>2. Cardinality(S \ T) = Cardinality(S) - Cardinality(S \cap T)
      BY <2>3, <3>1, FS_Difference
    <3> HIDE DEF others
    <3> QED
      BY <2>2, <2>3, <3>1, <3>2
  <2>5. Cardinality(Below(a, i)) \in Nat
    <3>1. Below(a, i) \in SUBSET a
      BY DEF Below
    <3> QED
      BY <1>3, <3>1, FS_Subset, FS_CardinalityType
  <2> QED
    BY <2>1, <2>4, <2>5
<1>7. \A i \in others : Moved(i) \in DOMAIN rest /\ rest[Moved(i)] = left[i]
  <2> HIDE DEF Moved, others, rest
  <2> QED
    BY <1>2, <1>4, <1>5, <1>6
<1>8. adjusted \in SUBSET (DOMAIN rest) /\ CoresAt(rest, adjusted) = CoresAt(left, b)
  <2> HIDE DEF Moved, others, rest
  <2> QED
    BY <1>3, <1>7 DEF CoresAt
<1>9. Cardinality(adjusted) = Cardinality(b)
  <2> DEFINE f == [i \in b |-> Moved(i)]
  <2>1. \A i, k \in b : Moved(i) = Moved(k) => i = k
    <3> HIDE DEF Moved, others, rest
    <3> QED
      BY <1>1, <1>3, <1>7
  <2> HIDE DEF Moved
  <2>2. f \in Bijection(b, adjusted)
    BY <2>1 DEF Bijection, Injection, IsInjective, Surjection
  <2> HIDE DEF f, adjusted
  <2>3. ExistsBijection(b, adjusted)
    BY <2>2 DEF ExistsBijection
  <2> QED
    BY <1>3, <2>3, FS_Bijection
<1>10. adjusted = Adjusted(a, b)
  BY DEF Adjusted
<1> HIDE DEF adjusted
<1> QED
  BY <1>8, <1>9, <1>10

\* An engine whose cores are all of one location.
LEMMA OneLocation ==
    ASSUME NEW e, IsPool(e), Len(e) # 0, NEW key, \A c \in ToSet(e) : Location(c) = key
    PROVE  Locations(e) = {key} /\ Cardinality(Locations(e)) = 1
<1>1. ToSet(e) # {}
  BY PoolIs DEF ToSet
<1>2. Locations(e) = {key}
  BY <1>1 DEF Locations, Cores
<1> QED
  BY <1>2, FS_Singleton

-----------------------------------------------------------------------------
(* One slot. *)

\* A slot stays in one location if there is room, or its engines each in one.
IsLocal(r, left, slot) ==
    /\ RoomFor(left, CoresPerSlot(r)) # {} =>
          Cardinality(UNION {Locations(e) : e \in {slot[1], slot[2]}}) = 1
    /\ r.mode = "per-engine" /\ Cardinality(RoomFor(left, r.each)) > 1 =>
          \A e \in {slot[1], slot[2]} : Cardinality(Locations(e)) = 1

\* The cores that were asked for go from the pool to the slot, and no others.
IsTake(r, left, step) ==
    LET a == step.slot[1]
        b == step.slot[2]
    IN  /\ step.slot = <<a, b>>
        /\ IsPool(a) /\ Len(a) = r.each /\ IsPool(b) /\ Len(b) = r.each
        /\ ToSet(a) \cup ToSet(b) \subseteq ToSet(left)
        /\ IF r.mode = "shared" THEN a = b ELSE ToSet(a) \cap ToSet(b) = {}
        /\ IsPool(step.left) /\ Len(step.left) = Len(left) - CoresPerSlot(r)
        /\ ToSet(step.left) = ToSet(left) \ (ToSet(a) \cup ToSet(b))
        /\ IsLocal(r, left, step.slot)

LEMMA SharedTake ==
    ASSUME NEW r, r.mode = "shared", r.each \in Nat \ {0}, NEW left, IsPool(left), r.each <= Len(left)
    PROVE  IsTake(r, left, TakeShared(left, r.each))
<1> DEFINE n == r.each
           room == RoomFor(left, n)
           key == FirstKey(room)
           places == IF room # {} THEN Lowest(Group(left, key), n) ELSE 1..n
           a == At(left, places)
           rest == Rest(left, places)
<1>1. TakeShared(left, n) = [slot |-> <<a, a>>, left |-> rest]
  BY DEF TakeShared
<1>2. Len(left) \in Nat /\ DOMAIN left = 1..Len(left)
  BY PoolIs
<1>3. room # {} => /\ Cardinality(Group(left, key)) >= n
                   /\ places \in SUBSET Group(left, key)
                   /\ Cardinality(places) = n
  <2> SUFFICES ASSUME room # {}
               PROVE  /\ Cardinality(Group(left, key)) >= n
                      /\ Lowest(Group(left, key), n) \in SUBSET Group(left, key)
                      /\ Cardinality(Lowest(Group(left, key), n)) = n
    OBVIOUS
  <2>1. key \in room
    BY RoomIs, FirstKeyIs
  <2>2. Cardinality(Group(left, key)) >= n
    BY <2>1, RoomIs
  <2> HIDE DEF key, room
  <2>3. /\ Group(left, key) \in SUBSET Int /\ IsFiniteSet(Group(left, key))
        /\ Cardinality(Group(left, key)) \in Nat /\ n \in Nat
    BY GroupIs
  <2>4. n <= Cardinality(Group(left, key))
    BY <2>2, <2>3
  <2> QED
    BY <2>2, <2>3, <2>4, LowestIs
<1>4. places \in SUBSET (DOMAIN left) /\ Cardinality(places) = n
  <2>1. CASE room # {}
    BY <1>2, <1>3, <2>1, GroupIs
  <2>2. CASE room = {}
    <3>1. PICK m \in Nat : m = n
      OBVIOUS
    <3>2. Cardinality(1..m) = m
      BY FS_Interval
    <3> QED
      BY <1>2, <2>2, <3>1, <3>2
  <2> QED
    BY <2>1, <2>2
<1> HIDE DEF places
<1>5. IsPool(a) /\ Len(a) = n /\ ToSet(a) = CoresAt(left, places)
  BY <1>4, AtIs
<1>6. IsPool(rest) /\ Len(rest) = Len(left) - n /\ ToSet(rest) = ToSet(left) \ ToSet(a)
  <2>1. IsPool(rest)
    BY <1>4, RestIs
  <2>2. Len(rest) = Len(left) - Cardinality(places)
    BY <1>4, RestIs
  <2>3. ToSet(rest) = ToSet(left) \ CoresAt(left, places)
    <3>1. places \in SUBSET (DOMAIN left)
      BY <1>4
    <3> HIDE DEF n, room, key, a
    <3> QED
      BY <3>1, RestIs
  <2> HIDE DEF n, a, rest
  <2> QED
    BY <1>4, <1>5, <2>1, <2>2, <2>3
<1>7. ToSet(a) \subseteq ToSet(left)
  BY <1>4, <1>5 DEF ToSet, CoresAt
<1> HIDE DEF a, rest
<1>8. room # {} => Cardinality(Locations(a)) = 1
  <2> SUFFICES ASSUME room # {} PROVE Cardinality(Locations(a)) = 1
    OBVIOUS
  <2>1. \A c \in ToSet(a) : Location(c) = key
    BY <1>3, <1>5, GroupIs DEF CoresAt
  <2> HIDE DEF key, room
  <2> QED
    BY <1>5, <2>1, OneLocation
<1>9. IsLocal(r, left, <<a, a>>)
  <2>1. UNION {Locations(e) : e \in {a, a}} = Locations(a)
    OBVIOUS
  <2> QED
    BY <1>8, <2>1 DEF IsLocal, CoresPerSlot
<1>10. CoresPerSlot(r) = n
  BY DEF CoresPerSlot
<1> DEFINE step == [slot |-> <<a, a>>, left |-> rest]
<1>11. step.slot = <<a, a>> /\ step.left = rest
  OBVIOUS
<1> HIDE DEF step
<1>12. IsTake(r, left, step)
  BY <1>5, <1>6, <1>7, <1>9, <1>10, <1>11 DEF IsTake
<1> QED
  BY <1>1, <1>12 DEF step

\* Both engines are given halves of what is taken in one go.
LEMMA TogetherTake ==
    ASSUME NEW r, r.mode # "shared", r.each \in Nat \ {0}, NEW left, IsPool(left),
           NEW places \in SUBSET (DOMAIN left), Cardinality(places) = 2 * r.each,
           IsLocal(r, left, Halves(At(left, places), r.each))
    PROVE  IsTake(r, left, [slot |-> Halves(At(left, places), r.each), left |-> Rest(left, places)])
<1> DEFINE n == r.each
           both == At(left, places)
           slot == Halves(both, n)
           rest == Rest(left, places)
<1>1. IsPool(both) /\ Len(both) = 2 * n /\ ToSet(both) = CoresAt(left, places)
  BY AtIs
<1>2. IsPool(rest) /\ Len(rest) = Len(left) - 2 * n
  <2>1. IsPool(rest)
    BY RestIs
  <2>2. Len(rest) = Len(left) - Cardinality(places)
    BY RestIs
  <2> QED
    BY <2>1, <2>2
<1>3. ToSet(rest) = ToSet(left) \ ToSet(both)
  <2>1. ToSet(rest) = ToSet(left) \ CoresAt(left, places)
    BY RestIs
  <2> QED
    BY <1>1, <2>1
<1>4. ToSet(both) \subseteq ToSet(left)
  BY <1>1 DEF ToSet, CoresAt
<1> HIDE DEF both, rest
<1>5. /\ IsPool(slot[1]) /\ Len(slot[1]) = n /\ IsPool(slot[2]) /\ Len(slot[2]) = n
      /\ ToSet(slot[1]) \cup ToSet(slot[2]) = ToSet(both)
      /\ ToSet(slot[1]) \cap ToSet(slot[2]) = {}
  <2>1. n \in Nat
    OBVIOUS
  <2> HIDE DEF n
  <2> QED
    BY <1>1, <2>1, HalvesAre
<1>6. slot = <<slot[1], slot[2]>>
  BY DEF Halves
<1>7. CoresPerSlot(r) = 2 * n
  BY DEF CoresPerSlot
<1>8. IsLocal(r, left, slot)
  BY DEF both
<1> DEFINE step == [slot |-> slot, left |-> rest]
<1>9. step.slot = slot /\ step.left = rest
  OBVIOUS
<1> HIDE DEF step, slot
<1>10. IsTake(r, left, step)
  BY <1>2, <1>3, <1>4, <1>5, <1>6, <1>7, <1>8, <1>9 DEF IsTake
<1> QED
  BY <1>10 DEF step, slot, both, rest

\* What is in the halves was in the whole.
LEMMA HalvesWithin ==
    ASSUME NEW left, IsPool(left), NEW n \in Nat,
           NEW places \in SUBSET (DOMAIN left), Cardinality(places) = 2 * n
    PROVE  LET slot == Halves(At(left, places), n)
           IN  /\ IsPool(slot[1]) /\ Len(slot[1]) = n /\ IsPool(slot[2]) /\ Len(slot[2]) = n
               /\ \A e \in {slot[1], slot[2]} : \A c \in ToSet(e) : \E i \in places : c = left[i]
<1> DEFINE both == At(left, places)
           slot == Halves(both, n)
<1>1. IsPool(both) /\ Len(both) = 2 * n /\ ToSet(both) = CoresAt(left, places)
  BY AtIs
<1> HIDE DEF both
<1>2. /\ IsPool(slot[1]) /\ Len(slot[1]) = n /\ IsPool(slot[2]) /\ Len(slot[2]) = n
      /\ ToSet(slot[1]) \cup ToSet(slot[2]) = ToSet(both)
  BY <1>1, HalvesAre
<1> HIDE DEF slot
<1>3. \A e \in {slot[1], slot[2]} : \A c \in ToSet(e) : \E i \in places : c = left[i]
  BY <1>1, <1>2 DEF CoresAt
<1> QED
  BY <1>2, <1>3 DEF both, slot

\* Two keys there is room for are a pair.
LEMMA PairExists ==
    ASSUME NEW left, IsPool(left), NEW n, Cardinality(RoomFor(left, n)) > 1
    PROVE  PairsOfKeys(left, n) # {}
<1> DEFINE room == RoomFor(left, n)
<1>1. room # {}
  BY FS_EmptySet
<1>2. PICK k \in room : TRUE
  BY <1>1
<1>3. room # {k}
  <2>1. Cardinality({k}) = 1
    BY FS_Singleton
  <2> QED
    BY <2>1
<1>4. PICK l \in room : l # k
  BY <1>2, <1>3
<1>5. k \in Key /\ l \in Key
  BY RoomIs
<1>6. Before(k, l) \/ Before(l, k)
  BY <1>4, <1>5, BeforeIs
<1> HIDE DEF room
<1>7. CASE Before(k, l)
  <2> DEFINE p == <<k, l>>
  <2>1. p \in room \X room /\ Before(p[1], p[2])
    BY <1>7
  <2> QED
    BY <2>1 DEF PairsOfKeys, room
<1>8. CASE Before(l, k)
  <2> DEFINE p == <<l, k>>
  <2>1. p \in room \X room /\ Before(p[1], p[2])
    BY <1>8
  <2> QED
    BY <2>1 DEF PairsOfKeys, room
<1> QED
  BY <1>6, <1>7, <1>8

\* One engine in each of two locations.
LEMMA ApartTake ==
    ASSUME NEW r, r.mode # "shared", r.each \in Nat \ {0}, NEW left, IsPool(left),
           PairsOfKeys(left, r.each) # {}, RoomFor(left, 2 * r.each) = {}
    PROVE  IsTake(r, left, TakeApart(left, r.each))
<1> DEFINE n == r.each
           key1 == BestPair(left, n)[1]
           key2 == BestPair(left, n)[2]
           a == Lowest(Group(left, key1), n)
           b == Lowest(Group(left, key2), n)
           middle == Rest(left, a)
           adjusted == Adjusted(a, b)
           engine1 == At(left, a)
           engine2 == At(middle, adjusted)
           rest == Rest(middle, adjusted)
<1>1. TakeApart(left, n) = [slot |-> <<engine1, engine2>>, left |-> rest]
  BY DEF TakeApart, Adjusted, Below
<1>2. /\ Len(left) \in Nat /\ DOMAIN left = 1..Len(left)
      /\ \A i, k \in 1..Len(left) : left[i] = left[k] => i = k
  BY PoolIs
<1>3. /\ key1 \in RoomFor(left, n) /\ key2 \in RoomFor(left, n) /\ key1 # key2
  BY BestPairIs
<1> HIDE DEF key1, key2
<1>4. a \in SUBSET Group(left, key1) /\ Cardinality(a) = n
  <2>1. /\ Group(left, key1) \in SUBSET Int /\ IsFiniteSet(Group(left, key1))
        /\ Cardinality(Group(left, key1)) \in Nat /\ n \in Nat
    BY GroupIs
  <2>2. Cardinality(Group(left, key1)) >= n
    BY <1>3, RoomIs
  <2>3. n <= Cardinality(Group(left, key1))
    BY <2>1, <2>2
  <2> QED
    BY <2>1, <2>3, LowestIs
<1>5. b \in SUBSET Group(left, key2) /\ Cardinality(b) = n
  <2>1. /\ Group(left, key2) \in SUBSET Int /\ IsFiniteSet(Group(left, key2))
        /\ Cardinality(Group(left, key2)) \in Nat /\ n \in Nat
    BY GroupIs
  <2>2. Cardinality(Group(left, key2)) >= n
    BY <1>3, RoomIs
  <2>3. n <= Cardinality(Group(left, key2))
    BY <2>1, <2>2
  <2> QED
    BY <2>1, <2>3, LowestIs
<1>6. /\ a \in SUBSET (DOMAIN left) /\ b \in SUBSET (DOMAIN left)
      /\ \A i \in a : Location(left[i]) = key1
      /\ \A i \in b : Location(left[i]) = key2
  <2> HIDE DEF a, b
  <2> QED
    BY <1>2, <1>4, <1>5, GroupIs
<1>7. a \cap b = {}
  BY <1>3, <1>6
<1> HIDE DEF a, b
<1>8. /\ adjusted \in SUBSET (DOMAIN middle) /\ Cardinality(adjusted) = n
      /\ CoresAt(middle, adjusted) = CoresAt(left, b)
  <2>1. /\ adjusted \in SUBSET (DOMAIN middle) /\ Cardinality(adjusted) = Cardinality(b)
        /\ CoresAt(middle, adjusted) = CoresAt(left, b)
    BY <1>6, <1>7, AdjustedIs
  <2> HIDE DEF adjusted, middle
  <2> QED
    BY <1>5, <2>1
<1>9. IsPool(engine1) /\ Len(engine1) = n /\ ToSet(engine1) = CoresAt(left, a)
  BY <1>4, <1>6, AtIs
<1>10. IsPool(middle)
  BY <1>6, RestIs
<1>11. Len(middle) = Len(left) - n
  <2>1. Len(middle) = Len(left) - Cardinality(a)
    BY <1>6, RestIs
  <2> QED
    BY <1>4, <2>1
<1>12. ToSet(middle) = ToSet(left) \ ToSet(engine1)
  <2> HIDE DEF n, adjusted, engine2, rest, engine1
  <2>1. ToSet(middle) = ToSet(left) \ CoresAt(left, a)
    <3>1. a \in SUBSET (DOMAIN left)
      BY <1>6
    <3> QED
      BY <3>1, RestIs
  <2> QED
    BY <1>9, <2>1
<1> HIDE DEF adjusted, middle, engine1
<1>13. IsPool(engine2) /\ Len(engine2) = n /\ ToSet(engine2) = CoresAt(left, b)
  <2>1. /\ IsPool(engine2) /\ Len(engine2) = Cardinality(adjusted)
        /\ ToSet(engine2) = CoresAt(middle, adjusted)
    BY <1>8, <1>10, AtIs
  <2> HIDE DEF engine2, n
  <2> QED
    BY <1>8, <2>1
<1>14. IsPool(rest)
  BY <1>8, <1>10, RestIs
<1>15. Len(rest) = Len(left) - 2 * n
  <2>1. Len(rest) = Len(middle) - Cardinality(adjusted)
    BY <1>8, <1>10, RestIs
  <2> QED
    BY <1>2, <1>8, <1>11, <2>1
<1>16. ToSet(rest) = ToSet(middle) \ ToSet(engine2)
  <2> HIDE DEF n, engine2
  <2>1. ToSet(rest) = ToSet(middle) \ CoresAt(middle, adjusted)
    <3>1. adjusted \in SUBSET (DOMAIN middle)
      BY <1>8
    <3> QED
      BY <1>10, <3>1, RestIs
  <2> QED
    BY <1>8, <1>13, <2>1
<1> HIDE DEF engine2, rest
<1>17. ToSet(engine1) \cup ToSet(engine2) \subseteq ToSet(left)
  BY <1>6, <1>9, <1>13 DEF ToSet, CoresAt
<1>18. ToSet(engine1) \cap ToSet(engine2) = {}
  BY <1>2, <1>6, <1>7, <1>9, <1>13 DEF CoresAt
<1>19. ToSet(rest) = ToSet(left) \ (ToSet(engine1) \cup ToSet(engine2))
  BY <1>12, <1>16
<1>20. CoresPerSlot(r) = 2 * n
  BY DEF CoresPerSlot
<1> DEFINE slot == <<engine1, engine2>>
<1>21. slot[1] = engine1 /\ slot[2] = engine2 /\ slot = <<slot[1], slot[2]>>
  OBVIOUS
<1>22. Cardinality(Locations(engine1)) = 1 /\ Cardinality(Locations(engine2)) = 1
  <2>1. \A c \in ToSet(engine1) : Location(c) = key1
    BY <1>6, <1>9 DEF CoresAt
  <2>2. \A c \in ToSet(engine2) : Location(c) = key2
    BY <1>6, <1>13 DEF CoresAt
  <2>3. Len(engine1) # 0 /\ Len(engine2) # 0
    BY <1>9, <1>13
  <2> QED
    BY <1>9, <1>13, <2>1, <2>2, <2>3, OneLocation
<1> HIDE DEF slot
<1>23. IsLocal(r, left, slot)
  BY <1>20, <1>21, <1>22 DEF IsLocal
<1> DEFINE step == [slot |-> slot, left |-> rest]
<1>24. step.slot = slot /\ step.left = rest
  OBVIOUS
<1> HIDE DEF step
<1>25. IsTake(r, left, step)
  BY <1>9, <1>13, <1>14, <1>15, <1>17, <1>18, <1>19, <1>20, <1>21, <1>23, <1>24 DEF IsTake
<1> QED
  BY <1>1, <1>25 DEF step, slot

LEMMA SymmetricTake ==
    ASSUME NEW r, r.mode # "shared", r.each \in Nat \ {0}, NEW left, IsPool(left),
           2 * r.each <= Len(left)
    PROVE  IsTake(r, left, TakeSymmetric(left, r.each))
<1> DEFINE n == r.each
           room == RoomFor(left, 2 * n)
           key == FirstKey(room)
<1>1. Len(left) \in Nat /\ DOMAIN left = 1..Len(left)
  BY PoolIs
<1>2. CoresPerSlot(r) = 2 * n
  BY DEF CoresPerSlot
<1>3. CASE room # {}
  <2> DEFINE places == Lowest(Group(left, key), 2 * n)
             slot == Halves(At(left, places), n)
  <2>1. key \in room
    BY <1>3, RoomIs, FirstKeyIs
  <2>2. Cardinality(Group(left, key)) >= 2 * n
    BY <2>1, RoomIs
  <2>3. TakeSymmetric(left, n) = [slot |-> slot, left |-> Rest(left, places)]
    BY <1>3 DEF TakeSymmetric
  <2> HIDE DEF key
  <2>4. /\ Group(left, key) \in SUBSET Int /\ IsFiniteSet(Group(left, key))
        /\ Group(left, key) \in SUBSET (1..Len(left))
        /\ Cardinality(Group(left, key)) \in Nat
        /\ \A i \in Group(left, key) : Location(left[i]) = key
    BY GroupIs
  <2>5. places \in SUBSET Group(left, key) /\ Cardinality(places) = 2 * n
    <3>1. PICK m \in Nat : m = 2 * n
      OBVIOUS
    <3>2. m <= Cardinality(Group(left, key))
      BY <2>2, <2>4, <3>1
    <3>3. Lowest(Group(left, key), m) \in SUBSET Group(left, key)
          /\ Cardinality(Lowest(Group(left, key), m)) = m
      BY <2>4, <3>2, LowestIs
    <3> QED
      BY <3>1, <3>3
  <2>6. places \in SUBSET (DOMAIN left)
    BY <1>1, <2>4, <2>5
  <2> HIDE DEF places
  <2>7. /\ IsPool(slot[1]) /\ Len(slot[1]) = n /\ IsPool(slot[2]) /\ Len(slot[2]) = n
        /\ \A e \in {slot[1], slot[2]} : \A c \in ToSet(e) : \E i \in places : c = left[i]
    BY <2>5, <2>6, HalvesWithin
  <2>8. \A e \in {slot[1], slot[2]} : Locations(e) = {key} /\ Cardinality(Locations(e)) = 1
    <3> SUFFICES ASSUME NEW e \in {slot[1], slot[2]}
                 PROVE  Locations(e) = {key} /\ Cardinality(Locations(e)) = 1
      OBVIOUS
    <3>1. \A c \in ToSet(e) : Location(c) = key
      BY <2>4, <2>5, <2>7
    <3>2. IsPool(e) /\ Len(e) # 0
      BY <2>7
    <3> QED
      BY <3>1, <3>2, OneLocation
  <2>9. IsLocal(r, left, slot)
    <3> HIDE DEF slot
    <3>1. UNION {Locations(e) : e \in {slot[1], slot[2]}} = Locations(slot[1])
      BY <2>8
    <3> QED
      BY <2>8, <3>1 DEF IsLocal
  <2> QED
    BY <2>3, <2>5, <2>6, <2>9, TogetherTake
<1>4. CASE room = {} /\ PairsOfKeys(left, n) # {}
  BY <1>4, ApartTake DEF TakeSymmetric
<1>5. CASE room = {} /\ PairsOfKeys(left, n) = {}
  <2> DEFINE places == 1..(2 * n)
             slot == Halves(At(left, places), n)
  <2>1. places \in SUBSET (DOMAIN left) /\ Cardinality(places) = 2 * n
    <3>1. PICK m \in Nat : m = 2 * n
      OBVIOUS
    <3>2. Cardinality(1..m) = m
      BY FS_Interval
    <3> QED
      BY <1>1, <3>1, <3>2
  <2>2. TakeSymmetric(left, n) = [slot |-> slot, left |-> Rest(left, places)]
    BY <1>5 DEF TakeSymmetric
  <2> HIDE DEF places, slot
  <2>3. IsLocal(r, left, slot)
    <3>1. ~(Cardinality(RoomFor(left, n)) > 1)
      BY <1>5, PairExists
    <3> QED
      BY <1>2, <1>5, <3>1 DEF IsLocal
  <2> QED
    BY <2>1, <2>2, <2>3, TogetherTake DEF slot
<1> QED
  BY <1>3, <1>4, <1>5

-----------------------------------------------------------------------------
(* The slots, one after the other. *)

Used(slot) == ToSet(slot[1]) \cup ToSet(slot[2])

\* A slot of a request whose pool is `cores`, when `left` was left of it.
IsSlot(r, cores, left, slot) ==
    /\ slot = <<slot[1], slot[2]>>
    /\ IsPool(slot[1]) /\ Len(slot[1]) = r.each
    /\ IsPool(slot[2]) /\ Len(slot[2]) = r.each
    /\ Used(slot) \subseteq ToSet(cores)
    /\ IF r.mode = "shared" THEN slot[1] = slot[2] ELSE ToSet(slot[1]) \cap ToSet(slot[2]) = {}
    /\ IsLocal(r, left, slot)

\* What is so when k slots were taken: what is left and the slots are apart.
TakenInv(r, cores, k, t) ==
    /\ Listed(t.slots) /\ Len(t.slots) = k
    /\ Listed(t.lefts) /\ Len(t.lefts) = k + 1
    /\ IsPool(t.lefts[k + 1]) /\ Len(t.lefts[k + 1]) + k * CoresPerSlot(r) = Len(cores)
    /\ ToSet(t.lefts[k + 1]) \subseteq ToSet(cores)
    /\ \A i \in 1..k : IsSlot(r, cores, t.lefts[i], t.slots[i])
    /\ \A i \in 1..k : Used(t.slots[i]) \cap ToSet(t.lefts[k + 1]) = {}
    /\ \A i, j \in 1..k : i # j => Used(t.slots[i]) \cap Used(t.slots[j]) = {}

LEMMA TakenStart ==
    ASSUME NEW r, r.each \in Nat, NEW cores, IsPool(cores)
    PROVE  TakenInv(r, cores, 0, NoneTaken(cores))
<1> DEFINE t == NoneTaken(cores)
<1>1. t.slots = << >> /\ t.lefts = <<cores>>
  BY DEF NoneTaken
<1>2. Listed(t.slots) /\ Len(t.slots) = 0
  BY <1>1, NoList
<1>3. t.lefts \in Seq({cores}) /\ Len(t.lefts) = 1 /\ t.lefts[1] = cores
  BY <1>1
<1> HIDE DEF t
<1>4. Listed(t.lefts)
  BY <1>3, SequenceIsListed
<1>5. Len(cores) \in Nat /\ 0 * CoresPerSlot(r) = 0
  BY PoolIs DEF CoresPerSlot
<1>6. 0 + 1 = 1 /\ 1..0 = {}
  OBVIOUS
<1> QED
  BY <1>2, <1>3, <1>4, <1>5, <1>6 DEF TakenInv, t

LEMMA TakenGoesOn ==
    ASSUME NEW r, r.each \in Nat \ {0}, NEW cores, IsPool(cores), NEW k \in Nat, NEW t,
           TakenInv(r, cores, k, t), (k + 1) * CoresPerSlot(r) <= Len(cores)
    PROVE  TakenInv(r, cores, k + 1, SlotAfter(r, t))
<1> DEFINE c == CoresPerSlot(r)
           left == t.lefts[k + 1]
           step == IF r.mode = "shared" THEN TakeShared(left, r.each) ELSE TakeSymmetric(left, r.each)
           after == SlotAfter(r, t)
<1>1. /\ Listed(t.slots) /\ Len(t.slots) = k
      /\ Listed(t.lefts) /\ Len(t.lefts) = k + 1
      /\ IsPool(left) /\ Len(left) + k * c = Len(cores)
      /\ ToSet(left) \subseteq ToSet(cores)
      /\ \A i \in 1..k : IsSlot(r, cores, t.lefts[i], t.slots[i])
      /\ \A i \in 1..k : Used(t.slots[i]) \cap ToSet(left) = {}
      /\ \A i, j \in 1..k : i # j => Used(t.slots[i]) \cap Used(t.slots[j]) = {}
  BY DEF TakenInv
<1>2. Len(left) \in Nat /\ Len(cores) \in Nat /\ c \in Nat
  BY <1>1, PoolIs DEF CoresPerSlot
<1>3. c <= Len(left)
  <2>1. PICK m \in Nat, n \in Nat, d \in Nat : m = Len(left) /\ n = Len(cores) /\ d = c
    BY <1>2
  <2>2. m + k * d = n /\ (k + 1) * d <= n
    BY <1>1, <2>1
  <2>3. (k + 1) * d = k * d + d /\ k * d \in Nat
    BY ProductIs
  <2>4. PICK x \in Nat : x = k * d
    BY <2>3
  <2>5. m + x = n /\ x + d <= n
    BY <2>2, <2>3, <2>4
  <2>6. d <= m
    BY <2>5
  <2> QED
    BY <2>1, <2>6
<1>4. IsTake(r, left, step)
  <2> HIDE DEF left
  <2>1. CASE r.mode = "shared"
    <3>1. c = r.each
      BY <2>1 DEF CoresPerSlot
    <3> QED
      BY <1>1, <1>3, <2>1, <3>1, SharedTake
  <2>2. CASE r.mode # "shared"
    <3>1. c = 2 * r.each
      BY <2>2 DEF CoresPerSlot
    <3> QED
      BY <1>1, <1>3, <2>2, <3>1, SymmetricTake
  <2> QED
    BY <2>1, <2>2
<1>5. after = [slots |-> Append(t.slots, step.slot), lefts |-> Append(t.lefts, step.left)]
  BY <1>1 DEF SlotAfter, Last
<1>6. after.slots = Append(t.slots, step.slot) /\ after.lefts = Append(t.lefts, step.left)
  BY <1>5
<1> DEFINE slot == step.slot
           rest == step.left
<1> HIDE DEF step, after, left, c
<1>7. /\ Listed(after.slots) /\ Len(after.slots) = k + 1
      /\ \A i \in 1..k : after.slots[i] = t.slots[i]
      /\ after.slots[k + 1] = slot
  BY <1>1, <1>6, ListGrows
<1>8. /\ Listed(after.lefts) /\ Len(after.lefts) = k + 1 + 1
      /\ \A i \in 1..(k + 1) : after.lefts[i] = t.lefts[i]
      /\ after.lefts[k + 1 + 1] = rest
  <2> DEFINE n == k + 1
  <2>1. Listed(t.lefts) /\ Len(t.lefts) = n
    BY <1>1
  <2> HIDE DEF n
  <2>2. /\ Listed(after.lefts) /\ Len(after.lefts) = n + 1
        /\ \A i \in 1..n : after.lefts[i] = t.lefts[i]
        /\ after.lefts[n + 1] = rest
    BY <1>6, <2>1, ListGrows
  <2> QED
    BY <2>2 DEF n
<1> HIDE DEF slot, rest
<1>9. /\ slot = <<slot[1], slot[2]>>
      /\ IsPool(slot[1]) /\ Len(slot[1]) = r.each /\ IsPool(slot[2]) /\ Len(slot[2]) = r.each
      /\ Used(slot) \subseteq ToSet(left)
      /\ IF r.mode = "shared" THEN slot[1] = slot[2] ELSE ToSet(slot[1]) \cap ToSet(slot[2]) = {}
      /\ IsPool(rest) /\ Len(rest) = Len(left) - c
      /\ ToSet(rest) = ToSet(left) \ Used(slot)
      /\ IsLocal(r, left, slot)
  BY <1>4 DEF IsTake, Used, slot, rest, c
<1>10. Len(rest) + (k + 1) * c = Len(cores)
  <2>1. PICK m \in Nat, n \in Nat, d \in Nat : m = Len(left) /\ n = Len(cores) /\ d = c
    BY <1>2
  <2>2. m + k * d = n
    BY <1>1, <2>1
  <2>3. (k + 1) * d = k * d + d /\ k * d \in Nat
    BY ProductIs
  <2>4. PICK x \in Nat : x = k * d
    BY <2>3
  <2>5. Len(rest) = m - d
    BY <1>9, <2>1
  <2> QED
    BY <2>1, <2>2, <2>3, <2>4, <2>5
<1>11. ToSet(rest) \subseteq ToSet(cores) /\ Used(slot) \subseteq ToSet(cores)
  BY <1>1, <1>9
<1>12. IsSlot(r, cores, left, slot)
  BY <1>9, <1>11 DEF IsSlot
<1>13. \A i \in 1..(k + 1) : i \in 1..k \/ i = k + 1
  OBVIOUS
<1>14. k + 1 \in 1..(k + 1) /\ \A i \in 1..k : i \in 1..(k + 1)
  OBVIOUS
<1>15. after.lefts[k + 1] = left
  BY <1>8, <1>14 DEF left
<1>16. \A i \in 1..(k + 1) : IsSlot(r, cores, after.lefts[i], after.slots[i])
  BY <1>1, <1>7, <1>8, <1>12, <1>13, <1>14, <1>15
<1>17. \A i \in 1..(k + 1) : Used(after.slots[i]) \cap ToSet(rest) = {}
  <2> SUFFICES ASSUME NEW i \in 1..(k + 1) PROVE Used(after.slots[i]) \cap ToSet(rest) = {}
    OBVIOUS
  <2>1. CASE i \in 1..k
    <3>1. Used(after.slots[i]) \cap ToSet(left) = {}
      BY <1>1, <1>7, <2>1
    <3> QED
      BY <1>9, <3>1
  <2>2. CASE i = k + 1
    BY <1>7, <1>9, <2>2
  <2> QED
    BY <1>13, <2>1, <2>2
<1>18. \A i \in 1..k : Used(after.slots[i]) \cap Used(slot) = {}
  <2> SUFFICES ASSUME NEW i \in 1..k PROVE Used(after.slots[i]) \cap Used(slot) = {}
    OBVIOUS
  <2>1. Used(after.slots[i]) \cap ToSet(left) = {}
    BY <1>1, <1>7
  <2> QED
    BY <1>9, <2>1
<1>19. \A i, j \in 1..(k + 1) : i # j => Used(after.slots[i]) \cap Used(after.slots[j]) = {}
  <2> SUFFICES ASSUME NEW i \in 1..(k + 1), NEW j \in 1..(k + 1), i # j
               PROVE  Used(after.slots[i]) \cap Used(after.slots[j]) = {}
    OBVIOUS
  <2>1. CASE i \in 1..k /\ j \in 1..k
    BY <1>1, <1>7, <2>1
  <2>2. CASE i \in 1..k /\ j = k + 1
    BY <1>7, <1>18, <2>2
  <2>3. CASE i = k + 1 /\ j \in 1..k
    BY <1>7, <1>18, <2>3
  <2> QED
    BY <1>13, <2>1, <2>2, <2>3
<1>20. IsPool(after.lefts[k + 1 + 1]) /\ after.lefts[k + 1 + 1] = rest
  BY <1>8, <1>9
<1> QED
  BY <1>7, <1>8, <1>10, <1>11, <1>16, <1>17, <1>19, <1>20 DEF TakenInv, after, c

\* If the pool is large enough, it is so for all of the slots.
LEMMA TakenIs ==
    ASSUME NEW r, r.each \in Nat \ {0}, NEW cores, IsPool(cores), NEW n \in Nat,
           n * CoresPerSlot(r) <= Len(cores)
    PROVE  TakenInv(r, cores, n, Taken(r, cores, n))
<1> DEFINE Step(g) == TakenStep(r, cores, n, g)
           f == CHOOSE g : g = Step(g)
<1>1. f = Step(f)
  <2>1. \E g : g = Step(g)
    BY TakenExists
  <2> HIDE DEF Step
  <2> QED
    BY <2>1
<1>2. Taken(r, cores, n) = f[n]
  BY DEF Taken, TakenStep, SlotAfter, NoneTaken
<1> HIDE DEF f
<1>3. \A k \in 0..n : f[k] = IF k = 0 THEN NoneTaken(cores) ELSE SlotAfter(r, f[k - 1])
  BY <1>1 DEF TakenStep
<1>4. CoresPerSlot(r) \in Nat /\ Len(cores) \in Nat
  BY PoolIs DEF CoresPerSlot
<1> DEFINE Bad == {k \in 0..n : ~TakenInv(r, cores, k, f[k])}
<1>5. Bad = {}
  <2> SUFFICES ASSUME Bad # {} PROVE FALSE
    OBVIOUS
  <2>1. PICK k \in Bad : \A l \in Bad : k <= l
    <3>1. Bad \in SUBSET Nat
      OBVIOUS
    <3> QED
      BY <3>1, LeastNumber
  <2>2. k # 0
    <3>1. 0 \in 0..n /\ f[0] = NoneTaken(cores)
      BY <1>3
    <3> QED
      BY <2>1, <3>1, TakenStart
  <2>3. PICK m \in Nat : m = k - 1 /\ k = m + 1 /\ m \in 0..n /\ m < k /\ k <= n /\ k \in 0..n
    BY <2>1, <2>2
  <2>4. TakenInv(r, cores, m, f[m])
    <3>1. m \notin Bad
      BY <2>1, <2>3
    <3> QED
      BY <2>3, <3>1
  <2>5. (m + 1) * CoresPerSlot(r) <= Len(cores)
    <3>1. PICK d \in Nat, size \in Nat : d = CoresPerSlot(r) /\ size = Len(cores)
      BY <1>4
    <3>2. m + 1 \in Nat /\ n >= m + 1
      BY <2>3
    <3>3. PICK j \in Nat : j = m + 1
      BY <3>2
    <3>4. d * n >= j * d
      BY <3>2, <3>3, ProductGrows
    <3>5. n * d <= size /\ n * d = d * n
      BY <3>1
    <3>6. PICK x \in Nat, y \in Nat : x = d * n /\ y = j * d
      BY ProductIs
    <3>7. y <= size
      BY <3>4, <3>5, <3>6
    <3> QED
      BY <3>1, <3>3, <3>6, <3>7
  <2>6. TakenInv(r, cores, m + 1, SlotAfter(r, f[m]))
    BY <2>4, <2>5, TakenGoesOn
  <2>7. f[k] = SlotAfter(r, f[m])
    BY <1>3, <2>2, <2>3
  <2> QED
    BY <2>1, <2>3, <2>6, <2>7
<1>6. TakenInv(r, cores, n, f[n])
  BY <1>5
<1> QED
  BY <1>2, <1>6

-----------------------------------------------------------------------------
(* The pool a plan selects. *)

\* The cores of a host as far as some CPUs go make a pool.
LEMMA RestrictedIs ==
    ASSUME NEW cores, IsDisjoint(cores), NEW S
    PROVE  IsPool(Restricted(cores, S))
<1> DEFINE within == [i \in DOMAIN cores |-> [cores[i] EXCEPT !.cpus = cores[i].cpus \cap S]]
           places == {i \in DOMAIN cores : within[i].cpus # {}}
<1>1. /\ Len(cores) \in Nat /\ DOMAIN cores = 1..Len(cores)
      /\ \A i \in 1..Len(cores) : cores[i] \in Core
      /\ \A i, k \in 1..Len(cores) : cores[i].cpus \cap cores[k].cpus # {} => i = k
  BY LenProperties, ElementOfSeq DEF IsDisjoint
<1>2. \A i \in 1..Len(cores) : /\ within[i] \in Core
                               /\ within[i].cpus = cores[i].cpus \cap S
  <2> SUFFICES ASSUME NEW i \in 1..Len(cores)
               PROVE  within[i] \in Core /\ within[i].cpus = cores[i].cpus \cap S
    OBVIOUS
  <2>1. within[i] = [cores[i] EXCEPT !.cpus = cores[i].cpus \cap S] /\ cores[i] \in Core
    BY <1>1
  <2> QED
    BY <2>1 DEF Core
<1>3. DOMAIN within = 1..Len(cores)
  BY <1>1
<1> HIDE DEF within
<1>4. within \in Seq(Core)
  <2>1. within \in [1..Len(cores) -> Core]
    <3>1. within = [i \in 1..Len(cores) |-> within[i]]
      BY <1>1 DEF within
    <3> QED
      BY <1>2, <3>1
  <2> QED
    BY <1>1, <2>1
<1>5. IsDisjoint(within)
  <2>1. \A i, k \in 1..Len(cores) : within[i].cpus \cap within[k].cpus # {} => i = k
    <3> SUFFICES ASSUME NEW i \in 1..Len(cores), NEW k \in 1..Len(cores),
                        within[i].cpus \cap within[k].cpus # {}
                 PROVE  i = k
      OBVIOUS
    <3>1. cores[i].cpus \cap cores[k].cpus # {}
      BY <1>2
    <3> QED
      BY <1>1, <3>1
  <2> QED
    BY <1>3, <1>4, <2>1 DEF IsDisjoint
<1>6. places \in SUBSET (DOMAIN within) /\ \A i \in places : within[i].cpus # {}
  BY <1>1, <1>3
<1>7. Restricted(cores, S) = Picked(within, places)
  BY DEF Restricted, within
<1> HIDE DEF places
<1> QED
  BY <1>5, <1>6, <1>7, PickedPool

\* One of the classes of a pool is the highest.
LEMMA BestClassIs ==
    ASSUME NEW p, IsPool(p), Len(p) # 0
    PROVE  \E c \in {p[i].class : i \in DOMAIN p} : \A d \in {p[i].class : i \in DOMAIN p} : d <= c
<1> DEFINE n == Len(p)
           S == {p[i].class : i \in DOMAIN p}
           f == [i \in 1..n |-> p[i].class]
<1>1. /\ n \in Nat /\ DOMAIN p = 1..n /\ IsFiniteSet(1..n) /\ n # 0
      /\ \A i \in 1..n : p[i] \in Core
  BY PoolIs
<1>2. S \in SUBSET Int
  BY <1>1 DEF Core
<1>3. f \in Surjection(1..n, S)
  BY <1>1 DEF Surjection
<1>4. p[1].class \in S
  BY <1>1
<1> HIDE DEF n, S, f
<1>5. IsFiniteSet(S)
  BY <1>1, <1>3, FS_Surjection
<1>6. /\ Cardinality(S) \in Nat /\ InOrder(S) \in [1..Cardinality(S) -> S]
      /\ \A s \in S : /\ Cardinality(Below(S, s)) + 1 \in 1..Cardinality(S)
                      /\ InOrder(S)[Cardinality(Below(S, s)) + 1] = s
      /\ \A k, l \in 1..Cardinality(S) : k < l => InOrder(S)[k] < InOrder(S)[l]
  BY <1>2, <1>5, InOrderIs
<1> DEFINE c == InOrder(S)[Cardinality(S)]
<1>7. Cardinality(S) \in 1..Cardinality(S)
  BY <1>4, <1>6
<1>8. c \in S
  BY <1>6, <1>7
<1>9. ASSUME NEW d \in S PROVE d <= c
  <2>1. PICK k \in 1..Cardinality(S) : InOrder(S)[k] = d
    BY <1>6
  <2>2. k < Cardinality(S) \/ k = Cardinality(S)
    BY <1>6
  <2>3. d < c \/ d = c
    BY <1>6, <1>7, <2>1, <2>2
  <2>4. d \in Int /\ c \in Int
    BY <1>2, <1>8
  <2> QED
    BY <2>3, <2>4
<1> QED
  BY <1>8, <1>9 DEF S

\* What the best of the headroom leaves: cores of the highest class, above the
\* lowest of them.
LEMMA AutoPoolIs ==
    ASSUME NEW r, IsDisjoint(r.cores), r.headroom \in Nat, AutoPool(r).ok
    PROVE  LET usable == Restricted(r.cores, r.allowed)
               pool == AutoPool(r).cores
           IN  /\ IsPool(pool) /\ ToSet(pool) \subseteq ToSet(usable)
               /\ \A c \in ToSet(pool) :
                     /\ \A d \in ToSet(usable) : d.class <= c.class
                     /\ Cardinality({d \in ToSet(usable) : d.class = c.class
                                        /\ Smallest(d.cpus) < Smallest(c.cpus)}) >= r.headroom
<1> DEFINE usable == Restricted(r.cores, r.allowed)
           classes == {usable[i].class : i \in DOMAIN usable}
           top == CHOOSE c \in classes : \A d \in classes : d <= c
           places == {i \in DOMAIN usable : usable[i].class = top}
           selected == Picked(usable, places)
           sorted == ByCpu(selected)
           h == r.headroom
           pool == SubSeq(sorted, h + 1, Len(sorted))
<1>1. IsPool(usable)
  BY RestrictedIs
<1>2. HighestClass(usable) = Refused \/ HighestClass(usable) = Pool(selected)
  BY DEF HighestClass
<1>3. ~(h >= Len(sorted)) /\ AutoPool(r).cores = pool
  <2>1. HighestClass(usable).ok /\ ~(h >= Len(ByCpu(HighestClass(usable).cores)))
        /\ AutoPool(r) = Pool(SubSeq(ByCpu(HighestClass(usable).cores), h + 1,
                                    Len(ByCpu(HighestClass(usable).cores))))
    BY DEF AutoPool, Refused
  <2>2. HighestClass(usable).cores = selected
    <3>1. Refused.ok = FALSE
      BY DEF Refused
    <3>2. HighestClass(usable) # Refused
      BY <2>1, <3>1
    <3>3. HighestClass(usable) = Pool(selected)
      BY <1>2, <3>2
    <3> HIDE DEF usable, selected
    <3> QED
      BY <3>3 DEF Pool
  <2> HIDE DEF usable, selected
  <2> QED
    BY <2>1, <2>2 DEF Pool
<1> HIDE DEF usable
<1>4. /\ Len(usable) \in Nat /\ DOMAIN usable = 1..Len(usable)
      /\ \A i \in 1..Len(usable) : usable[i] \in Core
  BY <1>1, PoolIs
<1>5. usable \in Seq(Core) /\ IsDisjoint(usable) /\ \A i \in places : usable[i].cpus # {}
  BY <1>1 DEF IsPool, IsDisjoint
<1>6. places \in SUBSET (DOMAIN usable) /\ \A i \in places : usable[i].class = top
  OBVIOUS
<1> HIDE DEF places
<1>7. IsPool(selected)
  BY <1>5, <1>6, PickedPool
<1>8. ToSet(selected) = CoresAt(usable, places)
  BY <1>5, <1>6, PickedIs
<1> HIDE DEF selected, top
<1>9. /\ IsPool(sorted) /\ ToSet(sorted) = ToSet(selected) /\ Len(sorted) = Len(selected)
      /\ \A k, l \in 1..Len(selected) :
            k < l => Smallest(sorted[k].cpus) < Smallest(sorted[l].cpus)
  BY <1>7, ByCpuIs
<1> HIDE DEF sorted
<1>10. /\ Len(sorted) \in Nat /\ DOMAIN sorted = 1..Len(sorted)
       /\ \A i, k \in 1..Len(sorted) : sorted[i] = sorted[k] => i = k
  BY <1>9, PoolIs
<1>11. IsPool(pool) /\ ToSet(pool) = CoresAt(sorted, (h + 1)..Len(sorted))
  <2>1. PICK a \in Nat : a = h + 1
    OBVIOUS
  <2>2. PICK b \in Nat : b = Len(sorted)
    BY <1>10
  <2>3. 1 <= a /\ a <= b + 1 /\ b <= Len(sorted)
    BY <1>3, <2>1, <2>2
  <2>4. IsPool(SubSeq(sorted, a, b)) /\ ToSet(SubSeq(sorted, a, b)) = CoresAt(sorted, a..b)
    BY <1>9, <2>3, SubSeqPool
  <2> QED
    BY <2>1, <2>2, <2>4
<1> HIDE DEF pool
<1>12. \A i \in 1..Len(sorted) : sorted[i] \in ToSet(usable) /\ sorted[i].class = top
  <2> SUFFICES ASSUME NEW i \in 1..Len(sorted)
               PROVE  sorted[i] \in ToSet(usable) /\ sorted[i].class = top
    OBVIOUS
  <2>1. sorted[i] \in ToSet(sorted)
    BY <1>10 DEF ToSet
  <2>2. PICK k \in places : sorted[i] = usable[k]
    BY <1>8, <1>9, <2>1 DEF CoresAt
  <2> QED
    BY <1>6, <2>2 DEF ToSet
<1>13. ToSet(pool) \subseteq ToSet(usable)
  <2>1. \A i \in (h + 1)..Len(sorted) : i \in 1..Len(sorted)
    BY <1>10
  <2> QED
    BY <1>11, <1>12, <2>1 DEF CoresAt
<1>14. \A d \in ToSet(usable) : d.class <= top
  <2>1. Len(usable) # 0
    <3>1. 1 \in 1..Len(sorted)
      BY <1>3, <1>10
    <3>2. sorted[1] \in ToSet(usable)
      BY <1>12, <3>1
    <3> QED
      BY <1>4, <3>2 DEF ToSet
  <2>2. \E c \in classes : \A d \in classes : d <= c
    BY <1>1, <2>1, BestClassIs
  <2>3. \A d \in classes : d <= top
    BY <2>2 DEF top
  <2> QED
    BY <2>3 DEF ToSet
<1>15. ASSUME NEW c \in ToSet(pool)
       PROVE  Cardinality({d \in ToSet(usable) : d.class = c.class
                              /\ Smallest(d.cpus) < Smallest(c.cpus)}) >= h
  <2> DEFINE S == {d \in ToSet(usable) : d.class = c.class /\ Smallest(d.cpus) < Smallest(c.cpus)}
             f == [i \in 1..h |-> sorted[i]]
  <2>1. PICK k \in (h + 1)..Len(sorted) : c = sorted[k]
    BY <1>11 DEF CoresAt
  <2>2. k \in 1..Len(sorted) /\ \A i \in 1..h : i \in 1..Len(sorted) /\ i < k
    BY <1>10, <2>1
  <2>3. \A i \in 1..h : sorted[i] \in S
    <3> SUFFICES ASSUME NEW i \in 1..h PROVE sorted[i] \in S
      OBVIOUS
    <3>1. Smallest(sorted[i].cpus) < Smallest(sorted[k].cpus)
      BY <1>9, <2>2
    <3>2. sorted[i] \in ToSet(usable) /\ sorted[i].class = sorted[k].class
      BY <1>12, <2>2
    <3> QED
      BY <2>1, <3>1, <3>2
  <2>4. IsFiniteSet(S)
    <3>1. IsFiniteSet(ToSet(usable)) /\ S \in SUBSET ToSet(usable)
      BY <1>1, CoresOfPool
    <3> HIDE DEF S
    <3> QED
      BY <3>1, FS_Subset
  <2> HIDE DEF S
  <2>5. f \in Injection(1..h, S)
    BY <1>10, <2>2, <2>3 DEF Injection, IsInjective
  <2>6. Cardinality(1..h) = h /\ Cardinality(S) \in Nat
    <3>1. PICK n \in Nat : n = h
      OBVIOUS
    <3>2. Cardinality(1..n) = n
      BY FS_Interval
    <3> QED
      BY <2>4, <3>1, <3>2, FS_CardinalityType
  <2> HIDE DEF f
  <2>7. Cardinality(1..h) <= Cardinality(S)
    BY <2>4, <2>5, FS_Injection
  <2>8. Cardinality(S) >= h
    BY <2>6, <2>7
  <2> QED
    BY <2>8 DEF S
<1>16. ASSUME NEW c \in ToSet(pool), NEW d \in ToSet(usable) PROVE d.class <= c.class
  <2>1. \A i \in (h + 1)..Len(sorted) : i \in 1..Len(sorted)
    BY <1>10
  <2>2. c.class = top
    BY <1>11, <1>12, <2>1 DEF CoresAt
  <2> QED
    BY <1>14, <2>2
<1> QED
  BY <1>3, <1>11, <1>13, <1>15, <1>16 DEF usable

\* A plan that is not refused selects a pool of usable cores, of the best class
\* and above the headroom if it was to choose.
LEMMA PlanIs ==
    ASSUME NEW r, IsRequest(r), r.policy # "off", PlanCpuPlacement(r).ok
    PROVE  LET usable == IF r.policy = "auto" THEN Restricted(r.cores, r.allowed)
                         ELSE Restricted(r.cores, r.cpus)
               pool == PlanCpuPlacement(r).cores
           IN  /\ IsPool(usable) /\ IsPool(pool) /\ ToSet(pool) \subseteq ToSet(usable)
               /\ r.policy = "auto" =>
                     \A c \in ToSet(pool) :
                        /\ \A d \in ToSet(usable) : d.class <= c.class
                        /\ Cardinality({d \in ToSet(usable) : d.class = c.class
                                           /\ Smallest(d.cpus) < Smallest(c.cpus)}) >= r.headroom
<1>1. /\ r.policy \in {"auto", "explicit"} /\ r.headroom \in Nat /\ IsDisjoint(r.cores)
  BY DEF IsRequest, IsDisjoint
<1>2. Refused.ok = FALSE
  BY DEF Refused
<1>3. CASE r.policy = "auto"
  <2>1. PlanCpuPlacement(r) = Refused \/ PlanCpuPlacement(r) = AutoPool(r)
    BY <1>3 DEF PlanCpuPlacement
  <2>2. PlanCpuPlacement(r) = AutoPool(r)
    BY <1>2, <2>1
  <2>3. AutoPool(r).ok
    BY <2>2
  <2>4. IsPool(Restricted(r.cores, r.allowed))
    BY <1>1, RestrictedIs
  <2> QED
    BY <1>1, <1>3, <2>2, <2>3, <2>4, AutoPoolIs
<1>4. CASE r.policy = "explicit"
  <2>1. PlanCpuPlacement(r) = Refused \/ PlanCpuPlacement(r) = Pool(Restricted(r.cores, r.cpus))
    BY <1>4 DEF PlanCpuPlacement
  <2>2. PlanCpuPlacement(r) = Pool(Restricted(r.cores, r.cpus))
    BY <1>2, <2>1
  <2>3. PlanCpuPlacement(r).cores = Restricted(r.cores, r.cpus)
    BY <2>2 DEF Pool
  <2>4. IsPool(Restricted(r.cores, r.cpus))
    BY <1>1, RestrictedIs
  <2> QED
    BY <1>4, <2>3, <2>4
<1> QED
  BY <1>1, <1>3, <1>4

\* What is allocated, if anything is, was taken from the pool of the plan.
LEMMA AllocationIs ==
    ASSUME NEW r, IsRequest(r), r.policy # "off", Allocation(r).slots # << >>
    PROVE  /\ PlanCpuPlacement(r).ok
           /\ IsPool(PlanCpuPlacement(r).cores)
           /\ TakenInv(r, PlanCpuPlacement(r).cores, r.slots, Allocation(r))
<1> DEFINE chosen == PlanCpuPlacement(r)
           need == r.slots * CoresPerSlot(r)
<1>1. /\ chosen.ok /\ ~(need > Len(chosen.cores))
      /\ Allocation(r) = Taken(r, chosen.cores, r.slots)
  BY DEF Allocation
<1>2. IsPool(chosen.cores)
  BY <1>1, PlanIs
<1>3. need \in Nat /\ Len(chosen.cores) \in Nat /\ r.slots \in Nat /\ r.each \in Nat \ {0}
  <2>1. r.slots \in Nat /\ CoresPerSlot(r) \in Nat /\ r.each \in Nat \ {0}
    BY DEF IsRequest, CoresPerSlot
  <2>2. need \in Nat
    BY <2>1, ProductIs
  <2> QED
    BY <1>2, <2>1, <2>2, PoolIs
<1>4. need <= Len(chosen.cores)
  BY <1>1, <1>3
<1>5. TakenInv(r, chosen.cores, r.slots, Taken(r, chosen.cores, r.slots))
  BY <1>2, <1>3, <1>4, TakenIs
<1> QED
  BY <1>1, <1>2, <1>5

\* What the engines of a slot run on.
LEMMA CpusOfIs ==
    ASSUME NEW e, NEW x \in CpusOf(e)
    PROVE  \E c \in ToSet(e) : x \in c.cpus
BY DEF CpusOf, ToSet

\* Slots of a pool without a common core have no common CPU.
LEMMA NoCommonCpu ==
    ASSUME NEW pool, IsPool(pool), NEW a, NEW b,
           ToSet(a) \subseteq ToSet(pool), ToSet(b) \subseteq ToSet(pool), ToSet(a) \cap ToSet(b) = {}
    PROVE  CpusOf(a) \cap CpusOf(b) = {}
<1> SUFFICES ASSUME NEW x \in CpusOf(a), x \in CpusOf(b) PROVE FALSE
  OBVIOUS
<1>1. PICK c \in ToSet(a) : x \in c.cpus
  BY CpusOfIs
<1>2. PICK d \in ToSet(b) : x \in d.cpus
  BY CpusOfIs
<1>3. PICK i \in DOMAIN pool : c = pool[i]
  BY DEF ToSet
<1>4. PICK k \in DOMAIN pool : d = pool[k]
  BY DEF ToSet
<1>5. i = k
  BY <1>1, <1>2, <1>3, <1>4 DEF IsPool, IsDisjoint
<1> QED
  BY <1>3, <1>4, <1>5

\* The slots of every placement are apart.
LEMMA SlotsAreApart ==
    ASSUME NEW r, IsRequest(r)
    PROVE  IsApart(r, Allocation(r).slots, Allocation(r).lefts)
<1> DEFINE slots == Allocation(r).slots
           lefts == Allocation(r).lefts
           pool == PlanCpuPlacement(r).cores
           Engines(k) == {slots[k][1], slots[k][2]}
           Cpus(k) == UNION {CpusOf(e) : e \in Engines(k)}
           pinned == UNION {Cpus(k) : k \in DOMAIN slots}
           usable == IF r.policy = "auto" THEN Restricted(r.cores, r.allowed)
                     ELSE Restricted(r.cores, r.cpus)
           used == UNION {Locations(e) : e \in UNION {Engines(k) : k \in DOMAIN slots}}
           Lower(c) == {d \in ToSet(usable) : d.class = c.class /\ Smallest(d.cpus) < Smallest(c.cpus)}
<1> SUFFICES ASSUME slots # << >>, r.policy # "off"
             PROVE  /\ Len(slots) = r.slots
                    /\ \A k, l \in DOMAIN slots : k # l => Cpus(k) \cap Cpus(l) = {}
                    /\ \A k \in DOMAIN slots : \A e \in Engines(k) :
                          Cores(e) \subseteq ToSet(usable) /\ Cardinality(Cores(e)) = r.each
                    /\ \A k \in DOMAIN slots :
                          IF r.mode = "shared" THEN slots[k][1] = slots[k][2]
                          ELSE Cores(slots[k][1]) \cap Cores(slots[k][2]) = {}
                    /\ r.policy = "auto" =>
                          /\ \A c \in ToSet(usable) :
                                c.cpus \cap pinned # {} => Cardinality(Lower(c)) >= r.headroom
                          /\ \A l \in used : \A c \in ToSet(usable) : c.class <= l[1]
                    /\ \A k \in DOMAIN slots : IsLocal(r, lefts[k], slots[k])
  BY DEF IsApart, IsLocal
<1>1. TakenInv(r, pool, r.slots, Allocation(r)) /\ PlanCpuPlacement(r).ok /\ IsPool(pool)
  BY AllocationIs
<1>2. /\ Listed(slots) /\ Len(slots) = r.slots
      /\ \A i \in 1..r.slots : IsSlot(r, pool, lefts[i], slots[i])
      /\ \A i, j \in 1..r.slots : i # j => Used(slots[i]) \cap Used(slots[j]) = {}
  BY <1>1 DEF TakenInv
<1>3. DOMAIN slots = 1..r.slots
  BY <1>2, ListIs
<1>4. /\ IsPool(usable) /\ ToSet(pool) \subseteq ToSet(usable)
      /\ r.policy = "auto" =>
            \A c \in ToSet(pool) :
               /\ \A d \in ToSet(usable) : d.class <= c.class
               /\ Cardinality(Lower(c)) >= r.headroom
  BY <1>1, PlanIs
<1> HIDE DEF slots, lefts, pool, usable, Lower
<1>5. \A k \in DOMAIN slots : \A e \in Engines(k) :
         IsPool(e) /\ Len(e) = r.each /\ ToSet(e) \subseteq ToSet(pool) /\ ToSet(e) \subseteq Used(slots[k])
  BY <1>2, <1>3 DEF IsSlot, Used
<1>6. ASSUME NEW k \in DOMAIN slots, NEW l \in DOMAIN slots, k # l PROVE Cpus(k) \cap Cpus(l) = {}
  <2> SUFFICES ASSUME NEW a \in Engines(k), NEW b \in Engines(l) PROVE CpusOf(a) \cap CpusOf(b) = {}
    OBVIOUS
  <2>1. /\ ToSet(a) \subseteq ToSet(pool) /\ ToSet(a) \subseteq Used(slots[k])
        /\ ToSet(b) \subseteq ToSet(pool) /\ ToSet(b) \subseteq Used(slots[l])
    BY <1>5
  <2>2. Used(slots[k]) \cap Used(slots[l]) = {}
    BY <1>2, <1>3, <1>6
  <2>3. ToSet(a) \cap ToSet(b) = {}
    BY <2>1, <2>2
  <2> QED
    BY <1>1, <2>1, <2>3, NoCommonCpu
<1>7. ASSUME NEW k \in DOMAIN slots, NEW e \in Engines(k)
      PROVE  Cores(e) \subseteq ToSet(usable) /\ Cardinality(Cores(e)) = r.each
  <2>1. IsPool(e) /\ Len(e) = r.each /\ ToSet(e) \subseteq ToSet(usable)
    BY <1>4, <1>5, <1>7
  <2> QED
    BY <2>1, CoresOfPool DEF Cores
<1>8. \A k \in DOMAIN slots :
         IF r.mode = "shared" THEN slots[k][1] = slots[k][2]
         ELSE Cores(slots[k][1]) \cap Cores(slots[k][2]) = {}
  BY <1>2, <1>3 DEF IsSlot, Cores
<1>9. ASSUME r.policy = "auto", NEW c \in ToSet(usable), c.cpus \cap pinned # {}
      PROVE  Cardinality(Lower(c)) >= r.headroom
  <2>1. PICK k \in DOMAIN slots : \E e \in Engines(k) : \E x \in CpusOf(e) : x \in c.cpus
    BY <1>9
  <2>2. PICK e \in Engines(k) : \E x \in CpusOf(e) : x \in c.cpus
    BY <2>1
  <2>3. PICK x \in CpusOf(e) : x \in c.cpus
    BY <2>2
  <2>4. PICK d \in ToSet(e) : x \in d.cpus
    BY CpusOfIs
  <2>5. d \in ToSet(pool) /\ d \in ToSet(usable)
    BY <1>4, <1>5, <2>1, <2>4, <2>2
  <2>6. c = d
    <3>1. PICK i \in DOMAIN usable : c = usable[i]
      BY <1>9 DEF ToSet
    <3>2. PICK j \in DOMAIN usable : d = usable[j]
      BY <2>5 DEF ToSet
    <3>3. i = j
      BY <1>4, <2>4, <2>3, <3>1, <3>2 DEF IsPool, IsDisjoint
    <3> QED
      BY <3>1, <3>2, <3>3
  <2> QED
    BY <1>4, <1>9, <2>5, <2>6
<1>10. ASSUME r.policy = "auto", NEW l \in used, NEW c \in ToSet(usable) PROVE c.class <= l[1]
  <2>1. PICK k \in DOMAIN slots : \E e \in Engines(k) : l \in Locations(e)
    BY <1>10
  <2>2. PICK e \in Engines(k) : l \in Locations(e)
    BY <2>1
  <2>3. PICK d \in ToSet(e) : l = Location(d)
    BY <2>2 DEF Locations, Cores
  <2>4. d \in ToSet(pool)
    BY <1>5, <2>1, <2>3
  <2>5. l[1] = d.class
    BY <2>3 DEF Location
  <2> QED
    BY <1>4, <1>10, <2>4, <2>5
<1>11. \A k \in DOMAIN slots : IsLocal(r, lefts[k], slots[k])
  BY <1>2, <1>3 DEF IsSlot
<1> QED
  BY <1>2, <1>6, <1>7, <1>8, <1>9, <1>10, <1>11

\* Engines of different slots have no CPU in common.
LEMMA EnginesAreApart ==
    ASSUME NEW r, IsRequest(r),
           NEW i \in DOMAIN Allocation(r).slots, NEW j \in DOMAIN Allocation(r).slots, i # j,
           NEW a \in ToSet(Allocation(r).slots[i]), NEW b \in ToSet(Allocation(r).slots[j])
    PROVE  CpusOf(a) \cap CpusOf(b) = {}
<1> DEFINE slots == Allocation(r).slots
           pool == PlanCpuPlacement(r).cores
<1>1. slots # << >>
  BY NoList
<1>2. CASE r.policy = "off"
  <2>1. slots = << >> \/ slots = [k \in 1..r.slots |-> << << >>, << >> >>]
    BY <1>2 DEF Allocation
  <2>2. slots[i] = << << >>, << >> >> /\ slots[j] = << << >>, << >> >>
    BY <1>1, <2>1
  <2> HIDE DEF slots
  <2>3. a = << >>
    BY <2>2 DEF ToSet, slots
  <2> QED
    BY <2>3 DEF CpusOf
<1>3. CASE r.policy # "off"
  <2>1. TakenInv(r, pool, r.slots, Allocation(r)) /\ IsPool(pool)
    BY <1>1, <1>3, AllocationIs
  <2>2. /\ Listed(slots) /\ Len(slots) = r.slots
        /\ \A k \in 1..r.slots : IsSlot(r, pool, Allocation(r).lefts[k], slots[k])
        /\ \A k, l \in 1..r.slots : k # l => Used(slots[k]) \cap Used(slots[l]) = {}
    BY <2>1 DEF TakenInv
  <2>3. i \in 1..r.slots /\ j \in 1..r.slots
    BY <2>2, ListIs
  <2>4. \A k \in 1..r.slots : \A e \in ToSet(slots[k]) :
           ToSet(e) \subseteq ToSet(pool) /\ ToSet(e) \subseteq Used(slots[k])
    <3> SUFFICES ASSUME NEW k \in 1..r.slots, NEW e \in ToSet(slots[k])
                 PROVE  ToSet(e) \subseteq ToSet(pool) /\ ToSet(e) \subseteq Used(slots[k])
      OBVIOUS
    <3> DEFINE slot == slots[k]
    <3>1. slot = <<slot[1], slot[2]>> /\ Used(slot) \subseteq ToSet(pool)
      BY <2>2 DEF IsSlot
    <3> HIDE DEF slot
    <3>2. e = slot[1] \/ e = slot[2]
      <4>1. PICK one, two : slot = <<one, two>>
        BY <3>1
      <4>2. e \in ToSet(slot)
        BY DEF slot
      <4> QED
        BY <4>1, <4>2 DEF ToSet
    <3> QED
      BY <3>1, <3>2 DEF Used, slot
  <2> HIDE DEF slots, pool
  <2>5. a \in ToSet(slots[i]) /\ b \in ToSet(slots[j])
    BY DEF slots
  <2>6. ToSet(a) \cap ToSet(b) = {}
    <3>1. Used(slots[i]) \cap Used(slots[j]) = {}
      BY <2>2, <2>3
    <3> QED
      BY <2>3, <2>4, <2>5, <3>1
  <2> QED
    BY <2>1, <2>3, <2>4, <2>5, <2>6, NoCommonCpu
<1> QED
  BY <1>2, <1>3

-----------------------------------------------------------------------------
(* The order of a part, and of two sets. *)

\* Sets whose members correspond are of one size.
LEMMA SameSize ==
    ASSUME NEW S, NEW T, IsFiniteSet(S), NEW f \in [S -> T],
           \A x, y \in S : f[x] = f[y] => x = y, \A y \in T : \E x \in S : f[x] = y
    PROVE  IsFiniteSet(T) /\ Cardinality(T) = Cardinality(S)
<1>1. f \in Injection(S, T)
  BY DEF Injection, IsInjective
<1>2. f \in Surjection(S, T)
  BY DEF Surjection
<1>3. ExistsBijection(S, T)
  BY <1>1, <1>2 DEF ExistsBijection, Bijection
<1> QED
  BY <1>3, FS_Bijection

\* An increasing list of all the numbers of a set is its order.
LEMMA OrderIsOnly ==
    ASSUME NEW S \in SUBSET Int, NEW n \in Nat, NEW f \in [1..n -> S],
           \A k, l \in 1..n : k < l => f[k] < f[l],
           \A m \in S : \E k \in 1..n : f[k] = m
    PROVE  IsFiniteSet(S) /\ Cardinality(S) = n /\ InOrder(S) = f
<1>1. ASSUME NEW k \in 1..n, NEW l \in 1..n, f[k] = f[l] PROVE k = l
  <2>1. f[k] \in Int /\ f[l] \in Int
    OBVIOUS
  <2>2. ~(f[k] < f[l]) /\ ~(f[l] < f[k])
    BY <1>1, <2>1
  <2> QED
    BY <2>2
<1>2. IsFiniteSet(1..n) /\ Cardinality(1..n) = n
  BY FS_Interval
<1>3. IsFiniteSet(S) /\ Cardinality(S) = n
  BY <1>1, <1>2, SameSize
<1>4. /\ InOrder(S) \in [1..n -> S]
      /\ \A m \in S : InOrder(S)[Cardinality(Below(S, m)) + 1] = m
  BY <1>3, InOrderIs
<1>5. ASSUME NEW k \in 1..n PROVE InOrder(S)[k] = f[k]
  <2> DEFINE B == Below(S, f[k])
             g == [l \in 1..(k - 1) |-> f[l]]
  <2>1. ASSUME NEW l \in 1..(k - 1) PROVE f[l] \in B
    <3>1. l \in 1..n /\ l < k
      OBVIOUS
    <3> QED
      BY <3>1 DEF Below
  <2>2. ASSUME NEW m \in B PROVE \E l \in 1..(k - 1) : f[l] = m
    <3>1. m \in S /\ m < f[k]
      BY DEF Below
    <3>2. PICK l \in 1..n : f[l] = m
      BY <3>1
    <3>3. ~(k < l) /\ k # l
      <4>1. f[k] \in Int /\ f[l] \in Int
        OBVIOUS
      <4> QED
        BY <3>1, <3>2, <4>1
    <3>4. l \in 1..(k - 1)
      BY <3>3
    <3> QED
      BY <3>2, <3>4
  <2> HIDE DEF B
  <2>3. /\ g \in [1..(k - 1) -> B]
        /\ \A l, m \in 1..(k - 1) : g[l] = g[m] => l = m
        /\ \A m \in B : \E l \in 1..(k - 1) : g[l] = m
    <3>1. g \in [1..(k - 1) -> B]
      BY <2>1
    <3>2. \A l \in 1..(k - 1) : l \in 1..n
      OBVIOUS
    <3> QED
      BY <1>1, <2>2, <3>1, <3>2
  <2>4. IsFiniteSet(1..(k - 1)) /\ Cardinality(1..(k - 1)) = k - 1
    <3>1. PICK h \in Nat : h = k - 1
      OBVIOUS
    <3>2. IsFiniteSet(1..h) /\ Cardinality(1..h) = h
      BY FS_Interval
    <3> QED
      BY <3>1, <3>2
  <2>5. Cardinality(B) = k - 1
    <3> HIDE DEF g
    <3> QED
      BY <2>3, <2>4, SameSize
  <2>6. Cardinality(B) + 1 = k
    BY <2>5
  <2>7. f[k] \in S
    OBVIOUS
  <2>8. InOrder(S)[Cardinality(B) + 1] = f[k]
    BY <1>4, <2>7 DEF B
  <2> QED
    BY <2>6, <2>8
<1>6. InOrder(S) = f
  BY <1>4, <1>5
<1> QED
  BY <1>3, <1>6

\* The order of two sets, where one is moved on by d, behind the other.
AreOneSet(S, T, d, A) ==
    /\ \A x \in Int : x \in A <=> x \in S \/ x - d \in T
    /\ \A x \in S, y \in T : x < y + d

LEMMA OrderJoins ==
    ASSUME NEW S \in SUBSET Int, IsFiniteSet(S), NEW T \in SUBSET Int, IsFiniteSet(T), NEW d \in Int,
           NEW A \in SUBSET Int, AreOneSet(S, T, d, A)
    PROVE  /\ IsFiniteSet(A) /\ Cardinality(A) = Cardinality(S) + Cardinality(T)
           /\ \A k \in 1..Cardinality(S) : InOrder(A)[k] = InOrder(S)[k]
           /\ \A k \in 1..Cardinality(T) : InOrder(A)[Cardinality(S) + k] = InOrder(T)[k] + d
<1>1. PICK s \in Nat : s = Cardinality(S)
  BY FS_CardinalityType
<1>2. PICK t \in Nat : t = Cardinality(T)
  BY FS_CardinalityType
<1>3. /\ InOrder(S) \in [1..s -> S]
      /\ \A x \in S : \E k \in 1..s : InOrder(S)[k] = x
      /\ \A k, l \in 1..s : k < l => InOrder(S)[k] < InOrder(S)[l]
  BY <1>1, InOrderIs
<1>4. /\ InOrder(T) \in [1..t -> T]
      /\ \A x \in T : \E k \in 1..t : InOrder(T)[k] = x
      /\ \A k, l \in 1..t : k < l => InOrder(T)[k] < InOrder(T)[l]
  BY <1>2, InOrderIs
<1>5. PICK f : f = InOrder(S)
  OBVIOUS
<1>6. PICK g : g = InOrder(T)
  OBVIOUS
<1> DEFINE h == [k \in 1..(s + t) |-> IF k <= s THEN f[k] ELSE g[k - s] + d]
<1>7. \A k \in 1..s : k \in 1..(s + t) /\ h[k] = f[k] /\ h[k] \in S
  BY <1>3, <1>5
<1>8. ASSUME NEW k \in 1..t PROVE s + k \in 1..(s + t) /\ h[s + k] = g[k] + d /\ g[k] \in T
  <2>1. s + k \in 1..(s + t) /\ ~(s + k <= s) /\ s + k - s = k
    OBVIOUS
  <2>2. g[k] \in T
    BY <1>4, <1>6
  <2> QED
    BY <2>1, <2>2
<1>9. \A k \in 1..(s + t) : k \in 1..s \/ \E l \in 1..t : k = s + l
  <2> SUFFICES ASSUME NEW k \in 1..(s + t), k \notin 1..s PROVE \E l \in 1..t : k = s + l
    OBVIOUS
  <2>1. k - s \in 1..t /\ k = s + (k - s)
    OBVIOUS
  <2> QED
    BY <2>1
<1>10. DOMAIN h = 1..(s + t)
  OBVIOUS
<1> HIDE DEF h
<1>11. \A k \in 1..t : h[s + k] \in Int /\ h[s + k] - d = g[k]
  <2> SUFFICES ASSUME NEW k \in 1..t PROVE h[s + k] \in Int /\ h[s + k] - d = g[k]
    OBVIOUS
  <2>1. PICK x \in Int : x = g[k]
    BY <1>8
  <2>2. h[s + k] = x + d
    BY <1>8, <2>1
  <2> QED
    BY <2>1, <2>2
<1>12. \A k \in 1..(s + t) : h[k] \in A
  <2> SUFFICES ASSUME NEW k \in 1..(s + t) PROVE h[k] \in A
    OBVIOUS
  <2>1. CASE k \in 1..s
    BY <1>7, <2>1 DEF AreOneSet
  <2>2. ASSUME NEW l \in 1..t, k = s + l PROVE h[k] \in A
    BY <1>8, <1>11, <2>2 DEF AreOneSet
  <2> QED
    BY <1>9, <2>1, <2>2
<1>13. h \in [1..(s + t) -> A]
  <2>1. h = [k \in 1..(s + t) |-> h[k]]
    BY <1>10 DEF h
  <2> QED
    BY <1>12, <2>1
<1>14. ASSUME NEW k \in 1..(s + t), NEW l \in 1..(s + t), k < l PROVE h[k] < h[l]
  <2>1. CASE l \in 1..s
    <3>1. k \in 1..s
      BY <1>14, <2>1
    <3> QED
      BY <1>3, <1>5, <1>7, <1>14, <2>1, <3>1
  <2>2. ASSUME NEW m \in 1..t, l = s + m, k \in 1..s PROVE h[k] < h[l]
    <3>1. h[k] \in S /\ g[m] \in T /\ h[l] = g[m] + d
      BY <1>7, <1>8, <2>2
    <3> QED
      BY <3>1 DEF AreOneSet
  <2>3. ASSUME NEW m \in 1..t, l = s + m, NEW j \in 1..t, k = s + j PROVE h[k] < h[l]
    <3>1. j < m
      BY <1>14, <2>3
    <3>2. PICK x \in Int, y \in Int : x = g[j] /\ y = g[m]
      BY <1>8
    <3>3. x < y
      BY <1>4, <1>6, <3>1, <3>2
    <3>4. h[k] = x + d /\ h[l] = y + d
      BY <1>8, <2>3, <3>2
    <3> QED
      BY <3>3, <3>4
  <2> QED
    BY <1>9, <2>1, <2>2, <2>3
<1>15. ASSUME NEW x \in A PROVE \E k \in 1..(s + t) : h[k] = x
  <2>1. CASE x \in S
    BY <1>3, <1>5, <1>7, <2>1
  <2>2. CASE x - d \in T
    <3>1. PICK k \in 1..t : g[k] = x - d
      BY <1>4, <1>6, <2>2
    <3>2. h[s + k] = (x - d) + d
      BY <1>8, <3>1
    <3>3. (x - d) + d = x
      OBVIOUS
    <3> QED
      BY <1>8, <3>2, <3>3
  <2> QED
    BY <2>1, <2>2 DEF AreOneSet
<1>16. PICK n \in Nat : n = s + t
  OBVIOUS
<1>17. IsFiniteSet(A) /\ Cardinality(A) = s + t /\ InOrder(A) = h
  BY <1>13, <1>14, <1>15, <1>16, OrderIsOnly
<1> QED
  BY <1>1, <1>2, <1>5, <1>6, <1>7, <1>8, <1>17

-----------------------------------------------------------------------------
(* A book read in parts. *)

\* The places of the usable lines of a text, and the lines of some of them.
UsableIn(text) == {i \in DOMAIN text : (i = 1 \/ text[i - 1] = Newline) /\ text[i] \in Position}
LinesAt(text, S) == [k \in DOMAIN InOrder(S) |-> <<text[InOrder(S)[k]]>>]
LinesTo(text, m) == LinesAt(text, {i \in UsableIn(text) : i <= m})

LEMMA LinesAtIs ==
    ASSUME NEW C, NEW text \in Seq(C), NEW S \in SUBSET (DOMAIN text)
    PROVE  /\ S \in SUBSET Int /\ IsFiniteSet(S) /\ Cardinality(S) \in Nat
           /\ LinesAt(text, S) \in Seq(Seq(C)) /\ Len(LinesAt(text, S)) = Cardinality(S)
           /\ \A k \in 1..Cardinality(S) :
                 InOrder(S)[k] \in S /\ LinesAt(text, S)[k] = <<text[InOrder(S)[k]]>>
<1>1. Len(text) \in Nat /\ DOMAIN text = 1..Len(text) /\ \A i \in DOMAIN text : text[i] \in C
  BY LenProperties, ElementOfSeq
<1>2. IsFiniteSet(S) /\ S \in SUBSET Int
  <2>1. IsFiniteSet(1..Len(text)) /\ S \in SUBSET (1..Len(text))
    BY <1>1, FS_Interval
  <2> QED
    BY <2>1, FS_Subset
<1>3. Cardinality(S) \in Nat /\ InOrder(S) \in [1..Cardinality(S) -> S]
  BY <1>2, InOrderIs
<1>4. PICK c \in Nat : c = Cardinality(S)
  BY <1>3
<1>5. PICK f \in [1..c -> S] : f = InOrder(S)
  BY <1>3, <1>4
<1>6. LinesAt(text, S) = [k \in 1..c |-> <<text[f[k]]>>]
  BY <1>5 DEF LinesAt
<1>7. \A k \in 1..c : f[k] \in S /\ <<text[f[k]]>> \in Seq(C)
  BY <1>1, <1>5
<1>8. LinesAt(text, S) \in [1..c -> Seq(C)]
  BY <1>6, <1>7
<1>9. PICK s : s = LinesAt(text, S)
  OBVIOUS
<1>10. s \in Seq(Seq(C)) /\ Len(s) = c
  <2>1. s \in [1..c -> Seq(C)]
    BY <1>8, <1>9
  <2>2. s \in Seq(Seq(C))
    BY <1>4, <2>1
  <2> QED
    BY <1>4, <2>1, <2>2, LenProperties
<1>11. \A k \in 1..c : InOrder(S)[k] \in S /\ LinesAt(text, S)[k] = <<text[InOrder(S)[k]]>>
  BY <1>5, <1>6, <1>7
<1> QED
  BY <1>2, <1>4, <1>9, <1>10, <1>11

\* The lines of a part of the text that begins a line are those of its places.
LEMMA LinesJoin ==
    ASSUME NEW C, NEW text \in Seq(C), NEW l \in 0..Len(text), NEW m \in l..Len(text),
           l = 0 \/ text[l] = Newline
    PROVE  /\ LinesTo(text, m) = LinesTo(text, l) \o ParseEpdLines(SubSeq(text, l + 1, m))
           /\ LinesTo(text, l) \in Seq(Seq(C))
           /\ ParseEpdLines(SubSeq(text, l + 1, m)) \in Seq(Seq(C))
<1>1. Len(text) \in Nat /\ DOMAIN text = 1..Len(text) /\ \A i \in DOMAIN text : text[i] \in C
  BY LenProperties, ElementOfSeq
<1>2. PICK part : part = SubSeq(text, l + 1, m)
  OBVIOUS
<1>3. /\ part \in Seq(C) /\ Len(part) = m - l /\ DOMAIN part = 1..(m - l)
      /\ \A i \in 1..(m - l) : part[i] = text[l + i]
  <2>1. PICK p \in Int : p = l + 1
    BY <1>1
  <2>2. m \in Int /\ \A i \in p..m : text[i] \in C
    BY <1>1, <2>1
  <2>3. /\ SubSeq(text, p, m) \in Seq(C)
        /\ Len(SubSeq(text, p, m)) = IF p <= m THEN m - p + 1 ELSE 0
        /\ \A i \in 1..(m - p + 1) : SubSeq(text, p, m)[i] = text[p + i - 1]
    BY <2>2, SubSeqProperties
  <2>4. m - p + 1 = m - l /\ (~(p <= m) => m - l = 0) /\ \A i \in 1..(m - l) : p + i - 1 = l + i
    BY <1>1, <2>1
  <2>5. part \in Seq(C) /\ Len(part) = m - l
    BY <1>2, <2>1, <2>3, <2>4
  <2>6. \A i \in 1..(m - l) : part[i] = text[l + i]
    BY <1>2, <2>1, <2>3, <2>4
  <2> QED
    BY <2>5, <2>6, LenProperties
<1>4. PICK S : S = {i \in UsableIn(text) : i <= l}
  OBVIOUS
<1>5. PICK T : T = UsableIn(part)
  OBVIOUS
<1>6. PICK A : A = {i \in UsableIn(text) : i <= m}
  OBVIOUS
<1>7. S \in SUBSET (DOMAIN text) /\ T \in SUBSET (DOMAIN part) /\ A \in SUBSET (DOMAIN text)
  BY <1>4, <1>5, <1>6 DEF UsableIn
<1>8. ASSUME NEW x \in Int PROVE x \in A <=> x \in S \/ x - l \in T
  <2>1. CASE x <= l
    <3>1. x - l \notin T
      BY <1>1, <1>3, <1>7, <2>1
    <3>2. x <= m
      BY <1>1, <2>1
    <3> QED
      BY <1>4, <1>6, <2>1, <3>1, <3>2
  <2>2. CASE x > l /\ x <= m
    <3>1. PICK i \in 1..(m - l) : i = x - l
      BY <1>1, <2>2
    <3>2. x = l + i /\ x \in 1..Len(text)
      BY <1>1, <2>2, <3>1
    <3>3. part[i] = text[x]
      BY <1>3, <3>2
    <3>4. (i = 1 \/ part[i - 1] = Newline) <=> (x = 1 \/ text[x - 1] = Newline)
      <4>1. CASE i = 1
        <5>1. x - 1 = l /\ (l = 0 => x = 1)
          BY <1>1, <3>2, <4>1
        <5> QED
          BY <4>1, <5>1
      <4>2. CASE i # 1
        <5>1. i - 1 \in 1..(m - l) /\ x # 1 /\ l + (i - 1) = x - 1
          BY <1>1, <3>2, <4>2
        <5>2. part[i - 1] = text[x - 1]
          BY <1>3, <5>1
        <5> QED
          BY <4>2, <5>1, <5>2
      <4> QED
        BY <4>1, <4>2
    <3>5. x \in A <=> (x = 1 \/ text[x - 1] = Newline) /\ text[x] \in Position
      BY <1>1, <1>6, <2>2, <3>2 DEF UsableIn
    <3>6. i \in T <=> (i = 1 \/ part[i - 1] = Newline) /\ part[i] \in Position
      BY <1>3, <1>5, <3>1 DEF UsableIn
    <3>7. x \notin S
      BY <1>1, <1>4, <2>2
    <3> QED
      BY <3>1, <3>3, <3>4, <3>5, <3>6, <3>7
  <2>3. CASE x > m
    <3>1. x - l \notin T
      BY <1>1, <1>3, <1>7, <2>3
    <3>2. x \notin A /\ x \notin S
      BY <1>1, <1>4, <1>6, <2>3
    <3> QED
      BY <3>1, <3>2
  <2> QED
    BY <1>1, <2>1, <2>2, <2>3
<1>9. \A x \in S, y \in T : x < y + l
  <2> SUFFICES ASSUME NEW x \in S, NEW y \in T PROVE x < y + l
    OBVIOUS
  <2>1. x \in Int /\ x <= l /\ y \in Int /\ y >= 1
    BY <1>1, <1>3, <1>4, <1>7
  <2> QED
    BY <1>1, <2>1
<1>10. /\ S \in SUBSET Int /\ IsFiniteSet(S) /\ Cardinality(S) \in Nat
       /\ LinesAt(text, S) \in Seq(Seq(C)) /\ Len(LinesAt(text, S)) = Cardinality(S)
       /\ \A k \in 1..Cardinality(S) :
             InOrder(S)[k] \in S /\ LinesAt(text, S)[k] = <<text[InOrder(S)[k]]>>
  BY <1>7, LinesAtIs
<1>11. /\ T \in SUBSET Int /\ IsFiniteSet(T) /\ Cardinality(T) \in Nat
       /\ LinesAt(part, T) \in Seq(Seq(C)) /\ Len(LinesAt(part, T)) = Cardinality(T)
       /\ \A k \in 1..Cardinality(T) :
             InOrder(T)[k] \in T /\ LinesAt(part, T)[k] = <<part[InOrder(T)[k]]>>
  BY <1>3, <1>7, LinesAtIs
<1>12. /\ A \in SUBSET Int /\ IsFiniteSet(A) /\ Cardinality(A) \in Nat
       /\ LinesAt(text, A) \in Seq(Seq(C)) /\ Len(LinesAt(text, A)) = Cardinality(A)
       /\ \A k \in 1..Cardinality(A) :
             InOrder(A)[k] \in A /\ LinesAt(text, A)[k] = <<text[InOrder(A)[k]]>>
  BY <1>7, LinesAtIs
<1>13. /\ Cardinality(A) = Cardinality(S) + Cardinality(T)
       /\ \A k \in 1..Cardinality(S) : InOrder(A)[k] = InOrder(S)[k]
       /\ \A k \in 1..Cardinality(T) : InOrder(A)[Cardinality(S) + k] = InOrder(T)[k] + l
  <2>1. l \in Int
    BY <1>1
  <2>2. AreOneSet(S, T, l, A)
    BY <1>8, <1>9 DEF AreOneSet
  <2> QED
    BY <1>10, <1>11, <1>12, <2>1, <2>2, OrderJoins
<1>14. PICK s \in Nat, t \in Nat : s = Cardinality(S) /\ t = Cardinality(T)
  BY <1>10, <1>11
<1>15. PICK p, q, r : p = LinesAt(text, S) /\ q = LinesAt(part, T) /\ r = LinesAt(text, A)
  OBVIOUS
<1>16. /\ p \o q \in Seq(Seq(C)) /\ Len(p \o q) = s + t
       /\ \A x \in 1..(s + t) : (p \o q)[x] = IF x <= s THEN p[x] ELSE q[x - s]
  <2>1. PICK D : D = Seq(C)
    OBVIOUS
  <2>2. p \in Seq(D) /\ q \in Seq(D) /\ Len(p) = s /\ Len(q) = t
    BY <1>10, <1>11, <1>14, <1>15, <2>1
  <2>3. /\ p \o q \in Seq(D) /\ Len(p \o q) = Len(p) + Len(q)
        /\ \A x \in 1..(Len(p) + Len(q)) : (p \o q)[x] = IF x <= Len(p) THEN p[x] ELSE q[x - Len(p)]
    BY <2>2, JoinedTwo
  <2> QED
    BY <2>1, <2>2, <2>3
<1>17. ASSUME NEW x \in 1..(s + t) PROVE (p \o q)[x] = r[x]
  <2>1. r[x] = <<text[InOrder(A)[x]]>>
    BY <1>12, <1>13, <1>14, <1>15
  <2>2. CASE x <= s
    <3>1. x \in 1..s
      BY <2>2
    <3>2. InOrder(A)[x] = InOrder(S)[x] /\ p[x] = <<text[InOrder(S)[x]]>>
      BY <1>10, <1>13, <1>14, <1>15, <3>1
    <3> QED
      BY <1>16, <2>1, <2>2, <3>2
  <2>3. CASE ~(x <= s)
    <3>1. PICK k \in 1..t : k = x - s /\ x = s + k
      BY <2>3
    <3>2. InOrder(A)[x] = InOrder(T)[k] + l
      BY <1>13, <1>14, <3>1
    <3>3. PICK i \in 1..(m - l) : i = InOrder(T)[k]
      BY <1>3, <1>7, <1>11, <1>14
    <3>4. q[k] = <<part[i]>> /\ part[i] = text[l + i]
      BY <1>3, <1>11, <1>14, <1>15, <3>3
    <3>5. i + l = l + i
      BY <1>1
    <3> QED
      BY <1>16, <2>1, <2>3, <3>1, <3>2, <3>3, <3>4, <3>5
  <2> QED
    BY <2>2, <2>3
<1>18. r = p \o q
  <2>1. r \in Seq(Seq(C)) /\ Len(r) = s + t
    BY <1>12, <1>13, <1>14, <1>15
  <2>2. PICK u : u = p \o q
    OBVIOUS
  <2>3. u \in Seq(Seq(C)) /\ Len(u) = Len(r) /\ \A x \in 1..Len(r) : r[x] = u[x]
    BY <1>16, <1>17, <2>1, <2>2
  <2>4. r = u
    BY <2>1, <2>3, SeqEqual
  <2> QED
    BY <2>2, <2>4
<1>19. LinesTo(text, m) = r /\ LinesTo(text, l) = p
  BY <1>4, <1>6, <1>15 DEF LinesTo
<1>20. ParseEpdLines(part) = q
  BY <1>5, <1>15 DEF ParseEpdLines, LinesAt, UsableIn
<1> QED
  BY <1>2, <1>10, <1>11, <1>15, <1>18, <1>19, <1>20

\* Sequences flattened, where all up to each are known.
LEMMA FlattenGrows ==
    ASSUME NEW n \in Nat, NEW parts, NEW S, parts \in [1..n -> Seq(S)], NEW upTo, upTo[0] = << >>,
           \A w \in 1..n : upTo[w] = upTo[w - 1] \o parts[w]
    PROVE  FlattenSeq(parts) = upTo[n]
<1>1. parts \in Seq(Seq(S)) /\ Len(parts) = n
  <2>1. parts \in Seq(Seq(S))
    OBVIOUS
  <2> QED
    BY <2>1, LenProperties
<1>2. CASE n = 0
  <2>1. parts = << >>
    BY <1>1, <1>2, EmptySeq
  <2> QED
    BY <1>2, <2>1, EmptySeq DEF FlattenSeq
<1>3. CASE n # 0
  <2> DEFINE Step(g) == [i \in 1..Len(parts) |-> IF i = 1 THEN parts[i] ELSE g[i - 1] \o parts[i]]
             f == CHOOSE g : g = Step(g)
  <2>1. FlattenSeq(parts) = f[Len(parts)]
    BY <1>1, <1>3 DEF FlattenSeq
  <2>2. f = Step(f)
    <3>1. \E g : g = Step(g)
      BY <1>1, FlattenExists
    <3> HIDE DEF Step
    <3> QED
      BY <3>1
  <2> HIDE DEF f
  <2>3. \A i \in 1..n : f[i] = IF i = 1 THEN parts[i] ELSE f[i - 1] \o parts[i]
    BY <1>1, <2>2
  <2> DEFINE Bad == {i \in 1..n : f[i] # upTo[i]}
  <2>4. Bad = {}
    <3> SUFFICES ASSUME Bad # {} PROVE FALSE
      OBVIOUS
    <3>1. Bad \in SUBSET Nat
      OBVIOUS
    <3>2. PICK i \in Bad : \A k \in Bad : i <= k
      BY <3>1, LeastNumber
    <3>3. i \in 1..n /\ f[i] # upTo[i]
      BY <3>2
    <3>4. i # 1
      <4> SUFFICES ASSUME i = 1 PROVE FALSE
        OBVIOUS
      <4>1. f[1] = parts[1] /\ upTo[1] = upTo[0] \o parts[1]
        <5>1. 1 \in 1..n /\ 1 - 1 = 0
          BY <3>3
        <5> QED
          BY <2>3, <5>1
      <4>2. << >> \o parts[1] = parts[1]
        <5>1. PICK q \in Seq(S) : q = parts[1]
          BY <3>3
        <5> QED
          BY <5>1, ConcatEmptySeq
      <4> QED
        BY <3>3, <4>1, <4>2
    <3>5. i - 1 \in 1..n /\ i - 1 \notin Bad
      BY <3>1, <3>2, <3>3, <3>4
    <3>6. f[i - 1] = upTo[i - 1]
      BY <3>5
    <3> QED
      BY <2>3, <3>3, <3>4, <3>6
  <2>5. n \in 1..n
    BY <1>3
  <2> QED
    BY <1>1, <2>1, <2>4, <2>5
<1> QED
  BY <1>2, <1>3

\* A cut falls behind a line, or at the end.
IsCut(text, c) == c \in 0..Len(text) /\ (c = 0 \/ c = Len(text) \/ text[c] = Newline)

LEMMA CutIs ==
    ASSUME NEW C, NEW text \in Seq(C), NEW target \in Nat
    PROVE  IsCut(text, CutAfter(text, target))
<1>1. Len(text) \in Nat
  BY LenProperties
<1> DEFINE ends == {i \in (target + 1)..Len(text) : text[i] = Newline}
<1>2. CASE ends = {}
  BY <1>1, <1>2 DEF CutAfter, IsCut
<1>3. CASE ends # {}
  <2>1. ends \in SUBSET Nat
    BY <1>1
  <2>2. \E i \in ends : \A k \in ends : i <= k
    <3> HIDE DEF ends
    <3> QED
      BY <1>3, <2>1, LeastNumber
  <2>3. CutAfter(text, target) \in ends
    BY <1>3, <2>2 DEF CutAfter
  <2> QED
    BY <1>1, <2>3 DEF IsCut
<1> QED
  BY <1>2, <1>3

\* The parts of a text between cuts have all of its lines, in their order.
LEMMA PartsAreWhole ==
    ASSUME NEW C, NEW text \in Seq(C), NEW B \in SUBSET (0..Len(text)),
           0 \in B, Len(text) \in B, \A c \in B : IsCut(text, c)
    PROVE  /\ Len(InOrder(B)) \in Nat \ {0}
           /\ FlattenSeq([w \in 1..(Len(InOrder(B)) - 1) |->
                  ParseEpdLines(SubSeq(text, InOrder(B)[w] + 1, InOrder(B)[w + 1]))])
                = ParseEpdLines(text)
<1>1. Len(text) \in Nat /\ DOMAIN text = 1..Len(text)
  BY LenProperties
<1>2. IsFiniteSet(B) /\ B \in SUBSET Int
  <2>1. PICK D : D = 0..Len(text)
    OBVIOUS
  <2>2. IsFiniteSet(D)
    BY <1>1, <2>1, FS_Interval
  <2>3. B \in SUBSET D
    BY <2>1
  <2>4. IsFiniteSet(B)
    BY <2>2, <2>3, FS_Subset
  <2> QED
    BY <1>1, <2>4
<1>3. PICK b : b = InOrder(B)
  OBVIOUS
<1>4. PICK c \in Nat : c = Cardinality(B)
  BY <1>2, FS_CardinalityType
<1>5. /\ b \in [1..c -> B] /\ \A x \in B : \E k \in 1..c : b[k] = x
      /\ \A k, l \in 1..c : k < l => b[k] < b[l]
  BY <1>2, <1>3, <1>4, InOrderIs
<1>6. Len(b) = c
  <2>1. b \in Seq(B)
    BY <1>4, <1>5
  <2> QED
    BY <1>4, <1>5, <2>1, LenProperties
<1>7. c # 0 /\ 1 \in 1..c /\ c \in 1..c
  BY <1>4, <1>5
<1>8. b[1] = 0
  <2>1. PICK k \in 1..c : b[k] = 0
    BY <1>5
  <2>2. CASE k = 1
    BY <2>1, <2>2
  <2>3. CASE k # 1
    <3>1. b[1] < 0
      BY <1>5, <1>7, <2>1, <2>3
    <3>2. b[1] \in 0..Len(text)
      BY <1>5, <1>7
    <3> QED
      BY <1>1, <3>1, <3>2
  <2> QED
    BY <2>2, <2>3
<1>9. b[c] = Len(text)
  <2>1. PICK k \in 1..c : b[k] = Len(text)
    BY <1>5
  <2>2. CASE k = c
    BY <2>1, <2>2
  <2>3. CASE k # c
    <3>1. Len(text) < b[c]
      BY <1>4, <1>5, <1>7, <2>1, <2>3
    <3>2. b[c] \in 0..Len(text)
      BY <1>5, <1>7
    <3> QED
      BY <1>1, <3>1, <3>2
  <2> QED
    BY <2>2, <2>3
<1>10. PICK n \in Nat : n = c - 1
  BY <1>4, <1>7
<1> DEFINE parts == [w \in 1..n |-> ParseEpdLines(SubSeq(text, b[w] + 1, b[w + 1]))]
           upTo == [w \in 0..n |-> LinesTo(text, b[w + 1])]
<1>11. ASSUME NEW w \in 1..n
       PROVE  parts[w] \in Seq(Seq(C)) /\ upTo[w] = upTo[w - 1] \o parts[w]
  <2>1. w \in 1..c /\ w + 1 \in 1..c /\ w < w + 1 /\ w \in 0..n /\ w - 1 \in 0..n /\ (w - 1) + 1 = w
    BY <1>10
  <2>2. PICK l \in 0..Len(text) : l = b[w]
    BY <1>5, <2>1
  <2>3. PICK m \in 0..Len(text) : m = b[w + 1]
    BY <1>5, <2>1
  <2>4. l < m /\ l \in B
    BY <1>5, <2>1, <2>2, <2>3
  <2>5. m \in l..Len(text)
    BY <1>1, <2>4
  <2>6. l = 0 \/ text[l] = Newline
    <3>1. IsCut(text, l)
      BY <2>4, Zenon
    <3>2. l # Len(text)
      <4>1. PICK L \in Nat : L = Len(text)
        BY <1>1
      <4>2. l \in 0..L /\ m \in 0..L /\ l < m
        BY <2>4, <4>1
      <4>3. l # L
        BY <4>2
      <4> QED
        BY <4>1, <4>3
    <3> QED
      BY <3>1, <3>2 DEF IsCut
  <2>7. /\ LinesTo(text, m) = LinesTo(text, l) \o ParseEpdLines(SubSeq(text, l + 1, m))
        /\ ParseEpdLines(SubSeq(text, l + 1, m)) \in Seq(Seq(C))
    BY <2>5, <2>6, LinesJoin
  <2>8. parts[w] = ParseEpdLines(SubSeq(text, l + 1, m))
    BY <2>2, <2>3
  <2>9. upTo[w] = LinesTo(text, m) /\ upTo[w - 1] = LinesTo(text, l)
    BY <2>1, <2>2, <2>3
  <2> QED
    BY <2>7, <2>8, <2>9
<1>12. upTo[0] = << >>
  <2>1. 0 \in 0..n /\ 0 + 1 = 1
    OBVIOUS
  <2>2. upTo[0] = LinesTo(text, 0)
    BY <1>8, <2>1
  <2>3. {i \in UsableIn(text) : i <= 0} = {}
    BY <1>1 DEF UsableIn
  <2>4. LinesTo(text, 0) = LinesAt(text, {})
    BY <2>3 DEF LinesTo
  <2>5. Cardinality({}) = 0
    BY FS_EmptySet
  <2>6. LinesAt(text, {}) \in Seq(Seq(C)) /\ Len(LinesAt(text, {})) = 0
    BY <2>5, LinesAtIs
  <2>7. LinesAt(text, {}) = << >>
    BY <2>6, EmptySeq
  <2> QED
    BY <2>2, <2>4, <2>7
<1>13. upTo[n] = ParseEpdLines(text)
  <2>1. n \in 0..n /\ n + 1 = c
    BY <1>10
  <2>2. upTo[n] = LinesTo(text, Len(text))
    BY <1>9, <2>1
  <2>3. {i \in UsableIn(text) : i <= Len(text)} = UsableIn(text)
    BY <1>1 DEF UsableIn
  <2> QED
    BY <2>2, <2>3 DEF LinesTo, ParseEpdLines, LinesAt, UsableIn
<1>14. parts \in [1..n -> Seq(Seq(C))]
  BY <1>11
<1>15. PICK D : D = Seq(C)
  OBVIOUS
<1>16. parts = [w \in 1..(Len(InOrder(B)) - 1) |->
                  ParseEpdLines(SubSeq(text, InOrder(B)[w] + 1, InOrder(B)[w + 1]))]
  BY <1>3, <1>6, <1>10
<1> HIDE DEF parts, upTo
<1>17. FlattenSeq(parts) = upTo[n]
  BY <1>11, <1>12, <1>14, <1>15, FlattenGrows
<1> QED
  BY <1>3, <1>6, <1>7, <1>13, <1>16, <1>17

\* A book read in parts is the book.
LEMMA ChunksAreWhole ==
    ASSUME NEW C, NEW text \in Seq(C), NEW threads \in Nat \ {0}
    PROVE  ParseEpd(text, threads) = ParseEpdLines(text)
<1>1. Len(text) \in Nat
  BY LenProperties
<1> DEFINE cuts == {CutAfter(text, (Len(text) * chunk) \div threads) : chunk \in 1..(threads - 1)}
           B == {0, Len(text)} \cup cuts
<1>2. ASSUME NEW chunk \in 1..(threads - 1)
      PROVE  IsCut(text, CutAfter(text, (Len(text) * chunk) \div threads))
  <2>1. PICK x \in Nat : x = Len(text) * chunk
    BY <1>1, ProductIs
  <2>2. threads > 0 /\ threads \in Nat
    OBVIOUS
  <2>3. x \div threads \in Nat
    BY <2>2, Division
  <2>4. PICK target \in Nat : target = (Len(text) * chunk) \div threads
    BY <2>1, <2>3
  <2> QED
    BY <2>4, CutIs
<1>3. \A c \in cuts : IsCut(text, c)
  BY <1>2
<1>4. IsCut(text, 0) /\ IsCut(text, Len(text))
  BY <1>1 DEF IsCut
<1>5. ParseEpd(text, threads) =
        IF threads <= 1 THEN ParseEpdLines(text)
        ELSE FlattenSeq([w \in 1..(Len(InOrder(B)) - 1) |->
                 ParseEpdLines(SubSeq(text, InOrder(B)[w] + 1, InOrder(B)[w + 1]))])
  BY DEF ParseEpd
<1> HIDE DEF cuts
<1>6. \A c \in B : IsCut(text, c)
  BY <1>3, <1>4
<1>7. B \in SUBSET (0..Len(text)) /\ 0 \in B /\ Len(text) \in B
  BY <1>6 DEF IsCut
<1> HIDE DEF B
<1>8. FlattenSeq([w \in 1..(Len(InOrder(B)) - 1) |->
          ParseEpdLines(SubSeq(text, InOrder(B)[w] + 1, InOrder(B)[w + 1]))]) = ParseEpdLines(text)
  BY <1>6, <1>7, PartsAreWhole
<1> QED
  BY <1>5, <1>8

-----------------------------------------------------------------------------
(* A book shuffled. *)

\* A generator that gives its last word at some time.
IsGenerator(words) ==
    /\ words \in Seq(0..(WordValues - 1))
    /\ \E i \in DOMAIN words : words[i] = WordValues - 1

\* The last word is taken for every draw, so that each draw comes to its end.
LEMMA WordIsTaken ==
    ASSUME NEW words, IsGenerator(words), NEW from \in Nat, NEW upper \in 1..WordValues
    PROVE  /\ NextWord(words, from, upper) \in Nat
           /\ words[(NextWord(words, from, upper) % Len(words)) + 1] \in Accepted(upper)
           /\ words[(NextWord(words, from, upper) % Len(words)) + 1] \in Nat
<1>1. PICK L \in Nat : L = Len(words)
  BY LenProperties DEF IsGenerator
<1>2. DOMAIN words = 1..L /\ \A i \in 1..L : words[i] \in 0..(WordValues - 1)
  <2>1. PICK E : E = 0..(WordValues - 1)
    OBVIOUS
  <2>2. words \in Seq(E)
    BY <2>1 DEF IsGenerator
  <2> QED
    BY <1>1, <2>1, <2>2, LenProperties, ElementOfSeq
<1>3. PICK p \in 1..L : words[p] = WordValues - 1
  BY <1>2 DEF IsGenerator
<1>4. L > 0 /\ p - 1 \in 0..(L - 1) /\ (p - 1) + 1 = p
  OBVIOUS
<1>5. WordValues - 1 \in Accepted(upper)
  <2>1. upper \in Nat /\ upper > 0 /\ WordValues - upper \in Nat
    BY WordAssumption
  <2>2. (WordValues - upper) % upper \in 0..(upper - 1)
    BY <2>1, Division
  <2> QED
    BY <2>1, <2>2, WordAssumption DEF Accepted
<1> DEFINE Hits(i) == words[(i % L) + 1] \in Accepted(upper)
           S == {i \in from..(from + L) : Hits(i)}
<1>6. \E i \in from..(from + L) : i % L = p - 1
  <2>1. from \div L \in Nat /\ from % L \in 0..(L - 1) /\ from = (from \div L) * L + (from % L)
    BY <1>4, Division
  <2>2. PICK q \in Nat, r \in 0..(L - 1) : from = q * L + r
    BY <2>1
  <2>3. PICK x \in Nat : x = q * L
    BY ProductIs
  <2>4. (q + 1) * L = x + L
    BY <2>3
  <2>5. q + 1 \in Nat
    OBVIOUS
  <2>6. (q * L + (p - 1)) % L = p - 1
    BY <1>4, Divided
  <2>7. ((q + 1) * L + (p - 1)) % L = p - 1
    BY <1>4, <2>5, Divided
  <2>8. from = x + r
    BY <2>2, <2>3
  <2>9. CASE p - 1 >= r
    <3>1. x + (p - 1) \in from..(from + L)
      BY <1>4, <2>8, <2>9
    <3> QED
      BY <2>3, <2>6, <3>1
  <2>10. CASE p - 1 < r
    <3>1. (x + L) + (p - 1) \in from..(from + L)
      BY <1>4, <2>8, <2>10
    <3> QED
      BY <2>4, <2>7, <3>1
  <2> QED
    BY <2>9, <2>10
<1>7. S # {}
  <2>1. PICK i \in from..(from + L) : i % L = p - 1
    BY <1>6
  <2>2. words[(i % L) + 1] = WordValues - 1
    BY <1>3, <1>4, <2>1
  <2> QED
    BY <1>5, <2>1, <2>2
<1>8. S \in SUBSET Nat
  OBVIOUS
<1>9. PICK i \in S : \A k \in S : i <= k
  <2> HIDE DEF S
  <2> QED
    BY <1>7, <1>8, LeastNumber
<1>10. i \in from..(from + L) /\ Hits(i)
  BY <1>9
<1>11. \A k \in from..(i - 1) : ~Hits(k)
  <2> SUFFICES ASSUME NEW k \in from..(i - 1), Hits(k) PROVE FALSE
    OBVIOUS
  <2>1. k \in from..(from + L) /\ ~(i <= k)
    BY <1>10
  <2>2. k \in S
    BY <2>1
  <2> HIDE DEF S
  <2> QED
    BY <1>9, <2>1, <2>2
<1> HIDE DEF S, Hits
<1>12. NextWord(words, from, upper) =
         CHOOSE j \in from..(from + L) : Hits(j) /\ \A k \in from..(j - 1) : ~Hits(k)
  BY <1>1 DEF NextWord, Hits
<1>13. NextWord(words, from, upper) \in from..(from + L) /\ Hits(NextWord(words, from, upper))
  BY <1>10, <1>11, <1>12
<1>14. PICK at \in Nat : at = NextWord(words, from, upper)
  BY <1>13
<1>15. words[(at % L) + 1] \in Nat
  <2>1. at % L \in 0..(L - 1)
    BY <1>4, Division
  <2>2. PICK m \in 1..L : m = (at % L) + 1
    BY <2>1
  <2> QED
    BY <1>2, <2>2, WordAssumption
<1> QED
  BY <1>1, <1>13, <1>14, <1>15 DEF Hits

\* How often a list has a value.
Count(list, v) == Cardinality({x \in DOMAIN list : list[x] = v})

\* A swap keeps what a list has.
Swapped(s, i, k) == [s EXCEPT ![i] = s[k], ![k] = s[i]]

LEMMA SwapKeeps ==
    ASSUME NEW E, NEW s \in Seq(E), NEW i \in 1..Len(s), NEW k \in 1..Len(s)
    PROVE  /\ Swapped(s, i, k) \in Seq(E) /\ Len(Swapped(s, i, k)) = Len(s)
           /\ \A v : Count(Swapped(s, i, k), v) = Count(s, v)
<1>1. PICK n \in Nat : n = Len(s) /\ DOMAIN s = 1..n
  BY LenProperties
<1>2. s \in [1..n -> E]
  BY <1>1, LenProperties
<1>3. PICK t : t = Swapped(s, i, k)
  OBVIOUS
<1>4. /\ t \in [1..n -> E]
      /\ \A x \in 1..n : t[x] = IF x = k THEN s[i] ELSE IF x = i THEN s[k] ELSE s[x]
  BY <1>1, <1>2, <1>3 DEF Swapped
<1>5. t \in Seq(E) /\ Len(t) = n
  <2>1. t \in Seq(E)
    BY <1>4
  <2> QED
    BY <1>4, <2>1, LenProperties
<1>6. ASSUME NEW v PROVE Count(t, v) = Count(s, v)
  <2> DEFINE A == {x \in 1..n : t[x] = v}
             B == {x \in 1..n : s[x] = v}
             Other(x) == IF x = k THEN i ELSE IF x = i THEN k ELSE x
             f == [x \in A |-> Other(x)]
  <2>1. \A x \in 1..n : Other(x) \in 1..n /\ t[x] = s[Other(x)] /\ Other(Other(x)) = x
    BY <1>1, <1>4
  <2>2. IsFiniteSet(A)
    <3>1. IsFiniteSet(1..n) /\ A \in SUBSET (1..n)
      BY FS_Interval
    <3> QED
      BY <3>1, FS_Subset
  <2>3. f \in [A -> B]
    BY <2>1
  <2>4. \A x, y \in A : f[x] = f[y] => x = y
    BY <2>1
  <2>5. \A y \in B : \E x \in A : f[x] = y
    <3> SUFFICES ASSUME NEW y \in B PROVE \E x \in A : f[x] = y
      OBVIOUS
    <3>1. y \in 1..n /\ s[y] = v
      OBVIOUS
    <3>2. Other(y) \in 1..n /\ Other(Other(y)) = y /\ t[Other(y)] = v
      BY <2>1, <3>1
    <3>3. Other(y) \in A
      BY <3>2
    <3>4. f[Other(y)] = y
      BY <3>2, <3>3
    <3> QED
      BY <3>3, <3>4
  <2> HIDE DEF f, A, B
  <2>6. Cardinality(B) = Cardinality(A)
    BY <2>2, <2>3, <2>4, <2>5, SameSize
  <2> QED
    BY <1>1, <1>4, <2>6 DEF Count, A, B
<1> QED
  BY <1>1, <1>3, <1>5, <1>6

\* The rounds of a shuffle.
DrawnFor(words, next, upper) == (words[(NextWord(words, next, upper) % Len(words)) + 1] % upper) + 1
ShuffleAfter(n, words, k, before) ==
    [list |-> Swapped(before.list, n + 1 - k, DrawnFor(words, before.next, n + 1 - k)),
     next |-> NextWord(words, before.next, n + 1 - k) + 1]
ShuffleStart(list) == [list |-> list, next |-> 0]

ShuffleStep(list, words, size, n, g) ==
    [k \in 0..n |-> IF k = 0 THEN ShuffleStart(list) ELSE ShuffleAfter(size, words, k, g[k - 1])]

LEMMA ShuffleExists ==
    ASSUME NEW list, NEW words, NEW size, NEW n \in Nat
    PROVE  \E g : g = ShuffleStep(list, words, size, n, g)
<1> DEFINE Solves(g, m) == g = [k \in 0..m |-> IF k = 0 THEN ShuffleStart(list)
                                                ELSE ShuffleAfter(size, words, k, g[k - 1])]
           Open == {m \in Nat : ~\E g : Solves(g, m)}
<1> SUFFICES ASSUME Open # {} PROVE FALSE
  BY DEF ShuffleStep
<1>1. PICK m \in Open : \A k \in Open : m <= k
  BY LeastNumber
<1>2. m # 0
  <2>1. Solves([k \in 0..0 |-> ShuffleStart(list)], 0)
    OBVIOUS
  <2> QED
    BY <1>1, <2>1
<1>3. m \in Nat \ {0} /\ m - 1 \in Nat /\ m - 1 < m
  BY <1>1, <1>2
<1>4. PICK g : Solves(g, m - 1)
  <2>1. m - 1 \notin Open
    <3> HIDE DEF Open
    <3> QED
      BY <1>1, <1>3
  <2> QED
    BY <1>3, <2>1
<1> DEFINE h == [k \in 0..m |-> IF k < m THEN g[k] ELSE ShuffleAfter(size, words, k, g[k - 1])]
<1>5. \A k \in 0..(m - 1) : g[k] = IF k = 0 THEN ShuffleStart(list)
                                   ELSE ShuffleAfter(size, words, k, g[k - 1])
  BY <1>4
<1>6. ASSUME NEW k \in 0..m
      PROVE  h[k] = IF k = 0 THEN ShuffleStart(list) ELSE ShuffleAfter(size, words, k, h[k - 1])
  <2>1. CASE k < m
    <3>1. k \in 0..(m - 1) /\ (k # 0 => k - 1 \in 0..m /\ k - 1 < m)
      BY <1>3, <2>1
    <3> QED
      BY <1>5, <2>1, <3>1
  <2>2. CASE k = m
    <3>1. k # 0 /\ k - 1 \in 0..m /\ k - 1 < m
      BY <1>3, <2>2
    <3> QED
      BY <2>2, <3>1
  <2> QED
    BY <1>3, <2>1, <2>2
<1>7. Solves(h, m)
  BY <1>6
<1> QED
  BY <1>1, <1>7

\* What a shuffle keeps: as many of each.
IsShuffled(s, E, list) == s \in Seq(E) /\ Len(s) = Len(list) /\ \A v : Count(s, v) = Count(list, v)

LEMMA ShuffledIs ==
    ASSUME NEW E, NEW list \in Seq(E), NEW words, IsGenerator(words), Len(list) \in 1..WordValues
    PROVE  IsShuffled(Shuffled(list, words), E, list)
<1>1. PICK n \in 1..WordValues : n = Len(list)
  OBVIOUS
<1>2. PICK last \in Nat : last = n - 1
  OBVIOUS
<1> DEFINE Step(g) == ShuffleStep(list, words, n, last, g)
           f == CHOOSE g : g = Step(g)
<1>3. f = Step(f)
  <2>1. \E g : g = Step(g)
    BY ShuffleExists
  <2> HIDE DEF Step
  <2> QED
    BY <2>1
<1>4. Shuffled(list, words) = f[last].list
  BY <1>1, <1>2 DEF Shuffled, ShuffleStep, ShuffleStart, ShuffleAfter, DrawnFor, Swapped
<1> HIDE DEF f
<1>5. \A k \in 0..last : f[k] = IF k = 0 THEN ShuffleStart(list) ELSE ShuffleAfter(n, words, k, f[k - 1])
  BY <1>3 DEF ShuffleStep
<1> DEFINE Good(k) == f[k].next \in Nat /\ IsShuffled(f[k].list, E, list)
           Bad == {k \in 0..last : ~Good(k)}
<1>6. Good(0)
  BY <1>5 DEF ShuffleStart, IsShuffled
<1>7. ASSUME NEW k \in 1..last, Good(k - 1) PROVE Good(k)
  <2>1. PICK s, next : s = f[k - 1].list /\ next = f[k - 1].next
    OBVIOUS
  <2>2. next \in Nat /\ s \in Seq(E) /\ Len(s) = n /\ \A v : Count(s, v) = Count(list, v)
    BY <1>1, <1>7, <2>1 DEF IsShuffled
  <2>3. PICK upper \in 1..WordValues : upper = n + 1 - k /\ upper \in 1..n
    BY <1>2, WordAssumption
  <2>4. f[k] = [list |-> Swapped(s, upper, DrawnFor(words, next, upper)),
                next |-> NextWord(words, next, upper) + 1]
    <3>1. k \in 0..last /\ k # 0
      OBVIOUS
    <3>2. f[k] = ShuffleAfter(n, words, k, f[k - 1])
      BY <1>5, <3>1
    <3> QED
      BY <2>1, <2>3, <3>2 DEF ShuffleAfter
  <2>5. /\ NextWord(words, next, upper) \in Nat
        /\ words[(NextWord(words, next, upper) % Len(words)) + 1] \in Nat
    BY <2>2, WordIsTaken
  <2>6. PICK w \in Nat : w = words[(NextWord(words, next, upper) % Len(words)) + 1]
    BY <2>5
  <2>7. upper \in Nat /\ upper > 0
    OBVIOUS
  <2>8. w % upper \in 0..(upper - 1)
    BY <2>7, Division
  <2>9. PICK i \in 1..n : i = DrawnFor(words, next, upper)
    BY <2>3, <2>6, <2>8 DEF DrawnFor
  <2>10. /\ Swapped(s, upper, i) \in Seq(E) /\ Len(Swapped(s, upper, i)) = n
         /\ \A v : Count(Swapped(s, upper, i), v) = Count(s, v)
    BY <2>2, <2>3, SwapKeeps
  <2>11. f[k].list = Swapped(s, upper, i) /\ f[k].next \in Nat
    BY <2>4, <2>5, <2>9
  <2> QED
    BY <1>1, <2>2, <2>10, <2>11 DEF IsShuffled
<1>8. Bad = {}
  <2> SUFFICES ASSUME Bad # {} PROVE FALSE
    OBVIOUS
  <2>1. Bad \in SUBSET Nat
    OBVIOUS
  <2>2. PICK k \in Bad : \A l \in Bad : k <= l
    <3> HIDE DEF Bad
    <3> QED
      BY <2>1, LeastNumber
  <2>3. k \in 0..last /\ ~Good(k)
    BY <2>2
  <2> HIDE DEF Good
  <2>4. k \in 1..last /\ k - 1 \in 0..last /\ ~(k <= k - 1)
    BY <1>6, <2>3
  <2>5. Good(k - 1)
    BY <2>2, <2>4
  <2> QED
    BY <1>7, <2>3, <2>4, <2>5
<1>9. Good(last)
  BY <1>2, <1>8
<1> QED
  BY <1>4, <1>9

\* Each value below the upper bound is drawn from as many words.
LEMMA EachResidue ==
    ASSUME NEW upper \in 1..WordValues, NEW v \in 0..(upper - 1)
    PROVE  Cardinality({w \in Accepted(upper) : w % upper = v}) = WordValues \div upper
<1>1. PICK W \in Nat : W = WordValues
  BY WordAssumption
<1>2. upper \in Nat /\ upper > 0 /\ v \in Nat
  OBVIOUS
<1>3. W \div upper \in Nat /\ W % upper \in 0..(upper - 1) /\ W = (W \div upper) * upper + (W % upper)
  BY <1>2, Division
<1>4. PICK q \in Nat, r \in 0..(upper - 1) : q = W \div upper /\ W = q * upper + r
  BY <1>3
<1>5. PICK Q \in Nat : Q = q * upper
  BY <1>2, ProductIs
<1>6. W = Q + r /\ r \in Nat /\ upper <= W
  BY <1>1, <1>4, <1>5
<1>7. q # 0
  <2> SUFFICES ASSUME q = 0 PROVE FALSE
    OBVIOUS
  <2>1. q * upper = 0
    BY <1>2
  <2> QED
    BY <1>5, <1>6, <2>1
<1>8. (W - upper) % upper = r
  <2>1. PICK b \in Nat : b = q - 1
    BY <1>7
  <2>2. PICK y \in Nat : y = b * upper
    BY <1>2, ProductIs
  <2>3. (b + 1) * upper = y + upper
    BY <1>2, <2>2
  <2>4. q = b + 1
    BY <2>1
  <2>5. W - upper = y + r
    BY <1>5, <1>6, <2>3, <2>4
  <2>6. (b * upper + r) % upper = r
    BY <1>2, Divided
  <2> QED
    BY <2>2, <2>5, <2>6
<1>9. Accepted(upper) = r..(W - 1)
  BY <1>1, <1>8 DEF Accepted
<1> DEFINE first == IF v >= r THEN 0 ELSE 1
           T == {w \in Accepted(upper) : w % upper = v}
<1>10. first \in 0..1
  OBVIOUS
<1>11. ASSUME NEW a \in first..(first + q - 1) PROVE a \in Nat /\ a * upper + v \in T
  <2>1. a \in Nat
    BY <1>10
  <2>2. PICK x \in Nat : x = a * upper
    BY <1>2, <2>1, ProductIs
  <2>3. (a * upper + v) % upper = v
    BY <1>2, <2>1, Divided
  <2>4. CASE v >= r
    <3>1. a \in 0..(q - 1)
      BY <2>4
    <3>2. a * upper + v \in 0..(q * upper - 1)
      BY <1>2, <3>1, RowIs
    <3>3. x + v \in r..(W - 1)
      BY <1>2, <1>5, <1>6, <2>2, <2>4, <3>2
    <3> QED
      BY <1>9, <2>1, <2>2, <2>3, <3>3
  <2>5. CASE v < r
    <3>1. a \in 1..q
      BY <2>5
    <3>2. upper * q >= a * upper
      BY <1>2, <2>1, <3>1, ProductGrows
    <3>3. upper * q = Q /\ a * upper = x
      BY <1>2, <1>5, <2>2
    <3>4. upper * a >= 1 * upper
      BY <1>2, <2>1, <3>1, ProductGrows
    <3>5. upper * a = x /\ 1 * upper = upper
      BY <1>2, <2>1, <2>2
    <3>6. x + v \in r..(W - 1)
      BY <1>2, <1>6, <2>5, <3>2, <3>3, <3>4, <3>5
    <3> QED
      BY <1>9, <2>1, <2>2, <2>3, <3>6
  <2> QED
    BY <1>2, <1>6, <2>4, <2>5
<1>12. ASSUME NEW w \in T PROVE \E a \in first..(first + q - 1) : a * upper + v = w
  <2>1. w \in r..(W - 1) /\ w \in Nat /\ w % upper = v
    BY <1>6, <1>9
  <2>2. w \div upper \in Nat /\ w = (w \div upper) * upper + (w % upper)
    BY <1>2, <2>1, Division
  <2>3. PICK a \in Nat : w = a * upper + v
    BY <2>1, <2>2
  <2>4. PICK x \in Nat : x = a * upper
    BY <1>2, ProductIs
  <2>5. CASE v >= r
    <3>1. a < q
      <4> SUFFICES ASSUME a >= q PROVE FALSE
        OBVIOUS
      <4>1. upper * a >= q * upper
        BY <1>2, ProductGrows
      <4>2. upper * a = x
        BY <1>2, <2>4
      <4> QED
        BY <1>2, <1>5, <1>6, <2>1, <2>3, <2>4, <2>5, <4>1, <4>2
    <3> QED
      BY <2>3, <2>5, <3>1
  <2>6. CASE v < r
    <3>1. a # 0
      <4> SUFFICES ASSUME a = 0 PROVE FALSE
        OBVIOUS
      <4>1. a * upper = 0
        BY <1>2
      <4> QED
        BY <1>2, <1>6, <2>1, <2>3, <2>6, <4>1
    <3>2. a <= q
      <4> SUFFICES ASSUME a >= q + 1 PROVE FALSE
        OBVIOUS
      <4>1. PICK next \in Nat : next = q + 1
        OBVIOUS
      <4>2. upper * a >= next * upper
        BY <1>2, <4>1, ProductGrows
      <4>3. upper * a = x
        BY <1>2, <2>4
      <4>4. (q + 1) * upper = Q + upper
        BY <1>2, <1>5
      <4>5. x >= Q + upper
        BY <4>1, <4>2, <4>3, <4>4
      <4> QED
        BY <1>2, <1>6, <2>1, <2>3, <2>4, <4>5
    <3> QED
      BY <2>3, <2>6, <3>1, <3>2
  <2> QED
    BY <1>2, <1>6, <2>5, <2>6
<1> HIDE DEF T
<1>13. PICK low \in Nat, high \in Int : low = first /\ high = first + q - 1
  BY <1>10
<1>14. IsFiniteSet(low..high) /\ Cardinality(low..high) = q
  <2>1. high - low + 1 = q /\ ~(low > high)
    BY <1>7, <1>13
  <2> QED
    BY <2>1, FS_Interval
<1> DEFINE f == [a \in low..high |-> a * upper + v]
<1>15. f \in [low..high -> T]
  BY <1>11, <1>13
<1>16. \A a, b \in low..high : f[a] = f[b] => a = b
  <2> SUFFICES ASSUME NEW a \in low..high, NEW b \in low..high, f[a] = f[b] PROVE a = b
    OBVIOUS
  <2>1. a \in Nat /\ b \in Nat
    OBVIOUS
  <2>2. (a * upper + v) \div upper = a /\ (b * upper + v) \div upper = b
    BY <1>2, <2>1, Divided
  <2>3. a * upper + v = b * upper + v
    OBVIOUS
  <2> QED
    BY <2>2, <2>3
<1>17. \A w \in T : \E a \in low..high : f[a] = w
  BY <1>12, <1>13
<1> HIDE DEF f, first
<1>18. Cardinality(T) = Cardinality(low..high)
  BY <1>14, <1>15, <1>16, <1>17, SameSize
<1> QED
  BY <1>1, <1>4, <1>14, <1>18 DEF T

\* A draw is fair.
LEMMA DrawIsFair ==
    ASSUME NEW upper \in 1..WordValues
    PROVE  Cardinality(Uses([w \in Accepted(upper) |-> w % upper], 0..(upper - 1))) = 1
<1> DEFINE f == [w \in Accepted(upper) |-> w % upper]
<1>1. \A v \in 0..(upper - 1) : {x \in DOMAIN f : f[x] = v} = {w \in Accepted(upper) : w % upper = v}
  OBVIOUS
<1>2. \A v \in 0..(upper - 1) : Cardinality({x \in DOMAIN f : f[x] = v}) = WordValues \div upper
  BY <1>1, EachResidue
<1>3. 0 \in 0..(upper - 1)
  OBVIOUS
<1> HIDE DEF f
<1>4. Uses(f, 0..(upper - 1)) = {WordValues \div upper}
  BY <1>2, <1>3 DEF Uses
<1>5. Cardinality({WordValues \div upper}) = 1
  BY FS_Singleton
<1> QED
  BY <1>4, <1>5 DEF f

-----------------------------------------------------------------------------
(* A book shared out. *)

\* Numbers that leave one remainder are apart.
LEMMA RemainderApart ==
    ASSUME NEW by \in Nat, by > 0, NEW x \in Nat, NEW y \in Nat, x % by = y % by, x < y
    PROVE  y - x >= by
<1>1. x % by \in 0..(by - 1) /\ x \div by \in Nat /\ x = (x \div by) * by + (x % by)
  BY Division
<1>2. y \div by \in Nat /\ y = (y \div by) * by + (y % by)
  BY Division
<1>3. PICK a \in Nat, b \in Nat, v \in 0..(by - 1) : x = a * by + v /\ y = b * by + v
  BY <1>1, <1>2
<1>4. PICK p \in Nat, q \in Nat : p = a * by /\ q = b * by
  BY ProductIs
<1>5. a < b
  <2> SUFFICES ASSUME a >= b PROVE FALSE
    OBVIOUS
  <2>1. by * a >= b * by
    BY ProductGrows
  <2>2. by * a = p
    BY <1>4
  <2> QED
    BY <1>3, <1>4, <2>1, <2>2
<1>6. PICK next \in Nat : next = a + 1 /\ b >= next
  BY <1>5
<1>7. by * b >= next * by
  BY <1>6, ProductGrows
<1>8. by * b = q /\ (a + 1) * by = p + by
  BY <1>4
<1>9. q >= p + by
  BY <1>6, <1>7, <1>8
<1> QED
  BY <1>3, <1>4, <1>9

\* How far back a remainder u is from a remainder v.
Back(u, v, by) == IF v >= u THEN v - u ELSE v - u + by

LEMMA RemainderBack ==
    ASSUME NEW by \in Nat, by > 0, NEW u \in 0..(by - 1), NEW v \in 0..(by - 1), NEW x \in Nat, x % by = v
    PROVE  /\ Back(u, v, by) \in 0..(by - 1)
           /\ x >= Back(u, v, by) => (x - Back(u, v, by)) % by = u
<1>1. Back(u, v, by) \in 0..(by - 1)
  BY DEF Back
<1>2. x \div by \in Nat /\ x = (x \div by) * by + (x % by)
  BY Division
<1>3. PICK a \in Nat : x = a * by + v
  BY <1>2
<1>4. PICK p \in Nat : p = a * by
  BY ProductIs
<1>5. CASE v >= u
  <2>1. x - Back(u, v, by) = a * by + u
    BY <1>3, <1>4, <1>5 DEF Back
  <2>2. (a * by + u) % by = u
    BY Divided
  <2> QED
    BY <1>1, <2>1, <2>2
<1>6. ASSUME v < u, x >= Back(u, v, by) PROVE (x - Back(u, v, by)) % by = u
  <2>1. x >= v - u + by
    BY <1>6 DEF Back
  <2>2. a # 0
    <3> SUFFICES ASSUME a = 0 PROVE FALSE
      OBVIOUS
    <3>1. a * by = 0
      OBVIOUS
    <3> QED
      BY <1>3, <2>1, <3>1
  <2>3. PICK b \in Nat : b = a - 1 /\ a = b + 1
    BY <2>2
  <2>4. PICK q \in Nat : q = b * by
    BY ProductIs
  <2>5. (b + 1) * by = q + by
    BY <2>4
  <2>6. p = q + by
    BY <1>4, <2>3, <2>5
  <2>7. x - Back(u, v, by) = q + u
    BY <1>3, <1>4, <1>6, <2>6 DEF Back
  <2>8. (b * by + u) % by = u
    BY Divided
  <2> QED
    BY <2>4, <2>7, <2>8
<1> QED
  BY <1>1, <1>5, <1>6

\* The place in a book of `by` openings an encounter's is at, and the
\* encounters of one place.
PlaceFor(start, by, e) == (start + e - 1) % by
PlacedAt(start, by, n, v) == {e \in 1..n : PlaceFor(start, by, e) = v}

LEMMA PlaceForIs ==
    ASSUME NEW n \in Nat, NEW by \in Nat, by > 0, NEW start \in Nat, NEW e \in 1..n
    PROVE  start + e - 1 \in Nat /\ PlaceFor(start, by, e) \in 0..(by - 1)
<1>1. PICK x \in Nat : x = start + e - 1
  OBVIOUS
<1>2. x % by \in 0..(by - 1)
  BY Division
<1> QED
  BY <1>1, <1>2 DEF PlaceFor

LEMMA PlacedAtIs ==
    ASSUME NEW n \in Nat, NEW by, NEW start, NEW v
    PROVE  /\ IsFiniteSet(PlacedAt(start, by, n, v)) /\ Cardinality(PlacedAt(start, by, n, v)) \in Nat
           /\ PlacedAt(start, by, n, v) \in SUBSET (1..n)
<1>1. IsFiniteSet(1..n)
  BY FS_Interval
<1>2. PlacedAt(start, by, n, v) \in SUBSET (1..n)
  BY DEF PlacedAt
<1>3. IsFiniteSet(PlacedAt(start, by, n, v))
  BY <1>1, <1>2, FS_Subset
<1> QED
  BY <1>2, <1>3, FS_CardinalityType

\* No place has two encounters more than another.
LEMMA PlacesAreEven ==
    ASSUME NEW n \in Nat, NEW by \in Nat, by > 0, NEW start \in Nat,
           NEW u \in 0..(by - 1), NEW v \in 0..(by - 1)
    PROVE  Cardinality(PlacedAt(start, by, n, v)) <= Cardinality(PlacedAt(start, by, n, u)) + 1
<1>1. PICK V : V = PlacedAt(start, by, n, v)
  OBVIOUS
<1>2. PICK U : U = PlacedAt(start, by, n, u)
  OBVIOUS
<1>3. IsFiniteSet(V) /\ Cardinality(V) \in Nat /\ V \in SUBSET (1..n)
  BY <1>1, PlacedAtIs
<1>4. IsFiniteSet(U) /\ Cardinality(U) \in Nat /\ U \in SUBSET (1..n)
  BY <1>2, PlacedAtIs
<1>5. CASE V = {}
  <2>1. Cardinality(V) = 0
    BY <1>5, FS_EmptySet
  <2> QED
    BY <1>1, <1>2, <1>4, <2>1
<1>6. CASE V # {}
  <2>1. V \in SUBSET Nat
    BY <1>3
  <2>2. PICK low \in V : \A e \in V : low <= e
    BY <1>6, <2>1, LeastNumber
  <2>3. PICK d : d = Back(u, v, by)
    OBVIOUS
  <2>4. d \in 0..(by - 1)
    BY <2>3 DEF Back
  <2>5. ASSUME NEW e \in V \ {low} PROVE e - d \in U
    <3>1. e \in 1..n /\ low \in 1..n /\ low < e
      BY <1>3, <2>2, <2>5
    <3>2. PICK x \in Nat : x = start + e - 1
      BY <3>1
    <3>3. PICK y \in Nat : y = start + low - 1
      BY <3>1
    <3>4. x % by = v /\ y % by = v
      BY <1>1, <2>2, <2>5, <3>2, <3>3 DEF PlacedAt, PlaceFor
    <3>5. y < x
      BY <3>1, <3>2, <3>3
    <3>6. x - y >= by
      BY <3>4, <3>5, RemainderApart
    <3>7. x >= d /\ e - d \in 1..n /\ start + (e - d) - 1 = x - d
      BY <2>4, <3>1, <3>2, <3>3, <3>6
    <3>8. (x - d) % by = u
      BY <2>3, <3>4, <3>7, RemainderBack
    <3> QED
      BY <1>2, <3>7, <3>8 DEF PlacedAt, PlaceFor
  <2> DEFINE f == [e \in V \ {low} |-> e - d]
  <2>6. f \in [V \ {low} -> U]
    BY <2>5
  <2>7. \A e, k \in V \ {low} : f[e] = f[k] => e = k
    <3> SUFFICES ASSUME NEW e \in V \ {low}, NEW k \in V \ {low}, f[e] = f[k] PROVE e = k
      OBVIOUS
    <3>1. e \in Int /\ k \in Int /\ d \in Int /\ e - d = k - d
      BY <2>1, <2>4
    <3> QED
      BY <3>1
  <2> HIDE DEF f
  <2>8. f \in Injection(V \ {low}, U)
    BY <2>6, <2>7 DEF Injection, IsInjective
  <2>9. Cardinality(V \ {low}) <= Cardinality(U)
    BY <1>4, <2>8, FS_Injection
  <2>10. Cardinality(V \ {low}) = Cardinality(V) - 1
    BY <1>3, <2>2, FS_RemoveElement
  <2> QED
    BY <1>1, <1>2, <1>3, <1>4, <2>9, <2>10
<1> QED
  BY <1>5, <1>6

\* Where the encounters do not reach the end of the book none is repeated.
LEMMA PlacesAreOwn ==
    ASSUME NEW n \in Nat, NEW by \in Nat, by > 0, NEW start \in Nat, start < by, n <= by - start,
           NEW v
    PROVE  Cardinality(PlacedAt(start, by, n, v)) \in {0, 1}
<1>1. \A e \in 1..n : PlaceFor(start, by, e) = start + e - 1
  <2> SUFFICES ASSUME NEW e \in 1..n PROVE PlaceFor(start, by, e) = start + e - 1
    OBVIOUS
  <2>1. PICK x \in Nat : x = start + e - 1
    OBVIOUS
  <2>2. x \in 0..(by - 1)
    BY <2>1
  <2>3. x % by = x
    BY <2>2
  <2> QED
    BY <2>1, <2>3 DEF PlaceFor
<1>2. PICK V : V = PlacedAt(start, by, n, v)
  OBVIOUS
<1>3. CASE V = {}
  BY <1>2, <1>3, FS_EmptySet
<1>4. CASE V # {}
  <2>1. PICK e : e \in V
    BY <1>4
  <2>2. \A k \in V : k = e
    <3> SUFFICES ASSUME NEW k \in V PROVE k = e
      OBVIOUS
    <3>1. e \in 1..n /\ k \in 1..n /\ PlaceFor(start, by, e) = PlaceFor(start, by, k)
      BY <1>2, <2>1 DEF PlacedAt
    <3>2. start + e - 1 = start + k - 1
      BY <1>1, <3>1
    <3> QED
      BY <3>1, <3>2
  <2>3. V = {e}
    BY <2>1, <2>2
  <2> QED
    BY <1>2, <2>3, FS_Singleton
<1> QED
  BY <1>3, <1>4

\* The encounters behind the first of their places are as many as the places lack.
Again(start, by, n) ==
    {e \in 1..n : \E d \in 1..n : d < e /\ PlaceFor(start, by, d) = PlaceFor(start, by, e)}
PlacesOf(start, by, n) == {(start + k) % by : k \in 0..(n - 1)}

LEMMA AgainIs ==
    ASSUME NEW n \in Nat, NEW by \in Nat, by > 0, NEW start \in Nat
    PROVE  Cardinality(Again(start, by, n)) = n - Cardinality(PlacesOf(start, by, n))
<1> DEFINE A == Again(start, by, n)
           F == (1..n) \ A
           T == PlacesOf(start, by, n)
           f == [e \in F |-> PlaceFor(start, by, e)]
<1>1. IsFiniteSet(1..n) /\ Cardinality(1..n) = n
  BY FS_Interval
<1>2. A \in SUBSET (1..n)
  BY DEF Again
<1>3. IsFiniteSet(A) /\ Cardinality(A) \in Nat
  <2>1. IsFiniteSet(A)
    BY <1>1, <1>2, FS_Subset
  <2> QED
    BY <2>1, FS_CardinalityType
<1>4. IsFiniteSet(F) /\ Cardinality(F) = n - Cardinality(A)
  <2>1. (1..n) \cap A = A
    BY <1>2
  <2> HIDE DEF A
  <2>2. IsFiniteSet((1..n) \ A) /\ Cardinality((1..n) \ A) = Cardinality(1..n) - Cardinality((1..n) \cap A)
    BY <1>1, FS_Difference
  <2> QED
    BY <1>1, <2>1, <2>2
<1>5. \A e \in 1..n : e - 1 \in 0..(n - 1) /\ start + (e - 1) = start + e - 1
  OBVIOUS
<1>6. f \in [F -> T]
  <2>1. ASSUME NEW e \in F PROVE PlaceFor(start, by, e) \in T
    <3>1. PICK k \in 0..(n - 1) : k = e - 1 /\ start + k = start + e - 1
      BY <1>5
    <3>2. PlaceFor(start, by, e) = (start + k) % by
      BY <3>1 DEF PlaceFor
    <3> QED
      BY <3>2 DEF PlacesOf
  <2> QED
    BY <2>1
<1>7. \A e, k \in F : f[e] = f[k] => e = k
  <2> SUFFICES ASSUME NEW e \in F, NEW k \in F, f[e] = f[k], e # k PROVE FALSE
    OBVIOUS
  <2>1. e \in 1..n /\ k \in 1..n /\ (e < k \/ k < e) /\ PlaceFor(start, by, e) = PlaceFor(start, by, k)
    OBVIOUS
  <2>2. e \in A \/ k \in A
    BY <2>1 DEF Again
  <2> QED
    BY <2>2
<1>8. ASSUME NEW v \in T PROVE \E e \in F : f[e] = v
  <2>1. PICK k \in 0..(n - 1) : v = (start + k) % by
    BY DEF PlacesOf
  <2>2. k + 1 \in 1..n /\ start + (k + 1) - 1 = start + k
    OBVIOUS
  <2>3. k + 1 \in PlacedAt(start, by, n, v)
    BY <2>1, <2>2 DEF PlacedAt, PlaceFor
  <2>4. PlacedAt(start, by, n, v) \in SUBSET Nat
    BY PlacedAtIs
  <2>5. PICK e \in PlacedAt(start, by, n, v) : \A m \in PlacedAt(start, by, n, v) : e <= m
    BY <2>3, <2>4, LeastNumber
  <2>6. e \in 1..n /\ PlaceFor(start, by, e) = v
    BY <2>5 DEF PlacedAt
  <2>7. e \notin A
    <3> SUFFICES ASSUME e \in A PROVE FALSE
      OBVIOUS
    <3>1. PICK d \in 1..n : d < e /\ PlaceFor(start, by, d) = v
      BY <2>6 DEF Again
    <3>2. d \in PlacedAt(start, by, n, v)
      BY <3>1 DEF PlacedAt
    <3>3. e <= d
      BY <2>5, <3>2
    <3> QED
      BY <2>6, <3>1, <3>3
  <2> QED
    BY <2>6, <2>7
<1> HIDE DEF f, F, A, T
<1>9. Cardinality(T) = Cardinality(F)
  BY <1>4, <1>6, <1>7, <1>8, SameSize
<1> QED
  BY <1>3, <1>4, <1>9 DEF A, T

-----------------------------------------------------------------------------
(* The list of a book. *)

\* The places of what a condition keeps of a list.
LEMMA PickedFrom ==
    ASSUME NEW list, Listed(list), NEW places \in SUBSET (DOMAIN list)
    PROVE  Listed(Picked(list, places)) /\ Len(Picked(list, places)) = Cardinality(places)
<1>1. list \in Seq(Elements(list))
  BY DEF Listed
<1>2. Picked(list, places) \in Seq(Elements(list)) /\ Len(Picked(list, places)) = Cardinality(places)
  BY <1>1, PickedIs
<1> QED
  BY <1>2, SequenceIsListed

\* A function on the places of a list is one.
LEMMA ListOver ==
    ASSUME NEW n \in Nat, NEW f, f = [k \in 1..n |-> f[k]]
    PROVE  Listed(f) /\ Len(f) = n /\ DOMAIN f = 1..n
<1>1. DOMAIN f = 1..n
  OBVIOUS
<1>2. f \in [1..n -> Elements(f)]
  BY <1>1 DEF Elements
<1>3. f \in Seq(Elements(f))
  BY <1>2
<1>4. Len(f) = n
  BY <1>2, <1>3, LenProperties
<1> QED
  BY <1>1, <1>3, <1>4 DEF Listed

LEMMA SplitIsListed ==
    ASSUME NEW C, NEW lines \in Seq(C)
    PROVE  Listed(SplitPgnGames(lines))
<1>1. Len(lines) \in Nat /\ DOMAIN lines = 1..Len(lines)
  BY LenProperties
<1> DEFINE InMoves(i) == \E k \in 1..(i - 1) :
               /\ lines[k] # "" /\ ~IsTag(lines[k])
               /\ \A j \in (k + 1)..(i - 1) : lines[j] = ""
           Starts(i) == IsTag(lines[i]) /\ InMoves(i)
           B == {1, Len(lines) + 1} \cup {i \in DOMAIN lines : Starts(i)}
           starts == InOrder(B)
           parts == [g \in 1..(Len(starts) - 1) |-> SubSeq(lines, starts[g], starts[g + 1] - 1)]
           NotBlank(game) == \E i \in DOMAIN game : game[i] # ""
           wanted == {g \in DOMAIN parts : NotBlank(parts[g])}
<1>2. SplitPgnGames(lines) = Picked(parts, wanted)
  BY DEF SplitPgnGames
<1> HIDE DEF Starts
<1>3. B \in SUBSET (1..(Len(lines) + 1)) /\ 1 \in B
  <2>1. PICK L \in Nat : L = Len(lines) /\ DOMAIN lines = 1..L
    BY <1>1
  <2>2. \A i \in B : i \in 1..(L + 1)
    BY <2>1
  <2> QED
    BY <2>1, <2>2
<1> HIDE DEF B
<1>4. IsFiniteSet(B) /\ B \in SUBSET Int
  <2>1. PICK D : D = 1..(Len(lines) + 1)
    OBVIOUS
  <2>2. IsFiniteSet(D) /\ B \in SUBSET D
    BY <1>1, <1>3, <2>1, FS_Interval
  <2>3. IsFiniteSet(B)
    BY <2>2, FS_Subset
  <2> QED
    BY <1>1, <1>3, <2>3
<1>5. PICK c \in Nat : c = Cardinality(B)
  BY <1>4, FS_CardinalityType
<1>6. c # 0
  BY <1>3, <1>4, <1>5, FS_EmptySet
<1>7. Len(starts) = c
  <2>1. starts \in [1..c -> B]
    BY <1>4, <1>5, InOrderIs
  <2> HIDE DEF starts
  <2>2. starts \in Seq(B)
    BY <2>1
  <2> QED
    BY <2>1, <2>2, LenProperties
<1> HIDE DEF starts
<1>8. PICK n \in Nat : n = Len(starts) - 1
  BY <1>6, <1>7
<1>9. parts = [g \in 1..n |-> parts[g]]
  BY <1>8
<1>10. wanted \in SUBSET (DOMAIN parts)
  OBVIOUS
<1> HIDE DEF parts, wanted
<1>11. Listed(parts)
  BY <1>9, ListOver
<1> QED
  BY <1>2, <1>10, <1>11, PickedFrom

LEMMA PgnIs ==
    ASSUME NEW C, NEW lines \in Seq(C), NEW plies
    PROVE  /\ Listed(ParsePgn(lines, plies))
           /\ Len(ParsePgn(lines, plies)) =
                 Cardinality({g \in DOMAIN SplitPgnGames(lines) :
                                 ParsePgnGame(SplitPgnGames(lines)[g], plies) # << >>})
<1>1. PICK parts : parts = SplitPgnGames(lines) /\ Listed(parts)
  BY SplitIsListed
<1>2. PICK n \in Nat : n = Len(parts) /\ DOMAIN parts = 1..n
  BY <1>1, ListIs
<1> DEFINE found == [g \in DOMAIN parts |-> ParsePgnGame(parts[g], plies)]
           wanted == {g \in DOMAIN parts : found[g] # << >>}
<1>3. ParsePgn(lines, plies) = Picked(found, wanted)
  BY <1>1 DEF ParsePgn
<1>4. wanted = {g \in DOMAIN parts : ParsePgnGame(parts[g], plies) # << >>}
  OBVIOUS
<1>5. found = [g \in 1..n |-> found[g]] /\ wanted \in SUBSET (DOMAIN found)
  BY <1>2
<1> HIDE DEF found, wanted
<1>6. Listed(found)
  BY <1>5, ListOver
<1>7. Listed(Picked(found, wanted)) /\ Len(Picked(found, wanted)) = Cardinality(wanted)
  BY <1>5, <1>6, PickedFrom
<1> QED
  BY <1>1, <1>3, <1>4, <1>7

\* Whoever reads the file finds one list, of as many openings as are usable.
LEMMA BookIs ==
    ASSUME NEW b, IsBook(b)
    PROVE  /\ b.text \in Seq(STRING) /\ IsGenerator(b.words)
           /\ b.start \in Nat /\ b.wrap \in BOOLEAN
           /\ b.format \in {"none", "epd", "pgn"} /\ b.order \in {"sequential", "random"}
           /\ Len(InFile(b, 1)) <= WordValues
           /\ [b EXCEPT !.order = "sequential"].format = b.format
           /\ [b EXCEPT !.order = "sequential"].text = b.text
           /\ [b EXCEPT !.order = "sequential"].plies = b.plies
           /\ [b EXCEPT !.order = "sequential"].order = "sequential"
<1>1. b \in OpeningBook
  BY DEF IsBook
<1>2. /\ b.text \in Seq(STRING) /\ b.words \in Seq(0..(WordValues - 1))
      /\ b.start \in Nat /\ b.wrap \in BOOLEAN
      /\ b.format \in {"none", "epd", "pgn"} /\ b.order \in {"sequential", "random"}
  BY <1>1 DEF OpeningBook
<1>3. /\ [b EXCEPT !.order = "sequential"].format = b.format
      /\ [b EXCEPT !.order = "sequential"].text = b.text
      /\ [b EXCEPT !.order = "sequential"].plies = b.plies
      /\ [b EXCEPT !.order = "sequential"].order = "sequential"
  BY <1>1 DEF OpeningBook
<1>4. IsGenerator(b.words)
  BY <1>2 DEF IsBook, IsGenerator
<1> QED
  BY <1>2, <1>3, <1>4 DEF IsBook

LEMMA FileIs ==
    ASSUME NEW b, IsBook(b), b.format # "none", NEW threads \in Nat \ {0}
    PROVE  /\ InFile(b, threads) = InFile(b, 1)
           /\ Listed(InFile(b, threads)) /\ Len(InFile(b, threads)) = Audit(b).usable
<1>1. b.text \in Seq(STRING) /\ b.format \in {"epd", "pgn"}
  BY BookIs
<1>2. CASE b.format = "epd"
  <2>1. ParseEpd(b.text, threads) = ParseEpdLines(b.text)
    BY <1>1, ChunksAreWhole
  <2>2. ParseEpd(b.text, 1) = ParseEpdLines(b.text)
    BY DEF ParseEpd
  <2>3. ParseEpdLines(b.text) \in Seq(Seq(STRING))
    <3>1. UsableIn(b.text) \in SUBSET (DOMAIN b.text)
      BY DEF UsableIn
    <3>2. LinesAt(b.text, UsableIn(b.text)) \in Seq(Seq(STRING))
      BY <1>1, <3>1, LinesAtIs
    <3> QED
      BY <3>2 DEF ParseEpdLines, LinesAt, UsableIn
  <2>4. Listed(ParseEpdLines(b.text))
    BY <2>3, SequenceIsListed
  <2>5. Audit(b).usable = Len(ParseEpdLines(b.text))
    BY <1>2 DEF Audit
  <2> QED
    BY <1>2, <2>1, <2>2, <2>4, <2>5 DEF InFile
<1>3. CASE b.format = "pgn"
  <2>1. PICK parts : parts = SplitPgnGames(b.text)
    OBVIOUS
  <2>2. PICK plies : plies = b.plies
    OBVIOUS
  <2>3. /\ Listed(ParsePgn(b.text, plies))
        /\ Len(ParsePgn(b.text, plies)) =
              Cardinality({g \in DOMAIN parts : ParsePgnGame(parts[g], plies) # << >>})
    BY <1>1, <2>1, PgnIs
  <2>4. Audit(b).usable = Cardinality({g \in DOMAIN parts : ParsePgnGame(parts[g], plies) # << >>})
    BY <1>3, <2>1, <2>2 DEF Audit
  <2> QED
    BY <1>3, <2>2, <2>3, <2>4 DEF InFile
<1> QED
  BY <1>1, <1>2, <1>3

\* The list a schedule gets: the file's, or the file's shuffled.
LEMMA LoadedIs ==
    ASSUME NEW b, IsBook(b), b.format # "none"
    PROVE  /\ \A threads \in Nat \ {0} : LoadOpenings(b, threads) = LoadOpenings(b, 1)
           /\ LoadOpenings([b EXCEPT !.order = "sequential"], 1) = InFile(b, 1)
           /\ Listed(LoadOpenings(b, 1)) /\ Listed(InFile(b, 1))
           /\ Len(LoadOpenings(b, 1)) = Len(InFile(b, 1))
           /\ \A v : Count(LoadOpenings(b, 1), v) = Count(InFile(b, 1), v)
           /\ Len(InFile(b, 1)) = Audit(b).usable
<1>1. 1 \in Nat \ {0}
  OBVIOUS
<1>2. PICK list : list = InFile(b, 1)
  OBVIOUS
<1>3. Listed(list) /\ Len(list) = Audit(b).usable
  BY <1>1, <1>2, FileIs
<1>4. Len(list) \in Nat /\ Len(list) <= WordValues /\ IsGenerator(b.words)
  BY <1>2, <1>3, ListIs, BookIs
<1>5. \A threads \in Nat \ {0} : LoadOpenings(b, threads) = LoadOpenings(b, 1)
  <2> SUFFICES ASSUME NEW threads \in Nat \ {0}
               PROVE  LoadOpenings(b, threads) = LoadOpenings(b, 1)
    OBVIOUS
  <2>1. InFile(b, threads) = InFile(b, 1)
    BY FileIs
  <2> QED
    BY <2>1 DEF LoadOpenings
<1>6. LoadOpenings([b EXCEPT !.order = "sequential"], 1) = list
  <2>1. PICK other : other = [b EXCEPT !.order = "sequential"]
    OBVIOUS
  <2>2. other.format = b.format /\ other.text = b.text /\ other.plies = b.plies
        /\ other.order = "sequential"
    BY <2>1, BookIs
  <2>3. InFile(other, 1) = InFile(b, 1)
    BY <2>2 DEF InFile
  <2> QED
    BY <1>2, <2>1, <2>2, <2>3 DEF LoadOpenings
<1>7. PICK ordered : ordered = LoadOpenings(b, 1)
  OBVIOUS
<1>8. Listed(ordered) /\ Len(ordered) = Len(list) /\ \A v : Count(ordered, v) = Count(list, v)
  <2>1. CASE b.order = "random" /\ list # << >>
    <3>1. ordered = Shuffled(list, b.words)
      BY <1>2, <1>7, <2>1 DEF LoadOpenings
    <3>2. PICK S : S = Elements(list) /\ list \in Seq(S)
      BY <1>3 DEF Listed
    <3>3. Len(list) # 0
      BY <2>1, <3>2, EmptySeq
    <3>4. Len(list) \in 1..WordValues
      BY <1>4, <3>3, WordAssumption
    <3>5. IsShuffled(ordered, S, list)
      BY <1>4, <3>1, <3>2, <3>4, ShuffledIs
    <3> QED
      BY <3>5, SequenceIsListed DEF IsShuffled
  <2>2. CASE ~(b.order = "random" /\ list # << >>)
    <3>1. ordered = list
      BY <1>2, <1>7, <2>2 DEF LoadOpenings
    <3> QED
      BY <1>3, <3>1
  <2> QED
    BY <2>1, <2>2
<1> QED
  BY <1>2, <1>3, <1>5, <1>6, <1>7, <1>8

\* Whatever a book's text, order and words, the list it gives is faithful to it.
LEMMA BookIsFaithful ==
    ASSUME NEW b, IsBook(b), NEW threads \in SUBSET (Nat \ {0})
    PROVE  IsFaithful(b, threads)
<1> SUFFICES ASSUME b.format # "none" PROVE IsFaithful(b, threads)
  BY DEF IsFaithful
<1>1. PICK list, ordered : /\ list = LoadOpenings([b EXCEPT !.order = "sequential"], 1)
                           /\ ordered = LoadOpenings(b, 1)
  OBVIOUS
<1>2. /\ \A t \in Nat \ {0} : LoadOpenings(b, t) = ordered
      /\ list = InFile(b, 1) /\ Listed(list) /\ Len(ordered) = Len(list)
      /\ \A v : Count(ordered, v) = Count(list, v)
      /\ Len(list) = Audit(b).usable
  BY <1>1, LoadedIs
<1>3. \A t \in threads : LoadOpenings(b, t) = ordered
  BY <1>2
<1>4. \A v : Uses(ordered, {v}) = Uses(list, {v})
  <2> SUFFICES ASSUME NEW v PROVE Uses(ordered, {v}) = Uses(list, {v})
    OBVIOUS
  <2>1. Uses(ordered, {v}) = {Count(ordered, v)} /\ Uses(list, {v}) = {Count(list, v)}
    BY DEF Uses, Count
  <2> QED
    BY <1>2, <2>1
<1>5. Len(list) \in Nat /\ Len(list) <= WordValues
  BY <1>2, ListIs, BookIs
<1>6. \A upper \in 2..Len(list) :
         Cardinality(Uses([w \in Accepted(upper) |-> w % upper], 0..(upper - 1))) = 1
  <2> SUFFICES ASSUME NEW upper \in 2..Len(list)
               PROVE  Cardinality(Uses([w \in Accepted(upper) |-> w % upper], 0..(upper - 1))) = 1
    OBVIOUS
  <2>1. upper \in 1..WordValues
    BY <1>5, WordAssumption
  <2> QED
    BY <2>1, DrawIsFair
<1> QED
  BY <1>1, <1>2, <1>3, <1>4, <1>6 DEF IsFaithful

-----------------------------------------------------------------------------
(* What a schedule gets of a book. *)

\* What a schedule gets does not depend on who reads the book.
LEMMA ResolvedIs ==
    ASSUME NEW b, IsBook(b), NEW n, NEW threads \in Nat \ {0}
    PROVE  ResolveOpenings(b, n, threads) = ResolveOpenings(b, n, 1)
<1>1. CASE b.format = "none"
  BY <1>1 DEF ResolveOpenings
<1>2. CASE b.format # "none"
  <2>1. LoadOpenings(b, threads) = LoadOpenings(b, 1)
    BY <1>2, LoadedIs
  <2> QED
    BY <2>1 DEF ResolveOpenings
<1> QED
  BY <1>1, <1>2

\* Openings that start within the book, and fit it where it is not used again.
Fitting(b, n, entries, by) ==
    /\ by \in Nat /\ by > 0 /\ b.start < by
    /\ b.wrap \/ n <= by - b.start
    /\ ResolveOpenings(b, n, 1) =
          [ok |-> TRUE, entries |-> entries, start |-> b.start,
           reused |-> n - Cardinality(PlacesOf(b.start, by, n))]

LEMMA ResolvedFits ==
    ASSUME NEW b, IsBook(b), NEW n \in Nat, ResolveOpenings(b, n, 1).entries # << >>
    PROVE  \E entries, by : by = Len(entries) /\ Fitting(b, n, entries, by)
<1>1. PICK entries, by : entries = LoadOpenings(b, 1) /\ by = Len(entries)
  OBVIOUS
<1>2. /\ b.format # "none" /\ ~(b.start >= by) /\ ~(~b.wrap /\ n > by - b.start)
      /\ ResolveOpenings(b, n, 1) =
            [ok |-> TRUE, entries |-> entries, start |-> b.start,
             reused |-> n - Cardinality({(b.start + k) % by : k \in 0..(n - 1)})]
  BY <1>1 DEF ResolveOpenings
<1>3. by \in Nat
  BY <1>1, <1>2, LoadedIs, ListIs
<1>4. b.start \in Nat /\ b.wrap \in BOOLEAN
  BY BookIs
<1>5. by > 0 /\ b.start < by /\ (b.wrap \/ n <= by - b.start)
  BY <1>2, <1>3, <1>4
<1> QED
  BY <1>1, <1>2, <1>3, <1>5 DEF Fitting, PlacesOf

LEMMA BookIsSharedOut ==
    ASSUME NEW b, IsBook(b), NEW n \in Nat
    PROVE  IsSharedOut(ResolveOpenings(b, n, 1), 1..n, b.wrap)
<1>1. PICK given : given = ResolveOpenings(b, n, 1)
  OBVIOUS
<1> SUFFICES ASSUME given.entries # << >> PROVE IsSharedOut(given, 1..n, b.wrap)
  BY <1>1 DEF IsSharedOut
<1>2. PICK entries, by : by = Len(entries) /\ Fitting(b, n, entries, by)
  BY <1>1, ResolvedFits
<1>3. PICK start \in Nat : start = b.start
  BY BookIs
<1>4. /\ by \in Nat /\ by > 0 /\ start < by /\ (b.wrap \/ n <= by - start)
      /\ given.entries = entries /\ given.start = start
      /\ given.reused = n - Cardinality(PlacesOf(start, by, n))
  BY <1>1, <1>2, <1>3 DEF Fitting
<1> DEFINE used == [e \in 1..n |-> BookIndex(given, e)]
<1>5. used = [e \in 1..n |-> PlaceFor(start, by, e)]
  BY <1>2, <1>4 DEF BookIndex, PlaceFor
<1> HIDE DEF used
<1>6. \A v : {x \in DOMAIN used : used[x] = v} = PlacedAt(start, by, n, v)
  BY <1>5 DEF PlacedAt
<1>7. Uses(used, 0..(by - 1)) = {Cardinality(PlacedAt(start, by, n, v)) : v \in 0..(by - 1)}
  BY <1>6 DEF Uses
<1>8. \A k, m \in Uses(used, 0..(by - 1)) : k <= m + 1
  <2> SUFFICES ASSUME NEW k \in Uses(used, 0..(by - 1)), NEW m \in Uses(used, 0..(by - 1))
               PROVE  k <= m + 1
    OBVIOUS
  <2>1. PICK v \in 0..(by - 1) : k = Cardinality(PlacedAt(start, by, n, v))
    BY <1>7
  <2>2. PICK u \in 0..(by - 1) : m = Cardinality(PlacedAt(start, by, n, u))
    BY <1>7
  <2> QED
    BY <1>4, <2>1, <2>2, PlacesAreEven
<1>9. ASSUME ~b.wrap PROVE Uses(used, 0..(by - 1)) \subseteq {0, 1}
  <2> SUFFICES ASSUME NEW k \in Uses(used, 0..(by - 1)) PROVE k \in {0, 1}
    OBVIOUS
  <2>1. PICK v \in 0..(by - 1) : k = Cardinality(PlacedAt(start, by, n, v))
    BY <1>7
  <2>2. n <= by - start
    BY <1>4, <1>9
  <2> QED
    BY <1>4, <2>1, <2>2, PlacesAreOwn
<1>10. given.reused = Cardinality({e \in 1..n : \E d \in 1..n : d < e /\ used[d] = used[e]})
  <2>1. {e \in 1..n : \E d \in 1..n : d < e /\ used[d] = used[e]} = Again(start, by, n)
    BY <1>5 DEF Again
  <2>2. Cardinality(Again(start, by, n)) = n - Cardinality(PlacesOf(start, by, n))
    BY <1>4, AgainIs
  <2> QED
    BY <1>4, <2>1, <2>2
<1> QED
  BY <1>2, <1>4, <1>8, <1>9, <1>10 DEF IsSharedOut, used

\* The opening an encounter gets is the one of the book at its index.
LEMMA OpeningIsIndexed ==
    ASSUME NEW b, IsBook(b), NEW n \in Nat, NEW e,
           ResolveOpenings(b, n, 1).entries # << >>
    PROVE  Assignment(SelectEncounter(ResolveOpenings(b, n, 1), e), 1)
             = ResolveOpenings(b, n, 1).entries[BookIndex(ResolveOpenings(b, n, 1), e) + 1]
<1>1. PICK all, by : Fitting(b, n, all, by)
  BY ResolvedFits
<1>2. PICK count : count = n - Cardinality(PlacesOf(b.start, by, n))
  OBVIOUS
<1>3. PICK resolved : resolved = ResolveOpenings(b, n, 1)
  OBVIOUS
<1>4. resolved = [ok |-> TRUE, entries |-> all, start |-> b.start, reused |-> count]
  BY <1>1, <1>2, <1>3 DEF Fitting
<1>5. PICK opening : opening = all[BookIndex(resolved, e) + 1]
  OBVIOUS
<1>6. SelectEncounter(resolved, e) = [ok |-> TRUE, entries |-> <<opening>>, start |-> 0, reused |-> count]
  <2>1. resolved.entries # << >> /\ resolved.entries = all
    BY <1>3, <1>4
  <2>2. SelectEncounter(resolved, e) =
          [resolved EXCEPT !.entries = <<resolved.entries[BookIndex(resolved, e) + 1]>>, !.start = 0]
    BY <2>1 DEF SelectEncounter
  <2> QED
    BY <1>4, <1>5, <2>1, <2>2
<1>7. Len(<<opening>>) = 1 /\ <<opening>>[1] = opening
  OBVIOUS
<1>8. (0 + ((1 - 1) \div 2)) % 1 = 0
  OBVIOUS
<1>9. Assignment(SelectEncounter(resolved, e), 1) = opening
  BY <1>6, <1>7, <1>8 DEF Assignment
<1> QED
  <2>1. resolved.entries = all
    BY <1>4
  <2>2. Assignment(SelectEncounter(resolved, e), 1) = resolved.entries[BookIndex(resolved, e) + 1]
    BY <1>5, <1>9, <2>1
  <2> QED
    BY <1>3, <2>2

\* The encounters of a plan are numbered.
LEMMA EncountersAre ==
    ASSUME NEW d, IsValid(d)
    PROVE  \E n \in Nat : {Schedule(d)[i].encounter : i \in DOMAIN Schedule(d)} = 1..n
<1>1. PICK s : s = Schedule(d)
  OBVIOUS
<1>2. PICK cycles, circle, by, total, each, turns :
          IsPlanned(d, s, cycles, circle, by, total, each, turns)
  BY <1>1, Planned
<1>3. PICK g \in Nat : g = d.games /\ g > 0
  BY DesignIs
<1>4. total \in Nat /\ IsPlan(s, total, g, turns)
  BY <1>2, <1>3 DEF IsPlanned
<1>5. ASSUME NEW i \in DOMAIN s PROVE s[i].encounter \in 1..total
  <2>1. PICK e \in 0..(total - 1), j \in 0..(g - 1) :
            i = e * g + j + 1 /\ s[i] = EntryOf(e, j, turns[e].round, turns[e].pair)
    BY <1>4, NumberAt
  <2>2. s[i].encounter = e + 1
    BY <2>1 DEF EntryOf
  <2> QED
    BY <1>4, <2>2
<1>6. ASSUME NEW x \in 1..total PROVE \E i \in DOMAIN s : s[i].encounter = x
  <2>1. PICK e \in 0..(total - 1) : x = e + 1
    BY <1>4
  <2>2. PICK j \in 0..(g - 1) : j = 0
    BY <1>3
  <2>3. /\ e * g + j + 1 \in DOMAIN s
        /\ s[e * g + j + 1] = EntryOf(e, j, turns[e].round, turns[e].pair)
    BY <1>4, EntryAt
  <2>4. s[e * g + j + 1].encounter = x
    BY <2>1, <2>3 DEF EntryOf
  <2> QED
    BY <2>3, <2>4
<1>7. {s[i].encounter : i \in DOMAIN s} = 1..total
  BY <1>5, <1>6
<1> QED
  BY <1>1, <1>4, <1>7

-----------------------------------------------------------------------------
(* The invariant. *)

NumbersOf(list) == {list[i].number : i \in DOMAIN list}
FaultsOf(list, kind) == {i \in DOMAIN list : list[i].fault = kind}

\* Games of the schedule, none of them twice.
Played(list) ==
    /\ Listed(list)
    /\ \A i \in DOMAIN list : /\ list[i].number \in Numbers
                              /\ list[i].white = schedule[list[i].number].white
                              /\ list[i].black = schedule[list[i].number].black
                              /\ list[i].scorable = (list[i].fault # "infrastructure")
    /\ \A i, k \in DOMAIN list : list[i].number = list[k].number => i = k

Begins(list, longer) == Len(list) <= Len(longer) /\ \A i \in DOMAIN list : list[i] = longer[i]

Worker == [number : Numbers, slot : Slots, phase : {"launched", "playing", "returned"},
           previous : [Color -> Int], reused : SUBSET Color,
           fault : {"none", "engine", "infrastructure"}]

\* The plan is that of a design that `validate` lets through.
PlanInv ==
    /\ Listed(schedule) /\ Listed(execution)
    /\ \A n \in Numbers : /\ schedule[n].white \in Nat /\ schedule[n].black \in Nat
                          /\ schedule[n].white # schedule[n].black

\* What is written, and what the driver has of it.
FilesInv ==
    /\ pc \in {"down", "loop", "ended"}
    /\ Played(journal) /\ Listed(published.games) /\ Begins(published.games, journal)
    /\ games = IF pc = "down" THEN << >> ELSE journal
    /\ infrastructure => FaultsOf(games, "infrastructure") # {}
    /\ published.status = "infrastructure-error" =>
          FaultsOf(published.games, "infrastructure") # {}
    /\ published.status = "invalid" =>
          Cardinality(FaultsOf(published.games, "engine")) > MaxEngineFaults

\* What the loop holds.
LoopInv ==
    /\ workers \in SUBSET Worker /\ IsFiniteSet(workers)
    /\ pending \in SUBSET Numbers
    /\ pc # "loop" => workers = {}
    /\ pc = "loop" => Len(execution) > 0
    /\ EveryGameOnce

\* Two participants, or nobody yet.
Apart(side) ==
    /\ side \in [Color -> Int]
    /\ side # NoSides => (\A c \in Color : side[c] \in Nat) /\ side["white"] # side["black"]

\* What a slot keeps is, side by side, of those its last game was between.
Keeps(slot, side) ==
    \A c \in Color : stored[slot][c] \in {NoEngine, [of |-> side[c], on |-> CoresOf(slot)[c]]}

EnginesInv ==
    /\ DOMAIN stored = Slots /\ keptFrom \in [Slots -> [Color -> Int]]
    /\ \A s \in Slots : Apart(keptFrom[s]) /\ DOMAIN stored[s] = Color
    /\ \A w \in workers :
          /\ keptFrom[w.slot] = Side(w.number)
          /\ Apart(w.previous)
          /\ w.phase = "launched" => Keeps(w.slot, w.previous)
          /\ w.phase = "playing" => stored[w.slot] = NoEngines
    /\ \A s \in Slots :
          (\A w \in workers : w.slot = s => w.phase = "returned") => Keeps(s, keptFrom[s])

TournamentInv == PlanInv /\ FilesInv /\ LoopInv /\ EnginesInv

-----------------------------------------------------------------------------
(* Lists of games. *)

LEMMA PlayedGrows ==
    ASSUME NEW list, Played(list), NEW e, e.number \in Numbers,
           e.white = schedule[e.number].white, e.black = schedule[e.number].black,
           e.scorable = (e.fault # "infrastructure"), e.number \notin NumbersOf(list)
    PROVE  /\ Played(Append(list, e))
           /\ NumbersOf(Append(list, e)) = NumbersOf(list) \cup {e.number}
           /\ Begins(list, Append(list, e))
<1> DEFINE longer == Append(list, e)
           n == Len(list) + 1
<1>1. /\ Listed(longer) /\ Len(longer) = n /\ longer[n] = e
      /\ \A i \in 1..Len(list) : longer[i] = list[i]
  BY ListGrows DEF Played
<1>2. /\ Len(list) \in Nat /\ DOMAIN list = 1..Len(list) /\ DOMAIN longer = 1..n
      /\ DOMAIN longer = DOMAIN list \cup {n} /\ n \notin DOMAIN list
  BY <1>1, ListIs DEF Played
<1> HIDE DEF longer, n
<1>3. Begins(list, longer)
  BY <1>1, <1>2 DEF n, Begins
<1>4. NumbersOf(longer) = NumbersOf(list) \cup {e.number}
  <2>1. \A i \in DOMAIN list : longer[i].number = list[i].number /\ i \in DOMAIN longer
    BY <1>1, <1>2
  <2>2. longer[n].number = e.number /\ n \in DOMAIN longer
    BY <1>1, <1>2
  <2>3. \A i \in DOMAIN longer : i \in DOMAIN list \/ i = n
    BY <1>2
  <2> QED
    BY <2>1, <2>2, <2>3, Zenon DEF NumbersOf
<1>5. Played(longer)
  <2>1. ASSUME NEW i \in DOMAIN longer
        PROVE  /\ longer[i].number \in Numbers
               /\ longer[i].white = schedule[longer[i].number].white
               /\ longer[i].black = schedule[longer[i].number].black
               /\ longer[i].scorable = (longer[i].fault # "infrastructure")
    <3>1. CASE i \in DOMAIN list
      <4>1. longer[i] = list[i]
        BY <1>1, <1>2, <3>1
      <4>2. /\ list[i].number \in Numbers
            /\ list[i].white = schedule[list[i].number].white
            /\ list[i].black = schedule[list[i].number].black
            /\ list[i].scorable = (list[i].fault # "infrastructure")
        BY <3>1 DEF Played
      <4> QED
        BY <4>1, <4>2
    <3>2. CASE i = n
      BY <1>1, <3>2
    <3> QED
      BY <1>2, <3>1, <3>2
  <2>2. ASSUME NEW i \in DOMAIN longer, NEW k \in DOMAIN longer,
               longer[i].number = longer[k].number
        PROVE  i = k
    <3>1. \A j \in DOMAIN list : longer[j] = list[j] /\ list[j].number # e.number
      BY <1>1, <1>2 DEF NumbersOf
    <3>2. CASE i \in DOMAIN list /\ k \in DOMAIN list
      BY <2>2, <3>1, <3>2 DEF Played
    <3>3. CASE i = n \/ k = n
      BY <1>1, <1>2, <2>2, <3>1, <3>3
    <3> QED
      BY <1>2, <3>2, <3>3
  <2> QED
    BY <1>1, <2>1, <2>2 DEF Played
<1> QED
  BY <1>3, <1>4, <1>5 DEF longer

LEMMA PlayedCut ==
    ASSUME NEW list, Played(list), NEW n \in 0..Len(list)
    PROVE  /\ Played(SubSeq(list, 1, n)) /\ Begins(SubSeq(list, 1, n), list)
           /\ Len(SubSeq(list, 1, n)) = n
<1> DEFINE cut == SubSeq(list, 1, n)
<1>1. /\ Listed(cut) /\ Len(cut) = n /\ \A i \in 1..n : cut[i] = list[i]
  BY ListCut DEF Played
<1>2. /\ Len(list) \in Nat /\ DOMAIN list = 1..Len(list) /\ DOMAIN cut = 1..n /\ n \in Nat
  BY <1>1, ListIs DEF Played
<1> HIDE DEF cut
<1>3. DOMAIN cut \subseteq DOMAIN list /\ \A i \in DOMAIN cut : cut[i] = list[i]
  BY <1>1, <1>2
<1>4. Played(cut)
  <2>1. ASSUME NEW i \in DOMAIN cut
        PROVE  /\ cut[i].number \in Numbers
               /\ cut[i].white = schedule[cut[i].number].white
               /\ cut[i].black = schedule[cut[i].number].black
               /\ cut[i].scorable = (cut[i].fault # "infrastructure")
    <3>1. i \in DOMAIN list /\ cut[i] = list[i]
      BY <1>3
    <3>2. /\ list[i].number \in Numbers
          /\ list[i].white = schedule[list[i].number].white
          /\ list[i].black = schedule[list[i].number].black
          /\ list[i].scorable = (list[i].fault # "infrastructure")
      BY <3>1 DEF Played
    <3> QED
      BY <3>1, <3>2
  <2>2. \A i, k \in DOMAIN cut : cut[i].number = cut[k].number => i = k
    BY <1>3 DEF Played
  <2> QED
    BY <1>1, <2>1, <2>2 DEF Played
<1>5. Begins(cut, list)
  BY <1>1, <1>2, <1>3 DEF Begins
<1> QED
  BY <1>1, <1>4, <1>5 DEF cut

LEMMA BeginsOn ==
    ASSUME NEW a, NEW b, NEW c, Listed(a), Listed(b), Listed(c), Begins(a, b),
           \/ Begins(b, c)
           \/ Begins(c, b) /\ Len(a) <= Len(c)
    PROVE  Begins(a, c)
<1>1. /\ Len(a) \in Nat /\ DOMAIN a = 1..Len(a)
      /\ Len(b) \in Nat /\ DOMAIN b = 1..Len(b)
      /\ Len(c) \in Nat /\ DOMAIN c = 1..Len(c)
  BY ListIs
<1> QED
  BY <1>1 DEF Begins

\* A longer list has no fewer faults.
LEMMA FaultsGrow ==
    ASSUME NEW list, NEW longer, Listed(list), Listed(longer), Begins(list, longer), NEW kind
    PROVE  /\ FaultsOf(list, kind) \subseteq FaultsOf(longer, kind)
           /\ Cardinality(FaultsOf(list, kind)) \in Nat
           /\ Cardinality(FaultsOf(longer, kind)) \in Nat
           /\ Cardinality(FaultsOf(list, kind)) <= Cardinality(FaultsOf(longer, kind))
<1>1. /\ Len(list) \in Nat /\ DOMAIN list = 1..Len(list)
      /\ Len(longer) \in Nat /\ DOMAIN longer = 1..Len(longer)
  BY ListIs
<1>2. FaultsOf(list, kind) \subseteq FaultsOf(longer, kind)
  BY <1>1 DEF FaultsOf, Begins
<1>3. IsFiniteSet(1..Len(longer))
  BY <1>1, FS_Interval
<1>4. FaultsOf(longer, kind) \subseteq 1..Len(longer)
  BY <1>1 DEF FaultsOf
<1>5. IsFiniteSet(FaultsOf(longer, kind))
  BY <1>3, <1>4, FS_Subset
<1>6. /\ IsFiniteSet(FaultsOf(list, kind))
      /\ Cardinality(FaultsOf(list, kind)) <= Cardinality(FaultsOf(longer, kind))
  BY <1>2, <1>5, FS_Subset
<1> QED
  BY <1>2, <1>5, <1>6, FS_CardinalityType

LEMMA FaultsAre ==
    ASSUME NEW list, Listed(list), NEW kind
    PROVE  /\ Cardinality(FaultsOf(list, kind)) \in Nat
           /\ Cardinality(FaultsOf(list, kind)) > 0 <=> FaultsOf(list, kind) # {}
<1>1. /\ Len(list) \in Nat /\ DOMAIN list = 1..Len(list)
  BY ListIs
<1>2. IsFiniteSet(1..Len(list))
  BY <1>1, FS_Interval
<1>3. FaultsOf(list, kind) \subseteq 1..Len(list)
  BY <1>1 DEF FaultsOf
<1>4. IsFiniteSet(FaultsOf(list, kind))
  BY <1>2, <1>3, FS_Subset
<1> QED
  BY <1>4, FS_CardinalityType, FS_EmptySet

-----------------------------------------------------------------------------
(* The plan. *)

LEMMA PlanInit == Init => PlanInv
<1> SUFFICES ASSUME Init PROVE PlanInv
  OBVIOUS
<1>1. PICK p \in Plans : design = p.design /\ request = p.request
  BY DEF Init
<1>2. /\ p.design \in Design
      /\ p.design.format = "gauntlet" => p.design.seeds \in 1..(p.design.participants - 1)
      /\ p.request.slots \in Nat
  BY PlanAssumption DEF IsRequest
<1>3. schedule = Schedule(p.design) /\ execution = Allocation(p.request).slots
  BY <1>1 DEF Init
<1>4. Listed(execution)
  BY <1>2, <1>3, AllocationIsListed
<1> QED
  BY <1>2, <1>3, <1>4, ScheduleIs DEF PlanInv, Numbers

\* No step touches the plan.
LEMMA PlanStays == [Next]_vars => UNCHANGED <<schedule, execution, request>>
<1> SUFFICES ASSUME [Next]_vars PROVE UNCHANGED <<schedule, execution, request>>
  OBVIOUS
<1>1. CASE LoopNext
  BY <1>1 DEF LoopNext, Launch, Join, EndLoop, Abandon, plan
<1>2. CASE JoinFails \/ WorkerNext \/ Interrupt \/ GraceExpires
  BY <1>2 DEF JoinFails, WorkerNext, TakeEngines, EndGame, Interrupt, GraceExpires, plan
<1>3. CASE Exit \/ Crash \/ Resume
  BY <1>3 DEF Exit, Crash, Resume, plan
<1>4. CASE UNCHANGED vars
  BY <1>4 DEF vars, plan
<1> QED
  BY <1>1, <1>2, <1>3, <1>4 DEF Next

-----------------------------------------------------------------------------
(* The files. *)

\* What a running invocation has recorded is the journal.
LEMMA GamesAre == ASSUME FilesInv, pc # "down" PROVE games = journal /\ Listed(games)
BY DEF FilesInv, Played

LEMMA FilesQuiet ==
    ASSUME FilesInv, schedule' = schedule, journal' = journal, published' = published,
           games' = games, pc' = pc, infrastructure' = infrastructure
    PROVE  FilesInv'
<1>1. Played(journal)'
  BY DEF FilesInv, Played, Numbers
<1> QED
  BY <1>1 DEF FilesInv

\* A game is committed, with a number that was in flight.
LEMMA FilesJoin ==
    ASSUME FilesInv, LoopInv, schedule' = schedule, Join
    PROVE  /\ FilesInv'
           /\ \E w \in workers : /\ w.phase = "returned" /\ workers' = workers \ {w}
                                 /\ NumbersOf(journal') = NumbersOf(journal) \cup {w.number}
                                 /\ Played(journal')
<1>1. PICK w \in workers :
        /\ workers' = workers \ {w} /\ w.phase = "returned"
        /\ infrastructure' = (infrastructure \/ w.fault = "infrastructure")
        /\ journal' = Append(journal, Report(w.number, w.fault))
        /\ games' = Append(games, Report(w.number, w.fault))
  BY DEF Join
<1>2. pc = "loop" /\ pc' = pc /\ published' = published
  BY DEF Join
<1> DEFINE e == Report(w.number, w.fault)
<1>3. /\ e.number = w.number /\ e.fault = w.fault
      /\ e.white = schedule[w.number].white /\ e.black = schedule[w.number].black
      /\ e.scorable = (w.fault # "infrastructure")
  BY DEF Report
<1> HIDE DEF e
<1>4. e.number \in Numbers /\ e.number \notin NumbersOf(journal)
  <2>1. w.number \in Numbers
    BY DEF LoopInv, Worker
  <2>2. w.number \notin NumbersOf(journal)
    BY <1>2 DEF LoopInv, EveryGameOnce, NumbersOf
  <2> QED
    BY <1>3, <2>1, <2>2
<1>5. games = journal /\ Listed(journal) /\ Played(journal)
  BY <1>2 DEF FilesInv, Played
<1>6. /\ Played(Append(journal, e)) /\ Begins(journal, Append(journal, e))
      /\ NumbersOf(Append(journal, e)) = NumbersOf(journal) \cup {e.number}
  BY <1>3, <1>4, <1>5, PlayedGrows
<1>7. journal' = Append(journal, e) /\ games' = journal'
  BY <1>1, <1>5 DEF e
<1>8. Played(journal') /\ Played(journal)'
  BY <1>6, <1>7 DEF Played, Numbers
<1>9. Begins(published.games, journal')
  BY <1>5, <1>6, <1>7, <1>8, BeginsOn DEF FilesInv, Played
<1>10. infrastructure' => FaultsOf(journal', "infrastructure") # {}
  <2>1. CASE infrastructure
    <3>1. FaultsOf(journal, "infrastructure") # {}
      BY <1>5, <2>1 DEF FilesInv
    <3>2. FaultsOf(journal, "infrastructure") \subseteq FaultsOf(journal', "infrastructure")
      BY <1>5, <1>6, <1>7, <1>8, FaultsGrow DEF Played
    <3> QED
      BY <3>1, <3>2
  <2>2. CASE w.fault = "infrastructure"
    <3>1. PICK i \in DOMAIN journal' : journal'[i] = e
      <4>1. /\ Len(journal') = Len(journal) + 1 /\ journal'[Len(journal) + 1] = e
            /\ Len(journal) \in Nat
        BY <1>5, <1>7, ListGrows, ListIs
      <4>2. DOMAIN journal' = 1..(Len(journal) + 1)
        BY <1>8, <4>1, ListIs DEF Played
      <4> QED
        BY <4>1, <4>2
    <3> QED
      BY <1>3, <2>2, <3>1 DEF FaultsOf
  <2> QED
    BY <1>1, <2>1, <2>2
<1>11. FilesInv'
  BY <1>2, <1>7, <1>8, <1>9, <1>10 DEF FilesInv
<1> QED
  BY <1>1, <1>3, <1>6, <1>7, <1>8, <1>11

\* What the report says of the games it is of.
LEMMA StatusIs ==
    ASSUME FilesInv, pc # "down", MaxEngineFaults \in Nat
    PROVE  /\ Status \in {"infrastructure-error", "invalid", "cancelled", "completed"}
           /\ Status = "infrastructure-error" <=> FaultsOf(games, "infrastructure") # {}
           /\ Cardinality(FaultsOf(games, "engine")) > MaxEngineFaults =>
                 Status \in {"infrastructure-error", "invalid"}
           /\ Status = "invalid" => Cardinality(FaultsOf(games, "engine")) > MaxEngineFaults
<1>1. Faults("infrastructure") > 0 <=> FaultsOf(games, "infrastructure") # {}
  BY GamesAre, FaultsAre DEF Faults, FaultsOf
<1>2. Faults("engine") = Cardinality(FaultsOf(games, "engine"))
  BY DEF Faults, FaultsOf
<1>3. infrastructure => FaultsOf(games, "infrastructure") # {}
  BY DEF FilesInv
<1> QED
  BY <1>1, <1>2, <1>3 DEF Status

LEMMA FilesReturn ==
    ASSUME FilesInv, schedule' = schedule, pc = "loop", journal' = journal, games' = games,
           infrastructure' = infrastructure, Returns("none") \/ Returns(Status)
    PROVE  FilesInv'
<1>1. pc' = "ended"
  BY DEF Returns
<1>2. Played(journal)'
  BY DEF FilesInv, Played, Numbers
<1>3. CASE published' = published
  BY <1>1, <1>2, <1>3 DEF FilesInv
<1>4. CASE published' = [status |-> Status, games |-> games]
  <2>1. games = journal /\ Listed(games)
    BY GamesAre
  <2>2. Begins(journal, journal)
    BY <2>1, ListIs DEF Begins
  <2>3. published'.status = Status /\ published'.games = games
    BY <1>4
  <2> QED
    BY <1>1, <1>2, <2>1, <2>2, <2>3, StatusIs, SizeAssumption DEF FilesInv
<1> QED
  BY <1>3, <1>4 DEF Returns

LEMMA FilesDown ==
    ASSUME FilesInv, schedule' = schedule, Exit \/ Crash
    PROVE  FilesInv'
<1>1. /\ pc' = "down" /\ games' = << >> /\ infrastructure' = FALSE /\ published' = published
  BY DEF Exit, Crash, Down, directory
<1>2. Played(journal') /\ Begins(published.games, journal')
  <2>1. CASE Exit
    BY <2>1 DEF Exit, directory, FilesInv
  <2>2. CASE Crash
    <3>1. PICK n \in Len(published.games)..Len(journal) : journal' = SubSeq(journal, 1, n)
      BY <2>2 DEF Crash
    <3>2. /\ Len(published.games) \in Nat /\ Len(journal) \in Nat /\ Played(journal)
          /\ Begins(published.games, journal) /\ Listed(published.games) /\ Listed(journal)
      BY ListIs DEF FilesInv, Played
    <3>3. n \in 0..Len(journal) /\ n >= Len(published.games)
      BY <3>2
    <3>4. Played(journal') /\ Begins(journal', journal) /\ Len(journal') = n
      BY <3>1, <3>2, <3>3, PlayedCut
    <3> QED
      BY <3>2, <3>3, <3>4, BeginsOn DEF Played
  <2> QED
    BY <2>1, <2>2
<1>3. Played(journal)'
  BY <1>2 DEF Played, Numbers
<1> QED
  BY <1>1, <1>2, <1>3 DEF FilesInv

LEMMA FilesStep ==
    ASSUME TournamentInv, [Next]_vars
    PROVE  FilesInv'
<1>1. FilesInv /\ LoopInv /\ schedule' = schedule
  BY PlanStays DEF TournamentInv
<1>2. CASE Join
  BY <1>1, <1>2, FilesJoin
<1>3. CASE Launch \/ WorkerNext \/ Interrupt \/ GraceExpires \/ UNCHANGED vars
  <2>1. /\ journal' = journal /\ published' = published /\ games' = games /\ pc' = pc
        /\ infrastructure' = infrastructure
    BY <1>3 DEF Launch, WorkerNext, TakeEngines, EndGame, Interrupt, GraceExpires, vars, directory, flags
  <2> QED
    BY <1>1, <2>1, FilesQuiet
<1>4. CASE EndLoop \/ Abandon \/ JoinFails
  <2>1. /\ pc = "loop" /\ journal' = journal /\ games' = games /\ infrastructure' = infrastructure
        /\ Returns("none") \/ Returns(Status)
    BY <1>4 DEF EndLoop, Abandon, JoinFails, flags
  <2> QED
    BY <1>1, <2>1, FilesReturn
<1>5. CASE Exit \/ Crash
  BY <1>1, <1>5, FilesDown
<1>6. CASE Resume
  <2>1. /\ journal' = journal /\ published' = published /\ pc' = "loop" /\ games' = journal
        /\ (infrastructure' <=> infrastructure) /\ pc = "down"
    BY <1>6 DEF Resume, directory, flags
  <2>2. ~infrastructure
    <3>1. FaultsOf(<< >>, "infrastructure") = {}
      BY NoList DEF FaultsOf
    <3> QED
      BY <1>1, <2>1, <3>1 DEF FilesInv
  <2>3. Played(journal)'
    BY <1>1, <2>1 DEF FilesInv, Played, Numbers
  <2> QED
    BY <1>1, <2>1, <2>2, <2>3 DEF FilesInv
<1> QED
  BY <1>2, <1>3, <1>4, <1>5, <1>6 DEF Next, LoopNext

-----------------------------------------------------------------------------
(* The loop. *)

\* Fewer games in flight than slots leave one free.
LEMMA FreeSlot ==
    ASSUME LoopInv, Listed(execution), Cardinality(workers) < Len(execution)
    PROVE  Least(Free) \in Slots /\ \A w \in workers : w.slot # Least(Free)
<1>1. /\ Len(execution) \in Nat /\ Slots = 1..Len(execution)
      /\ IsFiniteSet(workers) /\ workers \subseteq Worker
  BY ListIs DEF Slots, LoopInv
<1>2. Free # {}
  <2> SUFFICES ASSUME Free = {}
               PROVE  FALSE
    OBVIOUS
  <2> DEFINE slotOf == [w \in workers |-> w.slot]
  <2>1. slotOf \in Surjection(workers, Slots)
    <3>1. slotOf \in [workers -> Slots]
      BY <1>1 DEF Worker
    <3>2. \A s \in Slots : \E w \in workers : slotOf[w] = s
      BY DEF Free
    <3> QED
      BY <3>1, <3>2 DEF Surjection
  <2> HIDE DEF slotOf
  <2>2. Cardinality(Slots) <= Cardinality(workers)
    BY <1>1, <2>1, FS_Surjection
  <2>3. Cardinality(Slots) = Len(execution)
    <3>1. PICK n \in Nat : n = Len(execution)
      BY <1>1
    <3>2. Cardinality(1..n) = n
      BY FS_Interval
    <3> QED
      BY <1>1, <3>1, <3>2
  <2>4. Cardinality(workers) \in Nat
    BY <1>1, FS_CardinalityType
  <2> QED
    BY <1>1, <2>2, <2>3, <2>4
<1>3. Free \in SUBSET Nat
  BY <1>1 DEF Free
<1>4. Least(Free) \in Free
  BY <1>2, <1>3, LeastIs
<1> QED
  BY <1>4 DEF Free

\* What a launch does.
LEMMA LaunchIs ==
    ASSUME TournamentInv, Launch
    PROVE  \E w \in Worker :
              /\ w.number \in pending /\ (\A v \in workers : v.slot # w.slot)
              /\ w.phase = "launched" /\ w.previous = keptFrom[w.slot]
              /\ workers' = workers \cup {w} /\ pending' = pending \ {w.number}
              /\ keptFrom' = [keptFrom EXCEPT ![w.slot] = Side(w.number)]
<1> DEFINE number == Least(pending)
           slot == Least(Free)
           w == [number |-> number, slot |-> slot, phase |-> "launched",
                 previous |-> keptFrom[slot], reused |-> {}, fault |-> "none"]
<1>1. /\ workers' = workers \cup {w} /\ pending' = pending \ {number}
      /\ keptFrom' = [keptFrom EXCEPT ![slot] = Side(number)]
      /\ pending # {} /\ Cardinality(workers) < Len(execution)
  BY DEF Launch, CanLaunch
<1>2. slot \in Slots /\ \A v \in workers : v.slot # slot
  BY <1>1, FreeSlot DEF TournamentInv, PlanInv
<1>3. number \in pending /\ number \in Numbers
  <2>1. Numbers \subseteq Nat
    BY ListIs DEF TournamentInv, PlanInv, Numbers
  <2>2. pending \in SUBSET Numbers
    BY DEF TournamentInv, LoopInv
  <2> QED
    BY <1>1, <2>1, <2>2, LeastIs
<1> HIDE DEF number, slot
<1>4. keptFrom[slot] \in [Color -> Int]
  BY <1>2 DEF TournamentInv, EnginesInv
<1>5. w \in Worker
  BY <1>2, <1>3, <1>4 DEF Worker
<1>6. w.number = number /\ w.slot = slot /\ w.phase = "launched" /\ w.previous = keptFrom[slot]
  OBVIOUS
<1> HIDE DEF w
<1> QED
  BY <1>1, <1>2, <1>3, <1>5, <1>6

LEMMA LoopLaunch == ASSUME TournamentInv, schedule' = schedule, execution' = execution, Launch
                    PROVE  LoopInv'
<1>1. PICK w \in Worker :
        /\ w.number \in pending /\ (\A v \in workers : v.slot # w.slot)
        /\ workers' = workers \cup {w} /\ pending' = pending \ {w.number}
  BY LaunchIs
<1>2. pc = "loop" /\ pc' = pc /\ journal' = journal
  BY DEF Launch, directory
<1>3. Worker' = Worker /\ Numbers' = Numbers
  BY DEF Worker, Numbers, Slots
<1>4. workers' \subseteq Worker /\ IsFiniteSet(workers') /\ pending' \subseteq Numbers
  BY <1>1, FS_AddElement DEF TournamentInv, LoopInv
<1>5. /\ \A v \in workers : v.number # w.number
      /\ w.number \in Numbers /\ w.number \notin NumbersOf(journal)
  BY <1>1, <1>2 DEF TournamentInv, LoopInv, EveryGameOnce, NumbersOf, Worker
<1>6. EveryGameOnce'
  <2>1. \A i, k \in DOMAIN journal : journal[i].number = journal[k].number => i = k
    BY DEF TournamentInv, LoopInv, EveryGameOnce
  <2>2. \A v, x \in workers' : v # x => v.number # x.number /\ v.slot # x.slot
    BY <1>1, <1>5 DEF TournamentInv, LoopInv, EveryGameOnce
  <2> DEFINE inFlight == {v.number : v \in workers}
             played == {journal[i].number : i \in DOMAIN journal}
  <2>3. {v.number : v \in workers'} = inFlight \cup {w.number}
    BY <1>1
  <2>4. /\ Numbers = pending \cup inFlight \cup played
        /\ pending \cap inFlight = {} /\ pending \cap played = {} /\ inFlight \cap played = {}
    BY <1>2 DEF TournamentInv, LoopInv, EveryGameOnce
  <2>5. w.number \in pending /\ pending' = pending \ {w.number}
    BY <1>1
  <2> HIDE DEF inFlight, played
  <2>6. /\ Numbers = pending' \cup (inFlight \cup {w.number}) \cup played
        /\ pending' \cap (inFlight \cup {w.number}) = {} /\ pending' \cap played = {}
        /\ (inFlight \cup {w.number}) \cap played = {}
    BY <2>4, <2>5
  <2> QED
    BY <1>2, <1>3, <2>1, <2>2, <2>3, <2>6 DEF EveryGameOnce, played
<1>7. Len(execution)' = Len(execution)
  OBVIOUS
<1> QED
  BY <1>2, <1>3, <1>4, <1>6, <1>7 DEF TournamentInv, LoopInv

LEMMA LoopJoin ==
    ASSUME TournamentInv, schedule' = schedule, execution' = execution, Join
    PROVE  LoopInv'
<1>1. PICK w \in workers : /\ workers' = workers \ {w}
                           /\ NumbersOf(journal') = NumbersOf(journal) \cup {w.number}
                           /\ Played(journal')
  BY FilesJoin DEF TournamentInv
<1>2. pc = "loop" /\ pc' = pc /\ pending' = pending
  BY DEF Join
<1>3. Worker' = Worker /\ Numbers' = Numbers
  BY DEF Worker, Numbers, Slots
<1>4. workers' \subseteq Worker /\ IsFiniteSet(workers') /\ pending' \subseteq Numbers
  BY <1>1, <1>2, FS_RemoveElement DEF TournamentInv, LoopInv
<1>5. EveryGameOnce'
  <2>1. \A i, k \in DOMAIN journal' : journal'[i].number = journal'[k].number => i = k
    BY <1>1 DEF Played
  <2>2. \A v, x \in workers' : v # x => v.number # x.number /\ v.slot # x.slot
    BY <1>1 DEF TournamentInv, LoopInv, EveryGameOnce
  <2> DEFINE inFlight == {v.number : v \in workers}
             flying == {v.number : v \in workers'}
             played == NumbersOf(journal)
  <2>3. /\ flying \cup {w.number} = inFlight /\ w.number \notin flying
    BY <1>1 DEF TournamentInv, LoopInv, EveryGameOnce
  <2>4. /\ Numbers = pending \cup inFlight \cup played
        /\ pending \cap inFlight = {} /\ pending \cap played = {} /\ inFlight \cap played = {}
    BY <1>2 DEF TournamentInv, LoopInv, EveryGameOnce, NumbersOf
  <2> HIDE DEF inFlight, flying, played
  <2>5. /\ Numbers = pending \cup flying \cup (played \cup {w.number})
        /\ pending \cap flying = {} /\ pending \cap (played \cup {w.number}) = {}
        /\ flying \cap (played \cup {w.number}) = {}
    BY <2>3, <2>4
  <2>6. {journal'[i].number : i \in DOMAIN journal'} = played \cup {w.number}
    BY <1>1 DEF NumbersOf, played
  <2> QED
    BY <1>2, <1>3, <2>1, <2>2, <2>5, <2>6 DEF EveryGameOnce, flying
<1> QED
  BY <1>2, <1>3, <1>4, <1>5 DEF TournamentInv, LoopInv

\* A worker goes on with its number and its slot.
LEMMA LoopGoesOn ==
    ASSUME LoopInv, schedule' = schedule, execution' = execution, journal' = journal,
           pc' = pc, pending' = pending, NEW w \in workers, NEW x \in Worker,
           x.number = w.number, x.slot = w.slot, workers' = (workers \ {w}) \cup {x}
    PROVE  LoopInv'
<1>1. Worker' = Worker /\ Numbers' = Numbers
  BY DEF Worker, Numbers, Slots
<1>2. workers' \subseteq Worker /\ IsFiniteSet(workers')
  <2>1. IsFiniteSet(workers \ {w})
    BY FS_RemoveElement DEF LoopInv
  <2>2. IsFiniteSet((workers \ {w}) \cup {x})
    BY <2>1, FS_AddElement
  <2> QED
    BY <2>2 DEF LoopInv
<1>3. \A v, y \in workers : v # y => v.number # y.number /\ v.slot # y.slot
  BY DEF LoopInv, EveryGameOnce
<1>4. \A v, y \in workers' : v # y => v.number # y.number /\ v.slot # y.slot
  BY <1>3
<1>5. {v.number : v \in workers'} = {v.number : v \in workers}
  OBVIOUS
<1>6. EveryGameOnce'
  <2> DEFINE inFlight == {v.number : v \in workers}
             flying == {v.number : v \in workers'}
  <2>1. flying = inFlight
    BY <1>5
  <2>2. \A i, k \in DOMAIN journal : journal[i].number = journal[k].number => i = k
    BY DEF LoopInv, EveryGameOnce
  <2>3. pc = "loop" =>
          /\ Numbers = pending \cup inFlight \cup NumbersOf(journal)
          /\ pending \cap inFlight = {} /\ pending \cap NumbersOf(journal) = {}
          /\ inFlight \cap NumbersOf(journal) = {}
    BY DEF LoopInv, EveryGameOnce, NumbersOf
  <2> HIDE DEF inFlight
  <2>4. pc = "loop" =>
          /\ Numbers = pending \cup flying \cup NumbersOf(journal)
          /\ pending \cap flying = {} /\ pending \cap NumbersOf(journal) = {}
          /\ flying \cap NumbersOf(journal) = {}
    BY <2>1, <2>3
  <2> HIDE DEF flying
  <2>5. NumbersOf(journal') = NumbersOf(journal)
    OBVIOUS
  <2> QED
    BY <1>1, <1>4, <2>2, <2>4, <2>5 DEF EveryGameOnce, NumbersOf, flying
<1> QED
  BY <1>1, <1>2, <1>6 DEF LoopInv

\* Nothing is in flight.
LEMMA LoopEmpty ==
    ASSUME FilesInv', workers' = {}, pc' # "loop", pending' \in SUBSET Numbers'
    PROVE  LoopInv'
<1>1. IsFiniteSet(workers')
  BY FS_EmptySet
<1>2. EveryGameOnce'
  BY DEF FilesInv, Played, EveryGameOnce
<1> QED
  BY <1>1, <1>2 DEF LoopInv

LEMMA LoopResume ==
    ASSUME TournamentInv, schedule' = schedule, execution' = execution, Resume
    PROVE  LoopInv'
<1>1. /\ pc' = "loop" /\ pc = "down" /\ workers = {} /\ workers' = {} /\ journal' = journal
      /\ pending' = Numbers \ NumbersOf(journal) /\ execution # << >>
  BY DEF Resume, directory, TournamentInv, LoopInv, NumbersOf
<1>2. Len(execution') > 0
  <2>1. execution \in Seq(Elements(execution)) /\ Len(execution) \in Nat
    BY ListIs DEF TournamentInv, PlanInv, Listed
  <2>2. Len(execution) # 0
    BY <1>1, <2>1, EmptySeq
  <2> QED
    BY <2>1, <2>2
<1>3. Numbers' = Numbers
  BY DEF Numbers
<1>4. EveryGameOnce'
  <2>1. Played(journal)
    BY DEF TournamentInv, FilesInv
  <2>2. NumbersOf(journal) \subseteq Numbers
    BY <2>1 DEF Played, NumbersOf
  <2>3. {w.number : w \in workers'} = {}
    BY <1>1
  <2>4. /\ Numbers = pending' \cup {} \cup NumbersOf(journal)
        /\ pending' \cap NumbersOf(journal) = {}
    BY <1>1, <2>2
  <2>5. {journal'[i].number : i \in DOMAIN journal'} = NumbersOf(journal)
    BY <1>1 DEF NumbersOf
  <2> QED
    BY <1>1, <1>3, <2>1, <2>3, <2>4, <2>5 DEF EveryGameOnce, Played
<1>5. IsFiniteSet(workers')
  BY <1>1, FS_EmptySet
<1> QED
  BY <1>1, <1>2, <1>3, <1>4, <1>5 DEF LoopInv

LEMMA LoopStep ==
    ASSUME TournamentInv, [Next]_vars
    PROVE  LoopInv'
<1>1. schedule' = schedule /\ execution' = execution
  BY PlanStays
<1>2. FilesInv'
  BY FilesStep
<1>3. workers \subseteq Worker /\ pending \in SUBSET Numbers /\ Numbers' = Numbers
  BY <1>1 DEF TournamentInv, LoopInv, Numbers
<1>4. CASE Launch
  BY <1>1, <1>4, LoopLaunch
<1>5. CASE Join
  BY <1>1, <1>5, LoopJoin
<1>6. CASE TakeEngines
  <2>1. PICK w \in workers :
          /\ workers' = (workers \ {w}) \cup
                {[w EXCEPT !.phase = "playing",
                           !.reused = Reused(Assigned(stored[w.slot], w.previous, Side(w.number)),
                                             w.slot, Side(w.number))]}
          /\ journal' = journal /\ pc' = pc /\ pending' = pending
    BY <1>6 DEF TakeEngines, directory
  <2> DEFINE r == Reused(Assigned(stored[w.slot], w.previous, Side(w.number)), w.slot, Side(w.number))
             x == [w EXCEPT !.phase = "playing", !.reused = r]
  <2>2. r \in SUBSET Color
    BY DEF Reused
  <2> HIDE DEF r
  <2>3. x \in Worker /\ x.number = w.number /\ x.slot = w.slot
    BY <1>3, <2>2 DEF Worker
  <2> HIDE DEF x
  <2>4. workers' = (workers \ {w}) \cup {x}
    BY <2>1 DEF x, r
  <2> QED
    BY <1>1, <2>1, <2>3, <2>4, LoopGoesOn DEF TournamentInv
<1>7. CASE EndGame
  <2>1. PICK w \in workers, fault \in {"none", "engine", "infrastructure"} :
          /\ workers' = (workers \ {w}) \cup {[w EXCEPT !.phase = "returned", !.fault = fault]}
          /\ journal' = journal /\ pc' = pc /\ pending' = pending
    BY <1>7 DEF EndGame, directory
  <2> DEFINE x == [w EXCEPT !.phase = "returned", !.fault = fault]
  <2>2. x \in Worker /\ x.number = w.number /\ x.slot = w.slot
    BY <1>3 DEF Worker
  <2> HIDE DEF x
  <2>3. workers' = (workers \ {w}) \cup {x}
    BY <2>1 DEF x
  <2> QED
    BY <1>1, <2>1, <2>2, <2>3, LoopGoesOn DEF TournamentInv
<1>8. CASE Interrupt \/ GraceExpires \/ UNCHANGED vars
  <2>1. workers' = workers /\ pending' = pending /\ pc' = pc /\ journal' = journal
    BY <1>8 DEF Interrupt, GraceExpires, vars, directory
  <2>2. Worker' = Worker
    BY <1>1 DEF Worker, Numbers, Slots
  <2>3. EveryGameOnce'
    BY <1>3, <2>1 DEF TournamentInv, LoopInv, EveryGameOnce
  <2> QED
    BY <1>1, <1>3, <2>1, <2>2, <2>3 DEF TournamentInv, LoopInv
<1>9. CASE EndLoop \/ Abandon \/ JoinFails
  <2>1. workers' = {} /\ pc' # "loop" /\ pending' = pending
    BY <1>9 DEF EndLoop, Abandon, JoinFails, Returns
  <2> QED
    BY <1>2, <1>3, <2>1, LoopEmpty
<1>10. CASE Exit \/ Crash
  <2>1. workers' = {} /\ pc' # "loop" /\ pending' = {}
    BY <1>10 DEF Exit, Crash, Down
  <2> QED
    BY <1>2, <1>3, <2>1, LoopEmpty
<1>11. CASE Resume
  BY <1>1, <1>11, LoopResume
<1> QED
  BY <1>4, <1>5, <1>6, <1>7, <1>8, <1>9, <1>10, <1>11 DEF Next, LoopNext, WorkerNext

-----------------------------------------------------------------------------
(* The engines of a slot. *)

\* A game is between two participants.
LEMMA SideIsApart ==
    ASSUME PlanInv, NEW n \in Numbers
    PROVE  /\ Apart(Side(n)) /\ Side(n) \in [Color -> Int]
           /\ \A c \in Color : Side(n)[c] \in Nat
           /\ Side(n)["white"] # Side(n)["black"]
<1>1. /\ schedule[n].white \in Nat /\ schedule[n].black \in Nat
      /\ schedule[n].white # schedule[n].black
  BY DEF PlanInv
<1>2. /\ Side(n)["white"] = schedule[n].white /\ Side(n)["black"] = schedule[n].black
      /\ Side(n) \in [Color -> Int]
  BY <1>1 DEF Side, Color
<1>3. \A c \in Color : Side(n)[c] \in Nat
  BY <1>1, <1>2 DEF Color
<1> QED
  BY <1>1, <1>2, <1>3 DEF Apart

LEMMA NoSidesApart == Apart(NoSides) /\ NoSides \in [Color -> Int]
BY DEF Apart, NoSides, Nobody

\* Slots that keep nothing.
LEMMA EnginesNone ==
    ASSUME execution' = execution, workers' = {}, keptFrom' \in [Slots -> [Color -> Int]],
           \A s \in Slots : Apart(keptFrom'[s]), stored' = [s \in Slots |-> NoEngines]
    PROVE  EnginesInv'
<1>1. Slots' = Slots
  BY DEF Slots
<1>2. \A s \in Slots : Keeps(s, keptFrom[s])'
  BY DEF Keeps, NoEngines
<1>3. \A s \in Slots : DOMAIN stored'[s] = Color
  BY DEF NoEngines
<1>4. \A s \in Slots : Apart(keptFrom[s])'
  BY DEF Apart, NoSides
<1> QED
  BY <1>1, <1>2, <1>3, <1>4 DEF EnginesInv

LEMMA EnginesQuiet ==
    ASSUME EnginesInv, schedule' = schedule, execution' = execution, workers' = workers,
           keptFrom' = keptFrom, stored' = stored
    PROVE  EnginesInv'
<1>1. Slots' = Slots
  BY DEF Slots
<1> QED
  BY <1>1 DEF EnginesInv, Keeps, CoresOf, Side, Apart, NoSides, NoEngines

LEMMA EnginesLaunch ==
    ASSUME TournamentInv, schedule' = schedule, execution' = execution, Launch
    PROVE  EnginesInv'
<1>1. PICK w \in Worker :
        /\ w.number \in pending /\ (\A v \in workers : v.slot # w.slot)
        /\ w.phase = "launched" /\ w.previous = keptFrom[w.slot]
        /\ workers' = workers \cup {w}
        /\ keptFrom' = [keptFrom EXCEPT ![w.slot] = Side(w.number)]
  BY LaunchIs
<1>2. stored' = stored
  BY DEF Launch
<1>3. Slots' = Slots /\ w.slot \in Slots /\ w.number \in Numbers
  BY DEF Slots, Worker
<1>4. EnginesInv /\ workers \subseteq Worker
  BY DEF TournamentInv, LoopInv
<1>5. Apart(Side(w.number)) /\ Side(w.number) \in [Color -> Int]
  BY <1>3, SideIsApart DEF TournamentInv
<1>6. /\ keptFrom' \in [Slots -> [Color -> Int]]
      /\ keptFrom'[w.slot] = Side(w.number)
      /\ \A s \in Slots : s # w.slot => keptFrom'[s] = keptFrom[s]
  BY <1>1, <1>3, <1>4, <1>5 DEF EnginesInv
<1>7. \A s \in Slots : Apart(keptFrom'[s])
  BY <1>4, <1>5, <1>6 DEF EnginesInv
<1>8. ASSUME NEW v \in workers'
      PROVE  /\ keptFrom'[v.slot] = Side(v.number)
             /\ Apart(v.previous)
             /\ v.phase = "launched" => Keeps(v.slot, v.previous)
             /\ v.phase = "playing" => stored[v.slot] = NoEngines
  <2>1. CASE v = w
    <3>1. Apart(v.previous)
      BY <1>1, <1>3, <1>4, <2>1 DEF EnginesInv
    <3>2. Keeps(v.slot, v.previous)
      BY <1>1, <1>3, <1>4, <2>1 DEF EnginesInv
    <3> QED
      BY <1>1, <1>6, <2>1, <3>1, <3>2
  <2>2. CASE v \in workers
    <3>1. v.slot \in Slots /\ v.slot # w.slot
      BY <1>1, <1>4, <2>2 DEF Worker
    <3> QED
      BY <1>4, <1>6, <2>2, <3>1 DEF EnginesInv
  <2> QED
    BY <1>1, <2>1, <2>2
<1>9. ASSUME NEW s \in Slots, \A v \in workers' : v.slot = s => v.phase = "returned"
      PROVE  Keeps(s, keptFrom'[s])
  <2>1. s # w.slot
    BY <1>1, <1>9
  <2>2. \A v \in workers : v.slot = s => v.phase = "returned"
    BY <1>1, <1>9
  <2> QED
    BY <1>4, <1>6, <2>1, <2>2 DEF EnginesInv
<1> QED
  BY <1>2, <1>3, <1>4, <1>6, <1>7, <1>8, <1>9
     DEF EnginesInv, Keeps, CoresOf, Side, Apart, NoSides, NoEngines

LEMMA EnginesJoin ==
    ASSUME TournamentInv, schedule' = schedule, execution' = execution, Join
    PROVE  EnginesInv'
<1>1. PICK w \in workers : w.phase = "returned" /\ workers' = workers \ {w}
  BY FilesJoin DEF TournamentInv
<1>2. stored' = stored /\ keptFrom' = keptFrom /\ Slots' = Slots
  BY DEF Join, kept, Slots
<1>3. EnginesInv
  BY DEF TournamentInv
<1>4. \A v \in workers' :
          /\ keptFrom[v.slot] = Side(v.number)
          /\ Apart(v.previous)
          /\ v.phase = "launched" => Keeps(v.slot, v.previous)
          /\ v.phase = "playing" => stored[v.slot] = NoEngines
  BY <1>1, <1>3 DEF EnginesInv
<1>5. ASSUME NEW s \in Slots, \A v \in workers' : v.slot = s => v.phase = "returned"
      PROVE  Keeps(s, keptFrom[s])
  <2>1. \A v \in workers : v.slot = s => v.phase = "returned"
    BY <1>1, <1>5
  <2> QED
    BY <1>3, <2>1 DEF EnginesInv
<1> QED
  BY <1>2, <1>3, <1>4, <1>5 DEF EnginesInv, Keeps, CoresOf, Side, Apart, NoSides, NoEngines

\* A worker goes on, and so does its slot.
LEMMA EnginesGoOn ==
    ASSUME PlanInv, LoopInv, EnginesInv, schedule' = schedule, execution' = execution,
           keptFrom' = keptFrom, NEW w \in workers, NEW x \in Worker, NEW engines,
           x.number = w.number, x.slot = w.slot, x.previous = w.previous,
           workers' = (workers \ {w}) \cup {x},
           stored' = [stored EXCEPT ![w.slot] = engines], DOMAIN engines = Color,
           \/ x.phase = "playing" /\ engines = NoEngines
           \/ /\ x.phase = "returned"
              /\ \A c \in Color : engines[c] \in
                    {NoEngine, [of |-> Side(w.number)[c], on |-> CoresOf(w.slot)[c]]}
    PROVE  EnginesInv'
<1>1. Slots' = Slots /\ w.slot \in Slots /\ workers \subseteq Worker
  BY DEF Slots, LoopInv, Worker
<1>2. /\ DOMAIN stored' = Slots /\ stored'[w.slot] = engines
      /\ \A s \in Slots : s # w.slot => stored'[s] = stored[s]
  BY <1>1 DEF EnginesInv
<1>3. \A v \in workers : v # w => v.slot # w.slot /\ v.slot \in Slots
  BY <1>1 DEF LoopInv, EveryGameOnce, Worker
<1>4. \A s \in Slots : s # w.slot => \A side : Keeps(s, side) =>
          \A c \in Color : stored'[s][c] \in {NoEngine, [of |-> side[c], on |-> CoresOf(s)[c]]}
  BY <1>2 DEF Keeps
<1>5. ASSUME NEW v \in workers'
      PROVE  /\ keptFrom[v.slot] = Side(v.number)
             /\ Apart(v.previous)
             /\ v.phase = "launched" =>
                   \A c \in Color : stored'[v.slot][c] \in
                       {NoEngine, [of |-> v.previous[c], on |-> CoresOf(v.slot)[c]]}
             /\ v.phase = "playing" => stored'[v.slot] = NoEngines
  <2>1. CASE v = x
    BY <1>2, <2>1 DEF EnginesInv
  <2>2. CASE v \in workers /\ v # w
    BY <1>2, <1>3, <1>4, <2>2 DEF EnginesInv
  <2> QED
    BY <2>1, <2>2
<1>6. ASSUME NEW s \in Slots, \A v \in workers' : v.slot = s => v.phase = "returned"
      PROVE  \A c \in Color : stored'[s][c] \in
                 {NoEngine, [of |-> keptFrom[s][c], on |-> CoresOf(s)[c]]}
  <2>1. CASE s = w.slot
    <3>1. x.phase = "returned"
      BY <1>6, <2>1
    <3>2. keptFrom[s] = Side(w.number)
      BY <2>1 DEF EnginesInv
    <3> QED
      BY <1>2, <2>1, <3>1, <3>2
  <2>2. CASE s # w.slot
    <3>1. \A v \in workers : v.slot = s => v.phase = "returned"
      BY <1>6, <2>2
    <3>2. Keeps(s, keptFrom[s])
      BY <3>1 DEF EnginesInv
    <3> QED
      BY <1>4, <2>2, <3>2
  <2> QED
    BY <2>1, <2>2
<1>7. \A s \in Slots : Apart(keptFrom[s]) /\ DOMAIN stored'[s] = Color
  BY <1>2 DEF EnginesInv
<1>8. keptFrom \in [Slots -> [Color -> Int]]
  BY DEF EnginesInv
<1>9. NoEngines' = NoEngines /\ NoEngine' = NoEngine /\ \A n : Side(n)' = Side(n)
  BY DEF NoEngines, NoEngine, Side
<1>10. \A v \in workers' :
          /\ keptFrom'[v.slot] = Side(v.number)'
          /\ Apart(v.previous)'
          /\ v.phase = "launched" => Keeps(v.slot, v.previous)'
          /\ v.phase = "playing" => stored'[v.slot] = NoEngines
  BY <1>5, <1>9 DEF Keeps, CoresOf, Apart, NoSides
<1>11. \A s \in Slots :
          (\A v \in workers' : v.slot = s => v.phase = "returned") => Keeps(s, keptFrom[s])'
  BY <1>6 DEF Keeps, CoresOf
<1>12. \A s \in Slots : Apart(keptFrom[s])' /\ DOMAIN stored'[s] = Color
  BY <1>7 DEF Apart, NoSides
<1> QED
  BY <1>1, <1>2, <1>8, <1>9, <1>10, <1>11, <1>12 DEF EnginesInv

LEMMA EnginesStep ==
    ASSUME TournamentInv, [Next]_vars
    PROVE  EnginesInv'
<1>1. schedule' = schedule /\ execution' = execution
  BY PlanStays
<1>2. PlanInv /\ LoopInv /\ EnginesInv /\ workers \subseteq Worker
  BY DEF TournamentInv, LoopInv
<1>3. CASE Launch
  BY <1>1, <1>3, EnginesLaunch
<1>4. CASE Join
  BY <1>1, <1>4, EnginesJoin
<1>5. CASE TakeEngines
  <2>1. PICK w \in workers :
          /\ workers' = (workers \ {w}) \cup
                {[w EXCEPT !.phase = "playing",
                           !.reused = Reused(Assigned(stored[w.slot], w.previous, Side(w.number)),
                                             w.slot, Side(w.number))]}
          /\ stored' = [stored EXCEPT ![w.slot] = NoEngines]
          /\ keptFrom' = keptFrom
    BY <1>5 DEF TakeEngines
  <2> DEFINE r == Reused(Assigned(stored[w.slot], w.previous, Side(w.number)), w.slot, Side(w.number))
             x == [w EXCEPT !.phase = "playing", !.reused = r]
  <2>2. r \in SUBSET Color
    BY DEF Reused
  <2> HIDE DEF r
  <2>3. /\ x \in Worker /\ x.number = w.number /\ x.slot = w.slot /\ x.previous = w.previous
        /\ x.phase = "playing"
    BY <1>2, <2>2 DEF Worker
  <2> HIDE DEF x
  <2>4. workers' = (workers \ {w}) \cup {x}
    BY <2>1 DEF x, r
  <2>5. DOMAIN NoEngines = Color
    BY DEF NoEngines
  <2> QED
    BY <1>1, <1>2, <2>1, <2>3, <2>4, <2>5, EnginesGoOn
<1>6. CASE EndGame
  <2>1. PICK w \in workers, fault \in {"none", "engine", "infrastructure"}, stay \in SUBSET Color :
          /\ workers' = (workers \ {w}) \cup {[w EXCEPT !.phase = "returned", !.fault = fault]}
          /\ stored' = [stored EXCEPT ![w.slot] =
                         [c \in Color |-> IF c \in stay
                                            THEN [of |-> Side(w.number)[c],
                                                  on |-> CoresOf(w.slot)[c]]
                                            ELSE NoEngine]]
          /\ keptFrom' = keptFrom
    BY <1>6 DEF EndGame
  <2> DEFINE x == [w EXCEPT !.phase = "returned", !.fault = fault]
             engines == [c \in Color |-> IF c \in stay
                                           THEN [of |-> Side(w.number)[c], on |-> CoresOf(w.slot)[c]]
                                           ELSE NoEngine]
  <2>2. /\ x \in Worker /\ x.number = w.number /\ x.slot = w.slot /\ x.previous = w.previous
        /\ x.phase = "returned"
    BY <1>2 DEF Worker
  <2>3. /\ DOMAIN engines = Color
        /\ \A c \in Color : engines[c] \in
              {NoEngine, [of |-> Side(w.number)[c], on |-> CoresOf(w.slot)[c]]}
    OBVIOUS
  <2>4. workers' = (workers \ {w}) \cup {x} /\ stored' = [stored EXCEPT ![w.slot] = engines]
    BY <2>1
  <2> HIDE DEF x, engines
  <2> QED
    BY <1>1, <1>2, <2>1, <2>2, <2>3, <2>4, EnginesGoOn
<1>7. CASE Interrupt \/ GraceExpires \/ Resume \/ UNCHANGED vars
  <2>1. workers' = workers /\ keptFrom' = keptFrom /\ stored' = stored
    BY <1>7 DEF Interrupt, GraceExpires, Resume, vars, kept
  <2> QED
    BY <1>1, <1>2, <2>1, EnginesQuiet
<1>8. CASE EndLoop \/ Abandon \/ JoinFails
  <2>1. workers' = {} /\ keptFrom' = keptFrom /\ stored' = [s \in Slots |-> NoEngines]
    BY <1>8 DEF EndLoop, Abandon, JoinFails, Returns
  <2> QED
    BY <1>1, <1>2, <2>1, EnginesNone DEF EnginesInv
<1>9. CASE Exit \/ Crash
  <2>1. /\ workers' = {} /\ keptFrom' = [s \in Slots |-> NoSides]
        /\ stored' = [s \in Slots |-> NoEngines]
    BY <1>9 DEF Exit, Crash, Down
  <2>2. keptFrom' \in [Slots -> [Color -> Int]] /\ \A s \in Slots : Apart(keptFrom'[s])
    BY <2>1, NoSidesApart
  <2> QED
    BY <1>1, <2>1, <2>2, EnginesNone
<1> QED
  BY <1>3, <1>4, <1>5, <1>6, <1>7, <1>8, <1>9 DEF Next, LoopNext, WorkerNext

-----------------------------------------------------------------------------
(* The theorems. *)

LEMMA TournamentInit == Init => TournamentInv
<1> SUFFICES ASSUME Init PROVE TournamentInv
  OBVIOUS
<1>1. PlanInv
  BY PlanInit
<1>2. Played(<< >>) /\ Begins(<< >>, << >>) /\ Listed(<< >>)
  BY NoList DEF Played, Begins
<1>3. FilesInv
  BY <1>2 DEF Init, FilesInv
<1>4. LoopInv
  <2>1. IsFiniteSet(workers)
    BY FS_EmptySet DEF Init
  <2>2. EveryGameOnce
    BY <1>2 DEF Init, EveryGameOnce, Played
  <2> QED
    BY <2>1, <2>2 DEF Init, LoopInv
<1>5. EnginesInv
  <2>1. \A s \in Slots : Keeps(s, keptFrom[s]) /\ DOMAIN stored[s] = Color /\ Apart(keptFrom[s])
    BY NoSidesApart DEF Init, Keeps, NoEngines
  <2> QED
    BY <2>1, NoSidesApart DEF Init, EnginesInv
<1> QED
  BY <1>1, <1>3, <1>4, <1>5 DEF TournamentInv

LEMMA TournamentStep == TournamentInv /\ [Next]_vars => TournamentInv'
<1> SUFFICES ASSUME TournamentInv, [Next]_vars PROVE TournamentInv'
  OBVIOUS
<1>1. PlanInv'
  BY PlanStays DEF TournamentInv, PlanInv, Numbers
<1> QED
  BY <1>1, FilesStep, LoopStep, EnginesStep DEF TournamentInv

\* The plan, the files, the loop and the engines are in order in every reachable
\* state, whatever the design, the host, the faults and the crashes.
THEOREM TournamentInvariant == Spec => []TournamentInv
BY TournamentInit, TournamentStep, PTL DEF Spec

\* Over any number of invocations every game is played once, in a slot of its
\* own while it lasts.
THEOREM EveryGameOnceTheorem == Spec => []EveryGameOnce
<1>1. TournamentInv => EveryGameOnce
  BY DEF TournamentInv, LoopInv
<1> QED
  BY <1>1, TournamentInvariant, PTL

\* The plan is that of a design `validate` lets through.
ScheduleInv == IsValid(design) /\ schedule = Schedule(design)

LEMMA ScheduleInit == Init => ScheduleInv
<1> SUFFICES ASSUME Init PROVE ScheduleInv
  OBVIOUS
<1>1. PICK p \in Plans : design = p.design
  BY DEF Init
<1> QED
  BY <1>1, PlanAssumption DEF Init, ScheduleInv, IsValid

LEMMA ScheduleStays == ScheduleInv /\ [Next]_vars => ScheduleInv'
<1> SUFFICES ASSUME ScheduleInv, [Next]_vars PROVE ScheduleInv'
  OBVIOUS
<1>1. UNCHANGED <<design, schedule>>
  BY DEF Next, LoopNext, WorkerNext, Launch, Join, JoinFails, EndLoop, Abandon, TakeEngines, EndGame,
         Interrupt, GraceExpires, Exit, Crash, Resume, vars, plan
<1> QED
  BY <1>1 DEF ScheduleInv

\* For any number of participants, seeds, cycles and games the schedule is fair:
\* those a design opposes meet in one encounter a cycle, an encounter is its
\* games in turn, and nobody of a round robin has two in a round.
THEOREM ScheduleIsFairTheorem == Spec => []ScheduleIsFair
<1>1. ScheduleInv => ScheduleIsFair
  <2> SUFFICES ASSUME ScheduleInv PROVE ScheduleIsFair
    OBVIOUS
  <2>1. IsValid(design) /\ schedule = Schedule(design)
    BY DEF ScheduleInv
  <2>2. PICK cycles, circle, by, total, each, turns :
            IsPlanned(design, schedule, cycles, circle, by, total, each, turns)
    BY <2>1, Planned
  <2>3. total \in Nat /\ design.games \in Nat /\ IsPlan(schedule, total, design.games, turns)
    BY <2>2 DEF IsPlanned
  <2>4. \A a, b \in 0..(design.participants - 1) :
           Cardinality(MeetingsOf(schedule, a, b)) = IF IsOpposed(design, a, b) THEN design.cycles ELSE 0
    BY <2>1, MeetingsOfPlan
  <2>5. \A i \in Numbers :
           /\ schedule[i].gameInEncounter \in 1..design.games
           /\ Cardinality(GamesOf(schedule, schedule[i].encounter)) = design.games
           /\ \A k \in GamesOf(schedule, schedule[i].encounter) : InTurn(schedule, i, k)
    BY <2>3, EncounterInTurn DEF Numbers
  <2>6. design.format = "round-robin" =>
           \A i, k \in Numbers :
               schedule[i].round = schedule[k].round /\ PlayersOf(schedule, i) \cap PlayersOf(schedule, k) # {}
                   => schedule[i].encounter = schedule[k].encounter
    BY <2>1, RoundsApart DEF Numbers
  <2> DEFINE Met(a, b) == {schedule[i].encounter : i \in {k \in Numbers : {schedule[k].white, schedule[k].black} = {a, b}}}
  <2>7. \A a, b : MeetingsOf(schedule, a, b) = Met(a, b)
    BY DEF MeetingsOf, PlayersOf, Numbers
  <2> QED
    BY <2>4, <2>5, <2>6, <2>7 DEF ScheduleIsFair, IsOpposed, GamesOf, InTurn, PlayersOf, Numbers, MeetingsOf
<1>2. Spec => []ScheduleInv
  BY ScheduleInit, ScheduleStays, PTL DEF Spec
<1> QED
  BY <1>1, <1>2, PTL

\* The slots are those the placement gave, to a request `validate` lets through.
PlacementInv == IsRequest(request) /\ execution = Allocation(request).slots

LEMMA PlacementInit == Init => PlacementInv
<1> SUFFICES ASSUME Init PROVE PlacementInv
  OBVIOUS
<1>1. PICK p \in Plans : request = p.request
  BY DEF Init
<1>2. IsRequest(p.request)
  BY PlanAssumption
<1> QED
  BY <1>1, <1>2 DEF Init, PlacementInv

LEMMA PlacementStays == PlacementInv /\ [Next]_vars => PlacementInv'
<1> SUFFICES ASSUME PlacementInv, [Next]_vars PROVE PlacementInv'
  OBVIOUS
<1> QED
  BY PlanStays DEF PlacementInv

\* Whatever the host, the policy and the mode, the slots of every placement are
\* apart, and the games in flight never share a CPU, whatever the order they
\* start and end in.
THEOREM GamesAreApartTheorem == Spec => []GamesAreApart
<1>1. TournamentInv /\ PlacementInv => GamesAreApart
  <2> SUFFICES ASSUME TournamentInv, PlacementInv PROVE GamesAreApart
    OBVIOUS
  <2>1. IsApart(request, execution, Allocation(request).lefts)
    BY SlotsAreApart DEF PlacementInv
  <2>2. ASSUME NEW v \in workers, NEW w \in workers, v # w
        PROVE  /\ v.slot # w.slot
               /\ \A a \in ToSet(execution[v.slot]), b \in ToSet(execution[w.slot]) :
                     CpusOf(a) \cap CpusOf(b) = {}
    <3>1. v.slot # w.slot /\ v.slot \in DOMAIN execution /\ w.slot \in DOMAIN execution
      BY <2>2 DEF TournamentInv, LoopInv, EveryGameOnce, Worker, Slots
    <3> QED
      BY <3>1, EnginesAreApart DEF PlacementInv
  <2> QED
    BY <2>1, <2>2 DEF GamesAreApart
<1>2. Spec => []PlacementInv
  BY PlacementInit, PlacementStays, PTL DEF Spec
<1> QED
  BY <1>1, <1>2, TournamentInvariant, PTL

\* What the tournament's book gives its schedule.
Theirs == ResolveOpenings(book, Cardinality(Encounters), 1)

\* The openings in use, and those of the games written down, are the book's.
OpeningsInv ==
    /\ IsBook(book)
    /\ openings = IF pc = "down" THEN NoOpenings ELSE Theirs
    /\ \A i \in DOMAIN journal :
          /\ journal[i].index = BookIndex(Theirs, schedule[journal[i].number].encounter)
          /\ journal[i].opening =
                Assignment(SelectEncounter(Theirs, schedule[journal[i].number].encounter), 1)

LEMMA OpeningsInit == Init => OpeningsInv
<1> SUFFICES ASSUME Init PROVE OpeningsInv
  OBVIOUS
<1>1. PICK p \in Plans : book = p.book
  BY DEF Init
<1>2. IsBook(book)
  BY <1>1, PlanAssumption
<1>3. DOMAIN journal = {} /\ pc = "down" /\ openings = NoOpenings
  BY NoList DEF Init
<1> QED
  BY <1>2, <1>3 DEF OpeningsInv

\* The openings of the games there were before are theirs still.
LEMMA OpeningsStay ==
    ASSUME OpeningsInv, book' = book, schedule' = schedule,
           openings' = IF pc' = "down" THEN NoOpenings ELSE Theirs,
           \A i \in DOMAIN journal' : i \in DOMAIN journal /\ journal'[i] = journal[i]
    PROVE  OpeningsInv'
<1>1. Theirs' = Theirs
  BY DEF Theirs, Encounters, Numbers
<1> QED
  BY <1>1 DEF OpeningsInv

LEMMA OpeningsStep == TournamentInv /\ OpeningsInv /\ [Next]_vars => OpeningsInv'
<1> SUFFICES ASSUME TournamentInv, OpeningsInv, [Next]_vars PROVE OpeningsInv'
  OBVIOUS
<1>1. book' = book /\ schedule' = schedule
  BY DEF Next, LoopNext, WorkerNext, Launch, Join, JoinFails, EndLoop, Abandon, TakeEngines, EndGame,
         Interrupt, GraceExpires, Exit, Crash, Resume, vars, plan
<1>2. Theirs' = Theirs
  BY <1>1 DEF Theirs, Encounters, Numbers
<1>3. openings = IF pc = "down" THEN NoOpenings ELSE Theirs
  BY DEF OpeningsInv
<1>4. Listed(journal)
  BY DEF TournamentInv, FilesInv, Played
<1>5. CASE Join
  <2>1. PICK w \in workers : journal' = Append(journal, Report(w.number, w.fault))
    BY <1>5 DEF Join
  <2>2. openings = Theirs /\ openings' = openings /\ pc' = pc /\ pc = "loop"
    BY <1>3, <1>5 DEF Join
  <2>3. PICK e : e = Report(w.number, w.fault)
    OBVIOUS
  <2>4. /\ e.index = BookIndex(Theirs, schedule[e.number].encounter)
        /\ e.opening = Assignment(SelectEncounter(Theirs, schedule[e.number].encounter), 1)
    BY <2>2, <2>3 DEF Report
  <2>5. /\ Listed(journal') /\ Len(journal') = Len(journal) + 1
        /\ \A i \in 1..Len(journal) : journal'[i] = journal[i]
        /\ journal'[Len(journal) + 1] = e
    BY <1>4, <2>1, <2>3, ListGrows
  <2>6. Len(journal) \in Nat /\ DOMAIN journal = 1..Len(journal) /\ DOMAIN journal' = 1..(Len(journal) + 1)
    BY <1>4, <2>5, ListIs
  <2>7. \A i \in DOMAIN journal' :
           /\ journal'[i].index = BookIndex(Theirs, schedule[journal'[i].number].encounter)
           /\ journal'[i].opening =
                 Assignment(SelectEncounter(Theirs, schedule[journal'[i].number].encounter), 1)
    <3> SUFFICES ASSUME NEW i \in DOMAIN journal'
                 PROVE  /\ journal'[i].index = BookIndex(Theirs, schedule[journal'[i].number].encounter)
                        /\ journal'[i].opening =
                              Assignment(SelectEncounter(Theirs, schedule[journal'[i].number].encounter), 1)
      OBVIOUS
    <3>1. CASE i \in DOMAIN journal
      BY <2>5, <2>6, <3>1 DEF OpeningsInv
    <3>2. CASE i = Len(journal) + 1
      BY <2>4, <2>5, <3>2
    <3> QED
      BY <2>6, <3>1, <3>2
  <2> QED
    BY <1>1, <1>2, <2>2, <2>7 DEF OpeningsInv
<1>6. CASE Launch \/ WorkerNext \/ Interrupt \/ GraceExpires \/ UNCHANGED vars
  <2>1. journal' = journal /\ openings' = openings /\ pc' = pc
    BY <1>6 DEF Launch, WorkerNext, TakeEngines, EndGame, Interrupt, GraceExpires, vars, directory
  <2> QED
    BY <1>1, <1>3, <2>1, OpeningsStay
<1>7. CASE EndLoop \/ Abandon \/ JoinFails
  <2>1. journal' = journal /\ openings' = openings /\ pc = "loop" /\ pc' = "ended"
    BY <1>7 DEF EndLoop, Abandon, JoinFails, Returns
  <2> QED
    BY <1>1, <1>3, <2>1, OpeningsStay
<1>8. CASE Exit
  <2>1. journal' = journal /\ openings' = NoOpenings /\ pc' = "down"
    BY <1>8 DEF Exit, Down, directory
  <2> QED
    BY <1>1, <2>1, OpeningsStay
<1>9. CASE Crash
  <2>1. openings' = NoOpenings /\ pc' = "down"
    BY <1>9 DEF Crash, Down
  <2>2. PICK n \in Len(published.games)..Len(journal) : journal' = SubSeq(journal, 1, n)
    BY <1>9 DEF Crash
  <2>3. Len(published.games) \in Nat /\ Len(journal) \in Nat /\ DOMAIN journal = 1..Len(journal)
    BY <1>4, ListIs DEF TournamentInv, FilesInv
  <2>4. n \in 0..Len(journal)
    BY <2>3
  <2>5. Listed(journal') /\ Len(journal') = n /\ \A i \in 1..n : journal'[i] = journal[i]
    BY <1>4, <2>2, <2>4, ListCut
  <2>6. DOMAIN journal' = 1..n
    BY <2>5, ListIs
  <2>7. \A i \in DOMAIN journal' : i \in DOMAIN journal /\ journal'[i] = journal[i]
    BY <2>3, <2>4, <2>5, <2>6
  <2> QED
    BY <1>1, <2>1, <2>7, OpeningsStay
<1>10. CASE Resume
  <2>1. journal' = journal /\ pc' = "loop"
    BY <1>10 DEF Resume, directory
  <2>2. PICK threads \in 1..MaxThreads : openings' = ResolveOpenings(book, Cardinality(Encounters), threads)
    BY <1>10 DEF Resume
  <2>3. threads \in Nat \ {0} /\ IsBook(book)
    BY SizeAssumption DEF OpeningsInv
  <2>4. openings' = Theirs
    BY <2>2, <2>3, ResolvedIs DEF Theirs
  <2> QED
    BY <1>1, <2>1, <2>4, OpeningsStay
<1> QED
  BY <1>5, <1>6, <1>7, <1>8, <1>9, <1>10 DEF Next, LoopNext

\* Whatever a book's text, order and words, however many threads read it and
\* however often the tournament is resumed: the book is read in full and shared
\* out evenly, the games of an encounter are played from one opening of it, and
\* it is the one whose index they report.
THEOREM OpeningsAreFairTheorem == Spec => []OpeningsAreFair
<1>1. TournamentInv /\ ScheduleInv /\ OpeningsInv => OpeningsAreFair
  <2> SUFFICES ASSUME TournamentInv, ScheduleInv, OpeningsInv PROVE OpeningsAreFair
    OBVIOUS
  <2>1. PICK n \in Nat : Encounters = 1..n
    BY EncountersAre DEF ScheduleInv, Encounters, Numbers
  <2>2. Cardinality(Encounters) = n
    BY <2>1, FS_Interval
  <2>3. IsBook(book)
    BY DEF OpeningsInv
  <2>4. IsFaithful(book, 1..MaxThreads)
    <3>1. 1..MaxThreads \in SUBSET (Nat \ {0})
      BY SizeAssumption
    <3> QED
      BY <2>3, <3>1, BookIsFaithful
  <2>5. IsSharedOut(ResolveOpenings(book, Cardinality(Encounters), 1), Encounters, book.wrap)
    BY <2>1, <2>2, <2>3, BookIsSharedOut
  <2>6. \A i, k \in DOMAIN journal :
           schedule[journal[i].number].encounter = schedule[journal[k].number].encounter =>
               journal[i].opening = journal[k].opening /\ journal[i].index = journal[k].index
    BY DEF OpeningsInv
  <2>7. ASSUME openings.entries # << >>
        PROVE  \A i \in DOMAIN games : games[i].opening = openings.entries[games[i].index + 1]
    <3>1. pc # "down" /\ openings = Theirs
      BY <2>7 DEF OpeningsInv, NoOpenings
    <3>2. games = journal
      BY <3>1, GamesAre DEF TournamentInv
    <3>3. \A e : Assignment(SelectEncounter(Theirs, e), 1) = Theirs.entries[BookIndex(Theirs, e) + 1]
      BY <2>2, <2>3, <2>7, <3>1, OpeningIsIndexed DEF Theirs
    <3> QED
      BY <3>1, <3>2, <3>3 DEF OpeningsInv
  <2> QED
    BY <2>4, <2>5, <2>6, <2>7 DEF OpeningsAreFair
<1>2. Spec => []ScheduleInv
  BY ScheduleInit, ScheduleStays, PTL DEF Spec
<1>3. Spec => [](TournamentInv /\ OpeningsInv)
  <2>1. Init => TournamentInv /\ OpeningsInv
    BY TournamentInit, OpeningsInit
  <2>2. TournamentInv /\ OpeningsInv /\ [Next]_vars => (TournamentInv /\ OpeningsInv)'
    BY TournamentStep, OpeningsStep
  <2> QED
    BY <2>1, <2>2, PTL DEF Spec
<1> QED
  BY <1>1, <1>2, <1>3, PTL

\* A side is handed the process its own participant left, on whichever side it
\* left it, unless that is on other cores; nobody else's.
LEMMA OwnEngines ==
    ASSUME NEW slot, NEW engines, NEW from, NEW side,
           Apart(from), \A c \in Color : side[c] \in Nat,
           \A c \in Color : engines[c] \in {NoEngine, [of |-> from[c], on |-> CoresOf(slot)[c]]}
    PROVE  Reused(Assigned(engines, from, side), slot, side) =
              {c \in Color : \E k \in Color : /\ engines[k].of = side[c]
                                              /\ CoresOf(slot)[k] = CoresOf(slot)[c]}
<1> DEFINE Own(c) == {k \in Color : from[k] = side[c] /\ engines[k] # NoEngine}
           assigned == Assigned(engines, from, side)
           Fit(c) == [of |-> side[c], on |-> CoresOf(slot)[c]]
<1>1. ASSUME NEW c \in Color
      PROVE  assigned[c] = IF Own(c) = {} THEN NoEngine ELSE engines[CHOOSE k \in Own(c) : TRUE]
  BY DEF Assigned
<1>2. NoEngine.of = -1 /\ \A c \in Color : side[c] # -1
  BY DEF NoEngine, Nobody
<1>3. ASSUME NEW k \in Color, engines[k] # NoEngine
      PROVE  engines[k].of = from[k] /\ engines[k].on = CoresOf(slot)[k]
  BY <1>3
<1>4. \A k, l, c \in Color : from[k] = side[c] /\ from[l] = side[c] => k = l
  <2>1. \A k \in Color : NoSides[k] = -1
    BY DEF NoSides, Nobody
  <2>2. CASE from = NoSides
    BY <1>2, <2>1, <2>2
  <2>3. CASE from # NoSides
    BY <2>3 DEF Apart, Color
  <2> QED
    BY <2>2, <2>3
<1> HIDE DEF assigned
<1>5. ASSUME NEW c \in Color, assigned[c] = Fit(c)
      PROVE  \E k \in Color : engines[k].of = side[c] /\ CoresOf(slot)[k] = CoresOf(slot)[c]
  <2>1. assigned[c].of = side[c] /\ assigned[c].on = CoresOf(slot)[c]
    BY <1>5
  <2>2. Own(c) # {}
    BY <1>1, <1>2, <2>1
  <2>3. PICK k \in Own(c) : assigned[c] = engines[k]
    BY <1>1, <2>2
  <2>4. k \in Color /\ engines[k] # NoEngine
    BY <2>3
  <2> QED
    BY <1>3, <2>1, <2>3, <2>4
<1>6. ASSUME NEW c \in Color, NEW k \in Color, engines[k].of = side[c],
             CoresOf(slot)[k] = CoresOf(slot)[c]
      PROVE  assigned[c] = Fit(c)
  <2>1. engines[k] # NoEngine
    BY <1>2, <1>6
  <2>2. engines[k] = [of |-> from[k], on |-> CoresOf(slot)[k]] /\ from[k] = side[c]
    BY <1>3, <1>6, <2>1
  <2>3. Own(c) = {k}
    BY <1>4, <2>1, <2>2
  <2>4. (CHOOSE l \in Own(c) : TRUE) = k /\ Own(c) # {}
    BY <2>3
  <2>5. assigned[c] = engines[k]
    BY <1>1, <2>4
  <2> QED
    BY <1>6, <2>2, <2>5
<1>7. Reused(assigned, slot, side) = {c \in Color : assigned[c] = Fit(c)}
  BY DEF Reused, Fits
<1> QED
  BY <1>5, <1>6, <1>7 DEF assigned

\* For any number of participants and slots, every game is given the processes
\* its slot kept of its own two participants, where they are on the right cores,
\* and no other participant's.
THEOREM KeptEnginesServeTheorem == Spec => KeptEnginesServe
<1> DEFINE Serves ==
        \A old \in workers, new \in workers' :
          old.number = new.number /\ old.phase = "launched" /\ new.phase = "playing" =>
              new.reused = {c \in Color :
                  \E k \in Color : /\ stored[new.slot][k].of = Side(new.number)[c]
                                   /\ CoresOf(new.slot)[k] = CoresOf(new.slot)[c]}
<1>1. TournamentInv /\ [Next]_vars => [Serves]_vars
  <2> SUFFICES ASSUME TournamentInv, [Next]_vars, NEW old \in workers, NEW new \in workers',
                      old.number = new.number, old.phase = "launched", new.phase = "playing"
               PROVE  new.reused = {c \in Color :
                         \E k \in Color : /\ stored[new.slot][k].of = Side(new.number)[c]
                                          /\ CoresOf(new.slot)[k] = CoresOf(new.slot)[c]}
    OBVIOUS
  <2>1. /\ \A v, w \in workers : v.number = w.number => v = w
        /\ workers \subseteq Worker
    BY DEF TournamentInv, LoopInv, EveryGameOnce
  <2>2. new \notin workers
    BY <2>1
  <2>3. CASE TakeEngines
    <3>1. PICK w \in workers :
            workers' = (workers \ {w}) \cup
                {[w EXCEPT !.phase = "playing",
                           !.reused = Reused(Assigned(stored[w.slot], w.previous, Side(w.number)),
                                             w.slot, Side(w.number))]}
      BY <2>3 DEF TakeEngines
    <3> DEFINE r == Reused(Assigned(stored[w.slot], w.previous, Side(w.number)), w.slot, Side(w.number))
               x == [w EXCEPT !.phase = "playing", !.reused = r]
    <3>2. x.number = w.number /\ x.slot = w.slot /\ x.reused = r
      BY <2>1 DEF Worker
    <3> HIDE DEF r, x
    <3>3. new = x
      BY <2>2, <3>1 DEF x, r
    <3>4. w = old
      BY <2>1, <3>2, <3>3
    <3>5. Apart(w.previous) /\ Keeps(w.slot, w.previous) /\ w.number \in Numbers
      BY <2>1, <3>4 DEF TournamentInv, EnginesInv, Worker
    <3>6. \A c \in Color : Side(w.number)[c] \in Nat
      BY <3>5, SideIsApart DEF TournamentInv
    <3>7. r = {c \in Color :
                 \E k \in Color : /\ stored[w.slot][k].of = Side(w.number)[c]
                                  /\ CoresOf(w.slot)[k] = CoresOf(w.slot)[c]}
      <4>1. PICK engines, from, side, slot :
                engines = stored[w.slot] /\ from = w.previous /\ side = Side(w.number) /\ slot = w.slot
        OBVIOUS
      <4>2. /\ Apart(from) /\ \A c \in Color : side[c] \in Nat
            /\ \A c \in Color : engines[c] \in {NoEngine, [of |-> from[c], on |-> CoresOf(slot)[c]]}
        BY <3>5, <3>6, <4>1 DEF Keeps
      <4>3. r = Reused(Assigned(engines, from, side), slot, side)
        BY <4>1 DEF r
      <4>4. Reused(Assigned(engines, from, side), slot, side) =
               {c \in Color : \E k \in Color : /\ engines[k].of = side[c]
                                               /\ CoresOf(slot)[k] = CoresOf(slot)[c]}
        BY <4>2, OwnEngines
      <4> QED
        BY <4>1, <4>3, <4>4
    <3> QED
      BY <3>2, <3>3, <3>7
  <2>4. CASE Launch
    <3>1. \E w \in Worker : w.phase = "launched" /\ workers' = workers \cup {w}
      BY <2>4, LaunchIs
    <3> QED
      BY <2>2, <3>1
  <2>5. CASE EndGame
    <3>1. PICK w \in workers, fault \in {"none", "engine", "infrastructure"} :
            workers' = (workers \ {w}) \cup {[w EXCEPT !.phase = "returned", !.fault = fault]}
      BY <2>5 DEF EndGame
    <3>2. [w EXCEPT !.phase = "returned", !.fault = fault].phase = "returned"
      BY <2>1 DEF Worker
    <3> QED
      BY <2>2, <3>1, <3>2
  <2>6. CASE Join
    BY <2>2, <2>6 DEF Join
  <2>7. CASE \/ EndLoop \/ Abandon \/ JoinFails \/ Exit \/ Crash \/ Resume
             \/ Interrupt \/ GraceExpires \/ UNCHANGED vars
    BY <2>2, <2>7 DEF EndLoop, Abandon, JoinFails, Returns, Exit, Crash, Down, Resume,
                      Interrupt, GraceExpires, vars
  <2> QED
    BY <2>3, <2>4, <2>5, <2>6, <2>7 DEF Next, LoopNext, WorkerNext
<1> QED
  BY <1>1, TournamentInvariant, PTL DEF Spec, KeptEnginesServe

\* A tournament that ends with nothing against it has been played in full.
LEMMA CompletedIsWhole ==
    ASSUME TournamentInv, pc = "loop", EndLoop \/ Abandon, Status = "completed"
    PROVE  /\ NumbersOf(games) = Numbers
           /\ \A i \in DOMAIN games : games[i].scorable
           /\ Faults("engine") <= MaxEngineFaults
<1>1. ~infrastructure /\ ~Stopping /\ ~(Faults("infrastructure") > 0)
      /\ ~(Faults("engine") > MaxEngineFaults)
  BY DEF Status
<1>2. workers = {} /\ ~CanLaunch
  BY <1>1 DEF EndLoop, Abandon, Stopping
<1>3. games = journal /\ Listed(games) /\ Played(games)
  BY GamesAre DEF TournamentInv, FilesInv
<1>4. pending = {}
  <2>1. Cardinality(workers) = 0 /\ Len(execution) > 0
    BY <1>2, FS_EmptySet DEF TournamentInv, LoopInv
  <2> QED
    BY <1>1, <1>2, <2>1 DEF CanLaunch
<1>5. NumbersOf(games) = Numbers
  <2>1. {w.number : w \in workers} = {}
    BY <1>2
  <2> QED
    BY <1>3, <1>4, <2>1 DEF TournamentInv, LoopInv, EveryGameOnce, NumbersOf
<1>6. \A i \in DOMAIN games : games[i].scorable
  <2>1. FaultsOf(games, "infrastructure") = {}
    <3>1. ~(Cardinality(FaultsOf(games, "infrastructure")) > 0)
      BY <1>1 DEF Faults, FaultsOf
    <3> QED
      BY <1>3, <3>1, FaultsAre
  <2>2. \A i \in DOMAIN games : games[i].fault # "infrastructure"
    BY <2>1 DEF FaultsOf
  <2> QED
    BY <1>3, <2>2 DEF Played
<1>7. Faults("engine") <= MaxEngineFaults
  <2>1. Faults("engine") = Cardinality(FaultsOf(games, "engine"))
    BY DEF Faults, FaultsOf
  <2>2. Faults("engine") \in Nat
    BY <1>3, <2>1, FaultsAre
  <2> QED
    BY <1>1, <2>2, SizeAssumption
<1> QED
  BY <1>5, <1>6, <1>7

\* For every schedule and allowance a report that says completed is of every
\* game, all of them scored; and whatever is stopped, crashes or is resumed, an
\* invalid tournament is never made good.
THEOREM VerdictIsRightTheorem == Spec => VerdictIsRight
<1> DEFINE Right ==
        /\ published' # published /\ published'.status = "completed" =>
              /\ {published'.games[i].number : i \in DOMAIN published'.games} = Numbers
              /\ \A i \in DOMAIN published'.games : published'.games[i].scorable
              /\ Faults("engine") <= MaxEngineFaults
        /\ published.status = "invalid" =>
              published'.status \in {"invalid", "infrastructure-error"}
        /\ published.status = "infrastructure-error" =>
              published'.status = "infrastructure-error"
<1>1. TournamentInv /\ [Next]_vars => [Right]_vars
  <2> SUFFICES ASSUME TournamentInv, [Next]_vars PROVE Right
    OBVIOUS
  <2>1. CASE published' = published
    BY <2>1
  <2>2. CASE (EndLoop \/ Abandon) /\ published' = [status |-> Status, games |-> games]
    <3>1. pc = "loop" /\ FilesInv
      BY <2>2 DEF EndLoop, Abandon, TournamentInv
    <3>2. games = journal /\ Listed(games)
      BY <3>1, GamesAre
    <3>3. Begins(published.games, games) /\ Listed(published.games)
      BY <3>1, <3>2 DEF FilesInv
    <3>4. published'.status = Status /\ published'.games = games
      BY <2>2
    <3>5. Status = "completed" =>
             /\ NumbersOf(games) = Numbers
             /\ \A i \in DOMAIN games : games[i].scorable
             /\ Faults("engine") <= MaxEngineFaults
      BY <2>2, <3>1, CompletedIsWhole
    <3>6. published.status = "invalid" => Status \in {"invalid", "infrastructure-error"}
      <4> SUFFICES ASSUME published.status = "invalid"
                   PROVE  Cardinality(FaultsOf(games, "engine")) > MaxEngineFaults
        BY <3>1, StatusIs, SizeAssumption
      <4>1. Cardinality(FaultsOf(published.games, "engine")) > MaxEngineFaults
        BY <3>1 DEF FilesInv
      <4>2. /\ Cardinality(FaultsOf(published.games, "engine")) \in Nat
            /\ Cardinality(FaultsOf(games, "engine")) \in Nat
            /\ Cardinality(FaultsOf(published.games, "engine")) <= Cardinality(FaultsOf(games, "engine"))
        BY <3>2, <3>3, FaultsGrow
      <4> QED
        BY <4>1, <4>2, SizeAssumption
    <3>7. published.status = "infrastructure-error" => Status = "infrastructure-error"
      <4> SUFFICES ASSUME published.status = "infrastructure-error"
                   PROVE  FaultsOf(games, "infrastructure") # {}
        BY <3>1, StatusIs, SizeAssumption
      <4>1. FaultsOf(published.games, "infrastructure") # {}
        BY <3>1 DEF FilesInv
      <4> QED
        BY <3>2, <3>3, <4>1, FaultsGrow
    <3> QED
      BY <3>4, <3>5, <3>6, <3>7 DEF NumbersOf
  <2>3. \/ published' = published
        \/ (EndLoop \/ Abandon) /\ published' = [status |-> Status, games |-> games]
    <3>1. CASE EndLoop \/ Abandon
      BY <3>1 DEF EndLoop, Abandon, Returns
    <3>2. CASE Launch \/ Join \/ JoinFails \/ WorkerNext
      BY <3>2 DEF Launch, Join, JoinFails, Returns, WorkerNext, TakeEngines, EndGame, directory
    <3>3. CASE Interrupt \/ GraceExpires \/ Exit \/ Crash \/ Resume \/ UNCHANGED vars
      BY <3>3 DEF Interrupt, GraceExpires, Exit, Crash, Resume, vars, directory
    <3> QED
      BY <3>1, <3>2, <3>3 DEF Next, LoopNext
  <2> QED
    BY <2>1, <2>2, <2>3
<1> QED
  BY <1>1, TournamentInvariant, PTL DEF Spec, VerdictIsRight

===============================================================================
