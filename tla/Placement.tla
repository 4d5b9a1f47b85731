------------------------------ MODULE Placement ------------------------------
(***************************************************************************)
(* Which CPUs the games of a run are pinned to: plan_cpu_placement and     *)
(* allocate_game_slots of placement.rs, as functions from what the         *)
(* operating system reports of a host, and what was asked for, to one pair *)
(* of engine placements per game slot.                                     *)
(*                                                                         *)
(* A physical core is [cpus, class, node, cache]: its logical CPUs and the *)
(* location the topology and the characteristics give it, 0 for what is    *)
(* not reported.  The two reports are taken to agree on the cores.         *)
(*                                                                         *)
(* A definition named X_Y is X with a mistake in it, for trying whether    *)
(* the properties notice; no specification uses it.                        *)
(***************************************************************************)
EXTENDS Order, SequencesExt

Core == [cpus : SUBSET Nat, class : Nat, node : Nat, cache : Nat]

\* What a run asks for on which host: `allowed` is the process's CPU set,
\* `headroom` and `cpus` belong to the policies auto and explicit, `each` is
\* cores_per_game or cores_per_engine.
IsRequest(r) ==
    /\ r.cores \in Seq(Core)
    /\ r.policy \in {"auto", "explicit", "off"}
    /\ r.mode \in {"shared", "per-engine"}
    /\ r.slots \in Nat \ {0} /\ r.each \in Nat \ {0} /\ r.headroom \in Nat
    /\ \A i, k \in DOMAIN r.cores : r.cores[i].cpus \cap r.cores[k].cpus # {} => i = k

Smallest(S) == CHOOSE n \in S : \A other \in S : n <= other
CpusOf(cores) == UNION {cores[i].cpus : i \in DOMAIN cores}

\* The physical cores as far as their CPUs are in S.
Restricted(cores, S) ==
    LET within == [i \in DOMAIN cores |-> [cores[i] EXCEPT !.cpus = cores[i].cpus \cap S]]
    IN  Picked(within, {i \in DOMAIN cores : within[i].cpus # {}})

\* Sorted by their lowest CPUs.
ByCpu(cores) ==
    LET order == InOrder({Smallest(cores[i].cpus) : i \in DOMAIN cores})
    IN  [k \in DOMAIN order |->
            cores[CHOOSE i \in DOMAIN cores : Smallest(cores[i].cpus) = order[k]]]

-----------------------------------------------------------------------------
(* plan_cpu_placement *)

Refused == [ok |-> FALSE, cores |-> << >>]
Pool(cores) == [ok |-> TRUE, cores |-> cores]

\* highest_performance_class: where the evidence is too thin it refuses.
HighestClass(cores) ==
    LET classes == {cores[i].class : i \in DOMAIN cores}
        best == CHOOSE c \in classes : \A d \in classes : d <= c
        selected == Picked(cores, {i \in DOMAIN cores : cores[i].class = best})
        caches == {selected[i].cache : i \in DOMAIN selected}
        nodes == {selected[i].node : i \in DOMAIN selected} \ {0}
    IN  IF \/ Cardinality(classes) > 1 /\ 0 \in classes
           \/ Cardinality(caches) > 1 /\ 0 \in caches
           \/ caches = {0} /\ Cardinality(nodes) > 1
        THEN Refused ELSE Pool(selected)

\* The allowed cores of the best class, less the lowest ones.
AutoPool(r) ==
    LET best == HighestClass(Restricted(r.cores, r.allowed))
        sorted == ByCpu(best.cores)
    IN  IF ~best.ok \/ r.headroom >= Len(sorted) THEN Refused
        ELSE Pool(SubSeq(sorted, r.headroom + 1, Len(sorted)))

PlanCpuPlacement(r) ==
    CASE r.policy = "off" -> Pool(<< >>)
      [] r.policy = "auto" ->
            IF r.allowed = {} \/ ~(r.allowed \subseteq CpusOf(r.cores)) THEN Refused ELSE AutoPool(r)
      [] r.policy = "explicit" ->
            IF r.cpus = {} \/ ~(r.cpus \subseteq CpusOf(r.cores) \cap r.allowed) THEN Refused
            ELSE Pool(Restricted(r.cores, r.cpus))

-----------------------------------------------------------------------------
(* allocate_game_slots *)

\* LocationKey, and its order in a BTreeMap.
Location(core) == <<core.class, core.node, core.cache>>
Before(k, l) ==
    \/ k[1] < l[1]
    \/ k[1] = l[1] /\ k[2] < l[2]
    \/ k[1] = l[1] /\ k[2] = l[2] /\ k[3] < l[3]

\* location_groups: the places of a location in what is left of the pool.
Group(left, key) == {i \in DOMAIN left : Location(left[i]) = key}
Keys(left) == {Location(left[i]) : i \in DOMAIN left}
RoomFor(left, n) == {key \in Keys(left) : Cardinality(Group(left, key)) >= n}
FirstKey(keys) == CHOOSE k \in keys : \A l \in keys : k = l \/ Before(k, l)

\* The n lowest places of a group.
Lowest(places, n) == {i \in places : Cardinality({k \in places : k < i}) < n}

\* take_indices: the cores at some places, by their CPUs, and the rest.
At(left, places) == ByCpu(Picked(left, places))
Rest(left, places) == Picked(left, DOMAIN left \ places)

Halves(cores, n) == <<SubSeq(cores, 1, n), SubSeq(cores, n + 1, 2 * n)>>

\* take_shared_slot: both engines on the cores of one location if any has room.
TakeShared(left, n) ==
    LET places == IF RoomFor(left, n) # {}
                  THEN Lowest(Group(left, FirstKey(RoomFor(left, n))), n)
                  ELSE 1..n
    IN  [slot |-> <<At(left, places), At(left, places)>>, left |-> Rest(left, places)]

\* The first two locations with room for an engine each, of one class if any are.
PairsOfKeys(left, n) ==
    {p \in RoomFor(left, n) \X RoomFor(left, n) : Before(p[1], p[2])}
BestPair(left, n) ==
    LET alike == {p \in PairsOfKeys(left, n) : p[1][1] = p[2][1]}
        eligible == IF alike # {} THEN alike ELSE PairsOfKeys(left, n)
    IN  CHOOSE p \in eligible : \A q \in eligible :
            \/ Before(p[1], q[1])
            \/ p[1] = q[1] /\ (p[2] = q[2] \/ Before(p[2], q[2]))

\* Mutant: the second engine's places are those from before the first's went.
TakeApart_Unadjusted(left, n) ==
    LET pair == BestPair(left, n)
        a == Lowest(Group(left, pair[1]), n)
        b == Lowest(Group(left, pair[2]), n)
        rest == Rest(left, a)
        shifted == b \cap DOMAIN rest
    IN  [slot |-> <<At(left, a), At(rest, shifted)>>, left |-> Rest(rest, shifted)]

\* One engine in each of two locations: the second's places move down by the
\* first's that were below them.
TakeApart(left, n) ==
    LET pair == BestPair(left, n)
        a == Lowest(Group(left, pair[1]), n)
        b == Lowest(Group(left, pair[2]), n)
        rest == Rest(left, a)
        adjusted == {i - Cardinality({k \in a : k < i}) : i \in b}
    IN  [slot |-> <<At(left, a), At(rest, adjusted)>>, left |-> Rest(rest, adjusted)]

\* take_symmetric_slot
TakeSymmetric(left, n) ==
    LET together == Lowest(Group(left, FirstKey(RoomFor(left, 2 * n))), 2 * n)
    IN  IF RoomFor(left, 2 * n) # {}
        THEN [slot |-> Halves(At(left, together), n), left |-> Rest(left, together)]
        ELSE IF PairsOfKeys(left, n) # {} THEN TakeApart(left, n)
        ELSE [slot |-> Halves(At(left, 1..(2 * n)), n), left |-> Rest(left, 1..(2 * n))]

CoresPerSlot(r) == IF r.mode = "shared" THEN r.each ELSE 2 * r.each

\* What a pool comes to when n slots are taken from it one after the other: the
\* slots, and what was left of it before each of them.
Taken(r, cores, n) ==
    LET taken[k \in 0..n] ==
            IF k = 0 THEN [slots |-> << >>, lefts |-> <<cores>>]
            ELSE LET before == taken[k - 1]
                     step == IF r.mode = "shared" THEN TakeShared(Last(before.lefts), r.each)
                             ELSE TakeSymmetric(Last(before.lefts), r.each)
                 IN  [slots |-> Append(before.slots, step.slot),
                      lefts |-> Append(before.lefts, step.left)]
    IN  taken[n]

\* The slots, each <<engine A's cores, engine B's cores>>, and what was left of
\* the pool before each of them; none if the request does not fit the host.
Allocation(r) ==
    LET plan == PlanCpuPlacement(r)
    IN  CASE ~plan.ok -> [slots |-> << >>, lefts |-> << >>]
          [] r.policy = "off" -> [slots |-> [k \in 1..r.slots |-> << << >>, << >> >>], lefts |-> << >>]
          [] r.slots * CoresPerSlot(r) > Len(plan.cores) -> [slots |-> << >>, lefts |-> << >>]
          [] OTHER -> Taken(r, plan.cores, r.slots)

-----------------------------------------------------------------------------
(* What a placement promises. *)

Cores(engine) == ToSet(engine)
Locations(engine) == {Location(c) : c \in Cores(engine)}

\* The slots of a request are on CPUs the process may use, none on another's
\* CPU, each engine on as many whole cores as was asked; `auto` leaves free the
\* lowest cores and every class but one.  A slot spans two locations only if
\* none had room for it at its turn; then each engine of a disjoint slot spans
\* two only if no two locations had room for one each.
IsApart(r, slots, lefts) ==
    LET Engines(k) == {slots[k][1], slots[k][2]}
        Cpus(k) == UNION {CpusOf(e) : e \in Engines(k)}
        pinned == UNION {Cpus(k) : k \in DOMAIN slots}
        usable == IF r.policy = "auto" THEN Restricted(r.cores, r.allowed)
                  ELSE Restricted(r.cores, r.cpus)
        used == UNION {Locations(e) : e \in UNION {Engines(k) : k \in DOMAIN slots}}
    IN  slots # << >> /\ r.policy # "off" =>
        /\ Len(slots) = r.slots
        /\ \A k, l \in DOMAIN slots : k # l => Cpus(k) \cap Cpus(l) = {}
        /\ \A k \in DOMAIN slots : \A e \in Engines(k) :
              Cores(e) \subseteq ToSet(usable) /\ Cardinality(Cores(e)) = r.each
        /\ \A k \in DOMAIN slots :
              IF r.mode = "shared" THEN slots[k][1] = slots[k][2]
              ELSE Cores(slots[k][1]) \cap Cores(slots[k][2]) = {}
        /\ r.policy = "auto" =>
              /\ \A c \in ToSet(usable) :
                    c.cpus \cap pinned # {} =>
                        Cardinality({d \in ToSet(usable) : d.class = c.class
                                        /\ Smallest(d.cpus) < Smallest(c.cpus)}) >= r.headroom
              /\ \A l \in used : \A c \in ToSet(usable) : c.class <= l[1]
        /\ \A k \in DOMAIN slots :
              /\ RoomFor(lefts[k], CoresPerSlot(r)) # {} =>
                    Cardinality(UNION {Locations(e) : e \in Engines(k)}) = 1
              /\ r.mode = "per-engine" /\ Cardinality(RoomFor(lefts[k], r.each)) > 1 =>
                    \A e \in Engines(k) : Cardinality(Locations(e)) = 1

=============================================================================
