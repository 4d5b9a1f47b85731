---------------------------- MODULE MCTournament ----------------------------
(* Instances of Tournament for TLC. *)
EXTENDS Tournament

RoundRobin(n, c, g) ==
    [format |-> "round-robin", participants |-> n, seeds |-> 0, cycles |-> c, games |-> g]
Gauntlet(n, s, c, g) ==
    [format |-> "gauntlet", participants |-> n, seeds |-> s, cycles |-> c, games |-> g]

\* Core i of a host with two CPUs a core, where `at` gives the cores' locations.
HostCores(at) ==
    [i \in DOMAIN at |-> [cpus |-> {2 * i, 2 * i + 1}, class |-> at[i][1], node |-> at[i][2], cache |-> at[i][3]]]
Request(at, policy, mode, slots, each) ==
    [cores |-> HostCores(at), policy |-> policy, mode |-> mode, slots |-> slots, each |-> each,
     headroom |-> 1, allowed |-> CpusOf(HostCores(at)), cpus |-> CpusOf(HostCores(at)) \ {4, 6, 7}]

\* Three cores of one location, with one free: two slots for one core each.
Plain == Request([i \in 1..3 |-> <<1, 1, 1>>], "auto", "shared", 2, 1)
\* Five cores of one location: two slots with a core for each engine.
Wide == Request([i \in 1..5 |-> <<1, 1, 1>>], "auto", "per-engine", 2, 1)

\* Up to six participants, with and without a bye.
Schedules ==
    {RoundRobin(n, c, g) : n \in 2..6, c \in 1..2, g \in 1..3}
        \cup {Gauntlet(5, s, c, g) : s \in 1..3, c \in 1..2, g \in 1..3}

\* Hosts of five cores in any mix of these locations, and what fits four of them.
Places == {<<1, 1, 1>>, <<1, 1, 2>>, <<2, 1, 1>>}
Shapes == {<<"shared", 2, 1>>, <<"shared", 2, 2>>, <<"per-engine", 2, 1>>, <<"per-engine", 1, 2>>}
Hosts ==
    {Request(at, policy, shape[1], shape[2], shape[3]) :
        at \in [1..5 -> Places], policy \in {"auto", "explicit"}, shape \in Shapes}

NoBook == [format |-> "none", text |-> << >>, plies |-> 1, order |-> "sequential",
           words |-> <<7>>, start |-> 0, wrap |-> FALSE]
Book(format, text, order, start, wrap) ==
    [NoBook EXCEPT !.format = format, !.text = text, !.plies = 2, !.order = order,
                   !.words = <<3, 0, 7, 1, 6, 2>>, !.start = start, !.wrap = wrap]

\* Every short text, and a longer one with every kind of line, blanks among them.
Longer == {<<"a", "b", "/", "/", "#", "a", "/", "?", "b", "/", "c", "c", "c", "/", "d", "a">>}
EpdTexts == SeqOf({"a", "b", "#", "/"}, 4) \cup Longer
LongPgn == {<<"[", "", "a", "b", "c", "", "[", "[", "*", "b", "?", "c", "[!", "a", "[", "*", "", "[", "c", "a", "">>}
PgnTexts == SeqOf({"[", "a", "*", ""}, 4) \cup LongPgn
Books ==
    {Book("epd", text, "random", 0, TRUE) : text \in EpdTexts}
        \cup {Book("pgn", text, "random", 0, FALSE) : text \in PgnTexts}

\* A book of three openings, read from the second, and one of two, used again.
Three == Book("epd", <<"a", "/", "#", "/", "b", "/", "c", "/">>, "random", 1, FALSE)
Two == Book("pgn", <<"[", "a", "b", "c", "[", "d">>, "sequential", 1, TRUE)

\* Played: three games, between three participants and between two.
MCPlans ==
    {[design |-> d, request |-> Plain, book |-> NoBook] : d \in Schedules \ {RoundRobin(3, 1, 1)}}
        \cup {[design |-> Gauntlet(3, 2, 1, 1), request |-> Plain, book |-> Three]}
        \cup {[design |-> RoundRobin(3, 1, 1), request |-> Plain, book |-> Two]}
        \cup {[design |-> RoundRobin(2, 1, 3), request |-> Wide, book |-> Two]}
        \cup {[design |-> RoundRobin(4, 1, 1), request |-> r, book |-> NoBook] : r \in Hosts}
        \cup {[design |-> RoundRobin(4, 1, 1), request |-> Plain, book |-> b] : b \in Books}
=============================================================================
