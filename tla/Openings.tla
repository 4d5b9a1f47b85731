------------------------------ MODULE Openings ------------------------------
(***************************************************************************)
(* The opening book of a run: how a file becomes a list of openings        *)
(* (openings.rs), in which order (rng.rs), whether the list is enough for  *)
(* a schedule, and which opening a game gets (MatchOpenings of             *)
(* match_runner.rs).  Functions only.                                      *)
(*                                                                         *)
(* A book is [format, text, plies, order, words, start, wrap].  The text   *)
(* of an EPD book is a sequence of characters, a line's first of which     *)
(* says what the line is: a member of Position, "?" for a line that is no  *)
(* position, "#" for a comment.  The text of a PGN book is a sequence of   *)
(* lines: "[" for a tag, "[!" for a FEN tag of no position, "" for a blank *)
(* line, "*" for movetext without a move, "?" for an illegal move, or a    *)
(* member of Position, which is then a move.  An opening is the sequence   *)
(* of what is played before the engines move.  `words` is the output of    *)
(* the generator for the run's seed, over and over.                        *)
(*                                                                         *)
(* A definition named X_Y is X with a mistake in it, for trying whether    *)
(* the properties notice; no specification uses it.                        *)
(***************************************************************************)
EXTENDS Order, SequencesExt

CONSTANT WordValues   \* bound: u64 has 2^64 words

ASSUME WordAssumption == WordValues \in Nat \ {0}

Position == {"a", "b", "c", "d"}
Newline == "/"

OpeningBook ==
    [format : {"none", "epd", "pgn"}, text : Seq(STRING), plies : Nat \ {0},
     order : {"sequential", "random"}, words : Seq(0..(WordValues - 1)), start : Nat, wrap : BOOLEAN]

-----------------------------------------------------------------------------
(* EPD *)

\* parse_epd_lines: an opening for each line that starts as a position.
ParseEpdLines(text) ==
    LET Usable(i) == (i = 1 \/ text[i - 1] = Newline) /\ text[i] \in Position
        at == InOrder({i \in DOMAIN text : Usable(i)})
    IN  [k \in DOMAIN at |-> <<text[at[k]]>>]

\* Mutant: the text is cut where the target falls.
CutAfter_Target(text, target) == target

\* The first line end at or behind the target, or the end of the text.
CutAfter(text, target) ==
    LET ends == {i \in (target + 1)..Len(text) : text[i] = Newline}
    IN  IF ends = {} THEN Len(text) ELSE CHOOSE i \in ends : \A k \in ends : i <= k

\* parse_epd_in_chunks: one part a thread, joined in the order of the file.
ParseEpd(text, threads) ==
    LET cuts == {CutAfter(text, (Len(text) * chunk) \div threads) : chunk \in 1..(threads - 1)}
        bounds == InOrder({0, Len(text)} \cup cuts)
    IN  IF threads <= 1 THEN ParseEpdLines(text)
        ELSE FlattenSeq([w \in 1..(Len(bounds) - 1) |->
                            ParseEpdLines(SubSeq(text, bounds[w] + 1, bounds[w + 1]))])

-----------------------------------------------------------------------------
(* PGN *)

IsTag(line) == line \in {"[", "[!"}

\* split_pgn_games: a tag behind movetext starts a new game.
SplitPgnGames(lines) ==
    LET InMoves(i) == \E k \in 1..(i - 1) :
            /\ lines[k] # "" /\ ~IsTag(lines[k])
            /\ \A j \in (k + 1)..(i - 1) : lines[j] = ""
        Starts(i) == IsTag(lines[i]) /\ InMoves(i)
        starts == InOrder({1, Len(lines) + 1} \cup {i \in DOMAIN lines : Starts(i)})
        games == [g \in 1..(Len(starts) - 1) |-> SubSeq(lines, starts[g], starts[g + 1] - 1)]
        NotBlank(game) == \E i \in DOMAIN game : game[i] # ""
    IN  Picked(games, {g \in DOMAIN games : NotBlank(games[g])})

\* parse_pgn_game: its first moves, up to the first that is illegal; nothing of
\* a game that starts nowhere.
ParsePgnGame(game, plies) ==
    LET Legal(i) == game[i] \in Position /\ \A k \in 1..i : game[k] # "?"
        at == InOrder({i \in DOMAIN game : Legal(i)})
        nowhere == \E i \in DOMAIN game : game[i] = "[!"
    IN  IF nowhere THEN << >>
        ELSE [k \in 1..(IF Len(at) < plies THEN Len(at) ELSE plies) |-> game[at[k]]]

ParsePgn(lines, plies) ==
    LET games == SplitPgnGames(lines)
        openings == [g \in DOMAIN games |-> ParsePgnGame(games[g], plies)]
    IN  Picked(openings, {g \in DOMAIN games : openings[g] # << >>})

\* audit_opening_book: how many candidates it has, and how many are usable.
Audit(book) ==
    LET text == book.text
        Candidate(i) == /\ i = 1 \/ text[i - 1] = Newline
                        /\ text[i] \notin {Newline, "#"}
        games == SplitPgnGames(text)
    IN  IF book.format = "epd"
        THEN [candidates |-> Cardinality({i \in DOMAIN text : Candidate(i)}),
              usable |-> Len(ParseEpdLines(text))]
        ELSE [candidates |-> Len(games),
              usable |-> Cardinality({g \in DOMAIN games : ParsePgnGame(games[g], book.plies) # << >>})]

-----------------------------------------------------------------------------
(* The order. *)

\* Mutant: no word is rejected.
Accepted_All(upper) == 0..(WordValues - 1)

\* bounded_u64: the words that are taken for a draw below `upper`.
Accepted(upper) == ((WordValues - upper) % upper)..(WordValues - 1)

\* The place of the first accepted word from some place on.
NextWord(words, from, upper) ==
    CHOOSE i \in from..(from + Len(words)) :
        /\ words[(i % Len(words)) + 1] \in Accepted(upper)
        /\ \A k \in from..(i - 1) : words[(k % Len(words)) + 1] \notin Accepted(upper)

\* shuffle: from the last place down, each is swapped with one up to itself.
Shuffled(list, words) ==
    LET after[k \in 0..(Len(list) - 1)] ==
            IF k = 0 THEN [list |-> list, next |-> 0]
            ELSE LET before == after[k - 1]
                     upper == Len(list) + 1 - k
                     at == NextWord(words, before.next, upper)
                     i == (words[(at % Len(words)) + 1] % upper) + 1
                     s == before.list
                 IN  [list |-> [s EXCEPT ![upper] = s[i], ![i] = s[upper]], next |-> at + 1]
    IN  after[Len(list) - 1].list

-----------------------------------------------------------------------------
(* What a schedule gets of a book. *)

\* The openings of a file, on a machine with this many threads.
InFile(book, threads) ==
    IF book.format = "epd" THEN ParseEpd(book.text, threads) ELSE ParsePgn(book.text, book.plies)

\* A book the generator has a word for every opening of, the last of which it gives.
IsBook(b) ==
    /\ b \in OpeningBook
    /\ \E i \in DOMAIN b.words : b.words[i] = WordValues - 1
    /\ Len(InFile(b, 1)) <= WordValues

\* load_openings_named.
LoadOpenings(book, threads) ==
    LET list == InFile(book, threads)
    IN  IF book.order = "random" /\ list # << >> THEN Shuffled(list, book.words) ELSE list

\* resolve_openings: a book that is too short for the schedule is refused unless
\* it may be used again.  `reused` is what the report says of that.
ResolveOpenings(book, required, threads) ==
    LET entries == LoadOpenings(book, threads)
        available == Len(entries)
        assigned == {(book.start + k) % available : k \in 0..(required - 1)}
    IN  CASE book.format = "none" ->
                [ok |-> TRUE, entries |-> << >>, start |-> 0, reused |-> 0]
          [] book.format # "none" /\ \/ book.start >= available
                                     \/ ~book.wrap /\ required > available - book.start ->
                [ok |-> FALSE, entries |-> << >>, start |-> 0, reused |-> 0]
          [] OTHER ->
                [ok |-> TRUE, entries |-> entries, start |-> book.start,
                 reused |-> required - Cardinality(assigned)]

NoBookIndex == -1
StartPosition == << >>

\* assignment: both games of a pair have one opening.
Assignment(openings, number) ==
    LET available == Len(openings.entries)
        index == (openings.start + ((number - 1) \div 2)) % available
    IN  IF available = 0 THEN StartPosition ELSE openings.entries[index + 1]

\* select_encounter: the index in the book, and the openings of a one-game match.
BookIndex(openings, encounter) ==
    IF openings.entries = << >> THEN NoBookIndex
    ELSE (openings.start + encounter - 1) % Len(openings.entries)

SelectEncounter(openings, encounter) ==
    IF openings.entries = << >> THEN openings
    ELSE [openings EXCEPT !.entries = <<openings.entries[BookIndex(openings, encounter) + 1]>>,
                          !.start = 0]

-----------------------------------------------------------------------------
(* What a book promises. *)

\* How often each value of S is taken by f.
Uses(f, S) == {Cardinality({x \in DOMAIN f : f[x] = v}) : v \in S}

\* The list a book gives does not depend on how many threads read it, and is all
\* the audit calls usable; a shuffle loses and doubles nothing, and draws each
\* place from as many words.
IsFaithful(book, threads) ==
    LET list == LoadOpenings([book EXCEPT !.order = "sequential"], 1)
        ordered == LoadOpenings(book, 1)
        Values(upper) == [w \in Accepted(upper) |-> w % upper]
    IN  book.format # "none" =>
        /\ \A t \in threads : LoadOpenings(book, t) = ordered
        /\ Len(list) = Audit(book).usable
        /\ Len(ordered) = Len(list)
        /\ \A v \in ToSet(list) : Uses(ordered, {v}) = Uses(list, {v})
        /\ \A upper \in 2..Len(list) :
              Cardinality(Uses(Values(upper), 0..(upper - 1))) = 1

\* No opening is used for two encounters unless the book may be used again, then
\* all of them about as often; and the report says how many encounters repeat one.
IsSharedOut(openings, encounters, wrap) ==
    LET used == [e \in encounters |-> BookIndex(openings, e)]
        uses == Uses(used, 0..(Len(openings.entries) - 1))
    IN  openings.entries # << >> =>
        /\ \A n, m \in uses : n <= m + 1
        /\ ~wrap => uses \subseteq {0, 1}
        /\ openings.reused = Cardinality({e \in encounters :
                                  \E d \in encounters : d < e /\ used[d] = used[e]})

=============================================================================
