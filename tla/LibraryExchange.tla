--------------------------- MODULE LibraryExchange ---------------------------
(***************************************************************************)
(* What a library collects during dances - when which song was played,     *)
(* what the dancers voted, what the user set and what was removed - and    *)
(* the import of another library's database                                *)
(* (src/src/DB/DatabaseImport.cpp, src/src/DB/Database.cpp).               *)
(*                                                                         *)
(* Each event begins a new day.  The clocks of the computers may differ:   *)
(* Now(lib) is what the library's computer takes the day for.  The         *)
(* manual value stands for the manual tag, the local rating, the skip      *)
(* start and the color, which are imported by the same rule.  Every change *)
(* is saved at once, so the tables hold what the memory does; a value that *)
(* is not present is NULL there and is read back as the Default.           *)
(***************************************************************************)
EXTENDS Naturals, Integers, FiniteSets, Sequences, SequencesExt

CONSTANTS
  Libraries,
  Known,       \* the songs in each library
  Categories,  \* what is voted on
  RhythmClarity, \* the first of them
  Values,      \* what may be voted or set
  Default,     \* the value of a type that nothing was assigned to
  Skew,        \* by how many days each library's clock is ahead
  OptionSets,     \* the sets of import options that the user may check
  MaxDays,     \* bound on the events
  MaxImports   \* bound on the imports

Options == {"manualTag", "lastPlayedDate", "communityRating", "playbackHistory", "deletionHistory"}

Songs == UNION {Known[lib] : lib \in Libraries}

ASSUME LibraryExchangeAssumption ==
  /\ Skew \in [Libraries -> Nat] /\ DOMAIN Known = Libraries
  /\ RhythmClarity \in Categories /\ Values \subseteq Nat /\ Default \in Nat
  /\ OptionSets \subseteq SUBSET Options
  /\ {MaxDays, MaxImports} \subseteq Nat

VARIABLES
  shared,   \* the shared data of each library's songs
  history,  \* table PlaybackHistory
  votes,    \* tables VotesRhythmClarity, ...
  removed,  \* table RemovedSongs
  day, imports,
  cast      \* history: how long the table of votes was when a song was last voted on

exchangeVars == <<shared, history, votes, removed, day, imports, cast>>

Now(lib) == day + Skew[lib]

(* The date of an event. *)
Tomorrow(lib) == Now(lib) + 1

-----------------------------------------------------------------------------
(* Dated values: date 0 is a null date. *)

Unset == [present |-> FALSE, value |-> Default, date |-> 0]

Dated(value, date) == [present |-> TRUE, value |-> value, date |-> date]

Cleared(dated) == [dated EXCEPT !.present = FALSE]

(* What is read from the columns that the value was saved to. *)
Reloaded(dated) == IF dated.present THEN dated ELSE [dated EXCEPT !.value = Default]

(* Mutant: the date of the own value is not looked at. *)
UpdatedAlways(own, other) == IF other.date = 0 THEN own ELSE [other EXCEPT !.present = TRUE]

UpdatedIfNewer(own, other) ==
  IF other.date = 0 \/ own.date > other.date THEN own ELSE [other EXCEPT !.present = TRUE]

(* An average is kept as the sum and the number of what it is made of. *)
AverageOf(table, hash) ==
  LET own == SelectSeq(table, LAMBDA vote : vote.hash = hash)
  IN  <<FoldLeft(LAMBDA sum, vote : sum + vote.value, 0, own), Len(own)>>

(* Mutant: the average is of now. *)
AverageVotesDated(table, hash) == IF AverageOf(table, hash)[2] > 0 THEN Dated(AverageOf(table, hash), day) ELSE Unset

(* As the import computes it: without a date. *)
AverageVotes(table, hash) ==
  IF AverageOf(table, hash)[2] > 0 THEN Dated(AverageOf(table, hash), 0) ELSE Unset

-----------------------------------------------------------------------------
(* The merging of two tables. *)

ByTime(table) ==
  LET isBefore(i, j) == table[i].time < table[j].time \/ (table[i].time = table[j].time /\ i < j)
      place(i) == 1 + Cardinality({j \in DOMAIN table : isBefore(j, i)})
  IN  [n \in DOMAIN table |-> table[CHOOSE i \in DOMAIN table : place(i) = n]]

(* The rows of one table that are not in the other, told by their times. *)
Missing(from, to) ==
  LET add[at \in (1..Len(from) + 1) \X (1..Len(to) + 1)] ==
        LET i == at[1]
            j == at[2]
        IN  IF i > Len(from) THEN <<>>
            ELSE IF j > Len(to) THEN SubSeq(from, i, Len(from))
            ELSE IF from[i].time = to[j].time THEN add[<<i + 1, j + 1>>]
            ELSE IF from[i].time > to[j].time THEN add[<<i, j + 1>>]
            ELSE <<from[i]>> \o add[<<i + 1, j>>]
  IN  add[<<1, 1>>]

(* The votes are read in the order of their times, the other tables in that *)
(* of their rows.                                                           *)
LoadVotes(table) == ByTime(table)

PlaybackHistory(lib) == history[lib]

RemovedSongs(lib) == removed[lib]

AddPlaybackHistory(table, rows) == table \o rows

AddVotes(table, rows) == table \o rows

(* Removals of songs that the library does not know are refused by the table. *)
Accepted(rows, known) ==
  LET Kept[n \in 0..Len(rows)] ==
        IF n = 0 THEN <<>> ELSE IF rows[n].hash \in known THEN Append(Kept[n - 1], rows[n]) ELSE Kept[n - 1]
  IN  Kept[Len(rows)]

AddSongRemovalHistory(table, rows, known) == table \o Accepted(rows, known)

(* Mutant: the tables are merged in the order of their rows. *)
PlaybackMergedUnsorted(to, from) == AddPlaybackHistory(to, Missing(from, to))

PlaybackMerged(to, from) == AddPlaybackHistory(to, Missing(ByTime(from), ByTime(to)))

VotesMerged(to, from) == AddVotes(to, Missing(LoadVotes(from), LoadVotes(to)))

(* Not sorted before they are merged. *)
RemovalsMerged(to, from, known) == AddSongRemovalHistory(to, Missing(from, to), known)

-----------------------------------------------------------------------------
Init ==
  /\ shared = [lib \in Libraries |-> [hash \in Known[lib] |->
                 [manual |-> Unset, lastPlayed |-> Unset, rating |-> [c \in Categories |-> Unset]]]]
  /\ history = [lib \in Libraries |-> <<>>]
  /\ votes = [lib \in Libraries |-> [c \in Categories |-> <<>>]]
  /\ removed = [lib \in Libraries |-> <<>>]
  /\ day = 0 /\ imports = 0
  /\ cast = [lib \in Libraries |-> [c \in Categories |-> [hash \in Songs |-> 0]]]

DayBegins == day < MaxDays /\ day' = day + 1

WithPlayback(table, time, hash) == Append(table, [time |-> time, hash |-> hash])

SongPlaybackStarted(lib, hash) ==
  /\ DayBegins /\ hash \in Known[lib]
  /\ shared' = [shared EXCEPT ![lib][hash].lastPlayed = Dated(Tomorrow(lib), Tomorrow(lib))]
  /\ history' = [history EXCEPT ![lib] = WithPlayback(@, Tomorrow(lib), hash)]
  /\ UNCHANGED <<votes, removed, imports, cast>>

(* The hash comes from a client and need not be that of a song in the library. *)
AddVote(lib, c, hash, value) ==
  LET table == Append(votes[lib][c], [time |-> Tomorrow(lib), hash |-> hash, value |-> value])
  IN  /\ DayBegins
      /\ votes' = [votes EXCEPT ![lib][c] = table]
      /\ IF hash \in Known[lib]
         THEN shared' = [shared EXCEPT ![lib][hash].rating[c] = Dated(AverageOf(table, hash), Tomorrow(lib))]
         ELSE UNCHANGED shared
      /\ cast' = [cast EXCEPT ![lib][c][hash] = Len(table)]
      /\ UNCHANGED <<history, removed, imports>>

SetManual(lib, hash, value) ==
  /\ DayBegins /\ hash \in Known[lib]
  /\ shared' = [shared EXCEPT ![lib][hash].manual = Dated(value, Tomorrow(lib))]
  /\ UNCHANGED <<history, votes, removed, imports, cast>>

ClearManual(lib, hash) ==
  /\ DayBegins /\ hash \in Known[lib]
  /\ shared' = [shared EXCEPT ![lib][hash].manual = Cleared(@)]
  /\ UNCHANGED <<history, votes, removed, imports, cast>>

(* The song's file goes, its shared data stay. *)
RemoveSong(lib, hash) ==
  /\ DayBegins /\ hash \in Known[lib]
  /\ removed' = [removed EXCEPT ![lib] = Append(@, [time |-> Tomorrow(lib), hash |-> hash])]
  /\ UNCHANGED <<shared, history, votes, imports, cast>>

ClearRemovedSongs(lib) ==
  /\ removed[lib] # <<>>
  /\ removed' = [removed EXCEPT ![lib] = <<>>]
  /\ UNCHANGED <<shared, history, votes, day, imports, cast>>

(* The shared data that an import leaves: the averages of all categories   *)
(* are made from the votes on the rhythm clarity.                          *)
SharedMerged(to, from, options, rhythmVotes) ==
  [hash \in DOMAIN to |->
    LET own == to[hash]
        both == hash \in DOMAIN from
    IN  [manual |-> IF both /\ "manualTag" \in options
                    THEN UpdatedIfNewer(own.manual, Reloaded(from[hash].manual)) ELSE own.manual,
         lastPlayed |-> IF both /\ "lastPlayedDate" \in options
                        THEN UpdatedIfNewer(own.lastPlayed, Reloaded(from[hash].lastPlayed)) ELSE own.lastPlayed,
         rating |-> [c \in Categories |->
                      IF "communityRating" \in options
                      THEN UpdatedIfNewer(own.rating[c], AverageVotes(rhythmVotes, hash)) ELSE own.rating[c]]]]

Import(to, from, options) ==
  LET merged == [c \in Categories |-> VotesMerged(votes[to][c], votes[from][c])]
      votesAfter == IF "communityRating" \in options THEN merged ELSE votes[to]
  IN  /\ imports < MaxImports /\ imports' = imports + 1
      /\ shared' = [shared EXCEPT ![to] = SharedMerged(@, shared[from], options, votesAfter[RhythmClarity])]
      /\ votes' = [votes EXCEPT ![to] = votesAfter]
      /\ history' = IF "playbackHistory" \in options
                    THEN [history EXCEPT ![to] = PlaybackMerged(@, PlaybackHistory(from))] ELSE history
      /\ removed' = IF "deletionHistory" \in options
                    THEN [removed EXCEPT ![to] = RemovalsMerged(@, RemovedSongs(from), Known[to])] ELSE removed
      /\ UNCHANGED <<day, cast>>

-----------------------------------------------------------------------------
(* The random pick of a song (Database::getSongWeight). *)

NumDays(lib, hash) == Now(lib) - shared[lib][hash].lastPlayed.date

Divisor(days) == days + 2

(* The weight of a song that has been played, in its first step. *)
Penalized(days) == (10000 * (days + 1)) \div Divisor(days)

Next ==
  \E lib \in Libraries :
    \/ \E hash \in Songs :
         \/ SongPlaybackStarted(lib, hash)
         \/ RemoveSong(lib, hash)
         \/ ClearManual(lib, hash)
         \/ \E value \in Values : SetManual(lib, hash, value) \/ \E c \in Categories : AddVote(lib, c, hash, value)
    \/ ClearRemovedSongs(lib)
    \/ \E from \in Libraries \ {lib}, options \in OptionSets : Import(lib, from, options)

Spec == Init /\ [][Next]_exchangeVars

-----------------------------------------------------------------------------
CountAt(table, time) == Cardinality({i \in DOMAIN table : table[i].time = time})

Times(table) == {table[i].time : i \in DOMAIN table}

(* As many rows of each moment as the table that had more of them. *)
IsMerged(result, own, other) ==
  /\ IsPrefix(own, result)
  /\ Times(result) = Times(own) \cup Times(other)
  /\ \A time \in Times(result) :
       CountAt(result, time) = Max({CountAt(own, time), CountAt(other, time)})

(* Whatever has been imported before, in either direction, an import of the *)
(* playback history or the votes brings each row of the other library once: *)
(* the merge of two lists by their times finds what is missing and nothing  *)
(* that is there.  A removal of a song that the library knows is not missed.*)
HistoriesMerged ==
  [][\A to, from \in Libraries, options \in OptionSets : Import(to, from, options) =>
       /\ "playbackHistory" \in options => IsMerged(history'[to], history[to], history[from])
       /\ "communityRating" \in options =>
            \A c \in Categories : IsMerged(votes'[to][c], votes[to][c], votes[from][c])
       /\ "deletionHistory" \in options =>
            \A row \in ToSet(removed[from]) : row.hash \in Known[to] => row.time \in Times(removed'[to])
    ]_exchangeVars

VotedOn(table, hash) == \E k \in DOMAIN table : table[k].hash = hash

(* A rating by the community is the average of this library's votes on this *)
(* very question, of all that were there when the song was last voted on    *)
(* here, or at some moment since: an import brings neither a rating of the  *)
(* other library nor the average of another question, and no vote is        *)
(* forgotten.  Whether it counts the votes that it brings, this leaves open.*)
RatingsAreOfVotes ==
  \A lib \in Libraries, c \in Categories : \A hash \in Known[lib] :
    LET rating == shared[lib][hash].rating[c]
    IN  /\ cast[lib][c][hash] > 0 => rating.present
        /\ rating.present =>
             \E n \in cast[lib][c][hash]..Len(votes[lib][c]) :
               LET counted == SubSeq(votes[lib][c], 1, n)
               IN  VotedOn(counted, hash) /\ rating.value = AverageOf(counted, hash)

(* "Update the aggregated ratings" (DatabaseImport.cpp:130): an import of   *)
(* the votes leaves each song's ratings the averages of the votes that are  *)
(* there then.  The code does not do that: the averages have no date, so no *)
(* rating is older, and all are of the votes on the rhythm clarity.         *)
ImportUpdatesRatings ==
  [][\A to, from \in Libraries, options \in OptionSets :
       Import(to, from, options) /\ "communityRating" \in options =>
         \A hash \in Known[to], c \in Categories :
           LET rating == shared'[to][hash].rating[c]
           IN  VotedOn(votes'[to][c], hash) => rating.present /\ rating.value = AverageOf(votes'[to][c], hash)
    ]_exchangeVars

(* When two libraries import from each other, one after the other, they     *)
(* agree on every value and date that neither of them has cleared, and the  *)
(* value is the one that was set last.                                      *)
ExchangeConverges ==
  \A lib, other \in Libraries : lib # other =>
    LET mine == SharedMerged(shared[lib], shared[other], Options, <<>>)
        theirs == SharedMerged(shared[other], mine, Options, <<>>)
    IN  \A hash \in Known[lib] \cap Known[other] :
          LET old == {shared[lib][hash].manual, shared[other][hash].manual}
          IN  /\ mine[hash].lastPlayed = theirs[hash].lastPlayed
              /\ (\A dated \in old : dated.date = 0 \/ dated.present) =>
                   /\ mine[hash].manual = theirs[hash].manual /\ mine[hash].manual \in old
                   /\ \A dated \in old : dated.date <= mine[hash].manual.date

WeightDefined(days) == Divisor(days) > 0 /\ Penalized(days) \in 0..10000

(* With clocks at most a day apart, the weight of a song in a random pick   *)
(* is defined and not negative, also when the date on which it was last     *)
(* played comes from the other library.                                     *)
WeightsDefined ==
  \A lib \in Libraries : \A hash \in Known[lib] :
    shared[lib][hash].lastPlayed.present => WeightDefined(NumDays(lib, hash))

(* DatedOptional.hpp:256, Database.cpp:1946: the dates that came from another *)
(* clock decide between the values as they should, and divide by no zero.     *)
DatesCarryOver == ExchangeConverges /\ WeightsDefined
=============================================================================
