------------------------------ MODULE SongTable ------------------------------
(***************************************************************************)
(* The dialog with the table of the library's songs                        *)
(* (src/src/UI/Dlg/DlgSongs.cpp): the model of the songs with its filter   *)
(* (src/src/UI/SongModel.cpp), the sorting proxy on top of them, what the  *)
(* user does to the selected rows, and the songs that change meanwhile.    *)
(*                                                                         *)
(* The rows are cached: they change when the library says so (a song was   *)
(* added, saved, removed) or when the filter does, and at no other time.   *)
(* A tag is one value, 0 is the empty one; songs with equal keys are       *)
(* ordered by their numbers.                                               *)
(***************************************************************************)
EXTENDS Integers, Sequences, FiniteSets, SequencesExt

CONSTANTS
  Files,       \* the song files, numbered by their names
  HashOf,      \* the hash of each file: the files of one hash share their data
  MaxTag,      \* bound: the tags are 0..MaxTag
  MaxRating,   \* bound: the ratings are 0..MaxRating
  SearchTicks, \* the ticks of the timer from the last edit of a search text to its use
  MaxSteps     \* bound on what the user and the library do; closing a dialog is free

Hashes == {HashOf[f] : f \in Files}
Tags == 0..MaxTag
Gone == -1     \* in place of the tag of a file that is not on the disk
Idle == -2     \* no scan of the file is under way
Queued == -3   \* one is queued; once it has read the tag, the tag stands in its place

ASSUME SongTableAssumption ==
  /\ Files \subseteq Nat /\ IsFiniteSet(Files) /\ DOMAIN HashOf = Files
  /\ {MaxTag, MaxRating, SearchTicks, MaxSteps} \subseteq Nat \ {0}

VARIABLES
  lib,    \* the library: the songs, the ID3 tags, what is on the disk, the shared tags and ratings
  scans,  \* the scans of the songs' tags
  tbl,    \* the dialog: whether open, filter, search text, order, rows, label
  ask,    \* the question that the user has to answer
  fault,  \* "none", or what ended the program
  steps

NoAsk == [from |-> "nowhere", songs |-> <<>>, delete |-> FALSE]
NoTable == [open |-> FALSE, flt |-> "all", search |-> 0, typed |-> 0, ticks |-> 0,
            sort |-> "name", rows |-> <<>>, total |-> 0, written |-> {}]

\* The elements of a list that are in a set, in the order of the list
Among(list, S) ==
  LET Kept[n \in 0..Len(list)] ==
        IF n = 0 THEN <<>> ELSE IF list[n] \in S THEN Append(Kept[n - 1], list[n]) ELSE Kept[n - 1]
  IN  Kept[Len(list)]

\* A list in which no element is twice without an element
Without(list, f) == RemoveFirst(list, f)

Duplicates(l, h) == Among(l.songs, {f \in Files : HashOf[f] = h})

-----------------------------------------------------------------------------
(* Filtering and sorting *)

MatchesSearch(l, text, f) == text \in {0, l.id3[f], l.manual[HashOf[f]]}

Primary(l, f) == IF l.manual[HashOf[f]] # 0 THEN l.manual[HashOf[f]] ELSE l.id3[f]

Accepts(l, t, f) ==
  /\ CASE t.flt = "noId3"      -> l.id3[f] = 0
       [] t.flt = "noGenre"    -> Primary(l, f) = 0
       [] t.flt = "duplicates" -> Len(Duplicates(l, HashOf[f])) > 1
       [] t.flt = "all"        -> TRUE
  /\ MatchesSearch(l, t.search, f)

Before(l, t, f, g) ==
  LET rf == l.rating[HashOf[f]]  rg == l.rating[HashOf[g]]
  IN IF t.sort = "rating" /\ rf # rg THEN rf > rg ELSE f < g

Placed(l, t, rows, f) ==
  InsertAt(rows, 1 + Cardinality({i \in DOMAIN rows : Before(l, t, rows[i], f)}), f)

\* The songs of a list are placed among the rows one after another
AllPlaced(l, t, rows, list) ==
  LET Placing[n \in 0..Len(list)] == IF n = 0 THEN rows ELSE Placed(l, t, Placing[n - 1], list[n])
  IN  Placing[Len(list)]

\* for comparison: a saved song is moved, and not filtered
RefreshedUnfiltered(l, t, f) ==
  [t EXCEPT !.rows = Placed(l, t, Without(t.rows, f), f)]

\* The row of a song that was saved: it leaves, stays or moves
Refreshed(l, t, f) ==
  LET others == Without(t.rows, f)
  IN [t EXCEPT !.rows = IF Accepts(l, t, f) THEN Placed(l, t, others, f) ELSE others]

\* songChanged(), on the signal of saveSong()
Saved(l, t, f) == IF t.open /\ f \in ToSet(l.songs) THEN Refreshed(l, t, f) ELSE t

WithStats(l, t) == [t EXCEPT !.total = Len(l.songs)]

\* Another filter or search text: rows leave and come, the others stay where they are
Refiltered(l, t) ==
  LET accepted == {f \in Files : Accepts(l, t, f)}
      kept == Among(t.rows, accepted)
      new == Among(l.songs, accepted \ ToSet(t.rows))
  IN WithStats(l, [t EXCEPT !.rows = AllPlaced(l, t, kept, new), !.written = {}])

Resorted(l, t) == [t EXCEPT !.rows = AllPlaced(l, t, <<>>, @)]

-----------------------------------------------------------------------------
(* The library's side *)

\* The file goes from the disk as well, unless it is to stay or cannot be deleted, which only
\* the log is told
RemoveSong(s, f, deleted) ==
  LET l == [s.l EXCEPT !.songs = Without(@, f),
                       !.disk[f] = IF f \in deleted THEN Gone ELSE @]
      t == [s.t EXCEPT !.rows = Without(@, f)]
  IN [l |-> l, t |-> IF t.open THEN WithStats(l, t) ELSE t]

\* for comparison: the list of the duplicates is walked while the songs leave it
RemoveAllLive(s, fs, deleted) ==
  FoldLeft(LAMBDA acc, i : LET live == Among(fs, ToSet(acc.l.songs))
                           IN IF i > Len(live) THEN acc ELSE RemoveSong(acc, live[i], deleted),
           s, [i \in DOMAIN fs |-> i])

\* The songs that the user was asked about are removed one after another
RemoveAll(s, fs, deleted) ==
  LET Removed[n \in 0..Len(fs)] == IF n = 0 THEN s ELSE RemoveSong(Removed[n - 1], fs[n], deleted)
  IN  Removed[Len(fs)]

\* A file has been hashed: its song is created and its tag is to be scanned.  A scan that is still
\* under way is that of a song that was removed, which nobody sees any more
SongAdded(f) ==
  /\ f \notin ToSet(lib.songs) /\ lib.disk[f] # Gone
  /\ LET l == [lib EXCEPT !.songs = Append(@, f), !.id3[f] = 0]
     IN /\ lib' = l
        /\ tbl' = IF tbl.open THEN WithStats(l, IF Accepts(l, tbl, f) THEN Refreshed(l, tbl, f) ELSE tbl) ELSE tbl
  /\ scans' = [scans EXCEPT ![f] = Queued]
  /\ UNCHANGED ask

\* A task reads the tag in the file and, later, stores it in the song, in place of one that may
\* have been written meanwhile; no window is told
ScanReads(f) ==
  /\ scans[f] = Queued
  /\ scans' = [scans EXCEPT ![f] = IF lib.disk[f] = Gone THEN Idle ELSE lib.disk[f]]
  /\ UNCHANGED <<lib, tbl, ask>>

ScanStores(f) ==
  /\ scans[f] \notin {Idle, Queued}
  /\ lib' = [lib EXCEPT !.id3[f] = scans[f]]
  /\ scans' = [scans EXCEPT ![f] = Idle]
  /\ tbl' = [tbl EXCEPT !.written = @ \ {f}]
  /\ UNCHANGED ask

-----------------------------------------------------------------------------
(* The user in the dialog *)

OpenTable == Refiltered(lib, [NoTable EXCEPT !.open = TRUE])

\* The rows that are selected, in the order in which selectedRows() lists them
Selections == UNION {SetToSeqs(S) : S \in SUBSET (DOMAIN tbl.rows) \ {{}}}

ChooseFilter(flt) ==
  /\ tbl.flt # flt
  /\ tbl' = Refiltered(lib, [tbl EXCEPT !.flt = flt])
  /\ UNCHANGED <<lib, scans, ask, fault>>

TypeSearch(text) ==
  /\ tbl' = [tbl EXCEPT !.typed = text, !.ticks = SearchTicks]
  /\ UNCHANGED <<lib, scans, ask, fault>>

SortBy(column) ==
  /\ tbl.sort # column
  /\ tbl' = Resorted(lib, [tbl EXCEPT !.sort = column])
  /\ UNCHANGED <<lib, scans, ask, fault>>

\* setData(): the shared tag is edited in a cell
EditCell(f, tag) ==
  /\ f \in ToSet(tbl.rows)
  /\ LET l == [lib EXCEPT !.manual[HashOf[f]] = tag]
     IN lib' = l /\ tbl' = Saved(l, tbl, f)
  /\ UNCHANGED <<scans, ask, fault>>

\* Each selected row is looked up after the songs before it have been saved.  A row that is
\* not there any more is skipped here ...
RateRow(s, row, rating) ==
  IF row > Len(s.t.rows) THEN s
  ELSE LET f == s.t.rows[row]  l == [s.l EXCEPT !.rating[HashOf[f]] = rating]
       IN [s EXCEPT !.l = l, !.t = Saved(l, s.t, f)]

RateSelected(sel, rating) ==
  LET Rated[n \in 0..Len(sel)] ==
        IF n = 0 THEN [l |-> lib, t |-> tbl] ELSE RateRow(Rated[n - 1], sel[n], rating)
      end == Rated[Len(sel)]
  IN lib' = end.l /\ tbl' = end.t /\ UNCHANGED <<scans, ask, fault>>

\* ... and not expected where tags are written: assert(song != nullptr)
MoveRow(s, row, writable) ==
  IF s.bad \/ row > Len(s.t.rows) THEN [s EXCEPT !.bad = TRUE]
  ELSE LET f == s.t.rows[row]
           manual == s.l.manual[HashOf[f]]
           tag == IF manual # 0 THEN manual ELSE s.l.disk[f]
           l == [s.l EXCEPT !.id3[f] = tag, !.manual[HashOf[f]] = 0,
                            !.disk[f] = IF f \in writable THEN tag ELSE @]
       IN IF s.l.disk[f] = Gone THEN s
          ELSE [s EXCEPT !.l = l, !.t = Saved(l, [s.t EXCEPT !.written = @ \cup {f}], f)]

MoveManualToId3(sel, writable) ==
  LET Moved[n \in 0..Len(sel)] ==
        IF n = 0 THEN [l |-> lib, t |-> tbl, bad |-> FALSE] ELSE MoveRow(Moved[n - 1], sel[n], writable)
      end == Moved[Len(sel)]
  IN /\ lib' = end.l /\ tbl' = end.t
     /\ fault' = IF end.bad THEN "assert" ELSE fault
     /\ UNCHANGED <<scans, ask>>

RescanMetadata(sel) ==
  /\ scans' = [f \in Files |-> IF scans[f] = Idle /\ \E i \in DOMAIN sel : tbl.rows[sel[i]] = f
                               THEN Queued ELSE scans[f]]
  /\ UNCHANGED <<lib, tbl, ask, fault>>

\* removeSelected(), deleteFromDisk(): the songs are collected before the question
AskToRemove(sel, delete) ==
  /\ ask' = [from |-> "table", songs |-> [i \in DOMAIN sel |-> tbl.rows[sel[i]]], delete |-> delete]
  /\ UNCHANGED <<lib, scans, tbl, fault>>

CloseTable == tbl' = NoTable

\* periodicUiUpdate()
TableTick ==
  /\ tbl.ticks > 0
  /\ LET t == [tbl EXCEPT !.ticks = @ - 1]
     IN tbl' = IF t.ticks = 0 THEN Refiltered(lib, [t EXCEPT !.search = t.typed]) ELSE t
  /\ UNCHANGED <<lib, scans, ask>>

TableAction ==
  \/ \E flt \in {"all", "noId3", "noGenre", "duplicates"} : ChooseFilter(flt)
  \/ \E text \in Tags : TypeSearch(text)
  \/ \E column \in {"name", "rating"} : SortBy(column)
  \/ \E f \in Files, tag \in Tags : EditCell(f, tag)
  \/ \E sel \in Selections :
       \/ \E rating \in 0..MaxRating : RateSelected(sel, rating)
       \/ \E writable \in SUBSET {tbl.rows[i] : i \in ToSet(sel)} : MoveManualToId3(sel, writable)
       \/ RescanMetadata(sel)
       \/ \E delete \in BOOLEAN : AskToRemove(sel, delete)

LibraryInit ==
  /\ \E all \in SetToSeqs(Files), n \in (Cardinality(Files) - 1)..Cardinality(Files) :
     /\ \A i, j \in DOMAIN all : i < j => all[i] < all[j]
     /\ lib = [songs |-> SubSeq(all, 1, n), id3 |-> [f \in Files |-> 0],
              disk |-> [f \in Files |-> 0], manual |-> [h \in Hashes |-> 1],
              rating |-> [h \in Hashes |-> 0]]
  /\ scans = [f \in Files |-> Idle] /\ tbl = NoTable /\ ask = NoAsk
  /\ fault = "none" /\ steps = 0
==============================================================================
