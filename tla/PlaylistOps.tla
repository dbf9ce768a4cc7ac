---------------------------- MODULE PlaylistOps ----------------------------
(***************************************************************************)
(* The playlist's list-and-index algorithms (src/src/Playlist.cpp) and the *)
(* drag-and-drop reordering built from them                                *)
(* (src/src/UI/PlaylistItemModel.cpp), as operators on a record            *)
(*                                                                         *)
(*   items : the item objects, in playlist order          (mItems)         *)
(*   cur   : the 0-based index of the current item        (mCurrentItemIdx)*)
(*                                                                         *)
(* Indices are the 0-based ones of the C++ code; ItemAt does the shift.    *)
(* Playlist.tla adds the playback times, Player.tla the playing of it.     *)
(***************************************************************************)
EXTENDS Integers, Sequences, FiniteSets, SequencesExt

Playlists(Items) == [items : Seq(Items), cur : Nat]

EmptyPlaylist == [items |-> <<>>, cur |-> 0]

Size(pl) == Len(pl.items)

IsValidIndex(pl, i) == i >= 0 /\ i < Size(pl)

ItemAt(pl, i) == pl.items[i + 1]

ItemsOf(pl) == ToSet(pl.items)

(***************************************************************************)
(* What currentItem() may return: nothing for an empty list, the indexed   *)
(* item, and for an index past the end (undefined behaviour of vector's    *)
(* operator[] when assertions are compiled out) any item or nothing.       *)
(***************************************************************************)
CurrentItems(pl, Items, none) ==
  IF pl.items = <<>> THEN {none}
  ELSE IF IsValidIndex(pl, pl.cur) THEN {ItemAt(pl, pl.cur)}
  ELSE Items \cup {none}

HasNext(pl) == pl.cur + 1 < Size(pl)

(* nextItem() and prevItem() leave the list as it is when they return false. *)
NextItem(pl) == IF HasNext(pl) THEN [pl EXCEPT !.cur = @ + 1] ELSE pl

HasPrev(pl) == pl.cur > 0

PrevItem(pl) == IF HasPrev(pl) THEN [pl EXCEPT !.cur = @ - 1] ELSE pl

SetCurrentItem(pl, i) == [pl EXCEPT !.cur = i]

AddItem(pl, t) == [pl EXCEPT !.items = Append(@, t)]

(* Mutant: the comparison of insertItem() made strict. *)
InsertItemStrict(pl, i, t) ==
  LET at == IF i > Size(pl) THEN Size(pl) ELSE i
  IN  [items |-> InsertAt(pl.items, at + 1, t),
       cur   |-> IF at < pl.cur THEN pl.cur + 1 ELSE pl.cur]

InsertItem(pl, i, t) ==
  LET at == IF i > Size(pl) THEN Size(pl) ELSE i
  IN  [items |-> InsertAt(pl.items, at + 1, t),
       cur   |-> IF at <= pl.cur THEN pl.cur + 1 ELSE pl.cur]

(* insertItems() inserts one by one, at consecutive indices. *)
InsertItems(pl, i, ts) ==
  LET Inserted[n \in 0..Len(ts)] ==
        IF n = 0 THEN pl ELSE InsertItem(Inserted[n - 1], i + n - 1, ts[n])
  IN  Inserted[Len(ts)]

ReplaceItem(pl, i, t) == [pl EXCEPT !.items = ReplaceAt(@, i + 1, t)]

DeleteItem(pl, i) ==
  [items |-> RemoveAt(pl.items, i + 1),
   cur   |-> IF pl.cur > i THEN pl.cur - 1 ELSE pl.cur]

(* removeSong() erases every item of the song and leaves the index alone. *)
EraseItem(pl, i) == [pl EXCEPT !.items = RemoveAt(@, i + 1)]

RemoveItems(pl, S) ==
  LET Kept[n \in 0..Size(pl)] ==
        IF n = 0 THEN <<>>
        ELSE IF pl.items[n] \in S THEN Kept[n - 1] ELSE Append(Kept[n - 1], pl.items[n])
  IN  [pl EXCEPT !.items = Kept[Size(pl)]]

-----------------------------------------------------------------------------
(* moveItem(): the index at which the moved item ends up. *)
MoveTarget(from, to) == IF from < to THEN to - 1 ELSE to

(* The index of the current item after an item went from `from` to `target`. *)
CurAfterMove(cur, from, target) ==
  IF cur = from THEN target
  ELSE IF cur > from /\ cur < target THEN cur - 1
  ELSE IF cur < from /\ cur >= target THEN cur + 1
  ELSE cur

(* The shift loops: which old index ends up at index k. *)
MoveSource(k, from, target) ==
  IF k = target THEN from
  ELSE IF k > target /\ k <= from THEN k - 1
  ELSE IF k >= from /\ k < target THEN k + 1
  ELSE k

MoveItem(pl, from, to) ==
  LET target == MoveTarget(from, to)
  IN  [items |-> [k \in 1..Size(pl) |-> ItemAt(pl, MoveSource(k - 1, from, target))],
       cur   |-> CurAfterMove(pl.cur, from, target)]

(* The items whose playback times moveItem() clears. *)
ClearedByMove(pl, from, to) ==
  IF from # to /\ MoveTarget(from, to) < MoveItem(pl, from, to).cur
  THEN {ItemAt(pl, from)} ELSE {}

-----------------------------------------------------------------------------
(***************************************************************************)
(* PlaylistItemModel::dropMimeData(): the dragged rows are moved one by    *)
(* one, the lowest on screen first; the destination and the rows still to  *)
(* move are re-indexed after each one.                                     *)
(***************************************************************************)
(* Mutant: the rows still to move are not re-indexed. *)
ShiftedRowMissing(r, row, dest) == r

ShiftedRow(r, row, dest) ==
  IF r > dest /\ r < row THEN r + 1
  ELSE IF r > row /\ r < dest THEN r - 1
  ELSE r

DropOne(drag) ==
  LET row   == Max(drag.rows)
      moves == row # drag.dest /\ row + 1 # drag.dest
      dest  == IF row < drag.dest THEN drag.dest - 1 ELSE drag.dest
  IN  [pl      |-> IF moves THEN MoveItem(drag.pl, row, drag.dest) ELSE drag.pl,
       cleared |-> IF moves THEN drag.cleared \cup ClearedByMove(drag.pl, row, drag.dest) ELSE drag.cleared,
       dest    |-> dest,
       rows    |-> {ShiftedRow(r, row, dest) : r \in drag.rows \ {row}}]

Dropped(pl, rows, dest) ==
  LET D[n \in 0..Cardinality(rows)] ==
        IF n = 0 THEN [pl |-> pl, cleared |-> {}, dest |-> dest, rows |-> rows]
        ELSE DropOne(D[n - 1])
  IN  D[Cardinality(rows)]
=============================================================================
