------------------------------ MODULE Playlist ------------------------------
(***************************************************************************)
(* The playlist (src/src/Playlist.cpp, IPlaylistItem.hpp) with the         *)
(* wall-clock times it predicts for its items, and every operation through *)
(* which the windows, the importer, the database and the player change it. *)
(*                                                                         *)
(* All of it runs in the main thread, so each operation is one step.  The  *)
(* player's part (it sets the times of the item it starts) is TrackStarted *)
(* and PlaybackStopped; how the player gets there is the subject of        *)
(* Player.tla.                                                             *)
(***************************************************************************)
EXTENDS PlaylistOps

CONSTANTS
  Items,        \* the item objects (IPlaylistItem instances)
  Songs,        \* the songs
  SongOf,       \* the song of each item
  Length,       \* displayLength() of each item, -1 when not known
  Limit,        \* durationLimit() of each item, -1 when there is none
  NoTime,       \* the null QDateTime
  NoItem,       \* the null item pointer
  Instants,     \* the clock readings at which a track may start
  MaxItems,     \* bound: the longest playlist and the largest index explored
  Horizon       \* bound: the latest time of an item explored

ASSUME PlaylistAssumption ==
  /\ SongOf \in [Items -> Songs]
  /\ Length \in [Items -> Int]
  /\ Limit \in [Items -> Int]
  /\ Instants \subseteq Nat
  /\ NoTime \notin Int
  /\ NoItem \notin Items
  /\ MaxItems \in Nat
  /\ Horizon \in Nat

VARIABLES
  pl,           \* the items and the current index
  times         \* mPlaybackStarted and mPlaybackEnded of each item

vars == <<pl, times>>

MaybeTime == Int \cup {NoTime}

NoTimes == [started |-> NoTime, ended |-> NoTime]

TypeOK ==
  /\ pl \in Playlists(Items)
  /\ times \in [Items -> [started : MaybeTime, ended : MaybeTime]]

Fresh == Items \ ItemsOf(pl)

-----------------------------------------------------------------------------
(* totalPlaybackDuration() *)
Duration(t) == IF Limit[t] > 0 /\ Limit[t] < Length[t] THEN Limit[t] ELSE Length[t]

(* QDateTime::addMSecs(): a null time stays null. *)
Plus(time, dur) == IF time = NoTime THEN NoTime ELSE time + dur

(***************************************************************************)
(* updateItemsStartEndTimes(last + 1): the items after index last are      *)
(* scheduled back to back from the end of the item at last.                *)
(***************************************************************************)
EndsFrom(ts, p, last) ==
  LET End[k \in last..(Size(p) - 1)] ==
        IF k = last THEN ts[ItemAt(p, last)].ended
        ELSE Plus(End[k - 1], Duration(ItemAt(p, k)))
  IN  End

IndicesAfter(p, last, t) == {k \in (last + 1)..(Size(p) - 1) : ItemAt(p, k) = t}

TimesAt(End, k) == [started |-> End[k - 1], ended |-> End[k]]

WithTimesAfter(ts, p, last) ==
  [t \in Items |->
     IF IndicesAfter(p, last, t) = {} THEN ts[t]
     ELSE TimesAt(EndsFrom(ts, p, last), Max(IndicesAfter(p, last, t)))]

(* Mutant: the whole list is rescheduled from its first item. *)
WithUpdatedTimesFromFirst(ts, p) ==
  IF IsValidIndex(p, p.cur) THEN WithTimesAfter(ts, p, 0) ELSE ts

(* Mutant: the update leaves the last item out. *)
WithUpdatedTimesShort(ts, p) ==
  IF IsValidIndex(p, p.cur)
  THEN WithTimesAfter(ts, [p EXCEPT !.items = Front(@)], p.cur) ELSE ts

(* updateItemTimesFromCurrent() *)
WithUpdatedTimes(ts, p) ==
  IF IsValidIndex(p, p.cur) THEN WithTimesAfter(ts, p, p.cur) ELSE ts

(* The item objects outside the playlist are gone; a new one has no times. *)
Forgetting(ts, S) == [t \in Items |-> IF t \in S THEN NoTimes ELSE ts[t]]

(* insertItems(): each insertion past the current item updates the times. *)
TimesAfterInsert(old, p, i, ts) ==
  LET T[n \in 0..Len(ts)] ==
        IF n = 0 THEN old
        ELSE LET q == InsertItems(p, i, SubSeq(ts, 1, n))
             IN  IF i + n - 1 > q.cur THEN WithUpdatedTimes(T[n - 1], q) ELSE T[n - 1]
  IN  T[Len(ts)]

-----------------------------------------------------------------------------
Init ==
  /\ pl = EmptyPlaylist
  /\ times = [t \in Items |-> NoTimes]

Add(t) ==
  /\ t \in Fresh
  /\ Size(pl) < MaxItems
  /\ pl' = AddItem(pl, t)
  /\ times' = WithUpdatedTimes(times, pl')

(***************************************************************************)
(* insertItems() at index i, as the importer calls it (loadPlaylist() adds *)
(* below the selected row, or at the end) and, with one item, the song     *)
(* list and the quick player.                                              *)
(***************************************************************************)
Insert(i, ts) ==
  /\ ToSet(ts) \subseteq Fresh
  /\ IsInjective(ts)
  /\ Size(pl) + Len(ts) <= MaxItems
  /\ pl' = InsertItems(pl, i, ts)
  /\ times' = TimesAfterInsert(times, pl, i, ts)

Replace(i, t) ==
  /\ IsValidIndex(pl, i)
  /\ t \in Fresh
  /\ pl' = ReplaceItem(pl, i, t)
  /\ LET kept == Forgetting(times, {ItemAt(pl, i)})
     IN  times' = IF i > pl.cur THEN WithUpdatedTimes(kept, pl') ELSE kept

Delete(i) ==
  /\ IsValidIndex(pl, i)
  /\ pl' = DeleteItem(pl, i)
  /\ times' = Forgetting(times, {ItemAt(pl, i)})

RemoveSong(s) ==
  LET S == {t \in ItemsOf(pl) : SongOf[t] = s}
  IN  /\ S # {}
      /\ pl' = RemoveItems(pl, S)
      /\ times' = Forgetting(times, S)

(* dropMimeData() of the selected rows above the row dest. *)
Drop(rows, dest) ==
  LET drag == Dropped(pl, rows, dest)
  IN  /\ rows # {}
      /\ pl' = drag.pl
      /\ times' = WithUpdatedTimes(Forgetting(times, drag.cleared), drag.pl)

GoNext ==
  /\ HasNext(pl)
  /\ pl' = NextItem(pl)
  /\ UNCHANGED times

GoPrev ==
  /\ HasPrev(pl)
  /\ pl' = PrevItem(pl)
  /\ UNCHANGED times

SetCurrent(i) ==
  /\ IsValidIndex(pl, i)
  /\ pl' = SetCurrentItem(pl, i)
  /\ UNCHANGED times

(***************************************************************************)
(* The player starts the current item: it sets the start                   *)
(* (OutputThread::startPlaying), the end by the remaining time             *)
(* (updateEndTimeFromRemainingTime()), and has the rest updated.           *)
(***************************************************************************)
TrackStarted(now) ==
  /\ IsValidIndex(pl, pl.cur)
  /\ LET t == ItemAt(pl, pl.cur)
     IN  times' = WithUpdatedTimes(
                    [times EXCEPT ![t] = [started |-> now, ended |-> now + Duration(t)]], pl)
  /\ UNCHANGED pl

(* eraseItemTimesAfterCurrent() *)
PlaybackStopped ==
  /\ IsValidIndex(pl, pl.cur)
  /\ times' = Forgetting(times, {ItemAt(pl, k) : k \in (pl.cur + 1)..(Size(pl) - 1)})
  /\ UNCHANGED pl

Indices == 0..(Size(pl) - 1)

Step ==
  \/ \E t \in Items : Add(t)
  \/ \E i \in 0..Size(pl) : \E ts \in {<<t>> : t \in Items} \cup {<<t, u>> : t, u \in Items} :
       Insert(i, ts)
  \/ \E i \in Indices : \E t \in Items : Replace(i, t)
  \/ \E i \in Indices : Delete(i)
  \/ \E s \in Songs : RemoveSong(s)
  \/ \E rows \in SUBSET Indices : \E dest \in 0..Size(pl) : Drop(rows, dest)
  \/ GoNext
  \/ GoPrev
  \/ \E i \in Indices : SetCurrent(i)
  \/ \E now \in Instants : TrackStarted(now)
  \/ PlaybackStopped

(* The index runs away when songs are removed and inserted around an invalid one. *)
WithinBounds ==
  /\ pl.cur <= MaxItems
  /\ \A t \in Items : times[t].ended \in {NoTime} \cup (-1..Horizon)

Next == Step /\ WithinBounds'

Spec == Init /\ [][Next]_vars

-----------------------------------------------------------------------------
(***************************************************************************)
(* An item object is in the playlist at most once, whatever is inserted,   *)
(* replaced, dragged or removed: the sanity check moveItem() makes in      *)
(* debug builds.                                                           *)
(***************************************************************************)
NoDuplicates == IsInjective(pl.items)

(* The current item, when the index is one. *)
Current(p) == IF IsValidIndex(p, p.cur) THEN ItemAt(p, p.cur) ELSE NoItem

(***************************************************************************)
(* Adding, inserting, deleting and moving items never makes another item   *)
(* the current one, unless that is deleted: insertItem(), deleteItem() and *)
(* moveItem() move mCurrentItemIdx along with the item it points to.  The  *)
(* exception is Playlist.cpp:84: an item from above the current one that   *)
(* is moved to just below it.                                              *)
(***************************************************************************)
EditsKeepCurrent ==
  Current(pl) # NoItem =>
    /\ \A t \in Fresh : Current(AddItem(pl, t)) = Current(pl)
    /\ \A t \in Fresh, i \in 0..Size(pl) : Current(InsertItem(pl, i, t)) = Current(pl)
    /\ \A i \in Indices \ {pl.cur} : Current(DeleteItem(pl, i)) = Current(pl)
    /\ \A from \in Indices, to \in 0..Size(pl) :
         ~(from < pl.cur /\ to = pl.cur + 1) => Current(MoveItem(pl, from, to)) = Current(pl)

(***************************************************************************)
(* Dragging rows to a place between two others that is not the top of a    *)
(* dragged row puts them there together, in their old order, and leaves    *)
(* the order of all the other items alone (dropMimeData()).                *)
(***************************************************************************)
Part(k, rows, dest) == CASE k \in rows -> 1 [] k \notin rows /\ k < dest -> 0 [] OTHER -> 2

(* The item at j is to precede the one at k. *)
InFront(j, k, rows, dest) ==
  \/ Part(j, rows, dest) < Part(k, rows, dest)
  \/ Part(j, rows, dest) = Part(k, rows, dest) /\ j < k

PlaceOf(p, t) == CHOOSE k \in 0..(Size(p) - 1) : ItemAt(p, k) = t

DropGathersRows ==
  \A rows \in SUBSET Indices, dest \in 0..Size(pl) : dest \notin rows =>
    LET q == Dropped(pl, rows, dest).pl
    IN  /\ Size(q) = Size(pl) /\ ItemsOf(q) = ItemsOf(pl)
        /\ \A j, k \in Indices : InFront(j, k, rows, dest) =>
             PlaceOf(q, ItemAt(pl, j)) < PlaceOf(q, ItemAt(pl, k))

(* The items above the current one. *)
Above(p) == {ItemAt(p, k) : k \in 0..((IF p.cur < Size(p) THEN p.cur ELSE Size(p)) - 1)}

(***************************************************************************)
(* The times of the items above the current one are the record of what has *)
(* been played.  While such an item stays above the current one, no        *)
(* operation rewrites its times; a drag may erase them (moveItem()).       *)
(***************************************************************************)
HistoryNotRewritten ==
  [][\A t \in Above(pl) \cap Above(pl') : times'[t] \in {times[t], NoTimes}]_vars

(* How long the items after index i are, together, up to the one at each later index. *)
Together(p, i) ==
  LET Sum[k \in i..(Size(p) - 1)] == IF k = i THEN 0 ELSE Sum[k - 1] + Duration(ItemAt(p, k))
  IN  Sum

(***************************************************************************)
(* An update from the current item schedules every later item to start     *)
(* after exactly the durations of the items between                        *)
(* (updateItemsStartEndTimes()), whatever times the items had before.      *)
(***************************************************************************)
DueTimesAddUp ==
  LET start == times[Current(pl)].ended
      updated == WithUpdatedTimes(times, pl)
  IN  Current(pl) # NoItem /\ times[Current(pl)] # NoTimes =>
        \A k \in Indices : k > pl.cur =>
          updated[ItemAt(pl, k)].started = start + Together(pl, pl.cur)[k - 1]

(* PlaylistItemModel.cpp:171: a drag gathers the rows, and no edit doubles or loses an item. *)
RowsStayWhole == NoDuplicates /\ DropGathersRows
=============================================================================
