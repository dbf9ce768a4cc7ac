---------------------------- MODULE PlayerProofs ----------------------------
(***************************************************************************)
(* Proofs about Player.tla, for every playlist, set of tracks and set of   *)
(* user operations: the type invariant, that a source always comes with a  *)
(* current track (SourceHasTrack), that only items that cannot be decoded  *)
(* are marked (OnlyFailingUnplayable), and that what is shown as fading    *)
(* out is fading out (FadeOutFades).  And about PlayerUse.tla, without     *)
(* pauses: the source heard is the current track's, a stopped player is    *)
(* silent, and tracks are started one by one.  And about the buffer the    *)
(* output thread reads from, PlaybackBuffer.tla, for all durations,        *)
(* lengths, skip-starts and sizes of the reads and writes: its type        *)
(* invariant, that the destructor outlasts the decoder (DecoderGoneFirst), *)
(* and, until the user seeks, that the skip-start is applied               *)
(* (SkipStartApplied) and that reads stay inside (ReadsStayInside).        *)
(*                                                                         *)
(* The first argument is about who may write mCurrentTrack when.  The main *)
(* thread resets it only while it serves a state change of the device, and *)
(* then the output thread waits in the call it made; so between setting    *)
(* mCurrentTrack and installing the source, or reporting the failure, the  *)
(* output thread finds it unchanged.  IInv says this of every place the    *)
(* output thread may be in.  The second, without pauses, is that a source  *)
(* excludes every other activity of the output thread; see Alone.  In the  *)
(* buffer the two threads touch readPos in turns: the decoder only in      *)
(* setDuration(), when nothing has been written and so nothing is being    *)
(* read, and the output thread otherwise.                                  *)
(***************************************************************************)
EXTENDS PlayerUse, PlaybackBuffer, SequenceTheorems, FiniteSetTheorems, TLAPS

-----------------------------------------------------------------------------
(* currentItem() returns an item, or nothing. *)
LEMMA CurrentItemsType ==
  ASSUME NEW S, NEW none, NEW p \in Playlists(S), NEW t \in CurrentItems(p, S, none)
  PROVE  t \in S \cup {none}
<1>1. CASE p.items = <<>>
  BY <1>1 DEF CurrentItems
<1>2. CASE p.items # <<>> /\ IsValidIndex(p, p.cur)
  <2>1. p.cur \in Nat
    BY DEF Playlists
  <2>2. ItemAt(p, p.cur) \in S
    BY <1>2, <2>1 DEF Playlists, IsValidIndex, ItemAt, Size
  <2> QED
    BY <1>2, <2>2 DEF CurrentItems
<1>3. CASE p.items # <<>> /\ ~IsValidIndex(p, p.cur)
  BY <1>3 DEF CurrentItems
<1> QED
  BY <1>1, <1>2, <1>3

(* The operations of the playlist return a playlist again. *)
LEMMA StepsType ==
  ASSUME NEW S, NEW p \in Playlists(S)
  PROVE  /\ NextItem(p) \in Playlists(S)
         /\ PrevItem(p) \in Playlists(S)
         /\ \A i \in Nat : SetCurrentItem(p, i) \in Playlists(S)
BY DEF Playlists, NextItem, PrevItem, HasPrev, SetCurrentItem

LEMMA AddType ==
  ASSUME NEW S, NEW p \in Playlists(S), NEW t \in S
  PROVE  AddItem(p, t) \in Playlists(S)
BY DEF Playlists, AddItem

LEMMA InsertType ==
  ASSUME NEW S, NEW p \in Playlists(S), NEW i \in Nat, NEW t \in S
  PROVE  InsertItem(p, i, t) \in Playlists(S)
<1>1. p.items \in Seq(S) /\ p.cur \in Nat /\ Size(p) = Len(p.items)
  BY DEF Playlists, Size
<1>2. ASSUME NEW k \in 1..(Len(p.items) + 1)
      PROVE  InsertAt(p.items, k, t) \in Seq(S)
  <2> DEFINE left == SubSeq(p.items, 1, k - 1)
             right == SubSeq(p.items, k, Len(p.items))
             new == <<t>>
  <2>1. left \in Seq(S) /\ right \in Seq(S)
    BY <1>1, SubSeqProperties
  <2>2. new \in Seq(S)
    OBVIOUS
  <2> HIDE DEF left, right, new
  <2>3. left \o new \in Seq(S)
    BY <2>1, <2>2, ConcatProperties
  <2>4. (left \o new) \o right \in Seq(S)
    BY <2>1, <2>3, ConcatProperties
  <2> QED
    BY <2>4 DEF InsertAt, left, right, new
<1> DEFINE at == IF i > Size(p) THEN Size(p) ELSE i
<1>3. at + 1 \in 1..(Len(p.items) + 1) /\ at \in Nat
  BY <1>1
<1>4. InsertItem(p, i, t) = [items |-> InsertAt(p.items, at + 1, t),
                              cur |-> IF at <= p.cur THEN p.cur + 1 ELSE p.cur]
  BY DEF InsertItem, Playlists
<1> HIDE DEF at
<1> QED
  BY <1>1, <1>2, <1>3, <1>4 DEF Playlists

LEMMA ReplaceType ==
  ASSUME NEW S, NEW p \in Playlists(S), NEW i \in Nat, IsValidIndex(p, i), NEW t \in S
  PROVE  ReplaceItem(p, i, t) \in Playlists(S)
BY DEF Playlists, ReplaceItem, ReplaceAt, IsValidIndex, Size

LEMMA RemovedAtType ==
  ASSUME NEW S, NEW s \in Seq(S), NEW k \in 1..Len(s)
  PROVE  RemoveAt(s, k) \in Seq(S)
<1> DEFINE left == SubSeq(s, 1, k - 1)
           right == SubSeq(s, k + 1, Len(s))
<1>1. left \in Seq(S) /\ right \in Seq(S)
  BY SubSeqProperties
<1>2. RemoveAt(s, k) = left \o right
  BY DEF RemoveAt
<1> HIDE DEF left, right
<1> QED
  BY <1>1, <1>2, ConcatProperties

LEMMA DeleteType ==
  ASSUME NEW S, NEW p \in Playlists(S), NEW i \in Nat, IsValidIndex(p, i)
  PROVE  DeleteItem(p, i) \in Playlists(S)
BY RemovedAtType DEF Playlists, DeleteItem, IsValidIndex, Size

LEMMA EraseType ==
  ASSUME NEW S, NEW p \in Playlists(S), NEW i \in Nat, IsValidIndex(p, i)
  PROVE  EraseItem(p, i) \in Playlists(S)
BY RemovedAtType DEF Playlists, EraseItem, IsValidIndex, Size

LEMMA MoveType ==
  ASSUME NEW S, NEW p \in Playlists(S),
         NEW from \in 0..(Size(p) - 1), NEW to \in 0..Size(p),
         to < Size(p) \/ from < to
  PROVE  MoveItem(p, from, to) \in Playlists(S)
<1> DEFINE target == MoveTarget(from, to)
<1>1. Size(p) \in Nat /\ p.items \in Seq(S) /\ p.cur \in Nat
  BY DEF Playlists, Size
<1>2. target \in 0..(Size(p) - 1)
  BY <1>1 DEF MoveTarget
<1>3. \A k \in 1..Size(p) : ItemAt(p, MoveSource(k - 1, from, target)) \in S
  <2> TAKE k \in 1..Size(p)
  <2>1. MoveSource(k - 1, from, target) \in 0..(Size(p) - 1)
    BY <1>1, <1>2 DEF MoveSource
  <2> QED
    BY <1>1, <2>1 DEF ItemAt, Size
<1>4. [k \in 1..Size(p) |-> ItemAt(p, MoveSource(k - 1, from, target))] \in Seq(S)
  BY <1>1, <1>3, IsASeq
<1>5. CurAfterMove(p.cur, from, target) \in Nat
  BY <1>1, <1>2 DEF CurAfterMove
<1> QED
  BY <1>4, <1>5 DEF MoveItem, Playlists

-----------------------------------------------------------------------------
USE PlayerAssumption
(* A blocking call is pending exactly where the output thread waits for it. *)
CallMatchesPc ==
  /\ call = "invalidCurrentTrack" <=> outPc = "invalid"
  /\ call = "startNextTrack" <=> outPc = "startNext"
  /\ call \in {"Active", "Suspended", "Idle"} <=> outPc \in {"starting", "deliver"}
  /\ outPc = "starting" => call = "Active"

(* While it prepares a track, that track is the current one. *)
PreparedIsCurrent ==
  /\ outPc \in {"decode", "built"} => curTrack = outTrack /\ outTrack \in Items
  /\ outPc = "invalid" => curTrack \in FailingTracks

(* Every queued start names an item. *)
StartsNameItems == \A k \in DOMAIN outQ : outQ[k].type = "startPlaying" => outQ[k].track \in Items

IInv ==
  /\ TypeOK
  /\ CallMatchesPc
  /\ PreparedIsCurrent
  /\ StartsNameItems
  /\ SourceHasTrack
  /\ OnlyFailingUnplayable

-----------------------------------------------------------------------------
(* Parts of the actions, each with the part of the invariant it keeps. *)

LEMMA NoSourceType == NoSource \in Sources
BY DEF NoSource, Sources, MaybeItem

(* Fading never brings a source into being. *)
LEMMA FadedType ==
  ASSUME NEW s \in Sources
  PROVE  Faded(s) \in Sources /\ Faded(s).track = s.track
BY DEF Faded, Sources

(* Appending an event that names an item, or a state change, keeps the queue well-formed. *)
LEMMA QueueGrows ==
  ASSUME outQ \in Seq(Events), StartsNameItems, NEW e \in Events,
         e.type = "startPlaying" => e.track \in Items,
         outQ' = Append(outQ, e)
  PROVE  outQ' \in Seq(Events) /\ StartsNameItems'
BY DEF StartsNameItems

LEMMA ChangesAreEvents ==
  /\ ChangeTo("Active") \in Events /\ ChangeTo("Active").type # "startPlaying"
  /\ ChangeTo("Suspended") \in Events /\ ChangeTo("Suspended").type # "startPlaying"
BY DEF ChangeTo, Events, MaybeItem

LEMMA StartsAreEvents ==
  \A t \in Items : StartOf(t) \in Events /\ StartOf(t).track = t
BY DEF StartOf, Events, MaybeItem

LEMMA QueueShrinks ==
  ASSUME outQ \in Seq(Events), StartsNameItems, outQ # <<>>, outQ' = Tail(outQ)
  PROVE  /\ outQ' \in Seq(Events) /\ StartsNameItems'
         /\ Head(outQ) \in Events
         /\ Head(outQ).type = "startPlaying" => Head(outQ).track \in Items
BY DEF StartsNameItems

LEMMA SuspendKeeps ==
  ASSUME outQ \in Seq(Events), dev \in DeviceStates, StartsNameItems, Suspend
  PROVE  outQ' \in Seq(Events) /\ dev' \in DeviceStates /\ StartsNameItems'
<1>1. CASE dev \in {"Active", "Idle"}
  <2>1. outQ' = Append(outQ, ChangeTo("Suspended")) /\ dev' = "Suspended"
    BY <1>1 DEF Suspend
  <2> QED
    BY <2>1, QueueGrows, ChangesAreEvents DEF DeviceStates
<1>2. CASE dev \notin {"Active", "Idle"}
  BY <1>2 DEF Suspend, StartsNameItems
<1> QED
  BY <1>1, <1>2

LEMMA ResumeKeeps ==
  ASSUME outQ \in Seq(Events), dev \in DeviceStates, StartsNameItems, Resume
  PROVE  outQ' \in Seq(Events) /\ dev' \in DeviceStates /\ StartsNameItems'
<1>1. CASE dev = "Suspended"
  <2>1. outQ' = Append(outQ, ChangeTo("Active")) /\ dev' = "Active"
    BY <1>1 DEF Resume
  <2> QED
    BY <2>1, QueueGrows, ChangesAreEvents DEF DeviceStates
<1>2. CASE dev # "Suspended"
  BY <1>2 DEF Resume, StartsNameItems
<1> QED
  BY <1>1, <1>2

(* startPlayback() queues only starts that name an item. *)
LEMMA StartPlaybackKeeps ==
  ASSUME outQ \in Seq(Events), dev \in DeviceStates, mainPc \in MainPcs, StartsNameItems,
         NEW p \in Playlists(Items), NEW st \in States, NEW atOnce \in BOOLEAN,
         StartPlayback(p, st, atOnce)
  PROVE  /\ outQ' \in Seq(Events) /\ dev' \in DeviceStates /\ mainPc' \in MainPcs
         /\ mState' \in States /\ StartsNameItems'
<1>1. PICK t \in CurrentItems(p, Items, NoItem) :
        \/ /\ t = NoItem \/ st \in {"psFadeOutToTrack", "psPlaying", "psStartingPlayback"}
           /\ mState' = st
           /\ UNCHANGED <<dev, outQ, mainPc>>
        \/ /\ t # NoItem
           /\ st = "psFadeOutToStop"
           /\ mState' = "psFadeOutToTrack"
           /\ UNCHANGED <<dev, outQ, mainPc>>
        \/ /\ t # NoItem
           /\ st = "psStopped"
           /\ outQ' = Append(outQ, StartOf(t))
           /\ mState' = IF atOnce THEN "psStartingPlayback" ELSE st
           /\ mainPc' = IF atOnce THEN mainPc ELSE "emitted"
           /\ UNCHANGED dev
        \/ /\ t # NoItem
           /\ st = "psPaused"
           /\ mState' = st
           /\ Resume
           /\ UNCHANGED mainPc
  BY DEF StartPlayback
<1>2. t \in Items \cup {NoItem}
  BY CurrentItemsType
<1>3. CASE UNCHANGED <<dev, outQ, mainPc>>
  BY <1>1, <1>3 DEF StartsNameItems, States, Resume
<1>4. CASE t # NoItem /\ outQ' = Append(outQ, StartOf(t)) /\ UNCHANGED dev
           /\ mState' = (IF atOnce THEN "psStartingPlayback" ELSE st)
           /\ mainPc' = (IF atOnce THEN mainPc ELSE "emitted")
  <2>1. StartOf(t) \in Events /\ StartOf(t).track \in Items
    BY <1>2, <1>4, StartsAreEvents
  <2>2. outQ' \in Seq(Events) /\ StartsNameItems'
    BY <1>4, <2>1, QueueGrows
  <2> QED
    BY <1>4, <2>2 DEF States, MainPcs
<1>5. CASE mState' = st /\ Resume /\ UNCHANGED mainPc
  BY <1>5, ResumeKeeps
<1> QED
  BY <1>1, <1>3, <1>4, <1>5

(* fadeOut() and what jumpTo() and nextTrack() do around it. *)
LEMMA FadeOutKeeps ==
  ASSUME src \in Sources, NEW target \in States, FadeOut(target)
  PROVE  mState' \in States /\ src' \in Sources /\ src'.track = src.track
BY FadedType DEF FadeOut

LEMMA FadeToCurrentKeeps ==
  ASSUME src \in Sources, mState \in States, FadeToCurrent
  PROVE  mState' \in States /\ src' \in Sources /\ src'.track = src.track
<1>1. CASE mState \in {"psPlaying", "psStartingPlayback"}
  <2>1. FadeOut("psFadeOutToTrack")
    BY <1>1 DEF FadeToCurrent
  <2> QED
    BY <2>1, FadeOutKeeps DEF States
<1>2. CASE mState = "psFadeOutToStop"
  BY <1>2 DEF FadeToCurrent, States
<1>3. CASE mState \notin {"psPlaying", "psStartingPlayback", "psFadeOutToStop"}
  BY <1>3 DEF FadeToCurrent
<1> QED
  BY <1>1, <1>2, <1>3

LEMMA JumpToKeeps ==
  ASSUME outQ \in Seq(Events), dev \in DeviceStates, mainPc \in MainPcs, StartsNameItems,
         src \in Sources, NEW p \in Playlists(Items), JumpTo(p)
  PROVE  /\ outQ' \in Seq(Events) /\ dev' \in DeviceStates /\ mainPc' \in MainPcs
         /\ mState' \in States /\ StartsNameItems'
         /\ src' \in Sources /\ src'.track = src.track
<1>1. CASE FadeOut("psFadeOutToTrack") /\ UNCHANGED <<dev, outQ, mainPc>>
  BY <1>1, FadeOutKeeps DEF States, StartsNameItems
<1>2. CASE StartPlayback(p, "psStopped", FALSE) /\ UNCHANGED src
  BY <1>2, StartPlaybackKeeps DEF States
<1>3. CASE mState' = "psFadeOutToTrack" /\ UNCHANGED <<src, dev, outQ, mainPc>>
  BY <1>3 DEF States, StartsNameItems
<1> QED
  BY <1>1, <1>2, <1>3 DEF JumpTo

-----------------------------------------------------------------------------
(* The user's steps touch neither mCurrentTrack nor the output thread. *)

LEMMA UserFrame ==
  ASSUME IInv, UNCHANGED <<unplayable, curTrack, outVars>>,
         pl' \in Playlists(Items), mState' \in States, tempo' \in Tempos,
         src' \in Sources, src'.track = src.track,
         dev' \in DeviceStates, outQ' \in Seq(Events), StartsNameItems', mainPc' \in MainPcs
  PROVE  IInv'
BY DEF IInv, TypeOK, CallMatchesPc, PreparedIsCurrent, SourceHasTrack, HasSource,
       OnlyFailingUnplayable, outVars

LEMMA UserKeeps ==
  ASSUME IInv, User
  PROVE  IInv'
<1> USE DEF playlistVars
<1>0. /\ pl \in Playlists(Items) /\ pl.cur \in Nat /\ mState \in States /\ tempo \in Tempos
      /\ src \in Sources /\ dev \in DeviceStates /\ outQ \in Seq(Events) /\ mainPc \in MainPcs
      /\ StartsNameItems /\ (outQ' = outQ => StartsNameItems')
  BY DEF IInv, TypeOK, StartsNameItems, Playlists
<1>1. CASE Play
  BY <1>0, <1>1, StartPlaybackKeeps, UserFrame DEF Play
<1>2. CASE PlayPause
  <2>1. CASE StartPlayback(pl, mState, FALSE)
    BY <1>0, <1>2, <2>1, StartPlaybackKeeps, UserFrame DEF PlayPause
  <2>2. CASE Suspend /\ UNCHANGED <<mState, mainPc>>
    BY <1>0, <1>2, <2>2, SuspendKeeps, UserFrame DEF PlayPause
  <2>3. CASE mState' = "psFadeOutToStop" /\ UNCHANGED <<dev, outQ, mainPc>>
    BY <1>0, <1>2, <2>3, UserFrame DEF PlayPause, States
  <2> QED
    BY <1>2, <2>1, <2>2, <2>3 DEF PlayPause
<1>3. CASE Stop
  <2>1. CASE FadeOut("psFadeOutToStop")
    BY <1>0, <1>3, <2>1, FadeOutKeeps, UserFrame DEF Stop, States
  <2>2. CASE src' = Faded(src) /\ UNCHANGED mState
    BY <1>0, <1>3, <2>2, FadedType, UserFrame DEF Stop
  <2> QED
    BY <1>3, <2>1, <2>2 DEF Stop
<1>4. CASE NextTrack
  <2>1. CASE src' = Faded(src) /\ UNCHANGED <<pl, mState>>
    BY <1>0, <1>4, <2>1, FadedType, UserFrame DEF NextTrack
  <2>2. CASE pl' = NextItem(pl) /\ FadeToCurrent
    BY <1>0, <1>4, <2>2, FadeToCurrentKeeps, StepsType, UserFrame DEF NextTrack
  <2> QED
    BY <1>4, <2>1, <2>2 DEF NextTrack
<1>5. CASE PrevTrack
  <2>1. CASE src' = Faded(src) /\ UNCHANGED <<pl, mState>>
    BY <1>0, <1>5, <2>1, FadedType, UserFrame DEF PrevTrack
  <2>2. CASE pl' = PrevItem(pl) /\ FadeToCurrent
    BY <1>0, <1>5, <2>2, FadeToCurrentKeeps, StepsType, UserFrame DEF PrevTrack
  <2> QED
    BY <1>5, <2>1, <2>2 DEF PrevTrack
<1>6. ASSUME NEW i \in 0..(Size(pl) - 1), Jump(i)
      PROVE  IInv'
  <2>1. i \in Nat
    BY <1>0 DEF Size, Playlists
  <2>2. pl' \in Playlists(Items)
    BY <1>0, <1>6, <2>1, StepsType DEF Jump
  <2>3. JumpTo(pl')
    BY <1>6 DEF Jump
  <2> QED
    BY <1>0, <1>6, <2>2, <2>3, JumpToKeeps, UserFrame DEF Jump
<1>7. ASSUME NEW i \in 0..(Size(pl) - 1), Delete(i)
      PROVE  IInv'
  <2>1. pl' \in Playlists(Items)
    BY <1>0, <1>7, DeleteType, EraseType DEF Delete
  <2>2. mState' \in States /\ src' \in Sources /\ src'.track = src.track
    BY <1>0, <1>7, FadeOutKeeps DEF Delete, FadeOutIfPlaying, States
  <2> QED
    BY <1>0, <1>7, <2>1, <2>2, UserFrame DEF Delete
<1>8. ASSUME NEW i \in 0..(Size(pl) - 1), NEW t \in Items, Replace(i, t)
      PROVE  IInv'
  <2>1. pl' \in Playlists(Items)
    BY <1>0, <1>8, ReplaceType DEF Replace
  <2>2. CASE JumpTo(pl')
    BY <1>0, <1>8, <2>1, <2>2, JumpToKeeps, UserFrame DEF Replace
  <2>3. CASE UNCHANGED <<mState, src, dev, outQ, mainPc>>
    BY <1>0, <1>8, <2>1, <2>3, UserFrame DEF Replace
  <2> QED
    BY <1>8, <2>2, <2>3 DEF Replace
<1>9. ASSUME NEW t \in Tempos, SetTempo(t)
      PROVE  IInv'
  <2>1. src' \in Sources /\ src'.track = src.track
    BY <1>0, <1>9 DEF SetTempo, Sources
  <2> QED
    BY <1>0, <1>9, <2>1, UserFrame DEF SetTempo
<1>10. CASE Edit
  <2>1. pl' \in Playlists(Items)
    <3>1. ASSUME NEW t \in NewItems, pl' = AddItem(pl, t)
          PROVE  pl' \in Playlists(Items)
      BY <1>0, <3>1, AddType DEF NewItems
    <3>2. ASSUME NEW t \in NewItems, NEW i \in 0..Size(pl), pl' = InsertItem(pl, i, t)
          PROVE  pl' \in Playlists(Items)
      BY <1>0, <3>2, InsertType DEF NewItems
    <3>3. ASSUME NEW from \in 0..(Size(pl) - 1), NEW to \in 0..Size(pl),
                 to < Size(pl) \/ from < to, pl' = MoveItem(pl, from, to)
          PROVE  pl' \in Playlists(Items)
      BY <1>0, <3>3, MoveType
    <3> QED
      BY <1>10, <3>1, <3>2, <3>3 DEF Edit
  <2> QED
    BY <1>0, <1>10, <2>1, UserFrame DEF Edit
<1>11. CASE Quit
  BY <1>0, <1>11, UserFrame DEF Quit, MainPcs
<1> QED
  BY <1>1, <1>2, <1>3, <1>4, <1>5, <1>6, <1>7, <1>8, <1>9, <1>10, <1>11 DEF User

-----------------------------------------------------------------------------
(* The rest of the main thread resets mCurrentTrack only where the output  *)
(* thread waits in a device callback or between two calls.                 *)

LEMMA DropSourceKeeps ==
  ASSUME DropSource
  PROVE  src' \in Sources /\ SourceHasTrack' /\ curTrack' \in MaybeItem
BY NoSourceType DEF DropSource, SourceHasTrack, HasSource, NoSource, MaybeItem

(* A served call that leaves the output thread in no preparation of a track. *)
LEMMA ReturnFrame ==
  ASSUME IInv, Return, outPc \in {"starting", "startNext", "deliver"},
         UNCHANGED <<unplayable, tempo>>,
         pl' \in Playlists(Items), mState' \in States, curTrack' \in MaybeItem,
         src' \in Sources, SourceHasTrack',
         dev' \in DeviceStates, outQ' \in Seq(Events), StartsNameItems', mainPc' \in MainPcs
  PROVE  IInv'
BY DEF IInv, TypeOK, CallMatchesPc, PreparedIsCurrent, OnlyFailingUnplayable, Return,
       OutPcs, Calls

LEMMA MainKeeps ==
  ASSUME IInv, Main
  PROVE  IInv'
<1> USE DEF playlistVars, outVars
<1>0. /\ pl \in Playlists(Items) /\ mState \in States /\ tempo \in Tempos
      /\ curTrack \in MaybeItem /\ outPc \in OutPcs /\ SourceHasTrack
      /\ src \in Sources /\ dev \in DeviceStates /\ outQ \in Seq(Events) /\ mainPc \in MainPcs
      /\ StartsNameItems /\ (outQ' = outQ => StartsNameItems')
      /\ (UNCHANGED <<src, curTrack>> => SourceHasTrack')
  BY DEF IInv, TypeOK, StartsNameItems, SourceHasTrack, HasSource
<1>1. CASE FinishStart
  BY <1>0, <1>1 DEF FinishStart, IInv, TypeOK, CallMatchesPc, PreparedIsCurrent,
     OnlyFailingUnplayable, States, MainPcs
<1>2. CASE InvalidCurrentTrack
  <2>1. outPc = "invalid" /\ curTrack \in FailingTracks
    BY <1>2 DEF InvalidCurrentTrack, Serving, IInv, CallMatchesPc, PreparedIsCurrent
  <2> QED
    BY <1>0, <1>2, <2>1 DEF InvalidCurrentTrack, IInv, TypeOK, CallMatchesPc, PreparedIsCurrent,
       OnlyFailingUnplayable, OutPcs, Calls
<1>3. CASE StartNextTrack
  <2>1. outPc = "startNext"
    BY <1>3 DEF StartNextTrack, Serving, IInv, CallMatchesPc
  <2>2. pl' \in Playlists(Items)
    BY <1>0, <1>3, StepsType DEF StartNextTrack
  <2>3. CASE StartPlayback(pl', mState, TRUE)
    BY <1>0, <1>3, <2>1, <2>2, <2>3, StartPlaybackKeeps, ReturnFrame DEF StartNextTrack
  <2>4. CASE UNCHANGED <<mState, dev, outQ, mainPc>>
    BY <1>0, <1>3, <2>1, <2>2, <2>4, ReturnFrame DEF StartNextTrack
  <2> QED
    BY <1>3, <2>3, <2>4 DEF StartNextTrack
<1>4. CASE OutputIdle
  <2>1. outPc = "deliver" /\ Return /\ UNCHANGED <<unplayable, tempo>>
    BY <1>4 DEF OutputIdle, Serving, IInv, CallMatchesPc
  <2>2. ASSUME NEW p \in Playlists(Items), pl' = p, DropSource, Restart(p)
        PROVE  IInv'
    BY <1>0, <2>1, <2>2, DropSourceKeeps, StartPlaybackKeeps, ReturnFrame DEF States, Restart
  <2>3. ASSUME pl' \in Playlists(Items), DropSource, mState' = "psStopped",
               UNCHANGED <<dev, outQ, mainPc>>
        PROVE  IInv'
    BY <1>0, <2>1, <2>3, DropSourceKeeps, ReturnFrame DEF States
  <2>4. CASE mState = "psPlaying"
    <3>1. pl' = NextItem(pl) /\ pl' \in Playlists(Items) /\ DropSource
      BY <1>0, <1>4, <2>4, StepsType DEF OutputIdle
    <3>2. CASE HasNext(pl)
      <4>1. Restart(pl')
        BY <1>4, <2>4, <3>2 DEF OutputIdle
      <4> QED
        BY <2>2, <3>1, <4>1
    <3>3. CASE ~HasNext(pl)
      BY <1>4, <2>3, <2>4, <3>1, <3>3 DEF OutputIdle
    <3> QED
      BY <3>2, <3>3
  <2>5. CASE mState \in {"psFadeOutToStop", "psPaused"}
    BY <1>0, <1>4, <2>3, <2>5 DEF OutputIdle
  <2>6. CASE mState = "psFadeOutToTrack"
    BY <1>0, <1>4, <2>2, <2>6 DEF OutputIdle
  <2>7. CASE mState \in {"psStopped", "psStartingPlayback"}
    BY <1>0, <1>4, <2>1, <2>7, ReturnFrame DEF OutputIdle
  <2> QED
    BY <1>0, <2>4, <2>5, <2>6, <2>7 DEF States
<1>5. CASE OutputSuspended
  <2>1. outPc \in {"starting", "deliver"}
    BY <1>5 DEF OutputSuspended, Serving, IInv, CallMatchesPc
  <2> QED
    BY <1>0, <1>5, <2>1, ReturnFrame DEF OutputSuspended, States
<1>6. CASE OutputActive
  <2>1. outPc \in {"starting", "deliver"}
    BY <1>6 DEF OutputActive, Serving, IInv, CallMatchesPc
  <2> QED
    BY <1>0, <1>6, <2>1, ReturnFrame DEF OutputActive, States
<1>7. CASE Joined \/ Abandon
  BY <1>0, <1>7 DEF Joined, Abandon, IInv, TypeOK, CallMatchesPc, PreparedIsCurrent,
     OnlyFailingUnplayable, MainPcs
<1> QED
  BY <1>1, <1>2, <1>3, <1>4, <1>5, <1>6, <1>7 DEF Main

-----------------------------------------------------------------------------
(* The output thread. *)

(* A step of the output thread that ends where it waits for the next event. *)
LEMMA LoopFrame ==
  ASSUME IInv, UNCHANGED <<unplayable, curTrack, tempo, outQ, outTrack, outTempo, call, mainPc>>,
         call = "none", outPc' \in {"loop", "limitNext", "limitStop", "fadeToTrack", "fadeToStop", "exited"},
         pl' \in Playlists(Items), mState' \in States,
         src' \in Sources, src'.track = src.track, dev' \in DeviceStates
  PROVE  IInv'
BY DEF IInv, TypeOK, CallMatchesPc, PreparedIsCurrent, StartsNameItems, SourceHasTrack, HasSource,
       OnlyFailingUnplayable, OutPcs

LEMMA OutputKeeps ==
  ASSUME IInv, Output
  PROVE  IInv'
<1> USE DEF playlistVars
<1>0. /\ pl \in Playlists(Items) /\ mState \in States /\ curTrack \in MaybeItem
      /\ src \in Sources /\ dev \in DeviceStates /\ outQ \in Seq(Events)
      /\ StartsNameItems /\ (outQ' = outQ => StartsNameItems')
      /\ (outPc \in {"loop", "decode", "built", "started", "limitNext", "limitStop",
                    "fadeToTrack", "fadeToStop"} => call = "none")
  BY DEF IInv, TypeOK, StartsNameItems, CallMatchesPc, Calls
<1>1. CASE StartPlaying
  <2>1. /\ outQ' \in Seq(Events) /\ StartsNameItems'
        /\ Head(outQ).track \in Items
    BY <1>0, <1>1, QueueShrinks DEF StartPlaying
  <2>2. curTrack' = Head(outQ).track /\ outTrack' = Head(outQ).track /\ outPc' = "decode"
        /\ call = "none" /\ UNCHANGED <<playlistVars, mState, src, tempo, dev, outTempo, call, mainPc>>
    BY <1>0, <1>1 DEF StartPlaying
  <2> QED
    BY <2>1, <2>2 DEF IInv, TypeOK, CallMatchesPc, PreparedIsCurrent, SourceHasTrack, HasSource,
       OnlyFailingUnplayable, OutPcs, MaybeItem
<1>2. CASE DecodeFailed
  BY <1>0, <1>2 DEF DecodeFailed, IInv, TypeOK, CallMatchesPc, PreparedIsCurrent, SourceHasTrack,
     HasSource, OnlyFailingUnplayable, OutPcs, Calls, States, MaybeItem
<1>3. CASE Decoded
  BY <1>0, <1>3 DEF Decoded, IInv, TypeOK, CallMatchesPc, PreparedIsCurrent, SourceHasTrack,
     HasSource, OnlyFailingUnplayable, OutPcs
<1>4. CASE StartDevice
  <2>1. curTrack = outTrack /\ outTrack \in Items /\ outTempo \in Tempos
    BY <1>4 DEF StartDevice, IInv, TypeOK, PreparedIsCurrent
  <2>2. src' \in Sources /\ SourceHasTrack'
    BY <1>4, <2>1 DEF StartDevice, Sources, MaybeItem, SourceHasTrack, HasSource
  <2> QED
    BY <1>0, <1>4, <2>1, <2>2 DEF StartDevice, IInv, TypeOK, CallMatchesPc, PreparedIsCurrent,
       OnlyFailingUnplayable, OutPcs, Calls, DeviceStates, MaybeItem
<1>5. CASE NowPlaying
  BY <1>0, <1>5, LoopFrame DEF NowPlaying, States
<1>6. CASE DeliverChange
  <2>1. /\ outQ' \in Seq(Events) /\ StartsNameItems' /\ Head(outQ) \in Events
        /\ Head(outQ).type # "startPlaying"
    BY <1>0, <1>6, QueueShrinks DEF DeliverChange
  <2>2. Head(outQ).type \in {"Active", "Suspended"}
    BY <2>1 DEF Events
  <2>3. call' \in {"Active", "Suspended"} /\ outPc' = "deliver"
        /\ UNCHANGED <<playlistVars, mState, curTrack, src, tempo, dev, outTrack, outTempo, mainPc>>
    BY <1>6, <2>2 DEF DeliverChange
  <2> QED
    BY <2>1, <2>3 DEF IInv, TypeOK, CallMatchesPc, PreparedIsCurrent, SourceHasTrack,
       HasSource, OnlyFailingUnplayable, OutPcs, Calls
<1>7. CASE DeviceRunsDry
  BY <1>0, <1>7 DEF DeviceRunsDry, IInv, TypeOK, CallMatchesPc, PreparedIsCurrent, SourceHasTrack,
     HasSource, OnlyFailingUnplayable, OutPcs, Calls, DeviceStates
<1>8. CASE LimitReached
  BY <1>0, <1>8, LoopFrame DEF LimitReached
<1>9. CASE LimitNext
  <2>1. CASE src' = Faded(src) /\ outPc' = "loop" /\ UNCHANGED <<pl, mState>>
    BY <1>0, <1>9, <2>1, FadedType, LoopFrame DEF LimitNext
  <2>2. CASE pl' = NextItem(pl) /\ UNCHANGED src
    <3>1. pl' \in Playlists(Items) /\ mState' \in States /\ outPc' \in {"fadeToTrack", "loop"}
      BY <1>0, <1>9, <2>2, StepsType DEF LimitNext, States
    <3> QED
      BY <1>0, <1>9, <2>2, <3>1, LoopFrame DEF LimitNext
  <2> QED
    BY <1>9, <2>1, <2>2 DEF LimitNext
<1>10. CASE LimitStop
  <2>1. src' \in Sources /\ src'.track = src.track /\ outPc' \in {"fadeToStop", "loop"}
    BY <1>0, <1>10, FadedType DEF LimitStop
  <2> QED
    BY <1>0, <1>10, <2>1, LoopFrame DEF LimitStop
<1>11. CASE LimitFade
  <2>1. mState' \in States /\ src' \in Sources /\ src'.track = src.track
    BY <1>0, <1>11, FadeOutKeeps DEF LimitFade, States
  <2> QED
    BY <1>0, <1>11, <2>1, LoopFrame DEF LimitFade
<1>12. CASE Exit
  BY <1>0, <1>12, LoopFrame DEF Exit
<1> QED
  BY <1>1, <1>2, <1>3, <1>4, <1>5, <1>6, <1>7, <1>8, <1>9, <1>10, <1>11, <1>12 DEF Output

-----------------------------------------------------------------------------
LEMMA InitHolds ==
  ASSUME Init
  PROVE  IInv
BY NoSourceType DEF Init, IInv, TypeOK, CallMatchesPc, PreparedIsCurrent, StartsNameItems,
   SourceHasTrack, HasSource, NoSource, OnlyFailingUnplayable, Playlists, States, MaybeItem,
   DeviceStates, OutPcs, Calls, MainPcs

LEMMA StutterKeeps ==
  ASSUME IInv, UNCHANGED vars
  PROVE  IInv'
BY DEF vars, IInv, TypeOK, CallMatchesPc, PreparedIsCurrent, StartsNameItems,
   SourceHasTrack, HasSource, OnlyFailingUnplayable

(* The inductive invariant of the player. *)
THEOREM InvariantHolds == Spec => []IInv
<1>1. Init => IInv
  BY InitHolds
<1>2. IInv /\ [Next]_vars => IInv'
  BY UserKeeps, MainKeeps, OutputKeeps, StutterKeeps DEF Next
<1> QED
  BY <1>1, <1>2, PTL DEF Spec

(* Every variable of the player has its type, whatever the two threads do. *)
THEOREM TypeCorrect == Spec => []TypeOK
<1>1. IInv => TypeOK
  BY DEF IInv
<1> QED
  BY <1>1, InvariantHolds, PTL

(* setTempoCoeff(), seekTo() and the time updates never find a source without a track. *)
THEOREM SourceAlwaysHasTrack == Spec => []SourceHasTrack
<1>1. IInv => SourceHasTrack
  BY DEF IInv
<1> QED
  BY <1>1, InvariantHolds, PTL

(* invalidCurrentTrack() marks the item that failed, although it runs later in another thread. *)
THEOREM OnlyFailingMarked == Spec => []OnlyFailingUnplayable
<1>1. IInv => OnlyFailingUnplayable
  BY DEF IInv
<1> QED
  BY <1>1, InvariantHolds, PTL
-----------------------------------------------------------------------------
(* Whoever sets a fade-out state starts the fade-out of the source that is there. *)

LEMMA FadedFades == ASSUME src \in Sources, src' = Faded(src), HasSource' PROVE src'.fading
BY DEF Faded, HasSource, Sources

LEMMA FadeOutStarts ==
  ASSUME src \in Sources, NEW target, FadeOut(target)
  PROVE  FadeOutFades'
BY FadedFades DEF FadeOut, FadeOutFades

(* No fade-out begins, and the source stays or goes. *)
LEMMA NoFadeBegins ==
  ASSUME FadeOutFades, UNCHANGED outPc, src' = src \/ ~HasSource',
         mState' \in FadingOut => mState \in FadingOut
  PROVE  FadeOutFades'
BY DEF FadeOutFades, HasSource

LEMMA StartNeverFades ==
  ASSUME NEW p, NEW st \in States, NEW atOnce, StartPlayback(p, st, atOnce)
  PROVE  mState' \in FadingOut => st \in FadingOut
BY DEF StartPlayback, FadingOut

LEMMA FadesKept ==
  ASSUME IInv, FadeOutFades, [Next]_vars
  PROVE  FadeOutFades'
<1> USE DEF playlistVars, outVars
<1>0. src \in Sources /\ mState \in States
  BY DEF IInv, TypeOK
<1>1. ASSUME NEW p, JumpTo(p), UNCHANGED outPc
      PROVE  FadeOutFades'
  <2>1. CASE StartPlayback(p, "psStopped", FALSE) /\ UNCHANGED src
    BY <1>1, <2>1, StartNeverFades, NoFadeBegins DEF States, FadingOut
  <2> QED
    BY <1>0, <1>1, <2>1, FadeOutStarts, NoFadeBegins DEF JumpTo
<1>2. ASSUME FadeToCurrent, UNCHANGED outPc
      PROVE  FadeOutFades'
  BY <1>0, <1>2, FadeOutStarts, NoFadeBegins DEF FadeToCurrent, FadingOut
<1>3. ASSUME src' = Faded(src)
      PROVE  FadeOutFades'
  BY <1>0, <1>3, FadedFades DEF FadeOutFades
<1>4. CASE User
  <2>1. CASE Play \/ PlayPause
    BY <1>0, <2>1, StartNeverFades, NoFadeBegins DEF Play, PlayPause, FadingOut
  <2>2. CASE Stop
    BY <1>0, <1>3, <2>2, FadeOutStarts DEF Stop
  <2>3. CASE NextTrack \/ PrevTrack
    BY <1>2, <1>3, <2>3 DEF NextTrack, PrevTrack
  <2>4. ASSUME NEW i, Jump(i)
        PROVE  FadeOutFades'
    BY <1>1, <2>4 DEF Jump
  <2>5. ASSUME NEW i, Delete(i)
        PROVE  FadeOutFades'
    BY <1>0, <2>5, FadeOutStarts, NoFadeBegins DEF Delete, FadeOutIfPlaying
  <2>6. ASSUME NEW i, NEW t, Replace(i, t)
        PROVE  FadeOutFades'
    BY <1>1, <2>6, NoFadeBegins DEF Replace
  <2>7. ASSUME NEW t, SetTempo(t)
        PROVE  FadeOutFades'
    <3>1. HasSource' => HasSource /\ src'.fading = src.fading
      BY <1>0, <2>7 DEF SetTempo, HasSource, Sources
    <3> QED
      BY <2>7, <3>1 DEF SetTempo, FadeOutFades
  <2>8. CASE Edit \/ Quit
    BY <2>8, NoFadeBegins DEF Edit, Quit
  <2> QED
    BY <1>4, <2>1, <2>2, <2>3, <2>4, <2>5, <2>6, <2>7, <2>8 DEF User
<1>5. CASE Main
  <2>1. ASSUME Return, outPc \notin {"starting", "started"}, src' = src \/ ~HasSource',
               mState' \in FadingOut => mState \in FadingOut
        PROVE  FadeOutFades'
    BY <2>1 DEF Return, FadeOutFades, HasSource
  <2>2. CASE FinishStart \/ Joined \/ Abandon
    BY <2>2, NoFadeBegins DEF FinishStart, Joined, Abandon, FadingOut
  <2>3. CASE InvalidCurrentTrack
    BY <2>3 DEF InvalidCurrentTrack, FadeOutFades, HasSource, Serving, IInv, CallMatchesPc
  <2>4. CASE StartNextTrack
    BY <1>0, <2>1, <2>4, StartNeverFades DEF StartNextTrack, Serving, IInv, CallMatchesPc
  <2>5. CASE OutputIdle
    <3>1. outPc \notin {"starting", "started"} /\ Return
      BY <2>5 DEF OutputIdle, Serving, IInv, CallMatchesPc
    <3>2. ASSUME DropSource, NEW p, Restart(p)
          PROVE  FadeOutFades'
      BY <2>1, <3>1, <3>2, StartNeverFades
      DEF DropSource, Restart, States, FadingOut, HasSource, NoSource
    <3>3. ASSUME DropSource, mState' = "psStopped"
          PROVE  FadeOutFades'
      BY <3>3 DEF FadeOutFades, FadingOut
    <3> QED
      BY <2>1, <2>5, <3>1, <3>2, <3>3 DEF OutputIdle
  <2>6. CASE OutputSuspended
    BY <2>6 DEF OutputSuspended, FadeOutFades, FadingOut
  <2>7. CASE OutputActive
    BY <2>7 DEF OutputActive, Serving, FadeOutFades, FadingOut, Return, HasSource, IInv, CallMatchesPc
  <2> QED
    BY <1>5, <2>2, <2>3, <2>4, <2>5, <2>6, <2>7 DEF Main
<1>6. CASE Output
  <2>1. ASSUME outPc \notin {"starting", "started"}, UNCHANGED src,
               mState' \in FadingOut => mState \in FadingOut
        PROVE  FadeOutFades'
    BY <2>1 DEF FadeOutFades, HasSource
  <2>2. CASE StartPlaying \/ DecodeFailed \/ Decoded \/ DeliverChange \/ DeviceRunsDry
             \/ LimitReached \/ Exit
    BY <2>1, <2>2 DEF StartPlaying, DecodeFailed, Decoded, DeliverChange, DeviceRunsDry,
       LimitReached, Exit, FadingOut
  <2>3. CASE StartDevice \/ NowPlaying
    BY <2>3 DEF StartDevice, NowPlaying, FadeOutFades, FadingOut
  <2>4. CASE LimitNext
    BY <1>3, <2>1, <2>4 DEF LimitNext, FadingOut
  <2>5. CASE LimitStop
    BY <1>3, <2>1, <2>5 DEF LimitStop
  <2>6. CASE LimitFade
    BY <1>0, <2>6, FadeOutStarts DEF LimitFade
  <2> QED
    BY <1>6, <2>2, <2>3, <2>4, <2>5, <2>6 DEF Output
<1>7. CASE UNCHANGED vars
  BY <1>7, NoFadeBegins DEF vars
<1> QED
  BY <1>4, <1>5, <1>6, <1>7 DEF Next

(* What is shown as fading out is fading out, with pauses and without. *)
THEOREM FadeOutsFade == Spec => []FadeOutFades
<1>1. Init => FadeOutFades
  BY DEF Init, FadeOutFades, FadingOut
<1>2. IInv /\ FadeOutFades /\ [Next]_vars => FadeOutFades'
  BY FadesKept
<1> QED
  BY <1>1, <1>2, InvariantHolds, PTL DEF Spec
-----------------------------------------------------------------------------
(***************************************************************************)
(* Without pauses.  The device is started by startPlaying() and goes idle  *)
(* at the end of the source, nothing else; so a source is there exactly    *)
(* while the device runs or its last data is being reported, and with it   *)
(* nothing else is under way.  Alone says which places and states go       *)
(* together; it is what makes psStopped mean that nothing is asked for.    *)
(***************************************************************************)
Limiting == {"limitNext", "limitStop", "fadeToTrack", "fadeToStop"}

(* Nothing is ever suspended, and the device reports itself active only when it is started. *)
NeverSuspended ==
  /\ mState # "psPaused" /\ dev # "Suspended" /\ call # "Suspended"
  /\ call = "Active" => outPc = "starting"

(* One start at most is queued, none while a track is prepared. *)
OneRequest ==
  /\ outQ = <<>> \/ \E t \in Items : outQ = <<StartOf(t)>>
  /\ outPc \in Preparing => outQ = <<>>

(* The source is there while the device runs, it is the current track's, and no other is on its way. *)
SourceIsHeard ==
  /\ HasSource <=> dev = "Active" \/ outPc = "deliver"
  /\ outPc = "deliver" => dev # "Active"
  /\ HasSource => src.track = curTrack
  /\ HasSource => outQ = <<>> /\ outPc \notin {"decode", "built", "invalid", "startNext"}
  /\ outPc \in {"starting", "started"} \cup Limiting => HasSource

(* What mState tells of the output thread. *)
StateTells ==
  /\ HasSource /\ outPc \notin {"starting", "started"} => mState \in {"psPlaying"} \cup FadingOut
  /\ mState = "psPlaying" => HasSource /\ outPc \notin {"starting", "started"}
  /\ mState = "psStopped" /\ mainPc # "emitted" => outQ = <<>> /\ outPc \notin Preparing
  /\ StartingIsUnderWay

(* Between the emit and the assignment in startPlayback(). *)
EmittedIsUnderWay ==
  mainPc = "emitted" =>
    mState = "psStopped" /\ (outQ # <<>> \/ outPc \in {"decode", "built", "starting", "invalid"})

Alone ==
  /\ NeverSuspended
  /\ OneRequest
  /\ SourceIsHeard
  /\ StateTells
  /\ EmittedIsUnderWay
  /\ outPc = "startNext" => curTrack \in FailingTracks
  /\ mainPc = "abandoned" => call # "none"

(* One start is queued where none was. *)
Asked == outQ = <<>> /\ \E t \in Items : outQ' = <<StartOf(t)>>

LEMMA OneQueued ==
  ASSUME NEW t \in Items
  PROVE  /\ <<StartOf(t)>> # <<>> /\ Tail(<<StartOf(t)>>) = <<>>
         /\ Append(<<>>, StartOf(t)) = <<StartOf(t)>>
         /\ Head(<<StartOf(t)>>) = StartOf(t)
         /\ StartOf(t).type = "startPlaying" /\ StartOf(t).track = t
         /\ {k \in DOMAIN <<StartOf(t)>> : <<StartOf(t)>>[k].type = "startPlaying"} = {1}
BY DEF StartOf

LEMMA QueuedStartsAre ==
  ASSUME OneRequest
  PROVE  (QueuedStarts = {} <=> outQ = <<>>) /\ Cardinality(QueuedStarts) <= 1
<1>1. CASE outQ = <<>>
  <2>1. QueuedStarts = {}
    BY <1>1 DEF QueuedStarts
  <2> QED
    BY <1>1, <2>1, FS_EmptySet
<1>2. ASSUME NEW t \in Items, outQ = <<StartOf(t)>>
      PROVE  (QueuedStarts = {} <=> outQ = <<>>) /\ Cardinality(QueuedStarts) <= 1
  <2>1. QueuedStarts = {1}
    BY <1>2, OneQueued DEF QueuedStarts
  <2>2. Cardinality({1}) = 1
    BY FS_Singleton
  <2> QED
    BY <1>2, <2>1, <2>2, OneQueued
<1> QED
  BY <1>1, <1>2 DEF OneRequest

(* startPlayback(), when the device is never suspended. *)
LEMMA StartPlaybackIs ==
  ASSUME NEW p \in Playlists(Items), NEW st \in States \ {"psPaused"}, NEW atOnce \in BOOLEAN,
         st = "psStopped" => outQ = <<>>, StartPlayback(p, st, atOnce)
  PROVE  /\ dev' = dev
         /\ \/ /\ UNCHANGED <<outQ, mainPc>>
               /\ mState' = st \/ (st = "psFadeOutToStop" /\ mState' = "psFadeOutToTrack")
            \/ /\ st = "psStopped"
               /\ Asked
               /\ mState' = IF atOnce THEN "psStartingPlayback" ELSE "psStopped"
               /\ mainPc' = IF atOnce THEN mainPc ELSE "emitted"
<1>1. \A t \in CurrentItems(p, Items, NoItem) : t \in Items \cup {NoItem}
  BY CurrentItemsType
<1>2. \A t \in Items : outQ = <<>> => Append(outQ, StartOf(t)) = <<StartOf(t)>>
  BY OneQueued
<1> QED
  BY <1>1, <1>2 DEF StartPlayback, Asked

-----------------------------------------------------------------------------
(* What a user who never pauses does, as far as Alone is concerned. *)
UserStep ==
  /\ mainPc = "loop"
  /\ UNCHANGED <<curTrack, outPc, call, dev>>
  /\ src'.track = src.track
  /\ \/ UNCHANGED <<mState, outQ>> /\ mainPc' \in {"loop", "joining"}
     \/ /\ mState \in {"psPlaying", "psStartingPlayback"} \cup FadingOut
        /\ mState' \in FadingOut
        /\ UNCHANGED <<outQ, mainPc>>
     \/ /\ mState = "psStopped" /\ mState' = mState
        /\ Asked
        /\ mainPc' = "emitted"

UnpausedUser ==
  \/ Play \/ Stop \/ NextTrack \/ PrevTrack
  \/ \E i \in 0..(Size(pl) - 1) : Jump(i) \/ Delete(i)
  \/ Edit \/ Quit

LEMMA UserSteps ==
  ASSUME IInv, Alone, UnpausedUser
  PROVE  UserStep
<1> USE DEF playlistVars, outVars, UserMay
<1>0. /\ pl \in Playlists(Items) /\ src \in Sources /\ mState \in States \ {"psPaused"}
      /\ mainPc = "loop" /\ mState = "psStopped" => outQ = <<>>
  BY DEF IInv, TypeOK, Alone, NeverSuspended, StateTells
<1>1. ASSUME NEW p \in Playlists(Items), StartPlayback(p, mState, FALSE), mainPc = "loop",
             UNCHANGED <<curTrack, outPc, call, src>>
      PROVE  UserStep
  BY <1>0, <1>1, StartPlaybackIs DEF UserStep, FadingOut
<1>2. ASSUME NEW target \in FadingOut, FadeOut(target), mainPc = "loop",
             mState \in {"psPlaying", "psStartingPlayback"},
             UNCHANGED <<curTrack, outPc, call, dev, outQ, mainPc>>
      PROVE  UserStep
  BY <1>0, <1>2, FadedType DEF UserStep, FadeOut
<1>3. ASSUME src' = Faded(src), UNCHANGED <<mState, curTrack, outPc, call, dev, outQ, mainPc>>,
             mainPc = "loop"
      PROVE  UserStep
  BY <1>0, <1>3, FadedType DEF UserStep
<1>4. CASE Play
  BY <1>0, <1>1, <1>4 DEF Play
<1>5. CASE Stop
  BY <1>2, <1>3, <1>5 DEF Stop, FadingOut
<1>6. CASE NextTrack \/ PrevTrack
  <2>1. CASE FadeToCurrent
    <3>1. mainPc = "loop" /\ UNCHANGED <<curTrack, outPc, call, dev, outQ, mainPc>>
      BY <1>6 DEF NextTrack, PrevTrack
    <3>2. CASE mState \in {"psPlaying", "psStartingPlayback"}
      BY <1>2, <2>1, <3>1, <3>2 DEF FadeToCurrent, FadingOut
    <3>3. CASE mState \notin {"psPlaying", "psStartingPlayback"}
      BY <2>1, <3>1, <3>3 DEF FadeToCurrent, UserStep, FadingOut
    <3> QED
      BY <3>2, <3>3
  <2>2. CASE src' = Faded(src) /\ UNCHANGED mState
    BY <1>3, <1>6, <2>2 DEF NextTrack, PrevTrack
  <2> QED
    BY <1>6, <2>1, <2>2 DEF NextTrack, PrevTrack
<1>7. ASSUME NEW i \in 0..(Size(pl) - 1), Jump(i)
      PROVE  UserStep
  <2>1. pl' \in Playlists(Items)
    <3>1. i \in Nat
      BY <1>0 DEF Size, Playlists
    <3> QED
      BY <1>0, <1>7, <3>1, StepsType DEF Jump
  <2>2. JumpTo(pl') /\ mainPc = "loop" /\ UNCHANGED <<curTrack, outPc, call>>
    BY <1>7 DEF Jump
  <2>3. CASE mState = "psStopped" /\ StartPlayback(pl', "psStopped", FALSE) /\ UNCHANGED src
    BY <1>1, <2>1, <2>2, <2>3
  <2>4. CASE mState \in {"psPlaying", "psStartingPlayback"} /\ FadeOut("psFadeOutToTrack")
             /\ UNCHANGED <<dev, outQ, mainPc>>
    BY <1>2, <2>2, <2>4 DEF FadingOut
  <2>5. CASE mState \in FadingOut /\ mState' = "psFadeOutToTrack"
             /\ UNCHANGED <<src, dev, outQ, mainPc>>
    BY <2>2, <2>5 DEF UserStep, FadingOut
  <2> QED
    BY <1>0, <2>2, <2>3, <2>4, <2>5 DEF JumpTo
<1>8. ASSUME NEW i \in 0..(Size(pl) - 1), Delete(i)
      PROVE  UserStep
  <2>1. CASE UNCHANGED <<mState, src>>
    BY <1>8, <2>1 DEF Delete, UserStep
  <2>2. CASE mState \in {"psPlaying", "psStartingPlayback"} /\ FadeOut("psFadeOutToTrack")
    BY <1>2, <1>8, <2>2 DEF Delete, FadingOut
  <2> QED
    BY <1>8, <2>1, <2>2 DEF Delete, FadeOutIfPlaying
<1>9. CASE Edit \/ Quit
  BY <1>9 DEF Edit, Quit, UserStep
<1> QED
  BY <1>4, <1>5, <1>6, <1>7, <1>8, <1>9 DEF UnpausedUser

LEMMA UserLeavesAlone ==
  ASSUME IInv, Alone, UserStep
  PROVE  Alone'
<1> USE DEF IInv, TypeOK, States, Preparing, FadingOut, Limiting, Asked
<1>0. /\ OneRequest /\ OneRequest'
      /\ (QueuedStarts = {} <=> outQ = <<>>) /\ (QueuedStarts = {} <=> outQ = <<>>)'
      /\ HasSource' <=> HasSource
  <2>1. OneRequest'
    BY DEF Alone, UserStep, OneRequest, StateTells
  <2>2. OneRequest /\ (HasSource' <=> HasSource)
    BY DEF Alone, UserStep, HasSource
  <2>3. (QueuedStarts = {} <=> outQ = <<>>)'
    BY <2>1, QueuedStartsAre, PTL
  <2> QED
    BY <2>1, <2>2, <2>3, QueuedStartsAre
<1>1. NeverSuspended'
  BY DEF Alone, NeverSuspended, UserStep
<1>2. SourceIsHeard'
  BY <1>0 DEF Alone, SourceIsHeard, StateTells, EmittedIsUnderWay, UserStep
<1>3. StateTells' /\ EmittedIsUnderWay'
  BY <1>0, OneQueued DEF Alone, SourceIsHeard, StateTells, StartingIsUnderWay, EmittedIsUnderWay, UserStep
<1> QED
  BY <1>0, <1>1, <1>2, <1>3 DEF Alone, UserStep
-----------------------------------------------------------------------------
(* The rest of the main thread. *)
LEMMA MainLeavesAlone ==
  ASSUME IInv, IInv', Alone, Main
  PROVE  Alone'
<1> USE DEF States, Preparing, FadingOut, Limiting, playlistVars, outVars
<1>0. /\ OneRequest /\ (QueuedStarts = {} <=> outQ = <<>>)
      /\ pl \in Playlists(Items) /\ pl' \in Playlists(Items) /\ mState \in States \ {"psPaused"}
      /\ CallMatchesPc
      /\ (OneRequest' => (QueuedStarts = {} <=> outQ = <<>>)')
      /\ (src' = src => (HasSource' <=> HasSource)) /\ (DropSource => ~HasSource')
  <2>1. OneRequest' => (QueuedStarts = {} <=> outQ = <<>>)'
    BY QueuedStartsAre, PTL
  <2> QED
    BY <2>1, QueuedStartsAre DEF IInv, TypeOK, Alone, NeverSuspended, HasSource, DropSource, NoSource
<1>1. CASE FinishStart
  <2>1. mState = "psStopped" /\ (outQ # <<>> \/ outPc \in {"decode", "built", "starting", "invalid"})
    BY <1>1 DEF FinishStart, Alone, EmittedIsUnderWay
  <2>2. OneRequest'
    BY <1>1 DEF FinishStart, Alone, OneRequest
  <2> QED
    BY <1>0, <1>1, <2>1, <2>2 DEF FinishStart, Alone, NeverSuspended, SourceIsHeard, StateTells,
       StartingIsUnderWay, EmittedIsUnderWay
<1>2. CASE InvalidCurrentTrack
  <2>1. outPc = "invalid" /\ curTrack \in FailingTracks
    BY <1>2 DEF InvalidCurrentTrack, Serving, IInv, CallMatchesPc, PreparedIsCurrent
  <2>2. OneRequest'
    BY <1>2, <2>1 DEF InvalidCurrentTrack, Alone, OneRequest
  <2> QED
    BY <1>0, <1>2, <2>1, <2>2 DEF InvalidCurrentTrack, Serving, Alone, NeverSuspended, SourceIsHeard,
       StateTells, StartingIsUnderWay, EmittedIsUnderWay
<1>3. CASE StartNextTrack
  <2>1. /\ outPc = "startNext" /\ outPc' = "loop" /\ call' = "none" /\ mainPc = "loop"
        /\ UNCHANGED <<curTrack, src>> /\ curTrack \in FailingTracks /\ ~HasSource
        /\ (mState = "psStopped" => outQ = <<>>)
    BY <1>0, <1>3 DEF StartNextTrack, Serving, Return, CallMatchesPc, Alone, SourceIsHeard, StateTells
  <2>2. /\ dev' = dev /\ mainPc' = mainPc
        /\ \/ /\ outQ' = outQ
              /\ mState' = mState \/ (mState = "psFadeOutToStop" /\ mState' = "psFadeOutToTrack")
           \/ mState = "psStopped" /\ Asked /\ mState' = "psStartingPlayback"
    BY <1>0, <1>3, <2>1, StartPlaybackIs DEF StartNextTrack
  <2>3. OneRequest'
    BY <2>1, <2>2 DEF Alone, OneRequest, Asked
  <2> QED
    BY <1>0, <2>1, <2>2, <2>3, OneQueued DEF Alone, NeverSuspended, SourceIsHeard, StateTells,
       StartingIsUnderWay, EmittedIsUnderWay, Asked
<1>4. CASE OutputIdle
  <2>1. /\ outPc = "deliver" /\ outPc' = "loop" /\ call' = "none" /\ mainPc = "loop"
        /\ HasSource /\ outQ = <<>> /\ mState \in {"psPlaying"} \cup FadingOut
    BY <1>0, <1>4 DEF OutputIdle, Serving, Return, CallMatchesPc, Alone, SourceIsHeard, StateTells
  <2>2. DropSource /\ ((mState' = "psStopped" /\ UNCHANGED <<dev, outQ, mainPc>>) \/ Restart(pl'))
    BY <1>4, <2>1 DEF OutputIdle
  <2>3. /\ dev' = dev /\ mainPc' = mainPc
        /\ \/ outQ' = outQ /\ mState' = "psStopped"
           \/ Asked /\ mState' = "psStartingPlayback"
    <3>1. CASE Restart(pl')
      <4>1. StartPlayback(pl', "psStopped", TRUE)
        BY <3>1 DEF Restart
      <4>2. "psStopped" \in States \ {"psPaused"} /\ TRUE \in BOOLEAN /\ pl' \in Playlists(Items)
        BY <1>0
      <4> HIDE DEF States
      <4> QED
        BY <2>1, <4>1, <4>2, StartPlaybackIs
    <3> QED
      BY <2>2, <3>1
  <2>4. OneRequest'
    BY <2>1, <2>3 DEF OneRequest, Asked
  <2>5. dev # "Active"
    BY <1>4, <2>1 DEF Alone, SourceIsHeard
  <2> QED
    BY <1>0, <2>1, <2>2, <2>3, <2>4, <2>5, OneQueued DEF Alone, NeverSuspended, SourceIsHeard, StateTells,
       StartingIsUnderWay, EmittedIsUnderWay, Asked
<1>5. CASE OutputSuspended
  BY <1>5 DEF OutputSuspended, Serving, Alone, NeverSuspended
<1>6. CASE OutputActive
  <2>1. /\ outPc = "starting" /\ outPc' = "started" /\ call' = "none" /\ mainPc = "loop"
        /\ mState' = mState
    BY <1>6 DEF OutputActive, Serving, Return, Alone, NeverSuspended
  <2>2. OneRequest'
    BY <1>6, <2>1 DEF OutputActive, Alone, OneRequest
  <2> QED
    BY <1>0, <1>6, <2>1, <2>2 DEF OutputActive, Alone, NeverSuspended, SourceIsHeard, StateTells,
       StartingIsUnderWay, EmittedIsUnderWay
<1>7. CASE Joined \/ Abandon
  <2>1. OneRequest'
    BY <1>7 DEF Joined, Abandon, Alone, OneRequest
  <2> QED
    BY <1>0, <1>7, <2>1 DEF Joined, Abandon, Alone, NeverSuspended, SourceIsHeard, StateTells,
       StartingIsUnderWay, EmittedIsUnderWay
<1> QED
  BY <1>1, <1>2, <1>3, <1>4, <1>5, <1>6, <1>7 DEF Main

(* The output thread. *)
LEMMA OutputLeavesAlone ==
  ASSUME IInv, Alone, Output
  PROVE  Alone'
<1> USE DEF States, Preparing, FadingOut, Limiting, playlistVars
<1>0. /\ OneRequest /\ (QueuedStarts = {} <=> outQ = <<>>) /\ src \in Sources
      /\ CallMatchesPc /\ PreparedIsCurrent /\ mState \in States
      /\ (OneRequest' => (QueuedStarts = {} <=> outQ = <<>>)')
      /\ (src'.track = src.track => (HasSource' <=> HasSource))
  <2>1. OneRequest' => (QueuedStarts = {} <=> outQ = <<>>)'
    BY QueuedStartsAre, PTL
  <2> QED
    BY <2>1, QueuedStartsAre DEF IInv, TypeOK, Alone, HasSource
<1>1. CASE StartPlaying
  <2>1. outQ # <<>> /\ outQ' = <<>>
    BY <1>0, <1>1, OneQueued DEF StartPlaying, OneRequest
  <2>2. OneRequest'
    BY <2>1 DEF OneRequest
  <2> QED
    BY <1>0, <1>1, <2>1, <2>2 DEF StartPlaying, Alone, NeverSuspended, SourceIsHeard, StateTells,
       StartingIsUnderWay, EmittedIsUnderWay
<1>2. CASE DecodeFailed
  <2>1. OneRequest'
    BY <1>2 DEF DecodeFailed, Alone, OneRequest
  <2> QED
    BY <1>0, <1>2, <2>1 DEF DecodeFailed, Alone, NeverSuspended, SourceIsHeard, StateTells,
       StartingIsUnderWay, EmittedIsUnderWay, OneRequest
<1>3. CASE Decoded
  <2>1. OneRequest'
    BY <1>3 DEF Decoded, Alone, OneRequest
  <2> QED
    BY <1>0, <1>3, <2>1 DEF Decoded, Alone, NeverSuspended, SourceIsHeard, StateTells,
       StartingIsUnderWay, EmittedIsUnderWay
<1>4. CASE StartDevice
  <2>1. OneRequest'
    BY <1>4 DEF StartDevice, Alone, OneRequest
  <2>2. HasSource' /\ src'.track = curTrack
    BY <1>0, <1>4 DEF StartDevice, HasSource, PreparedIsCurrent
  <2> QED
    BY <1>0, <1>4, <2>1, <2>2 DEF StartDevice, Alone, NeverSuspended, SourceIsHeard, StateTells,
       StartingIsUnderWay, EmittedIsUnderWay, OneRequest
<1>5. CASE NowPlaying
  <2>1. OneRequest'
    BY <1>5 DEF NowPlaying, Alone, OneRequest
  <2> QED
    BY <1>0, <1>5, <2>1 DEF NowPlaying, Alone, NeverSuspended, SourceIsHeard, StateTells,
       StartingIsUnderWay, EmittedIsUnderWay, OneRequest
<1>6. CASE DeliverChange
  BY <1>0, <1>6, OneQueued DEF DeliverChange, OneRequest
<1>7. CASE DeviceRunsDry
  <2>1. OneRequest'
    BY <1>7 DEF DeviceRunsDry, Alone, OneRequest
  <2> QED
    BY <1>0, <1>7, <2>1 DEF DeviceRunsDry, Alone, NeverSuspended, SourceIsHeard, StateTells,
       StartingIsUnderWay, EmittedIsUnderWay
<1>8. CASE LimitReached \/ LimitNext \/ LimitStop \/ LimitFade
  <2>1. OneRequest'
    BY <1>8 DEF LimitReached, LimitNext, LimitStop, LimitFade, Alone, OneRequest
  <2>2. /\ HasSource /\ HasSource' /\ src'.track = src.track
        /\ outPc \in {"loop"} \cup Limiting /\ outPc' \in {"loop"} \cup Limiting
    BY <1>0, <1>8, FadedType
    DEF LimitReached, LimitNext, LimitStop, LimitFade, FadeOut, Alone, SourceIsHeard
  <2>3. mState \in {"psPlaying"} \cup FadingOut /\ mState' \in {"psPlaying"} \cup FadingOut
    BY <1>8, <2>2 DEF LimitReached, LimitNext, LimitStop, LimitFade, FadeOut, Alone, StateTells
  <2>4. UNCHANGED <<curTrack, dev, outQ, call, mainPc>>
    BY <1>8 DEF LimitReached, LimitNext, LimitStop, LimitFade
  <2> QED
    BY <1>0, <2>1, <2>2, <2>3, <2>4 DEF Alone, NeverSuspended, SourceIsHeard, StateTells,
       StartingIsUnderWay, EmittedIsUnderWay
<1>9. CASE Exit
  <2>1. OneRequest'
    BY <1>9 DEF Exit, Alone, OneRequest
  <2> QED
    BY <1>0, <1>9, <2>1 DEF Exit, Alone, NeverSuspended, SourceIsHeard, StateTells,
       StartingIsUnderWay, EmittedIsUnderWay
<1> QED
  BY <1>1, <1>2, <1>3, <1>4, <1>5, <1>6, <1>7, <1>8, <1>9 DEF Output
-----------------------------------------------------------------------------
LEMMA InitAlone == ASSUME Init PROVE Alone
BY FS_EmptySet DEF Init, NoSource, HasSource, Alone, NeverSuspended, OneRequest, SourceIsHeard, StateTells,
   StartingIsUnderWay, EmittedIsUnderWay, Preparing, Limiting, FadingOut

LEMMA StutterLeavesAlone == ASSUME Alone, UNCHANGED vars PROVE Alone'
BY DEF vars, Alone, NeverSuspended, OneRequest, SourceIsHeard, StateTells, HasSource,
   StartingIsUnderWay, EmittedIsUnderWay, QueuedStarts

(* Whatever its user, the player is the one of Player.tla. *)
LEMMA UseIsPlaying == UseSpec => Spec
<1>1. UseInit => Init
  BY DEF UseInit
<1>2. [UseNext]_useVars => [Next]_vars
  BY DEF UseNext, UseUser, Next, User, useVars
<1> QED
  BY <1>1, <1>2, PTL DEF UseSpec, Spec

UseInv == IInv /\ (~pauses => Alone)

(* The inductive invariant of the player whose user may or may not pause. *)
THEOREM UseInvariantHolds == UseSpec => []UseInv
<1>1. UseInit => (~pauses => Alone)
  BY InitAlone DEF UseInit
<1>2. IInv /\ IInv' /\ (~pauses => Alone) /\ [UseNext]_useVars => (~pauses => Alone)'
  <2> SUFFICES ASSUME IInv, IInv', ~pauses => Alone, [UseNext]_useVars, ~pauses'
               PROVE  Alone'
    OBVIOUS
  <2>1. ~pauses /\ Alone
    BY DEF UseNext, useVars
  <2>2. CASE UseUser
    BY <2>1, <2>2, UserSteps, UserLeavesAlone DEF UseUser, UnpausedUser
  <2>3. CASE Main \/ Output
    BY <2>1, <2>3, MainLeavesAlone, OutputLeavesAlone
  <2>4. CASE UNCHANGED useVars
    BY <2>1, <2>4, StutterLeavesAlone DEF useVars
  <2> QED
    BY <2>2, <2>3, <2>4 DEF UseNext
<1>3. UseSpec => []IInv
  BY UseIsPlaying, InvariantHolds, PTL
<1> QED
  BY <1>1, <1>2, <1>3, PTL DEF UseSpec, UseInv

(* Without pauses, what is heard is the current track, whatever was skipped, deleted or asked for. *)
THEOREM OnlyCurrentIsHeard == UseSpec => []HeardIsCurrent
<1>1. UseInv => HeardIsCurrent
  BY DEF UseInv, Alone, SourceIsHeard, HeardIsCurrent, SourceIsOfCurrentTrack
<1> QED
  BY <1>1, UseInvariantHolds, PTL

(* Without pauses, a player that is stopped and not about to start is silent. *)
THEOREM StoppedMeansSilent == UseSpec => []SilentWhenStopped
<1>1. UseInv => SilentWhenStopped
  BY DEF UseInv, Alone, SourceIsHeard, StateTells, SilentWhenStopped, StoppedIsSilent, Preparing, FadingOut
<1> QED
  BY <1>1, UseInvariantHolds, PTL

(* Without pauses, tracks are started one at a time, and a start that is shown is under way. *)
THEOREM TracksStartOneByOne == UseSpec => []StartsOneByOne
<1>1. UseInv => StartsOneByOne
  BY QueuedStartsAre DEF UseInv, Alone, OneRequest, StateTells, StartsOneByOne, OneStartAtATime
<1> QED
  BY <1>1, UseInvariantHolds, PTL

(* Without pauses, the destructor abandons its thread only in the middle of a track. *)
THEOREM NeverAbandonedIdle == UseSpec => [](~pauses => AbandonedOnlyInTrack)
<1>1. UseInv => (~pauses => AbandonedOnlyInTrack)
  <2> SUFFICES ASSUME IInv, Alone, mainPc = "abandoned"
               PROVE  curTrack # NoItem
    BY DEF UseInv, AbandonedOnlyInTrack
  <2>1. outPc \in {"invalid", "startNext", "starting", "deliver"}
    BY DEF IInv, TypeOK, Calls, CallMatchesPc, Alone
  <2>2. CASE outPc \in {"invalid", "startNext"}
    BY <2>2, PlayerAssumption DEF IInv, PreparedIsCurrent, Alone
  <2>3. CASE outPc \in {"starting", "deliver"}
    BY <2>3 DEF IInv, SourceHasTrack, Alone, SourceIsHeard
  <2> QED
    BY <2>1, <2>2, <2>3
<1> QED
  BY <1>1, UseInvariantHolds, PTL

-----------------------------------------------------------------------------
(* The buffer between the decoder and the output thread (PlaybackBuffer.tla). *)

HIDE PlayerAssumption
USE PlaybackBufferAssumption

(* The semaphore has a permit only from a decoder that has ended. *)
PermitFromDone == terminations > 0 => decPc = "done"

(* ReadsStayInside, with the advance that a read has still to make. *)
Inside ==
  ~crossed => /\ readPos <= size
              /\ readerPc \in {"copying", "copied"} => readPos + count <= size
              /\ readerPc = "copied" => copied <= size

(* What holds whether or not the user has sought. *)
BaseInv ==
  /\ BufferTypeOK
  /\ DecoderGoneFirst
  /\ PermitFromDone
  /\ Inside
  /\ decPc = "open" => size = 0

(* The buffer is limited to its size until the decoder ends. *)
Sized ==
  /\ decPc \notin {"returned", "done"} => limit = size
  /\ size = 0 => copied = 0 /\ count = 0

(* Reading begins after the first write; an abort without an error is the destructor's. *)
DataFirst ==
  /\ readerPc \in {"playing", "copying", "copied"} => writePos > 0
  /\ shouldAbort => hasError \/ readerPc \in {"destroying", "destroyed"}
  /\ decPc \in {"failed", "aborting"} => hasError

(* The seek to the skip-start waits in readPosInit for the duration. *)
EarlySeek ==
  IF readerPc = "construct"
  THEN readPos = 0 /\ readPosInit = 0 /\ count = 0 /\ copied = 0
  ELSE size = 0 => readPosInit = skip

(* A read stays inside, and the position is never behind what has been read. *)
ReadInside ==
  /\ readerPc \in {"copying", "copied"} => readPos + count <= size
  /\ readerPc = "copied" => copied = readPos + count
  /\ readerPc # "copied" => copied <= readPos
  /\ readerPc \notin {"copying", "copied"} => count = 0

(* SkipStartApplied, kept up through reads of nothing. *)
StartPosition ==
  size > 0 /\ copied = 0 /\ count = 0 /\ readerPc # "construct"
    => readPos \in {Least(skip, size), Least(skip, limit)}

Unsought ==
  /\ BaseInv
  /\ ~crossed
  /\ Sized
  /\ DataFirst
  /\ EarlySeek
  /\ ReadInside
  /\ StartPosition

BufferInv ==
  /\ BaseInv
  /\ seeks = 0 => Unsought

LEMMA LeastType ==
  ASSUME NEW a \in Nat, NEW b \in Nat
  PROVE  /\ Least(a, b) \in Nat
         /\ Least(a, b) <= a
         /\ Least(a, b) <= b
         /\ Least(a, b) \in {a, b}
BY DEF Least

-----------------------------------------------------------------------------
LEMMA BufferInitHolds ==
  ASSUME BufferInit
  PROVE  Unsought
<1>1. length \in Nat /\ skip \in Nat
  BY PlaybackBufferAssumption DEF BufferInit
<1>2. size = 0 /\ limit = 0 /\ writePos = 0 /\ 0 \in 0..0
  BY DEF BufferInit
<1>3. {limit, writePos} \subseteq 0..size
  BY <1>2
<1>4. {size, readPos, readPosInit, length, skip, terminations, count, copied} \subseteq Nat
  BY <1>1 DEF BufferInit
<1>5. BufferTypeOK
  BY <1>3, <1>4 DEF BufferInit, BufferTypeOK, DecPcs, ReaderPcs
<1>6. DecoderGoneFirst /\ PermitFromDone /\ Inside
  BY DEF BufferInit, DecoderGoneFirst, PermitFromDone, Inside
<1>7. BaseInv
  BY <1>2, <1>5, <1>6 DEF BaseInv
<1> QED
  BY <1>7 DEF BufferInit, Unsought, Sized, DataFirst, EarlySeek, ReadInside, StartPosition

LEMMA DecoderKeepsBase ==
  ASSUME BaseInv, Decoder
  PROVE  BaseInv'
<1> USE DEF BaseInv, BufferTypeOK, DecoderGoneFirst, PermitFromDone, Inside, DecPcs, ReaderPcs,
        positions, flags, song, reading
<1>1. CASE DecoderFails
  BY <1>1 DEF DecoderFails
<1>2. CASE FlagAbort
  BY <1>2 DEF FlagAbort
<1>3. CASE WakeAfterAbort
  BY <1>3 DEF WakeAfterAbort, WakeOutput
<1>4. ASSUME NEW d \in Durations, SetDuration(d)
      PROVE  BaseInv'
  <2>1. d \in Nat /\ readPosInit \in Nat
    BY PlaybackBufferAssumption
  <2>2. Least(readPosInit, d) \in Nat
    BY <2>1, LeastType
  <2>3. writePos = 0 /\ {limit', writePos'} \subseteq 0..size'
    BY <1>4, <2>1 DEF SetDuration
  <2>4. readPos' <= size' /\ readerPc' \notin {"copying", "copied"}
    BY <1>4, <2>1, LeastType DEF SetDuration, MutexFree
  <2> QED
    BY <1>4, <2>1, <2>2, <2>3, <2>4 DEF SetDuration
<1>5. ASSUME NEW n \in 1..Chunk, Write(n)
      PROVE  BaseInv'
  <2>1. n \in Nat /\ size - writePos \in Nat
    OBVIOUS
  <2>2. Least(n, size - writePos) \in Nat /\ Least(n, size - writePos) <= size - writePos
    BY <2>1, LeastType
  <2>3. writePos' \in 0..size
    BY <1>5, <2>2 DEF Write
  <2>4. length' \in Nat
    BY <1>5, <2>1 DEF Write
  <2>5. /\ readerPc' \in ReaderPcs /\ decPc' \in DecPcs
        /\ readerPc' \in {"destroyed", "copying", "copied"} => readerPc' = readerPc
    BY <1>5 DEF Write, WakeOutput
  <2> QED
    BY <1>5, <2>3, <2>4, <2>5 DEF Write
<1>6. CASE EndOfFile
  BY <1>6 DEF EndOfFile
<1>7. CASE DecodedEOF
  BY <1>7 DEF DecodedEOF
<1>8. CASE RouteFails
  BY <1>8 DEF RouteFails
<1>9. CASE ReleaseTermination
  BY <1>9 DEF ReleaseTermination
<1> QED
  BY <1>1, <1>2, <1>3, <1>4, <1>5, <1>6, <1>7, <1>8, <1>9 DEF Decoder

LEMMA ReaderKeepsBase ==
  ASSUME BaseInv, Reader
  PROVE  BaseInv'
<1> USE DEF BaseInv, BufferTypeOK, DecoderGoneFirst, PermitFromDone, Inside, ReaderPcs,
        positions, flags, song, reading
<1>1. CASE SeekToFrame
  <2>1. skip \in Nat /\ limit \in Nat /\ limit <= size
    OBVIOUS
  <2>2. Least(skip, limit) \in Nat /\ Least(skip, limit) <= limit
    BY <2>1, LeastType
  <2> QED
    BY <1>1, <2>1, <2>2 DEF SeekToFrame
<1>2. CASE CheckData \/ SleepForData
  BY <1>2 DEF CheckData, SleepForData
<1>3. ASSUME NEW n \in 1..Chunk, ReadStart(n)
      PROVE  BaseInv'
  <2>1. CASE readPos <= size
    <3>1. n \in Nat /\ size - readPos \in Nat
      BY <2>1
    <3>2. count' = Least(n, size - readPos)
      BY <1>3, <2>1 DEF ReadStart, NumBytesToRead
    <3>3. count' \in Nat /\ readPos + count' <= size
      BY <3>1, <3>2, LeastType
    <3> QED
      BY <1>3, <3>3 DEF ReadStart
  <2>2. CASE ~(readPos <= size)
    <3>1. count' = n /\ count' \in Nat /\ crossed
      BY <1>3, <2>2 DEF ReadStart, NumBytesToRead
    <3> QED
      BY <1>3, <3>1 DEF ReadStart
  <2> QED
    BY <2>1, <2>2
<1>4. CASE ReadCopy
  BY <1>4 DEF ReadCopy
<1>5. CASE ReadEnd
  BY <1>5 DEF ReadEnd
<1>6. CASE Destroy
  BY <1>6 DEF Destroy
<1>7. CASE Destroyed
  <2>1. terminations' \in Nat /\ decPc = "done" /\ decPc' = "done"
    BY <1>7 DEF Destroyed
  <2> QED
    BY <1>7, <2>1 DEF Destroyed
<1> QED
  BY <1>1, <1>2, <1>3, <1>4, <1>5, <1>6, <1>7 DEF Reader

LEMMA SeekKeepsBase ==
  ASSUME BaseInv, NEW p \in 0..limit, Seek(p)
  PROVE  BaseInv'
<1> USE DEF BaseInv, BufferTypeOK, DecoderGoneFirst, PermitFromDone, Inside
<1>1. readPos' = p /\ p \in Nat /\ p <= size
  BY DEF Seek
<1>2. ~crossed' => readerPc = "playing"
  BY DEF Seek
<1> QED
  BY <1>1, <1>2 DEF Seek, flags, song

LEMMA BaseKept ==
  ASSUME BaseInv, [BufferNext]_bufferVars
  PROVE  BaseInv'
<1>1. CASE UNCHANGED bufferVars
  BY <1>1 DEF bufferVars, positions, flags, song, reading, BaseInv, BufferTypeOK, DecoderGoneFirst,
     PermitFromDone, Inside
<1> QED
  BY <1>1, DecoderKeepsBase, ReaderKeepsBase, SeekKeepsBase DEF BufferNext

-----------------------------------------------------------------------------
(* The decoder's steps, as long as nobody has sought. *)
LEMMA DecoderKeeps ==
  ASSUME Unsought, Decoder
  PROVE  Unsought'
<1>0. BaseInv'
  BY DecoderKeepsBase DEF Unsought
<1> USE DEF Unsought, BaseInv, Sized, DataFirst, EarlySeek, ReadInside, StartPosition,
        positions, flags, song, reading
<1>1. CASE DecoderFails
  BY <1>0, <1>1 DEF DecoderFails
<1>2. CASE FlagAbort
  <2>1. hasError \in BOOLEAN
    BY DEF BufferTypeOK
  <2> QED
    BY <1>0, <1>2, <2>1 DEF FlagAbort
<1>3. CASE WakeAfterAbort
  <2>1. limit \in 0..size
    BY DEF BufferTypeOK
  <2> QED
    BY <1>0, <1>3, <2>1 DEF WakeAfterAbort, WakeOutput
<1>4. ASSUME NEW d \in Durations, SetDuration(d)
      PROVE  Unsought'
  <2>1. /\ size = 0 /\ size' = d /\ limit' = d /\ d \in Nat \ {0}
        /\ readPos' = Least(readPosInit, d)
        /\ copied = 0 /\ count = 0
        /\ readerPc' = readerPc
    BY <1>4, PlaybackBufferAssumption DEF SetDuration
  <2>2. readerPc \notin {"playing", "copying", "copied"}
    BY <2>1 DEF BufferTypeOK
  <2>3. readPosInit \in Nat /\ skip \in Nat
    BY DEF BufferTypeOK
  <2>4. readerPc = "construct" => readPos' = 0
    BY <2>1 DEF Least
  <2>5. readerPc # "construct" => readPos' = Least(skip, size')
    BY <2>1
  <2>6. readPos' \in Nat
    BY <2>1, <2>3, LeastType
  <2>7. Sized' /\ DataFirst' /\ EarlySeek'
    BY <1>4, <2>1, <2>2, <2>4 DEF SetDuration
  <2>8. ReadInside'
    BY <1>4, <2>1, <2>2, <2>6 DEF SetDuration
  <2>9. StartPosition'
    BY <1>4, <2>5 DEF SetDuration
  <2>10. ~crossed'
    BY <1>4 DEF SetDuration
  <2> QED
    BY <1>0, <2>7, <2>8, <2>9, <2>10
<1>5. ASSUME NEW n \in 1..Chunk, Write(n)
      PROVE  Unsought'
  <2>1. n \in Nat /\ size - writePos \in Nat /\ writePos \in Nat
    BY DEF BufferTypeOK
  <2>2. writePos' >= writePos
    <3>1. Least(n, size - writePos) \in Nat
      BY <2>1, LeastType
    <3> QED
      BY <1>5, <2>1, <3>1 DEF Write
  <2>3. \/ readerPc' = readerPc
        \/ readerPc = "waiting" /\ readerPc' = "wait"
    BY <1>5 DEF Write, WakeOutput
  <2>4. DataFirst'
    BY <1>5, <2>1, <2>2, <2>3, <1>0 DEF Write, BufferTypeOK
  <2>5. Sized' /\ EarlySeek' /\ ReadInside' /\ StartPosition'
    BY <1>5, <2>3 DEF Write
  <2>6. ~crossed'
    BY <1>5 DEF Write
  <2> QED
    BY <1>0, <2>4, <2>5, <2>6
<1>6. CASE EndOfFile
  BY <1>0, <1>6 DEF EndOfFile
<1>7. CASE DecodedEOF
  <2>1. Sized' /\ DataFirst' /\ EarlySeek' /\ ReadInside'
    BY <1>7 DEF DecodedEOF
  <2>2. StartPosition'
    BY <1>7 DEF DecodedEOF
  <2> QED
    BY <1>0, <1>7, <2>1, <2>2 DEF DecodedEOF
<1>8. CASE RouteFails
  BY <1>0, <1>8 DEF RouteFails
<1>9. CASE ReleaseTermination
  BY <1>0, <1>9 DEF ReleaseTermination
<1> QED
  BY <1>1, <1>2, <1>3, <1>4, <1>5, <1>6, <1>7, <1>8, <1>9 DEF Decoder

(* The output thread's steps. *)
LEMMA ReaderKeeps ==
  ASSUME Unsought, Reader
  PROVE  Unsought'
<1>0. BaseInv'
  BY ReaderKeepsBase DEF Unsought
<1> USE DEF Unsought, BaseInv, Sized, DataFirst, EarlySeek, ReadInside, StartPosition,
        positions, flags, song, reading
<1>1. CASE SeekToFrame
  <2>1. {skip, size, limit, readPos} \subseteq Nat
    BY DEF BufferTypeOK
  <2>2. CASE skip = 0
    <3>1. UNCHANGED <<readPos, readPosInit>> /\ Least(skip, size) = 0
      BY <1>1, <2>1, <2>2 DEF SeekToFrame, Least
    <3> QED
      BY <1>0, <1>1, <2>2, <3>1 DEF SeekToFrame
  <2>3. CASE skip # 0 /\ limit = 0
    <3>1. readPosInit' = skip /\ readPos' = readPos /\ Least(skip, limit) = 0
      BY <1>1, <2>1, <2>3 DEF SeekToFrame, Least
    <3> QED
      BY <1>0, <1>1, <3>1 DEF SeekToFrame
  <2>4. CASE skip # 0 /\ limit # 0
    <3>1. readPos' = Least(skip, limit) /\ readPosInit' = readPosInit /\ readPos' \in Nat
      BY <1>1, <2>1, <2>4, LeastType DEF SeekToFrame
    <3>2. size # 0
      BY <2>1, <2>4 DEF BufferTypeOK
    <3> QED
      BY <1>0, <1>1, <3>1, <3>2 DEF SeekToFrame
  <2> QED
    BY <2>2, <2>3, <2>4
<1>2. CASE CheckData
  <2>1. shouldAbort \in BOOLEAN /\ hasError \in BOOLEAN /\ writePos \in Nat
    BY DEF BufferTypeOK
  <2>2. readerPc' = "playing" => writePos > 0
    BY <1>2, <2>1 DEF CheckData
  <2> QED
    BY <1>0, <1>2, <2>2 DEF CheckData
<1>3. CASE SleepForData
  BY <1>0, <1>3 DEF SleepForData
<1>4. ASSUME NEW n \in 1..Chunk, ReadStart(n)
      PROVE  Unsought'
  <2>1. n \in Nat /\ size - readPos \in Nat /\ size \in Nat /\ readPos \in Nat
    BY DEF Inside, BufferTypeOK
  <2>2. count' \in Nat /\ readPos + count' <= size
    <3>1. Least(n, size - readPos) \in Nat /\ Least(n, size - readPos) <= size - readPos
      BY <2>1, LeastType
    <3> QED
      BY <1>4, <2>1, <3>1 DEF ReadStart, NumBytesToRead
  <2>3. size # 0
    BY <1>4 DEF ReadStart, BufferTypeOK
  <2>4. Sized' /\ DataFirst' /\ EarlySeek'
    BY <1>4, <2>3 DEF ReadStart
  <2>5. ReadInside' /\ StartPosition'
    BY <1>4, <2>2 DEF ReadStart
  <2>6. ~crossed'
    BY <1>4 DEF ReadStart
  <2> QED
    BY <1>0, <2>4, <2>5, <2>6
<1>5. CASE ReadCopy
  <2>1. {count, copied, readPos, size} \subseteq Nat
    BY DEF BufferTypeOK
  <2>2. size # 0
    BY <1>5 DEF ReadCopy, BufferTypeOK
  <2>3. Sized' /\ DataFirst' /\ EarlySeek' /\ ReadInside'
    BY <1>5, <2>2 DEF ReadCopy
  <2>4. StartPosition'
    BY <1>5, <2>1 DEF ReadCopy
  <2>5. ~crossed'
    BY <1>5 DEF ReadCopy
  <2> QED
    BY <1>0, <2>3, <2>4, <2>5
<1>6. CASE ReadEnd
  <2>1. {count, copied, readPos, size} \subseteq Nat
    BY DEF BufferTypeOK
  <2>2. Sized' /\ DataFirst' /\ EarlySeek'
    BY <1>6 DEF ReadEnd
  <2>3. ReadInside'
    BY <1>6, <2>1 DEF ReadEnd
  <2>4. StartPosition'
    BY <1>6, <2>1 DEF ReadEnd
  <2>5. ~crossed'
    BY <1>6 DEF ReadEnd
  <2> QED
    BY <1>0, <2>2, <2>3, <2>4, <2>5
<1>7. CASE Destroy
  BY <1>0, <1>7 DEF Destroy
<1>8. CASE Destroyed
  BY <1>0, <1>8 DEF Destroyed
<1> QED
  BY <1>1, <1>2, <1>3, <1>4, <1>5, <1>6, <1>7, <1>8 DEF Reader

LEMMA BufferStepKeeps ==
  ASSUME BufferInv, [BufferNext]_bufferVars
  PROVE  BufferInv'
<1>1. BaseInv'
  BY BaseKept DEF BufferInv
<1>2. ASSUME seeks' = 0, UNCHANGED bufferVars
      PROVE  Unsought'
  BY <1>2 DEF bufferVars, positions, flags, song, reading, BufferInv, Unsought, BaseInv, BufferTypeOK,
     DecoderGoneFirst, PermitFromDone, Inside, Sized, DataFirst, EarlySeek, ReadInside, StartPosition
<1>3. ASSUME seeks' = 0, Decoder
      PROVE  Unsought'
  <2>1. seeks = 0
    BY <1>3 DEF Decoder, DecoderFails, FlagAbort, WakeAfterAbort, RouteFails, SetDuration, Write, EndOfFile,
       DecodedEOF, ReleaseTermination, reading
  <2> QED
    BY <1>3, <2>1, DecoderKeeps DEF BufferInv
<1>4. ASSUME seeks' = 0, Reader
      PROVE  Unsought'
  <2>1. seeks = 0
    BY <1>4 DEF Reader, SeekToFrame, CheckData, SleepForData, ReadStart, ReadCopy, ReadEnd,
       Destroy, Destroyed, reading
  <2> QED
    BY <1>4, <2>1, ReaderKeeps DEF BufferInv
<1>5. ASSUME NEW p \in 0..limit, Seek(p)
      PROVE  seeks' # 0
  BY <1>5 DEF Seek, BufferInv, BaseInv, BufferTypeOK
<1> QED
  BY <1>1, <1>2, <1>3, <1>4, <1>5 DEF BufferInv, BufferNext

-----------------------------------------------------------------------------
LEMMA BufferBaseHolds == BufferSpec => []BaseInv
<1>1. BufferInit => BaseInv
  BY BufferInitHolds DEF Unsought
<1>2. BaseInv /\ [BufferNext]_bufferVars => BaseInv'
  BY BaseKept
<1> QED
  BY <1>1, <1>2, PTL DEF BufferSpec

(* Every variable of the buffer has its type, the limit and the write position are in the data. *)
THEOREM BufferTypeCorrect == BufferSpec => []BufferTypeOK
<1>1. BaseInv => BufferTypeOK
  BY DEF BaseInv
<1> QED
  BY <1>1, BufferBaseHolds, PTL

(* ~SongDecoder() returns with the permit of mTermination, and that only after the decoder's last access. *)
THEOREM DestructorOutlastsDecoder == BufferSpec => []DecoderGoneFirst
<1>1. BaseInv => DecoderGoneFirst
  BY DEF BaseInv
<1> QED
  BY <1>1, BufferBaseHolds, PTL

LEMMA BufferInvHolds == BufferSpec => []BufferInv
<1>1. BufferInit => BufferInv
  BY BufferInitHolds DEF BufferInv, Unsought
<1>2. BufferInv /\ [BufferNext]_bufferVars => BufferInv'
  BY BufferStepKeeps
<1> QED
  BY <1>1, <1>2, PTL DEF BufferSpec

(* Until the first seek, the skip-start is applied, whichever thread comes first. *)
THEOREM SkipStartIsApplied == BufferSpec => []SkipStartApplied
<1>1. BufferInv => SkipStartApplied
  BY DEF BufferInv, Unsought, StartPosition, SkipStartApplied
<1> QED
  BY <1>1, BufferInvHolds, PTL

(* However often the user seeks between reads, no read begins or ends behind the data, nor copies from there. *)
THEOREM ReadsAreInside == BufferSpec => []ReadsStayInside
<1>1. BaseInv => ReadsStayInside
  BY DEF BaseInv, Inside, ReadsStayInside
<1> QED
  BY <1>1, BufferBaseHolds, PTL

(* Together: the accesses of both threads stay inside the buffer and its lifetime, unless a seek crosses a read. *)
THEOREM AccessesAlwaysRight == BufferSpec => []AccessesAreRight
<1>1. BufferTypeOK /\ DecoderGoneFirst /\ ReadsStayInside /\ SkipStartApplied => AccessesAreRight
  BY DEF AccessesAreRight
<1> QED
  BY <1>1, BufferTypeCorrect, DestructorOutlastsDecoder, ReadsAreInside, SkipStartIsApplied, PTL
=============================================================================
