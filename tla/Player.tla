------------------------------- MODULE Player -------------------------------
(***************************************************************************)
(* The player (src/src/Audio/Player.cpp): its state machine, driven by the *)
(* windows and by the audio output's state changes in the main thread, and *)
(* its output thread, which prepares the tracks, owns the audio device and *)
(* enforces the duration limit.  The two threads share mState,             *)
(* mCurrentTrack, mAudioDataSource, mTempoCoeff and the playlist without a *)
(* lock.  They talk through queued signals to the output thread (outQ) and *)
(* blocking calls back to the main thread (call).                          *)
(*                                                                         *)
(* A handler of the main thread is one step, except that startPlayback()   *)
(* emits startingPlayback before it sets psStartingPlayback.  While a      *)
(* blocking call is served the output thread waits, so there the two are   *)
(* one step.  The output thread's code is cut where it reads or writes     *)
(* what the main thread may touch.  Playback positions and times are left  *)
(* out; so are the queued signals whose handlers only concern those.       *)
(***************************************************************************)
EXTENDS PlaylistOps

CONSTANTS
  Items,          \* the playlist item objects
  NoItem,         \* the null item pointer
  InitialItems,   \* the playlist when the exploration starts
  FailingTracks,  \* the items whose file cannot be decoded
  LimitedTracks,  \* the items with a duration limit
  Tempos,         \* the tempo coefficients the user may set
  DefaultTempo,   \* the coefficient the player starts with
  UserOps,        \* the operations the user makes use of
  MaxItems,       \* bound: the longest playlist and the largest index
  MaxQueue        \* bound: the user acts while fewer events than this are queued

AllUserOps == {"play", "playPause", "stop", "next", "prev", "jump",
               "tempo", "edit", "delete", "replace", "quit"}

ASSUME PlayerAssumption ==
  /\ NoItem \notin Items
  /\ InitialItems \in Seq(Items)
  /\ FailingTracks \subseteq Items
  /\ LimitedTracks \subseteq Items
  /\ DefaultTempo \in Tempos
  /\ UserOps \subseteq AllUserOps
  /\ MaxItems \in Nat
  /\ MaxQueue \in Nat

VARIABLES
  pl,             \* mPlaylist: its items and current index
  mState,
  curTrack,       \* mCurrentTrack
  src,            \* mAudioDataSource: its track, its tempo, whether it fades out
  tempo,          \* mTempoCoeff
  unplayable,     \* the items marked as unplayable
  dev,            \* the state of the QAudioOutput
  outQ,           \* the events queued for the output thread
  outPc,          \* where the output thread is
  outTrack,       \* startPlaying()'s aTrack
  outTempo,       \* the tempo of the source being built
  call,           \* the blocking call of the output thread, until it is served
  mainPc          \* where the main thread is

playlistVars == <<pl, unplayable>>
outVars == <<outPc, outTrack, outTempo, call>>
vars == <<pl, mState, curTrack, src, tempo, unplayable, dev, outQ, outPc, outTrack,
          outTempo, call, mainPc>>

States == {"psStopped", "psPlaying", "psFadeOutToTrack", "psFadeOutToStop",
           "psPaused", "psStartingPlayback"}

FadingOut == {"psFadeOutToTrack", "psFadeOutToStop"}

DeviceStates == {"Stopped", "Active", "Suspended", "Idle"}

MaybeItem == Items \cup {NoItem}

Sources == [track : MaybeItem, tempo : Tempos, fading : BOOLEAN]

NoSource == [track |-> NoItem, tempo |-> DefaultTempo, fading |-> FALSE]

HasSource == src.track # NoItem

(* A queued startingPlayback signal, and a queued stateChanged signal of the device. *)
StartOf(t) == [type |-> "startPlaying", track |-> t]
ChangeTo(s) == [type |-> s, track |-> NoItem]

Events == [type : {"startPlaying", "Active", "Suspended"}, track : MaybeItem]

OutPcs == {"loop", "decode", "built", "starting", "started", "invalid", "startNext",
           "deliver", "limitNext", "limitStop", "fadeToTrack", "fadeToStop", "exited"}

Calls == {"none", "invalidCurrentTrack", "startNextTrack", "Active", "Suspended", "Idle"}

MainPcs == {"loop", "emitted", "joining", "exited", "abandoned"}

TypeOK ==
  /\ pl \in Playlists(Items)
  /\ mState \in States
  /\ curTrack \in MaybeItem
  /\ src \in Sources
  /\ tempo \in Tempos
  /\ unplayable \subseteq MaybeItem
  /\ dev \in DeviceStates
  /\ outQ \in Seq(Events)
  /\ outPc \in OutPcs
  /\ outTrack \in MaybeItem
  /\ outTempo \in Tempos
  /\ call \in Calls
  /\ mainPc \in MainPcs

Init ==
  /\ pl = [items |-> InitialItems, cur |-> 0]
  /\ mState = "psStopped"
  /\ curTrack = NoItem
  /\ src = NoSource
  /\ tempo = DefaultTempo
  /\ unplayable = {}
  /\ dev = "Stopped"
  /\ outQ = <<>>
  /\ outPc = "loop"
  /\ outTrack = NoItem
  /\ outTempo = DefaultTempo
  /\ call = "none"
  /\ mainPc = "loop"

-----------------------------------------------------------------------------
(* Parts of the handlers. *)

(* The source with its fade-out started, or cut short when it is under way. *)
Faded(s) == IF s.track = NoItem THEN s ELSE [s EXCEPT !.fading = TRUE]

(* Mutant: the state is set, the source goes on at full volume. *)
FadeOutSilently(target) ==
  /\ mState' = target
  /\ UNCHANGED src

(* fadeOut(target) *)
FadeOut(target) ==
  /\ mState' = target
  /\ src' = Faded(src)

(* The device calls made from the main thread; their signals are queued. *)
Suspend ==
  IF dev \in {"Active", "Idle"}
  THEN dev' = "Suspended" /\ outQ' = Append(outQ, ChangeTo("Suspended"))
  ELSE UNCHANGED <<dev, outQ>>

Resume ==
  IF dev = "Suspended"
  THEN dev' = "Active" /\ outQ' = Append(outQ, ChangeTo("Active"))
  ELSE UNCHANGED <<dev, outQ>>

(***************************************************************************)
(* startPlayback(), with the playlist p and in the state st.  Called in    *)
(* one go with what follows (atOnce) or left between the emit and the      *)
(* assignment of psStartingPlayback, for FinishStart to complete.          *)
(***************************************************************************)
StartPlayback(p, st, atOnce) ==
  \E t \in CurrentItems(p, Items, NoItem) :
    \/ /\ t = NoItem \/ st \in {"psFadeOutToTrack", "psPlaying", "psStartingPlayback"}
       /\ mState' = st
       /\ UNCHANGED <<dev, outQ, mainPc>>
    \/ /\ t # NoItem
       /\ st = "psFadeOutToStop"
       /\ mState' = "psFadeOutToTrack"
       /\ UNCHANGED <<dev, outQ, mainPc>>
    \/ /\ t # NoItem
       /\ st = "psStopped"
       /\ outQ' = Append(outQ, StartOf(t))
       /\ mState' = IF atOnce THEN "psStartingPlayback" ELSE st
       /\ mainPc' = IF atOnce THEN mainPc ELSE "emitted"
       /\ UNCHANGED dev
    \/ /\ t # NoItem
       /\ st = "psPaused"
       /\ mState' = st
       /\ Resume
       /\ UNCHANGED mainPc

(***************************************************************************)
(* The end of nextTrack() and prevTrack(), once the playlist has moved.    *)
(***************************************************************************)
FadeToCurrent ==
  CASE mState \in {"psPlaying", "psStartingPlayback"} -> FadeOut("psFadeOutToTrack")
    [] mState = "psFadeOutToStop" -> mState' = "psFadeOutToTrack" /\ UNCHANGED src
    [] OTHER -> UNCHANGED <<mState, src>>

(* jumpTo() with a valid index. *)
JumpTo(p) ==
  \/ /\ mState \in {"psPlaying", "psStartingPlayback"}
     /\ FadeOut("psFadeOutToTrack")
     /\ UNCHANGED <<dev, outQ, mainPc>>
  \/ /\ mState \in {"psPaused", "psStopped"}
     /\ StartPlayback(p, "psStopped", FALSE)
     /\ UNCHANGED src
  \/ /\ mState \in FadingOut
     /\ mState' = "psFadeOutToTrack"
     /\ UNCHANGED <<src, dev, outQ, mainPc>>

-----------------------------------------------------------------------------
(* The user, in the main thread. *)

UserMay(op) ==
  /\ op \in UserOps
  /\ mainPc = "loop"
  /\ Len(outQ) < MaxQueue

(* startPlayback() *)
Play ==
  /\ UserMay("play")
  /\ StartPlayback(pl, mState, FALSE)
  /\ UNCHANGED <<playlistVars, curTrack, src, tempo, outVars>>

(* startPausePlayback(), with pausePlayback() *)
PlayPause ==
  /\ UserMay("playPause")
  /\ \/ /\ mState \in {"psStopped", "psPaused"}
        /\ StartPlayback(pl, mState, FALSE)
     \/ /\ mState \in {"psPlaying", "psStartingPlayback"}
        /\ Suspend
        /\ UNCHANGED <<mState, mainPc>>
     \/ /\ mState \in FadingOut
        /\ mState' = "psFadeOutToStop"
        /\ UNCHANGED <<dev, outQ, mainPc>>
  /\ UNCHANGED <<playlistVars, curTrack, src, tempo, outVars>>

(* Mutant: the second stop sets the state and leaves the device running. *)
StopStateOnly ==
  /\ UserMay("stop")
  /\ \/ /\ mState \in {"psPlaying", "psStartingPlayback"}
        /\ FadeOut("psFadeOutToStop")
     \/ /\ mState \in FadingOut
        /\ mState' = "psStopped"
        /\ UNCHANGED src
  /\ UNCHANGED <<playlistVars, curTrack, tempo, dev, outQ, outVars, mainPc>>

(* stopPlayback() *)
Stop ==
  /\ UserMay("stop")
  /\ \/ /\ mState \in {"psPlaying", "psStartingPlayback"}
        /\ FadeOut("psFadeOutToStop")
     \/ /\ mState \in FadingOut
        /\ src' = Faded(src)
        /\ UNCHANGED mState
  /\ UNCHANGED <<playlistVars, curTrack, tempo, dev, outQ, outVars, mainPc>>

(* nextTrack() *)
NextTrack ==
  /\ UserMay("next")
  /\ \/ /\ mState = "psFadeOutToTrack"
        /\ src' = Faded(src)
        /\ UNCHANGED <<pl, mState>>
     \/ /\ mState # "psFadeOutToTrack"
        /\ HasNext(pl)
        /\ pl' = NextItem(pl)
        /\ FadeToCurrent
  /\ UNCHANGED <<unplayable, curTrack, tempo, dev, outQ, outVars, mainPc>>

(* prevTrack() *)
PrevTrack ==
  /\ UserMay("prev")
  /\ \/ /\ mState = "psFadeOutToTrack"
        /\ src' = Faded(src)
        /\ UNCHANGED <<pl, mState>>
     \/ /\ mState # "psFadeOutToTrack"
        /\ HasPrev(pl)
        /\ pl' = PrevItem(pl)
        /\ FadeToCurrent
  /\ UNCHANGED <<unplayable, curTrack, tempo, dev, outQ, outVars, mainPc>>

Jump(i) ==
  /\ UserMay("jump")
  /\ IsValidIndex(pl, i)
  /\ pl' = SetCurrentItem(pl, i)
  /\ JumpTo(pl')
  /\ UNCHANGED <<unplayable, curTrack, tempo, outVars>>

(* setTempoCoeff() *)
SetTempo(t) ==
  /\ UserMay("tempo")
  /\ t # tempo
  /\ tempo' = t
  /\ src' = IF HasSource THEN [src EXCEPT !.tempo = t] ELSE src
  /\ UNCHANGED <<playlistVars, mState, curTrack, dev, outQ, outVars, mainPc>>

(* An item object that nothing refers to yet. *)
NewItems ==
  Items \ (ItemsOf(pl) \cup {curTrack, src.track, outTrack}
             \cup {outQ[k].track : k \in DOMAIN outQ})

(* The playlist edits that do not concern the player. *)
Edit ==
  /\ UserMay("edit")
  /\ \/ \E t \in NewItems :
          /\ Size(pl) < MaxItems
          /\ \/ pl' = AddItem(pl, t)
             \/ \E i \in 0..Size(pl) : pl' = InsertItem(pl, i, t)
     \/ \E from \in 0..(Size(pl) - 1), to \in 0..Size(pl) :
          (to < Size(pl) \/ from < to)
          /\ pl' = MoveItem(pl, from, to)
  /\ pl'.cur <= MaxItems
  /\ UNCHANGED <<unplayable, mState, curTrack, src, tempo, dev, outQ, outVars, mainPc>>

(* deletePlaylistItem(), called for each item before it goes. *)
FadeOutIfPlaying(S) ==
  IF mState \in {"psPlaying", "psStartingPlayback"} /\ curTrack \in S
  THEN FadeOut("psFadeOutToTrack")
  ELSE UNCHANGED <<mState, src>>

(* Playlist::deleteItem(), or removeSong() when the song (of one item) has left the library. *)
Delete(i) ==
  /\ UserMay("delete")
  /\ IsValidIndex(pl, i)
  /\ FadeOutIfPlaying({ItemAt(pl, i)})
  /\ pl' \in {DeleteItem(pl, i), EraseItem(pl, i)}
  /\ UNCHANGED <<unplayable, curTrack, tempo, dev, outQ, outVars, mainPc>>

(* PlayerWindow::replaceSong() *)
Replace(i, t) ==
  /\ UserMay("replace")
  /\ IsValidIndex(pl, i)
  /\ t \in NewItems
  /\ pl' = ReplaceItem(pl, i, t)
  /\ IF mState # "psStopped" /\ i = pl.cur
     THEN JumpTo(pl')
     ELSE UNCHANGED <<mState, src, dev, outQ, mainPc>>
  /\ UNCHANGED <<unplayable, curTrack, tempo, outVars>>

(* The event loop has ended, ~Player() waits for the output thread to. *)
Quit ==
  /\ UserMay("quit")
  /\ mainPc' = "joining"
  /\ UNCHANGED <<playlistVars, mState, curTrack, src, tempo, dev, outQ, outVars>>

User ==
  \/ Play \/ PlayPause \/ Stop \/ NextTrack \/ PrevTrack
  \/ \E i \in 0..(Size(pl) - 1) : Jump(i) \/ Delete(i) \/ \E t \in Items : Replace(i, t)
  \/ \E t \in Tempos : SetTempo(t)
  \/ Edit
  \/ Quit

-----------------------------------------------------------------------------
(* The rest of the main thread. *)

(* Mutant: psStartingPlayback is never set. *)
FinishStartForgotten ==
  /\ mainPc = "emitted"
  /\ mainPc' = "loop"
  /\ UNCHANGED <<playlistVars, mState, curTrack, src, tempo, dev, outQ, outVars>>

(* The assignment at the end of startPlayback(). *)
FinishStart ==
  /\ mainPc = "emitted"
  /\ mState' = "psStartingPlayback"
  /\ mainPc' = "loop"
  /\ UNCHANGED <<playlistVars, curTrack, src, tempo, dev, outQ, outVars>>

Serving(name) == mainPc = "loop" /\ call = name

(* The blocking call returns to where the output thread waits for it. *)
Return ==
  /\ call' = "none"
  /\ outPc' = IF outPc = "starting" THEN "started" ELSE "loop"
  /\ UNCHANGED <<outTrack, outTempo>>

(* Mutant: the playlist's current item is marked, not the one that failed. *)
InvalidCurrentItem ==
  /\ Serving("invalidCurrentTrack")
  /\ \E t \in CurrentItems(pl, Items, NoItem) : unplayable' = unplayable \cup ({t} \ {NoItem})
  /\ call' = "startNextTrack"
  /\ outPc' = "startNext"
  /\ UNCHANGED <<pl, mState, curTrack, src, tempo, dev, outQ, outTrack, outTempo, mainPc>>

(* The output thread goes straight on to its next blocking call, startNextTrack(). *)
InvalidCurrentTrack ==
  /\ Serving("invalidCurrentTrack")
  /\ unplayable' = unplayable \cup {curTrack}
  /\ call' = "startNextTrack"
  /\ outPc' = "startNext"
  /\ UNCHANGED <<pl, mState, curTrack, src, tempo, dev, outQ, outTrack, outTempo, mainPc>>

StartNextTrack ==
  /\ Serving("startNextTrack")
  /\ pl' = NextItem(pl)
  /\ IF HasNext(pl)
     THEN StartPlayback(pl', mState, TRUE)
     ELSE UNCHANGED <<mState, dev, outQ, mainPc>>
  /\ Return
  /\ UNCHANGED <<unplayable, curTrack, src, tempo>>

(* Mutant: the source is left in place. *)
DropTrackOnly ==
  /\ curTrack' = NoItem
  /\ UNCHANGED src

DropSource ==
  /\ src' = NoSource
  /\ curTrack' = NoItem

(* Mutant: startPlayback() is called without resetting the state first. *)
RestartInState(p) == StartPlayback(p, mState, TRUE)

(* The end of a track or of a fade-out: psStopped, then startPlayback(). *)
Restart(p) == StartPlayback(p, "psStopped", TRUE)

(* outputStateChanged() *)
OutputIdle ==
  /\ Serving("Idle")
  /\ \/ /\ mState = "psPlaying"
        /\ DropSource
        /\ pl' = NextItem(pl)
        /\ IF HasNext(pl)
           THEN Restart(pl')
           ELSE mState' = "psStopped" /\ UNCHANGED <<dev, outQ, mainPc>>
     \/ /\ mState \in {"psFadeOutToStop", "psPaused"}
        /\ DropSource
        /\ mState' = "psStopped"
        /\ UNCHANGED <<pl, dev, outQ, mainPc>>
     \/ /\ mState = "psFadeOutToTrack"
        /\ DropSource
        /\ Restart(pl)
        /\ UNCHANGED pl
     \/ /\ mState \in {"psStopped", "psStartingPlayback"}
        /\ UNCHANGED <<pl, mState, curTrack, src, dev, outQ, mainPc>>
  /\ Return
  /\ UNCHANGED <<unplayable, tempo>>

OutputSuspended ==
  /\ Serving("Suspended")
  /\ mState' = "psPaused"
  /\ Return
  /\ UNCHANGED <<playlistVars, curTrack, src, tempo, dev, outQ, mainPc>>

OutputActive ==
  /\ Serving("Active")
  /\ mState' = IF mState = "psPaused" THEN "psPlaying" ELSE mState
  /\ Return
  /\ UNCHANGED <<playlistVars, curTrack, src, tempo, dev, outQ, mainPc>>

(* ~Player(): wait(5000) returns, or times out because the thread waits for this one. *)
Joined ==
  /\ mainPc = "joining"
  /\ outPc = "exited"
  /\ mainPc' = "exited"
  /\ UNCHANGED <<playlistVars, mState, curTrack, src, tempo, dev, outQ, outVars>>

Abandon ==
  /\ mainPc = "joining"
  /\ call # "none"
  /\ mainPc' = "abandoned"
  /\ UNCHANGED <<playlistVars, mState, curTrack, src, tempo, dev, outQ, outVars>>

Main ==
  \/ FinishStart
  \/ InvalidCurrentTrack \/ StartNextTrack
  \/ OutputIdle \/ OutputSuspended \/ OutputActive
  \/ Joined \/ Abandon

-----------------------------------------------------------------------------
(* The output thread. *)

(* startPlaying(aTrack): up to the decoder being started. *)
StartPlaying ==
  /\ outPc = "loop"
  /\ outQ # <<>>
  /\ Head(outQ).type = "startPlaying"
  /\ outQ' = Tail(outQ)
  /\ curTrack' = Head(outQ).track
  /\ outTrack' = Head(outQ).track
  /\ outPc' = "decode"
  /\ UNCHANGED <<playlistVars, mState, src, tempo, dev, outTempo, call, mainPc>>

(* No decoder, or waitForData() failed. *)
DecodeFailed ==
  /\ outPc = "decode"
  /\ outTrack \in FailingTracks
  /\ mState' = "psStopped"
  /\ outTrack' = NoItem
  /\ call' = "invalidCurrentTrack"
  /\ outPc' = "invalid"
  /\ UNCHANGED <<playlistVars, curTrack, src, tempo, dev, outQ, outTempo, mainPc>>

(* The chain of effects is built, with the tempo of this moment. *)
Decoded ==
  /\ outPc = "decode"
  /\ outTrack \notin FailingTracks
  /\ outTempo' = tempo
  /\ outPc' = "built"
  /\ UNCHANGED <<playlistVars, mState, curTrack, src, tempo, dev, outQ, outTrack, call, mainPc>>

(* The source is installed and the device started, which reports itself active. *)
StartDevice ==
  /\ outPc = "built"
  /\ src' = [track |-> outTrack, tempo |-> outTempo, fading |-> FALSE]
  /\ dev' = "Active"
  /\ outTrack' = NoItem
  /\ outTempo' = DefaultTempo
  /\ call' = "Active"
  /\ outPc' = "starting"
  /\ UNCHANGED <<playlistVars, mState, curTrack, tempo, outQ, mainPc>>

NowPlaying ==
  /\ outPc = "started"
  /\ mState' = "psPlaying"
  /\ outPc' = "loop"
  /\ UNCHANGED <<playlistVars, curTrack, src, tempo, dev, outQ, outTrack, outTempo, call, mainPc>>

(* A state change made from the main thread reaches the device's own thread. *)
DeliverChange ==
  /\ outPc = "loop"
  /\ outQ # <<>>
  /\ Head(outQ).type # "startPlaying"
  /\ outQ' = Tail(outQ)
  /\ call' = Head(outQ).type
  /\ outPc' = "deliver"
  /\ UNCHANGED <<playlistVars, mState, curTrack, src, tempo, dev, outTrack, outTempo, mainPc>>

(* The source has no more data: the track or its fade-out is over. *)
DeviceRunsDry ==
  /\ outPc = "loop"
  /\ dev = "Active"
  /\ dev' = "Idle"
  /\ call' = "Idle"
  /\ outPc' = "deliver"
  /\ UNCHANGED <<playlistVars, mState, curTrack, src, tempo, outQ, outTrack, outTempo, mainPc>>

(* The notify handler finds the duration limit exceeded ... *)
LimitReached ==
  /\ outPc = "loop"
  /\ dev = "Active"
  /\ mState \in {"psPlaying", "psStartingPlayback"}
  /\ \E t \in CurrentItems(pl, Items, NoItem) : t \in LimitedTracks
  /\ outPc' = IF HasNext(pl) THEN "limitNext" ELSE "limitStop"
  /\ UNCHANGED <<playlistVars, mState, curTrack, src, tempo, dev, outQ, outTrack, outTempo,
                 call, mainPc>>

(* ... and calls nextTrack() in this thread, up to the choice it makes by mState ... *)
LimitNext ==
  /\ outPc = "limitNext"
  /\ \/ /\ mState = "psFadeOutToTrack"
        /\ src' = Faded(src)
        /\ outPc' = "loop"
        /\ UNCHANGED <<pl, mState>>
     \/ /\ mState # "psFadeOutToTrack"
        /\ pl' = NextItem(pl)
        /\ outPc' = IF HasNext(pl) /\ mState \in {"psPlaying", "psStartingPlayback"}
                    THEN "fadeToTrack" ELSE "loop"
        /\ mState' = IF HasNext(pl) /\ mState = "psFadeOutToStop"
                     THEN "psFadeOutToTrack" ELSE mState
        /\ UNCHANGED src
  /\ UNCHANGED <<unplayable, curTrack, tempo, dev, outQ, outTrack, outTempo, call, mainPc>>

(* ... or stopPlayback() ... *)
LimitStop ==
  /\ outPc = "limitStop"
  /\ outPc' = IF mState \in {"psPlaying", "psStartingPlayback"} THEN "fadeToStop" ELSE "loop"
  /\ src' = IF mState \in FadingOut THEN Faded(src) ELSE src
  /\ UNCHANGED <<playlistVars, mState, curTrack, tempo, dev, outQ, outTrack, outTempo, call, mainPc>>

(* ... and either of them fadeOut(). *)
LimitFade ==
  /\ outPc \in {"fadeToTrack", "fadeToStop"}
  /\ FadeOut(IF outPc = "fadeToTrack" THEN "psFadeOutToTrack" ELSE "psFadeOutToStop")
  /\ outPc' = "loop"
  /\ UNCHANGED <<playlistVars, curTrack, tempo, dev, outQ, outTrack, outTempo, call, mainPc>>

(* quit() has been called: exec() returns and the thread ends. *)
Exit ==
  /\ mainPc = "joining"
  /\ outPc = "loop"
  /\ outPc' = "exited"
  /\ UNCHANGED <<playlistVars, mState, curTrack, src, tempo, dev, outQ, outTrack, outTempo,
                 call, mainPc>>

Output ==
  \/ StartPlaying \/ DecodeFailed \/ Decoded \/ StartDevice \/ NowPlaying
  \/ DeliverChange \/ DeviceRunsDry
  \/ LimitReached \/ LimitNext \/ LimitStop \/ LimitFade
  \/ Exit

-----------------------------------------------------------------------------
Next == User \/ Main \/ Output

Spec == Init /\ [][Next]_vars

(***************************************************************************)
(* Both threads' event loops keep running: what is queued is served, what  *)
(* was begun is completed, decoding ends, and every source runs out of     *)
(* data.  Nothing makes the user act.                                      *)
(***************************************************************************)
Fairness ==
  /\ WF_vars(Main)
  /\ WF_vars(StartPlaying \/ DecodeFailed \/ Decoded \/ StartDevice \/ NowPlaying
             \/ DeliverChange \/ LimitNext \/ LimitStop \/ LimitFade \/ Exit)
  /\ WF_vars(DeviceRunsDry)

FairSpec == Spec /\ Fairness
-----------------------------------------------------------------------------
(***************************************************************************)
(* Whenever there is a source, there is a current track: setTempoCoeff(),  *)
(* seekTo() and updateTrackTimesFromCurrent() find the source non-null and *)
(* then use mCurrentTrack, while the output thread may be replacing both.  *)
(***************************************************************************)
SourceHasTrack == HasSource => curTrack # NoItem

(***************************************************************************)
(* Only an item that cannot be decoded is marked unplayable, although      *)
(* invalidCurrentTrack() looks at mCurrentTrack some time after the output *)
(* thread has failed: nobody replaces or resets it in between.             *)
(***************************************************************************)
OnlyFailingUnplayable == unplayable \subseteq FailingTracks

(***************************************************************************)
(* The audible track is the one the player works with: a source never      *)
(* outlives the change of mCurrentTrack.                                   *)
(***************************************************************************)
SourceIsOfCurrentTrack == HasSource => src.track = curTrack

(* While the player fades out, the source it fades out is really fading. *)
FadeOutFades ==
  mState \in FadingOut /\ HasSource /\ outPc \notin {"starting", "started"} => src.fading

(* A stopped player is silent (psStopped: "The player is not playing anything"). *)
StoppedIsSilent == mState = "psStopped" /\ mainPc # "emitted" => dev # "Active"

(***************************************************************************)
(* The main thread never has two tracks started: at most one request is    *)
(* queued, and none while the output thread prepares a track.              *)
(***************************************************************************)
QueuedStarts == {k \in DOMAIN outQ : outQ[k].type = "startPlaying"}

Preparing == {"decode", "built", "starting", "started"}

OneStartAtATime ==
  /\ Cardinality(QueuedStarts) <= 1
  /\ outPc \in Preparing => QueuedStarts = {}

(***************************************************************************)
(* psStartingPlayback: "The player has been asked to play a song, but it's *)
(* not playing yet (preparing the song in a background thread)": the       *)
(* request is queued, under way, or just being given up.  The exception is *)
(* a track that fails before startPlayback() has set the state.            *)
(***************************************************************************)
StartingIsUnderWay ==
  mState = "psStartingPlayback" /\ curTrack \notin FailingTracks =>
    QueuedStarts # {} \/ outPc \in Preparing \cup {"invalid", "startNext"}

(***************************************************************************)
(* While the program runs and no track fails, every fade-out and every     *)
(* start comes to an end.                                                  *)
(***************************************************************************)
NoneFails == [](outPc # "invalid")
Ending == mainPc \in {"joining", "exited", "abandoned"}
FadeOutEnds == NoneFails => (mState \in FadingOut ~> mState \notin FadingOut \/ Ending)
StartingEnds ==
  NoneFails => (mState = "psStartingPlayback" ~> mState # "psStartingPlayback" \/ Ending)

(***************************************************************************)
(* The destructor never waits for ever; and the output thread is abandoned *)
(* only in the middle of a track, never when nothing has been loaded.      *)
(***************************************************************************)
ShutdownEnds == mainPc = "joining" ~> mainPc \in {"exited", "abandoned"}
AbandonedOnlyInTrack == mainPc = "abandoned" => curTrack # NoItem

=============================================================================
