----------------------------- MODULE PlayerUse -----------------------------
(***************************************************************************)
(* The player of Player.tla under two kinds of users.  A user who pauses   *)
(* can leave the player with two tracks under way (README, section 6), so  *)
(* each behaviour is either one of a user who never pauses but edits the   *)
(* playlist and ends the program, or one of a user who pauses, changes the *)
(* tempo and replaces songs.  What is promised only without pauses is      *)
(* stated here.                                                            *)
(***************************************************************************)
EXTENDS Player

VARIABLE pauses   \* whether the user of this behaviour may pause

useVars == <<vars, pauses>>

UseInit == Init /\ pauses \in BOOLEAN

UseUser ==
  \/ Play \/ Stop \/ NextTrack \/ PrevTrack
  \/ \E i \in 0..(Size(pl) - 1) : Jump(i) \/ Delete(i)
  \/ ~pauses /\ (Edit \/ Quit)
  \/ /\ pauses
     /\ \/ PlayPause
        \/ \E t \in Tempos : SetTempo(t)
        \/ \E i \in 0..(Size(pl) - 1), t \in Items : Replace(i, t)

UseNext == (UseUser \/ Main \/ Output) /\ UNCHANGED pauses

UseSpec == UseInit /\ [][UseNext]_useVars

FairUseSpec == UseSpec /\ Fairness
-----------------------------------------------------------------------------
(***************************************************************************)
(* Player.cpp:490 and :824, without pauses: the source that is heard is    *)
(* the current track's, whatever was skipped, deleted or asked for while   *)
(* it was being prepared.                                                  *)
(***************************************************************************)
HeardIsCurrent == ~pauses => SourceIsOfCurrentTrack

(***************************************************************************)
(* Player.cpp:707, without pauses: a player that is stopped and not about  *)
(* to start is silent, although the device's changes are queued through    *)
(* its thread.                                                             *)
(***************************************************************************)
SilentWhenStopped == ~pauses => StoppedIsSilent

(***************************************************************************)
(* Player.cpp:466, without pauses: at most one track is asked for, and     *)
(* none while another is prepared; a start that is shown is under way.     *)
(***************************************************************************)
StartsOneByOne == ~pauses => OneStartAtATime /\ StartingIsUnderWay

(***************************************************************************)
(* Player.cpp:685 and :103, without pauses: every fade-out, every start    *)
(* and the destructor's wait come to an end, and the destructor abandons   *)
(* its thread only in the middle of a track.                               *)
(***************************************************************************)
WaitsEnd == ~pauses => FadeOutEnds /\ StartingEnds /\ ShutdownEnds /\ []AbandonedOnlyInTrack
=============================================================================
