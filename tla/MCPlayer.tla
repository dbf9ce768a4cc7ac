------------------------------ MODULE MCPlayer ------------------------------
(***************************************************************************)
(* The instance of PlayerUse.tla and PlaybackBuffer.tla for TLC.  Each     *)
(* behaviour is one of the two, "scene" says which: one of the player,     *)
(* whose tracks are whole, or one of the buffer and the threads of a track.*)
(***************************************************************************)
EXTENDS PlayerUse, PlaybackBuffer

CONSTANTS a, b, c

VARIABLE scene

mcVars == <<useVars, bufferVars, scene>>

MCTwoItems == <<a, b>>

(* Where there is no buffer, one of its initial states is enough, and so   *)
(* for the player.                                                         *)
MCInit ==
  /\ UseInit /\ BufferInit /\ scene \in {"player", "buffer"}
  /\ IF scene = "player" THEN length = 0 /\ skip = 0 ELSE ~pauses

MCNext ==
  /\ UNCHANGED scene
  /\ \/ scene = "player" /\ UseNext /\ UNCHANGED bufferVars
     \/ scene = "buffer" /\ BufferNext /\ UNCHANGED useVars

(* Fairness and BufferFairness, each in its scene: at its start a player   *)
(* has nothing to do, a buffer's threads have.                             *)
MCFairness ==
  /\ Fairness
  /\ WF_bufferVars(scene = "buffer" /\ Decoder)
  /\ WF_bufferVars(scene = "buffer" /\ (SeekToFrame \/ CheckData \/ SleepForData \/ ReadCopy \/ ReadEnd \/ Destroyed))

MCSpec == MCInit /\ [][MCNext]_mcVars /\ MCFairness
=============================================================================
