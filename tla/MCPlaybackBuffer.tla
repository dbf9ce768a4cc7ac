-------------------------- MODULE MCPlaybackBuffer --------------------------
(***************************************************************************)
(* The instance of PlaybackBuffer.tla in which the assertion of read() is  *)
(* put to the test.  That of its other properties is in MCPlayer.tla.      *)
(***************************************************************************)
EXTENDS PlaybackBuffer
=============================================================================
