----------------------------- MODULE MCVoteServer -----------------------------
(***************************************************************************)
(* The instance of LibraryExchange.tla and VoteServer.tla for TLC.  Each   *)
(* behaviour is either one of two libraries that import from each other    *)
(* (Spec) or one of the server with its pages (ServerSpec); "scene" says   *)
(* which.  The fairness is the pages', and so is the liveness.             *)
(***************************************************************************)
EXTENDS VoteServer

VARIABLE scene

mcVars == <<vars, scene>>

(* The tango is not in the other library. *)
MCKnown == [home |-> {"waltz", "tango"}, away |-> {"waltz"}]

MCSkew == [home |-> 0, away |-> 1]

MCOptionSets == {Options}

MCInit == ServerInit /\ scene \in {"imports", "pages"}

MCNext ==
  /\ UNCHANGED scene
  /\ \/ scene = "imports" /\ Next /\ UNCHANGED <<serverVars, pageVars, net, losses, stops, sent>>
     \/ scene = "pages" /\ ServerNext

MCSpec == MCInit /\ [][MCNext]_mcVars /\ Fairness
-----------------------------------------------------------------------------
(***************************************************************************)
(* lvs.js:65, LocalVoteServer.cpp:315: a page shows the songs in the order *)
(* in which they were played, each once, and every song reaches it.        *)
(***************************************************************************)
PagesFollow == []PagesShowTheHistory /\ (scene = "pages" => SongsReachPages)
=============================================================================
