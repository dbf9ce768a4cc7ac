-------------------------- MODULE MCClassroomWindow --------------------------
(* The classroom window and its dialogs over a library of three files, two of them of one hash. *)
EXTENDS ClassroomWindow

MCFiles == 1..3
MCHashOf == <<1, 1, 2>>
=============================================================================
