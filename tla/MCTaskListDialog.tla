-------------------------- MODULE MCTaskListDialog --------------------------
(* The instance of TaskListDialog.tla, and with it BackgroundTasks.tla, for TLC. *)
EXTENDS TaskListDialog
=============================================================================
