---------------------------- MODULE SongProperties ----------------------------
(***************************************************************************)
(* The dialog with the properties of a song and of the files that have the *)
(* same hash (src/src/UI/Dlg/DlgSongProperties.cpp).  It edits copies and  *)
(* applies them when it is accepted.                                       *)
(*                                                                         *)
(* The list widget tells the dialog of another current row while a row is  *)
(* being removed, when the dialog's own vector of duplicates has already   *)
(* lost it and the widget has not; SwitchDuplicate and TakeItem follow     *)
(* these nested calls.                                                     *)
(***************************************************************************)
EXTENDS SongTable

VARIABLE props

NoChange == -2
NoProps == [open |-> FALSE, song |-> 0, shown |-> 0, dups |-> <<>>, list |-> <<>>, row |-> 0,
            orig |-> <<>>, changes |-> <<>>, manual |-> 0, hash |-> 0, rowLost |-> FALSE,
            message |-> "none", at |-> 0]

Rows(p) == 1..Len(p.dups)

RowOf(p, song) == SelectInSeq(p.list, LAMBDA f : f = song)

\* selectSong(): the song becomes the current one, its row too
SelectSong(p, song) == [p EXCEPT !.song = song, !.row = RowOf(p, song)]

\* which calls switchDuplicate() again if the row was another, and so on; each of these calls
\* goes further down the list or changes nothing
NestedCalls(p) ==
  LET Called[n \in 0..Len(p.list)] ==
        IF n = 0 THEN p
        ELSE LET q == Called[n - 1]
             IN IF q.row \in Rows(q) THEN SelectSong(q, q.dups[q.row]) ELSE q
  IN  Called[Len(p.list)]

\* switchDuplicate(): the fields are filled in after that
SwitchDuplicate(p, row) ==
  IF row \notin Rows(p) THEN p
  ELSE LET song == p.dups[row]
           selected == SelectSong(p, song)
       IN [(IF selected.row = p.row THEN selected ELSE NestedCalls(selected)) EXCEPT !.shown = song]

\* The user or the list widget makes a row the current one
SetCurrentRow(p, row) ==
  IF row = p.row THEN p ELSE SwitchDuplicate([p EXCEPT !.row = row], row)

\* QListWidget::takeItem() of the current row: the next row becomes the current one before
\* the item goes, the one above if it was the last
TakeItem(p, row) ==
  LET n == Len(p.list)
      q == SetCurrentRow(p, IF row < n THEN row + 1 ELSE row - 1)
  IN [q EXCEPT !.list = RemoveAt(@, row), !.row = IF @ > row THEN @ - 1 ELSE @]

OpenProps(song) ==
  LET dups == Duplicates(lib, HashOf[song])
      filled == [NoProps EXCEPT !.open = TRUE, !.dups = dups, !.list = dups, !.hash = HashOf[song],
                   !.orig = lib.disk, !.changes = [f \in Files |-> NoChange], !.manual = lib.manual[HashOf[song]]]
  IN SwitchDuplicate(filled, RowOf(filled, song))

-----------------------------------------------------------------------------
(* The user in the dialog *)

SelectDuplicate(row) ==
  /\ row \in 1..Len(props.list) /\ row # props.row
  /\ props' = [SetCurrentRow(props, row) EXCEPT !.rowLost = FALSE]
  /\ UNCHANGED <<lib, scans, tbl, ask, fault>>

\* The fields of a file whose tag could not be read are read-only
EditId3(tag) ==
  /\ props.song # 0 /\ props.orig[props.song] # Gone
  /\ props' = [props EXCEPT !.changes[props.song] = tag]
  /\ UNCHANGED <<lib, scans, tbl, ask, fault>>

EditManual(tag) ==
  /\ props.manual # tag
  /\ props' = [props EXCEPT !.manual = tag]
  /\ UNCHANGED <<lib, scans, tbl, ask, fault>>

AskToRemoveDuplicate(delete) ==
  /\ props.row \in Rows(props)
  /\ ask' = [from |-> "properties", songs |-> <<props.dups[props.row]>>, delete |-> delete]
  /\ UNCHANGED <<lib, scans, tbl, props, fault>>

\* for comparison: no row is selected after a removal
WithoutRowUnselected(p, delete) ==
  LET q == TakeItem([p EXCEPT !.dups = RemoveAt(@, p.row)], p.row)
  IN IF delete THEN [q EXCEPT !.rowLost = TRUE] ELSE q

\* removeFromLibrary() selects the first row afterwards, deleteFromDisk() does not
WithoutRow(p, delete) ==
  LET q == TakeItem([p EXCEPT !.dups = RemoveAt(@, p.row)], p.row)
  IN IF delete THEN [q EXCEPT !.rowLost = TRUE] ELSE SwitchDuplicate(q, 1)

-----------------------------------------------------------------------------
(* applyAndClose() shows up to three kinds of messages, and while one of     *)
(* them waits for its answer, the timers, the scans and the library go on.   *)

\* What writing a changed tag comes to: written; written with damage and so taken back from the
\* backup, with a message; not saved; or no backup could be made, which ends it with a message
Changed == {f \in ToSet(props.dups) : props.changes[f] # NoChange}
Outcomes == {"written", "reverted", "notSaved", "noBackup"}

\* saveSong(), which tells the table
SavedAfterWrite(l, t, f) == Saved(l, [t EXCEPT !.written = @ \cup {f}], f)

\* The n-th duplicate, unless a message is shown already
ApplyTo(s, n, outcome) ==
  LET f == props.dups[n]
      tag == props.changes[f]
      l == [s.l EXCEPT !.id3[f] = tag, !.disk[f] = IF outcome[f] = "written" THEN tag ELSE @]
  IN IF s.message # "none" \/ f \notin Changed THEN s
     ELSE IF s.l.disk[f] = Gone \/ outcome[f] = "noBackup" THEN [s EXCEPT !.message = "noBackup"]
     ELSE IF outcome[f] = "reverted"
       THEN [s EXCEPT !.l = l, !.t.written = @ \ {f}, !.message = "damaged", !.at = n]
     ELSE [s EXCEPT !.l = l, !.t = SavedAfterWrite(l, s.t, f)]

\* The duplicates behind the first n are gone through, to the next message or to the end, which
\* closes the dialog
ApplyBehind(first, l, t, outcome) ==
  LET Applied[n \in 0..Len(props.dups)] ==
        IF n <= first THEN [l |-> l, t |-> t, message |-> "none", at |-> 0]
        ELSE ApplyTo(Applied[n - 1], n, outcome)
      end == Applied[Len(props.dups)]
  IN /\ lib' = end.l /\ tbl' = end.t
     /\ props' = IF end.message = "none" THEN NoProps ELSE [props EXCEPT !.message = end.message, !.at = end.at]

\* The shared tag is stored in any case; about read-only files the user is asked
Apply(outcome) ==
  LET manual == [lib EXCEPT !.manual[props.hash] = props.manual]
  IN /\ \/ ApplyBehind(0, manual, tbl, outcome)
        \/ /\ Changed # {}
           /\ lib' = manual /\ props' = [props EXCEPT !.message = "readOnly"] /\ UNCHANGED tbl
     /\ UNCHANGED <<scans, ask, fault>>

\* The message is answered.  The song that was damaged is saved only now; without a backup the
\* dialog stays
ApplyGoesOn(outcome) ==
  /\ CASE props.message = "readOnly" -> ApplyBehind(0, lib, tbl, outcome)
       [] props.message = "damaged" ->
            ApplyBehind(props.at, lib, SavedAfterWrite(lib, tbl, props.dups[props.at]), outcome)
       [] props.message = "noBackup" -> props' = [props EXCEPT !.message = "none"] /\ UNCHANGED <<lib, tbl>>
  /\ UNCHANGED <<scans, ask, fault>>

-----------------------------------------------------------------------------

PropsAction ==
  \/ \E row \in 1..Cardinality(Files) : SelectDuplicate(row)
  \/ \E tag \in Tags : EditId3(tag) \/ EditManual(tag)
  \/ \E delete \in BOOLEAN : AskToRemoveDuplicate(delete)
==============================================================================
