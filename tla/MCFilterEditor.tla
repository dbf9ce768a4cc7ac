---------------------------- MODULE MCFilterEditor ----------------------------
(***************************************************************************)
(* The instance of FilterEditor.tla for TLC.  The assumptions check the    *)
(* files of tags, which are operators of TagFiles.tla and read the same    *)
(* tags of a song as a filter does.                                        *)
(***************************************************************************)
EXTENDS FilterEditor, TagFiles

Tag(author, mpm) == [author |-> author, title |-> Absent, genre |-> Absent, mpm |-> mpm]
Own(length, tempo, lastPlayed) == [length |-> length, tempo |-> tempo, lastPlayed |-> lastPlayed, notes |-> Absent]
Song(manual, id3, fileName, own) == [manual |-> manual, id3 |-> id3, fileName |-> fileName, own |-> own]

(* A song with nothing but its file name's tag, a scanned one that was     *)
(* played, and one whose tags differ and whose manual author is empty.     *)
MCLibrary ==
  {Song(Tag(Absent, Absent), Tag(Absent, Absent), Tag(2, Absent), Own(Absent, Absent, Absent)),
   Song(Tag(1, 1), Tag(1, 2), Tag(1, Absent), Own(3, Absent, 2)),
   Song(Tag(0, Absent), Tag(2, Absent), Tag(1, Absent), Own(1, 2, Absent))}

MCTests == {Comparison([of |-> "primary", field |-> "author"], "contains", 1)}

MCHasText(value, part) == value = part

-----------------------------------------------------------------------------
(* Libraries of a few hashes: untagged, tagged in one way or another, some   *)
(* with two files that are tagged differently, some without a file, and      *)
(* tempos on both sides of what two digits can say.                          *)
File(id3, fileName) == [id3 |-> id3, fileName |-> fileName]
Untagged == Tag(Absent, Absent)
FilesOfOneHash == {<<>>, <<File(Untagged, Tag(1, 285))>>,
                   <<File(Tag(2, 294), Untagged), File(Tag(0, Absent), Tag(1, 99))>>}
EnteredTags == {Untagged, Tag(0, 1284), Tag(3, Absent)}
Entries == {SharedData(manual, files) : manual \in EnteredTags, files \in FilesOfOneHash}
TaggedLibraries == UNION {[hashes -> Entries] : hashes \in {{1}, {1, 2}}}

PrimaryTags(shared) ==
  [k \in DOMAIN shared.files |-> [field \in TagFields |-> Primary(SongIn(shared, shared.files[k]), field)]]

(***************************************************************************)
(* DB/TagImportExport.cpp:85: after an import, every file of a hash that   *)
(* both libraries know shows what the first file of the exporter showed,   *)
(* the tempo to two digits; where that was nothing, it shows what it       *)
(* showed before, and so do the files of the other hashes.                 *)
(***************************************************************************)
ASSUME TagsCarryOver ==
  \A theirs, ours \in TaggedLibraries :
    LET after == DoImport(ours, DoExport(theirs)) IN
    \A hash \in DOMAIN ours, field \in TagFields :
      \A k \in DOMAIN ours[hash].files :
        LET shown == IF hash \notin DOMAIN theirs \/ theirs[hash].files = <<>> THEN Absent
                     ELSE SetAttribOptional(field, PrimaryTags(theirs[hash])[1][field])
        IN  PrimaryTags(after[hash])[k][field] =
              IF shown = Absent THEN PrimaryTags(ours[hash])[k][field] ELSE shown

(***************************************************************************)
(* DB/TagImportExport.cpp:32: a tempo loses less than a twentieth when it  *)
(* is written, and nothing when it is written again.                       *)
(***************************************************************************)
ASSUME TemposStayClose ==
  \A tenths \in 1..2000 :
    LET written == TwoDigits(tenths) IN
    /\ 20 * written \in 19 * tenths..21 * tenths
    /\ TwoDigits(written) = written

(***************************************************************************)
(* DB/TagImportExport.cpp:127: importing a file again changes nothing, nor *)
(* does importing what a library has exported and imported itself.         *)
(***************************************************************************)
ASSUME TagsSettle ==
  \A theirs, ours \in TaggedLibraries :
    LET after == DoImport(ours, DoExport(theirs)) IN
    /\ DoImport(after, DoExport(theirs)) = after
    /\ LET settled == DoImport(after, DoExport(after)) IN DoImport(settled, DoExport(settled)) = settled

(***************************************************************************)
(* DB/TagImportExport.cpp:180: the last of several elements of a hash      *)
(* counts as a whole, also for what it does not say; a tempo that is not a *)
(* number is none, and an unknown hash is passed over.                     *)
(***************************************************************************)
ASSUME LastElementCounts ==
  \A ours \in TaggedLibraries, first, last \in EnteredTags \cup {Tag(1, NotANumber)} :
    DoImport(ours, <<SongElement(1, first), SongElement(3, first), SongElement(1, last)>>)
      = DoImport(ours, <<SongElement(1, [last EXCEPT !.mpm = IF @ = NotANumber THEN Absent ELSE @])>>)
=============================================================================
