------------------------------ MODULE TagFiles ------------------------------
(***************************************************************************)
(* The files of tags by which the work of tagging passes from one library  *)
(* to another (src/src/DB/TagImportExport.cpp).                            *)
(*                                                                         *)
(* A library maps each hash to the tag entered by hand, which all the      *)
(* files of the hash share, and to those files.  A tempo is a number of    *)
(* tenths of a measure per minute.                                         *)
(***************************************************************************)
EXTENDS FilterOps, Sequences, SequencesExt

TagFields == {"author", "title", "genre", "mpm"}

SharedData(manual, files) == [manual |-> manual, files |-> files]

(* A file of the hash together with the tag that is entered by hand. *)
SongIn(shared, file) == [manual |-> shared.manual, id3 |-> file.id3, fileName |-> file.fileName]

-----------------------------------------------------------------------------
RoundedTo(unit, tenths) == unit * ((2 * tenths + unit) \div (2 * unit))

(* A tempo is written with two significant digits, halves going up. *)
TwoDigits(tenths) ==
  CASE tenths < 100 -> tenths
    [] tenths \in 100..999 -> RoundedTo(10, tenths)
    [] OTHER -> RoundedTo(100, tenths)

(* The attribute that is written for a value; none for an empty one. *)
SetAttribOptional(field, value) ==
  CASE IsEmpty(field, value) -> Absent
    [] ~IsEmpty(field, value) /\ field = "mpm" -> TwoDigits(value)
    [] OTHER -> value

SongElement(hash, tag) == [hash |-> hash, tag |-> tag]

(* One element for each hash that has files, of the primary tag of the first of them. *)
DoExport(library) ==
  LET element(hash) ==
        LET song == SongIn(library[hash], Head(library[hash].files))
        IN  SongElement(hash, [field \in TagFields |-> SetAttribOptional(field, Primary(song, field))])
      exported == {hash \in DOMAIN library : library[hash].files # <<>>}
  IN  SetToSeq({element(hash) : hash \in exported})

-----------------------------------------------------------------------------
(* An attribute that is missing, empty or not a number is no value. *)
AttribToOptional(field, attribute) ==
  IF attribute = NotANumber \/ IsEmpty(field, attribute) THEN Absent ELSE attribute

(* The tag read for a hash: that of its last element. *)
ReadTag(elements, hash) ==
  LET last == SelectLastInSeq(elements, LAMBDA element : element.hash = hash)
  IN  [field \in TagFields |-> IF last = 0 THEN Absent ELSE AttribToOptional(field, elements[last].tag[field])]

(* What is read is dated now: it takes the place of what was entered before. *)
AddToManualTag(manual, tag) ==
  [field \in TagFields |-> IF tag[field] = Absent THEN manual[field] ELSE tag[field]]

(* The elements of hashes that the library does not know are left out. *)
DoImport(library, elements) ==
  [hash \in DOMAIN library |->
     [library[hash] EXCEPT !.manual = AddToManualTag(@, ReadTag(elements, hash))]]
=============================================================================
