------------------------------ MODULE FilterOps ------------------------------
(***************************************************************************)
(* The comparisons of a song filter (src/src/Filter.cpp): which of a       *)
(* song's values a property names, and when a value satisfies a            *)
(* comparison.                                                             *)
(*                                                                         *)
(* Texts, numbers and dates are ranks in Nat, in the order in which the    *)
(* code compares them; the empty text and the null date are 0.  Whether    *)
(* one value, written out, contains another is a constant relation.        *)
(***************************************************************************)
EXTENDS Naturals

CONSTANTS
  Absent,        \* an optional value that is not present
  NotANumber,    \* a filter's value that does not parse as a number
  HasText(_, _)  \* whether a value, as text, contains the text of another

ASSUME FilterOpsAssumption == {Absent, NotANumber} \cap Nat = {}

Tags == {"manual", "id3", "fileName"}
TextFields == {"author", "title", "genre", "notes"}
DateFields == {"lastPlayed"}

IsEmpty(field, value) == value = Absent \/ (field \in TextFields /\ value = 0)

(* The first tag in which the field is not empty, and the file name's if it is in all. *)
Primary(song, field) ==
  CASE ~IsEmpty(field, song.manual[field]) -> song.manual[field]
    [] IsEmpty(field, song.manual[field]) /\ ~IsEmpty(field, song.id3[field]) -> song.id3[field]
    [] OTHER -> song.fileName[field]

(* The values of a song that a property names: those of all the tags, the  *)
(* primary one, those of one tag, or a value of the song itself.  The      *)
(* detected tempo counts as one more tag for the measures per minute.      *)
ValuesOf(song, property) ==
  CASE property.of = "any" ->
         {song[tag][property.field] : tag \in Tags}
           \cup (IF property.field = "mpm" THEN {song.own.tempo} ELSE {})
    [] property.of = "primary" ->
         LET primary == Primary(song, property.field)
         IN  {IF property.field = "mpm" /\ primary = Absent THEN song.own.tempo ELSE primary}
    [] OTHER -> {song[property.of][property.field]}

InOrder(comparison, value, limit) ==
  CASE comparison = "equal"          -> value = limit
    [] comparison = "notEqual"       -> value # limit
    [] comparison = "greater"        -> value > limit
    [] comparison = "greaterOrEqual" -> value >= limit
    [] comparison = "lower"          -> value < limit
    [] comparison = "lowerOrEqual"   -> value <= limit

IsContainment(comparison) == comparison \in {"contains", "notContains"}

Containment(comparison, value, limit) ==
  (comparison = "contains") = HasText(value, limit)

TextSatisfies(comparison, value, limit) ==
  IF value = Absent \/ value = 0
  THEN comparison = "notContains"
  ELSE IF IsContainment(comparison)
       THEN Containment(comparison, value, limit)
       ELSE InOrder(comparison, value, limit)

NumberSatisfies(comparison, value, limit) ==
  /\ value # Absent
  /\ IF IsContainment(comparison)
     THEN Containment(comparison, value, limit)
     ELSE limit # NotANumber /\ InOrder(comparison, value, limit)

DateSatisfies(comparison, value, limit) ==
  LET date == IF value = Absent THEN 0 ELSE value
  IN  IF IsContainment(comparison)
      THEN Containment(comparison, date, limit)
      ELSE InOrder(comparison, date, limit)

Comparison(property, comparison, limit) ==
  [property |-> property, comparison |-> comparison, limit |-> limit]

(* Whether a song satisfies a comparison: some value that the property names does. *)
IsComparisonSatisfiedBy(test, song) ==
  \E value \in ValuesOf(song, test.property) :
    CASE test.property.field \in TextFields -> TextSatisfies(test.comparison, value, test.limit)
      [] test.property.field \in DateFields -> DateSatisfies(test.comparison, value, test.limit)
      [] OTHER -> NumberSatisfies(test.comparison, value, test.limit)

SongLength == [of |-> "own", field |-> "length"]
HasLength(song) == song.own.length # Absent

(* What the editor puts into new nodes, and what an empty filter consists of. *)
LengthAtLeast0 == Comparison(SongLength, "greaterOrEqual", 0)
LengthBelow0 == Comparison(SongLength, "lower", 0)
=============================================================================
