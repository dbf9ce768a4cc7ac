----------------------------- MODULE MCPlaylist -----------------------------
(***************************************************************************)
(* The instances of Playlist.tla and Party.tla for TLC.  Each behaviour is *)
(* one of the two, "scene" says which.  The assumptions check the weights  *)
(* of songs and the playlist files, which are operators of Party.tla.      *)
(***************************************************************************)
EXTENDS Playlist, Party

CONSTANTS a, b, c, d, s1, s2, s3, f, g, template

VARIABLE scene

(* Two items of the same song; c has a duration limit, d an unknown length. *)
MCSongOf == [t \in Items |-> CASE t \in {a, b} -> s1 [] t = c -> s2 [] OTHER -> s3]
MCLength == [t \in Items |-> CASE t = a -> 1 [] t = b -> 2 [] t = c -> 3 [] OTHER -> -1]
MCLimit  == [t \in Items |-> IF t = c THEN 1 ELSE -1]

(* The library has two files of one recording; s3 is not in it. *)
MCTracks  == <<s1, s2>>
MCHashOf  == [s \in {s1, s2, s3} |-> IF s = s3 THEN "other" ELSE "same"]
MCDays    == [s \in {s1, s2} |-> Unplayed]
MCPicksOf == [object \in {template, f} |-> IF object = template THEN <<f, g>> ELSE <<f>>]
MCOffers  == {<<template, f>>, <<f>>}

(* After the tags are changed no song satisfies g. *)
MCTaggings ==
  {[filter \in {f, g} |-> IF filter = f THEN {s1, s2} ELSE {s2}],
   [filter \in {f, g} |-> IF filter = f THEN {s1} ELSE {}]}

(* The first entry is of a song that is not in the library. *)
MCFile ==
  <<Line("filter", f), Line("hash", "other"), Line("name", s3), Line("hash", "same"), Line("name", s1)>>

-----------------------------------------------------------------------------
(***************************************************************************)
(* Database.cpp:102: every song has some chance to be picked; the longer   *)
(* ago it was played and the better it is rated, the better the chance.    *)
(***************************************************************************)
Stars == {Unplayed} \cup 0..5

ASSUME EverySongHasAChance ==
  \A days \in {Unplayed, 0, 1, 7, 365}, typicality, popularity, rhythm \in Stars :
    LET weight == SongWeight(days, typicality, popularity, rhythm)
    IN  /\ weight > 0
        /\ days # Unplayed =>
             /\ weight <= SongWeight(days + 1, typicality, popularity, rhythm)
             /\ weight <= SongWeight(Unplayed, typicality, popularity, rhythm)
        /\ typicality \in 0..4 => weight <= SongWeight(days, typicality + 1, popularity, rhythm)
        /\ popularity \in 0..4 => weight <= SongWeight(days, typicality, popularity + 1, rhythm)
        /\ rhythm \in 0..4     => weight <= SongWeight(days, typicality, popularity, rhythm + 1)

(***************************************************************************)
(* PlaylistImportExport.cpp: a playlist saved to a new file and loaded is  *)
(* the same but for the files of a recording.  Rows whose songs have left  *)
(* the library are lost, and no others.                                    *)
(***************************************************************************)
FileRows == [song : {s1, s2, s3}, filter : {f, g, NoFilter}]

HashesOf(rows) == [k \in DOMAIN rows |-> HashOf[rows[k].song]]

FiltersOf(rows) == [k \in DOMAIN rows |-> rows[k].filter]

ASSUME PlaylistFilesCarryOver ==
  \A rows \in UNION {[1..n -> FileRows] : n \in 0..2} :
    LET all  == DoImport(DoExport(rows, <<>>), <<s3, s2, s1>>, {f, g})
        some == DoImport(DoExport(rows, <<>>), <<s1>>, {f, g})
    IN  /\ HashesOf(all) = HashesOf(rows)
        /\ FiltersOf(all) = FiltersOf(rows)
        /\ HashesOf(some) = SelectSeq(HashesOf(rows), LAMBDA hash : hash = "same")

-----------------------------------------------------------------------------
mcVars == <<vars, partyVars, scene>>

(* Where there is no party, one of its initial states is enough. *)
MCInit ==
  /\ Init /\ PartyInit /\ scene \in {"edits", "party"}
  /\ scene = "edits" => combo = NoObject /\ box = FALSE /\ offered = <<f>> /\ matches[g] = {}

MCNext ==
  /\ UNCHANGED scene
  /\ \/ scene = "edits" /\ Next /\ UNCHANGED partyVars
     \/ scene = "party" /\ PartyNext /\ UNCHANGED vars

MCSpec == MCInit /\ [][MCNext]_mcVars
=============================================================================
