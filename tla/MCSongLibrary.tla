---------------------------- MODULE MCSongLibrary ----------------------------
(* The instance of SongLibrary.tla for TLC (its liveness is in MCDatabase), and SongNames.tla over *)
(* short names.                                                                                   *)
EXTENDS SongLibrary, SongNames

(* No definition tells one hash from another.  The songs, of which CHOOSE takes one, stay apart. *)
HashSymmetry == Permutations(Hashes)

-----------------------------------------------------------------------------
Numbers == ("30" :> 30 @@ "400" :> 400)
NameWords == {"a", "SW", "waltz", "vienna", "30", "400", "bpm", "(", ")", "-"}
PlainWords == {"a", "(", ")", "[", "]", "-"}
Names == BoundedSeq(NameWords, 4)

Plain(text) == SelectSeq(text, LAMBDA word : word = "a")
Parsed(name) == parseFileNameIntoMetadata(<<>>, name)

(* However its brackets are nested and whether they are closed, a name     *)
(* without genre or tempo keeps all of its words (extractFromPart()).      *)
ASSUME PlainNamesAreKept ==
  \A name \in BoundedSeq(PlainWords, 5) : LET tag == Parsed(name)
                                          IN Plain(tag.author \o tag.title) = Plain(name)

(* A name has a genre exactly if one of its words says so, and a tempo     *)
(* only from a number in the range; a number with its unit counts, unless  *)
(* one out of the range is in the name too.                                *)
ASSUME NamesTellGenreAndTempo ==
  \A name \in Names :
    LET tag == Parsed(name)
    IN /\ tag.genre = "" <=> ToSet(name) \cap {"SW", "waltz"} = {}
       /\ tag.mpm # Absent => tag.mpm = 30 * Twelfths /\ "30" \in ToSet(name)
       /\ "400" \notin ToSet(name) /\ (\E i \in 2..Len(name) : name[i - 1] = "30" /\ name[i] = "bpm")
          => tag.mpm # Absent

(* The folder's genre stands, whatever the name says. *)
ASSUME FoldersComeFirst ==
  \A folder, name \in BoundedSeq(NameWords, 2) :
    LET genre == Parsed(folder).genre
    IN genre # "" => parseFileNameIntoMetadata(<<folder>>, name).genre = genre

(* A tempo is adjusted into the range of its genre or not at all; and      *)
(* adjusting it once more, as the scan of a written tag does, changes it   *)
(* only where the first time ended on the upper limit of the range.        *)
ASSUME TemposAreAdjusted ==
  \A genre \in recognizedGenres, n \in 10..300 :
    LET mpm == adjustMpm(n * Twelfths, genre)
        range == detectionTempoRangeForGenre(genre)
    IN /\ mpm # n * Twelfths => range[1] * Twelfths <= mpm /\ mpm <= range[2] * Twelfths
       /\ adjustMpm(mpm, genre) # mpm => mpm = range[2] * Twelfths

(* A scan of a file that was written finds the tag that the song was given *)
(* when it was written, with the empty texts in place of the missing ones  *)
(* and the tempo adjusted again; then the song needs no other scan.        *)
FileTags == [author : {Absent, <<"a">>, <<"a", "-", "a">>}, title : {Absent, <<>>, <<"a", "SW">>},
             genre : {Absent, <<"BL">>, <<"tango", "400">>}, comment : {Absent, <<"(", "SW", ")">>},
             mpm : {Absent} \cup {n * Twelfths : n \in {30, 60, 70, 400}}]

ASSUME WrittenTagsAreScanned ==
  \A written \in FileTags :
    LET song == WrittenId3(written)
        scanned == ScannedId3(written)
        empty == applyTagChanges(written, [field \in DOMAIN written |-> IF field = "mpm" THEN Absent ELSE <<>>])
    IN /\ scanned.author = OrDefault(song.author) /\ scanned.title = OrDefault(song.title)
       /\ song.genre # Absent => scanned.genre = song.genre
       /\ scanned.mpm = song.mpm \/ scanned.mpm = adjustMpm(song.mpm, scanned.genre)
       /\ ~needsTagRescan(scanned, Parsed(<<"a">>))
       /\ ScannedId3(empty) = [author |-> <<>>, title |-> <<>>, genre |-> "", mpm |-> written.mpm]

(* Once the user has given genre and tempo, the detected ones warn of nothing; a tempo that was    *)
(* adjusted downwards is never too low for the competitions of its genre, but for those whose      *)
(* range of detection begins below (VW and PD).                                                    *)
ASSUME WarningsAreAnswered ==
  \A genre \in recognizedGenres, n \in 10..300 :
    LET id3 == [NoTag EXCEPT !.genre = genre, !.mpm = adjustMpm(n * Twelfths, genre)]
        name == [NoTag EXCEPT !.genre = "SW", !.mpm = n * Twelfths]
        manual == [NoTag EXCEPT !.genre = "TG", !.mpm = Twelfths]
    IN /\ getWarnings(manual, id3, name) = {}
       /\ "genre" \in getWarnings(NoTag, id3, name) <=> genre # "SW"
       /\ id3.mpm # n * Twelfths /\ genre \notin {"VW", "PD"} => "low" \notin getWarnings(NoTag, id3, name)
=============================================================================
