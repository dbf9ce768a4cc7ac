------------------------------ MODULE SongNames ------------------------------
(***************************************************************************)
(* What the metadata scanner (src/src/MetadataScanner.cpp) makes of the    *)
(* name of a song's file and of the tag stored in the file, and the tempo  *)
(* ranges that it goes by (src/src/Song.cpp).                              *)
(*                                                                         *)
(* A text is a sequence of words, without regard to case; a dash, a slash, *)
(* each bracket and each number is a word of its own, and the length of a  *)
(* text is the number of its words.  "W#" is a single letter that the      *)
(* number after it is written on to.  A tempo is kept in twelfths, so that *)
(* its halves, thirds and quarters are whole.                              *)
(***************************************************************************)
EXTENDS Integers, Sequences, FiniteSets, SequencesExt

CONSTANTS
  NumberOf,  \* the numbers, as a function from the words to what they say
  Absent     \* in place of a value that is not present

LOCAL SetMin(S) == CHOOSE n \in S : \A m \in S : n <= m
LOCAL SetMax(S) == CHOOSE n \in S : \A m \in S : n >= m

Twelfths == 12
Brackets == {"(", ")", "[", "]"}
IsNumber(word) == word \in DOMAIN NumberOf
HasLetter(word) == ~IsNumber(word) /\ word \notin Brackets \cup {"-", "/"}

From(text, i) == SubSeq(text, i, Len(text))
UpTo(text, i) == SubSeq(text, 1, i)

NoTag == [author |-> Absent, title |-> Absent, genre |-> Absent, mpm |-> Absent]
IsEmpty(text) == text \in {Absent, <<>>}
NoGenre(genre) == genre \in {Absent, ""}
OrDefault(text) == IF text = Absent THEN <<>> ELSE text

-----------------------------------------------------------------------------
(* Tempos (Song.cpp) *)

competitionTempoRanges ==
  [SW |-> <<27, 30>>, TG |-> <<30, 32>>, VW |-> <<58, 60>>, SF |-> <<27, 30>>, QS |-> <<48, 52>>,
   SB |-> <<48, 52>>, CH |-> <<27, 32>>, RU |-> <<23, 26>>, PD |-> <<58, 60>>, JI |-> <<40, 44>>,
   PO |-> <<56, 60>>, BL |-> <<20, 23>>, RO |-> <<28, 34>>]

competitionTempoRangeForGenre(genre) ==
  IF genre \in DOMAIN competitionTempoRanges THEN competitionTempoRanges[genre] ELSE <<0, 65535>>

detectionTempoRanges ==
  [SW |-> <<25, 33>>, TG |-> <<28, 35>>, VW |-> <<40, 65>>, SF |-> <<25, 35>>, QS |-> <<45, 55>>,
   SB |-> <<34, 55>>, CH |-> <<22, 35>>, RU |-> <<17, 30>>, PD |-> <<40, 68>>, JI |-> <<28, 46>>,
   BL |-> <<15, 30>>, PO |-> <<40, 80>>, RO |-> <<22, 35>>]

detectionTempoRangeForGenre(genre) ==
  IF genre \in DOMAIN detectionTempoRanges THEN detectionTempoRanges[genre] ELSE <<17, 80>>

recognizedGenres == DOMAIN detectionTempoRanges \cup {"MA", "SL"}

\* A tempo at or above the range is divided by the first of 2, 4 and 3 that brings it into the range
adjustMpm(mpm, genre) ==
  LET range == detectionTempoRangeForGenre(genre)
      fits == SelectSeq(<<2, 4, 3>>, LAMBDA d : range[1] * Twelfths * d <= mpm /\ mpm <= range[2] * Twelfths * d)
  IN IF mpm < range[2] * Twelfths \/ fits = <<>> THEN mpm ELSE mpm \div Head(fits)

\* The first of the tags' genres that is not empty
PrimaryGenre(genres) == FoldLeft(LAMBDA found, genre : IF NoGenre(found) THEN genre ELSE found, Absent, genres)

getWarnings(manual, id3, fileName) ==
  LET genre == PrimaryGenre(<<manual.genre, id3.genre, fileName.genre>>)
      mpm == IF id3.mpm # Absent THEN id3.mpm ELSE fileName.mpm
      range == competitionTempoRangeForGenre(genre)
      tempoAsked == manual.mpm = Absent /\ mpm # Absent
  IN {w \in {"genre", "low", "high"} :
        \/ w = "genre" /\ NoGenre(manual.genre) /\ ~NoGenre(id3.genre) /\ ~NoGenre(fileName.genre)
           /\ id3.genre # fileName.genre
        \/ w = "low" /\ tempoAsked /\ mpm * 10 < range[1] * Twelfths * 7
        \/ w = "high" /\ tempoAsked /\ mpm * 100 > range[2] * Twelfths * 105}

needsTagRescan(id3, fileName) == fileName.author = Absent \/ id3.author = Absent

-----------------------------------------------------------------------------
(* The genre and the tempo in a text *)

Rows(style, rows) == [i \in DOMAIN rows |-> [forms |-> Head(rows[i]), genre |-> rows[i][2], style |-> style]]

\* The rows are tried in this order: many a Viennese waltz has the waltz in its name
genreMap ==
  Rows("short",
    <<<<{<<"SW">>}, "SW">>, <<{<<"LW">>}, "SW">>, <<{<<"EW">>}, "SW">>, <<{<<"TG">>}, "TG">>,
      <<{<<"TA">>}, "TG">>, <<{<<"VW">>}, "VW">>, <<{<<"VV">>}, "VW">>, <<{<<"WW">>}, "VW">>,
      <<{<<"SF">>}, "SF">>, <<{<<"QS">>}, "QS">>, <<{<<"SB">>}, "SB">>, <<{<<"SA">>}, "SB">>,
      <<{<<"SL">>}, "SL">>, <<{<<"CH">>}, "CH">>, <<{<<"CC">>}, "CH">>, <<{<<"CCC">>}, "CH">>,
      <<{<<"RU">>}, "RU">>, <<{<<"RB">>}, "RU">>, <<{<<"PD">>}, "PD">>, <<{<<"JI">>}, "JI">>,
      <<{<<"JV">>}, "JI">>, <<{<<"BL">>}, "BL">>, <<{<<"PO">>}, "PO">>>>)
  \o Rows("letter",
    <<<<{<<"W#">>}, "SW">>, <<{<<"T#">>}, "TG">>, <<{<<"V#">>}, "VW">>, <<{<<"Q#">>}, "QS">>,
      <<{<<"S#">>}, "SB">>, <<{<<"C#">>}, "CH">>, <<{<<"R#">>}, "RU">>, <<{<<"J#">>}, "JI">>>>)
  \o Rows("long",
    <<<<{<<"valcik">>}, "VW">>, <<{<<"v", "waltz">>}, "VW">>, <<{<<"vienna", "waltz">>}, "VW">>,
      <<{<<"slow", "waltz">>, <<"waltz">>}, "SW">>, <<{<<"tango">>}, "TG">>,
      <<{<<"slow", "fox">>, <<"slowfox">>}, "SF">>, <<{<<"quick", "step">>, <<"quickstep">>}, "QS">>,
      <<{<<"samba">>}, "SB">>, <<{<<"cha", "cha">>, <<"cha", "cha", "cha">>}, "CH">>,
      <<{<<"rumba">>}, "RU">>, <<{<<"paso">>, <<"paso", "doble">>}, "PD">>, <<{<<"jive">>}, "JI">>,
      <<{<<"blues">>}, "BL">>, <<{<<"polka">>}, "PO">>, <<{<<"mazurka">>}, "MA">>,
      <<{<<"salsa">>}, "SL">>, <<{<<"rozcvicka">>}, "RO">>>>)

isReasonableMpm(n) == n > 10 /\ n < 300

FormsAt(row, text, i) == {form \in row.forms : IsPrefix(form, From(text, i))}

Starts(row, text) ==
  {i \in DOMAIN text : FormsAt(row, text, i) # {}
                       /\ (row.style = "letter" => i < Len(text) /\ IsNumber(text[i + 1]))}

\* The first match of a row: the longest form, a number after it, and the bracket on either side
MatchOf(row, text) ==
  LET start == SetMin(Starts(row, text))
      named == start + SetMax({Len(form) : form \in FormsAt(row, text, start)})
      numbered == named <= Len(text) /\ IsNumber(text[named])
      end == IF numbered THEN named + 1 ELSE named
  IN [first |-> IF start > 1 /\ text[start - 1] \in Brackets THEN start - 1 ELSE start,
      end |-> IF end <= Len(text) /\ text[end] \in Brackets THEN end + 1 ELSE end,
      number |-> IF numbered THEN NumberOf[text[named]] ELSE 0]

\* A genre that the tag has already is not replaced by another, whose rows are passed over
tryMatchGenreMPM(text, tag, stripLongGenre) ==
  LET rows == SelectSeq(genreMap, LAMBDA row : (NoGenre(tag.genre) \/ tag.genre = row.genre)
                                               /\ Starts(row, text) # {})
      row == Head(rows)
      match == MatchOf(row, text)
      tempo == isReasonableMpm(match.number)
      kept == row.style = "long" /\ ~stripLongGenre /\ ~tempo
              /\ ~(match.first = 1 /\ match.end > Len(text))
  IN IF rows = <<>> THEN [text |-> text, tag |-> tag]
     ELSE [text |-> IF kept THEN text ELSE UpTo(text, match.first - 1) \o From(text, match.end),
           tag |-> [tag EXCEPT !.genre = row.genre, !.mpm = IF tempo THEN match.number * Twelfths ELSE @]]

WithMpm(tag, n) == IF isReasonableMpm(n) THEN [tag EXCEPT !.mpm = n * Twelfths] ELSE tag

\* "[30 bpm]": what is left is the longer of the texts on its sides
tryMatchBPM(text, tag) ==
  LET units == {i \in 2..Len(text) : text[i] = "bpm" /\ IsNumber(text[i - 1])}
      unit == SetMin(units)
      before == UpTo(text, unit - 2)
      after == From(text, unit + 1)
      prefix == IF before # <<>> /\ before[Len(before)] = "[" THEN Front(before) ELSE before
      suffix == IF after # <<>> /\ after[1] = "]" THEN Tail(after) ELSE after
  IN CASE units # {} ->
            [text |-> IF Len(suffix) > Len(prefix) THEN suffix ELSE prefix, tag |-> WithMpm(tag, NumberOf[text[unit - 1]])]
       [] units = {} /\ Len(text) = 1 /\ IsNumber(text[1]) ->
            [text |-> IF isReasonableMpm(NumberOf[text[1]]) THEN <<>> ELSE text, tag |-> WithMpm(tag, NumberOf[text[1]])]
       [] OTHER -> [text |-> text, tag |-> tag]

stripBeginningNonAlpha(text) ==
  LET letters == {i \in DOMAIN text : HasLetter(text[i])}
  IN IF letters = {} THEN <<>> ELSE From(text, SetMin(letters))

\* One word of a part: at the outermost bracket that closes, its block goes if it told anything
BracketStep(part, s, i) ==
  CASE part[i] \in {"(", "["} ->
         IF s.level = 0 THEN [s EXCEPT !.level = 1, !.kept = @ \o SubSeq(part, s.last, i - 1), !.last = i + 1]
                        ELSE [s EXCEPT !.level = @ + 1]
    [] part[i] \in {")", "]"} ->
         LET block == SubSeq(part, s.last, i - 1)
             bpm == tryMatchBPM(block, s.tag)
             out == tryMatchGenreMPM(bpm.text, bpm.tag, TRUE)
         IN IF s.level # 1 THEN [s EXCEPT !.level = @ - 1]
            ELSE [level |-> 0, last |-> i + 1, tag |-> out.tag,
                  kept |-> IF out.text = block THEN s.kept \o <<"(">> \o block \o <<")">> ELSE s.kept]
    [] OTHER -> s

extractFromPart(part, tag) ==
  LET end == FoldLeft(LAMBDA s, i : BracketStep(part, s, i),
                      [kept |-> <<>>, last |-> 1, level |-> 0, tag |-> tag], [i \in DOMAIN part |-> i])
      bpm == tryMatchBPM(end.kept \o From(part, end.last), end.tag)
      out == tryMatchGenreMPM(bpm.text, bpm.tag, FALSE)
  IN [out EXCEPT !.text = stripBeginningNonAlpha(@)]

isForbiddenPart(text) ==
  \/ text \in {<<"various">>, <<"various", "artist">>, <<"VA">>, <<"unknown">>, <<"unknown", "artist">>,
               <<"artist">>, <<"neznamy", "interpret">>, <<"track">>}
  \/ Len(text) = 2 /\ text[1] \in {"track", "unknown", "stopa"} /\ IsNumber(text[2])

\* The parts of a text between its dashes and slashes, without the empty ones
PartsOf(text) ==
  LET step(parts, word) == IF word \in {"-", "/"} THEN Append(parts, <<>>)
                           ELSE [parts EXCEPT ![Len(parts)] = Append(@, word)]
  IN SelectSeq(FoldLeft(step, <<<<>>>>, text), LAMBDA part : part # <<>>)

extract(text, tag) ==
  LET step(s, part) ==
        LET parsed == extractFromPart(part, s.tag)
        IN CASE isForbiddenPart(part) -> s
             [] ~isForbiddenPart(part) /\ (parsed.text = <<>> \/ isForbiddenPart(parsed.text)) -> [s EXCEPT !.tag = parsed.tag]
             [] OTHER -> [text |-> IF s.text = <<>> THEN parsed.text ELSE s.text \o <<"-">> \o parsed.text,
                          tag |-> parsed.tag]
  IN FoldLeft(step, [text |-> <<>>, tag |-> tag], PartsOf(text))

\* Halves at the dash next to the middle, the later one of two that are equally near
trySplitAuthorTitle(tag) ==
  LET text == IF IsEmpty(tag.author) THEN tag.title ELSE tag.author
      half == Len(text) \div 2
      dashes == {i \in 0..(half - 1) : text[1 + half + i] = "-" \/ text[1 + half - i] = "-"}
      i == SetMin(dashes)
      dash == IF text[1 + half + i] = "-" THEN 1 + half + i ELSE 1 + half - i
  IN IF IsEmpty(tag.author) = IsEmpty(tag.title) \/ dashes = {} THEN tag
     ELSE [tag EXCEPT !.author = UpTo(text, dash - 1), !.title = From(text, dash + 1)]

\* What is not present becomes empty, and a genre adjusts the tempo
validateSongTag(tag) ==
  [author |-> OrDefault(tag.author), title |-> OrDefault(tag.title),
   genre |-> IF NoGenre(tag.genre) THEN "" ELSE tag.genre,
   mpm |-> IF NoGenre(tag.genre) \/ tag.mpm = Absent THEN tag.mpm ELSE adjustMpm(tag.mpm, tag.genre)]

\* The folders of a path, and the name itself, are searched until one of them has a genre
parseFileNameIntoMetadata(folders, name) ==
  LET search(tag, part) == IF NoGenre(tag.genre) THEN tryMatchGenreMPM(part, tag, TRUE).tag ELSE tag
      bare == extract(name, FoldLeft(search, NoTag, Append(folders, name)))
  IN validateSongTag(trySplitAuthorTitle([bare.tag EXCEPT !.title = bare.text]))

-----------------------------------------------------------------------------
(* The tag stored in a file *)

parseId3Tag(file) ==
  LET genre == extract(OrDefault(file.genre), NoTag)
      comment == extract(OrDefault(file.comment), genre.tag)
      author == extract(OrDefault(file.author), comment.tag)
      title == extract(OrDefault(file.title), author.tag)
      tag == [title.tag EXCEPT !.author = author.text, !.title = title.text,
                !.mpm = IF file.mpm = Absent THEN @
                        ELSE IF title.tag.genre = Absent THEN file.mpm ELSE adjustMpm(file.mpm, title.tag.genre)]
  IN trySplitAuthorTitle(tag)

applyTagChanges(file, changes) ==
  [field \in DOMAIN file |-> IF changes[field] # Absent THEN changes[field] ELSE file[field]]

\* A field that is not present is erased, which reads back as an empty text and as no tempo
readTagFromFile(written) ==
  [field \in DOMAIN written |-> IF field = "mpm" THEN written.mpm ELSE OrDefault(written[field])]

\* The tag that the song has once the file is written, and once a scan has read it
WrittenId3(written) == parseId3Tag(written)
ScannedId3(written) == validateSongTag(parseId3Tag(readTagFromFile(written)))
==============================================================================
