-------------------------------- MODULE Party --------------------------------
(***************************************************************************)
(* An evening with the player window (src/src/UI/PlayerWindow.cpp): songs  *)
(* picked at random by templates and filters (DB/Database.cpp) and put in  *)
(* the playlist by quick play, by "add from template", by a replacement    *)
(* and by the appending of songs once the last one starts, while songs     *)
(* leave the library, tags and the offered filters change and the player   *)
(* starts, fades and ends tracks.  Also the files that playlists are saved *)
(* to and loaded from (PlaylistImportExport.cpp).                          *)
(*                                                                         *)
(* Of the player only what the playlist sees is kept; Player.tla has the   *)
(* rest.  A request made while a track is being started may get lost       *)
(* there, so it may here.                                                  *)
(***************************************************************************)
EXTENDS PlaylistOps

CONSTANTS
  Tracks,       \* the songs the library starts with, in its order
  HashOf,       \* the hash of each song; duplicates share one
  DaysSince,    \* days since each song was last played, or Unplayed
  Unplayed,     \* a song never played
  Filters,      \* the filters; their hashes differ
  NoFilter,     \* the null filter of a row added by hand
  NoSong,       \* the null song
  PicksOf,      \* the filters of each object offered: a template's items, a favourite filter itself
  NoObject,     \* nothing selected
  OfferLists,   \* the lists of templates and favourite filters explored
  Taggings,     \* what each filter matches, for the tags explored
  File,         \* the lines of a playlist file
  MaxRows       \* bound: the longest playlist to which rows are added

ASSUME PartyAssumption ==
  /\ Tracks \in Seq(ToSet(Tracks)) /\ NoSong \notin ToSet(Tracks)
  /\ NoFilter \notin Filters
  /\ \A object \in DOMAIN PicksOf : PicksOf[object] \in Seq(Filters)
  /\ NoObject \notin DOMAIN PicksOf
  /\ OfferLists \subseteq Seq(DOMAIN PicksOf)
  /\ Taggings \subseteq [Filters -> SUBSET ToSet(Tracks)]
  /\ File \in Seq(ToSet(File))
  /\ MaxRows \in Nat

VARIABLES
  list,         \* the playlist: rows of a song and a filter, and the current index
  mode,         \* what the player does
  at,           \* the index of the row being started or played, -1 if it has left the list
  library,      \* mSongs
  matches,      \* the songs that satisfy each filter
  offered,      \* the templates and favourite filters of the database
  shown,        \* those of the quick play list and of the combo box
  combo,        \* objectToAppendUponCompletion()
  box,          \* chbAppendUponCompletion
  assured,      \* history: songs to append were at hand when the track started
  wanted,       \* history: the row quick play is to start
  drifted       \* history: the index is known not to be that of the track

partyVars ==
  <<list, mode, at, library, matches, offered, shown, combo, box, assured, wanted, drifted>>

Objects == DOMAIN PicksOf

Row(s, f) == [song |-> s, filter |-> f]

NoRow == Row(NoSong, NoFilter)

PartyTypeOK ==
  /\ list \in Playlists([song : ToSet(Tracks), filter : Filters \cup {NoFilter}])
  /\ mode \in {"stopped", "starting", "playing", "fading"}
  /\ at \in -1..(Size(list) - 1)
  /\ combo \in Objects \cup {NoObject}
  /\ {box, assured, drifted} \subseteq BOOLEAN

-----------------------------------------------------------------------------
(* The weights of songs.  Unrated songs count as rated 2.5 of 5. *)
ApplyRating(weight, stars) ==
  IF stars = Unplayed THEN (weight * 7) \div 10 ELSE (weight * (stars + 1)) \div 5

(* getSongWeight() without a playlist, which no caller passes. *)
SongWeight(days, typicality, popularity, rhythm) ==
  LET base == IF days = Unplayed THEN 10000 ELSE (10000 * (days + 1)) \div (days + 2)
  IN  ApplyRating(ApplyRating(ApplyRating(base, typicality), popularity), rhythm)

Weight(s) == SongWeight(DaysSince[s], Unplayed, Unplayed, Unplayed)

(***************************************************************************)
(* The songs that pickSongForFilter() may return: of the songs that        *)
(* satisfy the filter the first of each hash, the very first one (for the  *)
(* random number zero) and those of any weight; the song to be avoided     *)
(* when it is the only one; and nothing.                                   *)
(***************************************************************************)
PickSongForFilter(f, avoid) ==
  LET fit == {k \in DOMAIN library : library[k] # avoid /\ library[k] \in matches[f]}
      First(k) == \A j \in fit : j < k => HashOf[library[j]] # HashOf[library[k]]
  IN  IF fit # {}
      THEN {library[k] : k \in {n \in fit : n = Min(fit) \/ (First(n) /\ Weight(library[n]) > 0)}}
      ELSE IF avoid \in matches[f] THEN {avoid} ELSE {NoSong}

(* pickSongsForTemplate(): an item that matches nothing is left out. *)
WithOneOf(f, picked) ==
  {IF s = NoSong THEN rows ELSE Append(rows, Row(s, f)) :
     rows \in picked, s \in PickSongForFilter(f, NoSong)}

PickSongsForTemplate(object) ==
  LET picks == PicksOf[object]
      Picked[n \in 0..Len(picks)] == IF n = 0 THEN {<<>>} ELSE WithOneOf(picks[n], Picked[n - 1])
  IN  Picked[Len(picks)]

IsAtEnd(pl) == pl.cur = Size(pl) - 1

(* Mutant: the songs are inserted in the order in which they were picked. *)
InsertInOrderPicked(pl, i, rows) == FoldLeft(LAMBDA p, r : InsertItem(p, i, r), pl, rows)

(* insertItem() of the songs, the last one first, all at the same index. *)
InsertPicked(pl, i, rows) ==
  LET Inserted[n \in 0..Len(rows)] ==
        IF n = 0 THEN pl ELSE InsertItem(Inserted[n - 1], i, rows[Len(rows) - n + 1])
  IN  Inserted[Len(rows)]

-----------------------------------------------------------------------------
(* The playlist files: a line names a filter, a hash or a file. *)
Line(kind, value) == [kind |-> kind, value |-> value]

LinesOf(row) ==
  (IF row.filter = NoFilter THEN <<>> ELSE <<Line("filter", row.filter)>>)
    \o <<Line("hash", HashOf[row.song]), Line("name", row.song)>>

(* doExport() writes over an old file and leaves what was longer there. *)
DoExport(rows, old) ==
  LET lines == FlattenSeq([k \in DOMAIN rows |-> LinesOf(rows[k])])
  IN  lines \o SubSeq(old, Len(lines) + 1, Len(old))

SongFromHash(songs, hash) ==
  LET found == {k \in DOMAIN songs : HashOf[songs[k]] = hash}
  IN  IF found = {} THEN NoSong ELSE songs[Min(found)]

(***************************************************************************)
(* A name line: the song is found by its hash alone, as the name still has *)
(* its line break; the flags of a song not found stay for the next one.    *)
(***************************************************************************)
NameLine(flags, songs, filters) ==
  LET song   == SongFromHash(songs, flags.hash)
      filter == IF flags.filter \in filters THEN flags.filter ELSE NoFilter
  IN  IF song = NoSong THEN flags
      ELSE [hash |-> NoSong, filter |-> NoFilter, rows |-> Append(flags.rows, Row(song, filter))]

LineRead(flags, line, songs, filters) ==
  CASE line.kind = "filter" -> [flags EXCEPT !.filter = line.value]
    [] line.kind = "hash"   -> [flags EXCEPT !.hash = line.value]
    [] OTHER                -> NameLine(flags, songs, filters)

DoImport(lines, songs, filters) ==
  LET Flags[n \in 0..Len(lines)] ==
        IF n = 0 THEN [hash |-> NoSong, filter |-> NoFilter, rows |-> <<>>]
        ELSE LineRead(Flags[n - 1], lines[n], songs, filters)
  IN  Flags[Len(lines)].rows

-----------------------------------------------------------------------------
PartyInit ==
  /\ list = EmptyPlaylist
  /\ mode = "stopped"
  /\ at = -1
  /\ library = Tracks
  /\ matches \in Taggings
  /\ offered \in OfferLists
  /\ shown = offered
  /\ combo \in ToSet(offered) \cup {NoObject}
  /\ box \in BOOLEAN
  /\ assured = FALSE
  /\ wanted = NoRow
  /\ drifted = FALSE

settings == <<library, matches, offered, shown, combo, box>>

(* currentItem() is asked for; past the end it is anything, or the end of the program. *)
StartCurrent ==
  IF list'.items = <<>>
  THEN mode' = "stopped" /\ at' = -1 /\ UNCHANGED drifted
  ELSE IF IsValidIndex(list', list'.cur)
       THEN mode' = "starting" /\ at' = list'.cur /\ drifted' = FALSE
       ELSE mode' \in {"stopped", "starting"} /\ at' = -1 /\ drifted' = TRUE

(* The track under way is faded out, then the current item is started. *)
Fade(index) ==
  /\ at' = index
  /\ mode' \in IF mode = "starting" THEN {"fading", "starting"} ELSE {"fading"}

(* Player::jumpTo(), once the list is changed and the track is at the index. *)
JumpTo(index) ==
  IF mode = "stopped" THEN StartCurrent
  ELSE Fade(index) /\ drifted' = (drifted \/ mode' = "starting")

(* Rows go: the track among them fades out (Player::deletePlaylistItem()). *)
TrackWithout(rows) ==
  LET index == IF at \in rows THEN -1 ELSE at - Cardinality({r \in rows : r < at})
  IN  IF at \in rows /\ mode \in {"starting", "playing"}
      THEN Fade(index)
      ELSE at' = index /\ UNCHANGED mode

Remaining(seq, gone) ==
  LET Kept[n \in 0..Len(seq)] ==
        IF n = 0 THEN <<>> ELSE IF n \in gone THEN Kept[n - 1] ELSE Append(Kept[n - 1], seq[n])
  IN  Kept[Len(seq)]

WithoutRows(rows) == Remaining(list.items, {r + 1 : r \in rows})

HasRoom(n) == Size(list) + n <= MaxRows

(***************************************************************************)
(* A click on the quick play list: the songs are inserted below the row,   *)
(* or at the end, and the first of them is played when the user wants it   *)
(* now.                                                                    *)
(***************************************************************************)
QuickPlay(object, row, now) ==
  LET index == IF row < 0 THEN Size(list) ELSE row + 1
  IN  \E rows \in PickSongsForTemplate(object) :
        LET inserted == InsertPicked(list, index, rows)
            moved    == IF at >= index THEN at + Len(rows) ELSE at
        IN  /\ rows # <<>>
            /\ HasRoom(Len(rows))
            /\ list' = IF now THEN SetCurrentItem(inserted, index) ELSE inserted
            /\ IF now
               THEN JumpTo(moved) /\ wanted' = IF drifted' THEN NoRow ELSE rows[1]
               ELSE at' = moved /\ UNCHANGED <<mode, wanted, drifted>>
            /\ UNCHANGED <<settings, assured>>

AddFromTemplate(object) ==
  \E rows \in PickSongsForTemplate(object) :
    /\ HasRoom(Len(rows))
    /\ list' = [list EXCEPT !.items = @ \o rows]
    /\ UNCHANGED <<settings, mode, at, assured, wanted, drifted>>

LoadPlaylist(row) ==
  LET rows == DoImport(File, library, Filters)
      pos  == IF row < 0 THEN Size(list) - 1 ELSE row
  IN  /\ HasRoom(Len(rows))
      /\ list' = InsertItems(list, pos + 1, rows)
      /\ at' = IF at > pos THEN at + Len(rows) ELSE at
      /\ UNCHANGED <<settings, mode, assured, wanted, drifted>>

(* The program is started again, with nothing in the playlist and the settings it saved last. *)
Restarted ==
  /\ list' = EmptyPlaylist
  /\ mode' = "stopped"
  /\ at' = -1
  /\ shown' = offered
  /\ combo' \in ToSet(offered) \cup {NoObject}
  /\ box' \in BOOLEAN
  /\ assured' = FALSE
  /\ wanted' = NoRow
  /\ drifted' = FALSE
  /\ UNCHANGED <<library, matches, offered>>

(***************************************************************************)
(* The replacement of a row's song by another one of its filter.  When no  *)
(* song satisfies it any more the row gets a null song, which ends the     *)
(* program as soon as the row is shown.  The new current one is played at  *)
(* once if a track is loaded, as it is until a fade-out has ended and      *)
(* before a start has.                                                     *)
(***************************************************************************)
ReplaceSong(i) ==
  LET row == ItemAt(list, i)
  IN  /\ row.filter # NoFilter
      /\ \E s \in PickSongForFilter(row.filter, row.song) \ {row.song} :
           IF s = NoSong
           THEN Restarted
           ELSE LET index == IF at = i THEN -1 ELSE at
                IN  /\ list' = ReplaceItem(list, i, Row(s, row.filter))
                    /\ wanted' = NoRow
                    /\ \/ i = list.cur /\ JumpTo(index)
                       \/ /\ i # list.cur \/ mode \in {"stopped", "starting"}
                          /\ at' = index
                          /\ drifted' = (drifted \/ at = i)
                          /\ UNCHANGED mode
                    /\ UNCHANGED <<settings, assured>>

DeleteSelected(rows) ==
  /\ rows # {}
  /\ list' = [items |-> WithoutRows(rows), cur |-> list.cur - Cardinality({r \in rows : r < list.cur})]
  /\ TrackWithout(rows)
  /\ drifted' = (drifted \/ (at \in rows /\ mode' = "starting"))
  /\ wanted' = NoRow
  /\ assured' = FALSE
  /\ UNCHANGED settings

(* Playlist::removeSong() leaves the index alone. *)
LibraryRemoves(s) ==
  LET rows == {k \in 0..(Size(list) - 1) : ItemAt(list, k).song = s}
  IN  /\ s \in ToSet(library)
      /\ library' = Remaining(library, {k \in DOMAIN library : library[k] = s})
      /\ list' = [list EXCEPT !.items = WithoutRows(rows)]
      /\ TrackWithout(rows)
      /\ drifted' = (drifted \/ \E r \in rows : r <= list.cur)
      /\ wanted' = IF rows = {} THEN wanted ELSE NoRow
      /\ assured' = (assured /\ rows = {})
      /\ UNCHANGED <<matches, offered, shown, combo, box>>

-----------------------------------------------------------------------------
(* jumpToAndPlay() stays with the current row, a double click does not. *)
Jump(row) ==
  /\ list' = SetCurrentItem(list, row)
  /\ JumpTo(at)
  /\ wanted' = NoRow
  /\ assured' = FALSE
  /\ UNCHANGED settings

Play ==
  /\ mode = "stopped"
  /\ list.items # <<>>
  /\ UNCHANGED list
  /\ StartCurrent
  /\ UNCHANGED <<settings, assured, wanted>>

StopPlaying ==
  /\ mode # "stopped"
  /\ \/ mode' = "stopped" /\ at' = -1 /\ drifted' = FALSE
     \/ mode = "starting" /\ UNCHANGED <<mode, at, drifted>>
  /\ wanted' = NoRow
  /\ assured' = FALSE
  /\ UNCHANGED <<settings, list>>

FadedOut ==
  /\ mode = "fading"
  /\ UNCHANGED list
  /\ StartCurrent
  /\ assured' = FALSE
  /\ UNCHANGED <<settings, wanted>>

(* playerStartedPlayback(): the last row appends what the combo box says. *)
Started ==
  /\ mode = "starting"
  /\ mode' = "playing"
  /\ LET appends == IsAtEnd(list) /\ box /\ combo # NoObject
     IN  \E rows \in IF appends THEN PickSongsForTemplate(combo) ELSE {<<>>} :
           /\ HasRoom(0)
           /\ list' = [list EXCEPT !.items = @ \o rows]
  /\ assured' = (/\ IsValidIndex(list, list.cur)
                 /\ box
                 /\ combo # NoObject
                 /\ \E f \in ToSet(PicksOf[combo]) : \E s \in ToSet(library) : s \in matches[f])
  /\ wanted' = NoRow
  /\ UNCHANGED <<settings, at, drifted>>

(* The track ends (Player::outputStateChanged()). *)
Finished ==
  /\ mode = "playing"
  /\ list' = NextItem(list)
  /\ IF HasNext(list) THEN StartCurrent ELSE mode' = "stopped" /\ at' = -1 /\ drifted' = FALSE
  /\ assured' = FALSE
  /\ UNCHANGED <<settings, wanted>>

-----------------------------------------------------------------------------
others == <<list, mode, at, library, matches, assured, wanted, drifted>>

TagsChange(tagging) ==
  /\ tagging # matches
  /\ matches' = tagging
  /\ UNCHANGED <<list, mode, at, library, offered, shown, combo, box, assured, wanted, drifted>>

(* In the dialogs of the templates and filters, of this window or the other one. *)
OffersChange(offers) ==
  /\ offered' = offers
  /\ UNCHANGED <<others, shown, combo, box>>

(***************************************************************************)
(* showTemplates() ends: refreshQuickPlay() and                            *)
(* refreshAppendUponCompletion(), which keeps the object selected if it is *)
(* still offered.  An emptied combo box selects the first item added.      *)
(***************************************************************************)
TemplatesClosed ==
  /\ shown' = offered
  /\ combo' = IF combo \in ToSet(offered) THEN combo
              ELSE IF offered = <<>> THEN NoObject ELSE Head(offered)
  /\ UNCHANGED <<others, offered, box>>

ComboChosen(object) ==
  /\ combo' = object
  /\ UNCHANGED <<others, offered, shown, box>>

BoxToggled ==
  /\ box' = ~box
  /\ UNCHANGED <<others, offered, shown, combo>>

Rows == 0..(Size(list) - 1)

PartyNext ==
  \/ \E object \in ToSet(shown), row \in Rows \cup {-1}, now \in BOOLEAN : QuickPlay(object, row, now)
  \/ \E object \in ToSet(offered) : AddFromTemplate(object)
  \/ \E row \in Rows \cup {-1} : LoadPlaylist(row)
  \/ \E i \in Rows : ReplaceSong(i)
  \/ \E rows \in SUBSET Rows : DeleteSelected(rows)
  \/ \E s \in ToSet(library) : LibraryRemoves(s)
  \/ \E row \in Rows : Jump(row)
  \/ Play
  \/ StopPlaying
  \/ FadedOut
  \/ Started
  \/ Finished
  \/ \E tagging \in Taggings : TagsChange(tagging)
  \/ \E offers \in OfferLists : OffersChange(offers)
  \/ TemplatesClosed
  \/ \E object \in ToSet(shown) : ComboChosen(object)
  \/ BoxToggled

PartySpec == PartyInit /\ [][PartyNext]_partyVars

-----------------------------------------------------------------------------
(* A track started with songs at hand to append is not the last one. *)
NeverRunsDry == mode = "playing" /\ assured => HasNext(list)

(* The song picked first is the one that quick play starts. *)
StartsTheFirst ==
  wanted # NoRow =>
    mode \in {"starting", "fading"} /\ IsValidIndex(list, list.cur) /\ ItemAt(list, list.cur) = wanted

(* The edits move the index along with the track. *)
IndexFollowsTrack == mode = "playing" /\ ~drifted => at = list.cur

(***************************************************************************)
(* PlayerWindow.cpp:889, :1009, :979: whatever is edited meanwhile, quick  *)
(* play starts the song picked first, the index stays with the track that  *)
(* is played, and with something to append the music goes on.              *)
(***************************************************************************)
PartyGoesOn == PartyTypeOK /\ NeverRunsDry /\ StartsTheFirst /\ IndexFollowsTrack
=============================================================================
