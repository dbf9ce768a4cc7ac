---------------------------- MODULE ClassroomWindow ----------------------------
(***************************************************************************)
(* The classroom window (src/src/UI/ClassroomWindow.cpp): the songs of the *)
(* chosen filter, the search text, the tempo slider and the duration limit *)
(* whose edits are applied some ticks later, and the dialogs it opens over *)
(* itself (SongTable.tla, SongProperties.tla) while its timer goes on.     *)
(* Of the player and of the other window (src/src/UI/PlayerWindow.cpp)     *)
(* there is the current track with its limit, the tempo and its slider.    *)
(*                                                                         *)
(* The tempo is counted in steps of the sliders: the coefficient is        *)
(* (300 + tempo) / 300.  A limit is a model number, NoLimit is -1.         *)
(***************************************************************************)
EXTENDS SongProperties

CONSTANTS
  Tempos,      \* bound: the positions of the sliders in use
  Limits,      \* bound: the durations the user may type
  TempoTicks,  \* the ticks from a move of the slider to the new tempos in the list
  LimitTicks   \* the ticks from the last edit of the limit to its use

NoLimit == -1
Unparsable == -2

ASSUME ClassroomAssumption ==
  /\ Tempos \subseteq -50..50 /\ 0 \in Tempos /\ Limits \subseteq Nat
  /\ {TempoTicks, LimitTicks} \subseteq Nat \ {0}

VARIABLES
  win,    \* the window: filter, songs, list, search, controls and counters
  player, \* the current track, its limit, the tempo coefficient, the other window's slider
  wish    \* history: the limit the current track is to have, as far as the user said so in this window

vars == <<lib, scans, tbl, ask, fault, steps, props, win, player, wish>>

NoWish == -2
NoItem == [sd |-> 0, tempo |-> 0]    \* no item is the current one
MinTempo == -50
MaxTempo == 50

Coefficient(slider) == 300 + slider
SliderOf(coefficient) ==
  LET value == coefficient - 300 IN IF value < MinTempo THEN MinTempo ELSE IF value > MaxTempo THEN MaxTempo ELSE value

-----------------------------------------------------------------------------
(* The list of songs *)

\* for comparison: the text has the song's own tempo
SongItemUnadjusted(h, coefficient) == [sd |-> h, tempo |-> Coefficient(0)]

\* updateSongItem(): the text has the tempo that the song would be played at
SongItem(h, coefficient) == [sd |-> h, tempo |-> coefficient]

TextMatches(l, text, h) ==
  text = 0 \/ \E i \in DOMAIN Duplicates(l, h) : Primary(l, Duplicates(l, h)[i]) = text

\* applySearchFilterToSongs(): the list is filled anew, its former items are gone
ItemsFilled(w, l, coefficient) ==
  LET listed == {h \in w.all : Len(Duplicates(l, h)) > 0 /\ TextMatches(l, w.search, h)}
  IN [w EXCEPT !.items = {SongItem(h, coefficient) : h \in listed}, !.held = IF @ = "item" THEN "freed" ELSE @]

\* filterItemSelected()
FilterSelected(w, l, tag, coefficient) ==
  ItemsFilled([w EXCEPT !.filter = tag,
                 !.all = {h \in Hashes : \E f \in ToSet(Duplicates(l, h)) : Primary(l, f) = tag}], l, coefficient)

TempoItems(w, coefficient) == [w EXCEPT !.items = {SongItem(i.sd, coefficient) : i \in @}]

SelectFilter(tag) ==
  /\ win.filter # tag
  /\ win' = FilterSelected(win, lib, tag, player.coefficient)
  /\ UNCHANGED <<lib, scans, tbl, ask, fault, props, player, wish>>

TypeSongSearch(text) ==
  /\ win' = [win EXCEPT !.typed = text, !.searchDue = SearchTicks]
  /\ UNCHANGED <<lib, scans, tbl, ask, fault, props, player, wish>>

-----------------------------------------------------------------------------
(* Playing *)

\* applyDurationLimitSettings()
LimitApplied(p, w) ==
  IF p.track = 0 THEN p
  ELSE IF ~w.limitOn THEN [p EXCEPT !.limit = NoLimit]
  ELSE IF w.limitText = Unparsable THEN p ELSE [p EXCEPT !.limit = w.limitText]

Wished(w) == IF ~w.limitOn THEN NoLimit ELSE IF w.limitText = Unparsable THEN NoWish ELSE w.limitText

\* startPlayingSong(): the first duplicate is appended and made the current track, with the
\* limit of the chosen filter, if it has one
StartPlayingSong(item, own) ==
  LET dups == Duplicates(lib, item.sd)
      started == [player EXCEPT !.track = dups[1], !.limit = own]
  IN /\ item \in win.items
     /\ IF dups = <<>> THEN UNCHANGED <<player, wish>>
        ELSE player' = LimitApplied(started, win) /\ wish' = Wished(win)
     /\ UNCHANGED <<lib, scans, tbl, ask, fault, props, win>>

ClickLimit ==
  /\ win' = [win EXCEPT !.limitOn = ~@]
  /\ player' = LimitApplied(player, win')
  /\ wish' = IF player.track = 0 THEN wish ELSE Wished(win')
  /\ UNCHANGED <<lib, scans, tbl, ask, fault, props>>

EditLimit(text) ==
  /\ win' = [win EXCEPT !.limitText = text, !.limitDue = LimitTicks]
  /\ wish' = IF player.track = 0 THEN wish ELSE Wished(win')
  /\ UNCHANGED <<lib, scans, tbl, ask, fault, props, player>>

\* setSelectedItemsDurationLimit() of the other window, on the current track.  It is overwritten by
\* a limit that is still pending here, though it is the later wish: no promise is made of that
LimitInPlaylist(limit) ==
  /\ player.track # 0
  /\ player' = [player EXCEPT !.limit = limit]
  /\ wish' = NoWish
  /\ UNCHANGED <<lib, scans, tbl, ask, fault, props, win>>

\* The player starts, or goes on to, a track of the playlist.  A limit that was typed for another
\* track and is still pending will be applied to this one
TrackChanges(f, own) ==
  /\ player' = [player EXCEPT !.track = f, !.limit = own]
  /\ wish' = IF win.limitDue > 0 THEN Wished(win) ELSE NoWish
  /\ UNCHANGED <<lib, scans, tbl, ask, fault, props, win>>

\* The player stops: currentTrack() is null
PlayerStops ==
  /\ player.track # 0
  /\ player' = [player EXCEPT !.track = 0, !.limit = NoLimit]
  /\ wish' = NoWish
  /\ UNCHANGED <<lib, scans, tbl, ask, fault, props, win>>

\* A slider is moved: setTempoCoeff() tells both windows, which set their sliders, which would
\* call it again with a value that is no other
TempoSet(slider) ==
  /\ Coefficient(slider) # player.coefficient
  /\ LET c == Coefficient(slider)
     IN /\ player' = [player EXCEPT !.coefficient = c, !.slider = SliderOf(c)]
        /\ win' = [win EXCEPT !.slider = SliderOf(c), !.tempoDue = IF win.slider = SliderOf(c) THEN @ ELSE TempoTicks]
  /\ UNCHANGED <<lib, scans, tbl, ask, fault, props, wish>>

-----------------------------------------------------------------------------
(* Removing songs, and the dialogs *)

AskToRemoveSong(item, delete) ==
  LET dups == Duplicates(lib, item.sd)
  IN /\ item \in win.items /\ dups # <<>>
     /\ ask' = [from |-> "classroom", songs |-> dups, delete |-> delete]
     /\ UNCHANGED <<lib, scans, tbl, fault, props, win, player, wish>>

\* showSongProperties(), showSongs(): the current item, or none, is held over the dialog
Held(item) == IF item = NoItem THEN "nothing" ELSE "item"

OpenFromClassroom(item) ==
  LET dups == Duplicates(lib, item.sd)
  IN /\ item \in win.items /\ dups # <<>>
     /\ props' = OpenProps(dups[1]) /\ win' = [win EXCEPT !.held = Held(item)]
     /\ UNCHANGED <<lib, scans, tbl, ask, fault, player, wish>>

OpenFromTable(f) ==
  /\ f \in ToSet(tbl.rows)
  /\ props' = OpenProps(f)
  /\ UNCHANGED <<lib, scans, tbl, ask, fault, win, player, wish>>

ShowSongs(item) ==
  /\ item \in win.items \cup {NoItem}
  /\ tbl' = OpenTable /\ win' = [win EXCEPT !.held = Held(item)]
  /\ UNCHANGED <<lib, scans, ask, fault, props, player, wish>>

\* Back in the window, the held item is updated; if the list has been filled anew since, the
\* item was freed and anything may happen
Returned(ended) ==
  IF ended /\ ~tbl'.open
  THEN /\ win' = [win EXCEPT !.held = "nothing"]
       /\ IF win.held = "freed" THEN fault' \in {"none", "freed"} ELSE fault' = fault
  ELSE UNCHANGED <<win, fault>>

-----------------------------------------------------------------------------
(* The timers, the answers and the whole *)

Counted(n) == IF n > 0 THEN n - 1 ELSE n

\* periodicUIUpdate()
ClassroomTick ==
  LET limited == IF win.limitDue = 1 THEN LimitApplied(player, win) ELSE player
      searched == IF win.searchDue = 1 THEN ItemsFilled([win EXCEPT !.search = win.typed], lib, player.coefficient) ELSE win
      tempoed == IF win.tempoDue = 1 THEN TempoItems(searched, player.coefficient) ELSE searched
  IN /\ win.limitDue > 0 \/ win.searchDue > 0 \/ win.tempoDue > 0
     /\ player' = limited
     /\ win' = [tempoed EXCEPT !.limitDue = Counted(@), !.searchDue = Counted(@), !.tempoDue = Counted(@)]
     /\ UNCHANGED <<lib, scans, tbl, ask, fault, props, wish>>

Answer(yes) ==
  /\ ask # NoAsk /\ ask' = NoAsk
  /\ IF yes
     THEN \E deleted \in IF ask.delete THEN SUBSET ToSet(ask.songs) ELSE {{}} :
            LET end == RemoveAll([l |-> lib, t |-> tbl], ask.songs, deleted)
            IN /\ lib' = end.l /\ tbl' = end.t
               /\ props' = IF ask.from = "properties" THEN WithoutRow(props, ask.delete) ELSE props
     ELSE UNCHANGED <<lib, tbl, props>>
  /\ UNCHANGED <<scans, fault, win, player, wish>>

\* The window that the user can work in: the dialogs are modal
Top == IF ask # NoAsk THEN "question" ELSE IF props.message # "none" THEN "message"
       ELSE IF props.open THEN "properties"
       ELSE IF tbl.open THEN "table" ELSE "classroom"

InClassroom ==
  \/ \E tag \in Tags \ {0} : SelectFilter(tag)
  \/ \E text \in Tags : TypeSongSearch(text)
  \/ \E limit \in Limits \cup {Unparsable} : EditLimit(limit)
  \/ ClickLimit
  \/ \E tempo \in Tempos : TempoSet(tempo)
  \/ \E item \in win.items :
       \/ \E own \in Limits \cup {NoLimit} : StartPlayingSong(item, own)
       \/ \E delete \in BOOLEAN : AskToRemoveSong(item, delete)

InTable == TableAction /\ UNCHANGED <<props, win, player, wish>>

InProps ==
  \/ PropsAction /\ UNCHANGED <<win, player, wish>>
  \/ \E outcome \in [Changed -> Outcomes] :
       Apply(outcome) /\ UNCHANGED <<player, wish>> /\ Returned(~props'.open)

UserAction ==
  \/ Top = "classroom" /\ InClassroom
  \/ Top = "table" /\ InTable
  \/ Top = "properties" /\ InProps

Opening ==
  \/ Top = "classroom" /\ \E item \in win.items : OpenFromClassroom(item)
  \/ Top = "classroom" /\ \E item \in win.items \cup {NoItem} : ShowSongs(item)
  \/ Top = "table" /\ \E f \in Files : OpenFromTable(f)

Closing ==
  \/ /\ Top = "table" /\ CloseTable
     /\ UNCHANGED <<lib, scans, ask, props, player, wish>> /\ Returned(TRUE)
  \/ /\ Top = "properties" /\ props' = NoProps
     /\ UNCHANGED <<lib, scans, tbl, ask, player, wish>> /\ Returned(TRUE)

MessageAnswered ==
  /\ Top = "message"
  /\ \E outcome \in [Changed -> Outcomes] :
       ApplyGoesOn(outcome) /\ UNCHANGED <<player, wish>> /\ Returned(~props'.open)

PlayerAction ==
  \/ \E limit \in Limits \cup {NoLimit} : Top = "classroom" /\ LimitInPlaylist(limit)
  \/ \E f \in Files, own \in Limits \cup {NoLimit} : TrackChanges(f, own)
  \/ PlayerStops

LibraryAction == (\E f \in Files : SongAdded(f)) /\ UNCHANGED <<fault, props, win, player, wish>>
ScanAction == (\E f \in Files : ScanReads(f) \/ ScanStores(f)) /\ UNCHANGED <<fault, props, win, player, wish>>

\* The counters of the tempo and of the limit have no initial values in the code
Init ==
  /\ LibraryInit /\ props = NoProps
  /\ \E garbage \in {<<0, 0>>, <<TempoTicks, LimitTicks>>} :
       win = [filter |-> 0, all |-> {}, items |-> {}, search |-> 0, typed |-> 0,
              searchDue |-> 0, tempoDue |-> garbage[1], limitDue |-> garbage[2], limitOn |-> FALSE,
              limitText |-> Unparsable, slider |-> 0, held |-> "nothing"]
  /\ player = [track |-> 0, limit |-> NoLimit, coefficient |-> Coefficient(0), slider |-> 0]
  /\ wish = NoWish

Running == fault = "none"

Next ==
  \/ /\ Running /\ steps < MaxSteps /\ steps' = steps + 1
     /\ UserAction \/ PlayerAction \/ LibraryAction \/ Opening
  \/ Running /\ Closing /\ steps' = steps
  \/ Running /\ ScanAction /\ steps' = steps
  \/ Running /\ (\E yes \in BOOLEAN : Answer(yes)) /\ steps' = steps
  \/ Running /\ MessageAnswered /\ steps' = steps
  \/ Running /\ TableTick /\ UNCHANGED <<fault, steps, props, win, player, wish>>
  \/ Running /\ ClassroomTick /\ steps' = steps

\* The timers of both windows go off as long as the program runs, in the event loops of the
\* modal dialogs too
Spec ==
  /\ Init /\ [][Next]_vars
  /\ WF_vars(Running /\ TableTick /\ UNCHANGED <<fault, steps, props, win, player, wish>>)
  /\ WF_vars(Running /\ ClassroomTick /\ steps' = steps)

-----------------------------------------------------------------------------
(* Properties *)

\* The table has each of the library's songs at most once and no other, and says how many there
\* are; without a filter it has all of them; and it no longer lists a song "without ID3 tag"
\* whose tag has been written from the dialogs, unless a scan has stored another one since.
TableFollowsLibrary == tbl.open =>
  /\ \A i, j \in DOMAIN tbl.rows : tbl.rows[i] = tbl.rows[j] => i = j
  /\ ToSet(tbl.rows) \subseteq ToSet(lib.songs) /\ tbl.total = Len(lib.songs)
  /\ tbl.flt = "all" /\ tbl.search = 0 => ToSet(tbl.rows) = ToSet(lib.songs)
  /\ tbl.flt = "noId3" => \A f \in tbl.written \cap ToSet(tbl.rows) : lib.id3[f] = 0

\* Removing songs removes the songs that were selected when the question was asked, whatever
\* happened to the rows and the lists while the user thought about it, and no other song goes.
\* Nor does any file, but those of the chosen songs that the user wants to be deleted and that can be.
RemovesTheChosen ==
  [][LET removed == ToSet(lib.songs) \ ToSet(lib'.songs)
         deleted == {f \in Files : lib.disk[f] # Gone /\ lib'.disk[f] = Gone}
     IN /\ removed # {} => ask # NoAsk /\ ask' = NoAsk /\ removed = ToSet(ask.songs)
        /\ deleted # {} => ask.delete /\ deleted \subseteq removed]_vars

\* The dialog of the properties shows, and edits, the file whose row is the current one, in
\* spite of the calls that a removal of a row nests; a deletion from the disk is the exception,
\* until the user chooses a row.
FieldsOfSelectedRow == props.open /\ ~props.rowLost /\ props.row # 0 =>
  /\ props.list = props.dups
  /\ props.song = props.list[props.row] /\ props.shown = props.song

\* Nothing that was typed or moved is still to be applied.
Settled ==
  /\ tbl.search = tbl.typed /\ win.search = win.typed
  /\ \A item \in win.items : item.tempo = player.coefficient
  /\ wish # NoWish => player.limit = wish

\* What the user typed or moved takes effect: the search texts are applied, the songs are listed
\* with the current tempo, and the current track has the limit asked for, also one that has become
\* the current one before the limit is due.  Of two wishes in two windows nothing is said.
EditsTakeEffect == <>[](fault # "none" \/ Settled)
=============================================================================
