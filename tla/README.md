# A formal model of SkauTan

SkauTan is a Qt desktop player for dance-school music: a library of songs with votes and
ratings, playlists filled from templates, a player with fade-outs and per-track duration limits,
background tasks that hash, scan and analyse the songs, a small web server on which dancers vote,
and MIDI controllers for the DJ. This directory holds TLA+ models of these parts, the TLC
configurations that check them and TLAPS proofs about most of them. Paths below are
relative to `src/src/` of the repository unless they begin otherwise.

    tlc -config MCPlaylist_edits.cfg MCPlaylist        # one run of section 3
    tlapm PlaylistProofs.tla                           # one proof of section 5

`PROJECT.json` lists the components, the runs, the source lines of every definition, the hazards
with the properties that cover them, and for every property a mutant of the code that breaks it.

## 1. The system and its parts

| Part | State it keeps | Operations | Talks to |
|---|---|---|---|
| **Player** and its **OutputThread** (`Audio/Player.*`) | `mState` (six states), `mCurrentTrack`, `mAudioDataSource`, `mTempoCoeff`, the `QAudioOutput` | `startPlayback`, `pausePlayback`, `startPausePlayback`, `stopPlayback`, `nextTrack`, `prevTrack`, `jumpTo`, `setTempoCoeff`, `seekTo`, `setVolume`, `outputStateChanged`, the notify handler (duration limit), the destructor | The windows call it in the main thread; queued `startingPlayback` to the output thread, blocking calls back; reads and moves the playlist from both threads |
| **Playlist** (`Playlist.*`, `IPlaylistItem.hpp`, `PlaylistItemSong.*`) | `mItems`, `mCurrentItemIdx`, start and end times in each item | `addItem`, `insertItem(s)`, `replaceItem`, `deleteItem`, `moveItem`, `removeSong`, `nextItem`, `prevItem`, `setCurrentItem`, the updates of the times | windows, drag and drop (`UI/PlaylistItemModel.*`), files (`PlaylistImportExport.*`), templates, the database's `songRemoved`, the player |
| **Background tasks** (`BackgroundTasks.*`) | the queue `mTasks`, `mShouldTerminate`, the executors | `addTask`, `getNextTask`, `run`, `stopAll`, `tasks` | all who enqueue work; emits `taskAdded`, `taskFinished` |
| **Task list dialog** (`UI/Dlg/DlgBackgroundTaskList.*`) | `mTasksToAdd`, `mTasksToRemove`, `mTaskItemMap`, the list | constructor, `addTask`, `delTask`, `periodicUpdateUi` | signals of the background tasks |
| **PlaybackBuffer** and **SongDecoder** (`Audio/PlaybackBuffer.*`, `Audio/SongDecoder.*`, `Audio/AVPP.*`) | the decoded samples, read and write positions, limit, abort and error flags | `setDuration`, `writeDecodedAudio`, `decodedEOF`, `abort(WithError)`, `waitForData`, `read`, `seekTo`, `seekToFrame`, the destructor | decoder thread, output thread, main thread |
| **Song library** (`DB/Database.*`, `Song.*`, `DatedOptional.hpp`) | songs, files without a hash (`NewFiles`), files with one (`SongFiles`), shared data, votes, history | `addSongFile`, `removeSong`, `songHashCalculated`, `songScanned`, `renameFile`, `saveSong`, `addVote`, `songPlaybackStarted`, the random picks | tasks, dialogs, player |
| **Metadata scanner**, **length and hash calculator**, **tempo detector** (`MetadataScanner.*`, `LengthHashCalculator.*`, `BackgroundTempoDetector.*`) | what is queued or running | one task per song and a queued result; file names and stored tags taken apart | library, background tasks |
| **Filters** (`Filter.*`, `UI/Dlg/DlgEditFilter.*`) | a tree of nodes with plain pointers to their parents | comparisons, editing in place, saving and loading of the rows | library, dialogs |
| **Templates** (`Template.*`, `UI/Dlg/DlgTemplatesList.*`, `UI/Dlg/DlgManageFilters.*`) | ordered lists of templates, their items and the filters, with positions in the database | add, duplicate, move, remove, edit, XML import and export | library, playlist |
| **Vote server** (`LocalVoteServer.*`, `res/VoteServer/static/lvs.js`) | the songs played; in the page, the songs shown | HTTP `apiVote`, `apiPlaylist`; `startedPlayback` | library, player, browsers |
| **Import, backup, upgrade** (`DB/DatabaseImport.*`, `DB/DatabaseBackup.*`, `DB/DatabaseUpgrade.*`, `DB/TagImportExport.*`) | none of their own | merging another database, daily copies, version scripts, files of tags | library |
| **DJ controllers** (`DJControllers.*`, `Controller/*`) | ports, controllers, handlers | periodic scan of the ports, queries and answers, keys, sliders, LEDs | both windows |
| **Player window**, **classroom window** (`UI/PlayerWindow.*`, `UI/ClassroomWindow.*`) | lists, sliders, search texts, counters of their timers | quick play, appending of songs, replacement; search, tempo, limit | everything |
| **Song table and properties** (`UI/SongModel.*`, `UI/Dlg/DlgSongs.*`, `UI/Dlg/DlgSongProperties.*`) | cached rows, filter, search; copies of what is edited | rating, editing, rescanning, removing of selected rows; duplicates | library |
| **Signal processing** (`SongTempoDetector.*`, `Audio/AudioEffects.*`) | samples | tempo detection, fade, tempo change | decoder, player |

### What is hard

* Two threads share the player's state without a lock. The output thread writes `mState`,
  `mCurrentTrack` and `mAudioDataSource` while the main thread's handlers decide by them; the
  notify handler even calls `nextTrack()` and `stopPlayback()` from the wrong thread. The output
  thread blocks in calls to the main thread; the destructor blocks the main thread until the
  output thread ends. State changes of the audio device come late, in a queue.
* The background tasks and the playback buffer each use a condition variable whose predicate is
  also written without its mutex.
* The current index has to follow the current item through every edit, and a drag of several rows
  is a loop of moves that re-indexes what it has still to move. Songs are put around the current
  item by quick play and by templates while the player moves on.
* Dialogs combine a snapshot with signals that may already be on their way, hold row numbers of a
  list that is filtered and sorted anew under them, and run event loops in which timers, scans and
  the windows beneath go on.
* The library moves a file from one table to another when its hash arrives, by which time the file
  may have been renamed or removed, or the program ended. Filters, templates and positions are
  written statement by statement, outside a transaction.
* A database may be of any former version, half upgraded, copied, or merged with another one whose
  clock is wrong.
* Answers of the vote server are lost, late or out of order; answers of MIDI devices may come when
  the next port is being asked; devices come and go between two scans.

## 2. The modules

| Module | Models | Correspondence |
|---|---|---|
| `PlaylistOps` | the algorithms of `Playlist.cpp` on list and index, and `dropMimeData()` | pure operators on `[items, cur]`, with the 0-based indices of the code |
| `Playlist` | the playlist with its predicted times | `pl`, `times`; one action per operation, all in the main thread and so one step each |
| `Party` | the player window's use of the playlist: weighted picks, quick play, "add from template", replacement, appended songs; playlist files | `list` is the playlist, `shown` the quick play list, `matches` what each filter matches; the player is reduced to what the playlist sees of it |
| `Player` | player, output thread, audio device; extends `PlaylistOps` | `outPc` is where the output thread is, `call` the blocking call it is in, `outQ` its event queue, `mainPc` where the main thread is |
| `PlayerUse` | the player under two kinds of users; what is promised without pauses | `pauses` says which kind; extends `Player` |
| `BackgroundTasks` | queue, executors, stop; the tempo detector as tasks that enqueue a successor | `execPc[e]`, `execTask[e]`, `queue`; a step ends where `mMtx` is released |
| `TaskListDialog` | the dialog composed with `BackgroundTasks` (which it extends) | each action of the tasks that emits a signal is conjoined with what the signal does; `events` is the main thread's event queue |
| `PlaybackBuffer` | one buffer with decoder, reader and seeks | `decPc`, `readerPc`, the positions, `terminations` for the permits of the semaphore; steps are cut where an unlocked write can come in; `crossed` remembers that the last seek came in the middle of a read |
| `SongLibrary` | the library's tables and song objects, the hash and scan tasks, the disk, the end and next start of the program | `newFiles`, `songFiles`, `taggedRows`, `sharedRows` are tables and survive `Restart`; `songs`, `fileOf`, `hashOf`, `duplicates` the objects; `hashTasks`, `scanTasks` what is queued or running; `events` the signals; `handling` the slot whose effects are half done |
| `SongNames` | what the scanner makes of file names and stored tags, tempo ranges, warnings | pure operators on sequences of words |
| `FilterOps` | the comparisons of a filter | pure operators; values are ranks |
| `FilterEditor` | a filter's tree, its editor, its rows in `FilterNodes`; extends `FilterOps` | `nodes`, `root`; the rows are deleted and inserted one by one, `FilterRestart` may come between; loading makes a tree of what is left |
| `TagFiles` | XML files of tags | pure operators: `DoExport`, `DoImport` |
| `TemplateShelf` | abstract: what the library promises about templates | `shelf`, `former`, `writing` |
| `TemplateStore` | templates and filters in memory, in their tables and in two dialogs | a slot changes the lists at once and leaves statements to be executed one by one; refines `TemplateShelf` by an `INSTANCE ... WITH` |
| `TemplateFiles` | XML files of templates | pure operators, checked with `TemplateStore` |
| `DatabaseUpgrade` | the start of the program: daily backup, backup before an upgrade, the scripts, open | `onDisk` is the file, `phase` how far the program is; one operator per version's script |
| `LibraryExchange` | votes, ratings, histories, dated values, the import of another library's database | each event is a new day; two libraries with clocks that differ |
| `VoteServer` | server, page, connections; extends `LibraryExchange` | `mHistory` of the server, `songs` and `maxSongIndex` of the page, requests and answers on a few connections |
| `SongTable` | the table of songs with filter, search and sorting | `tbl.rows` is the cached list; `ask` a question waiting for an answer |
| `SongProperties` | the properties dialog; extends `SongTable` | `props`: the dialog's vector, the widget's list and row; the calls nested in one another as long as the row changes are a recursive function; `message` is the message that `applyAndClose()` waits in, `at` how far it has come |
| `ClassroomWindow` | the classroom window and its counters; extends `SongProperties` | `win`, and of the player `player` |
| `DJControllers` | the scan of MIDI ports, answers, handlers, LEDs | the scanning thread is a process with a program counter; devices are numbered by when they were plugged in |
| `*Proofs` | the theorems about the module of the same name; `PlaylistProofs` also about `Party`, `PlayerProofs` about `PlayerUse` and `PlaybackBuffer`, `BackgroundTasksProofs` about `TaskListDialog`, `VoteServerProofs` about `LibraryExchange`, `DatabaseProofs` about `SongLibrary`, `DatabaseUpgrade` and `FilterEditor`, `ClassroomProofs` about `ClassroomWindow` with `SongTable` and `SongProperties` | section 5 |
| `MC*` | the instances for TLC: constants, which part of a composition a behaviour is about, and the named assumptions that check pure operators | section 3 |

How the actions are cut. A Qt slot runs to completion in its thread, so a handler of the main
thread is one step, unless it hands something to another thread half-way (`startPlayback()` emits
`startingPlayback` before it assigns `psStartingPlayback`, and is two steps), waits in a nested
event loop (a modal dialog or a question: the step ends where the loop begins), or writes to the
database where an end of the program can be told apart afterwards. The output thread's code is cut
wherever it reads or writes something that the main thread may touch in between. While the main
thread serves a blocking call, the output thread waits; the call is one step of both. Code under a
mutex is one step, except where an atomic is written without it.

A slot of `SongLibrary` is cut only after the insertion of the shared data and before the transaction
that moves a file from `NewFiles` to `SongFiles`, and between the renaming of a file and the saving
of its song. In the database, each statement outside a transaction is a transaction of its own:
`FilterEditor` and `TemplateStore` execute them one by one, `DatabaseUpgrade` a script at a time, as
each script is in a transaction.

What the models assume of Qt and the system (none of it is in `src/`):

* queued signals of one sender to one receiver arrive in order; a blocking queued call returns
  after the slot has run;
* `QAudioOutput::start()` reports the active state from the calling thread, `suspend()` acts on an
  active or idle device, `resume()` on a suspended one; state changes caused from the main thread
  reach the handler through the device's own thread;
* `QWaitCondition` has no spurious wake-ups, `wakeOne()` wakes one of the threads that wait, if
  any; mutexes exclude;
* SQLite keeps what was committed when the program ends at any moment and rolls back what was not;
  `Restart` is the end of the program and the next start;
* a shared pointer in a queued task or signal keeps its object alive, and without one the destructor
  runs at once;
* an index past the end of a vector, where the code's assertion is compiled out, reads any item or
  a null pointer (`CurrentItems` in `PlaylistOps`), and a read of audio from behind the data goes on
  from there, for as far as `MaxOverrun` (`ReadStart` in `PlaybackBuffer`);
* a list widget whose current row is removed reports the new current row before the row is gone;
* a MIDI port may or may not be opened twice, depending on the system.

## 3. The runs

Twelve runs: ten pass, and two are of statements in the source that the program breaks. Related
models share a run: the MC module's `scene` (or `pauses` of `PlayerUse`, or the `Bounds` a behaviour
keeps to) is chosen in the initial state and never changes, so each behaviour is one of the one kind or
the other. Every property of a passing run has a mutant of the code in `PROJECT.json`, an operator next
to the one it replaces ("Mutant: ..." or "for comparison: ..."), under which TLC finds the property violated. A property's name often stands for
several parts, each defined and explained where it is.

| Run | Instance and bounds | What it shows |
|---|---|---|
| `playlist` (`MCPlaylist`) | scene "edits": four items of three songs, one with a duration limit, one of unknown length, times up to `Horizon = 2`; scene "party": two files of one recording and a song that is not in the library, two filters, a template of both, `MaxRows = 2` | `RowsStayWhole`: dragged rows arrive together and in order, no edit doubles or loses an item; `EditsKeepCurrent`; `DueTimesAddUp`; `HistoryNotRewritten`; `PartyGoesOn`: quick play starts the song picked first, the index stays with the track that plays, and with something to append the music goes on |
| `player` (`MCPlayer`) | scene "player": three item objects, two in the list; one fails to decode, two have a duration limit; two tempos; the user acts while fewer than two events are queued; with `pauses` every operation but edits and the end, without them edits and the end but no pauses; scene "buffer": announced lengths 2 and 4, real lengths 0, 3 and 5, skip-starts 0, 1 and 3, a file that may fail in any way, two seeks, reads and writes of one or two units, reads that begin up to two units behind the data | `OnlyFailingUnplayable`, `FadeOutFades` in both; without pauses `HeardIsCurrent`, `SilentWhenStopped`, `StartsOneByOne`, and `WaitsEnd`: every fade-out, start and shutdown comes to its end. `AccessesAreRight`: the skip-start is applied, the destructor outlasts the decoder, and no read begins or ends behind the data, with any seeks between reads, and again after a seek that crossed one as soon as there is one that does not; `ThreadsEnd`: both waits of the buffer end |
| `tasks` (`MCTaskListDialog`) | three executors, three tasks, two of which enqueue a successor; a stop at any time; the dialog opened and closed at any time | `TasksSettled`: no task is lost, run twice or left; `WorkConserving`: no executor sleeps over a task; `ListFollowsQueue`: the list and the queue come to agree; `TasksEnd`: every task is run unless the program ends, and `stopAll()` returns unless its wake-up came between an executor's check and its wait (section 6) |
| `library_tables` (`MCSongLibrary`) | two files, two hashes (with symmetry: no definition tells hashes apart), two song objects, one file waiting at the first start, one outside change of the disk, two ends of the program | `TablesAgree`: no file is lost between the tables, its hash is on its way, every row has shared data, the duplicates are the songs; `MemoryIsStored`: between slots the files with a row are those with a song, and what a scan found is stored |
| `filter_edits` (`MCFilterEditor`) | a filter of up to five nodes, two edits while the dialog is open, the end of the program at any moment | `TreeIntact`: what the dialog dereferences is there; `TableLoads`: whatever rows are left load as a tree, and after a whole save as what was edited; `EditsAreLocal`: an edit changes the filter's meaning by its node alone |
| `templates` (`MCTemplateStore`) | two templates and two filters at first, up to three of each, three changes, the end of the program between any two statements | `StoredAsListed`: what the dialogs show is what the next start shows; `ImplementsShelf`: the refinement to `TemplateShelf` |
| `database` (`MCDatabase`) | scene "upgrade": an empty file, databases of the versions 0, 1 and 7 with conflicting values of duplicates, two days, two ends at any moment; scene "library": as in `library_tables`, with one hash and one end | `UpgradeKeeps`: what the user entered is there after every script; `BackupsComplete`; `EveryUpgradeCompletes`; `EveryNewFileSettles`: every new file is hashed or fails |
| `exchange` (`MCVoteServer`) | scene "imports": two libraries whose clocks are a day apart, three days, two imports in any direction; scene "pages": one page with two connections, two songs, a vote, one loss, two stops of the server or the program | `HistoriesMerged`: an import brings each row once; `RatingsAreOfVotes`: a rating is an average of votes on its own question in its own library and forgets none that it counted, whatever is imported; `DatesCarryOver`; `PagesFollow`: a page shows the songs in order, each once, and every song reaches it |
| `windows` (`MCClassroomWindow`) | three files, two of one hash, four actions of the user, the player or the library; closings, answers, the messages of the properties dialog, scans and timer ticks are free; a file may be impossible to write, to back up or to delete | `TableFollowsLibrary`, `FieldsOfSelectedRow`, `RemovesTheChosen`: rows, fields and questions stay with the songs they are about while lists change under them, and no song or file goes that was not asked about; `EditsTakeEffect`: what is typed is applied in the end |
| `controllers` (`MCDJControllers`) | up to three devices, one unplugged, one late answer; or two devices with two inputs; both kinds of system | `ControllersFound`, `PairsMatch`, `KeysHandledOnce`, `LedsLit` |
| `buffer_assertion` (`MCPlaybackBuffer`) | the buffer alone, one file, one seek | violated: `ReadAssertionHolds`, the assertion at the beginning of `read()` |
| `ratings` (`MCVoteServer`) | as `exchange` | violated: `ImportUpdatesRatings`, the comment "Update the aggregated ratings" of the import |

Pure algorithms are checked by named assumptions of the MC modules, which TLC evaluates before the
run: in `MCPlaylist` the weights of the random pick (`EverySongHasAChance`) and playlist files
(`PlaylistFilesCarryOver`); in `MCSongLibrary` file names and tags (`PlainNamesAreKept`,
`NamesTellGenreAndTempo`, `FoldersComeFirst`, `TemposAreAdjusted`, `WrittenTagsAreScanned`,
`WarningsAreAnswered`); in `MCFilterEditor` the files of tags (`TagsCarryOver`, `TemposStayClose`,
`TagsSettle`, `LastElementCounts`); in `MCTemplateStore` the files of templates
(`TemplatesCarryOver`, `OnlyBrokenItemsAreLost`).

Why the bounds are enough:

* *Lists.* Four items give rows above, below and between with a gap, and both sides of the current
  item. The drag and time properties quantify over every drag and every update from every state, so
  `Horizon` only bounds which times the items have before. `MaxItems` also bounds the index, which
  runs away (section 6).
* *Threads.* A lost or misdirected wake-up needs two sleepers and one task; the third executor takes
  the task in between. Two queued events of the output thread suffice for a pause and a resume, or a
  start and a pause. The buffer's lengths lie on both sides of each other and of the skip-starts:
  shorter and longer than announced, empty, and skipped whole. A read that begins further behind the
  data than `MaxOverrun` differs from one nearer by nothing the properties look at.
* *Library.* Two objects are enough for a removed song that a scan keeps and its re-added
  successor, or for two files of one hash; two ends for one in a half-done slot and one in the work
  that the next start has queued again. `ObjectToSpare` and the first guard of `Restart` keep the
  number of song objects in bounds; nothing of the code waits for them. `mixedUp` collects the file
  names that the deviations of section 6 are about; `StoredAsShown` and `ScansSaved` leave them out
  until the next start.
* *Trees and templates.* Five nodes give a combination inside a combination next to a leaf, which is
  what lifting a single child through a replaced ancestor takes. Three changes are an edit, a removal
  and a re-ordering, with an end in any of their saves.
* *Upgrade.* The scripts differ in which tables they touch; 0, 1 and 7 begin before the metadata are
  split, before the files are tagged, and before the duplicates' values are merged, and pass through
  every later script.
* *Exchange.* Three days hold an event on each side and one after an import; two imports go forth and
  back, or twice the same way. Two connections let one answer overtake another.
* *Windows.* Four steps open a dialog, edit or select, and change the library while a question or a
  message waits.
* *Controllers.* A come-and-go between two scans needs one of each; wrong pairs need two devices and
  a late answer; `MCBounds` keeps these apart from the inputs, whose effects do not depend on them.

`CHECK_DEADLOCK FALSE` is used where the system really stops or the bounded part is over: tasks are
finitely many objects and the executors then sleep, or the program has ended (`player`, `tasks`), the
buffer is destroyed or played to its end, the upgrade is done and the days are over, the library has
come to its last bounded restart, the two
libraries to their last day, and the windows and controllers to their last input, or to a `fault`: a
state from which the behaviour of the program is undefined, for which no property claims anything.
`playlist`, `filter_edits` and `templates` check for deadlock.

## 4. Fairness

* `Player!Fairness`: the event loops of both threads go on serving what is queued and completing
  what was begun, decoding ends (with data or an error), and the source of every track runs out of
  data. Nothing makes the user act, nor the duration limit strike.
* `BackgroundTasks!Fairness`: the scheduler runs every executor, and the main thread completes what
  it has begun (`SignalTask`, `WakeAll`, `AbortRest`); `execute()` returns. Nobody must add tasks or
  stop.
* `PlaybackBuffer!BufferFairness`: the decoder goes on and the output thread completes what it has begun.
  Nobody must read, seek or destroy.
* `SongLibrary!Fairness`: the hash and scan tasks are run (which `TasksEnd` shows of the background
  tasks), a slot that has begun ends, and the event loop serves the posted signals. The latter is
  strong fairness of `Serve`: the user's actions make the main thread busy and idle again, but each
  of them ends in the event loop, which takes the posted signals in turn.
* `DatabaseUpgrade!UpgradeFairness`: days go by and the program is started again, and each script that
  begins goes on unless the program ends.
* `VoteServer!Fairness`: the page's interval timer goes off again and again, and a request that is
  on its way is handled, answered or refused. Losses and stops are not fair, and bounded.
* `ClassroomWindow!Spec`: the timers of both windows tick, in the event loops of modal dialogs too.

`MCFairness` of `MCPlayer` and `MCDatabase` is these, each in the scene of its model, as it says nothing of
a model that a behaviour leaves aside.

The rest is weak fairness: the scheduler runs every runnable thread. A mutex is free again after
finitely many steps of its holder in these models, and weak fairness of the whole executor
(rather than of each of its actions) is what a scheduler gives. `Playlist`, `Party`, `FilterEditor`,
`TemplateStore`, `LibraryExchange` and `DJControllers` assume no fairness; their properties are
about safety alone.

## 5. The proofs

Checked by `tlapm` for every value of the constants that satisfies the modules' named assumptions,
which TLC evaluates on the instances of section 3. Each theorem rests on an inductive invariant; what
is named here in parentheses are its parts, each explained where it is defined. TLC checked every
invariant on the instance of the run before it was proved.

* `PlaylistProofs`: `RowsAlwaysWhole`, `EditsNeverMoveCurrent`, `HistoryNeverRewritten`,
  `DueTimesAlwaysAddUp`, the four properties of the run, for playlists of any length. The invariant
  (`ListsAreWhole`) is that no item is in the list twice and that an item has both its times or none.
  A drag is a loop of moves, each of which changes what the dragged rows and the destination mean; what
  it does not change is which items are to come before which at the end (`DropOneKeepsOrder`), and with
  no row left to move that is the order of the list. The due times need that the recursive function of
  `updateItemsStartEndTimes()` exists (`RecursionExists`) and is the sum of the durations.
  `EditsKeepCurrent` leaves out the move from above to just below the current item (section 6).
* `PlaylistProofs`, the party: `PartyAlwaysGoesOn`, for any library, templates, filters, taggings and
  files. The operators that pick songs return rows of the library, and at least one if one of the
  template's items matches anything (`PickedRows`); insertions and removals move the index exactly as far
  as the current row (`PickedAreInserted`, `LoadedAreInserted`, `TrackIsLeft`). `IndexFollowsTrack` alone
  is not inductive: the index is to be that of the track from when the track is asked for
  (`IndexAtTrack`), as a row may be inserted above it before it starts.
* `PlayerProofs`, any user: `TypeCorrect`, `SourceAlwaysHasTrack`, `OnlyFailingMarked`,
  `FadeOutsFade`. The invariant says who may write the current track when: from `startPlaying()` to
  the state change of the started device only the output thread does, and while it waits in
  `invalidCurrentTrack()` the current track is the one that failed. It is needed because
  `HasSource => curTrack # NoItem` alone is not kept by the installation of a source, which does not
  look at the current track.
* `PlayerProofs`, without pauses: `OnlyCurrentIsHeard`, `StoppedMeansSilent`, `TracksStartOneByOne`,
  `NeverAbandonedIdle`. The invariant `UseInv` adds to the former that at most one track is anywhere
  between the request and the source (`Alone`): in the main thread, in the queue or in the output
  thread (`OneRequest`), and what the states of player and device then are (`StateTells`,
  `SourceIsHeard`). Pauses are left out because they break it (section 6).
* `BackgroundTasksProofs`: `EveryTaskHasOneFate`, `StopAllSettles` and, of both, `TasksAreSettled`.
  The invariant ties `execTask[e]` to `execPc[e]` and says that what has been added is in exactly one
  place; `Fresh` is what makes additions keep it. `NoTaskWaitsInVain` counts: while someone
  waits, no more tasks are queued than executors are awake or have yet to wake one, and who is about to
  wait has found the queue empty (`CheckedEmpty`). The counts are cardinalities, for which the executors
  are assumed to be finitely many.
* `BackgroundTasksProofs`, the dialog: `ListFollowsTheQueue`. Whoever is in the queue is shown, about to be
  shown or about to be announced (`QueuedKnown`); a task of the main thread is in one of these places only
  and once (`OneItem`), and when it has been executed its removal is on its way (`ListedIsAlive`).
* `PlayerProofs`, the buffer: `DestructorOutlastsDecoder`, `ReadsAreInside`, and until the first seek
  `SkipStartIsApplied`; `AccessesAlwaysRight` is these with the types, the property of the run.
  `BaseInv` holds with any seeks. `PermitFromDone` in it ties the semaphore to the decoder: there is a
  permit only when the decoder has made its last access, whichever way it ended. `Inside` says of a read under
  way that its position and what it has still to add stay in the data; only a seek that crosses the read
  breaks it, and the next one that does not restores it. `Unsought` holds until the first seek: nothing is
  read before the duration is known, so that the decoder's only write to the read position, in
  `setDuration()`, never meets a read; and an early seek waits in `mReadPosInit`.
* `DatabaseProofs`, the library: `TypeCorrect`, `NoFileIsLost`, `EveryHashHasData`,
  `DuplicatesCorrect`, `NewFilesAreUnderWay`, and `TablesAlwaysAgree`, the property of the run;
  `MemoryAlwaysStored`. The invariant `Alive` says that a song in the library, or referred to by a
  scan task or its signal, has not been destroyed; without it even the types fail, as saving a
  destroyed song would touch no row. `DataInv` extends `RowsHaveData` to removed songs that are still
  saved and to the hash in the slot under way. `MemoryIsStored` is about the moments between
  slots; `Mirror` says what of it holds inside them.
* `DatabaseProofs`, the start of the program: `BackupsAreComplete`, from any database of any version.
  A copy for an upgrade is taken after the first query, which rolls back what a former end has left
  (`RolledBack`), it is of the version in its name (`CopiesAreNamed`), and the upgrade does not get past
  it without one (`CopiedFirst`). `VersionsRise`: a file that has the original's version is the original.
* `DatabaseProofs`, the filter editor: `FilterTreeStaysIntact`, `FilterTableAlwaysLoads` and
  `EditsStayLocal`, for any comparisons, songs and bounds, and trees of any shape. The invariant
  `FilterInv` is stronger than the properties: the nodes are a `Tree`, numbered in the order in which they
  are saved (`NumberedTo`: each parent before its children, and whole subtrees one after another), and the
  rows inserted together with those still to be are that tree's. So a prefix of the rows, left by an end
  of the program, has the parents of its rows (`RowsPrefix`), and what is loaded from it is numbered
  likewise (`LoadedNumbered`). An edit works on nodes with their old numbers, where a tree is known by
  a rank that rises from parent to child (`Linked`); the ranks, of which a proof may choose any, are what
  makes the recursive functions `PreOrder` and `IsSatisfiedBy` exist. One lemma per operation of
  `Filter::Node` says what becomes of the ranks and of the children's lists, and `Arranged` what is needed
  of the order of saving to number the result anew (`ReferencedTree`). For `EditsStayLocal` each of these
  lemmas has a companion on what the nodes mean: covering a node by a new combinator, adding a leaf that is
  neutral under its combinator, taking a single child into its parent's place and the new numbers leave
  the value of every other node as it was (`CoverMeans`, `LeafMeans`, `LiftInnerMeans`,
  `ReferencedMeans`). A removal is a loop; that it ends with a tree needs that at most one combinator, the
  one looked at next, is short of children (`LostOne`). It is assumed that lengths are not negative
  (`LibraryAssumption`), as they are measured; the new comparisons would not be neutral otherwise.

* `VoteServerProofs`: `RatingsAlwaysOfVotes` and `DatesAlwaysCarryOver` about the exchange, for any
  number of libraries, days and imports. `DatesAlwaysCarryOver` assumes `ClocksAgree`: no two clocks are more than a
  day apart, as in the run; with two days the code divides by zero (section 6). `RatingsAlwaysOfVotes` rests on
  `RatingsAsCast`, which is sharper: the votes counted are exactly those that were there when the song was last
  voted on, as a table only grows at its end and no import changes a rating. The property does not ask for
  the latter, so that it would hold of an import that did. `DatesAlwaysCarryOver` needs that no date is
  later than every clock's tomorrow, and that no import makes one (`SongsDated`).
  `PagesAlwaysShowTheHistory`: every answer on its way is a piece of the history that begins at or before
  the end of what its page shows, so that its songs are appended once, in any order of the answers.
  `HistoriesAlwaysMerged`, for tables of any length: what a merge inserts is told by how often each moment
  occurs. The recursive function of the merge unfolds from the ends of the two tables
  (`MissingUnfolds`), so that a row is missing as often as it is in excess in the other one
  (`MissingCounts`); sorting keeps the counts. A table itself need not be in the order of time, as the merge
  sorts it first; that its rows have times (`TablesTimed`) is what the invariant adds.
  `ServerUsesTheLibrary`: every step of the server is one of the library's or leaves it alone.
* `DJControllersProofs`: `TypeCorrect`, and the four properties of the run for any number of devices.
  `PairsAlwaysMatch`: until an answer is late nobody but the device being asked has yet to answer
  (`AnswersAwaited`), and a device known by its name is not listened to. `LedsAlwaysLit` follows from
  `LedsLit` itself and the pairs. `KeysAlwaysHandledOnce`: no two controllers have the same port
  (`NoTwins`), since the one being asked is free until it answers (`AskedIsFree`), and each input is
  counted in whichever queue it is (`KeysCounted`). `ControllersAlwaysFound`: each device asked so far
  has a controller or has yet to answer (`AskedSoFar`), a scan asks all of them in the order of their
  ports, and the counts tell when a device has come or gone (`CountedSince`).

* `TemplateStoreProofs`: `TemplatesAlwaysStored`, and `StoreKeepsTheShelf`, the refinement of
  `TemplateShelf`; for any templates, filters, contents and bounds. The invariant looks ahead:
  `Writes` says that the statements a slot has yet to execute lead, one after another and none of them
  refused, from the tables as they are to tables that hold what the lists show (`Stored`), and that on
  this way each template has its former items or the first few of its new ones, all of them filters that
  are there (`Midway`). A statement executed shortens the way, a start finds a state on it, and what is
  left to prove is one lemma per slot about the statements it leaves (`...Runs`, `...Keeps`).
  `StoredAsListed` is the end of the way; for its order, the rows as the next start lists them are those
  of the list (`OrderIsKept`), which needs that a listing of a table by position and RowID exists
  (`ListedRows`) and follows the numbers (`ListedAsNumbered`). The refinement takes `Midway` to the shelf's `Remains`. TLC checked the
  invariant with the way computed instead of quantified over.

* `ClassroomProofs`: `WindowsAgree`, the invariant, and from it `TableAlwaysFollows`,
  `FieldsAlwaysOfRow` and `OnlyChosenRemoved`, for any files, tags and number of steps. The lists change
  one element at a time, in loops that look a row up again after each change. `Agree` relates the table to
  the library after every such step and not only at the end of a slot, `DialogRight` the rows of the
  dialog to its fields (the current row's file is the one shown, unless the deletion of a row has lost it)
  and to the library, and `AskedRight` says that the songs asked about are still there and that the dialog
  which asked has not changed meanwhile. The same is said of the dialog while a message of `applyAndClose()`
  is over it (`MessageOver`), as what it goes on to save are the songs of its vector. Every other step leaves
  the songs and their files where they are (`SongsStay`). A loop and the nested calls of the dialog keep what each step of
  them keeps (`LoopStays`, `CallsKeep`). The attempt to prove it corrected the model: a song listed under
  "without ID3 tag", whose tag is then written, may by a scan that is late come to store the former one
  again, so that what the table shows of it is right only until a scan stores it (`written` in
  `ScanStores`). The bound of the run was too small for that.

Induction. The library's induction theorems take an operator and cannot be used here. Where a fact needs
induction over numbers, the set of the numbers for which it fails has a least element (from
`WFMin` of the library), which is a contradiction (`RangeInduction` in `PlaylistProofs`, the merges of
`VoteServerProofs`, the counting in `DJControllersProofs`, the lists of statements in
`TemplateStoreProofs`, the loops in `ClassroomProofs`). The same argument on the ranks of a tree is the
induction over trees of the filter editor (`TreeInduction`). Operators that were recursive in the
modules proved about are recursive functions.

Only model-checked, and why:

* Liveness (`WaitsEnd`, `TasksEnd`, `ThreadsEnd`, `EveryNewFileSettles`,
  `EveryUpgradeCompletes`, `SongsReachPages`, `EditsTakeEffect`): it needs `ENABLED`.
* `UpgradeKeeps`: the scripts' joins and groupings keep what the user entered in the databases of the
  run; it is no theorem for arbitrary ones, as the script to version 2 keeps manual values only of
  recordings that have a file.
* The pure algorithms of section 3 (`SongNames`, `TagFiles`, `TemplateFiles`, playlist files).

## 6. Deviations seen while modelling

What the code does where a comment, an assertion or the user might expect something else. The models
do what the code does. Two of these are findings, stated as properties that their runs violate:

* `buffer_assertion`: `read()` asserts that its position is not behind the data
  (`Audio/PlaybackBuffer.cpp:161`). `seekTo()` assigns the position without the mutex (`:137`); between the
  computation of how much is read (`:164`) and `mReadPos += numBytesToRead` (`:166`) it is advanced from
  the new place by the amount that was left at the old one. The next read fails the assertion; without
  it, the number of bytes left wraps around and the copy is from behind the buffer.
* `ratings`: the import says "Update the aggregated ratings" (`DB/DatabaseImport.cpp:130`). The averages it
  computes have no date, so `updateIfNewer()` (`:136`) keeps the ones that are there, and for songs
  without any, the votes on the rhythm clarity are averaged for all three questions (`:137`).

For the others no property is stated, and the conditions named in the properties leave them out. Line
numbers are where each begins.

**Playlist.**
* `moveItem()` compares with the already decremented target (`Playlist.cpp:84`), so an item dragged
  from above the current one to just below it makes another item the current one, against the
  comment above it. `EditsKeepCurrent` leaves this one move out.
* `deleteItem()` of the last item while it is current leaves the index past the end (`:125`, asserted
  otherwise at `:156`), and insertions carry it further. Quick play or loading a file into an empty
  playlist does the same (`:277`): `isAtEnd()` is then false and nothing is appended.
* `removeSong()` does not adjust the index at all (`:381`). `drifted` in `Party` is about these.
* Rows dropped at the top of one of themselves come out in another order: the re-indexing leaves
  out a row equal to the destination (`UI/PlaylistItemModel.cpp:184`).
* A song of unknown length counts as -1 second (`PlaylistItemSong.cpp:50`): it ends before it starts.

**Player.**
* A stop, a jump or a skip during the preparation of a track is overwritten by
  `mState = psPlaying` (`Audio/Player.cpp:824`, against `Audio/Player.hpp:89`): a stopped player
  plays, or the current item is one track and the sound another. With pauses this breaks
  `SourceIsOfCurrentTrack`, `StoppedIsSilent` and `OneStartAtATime`, which are therefore checked
  without them.
* A tempo set between the building and the installing of a source is not applied to it (`:817`).
* Two quick pauses and resumes leave `psPaused` over a playing device (`:707`).
* The duration limit and the user may both start a fade-out (assertion at `:157`).
* A track that fails between `emit startingPlayback` and the assignment of `psStartingPlayback`,
  with no track after it, leaves that state for ever (`:491`).
* `nextTrack()` moves the current item of a stopped player (against `Audio/Player.hpp:180`).
* The destructor waits for the output thread, which may be in a blocking call to the main thread;
  after five seconds the thread is abandoned (`:103`, asserted otherwise at `:105`).
* `setVolume()` uses the output thread's device, which is null until `run()` has created it (`:287`);
  `AudioFadeOut` shares its counters between two threads (`Audio/AudioEffects.cpp:23`).

**Background tasks.**
* `stopAll()` wakes the executors without the mutex (`BackgroundTasks.cpp:132`); between one's check
  of the flag and its wait the wake-up is lost, and `stopAll()` waits for it for ever, against
  `BackgroundTasks.hpp:59`. `TasksEnd` shows that this is the only way to hang.
* An executor that was woken starts a task after `stopAll()` has been called (`:161`).
* A tempo detection that is in the queue and whose signal is still posted when the task list opens
  is listed twice and removed once (`UI/Dlg/DlgBackgroundTaskList.cpp:28`); `FinishedTasksLeave`
  leaves the tasks that tasks enqueue out.
* The tempo detector picks its next song in an executor's thread (`BackgroundTempoDetector.cpp:47`)
  while the main thread changes the songs.

**Playback buffer.**
* The failure of the decoder comes between the check and the wait of `waitForData()`, which then
  waits for ever (`Audio/PlaybackBuffer.cpp:27`, against `Audio/AudioDataSource.hpp:55`); a file with a
  header and no audio, or a skip-start past the audio, does the same (`:107`, `:52`). `ThreadsEnd`
  leaves these out.
* A seek in the middle of a read: `buffer_assertion` above. In a file shorter than announced, reads go on
  into what was not decoded, up to the announced length (`:162`), and the remaining time becomes
  negative.
* `routeAudioTo()` may find no audio stream and returns `false`, which nobody looks at
  (`Audio/SongDecoder.cpp:58`): the file is read to its end, gives no audio and no error, and
  `waitForData()` waits for ever (`RouteFails`; with assertions the program ends, `Audio/AVPP.cpp:647`). If
  the codec cannot be opened, the frames are handed to a null context (`Audio/AVPP.cpp:575`); that end of
  the program is not modelled.

**Song library.**
* A renamed song is saved with an `UPDATE ... WHERE FileName = ?` of its new name, which has no row
  (`DB/Database.cpp:2210`, against `DB/Database.hpp:351`): nothing is saved, and the next start shows
  the song under its old name.
* A file that is added again before its hash has arrived is hashed twice and becomes two songs
  (`:281` searches the songs only, against `DB/Database.hpp:70`).
* A scan of a song that was removed and added again saves its tags to the row of the new song
  (`:2315`); a scan that read the file before the user wrote a tag brings the old tag back.
* `songScanned()` saves without `songSaved` (`:2315`), so a filtered or sorted table is stale after it.
* `removeInaccessibleSongs()` invokes `removeSong` with arguments that no slot takes (`:1289`): it
  counts the songs and removes none. `loadSongFiles()` queues a row without a hash (`:1411`), which
  the schema no longer allows (`DB/DatabaseUpgrade.cpp:630`).
* A song last played "tomorrow", by another clock, has weight 0, and one two days ahead divides by
  zero (`:1946`); the penalty for songs already in the playlist is used by no caller.
* Adjusting a tempo twice changes it again for some genres and tempos; some tempos of VW and PD are
  warned of as too low although they are in range; titles may still contain a word of the genre,
  which another scan then takes out.

**Party and playlist files.**
* `replaceSong()` inserts an item of a null song when nothing matches (`UI/PlayerWindow.cpp:957`),
  and may pick the same recording under another name.
* Favourites changed in the classroom window reach the quick play list when the templates dialog has
  been closed.
* The two windows convert the DJ sliders differently (`int(100 v) - 50` and `int(100 v - 50)`).
* In a playlist file, the flags of a song that is not found go to the next entry; the fall-back to
  file names never matches, as the line break is kept; an older, longer file is not truncated;
  duplicates are loaded as the first file of their hash.

**Filters, templates and their files.**
* The filter of no node leaves out songs without a length (`Filter.hpp:104`); "[any] doesn't contain"
  holds as soon as one tag is empty.
* Positions in the tables follow removals only with the next save; `duplicateFilter()` refuses the last
  row and does not save the copy (`UI/Dlg/DlgManageFilters.cpp:365`); opening the templates dialog
  rewrites every template (`UI/Dlg/DlgTemplatesList.cpp:155`). `numbered` and `copies` are about these.
* `intToKind()` throws `std::runtime_error`, which the loader, expecting `RuntimeError`, does not
  catch. The match count of the filter's editor is refreshed only by some of its edits.
* In a template file a missing number counts as 0, a broken filter costs its item only, and a filter
  that the library does not know becomes two filters if it is there twice.
* Tag files round tempos to two digits (128 becomes 130), have the primary tag of a hash's first
  file only, and a later element of the same hash replaces the whole tag.

**Upgrade, import and votes.**
* A database without a version is upgraded without a backup; a daily backup may be of a file with an
  open transaction; a backup in the way refuses the start until the next day; `pragma
  check_foreign_keys` is no pragma.
* The ratings after an import: `ratings` above. Removals imported twice are there twice
  (`DB/DatabaseImport.cpp:245`); rows are told apart by their times alone, so that of two of one moment in
  different libraries only one is kept (`HistoriesMerged` counts by moments); cleared values come back
  (`DatedOptional.hpp:256`).
* Votes for hashes that the library does not know are stored. A page that is open over a restart of
  the program shows the old songs and misses the first new ones.

**Windows and dialogs.**
* Loops over selected rows go on with indices that rating, moving or copying a tag has made stale
  (`UI/Dlg/DlgSongs.cpp:280`, assertion at `:672`); the models say so with `fault`.
* `showSongs()` and `showSongProperties()` use an item of a list that may have been rebuilt under the
  dialog (`UI/ClassroomWindow.cpp:887`); the list is not refreshed when songs are removed.
* The counters of the classroom window are not initialised (`UI/ClassroomWindow.hpp:63`, `:89`), and its
  duration limit overrides that of the filter. A limit that is still pending is applied to whichever track is
  the current one by then, and over a later limit of the player window (`UI/ClassroomWindow.cpp:638`).
* A file that cannot be deleted stays on the disk while its song goes, and only the log is told
  (`DB/Database.cpp:377`).
* `applyAndClose()` waits in up to three kinds of messages (`UI/Dlg/DlgSongProperties.cpp:354`, `:381`,
  `:407`) while scans, timers and the library go on, and then goes on with its vector. When a
  backup cannot be made, the message says that the changes are lost (`:386`), but the dialog stays open with
  them; those of the files before have been written.
* Deleting a duplicate from the disk leaves the fields of the song that is gone
  (`UI/Dlg/DlgSongProperties.cpp:683`; `rowLost`). A tag is stored in the database even if writing it
  to the file failed (`:330`), and a file that was restored keeps its new tag in memory (`:396`).
* Filters by duplicates or by genre are stale when another file of the hash changes.

**DJ controllers.**
* A message of three bytes before the first OUT port is asked dereferences a null pointer
  (`Controller/MidiEnumerator.cpp:268`); a late answer is paired with the port that is being asked,
  perhaps not opened, and then lighting its LED does the same (`Controller/MidiPort.cpp:181`).
* The handler of an unplugged port erases its controller and then reports the one after it (`:418`);
  removing a controller that is not there erases past the end (`DJControllers.cpp:252`). `fault` is set
  where this is undefined.
* The removal of a controller with two ports is queued with a type that is not registered, and errors
  of OUT ports go to a thread without an event loop: neither arrives.
* Where ports can be shared, a new scan finds a controller again and its keys count twice. Counts are
  compared, not names (`:154`): one that comes while another goes is not noticed.
* A controller found before the player window exists stays dark until another is connected.

## 7. What is not modelled

* Widgets, layout, texts, colours; HTTP framing and SQL text; sample arithmetic and tempo detection
  (floating-point signal processing).
* In `Player`: positions, times, labels and the volume. In `PlaybackBuffer`: the effects on the
  samples. In `BackgroundTasks`: which song the tempo detector picks, and its `stop()`, which nothing
  calls.
* In `SongLibrary`: the lengths of songs and the tasks that measure them, and failing SQL statements
  (asserted not to happen).
* In `DJControllers`: the bytes of the messages, and the data races on `mControllers` and the lists of
  handlers, which are not guarded.
* The player composed with the playback buffer, and the party with the whole player: `Party` has of
  the player only what the playlist sees, and allows it to lose a request as `Player` does.
* `Audio/RingBuffer` is compiled and used by nothing. Dialogs that only list what the library holds,
  settings, configuration and logging have no state of their own worth checking.
* In `SongProperties`: a damaged file that cannot be removed, or its backup that cannot be renamed
  (`UI/Dlg/DlgSongProperties.cpp:399`, `:403`), after which the file is not the restored one.

The hazards of `PROJECT.json` are what the properties are aimed at, and not all of them are covered whole.
One is not covered at all: the tempo that is not applied to a source under construction
(`Audio/Player.cpp:817`) is a behaviour of the code for which nothing says otherwise. For others the model
has the case that the hazard is named for, the program does the wrong thing in it, and the property
leaves it out, so that it shows that nothing else goes wrong; the hazard's `note` says so:

* whole: the late state changes of quick pauses (`Audio/Player.cpp:707`), the move to just below the
  current item (`Playlist.cpp:84`), the removal of a song at or above it (`Playlist.cpp:381`), the use of a stale
  row's index (`UI/Dlg/DlgSongs.cpp:280`);
* in part: the request overwritten at the end of a preparation (`Audio/Player.cpp:824`), two fade-outs at
  once (`:774`), the lost wake-up of `stopAll()` (`BackgroundTasks.cpp:132`), the song removed and added again
  during its scan (`DB/Database.cpp:2315`), clocks two days apart (`:1946`), the limits of two windows
  (`UI/ClassroomWindow.cpp:638`), late answers of devices (`Controller/MidiEnumerator.cpp:305`).

The assertion that a seek in the middle of a read breaks, and the ratings that an import does not update,
are such cases too; each is stated as a property of its own, which its run violates.

## 8. Plan

1. Models: the lengths of songs and their tasks, the tempo detector's choice of songs, the volume and
   the counters of the fade-out.
2. Compositions: the player with the playback buffer; an abstract player (one sound at a time) and
   abstract tasks (each run at most once), implemented by the modules here.
3. Findings: the cases of section 7 that a property leaves out and for which a comment or an assertion
   says what should happen, each as a property that its run violates.
