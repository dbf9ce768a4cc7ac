----------------------------- MODULE SongLibrary -----------------------------
(***************************************************************************)
(* The song library (src/src/DB/Database.cpp) and the background tasks     *)
(* that fill it in (LengthHashCalculator.cpp, MetadataScanner.cpp).        *)
(*                                                                         *)
(* A file that is added waits in the table NewFiles until a task has       *)
(* calculated the hash of its audio; then it moves to the table SongFiles, *)
(* a song object is made for it, and another task scans its tags.  Songs   *)
(* with equal hashes share data, in the table SongSharedData.  The tables  *)
(* survive the end of the program, whenever it comes; the objects, the     *)
(* tasks and the signals on their way do not.                              *)
(*                                                                         *)
(* The library runs in the main thread, one slot after another; the tasks  *)
(* read the disk and the songs meanwhile.  A slot is cut where the program *)
(* may end between two of its effects that a restart tells apart.          *)
(***************************************************************************)
EXTENDS Naturals, Sequences, FiniteSets, SequencesExt

CONSTANTS
  Files,        \* the file names
  Hashes,       \* the hashes of the audio data
  Songs,        \* the song objects, which bound how many there are at a time
  NoFile,       \* no such file on the disk, or no such object
  NoHash,       \* a file whose audio cannot be read, or the hash of no object
  NoRow,        \* no row in SongFiles
  WaitingFiles, \* the new files of the first start, which an upgrade of the database may leave
  MaxChanges,   \* bound: changes of the disk by other programs
  MaxRestarts   \* bound: ends of the program

ASSUME SongLibraryAssumption ==
  /\ NoFile \notin Files
  /\ NoHash \notin Hashes
  /\ NoFile \notin Hashes \cup {NoHash}
  /\ NoRow \notin Hashes
  /\ WaitingFiles \subseteq Files
  /\ MaxChanges \in Nat
  /\ MaxRestarts \in Nat

VARIABLES
  disk,         \* the audio of each file, as its hash
  newFiles,     \* the table NewFiles
  songFiles,    \* the hash in each file's row of the table SongFiles
  taggedRows,   \* the rows of SongFiles with the tags filled in
  sharedRows,   \* the table SongSharedData, and mSongSharedData, which mirrors it
  songs,        \* mSongs
  fileOf,       \* mFileName of each song object
  hashOf,       \* the hash of each song object's shared data
  tagged,       \* the song objects with their tags scanned
  duplicates,   \* mDuplicates of each hash's shared data
  hashTasks,    \* the number of hash tasks of each file that have yet to read it
  scanTasks,    \* the songs with a tag scan that has yet to run
  events,       \* the signals of the tasks on their way to the library
  handling,     \* the slot the main thread is in the middle of
  changes,      \* how often another program has changed the disk
  restarts,     \* how often the program has ended
  known,        \* history: files added, and not removed, renamed or failed since
  mixedUp       \* history: file names that two songs were saved under, or renamed, in this run

tables == <<newFiles, songFiles, taggedRows, sharedRows>>
objects == <<songs, fileOf, hashOf, tagged, duplicates>>
tasks == <<hashTasks, scanTasks>>
history == <<known, mixedUp>>
counters == <<changes, restarts>>
vars == <<disk, tables, objects, tasks, events, handling, history, counters>>

Events ==
       [type : {"hashed"}, file : Files, hash : Hashes]
  \cup [type : {"failed"}, file : Files]
  \cup [type : {"scanned"}, song : Songs]

TypeOK ==
  /\ disk \in [Files -> Hashes \cup {NoHash, NoFile}]
  /\ newFiles \subseteq Files
  /\ songFiles \in [Files -> Hashes \cup {NoRow}]
  /\ taggedRows \subseteq Files
  /\ sharedRows \subseteq Hashes
  /\ songs \subseteq Songs
  /\ fileOf \in [Songs -> Files \cup {NoFile}]
  /\ hashOf \in [Songs -> Hashes \cup {NoHash}]
  /\ tagged \subseteq Songs
  /\ duplicates \in [Hashes -> SUBSET Songs]
  /\ hashTasks \in [Files -> Nat]
  /\ scanTasks \subseteq Songs
  /\ events \in Seq(Events)
  /\ handling \in {<<>>} \cup ({"hashed"} \X Files \X Hashes) \cup ({"rename"} \X Songs \X Files)
  /\ changes \in 0..MaxChanges
  /\ restarts \in 0..MaxRestarts
  /\ known \subseteq Files
  /\ mixedUp \subseteq Files

Idle == handling = <<>>

Count(condition) == IF condition THEN 1 ELSE 0

(* The first start. *)
Init ==
  /\ disk \in [Files -> Hashes]
  /\ newFiles = WaitingFiles
  /\ songFiles = [f \in Files |-> NoRow]
  /\ taggedRows = {}
  /\ sharedRows = {}
  /\ songs = {}
  /\ fileOf = [s \in Songs |-> NoFile]
  /\ hashOf = [s \in Songs |-> NoHash]
  /\ tagged = {}
  /\ duplicates = [h \in Hashes |-> {}]
  /\ hashTasks = [f \in Files |-> Count(f \in WaitingFiles)]
  /\ scanTasks = {}
  /\ events = <<>>
  /\ handling = <<>>
  /\ changes = 0
  /\ restarts = 0
  /\ known = WaitingFiles
  /\ mixedUp = {}

-----------------------------------------------------------------------------
(* Song objects. *)

Free == {s \in Songs : fileOf[s] = NoFile}

Named(f) == {s \in songs : fileOf[s] = f}

ScannedEvent(s) == [type |-> "scanned", song |-> s]

(* A scan task, or its signal, holds a reference to the song. *)
Referenced(s, evs) == s \in scanTasks \/ \E k \in DOMAIN evs : evs[k] = ScannedEvent(s)

(* ~Song(), when the last reference is gone. *)
Destroy(s) ==
  /\ fileOf' = [fileOf EXCEPT ![s] = NoFile]
  /\ hashOf' = [hashOf EXCEPT ![s] = NoHash]
  /\ tagged' = tagged \ {s}

(* Mutant: the tags are left out of the update. *)
SaveOnlyHash(s, f) ==
  /\ songFiles' = IF songFiles[f] = NoRow THEN songFiles ELSE [songFiles EXCEPT ![f] = hashOf[s]]
  /\ UNCHANGED taggedRows

(* saveSongFileData() of a song named f: an UPDATE, which a missing row makes a no-op. *)
SaveSongFileData(s, f) ==
  IF songFiles[f] = NoRow
  THEN UNCHANGED <<songFiles, taggedRows>>
  ELSE /\ songFiles' = [songFiles EXCEPT ![f] = hashOf[s]]
       /\ taggedRows' = IF s \in tagged THEN taggedRows \cup {f} ELSE taggedRows \ {f}

-----------------------------------------------------------------------------
(* What the user does. *)

(* Bound: more song objects are left than hashes under way. *)
ObjectToSpare ==
  Cardinality(Free) >
    FoldFunction(+, 0, hashTasks) + Len(SelectSeq(events, LAMBDA ev : ev.type # "scanned"))

(* addSongFile(): only the songs are searched for the name, not the new files. *)
AddSongFile(f) ==
  /\ Idle
  /\ disk[f] # NoFile
  /\ Named(f) = {}
  /\ ObjectToSpare
  /\ newFiles' = newFiles \cup {f}
  /\ hashTasks' = [hashTasks EXCEPT ![f] = @ + 1]
  /\ known' = known \cup {f}
  /\ UNCHANGED <<disk, songFiles, taggedRows, sharedRows, objects, scanTasks, events, handling, mixedUp, counters>>

(* removeSong().  If the program ends before it deletes the file, or the   *)
(* file cannot be deleted, the song goes without its file: deleteDiskFile  *)
(* is then FALSE here.                                                     *)
RemoveSong(s, deleteDiskFile) ==
  /\ Idle
  /\ s \in songs
  /\ songs' = songs \ {s}
  /\ duplicates' = [duplicates EXCEPT ![hashOf[s]] = @ \ {s}]
  /\ IF Referenced(s, events) THEN UNCHANGED <<fileOf, hashOf, tagged>> ELSE Destroy(s)
  /\ songFiles' = [songFiles EXCEPT ![fileOf[s]] = NoRow]
  /\ taggedRows' = taggedRows \ {fileOf[s]}
  /\ disk' = IF deleteDiskFile THEN [disk EXCEPT ![fileOf[s]] = NoFile] ELSE disk
  /\ known' = known \ {fileOf[s]}
  /\ UNCHANGED <<newFiles, sharedRows, tasks, events, handling, mixedUp, counters>>

(* saveSong(), after the user has edited the song. *)
SaveSong(s) ==
  /\ Idle
  /\ s \in songs
  /\ SaveSongFileData(s, fileOf[s])
  /\ UNCHANGED <<disk, newFiles, sharedRows, objects, tasks, events, handling, history, counters>>

(* rescanMetadata().  Bound: not while an earlier scan of the song is under way. *)
RescanSong(s) ==
  /\ Idle
  /\ s \in songs
  /\ ~Referenced(s, events)
  /\ scanTasks' = scanTasks \cup {s}
  /\ UNCHANGED <<disk, tables, objects, hashTasks, events, handling, history, counters>>

(* renameFile(), the file: refused if there is a file of the new name. *)
RenameFile(s, f) ==
  /\ Idle
  /\ s \in songs
  /\ disk[fileOf[s]] # NoFile
  /\ disk[f] = NoFile
  /\ disk' = [disk EXCEPT ![f] = disk[fileOf[s]], ![fileOf[s]] = NoFile]
  /\ handling' = <<"rename", s, f>>
  /\ UNCHANGED <<tables, objects, tasks, events, history, counters>>

(* The rest of renameFile(), the song, and the saveSong() that follows. *)
FinishRename ==
  \E s \in Songs, f \in Files :
    /\ handling = <<"rename", s, f>>
    /\ fileOf' = [fileOf EXCEPT ![s] = f]
    /\ SaveSongFileData(s, f)
    /\ handling' = <<>>
    /\ known' = known \ {fileOf[s]}
    /\ mixedUp' = mixedUp \cup {fileOf[s], f}
    /\ UNCHANGED <<disk, newFiles, sharedRows, songs, hashOf, tagged, duplicates, tasks, events, counters>>

(* Another program removes, replaces or restores a file. *)
DiskChange(f) ==
  /\ changes < MaxChanges
  /\ changes' = changes + 1
  /\ \E content \in Hashes \cup {NoHash, NoFile} :
       disk[f] # content /\ disk' = [disk EXCEPT ![f] = content]
  /\ UNCHANGED <<tables, objects, tasks, events, handling, history, restarts>>

-----------------------------------------------------------------------------
(* The tasks. *)

(* queueHashFile()'s task. *)
RunHash(f) ==
  /\ hashTasks[f] > 0
  /\ hashTasks' = [hashTasks EXCEPT ![f] = @ - 1]
  /\ events' = Append(events,
                 IF disk[f] \in Hashes THEN [type |-> "hashed", file |-> f, hash |-> disk[f]]
                                       ELSE [type |-> "failed", file |-> f])
  /\ UNCHANGED <<disk, tables, objects, scanTasks, handling, history, counters>>

(* scanSong(): the tags are set in the task's thread, and the library is told to save them. *)
RunScan(s) ==
  /\ s \in scanTasks
  /\ scanTasks' = scanTasks \ {s}
  /\ \/ tagged' = tagged                                     \* no tag that the library knows
     \/ disk[fileOf[s]] # NoFile /\ tagged' = tagged \cup {s}
  /\ events' = Append(events, ScannedEvent(s))
  /\ UNCHANGED <<disk, tables, songs, fileOf, hashOf, duplicates, hashTasks, handling, history, counters>>

-----------------------------------------------------------------------------
(* The library's slots. *)

Delivered(type) ==
  /\ Idle
  /\ events # <<>>
  /\ Head(events).type = type
  /\ events' = Tail(events)

(* Mutant: the file leaves NewFiles outside of the transaction. *)
HashCalculatedEarly ==
  /\ Delivered("hashed")
  /\ LET ev == Head(events)
     IN  /\ sharedRows' = sharedRows \cup {ev.hash}
         /\ newFiles' = newFiles \ {ev.file}
         /\ handling' = <<"hashed", ev.file, ev.hash>>
  /\ UNCHANGED <<disk, songFiles, taggedRows, objects, tasks, history, counters>>

(* songHashCalculated(), until the shared data is there. *)
SongHashCalculated ==
  /\ Delivered("hashed")
  /\ LET ev == Head(events)
     IN  /\ sharedRows' = sharedRows \cup {ev.hash}
         /\ handling' = <<"hashed", ev.file, ev.hash>>
  /\ UNCHANGED <<disk, newFiles, songFiles, taggedRows, objects, tasks, history, counters>>

(* The rest of songHashCalculated(): the transaction, the song object, its tag scan. *)
MoveToSongFiles ==
  \E f \in Files, h \in Hashes : LET s == CHOOSE free \in Free : TRUE IN
    /\ handling = <<"hashed", f, h>>
    /\ Free # {}
    /\ newFiles' = newFiles \ {f}
    /\ songFiles' = IF songFiles[f] = NoRow THEN [songFiles EXCEPT ![f] = h] ELSE songFiles
    /\ songs' = songs \cup {s}
    /\ fileOf' = [fileOf EXCEPT ![s] = f]
    /\ hashOf' = [hashOf EXCEPT ![s] = h]
    /\ duplicates' = [duplicates EXCEPT ![h] = @ \cup {s}]
    /\ scanTasks' = scanTasks \cup {s}
    /\ handling' = <<>>
    /\ mixedUp' = IF Named(f) = {} THEN mixedUp ELSE mixedUp \cup {f}
    /\ UNCHANGED <<disk, taggedRows, sharedRows, tagged, hashTasks, events, known, counters>>

(* Mutant: a file that cannot be hashed stays among the new ones. *)
HashFailedKeepsFile ==
  /\ Delivered("failed")
  /\ UNCHANGED <<disk, tables, objects, tasks, handling, history, counters>>

SongHashFailed ==
  /\ Delivered("failed")
  /\ LET f == Head(events).file
     IN  /\ newFiles' = newFiles \ {f}
         /\ known' = IF songFiles[f] = NoRow THEN known \ {f} ELSE known
  /\ UNCHANGED <<disk, songFiles, taggedRows, sharedRows, objects, tasks, handling, mixedUp, counters>>

SongScanned ==
  /\ Delivered("scanned")
  /\ LET s == Head(events).song
     IN  /\ SaveSongFileData(s, fileOf[s])
         /\ IF s \in songs \/ Referenced(s, Tail(events))
            THEN UNCHANGED <<fileOf, hashOf, tagged>>
            ELSE Destroy(s)
         /\ mixedUp' = IF Named(fileOf[s]) \subseteq {s} THEN mixedUp ELSE mixedUp \cup {fileOf[s]}
  /\ UNCHANGED <<disk, newFiles, sharedRows, songs, duplicates, tasks, handling, known, counters>>

-----------------------------------------------------------------------------
(* The program ends, at any moment, and is started again: open() and loadSongs(). *)

(* The rows that loadSongFiles() makes songs of. *)
Loaded == {f \in Files : songFiles[f] \in sharedRows}

(* One new object for each of the given files. *)
OneObjectEach(S) ==
  {g \in [Songs -> S \cup {NoFile}] :
     /\ \A f \in S : \E s \in Songs : g[s] = f
     /\ \A s, t \in Songs : g[s] = g[t] => s = t \/ g[s] = NoFile}

(* The hash tasks of loadNewFiles(). *)
TasksOfTables == [f \in Files |-> Count(f \in newFiles)]

Restart ==
  /\ restarts < MaxRestarts
  /\ restarts' = restarts + 1
  /\ Cardinality(Loaded) + FoldFunction(+, 0, TasksOfTables) <= Cardinality(Songs)  \* bound, as above
  /\ OneObjectEach(Loaded) # {}
  /\ fileOf' = CHOOSE g \in OneObjectEach(Loaded) : TRUE
  /\ songs' = {s \in Songs : fileOf'[s] # NoFile}
  /\ hashOf' = [s \in Songs |-> IF s \in songs' THEN songFiles[fileOf'[s]] ELSE NoHash]
  /\ tagged' = {s \in songs' : fileOf'[s] \in taggedRows}
  /\ duplicates' = [h \in Hashes |-> {s \in songs' : hashOf'[s] = h}]
  /\ hashTasks' = TasksOfTables
  /\ scanTasks' = songs' \ tagged'
  /\ events' = <<>>
  /\ handling' = <<>>
  /\ mixedUp' = {}
  /\ UNCHANGED <<disk, tables, known, changes>>

User ==
  \/ \E f \in Files : AddSongFile(f)
  \/ \E s \in Songs, deleteDiskFile \in BOOLEAN : RemoveSong(s, deleteDiskFile)
  \/ \E s \in Songs : SaveSong(s) \/ RescanSong(s)
  \/ \E s \in Songs, f \in Files : RenameFile(s, f)

Finish == FinishRename \/ MoveToSongFiles

Serve == SongHashCalculated \/ SongHashFailed \/ SongScanned

Next ==
  \/ User
  \/ \E f \in Files : DiskChange(f)
  \/ \E f \in Files : RunHash(f)
  \/ \E s \in Songs : RunScan(s)
  \/ Finish
  \/ Serve
  \/ Restart

Spec == Init /\ [][Next]_vars

(***************************************************************************)
(* The tasks run and end, and a slot that has begun ends.  The event loop  *)
(* serves posted signals between the user's actions: however often the     *)
(* user makes it busy, it comes back to them.                              *)
(***************************************************************************)
Fairness ==
  /\ \A f \in Files : WF_vars(RunHash(f))
  /\ \A s \in Songs : WF_vars(RunScan(s))
  /\ WF_vars(Finish)
  /\ SF_vars(Serve)

FairSpec == Spec /\ Fairness
-----------------------------------------------------------------------------
(***************************************************************************)
(* No file is lost on its way from NewFiles to SongFiles, whenever the     *)
(* program ends: what was added, and not removed, renamed or failed since, *)
(* is in one of the tables (songHashCalculated() and its transaction).     *)
(***************************************************************************)
NothingLost == \A f \in known : f \in newFiles \/ songFiles[f] # NoRow

(***************************************************************************)
(* Every row of SongFiles has shared data, as its foreign key demands:     *)
(* loadSongFiles() leaves a song without it out.  So has every song, whose *)
(* shared data is going to be saved (saveSongSharedData() asserts it).     *)
(***************************************************************************)
RowsHaveData ==
  /\ \A f \in Files : songFiles[f] \in Hashes => songFiles[f] \in sharedRows
  /\ \A s \in songs : hashOf[s] \in sharedRows

(***************************************************************************)
(* While the program runs, the hash of every new file is on its way, so    *)
(* that no file waits for the next start.                                  *)
(***************************************************************************)
About(ev, f) == ev.type \in {"hashed", "failed"} /\ ev.file = f

NewFilesUnderWay ==
  \A f \in newFiles :
    \/ hashTasks[f] > 0
    \/ \E k \in DOMAIN events : About(events[k], f)
    \/ \E h \in Hashes : handling = <<"hashed", f, h>>

(***************************************************************************)
(* The shared data of a hash knows as its duplicates exactly the songs of  *)
(* the library that have this hash (songFromHash() returns one of them),   *)
(* also while a scan task keeps a removed song alive.                      *)
(***************************************************************************)
DuplicatesAreSongs ==
  \A h \in Hashes : duplicates[h] = {s \in songs : hashOf[s] = h}

(***************************************************************************)
(* Between the slots, the library shows what the next start would load: a  *)
(* file has a song if and only if it has a row.  This includes signals     *)
(* about songs removed, and added again, in the meantime.  The names that  *)
(* two songs have used or a rename has touched are left out.               *)
(***************************************************************************)
StoredAsShown ==
  Idle => \A f \in Files \ mixedUp : Named(f) # {} <=> songFiles[f] # NoRow

(***************************************************************************)
(* Database.cpp:2104, the four together: across two tables, the objects,   *)
(* the queue and the signals, and whenever the program ends, every file,   *)
(* hash and song is accounted for.                                         *)
(***************************************************************************)
TablesAgree == NothingLost /\ RowsHaveData /\ NewFilesUnderWay /\ DuplicatesAreSongs

(***************************************************************************)
(* A scan is saved: once its signal has been delivered, the row has the    *)
(* hash and the tags of the song, and the scan is not repeated after a     *)
(* restart, unless it found no tags.                                       *)
(***************************************************************************)
ScansSaved ==
  \A s \in songs :
    ~Referenced(s, events) /\ Idle /\ fileOf[s] \notin mixedUp =>
      /\ songFiles[fileOf[s]] = hashOf[s]
      /\ fileOf[s] \in taggedRows <=> s \in tagged

(***************************************************************************)
(* Database.cpp:2315, both: what the memory shows and what the tables hold *)
(* agree, whatever was removed, added again, scanned or lost in between.   *)
(***************************************************************************)
MemoryIsStored == StoredAsShown /\ ScansSaved

(***************************************************************************)
(* Every new file leaves NewFiles, hashed or failed.                       *)
(***************************************************************************)
NewFilesSettle == \A f \in Files : f \in newFiles ~> f \notin newFiles
=============================================================================
