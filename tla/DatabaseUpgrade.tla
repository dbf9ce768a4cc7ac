--------------------------- MODULE DatabaseUpgrade ---------------------------
(***************************************************************************)
(* The start of the program up to an open database: the daily backup, the  *)
(* backup before an upgrade (src/src/DB/DatabaseBackup.cpp), the scripts   *)
(* that bring the tables from any former version to the newest, each in a  *)
(* transaction (src/src/DB/DatabaseUpgrade.cpp), and the end of the        *)
(* program at any moment.                                                  *)
(*                                                                         *)
(* A database is what its tables hold, whichever version they are of: a    *)
(* column that a version does not have is Null, a table empty.  The manual *)
(* author stands for the four manual values, the scanned tag for all that  *)
(* was read from the file, the look of a template's item for all of its    *)
(* columns but its place.  The dates of changes are numbers, NULL is 0.    *)
(***************************************************************************)
EXTENDS Naturals, FiniteSets, Sequences, SequencesExt

CONSTANTS
  Null,
  Databases,  \* the databases that the program may find at first
  MaxDays,    \* bound: the days on which the program is started
  MaxEnds     \* bound: how often the program ends before its time, the last day excepted

Newest == 16

(* What the tables of all versions hold. *)
Tables == {"version", "hashes", "metadata", "files", "shared", "newFiles",
           "templates", "items", "nodes", "filters", "uses"}

ASSUME DatabaseUpgradeAssumption ==
  /\ {MaxDays, MaxEnds} \subseteq Nat
  /\ \A db \in Databases : DOMAIN db = Tables /\ db.version \in 0..Newest

VARIABLES
  phase,    \* how far the program has come
  onDisk,   \* the database in the file, as the last commit left it
  torn,     \* whether the file itself awaits the rollback of a transaction
  work,     \* the database inside the transaction of a script
  backups,  \* the copies of the file, by the day and the version in their names
  day, ends,
  original  \* history: what the program found at first

upgradeVars == <<phase, onDisk, torn, work, backups, day, ends, original>>

Daily == 0 \* in place of the version, in the name of a daily backup

-----------------------------------------------------------------------------
(* The scripts: what each makes of the rows.  A result is one of a set, as  *)
(* the row that a group is represented by is not always determined.         *)

RowOr(table, key, none) == IF key \in DOMAIN table THEN table[key] ELSE none

(* To 1: only creates tables, where there are none. *)
Script1(db) == {db}

(* To 2: what is of the file goes with its name, what is of the song with its hash. *)
Script2(db) ==
  LET meta(file) == RowOr(db.metadata, db.hashes[file], [author |-> Null, scanned |-> Null])
  IN  {[db EXCEPT
         !.files = [file \in DOMAIN db.hashes |->
                     [hash |-> db.hashes[file], author |-> meta(file).author, authorLM |-> 0,
                      scanned |-> meta(file).scanned, notes |-> Null, notesLM |-> 0]],
         !.shared = [hash \in DOMAIN db.metadata |->
                      [lastPlayed |-> db.metadata[hash].lastPlayed, local |-> db.metadata[hash].rating,
                       community |-> Null, author |-> Null, authorLM |-> 0, notes |-> Null, notesLM |-> 0]],
         !.metadata = <<>>, !.hashes = <<>>]}

(* To 4: the rating becomes the local one and those of the community. *)
Script4(db) == {[db EXCEPT !.shared = [hash \in DOMAIN @ |-> [@[hash] EXCEPT !.community = db.shared[hash].local]]]}

(* The rows that may represent a group: those of the latest change. *)
Latest(rows) == {row \in rows : \A other \in rows : other.lm <= row.lm}

(* For each hash a row that represents the rows that there are for it, or none. *)
Representatives(rowsOf) ==
  LET none == [value |-> Null, lm |-> 0]
      choices == [hash \in DOMAIN rowsOf |-> IF rowsOf[hash] = {} THEN {none} ELSE Latest(rowsOf[hash])]
  IN  {r \in [DOMAIN rowsOf -> UNION Range(choices)] : \A hash \in DOMAIN rowsOf : r[hash] \in choices[hash]}

FilesOf(db, hash) == {file \in DOMAIN db.files : db.files[file].hash = hash}

AuthorRows(db, hash) ==
  {[value |-> db.files[f].author, lm |-> db.files[f].authorLM] :
     f \in {f \in FilesOf(db, hash) : db.files[f].author # Null}}

NotesRows(db, hash) ==
  {[value |-> db.files[f].notes, lm |-> db.files[f].notesLM] :
     f \in {f \in FilesOf(db, hash) : db.files[f].notes # Null}}

(* To 8: the manual values go from the files to the songs. *)
Script8(db) ==
  {[db EXCEPT
     !.shared = [hash \in DOMAIN @ |-> [@[hash] EXCEPT !.author = r[hash].value, !.authorLM = r[hash].lm]],
     !.files = [file \in DOMAIN @ |-> [@[file] EXCEPT !.author = Null, !.authorLM = 0]]] :
   r \in Representatives([hash \in DOMAIN db.shared |-> AuthorRows(db, hash)])}

(* To 9: and so do the notes. *)
Script9(db) ==
  {[db EXCEPT
     !.shared = [hash \in DOMAIN @ |-> [@[hash] EXCEPT !.notes = r[hash].value, !.notesLM = r[hash].lm]],
     !.files = [file \in DOMAIN @ |-> [@[file] EXCEPT !.notes = Null, !.notesLM = 0]]] :
   r \in Representatives([hash \in DOMAIN db.shared |-> NotesRows(db, hash)])}

(* Mutant: the files without a hash are dropped. *)
Script10Forgets(db) == {[db EXCEPT !.files = [file \in DOMAIN @ \ FilesOf(db, Null) |-> @[file]]]}

(* To 10: the files without a hash go to a table of new files. *)
Script10(db) ==
  LET unhashed == FilesOf(db, Null)
  IN  {[db EXCEPT !.newFiles = unhashed,
                  !.files = [file \in DOMAIN @ \ unhashed |-> @[file]]]}

Rank(table, rowId) == Cardinality({other \in DOMAIN table : other < rowId})

(* To 14: each item of a template becomes a filter that the template refers to. *)
Script14(db) ==
  {[db EXCEPT
     !.filters = [item \in DOMAIN db.items |-> [look |-> db.items[item].look, position |-> Rank(db.items, item)]],
     !.uses = {[template |-> db.items[i].template, index |-> db.items[i].index, filter |-> i] : i \in DOMAIN db.items},
     !.items = <<>>]}

(* The other scripts add empty tables and columns. *)
Script(version, db) ==
  CASE version = 1  -> Script1(db)
    [] version = 2  -> Script2(db)
    [] version = 4  -> Script4(db)
    [] version = 8  -> Script8(db)
    [] version = 9  -> Script9(db)
    [] version = 10 -> Script10(db)
    [] version = 14 -> Script14(db)
    [] OTHER         -> {db}

-----------------------------------------------------------------------------
UpgradeInit ==
  /\ phase = "off" /\ onDisk \in Databases /\ torn = FALSE /\ work = onDisk
  /\ backups = <<>> /\ day = 1 /\ ends = 0 /\ original = onDisk

(* What a copy of the file holds. *)
Image == [db |-> onDisk, torn |-> torn]

Copied(version) ==
  backups' = [name \in DOMAIN backups \cup {<<day, version>>} |->
                IF name \in DOMAIN backups THEN backups[name] ELSE Image]

(* Mutant: the day is not in the name. *)
ExistsAnyDay(version) == \E name \in DOMAIN backups : name[2] = version

Exists(version) == <<day, version>> \in DOMAIN backups

(* The program starts, and copies the file unless it has done so today. *)
DailyBackup ==
  /\ phase = "off" /\ phase' = "starting"
  /\ IF Exists(Daily) THEN UNCHANGED backups ELSE Copied(Daily)
  /\ UNCHANGED <<onDisk, torn, work, day, ends, original>>

(* The first query rolls back what was left of a transaction. *)
Query ==
  /\ phase = "starting" /\ phase' = "queried"
  /\ torn' = FALSE
  /\ UNCHANGED <<onDisk, work, backups, day, ends, original>>

(* Mutant: the daily backup is thought to be enough. *)
NeedsBackupUnlessDaily == onDisk.version \in 1..(Newest - 1) /\ ~Exists(Daily)

NeedsBackup == onDisk.version \in 1..(Newest - 1)

BackupBeforeUpgrade ==
  /\ phase = "queried" /\ NeedsBackup /\ ~Exists(onDisk.version)
  /\ Copied(onDisk.version)
  /\ phase' = "upgrading"
  /\ UNCHANGED <<onDisk, torn, work, day, ends, original>>

(* The backup is there already: the program gives up. *)
RefuseBackup ==
  /\ phase = "queried" /\ NeedsBackup /\ Exists(onDisk.version)
  /\ phase' = "off"
  /\ UNCHANGED <<onDisk, torn, work, backups, day, ends, original>>

NoBackup ==
  /\ phase = "queried" /\ ~NeedsBackup
  /\ phase' = "upgrading"
  /\ UNCHANGED <<onDisk, torn, work, backups, day, ends, original>>

ExecuteScript ==
  /\ phase = "upgrading" /\ onDisk.version < Newest
  /\ \E result \in Script(onDisk.version + 1, onDisk) :
       work' = [result EXCEPT !.version = onDisk.version + 1]
  /\ phase' = "committing"
  /\ UNCHANGED <<onDisk, torn, backups, day, ends, original>>

Commit ==
  /\ phase = "committing" /\ phase' = "upgrading"
  /\ onDisk' = work
  /\ UNCHANGED <<torn, work, backups, day, ends, original>>

Opened ==
  /\ phase = "upgrading" /\ onDisk.version = Newest
  /\ phase' = "ready"
  /\ UNCHANGED <<onDisk, torn, work, backups, day, ends, original>>

Quit ==
  /\ phase = "ready" /\ phase' = "off"
  /\ UNCHANGED <<onDisk, torn, work, backups, day, ends, original>>

(* A statement fails, and with it the start of the program; or the program *)
(* is ended, perhaps when a transaction has written to the file.           *)
End ==
  /\ phase # "off" /\ phase' = "off"
  /\ ends < MaxEnds /\ ends' = ends + 1 /\ day < MaxDays
  /\ \/ torn' = torn
     \/ phase \in {"committing", "ready"} /\ torn' = TRUE
  /\ UNCHANGED <<onDisk, work, backups, day, original>>

NextDay ==
  /\ day < MaxDays /\ day' = day + 1
  /\ UNCHANGED <<phase, onDisk, torn, work, backups, ends, original>>

Start == DailyBackup \/ Query \/ BackupBeforeUpgrade \/ RefuseBackup \/ NoBackup
Upgrade == ExecuteScript \/ Commit \/ Opened

UpgradeNext == Start \/ Upgrade \/ Quit \/ End \/ NextDay

(* Days go by, and each time the program is started again and runs on. *)
UpgradeFairness == WF_upgradeVars(Start) /\ WF_upgradeVars(Upgrade) /\ WF_upgradeVars(NextDay)

UpgradeSpec == UpgradeInit /\ [][UpgradeNext]_upgradeVars /\ UpgradeFairness

-----------------------------------------------------------------------------
(* What the user has entered, in any version of the tables. *)

SongsIn(db) == DOMAIN db.metadata \cup DOMAIN db.shared

Authors(db, hash) ==
  CASE db.version < 2 -> {db.metadata[hash].author} \ {Null}
    [] db.version \in 2..7 -> {row.value : row \in Latest(AuthorRows(db, hash))}
    [] OTHER -> {db.shared[hash].author} \ {Null}

Notes(db, hash) ==
  CASE db.version < 2 -> {}
    [] db.version \in 2..8 -> {row.value : row \in Latest(NotesRows(db, hash))}
    [] OTHER -> {db.shared[hash].notes} \ {Null}

LocalRating(db, hash) ==
  IF db.version < 2 THEN db.metadata[hash].rating ELSE db.shared[hash].local

FileNames(db) == DOMAIN db.hashes \cup DOMAIN db.files \cup db.newFiles

(* The items of a template in their order: how each looks, and the kinds of its nodes. *)
ItemsOf(db, template) ==
  LET uses == IF db.version < 14
              THEN {[template |-> db.items[i].template, index |-> db.items[i].index, filter |-> i] : i \in DOMAIN db.items}
              ELSE db.uses
      own == {use \in uses : use.template = template}
      look(filter) == IF db.version < 14 THEN db.items[filter].look ELSE db.filters[filter].look
      kinds(filter) == {db.nodes[n].kind : n \in {n \in DOMAIN db.nodes : db.nodes[n].item = filter}}
  IN  [i \in 1..Cardinality(own) |->
        LET use == CHOOSE use \in own : Cardinality({u \in own : u.index < use.index}) = i - 1
        IN  <<look(use.filter), kinds(use.filter)>>]

(* One database keeps what was entered in another: of several values for    *)
(* the same song one of the latest.                                         *)
Keeps(db, old) ==
  /\ FileNames(db) = FileNames(old) /\ SongsIn(db) = SongsIn(old)
  /\ \A hash \in SongsIn(old) :
       /\ LocalRating(db, hash) = LocalRating(old, hash)
       /\ Authors(db, hash) \subseteq Authors(old, hash)
       /\ Authors(db, hash) = {} => Authors(old, hash) = {}
       /\ Notes(db, hash) \subseteq Notes(old, hash)
       /\ Notes(db, hash) = {} => Notes(old, hash) = {}
  /\ \A template \in old.templates : ItemsOf(db, template) = ItemsOf(old, template)

(* Wherever the upgrade has been cut off, the file holds everything that    *)
(* the user has entered for the songs: all file names, ratings, the latest  *)
(* manual values and notes, and the templates with their items and filters. *)
UpgradeKeeps == Keeps(onDisk, original)

(* A database that has a version is upgraded only when there is a complete  *)
(* copy of what it was before, under the name of that version: the query    *)
(* for the version has rolled back what a former end of the program left.   *)
BackupsComplete ==
  /\ \A name \in DOMAIN backups :
       name[2] # Daily => ~backups[name].torn /\ backups[name].db.version = name[2]
  /\ original.version \in 1..(onDisk.version - 1) =>
       \E name \in DOMAIN backups : name[2] = original.version /\ backups[name].db = original

(* However often the program is ended while it upgrades, the newest version *)
(* is reached in the end; a backup that is in the way is so for one day.    *)
UpgradeCompletes == <>[](onDisk.version = Newest)
=============================================================================
