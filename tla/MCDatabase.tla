----------------------------- MODULE MCDatabase -----------------------------
(***************************************************************************)
(* The instance for TLC of DatabaseUpgrade.tla and of the liveness of      *)
(* SongLibrary.tla: what the start of the program must bring to an end.    *)
(* Each behaviour is one of the two, "scene" says which.                   *)
(***************************************************************************)
EXTENDS DatabaseUpgrade, SongLibrary

VARIABLE scene

mcVars == <<upgradeVars, vars, scene>>

Empty ==
  [version |-> 0, hashes |-> <<>>, metadata |-> <<>>, files |-> <<>>, shared |-> <<>>, newFiles |-> {},
   templates |-> {}, items |-> <<>>, nodes |-> <<>>, filters |-> <<>>, uses |-> {}]

(* Templates 1 and 2, whose items are not in the order of their RowIDs. *)
WithTemplates(db) ==
  [db EXCEPT
    !.templates = {1, 2},
    !.items = <<[template |-> 2, index |-> 1, look |-> "waltz"],
                [template |-> 1, index |-> 0, look |-> "tango"],
                [template |-> 2, index |-> 0, look |-> "samba"]>>,
    !.nodes = <<[item |-> 1, kind |-> "and"], [item |-> 2, kind |-> "genre"], [item |-> 3, kind |-> "tempo"],
                [item |-> 1, kind |-> "tempo"]>>]

(* Two files of one song, a file of another that has no metadata, one without a hash. *)
Old(version) ==
  WithTemplates([Empty EXCEPT
    !.version = version,
    !.hashes = "a" :> "h" @@ "b" :> "h" @@ "c" :> "g" @@ "d" :> Null,
    !.metadata = "h" :> [author |-> "x", scanned |-> "s", lastPlayed |-> 1, rating |-> 4]
              @@ "k" :> [author |-> Null, scanned |-> Null, lastPlayed |-> 0, rating |-> 2]])

File(hash, author, lm, notes, notesLM) ==
  [hash |-> hash, author |-> author, authorLM |-> lm, scanned |-> "s", notes |-> notes, notesLM |-> notesLM]

Shared(rating) ==
  [lastPlayed |-> 1, local |-> rating, community |-> rating, author |-> Null, authorLM |-> 0,
   notes |-> Null, notesLM |-> 0]

(* Version 7: files of the same song that were given different values at different times. *)
Split ==
  {WithTemplates([Empty EXCEPT
     !.version = 7,
     !.files = "a" :> File("h", a.author, a.lm, "n1", 1) @@ "b" :> File("h", b.author, b.lm, b.notes, b.lm)
            @@ "d" :> File(Null, Null, 0, Null, 0),
     !.shared = "h" :> Shared(3) @@ "k" :> Shared(Null)]) :
   a \in [author : {"x"}, lm : {0, 1}],
   b \in [author : {"y", Null}, lm : {0, 2}, notes : {"n2"}]}

MCDatabases == {Empty, Old(0), Old(1)} \cup Split

-----------------------------------------------------------------------------
(* Where there is no upgrade, or no library, one initial state is enough. *)
MCInit ==
  /\ UpgradeInit /\ Init /\ scene \in {"upgrade", "library"}
  /\ IF scene = "upgrade" THEN Cardinality(Range(disk)) = 1 ELSE onDisk = Empty

MCNext ==
  /\ UNCHANGED scene
  /\ \/ scene = "upgrade" /\ UpgradeNext /\ UNCHANGED vars
     \/ scene = "library" /\ Next /\ UNCHANGED upgradeVars

(* UpgradeFairness and the library's Fairness, each in its scene. *)
MCFairness ==
  /\ WF_upgradeVars(scene = "upgrade" /\ Start)
  /\ WF_upgradeVars(scene = "upgrade" /\ Upgrade)
  /\ WF_upgradeVars(scene = "upgrade" /\ NextDay)
  /\ \A f \in Files : WF_vars(scene = "library" /\ RunHash(f))
  /\ \A s \in Songs : WF_vars(scene = "library" /\ RunScan(s))
  /\ WF_vars(scene = "library" /\ Finish)
  /\ SF_vars(scene = "library" /\ Serve)

MCSpec == MCInit /\ [][MCNext]_mcVars /\ MCFairness
-----------------------------------------------------------------------------
(* DatabaseUpgrade.cpp:48: every upgrade is completed, in its scene. *)
EveryUpgradeCompletes == scene = "upgrade" => UpgradeCompletes

(* Database.cpp:2104: every new file settles, in its scene. *)
EveryNewFileSettles == scene = "library" => NewFilesSettle
=============================================================================
