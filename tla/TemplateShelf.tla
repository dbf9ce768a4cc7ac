---------------------------- MODULE TemplateShelf ----------------------------
(***************************************************************************)
(* What the song library promises about the templates, whatever it writes  *)
(* in which order: the templates on the shelf are those the user left      *)
(* there, and an end of the program costs no more than the change that     *)
(* was being written.                                                      *)
(***************************************************************************)
EXTENDS Naturals, Sequences, SequencesExt

VARIABLES
  shelf,    \* the items of each template that the user sees
  former,   \* the same before the last change
  writing   \* the templates that are being written

shelfVars == <<shelf, former, writing>>

Untouched(template) ==
  /\ template \in DOMAIN shelf' <=> template \in DOMAIN shelf
  /\ template \in DOMAIN shelf => shelf'[template] = shelf[template]

(* What an end of the program leaves of a template that was being written:   *)
(* it has its former items, or of the new ones the first few.  A new one may *)
(* be missing, a removed one may be there without its items.                 *)
Remains(template) ==
  IF template \in DOMAIN shelf'
  THEN \/ template \in DOMAIN former /\ shelf'[template] = former[template]
       \/ template \in DOMAIN shelf /\ IsPrefix(shelf'[template], shelf[template])
       \/ template \notin DOMAIN shelf /\ shelf'[template] = <<>>
  ELSE template \notin DOMAIN former \cap DOMAIN shelf

ShelfInit == writing = {}

(* The user changes some templates, when nothing is being written. *)
Change ==
  /\ writing = {}
  /\ former' = shelf
  /\ \A template \in (DOMAIN shelf \cup DOMAIN shelf') \ writing' : Untouched(template)

Write ==
  /\ writing' \subseteq writing
  /\ UNCHANGED <<shelf, former>>

(* The program ends and is started again. *)
Restart ==
  /\ writing' = {}
  /\ \A template \in writing : Remains(template)
  /\ \A template \in (DOMAIN shelf \cup DOMAIN shelf') \ writing : Untouched(template)

ShelfNext == Change \/ Write \/ Restart

ShelfSpec == ShelfInit /\ [][ShelfNext]_shelfVars
=============================================================================
