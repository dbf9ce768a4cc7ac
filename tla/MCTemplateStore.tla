--------------------------- MODULE MCTemplateStore ---------------------------
(***************************************************************************)
(* The instance of TemplateStore.tla for TLC.  The assumptions check the   *)
(* files of templates, which are operators of TemplateFiles.tla.           *)
(***************************************************************************)
EXTENDS TemplateStore, TemplateFiles

MCContents == {"noop", "waltz"}
MCInitialContent == <<"waltz", "noop">>

(* A template with the same filter twice, and one without items. *)
MCInitialItems == <<<<2, 2>>, <<1>>>>

-----------------------------------------------------------------------------
(* Trees of the least and greatest numbers, up to two combinations deep, and *)
(* some of a later version, which this one does not know.                    *)
Leaves == {ComparisonNode(0, 7, "quickstep"), ComparisonNode(28, 0, "50")}
Later  == {ComparisonNode(29, 0, "50"), ComparisonNode(0, 8, "50"), Combination("xor", <<>>)}

Combined(nodes) == {Combination(kind, children) : kind \in {"and", "or"}, children \in BoundedSeq(nodes, 2)}

Trees == Leaves \cup Combined(Leaves \cup Combined(Leaves))

BrokenTrees == Later \cup (Combined(Leaves \cup Later) \ Combined(Leaves))

ItemsOver(trees) ==
  {ItemFilter("item", favorite, limit, root) : favorite \in BOOLEAN, limit \in {NoLimit, 90}, root \in trees}

TemplateOf(contents) == [name |-> "template", items |-> contents]

(***************************************************************************)
(* Template.cpp:160: what is exported and imported again is the same, tree *)
(* by tree, with the limits and the favourites.                            *)
(***************************************************************************)
ASSUME TemplatesCarryOver ==
  \A first \in ItemsOver(Trees), second \in ItemsOver(Leaves) :
    LET both == <<TemplateOf(<<first, second>>), TemplateOf(<<>>)>>
    IN  ImportAll(ExportAll(both)) = both

(***************************************************************************)
(* Template.cpp:385: what one version does not know of another's filters   *)
(* costs the item, and neither the template nor the items and templates    *)
(* next to it.                                                             *)
(***************************************************************************)
ASSUME OnlyBrokenItemsAreLost ==
  \A broken \in ItemsOver(BrokenTrees), whole \in ItemsOver(Leaves) :
    ImportAll(ExportAll(<<TemplateOf(<<broken, whole>>), TemplateOf(<<whole, broken>>)>>))
      = <<TemplateOf(<<whole>>), TemplateOf(<<whole>>)>>
=============================================================================
