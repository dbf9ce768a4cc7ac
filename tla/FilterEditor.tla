----------------------------- MODULE FilterEditor -----------------------------
(***************************************************************************)
(* One song filter: the tree of its nodes (src/src/Filter.cpp), the dialog *)
(* that edits it in place (src/src/UI/Dlg/DlgEditFilter.cpp), and the rows *)
(* of the table FilterNodes it is saved to and loaded from                 *)
(* (src/src/DB/Database.cpp).                                              *)
(*                                                                         *)
(* A node holds its children by counted references and its parent by a     *)
(* plain pointer.  A node that nothing refers to any more is gone, whether *)
(* or not a pointer to it is left.  Which addresses the nodes have does    *)
(* not matter, so they are numbered anew after every edit.                 *)
(*                                                                         *)
(* A filter is saved when the dialog has closed: its old rows are deleted  *)
(* and one row per node is inserted, each in a statement of its own, and   *)
(* the program may end between any two of them.                            *)
(***************************************************************************)
EXTENDS FilterOps, Integers, Sequences, FiniteSets, SequencesExt

CONSTANTS
  None,         \* no node
  Library,      \* the songs, as records of their values
  Tests,        \* the comparisons that the user enters
  MaxNodes,     \* bound: nodes of a filter
  MaxNodeEdits  \* bound: edits while the dialog is open once

ASSUME FilterEditorAssumption == MaxNodes \in Nat \ {0} /\ MaxNodeEdits \in Nat /\ None \notin Nat

(* A length is a number that is not negative, if it is known. *)
ASSUME LibraryAssumption == \A song \in Library : song.own.length \in Nat \cup {Absent}

VARIABLES
  nodes,      \* the nodes that exist, by their addresses
  root,       \* mRootNode
  editing,    \* whether the dialog is open
  nodeEdits,  \* how many edits were made in it
  rows,       \* the filter's rows in FilterNodes, in the order of their RowIDs
  unsaved,    \* the rows that a save in progress has yet to insert
  tornRows    \* history: the filter was loaded from the rows of an interrupted save

filterVars == <<nodes, root, editing, nodeEdits, rows, unsaved, tornRows>>

Addresses == 1..MaxNodes
Combinators == {"and", "or"}
CanHaveChildren(node) == node.kind \in Combinators

Leaf(test) == [kind |-> "comparison", test |-> test, parent |-> None, children |-> <<>>]
Combinator(kind) == [kind |-> kind, test |-> None, parent |-> None, children |-> <<>>]

-----------------------------------------------------------------------------
(* The operations of Filter::Node and Filter on a set of nodes. *)

WithNode(ns, address, node) == [n \in DOMAIN ns \cup {address} |-> IF n = address THEN node ELSE ns[n]]

AddChild(ns, parent, child) ==
  [ns EXCEPT ![parent].children = Append(@, child), ![child].parent = parent]

(* Mutant: the new child does not learn who its parent is. *)
ReplaceChildUnaware(ns, parent, old, new) ==
  [ns EXCEPT ![old].parent = None,
             ![parent].children = [i \in DOMAIN @ |-> IF @[i] = old THEN new ELSE @[i]]]

ReplaceChild(ns, parent, old, new) ==
  LET at == CHOOSE i \in DOMAIN ns[parent].children : ns[parent].children[i] = old
  IN  [ns EXCEPT ![old].parent = None,
                 ![parent].children = ReplaceAt(@, at, new),
                 ![new].parent = parent]

RemoveChild(ns, parent, child) ==
  LET at == CHOOSE i \in DOMAIN ns[parent].children : ns[parent].children[i] = child
  IN  [ns EXCEPT ![child].parent = None, ![parent].children = RemoveAt(@, at)]

SetRootParent(ns, r) == [ns EXCEPT ![r].parent = None]

NoopNodes == <<Leaf(LengthAtLeast0)>>

(* The nodes of a subtree, a node before its children and these in their order. *)
PreOrder(ns, r) ==
  LET below[n \in DOMAIN ns] == <<n>> \o FlattenSeq([i \in DOMAIN ns[n].children |-> below[ns[n].children[i]]])
  IN  below[r]

(* The nodes that are left when the references to all the others are        *)
(* dropped, at the addresses 1, 2 ... in this order; a pointer to a node    *)
(* that is gone leads to the address 0.                                     *)
ReferencedNodes(ns, r) ==
  LET order == PreOrder(ns, r)
      address(n) == IF n \in Range(order) THEN CHOOSE i \in DOMAIN order : order[i] = n
                    ELSE IF n = None THEN None ELSE 0
  IN  [i \in DOMAIN order |->
        [ns[order[i]] EXCEPT !.parent = address(@),
                             !.children = [c \in DOMAIN @ |-> address(@[c])]]]

IsSatisfiedBy(ns, r, song) ==
  LET satisfied[n \in DOMAIN ns] ==
        CASE ns[n].kind = "and" -> \A i \in DOMAIN ns[n].children : satisfied[ns[n].children[i]]
          [] ns[n].kind = "or"  -> \E i \in DOMAIN ns[n].children : satisfied[ns[n].children[i]]
          [] OTHER              -> IsComparisonSatisfiedBy(ns[n].test, song)
  IN  satisfied[r]

Matching(ns, r) == {song \in Library : IsSatisfiedBy(ns, r, song)}

-----------------------------------------------------------------------------
(* The table FilterNodes. *)

(* The rows of a tree.  A row's RowID is its place, and the root's parent is -1. *)
RowsOf(ns, r) ==
  LET order == PreOrder(ns, r)
      rowId(n) == IF n = None THEN -1 ELSE CHOOSE i \in DOMAIN order : order[i] = n
  IN  [i \in DOMAIN order |->
        [parent |-> rowId(ns[order[i]].parent), kind |-> ns[order[i]].kind, test |-> ns[order[i]].test]]

(* Mutant: the children come back in the opposite order. *)
LoadedChildrenReversed(rs, n) ==
  LET added[i \in 0..Len(rs)] == IF i = 0 THEN <<>> ELSE IF rs[i].parent = n THEN <<i>> \o added[i - 1] ELSE added[i - 1]
  IN  added[Len(rs)]

(* The children of a node: each is added to its parent in the order of the RowIDs. *)
LoadedChildren(rs, n) ==
  LET added[i \in 0..Len(rs)] == IF i = 0 THEN <<>> ELSE IF rs[i].parent = n THEN Append(added[i - 1], i) ELSE added[i - 1]
  IN  added[Len(rs)]

(* The nodes that are made of rows; without rows the filter keeps the noop  *)
(* node it was constructed with.                                            *)
LoadedNodes(rs) ==
  IF rs = <<>>
  THEN NoopNodes
  ELSE [n \in DOMAIN rs |->
         [kind     |-> rs[n].kind,
          test     |-> rs[n].test,
          parent   |-> IF rs[n].parent = -1 THEN None ELSE rs[n].parent,
          children |-> LoadedChildren(rs, n)]]

LoadedRoot(rs) == IF rs = <<>> THEN 1 ELSE CHOOSE n \in DOMAIN rs : rs[n].parent = -1

-----------------------------------------------------------------------------
(* The filter has just been created: its row is in the table Filters, it has no nodes there. *)
FilterInit ==
  /\ nodes = NoopNodes
  /\ root = 1
  /\ editing = TRUE
  /\ nodeEdits = 0
  /\ rows = <<>>
  /\ unsaved = <<>>
  /\ tornRows = FALSE

MayEdit == editing /\ nodeEdits < MaxNodeEdits

Replace(ns, r) ==
  /\ nodes' = ReferencedNodes(ns, r)
  /\ root' = 1
  /\ nodeEdits' = nodeEdits + 1
  /\ UNCHANGED <<editing, rows, unsaved, tornRows>>

(* The dialog opens on the filter, once it has been saved. *)
Edit ==
  /\ ~editing /\ unsaved = <<>>
  /\ editing' = TRUE
  /\ nodeEdits' = 0
  /\ UNCHANGED <<nodes, root, rows, unsaved, tornRows>>

(* What the user enters in the line of a node. *)
SetModelData(n) ==
  /\ MayEdit
  /\ \/ CanHaveChildren(nodes[n]) /\ \E kind \in Combinators : nodes' = [nodes EXCEPT ![n].kind = kind]
     \/ ~CanHaveChildren(nodes[n]) /\ \E test \in Tests : nodes' = [nodes EXCEPT ![n].test = test]
  /\ nodeEdits' = nodeEdits + 1
  /\ UNCHANGED <<root, editing, rows, unsaved, tornRows>>

Fresh(count) == CHOOSE s \in [1..count -> Addresses \ DOMAIN nodes] : \A i, j \in 1..count : i < j => s[i] < s[j]

NewSibling(kind) == Leaf(IF kind = "and" THEN LengthAtLeast0 ELSE LengthBelow0)

(* A sibling for the selected node, in a new combinator if it is the root. *)
AddNodeSibling(n) ==
  /\ MayEdit
  /\ IF nodes[n].parent = None
     THEN /\ Cardinality(DOMAIN nodes) + 2 <= MaxNodes
          /\ LET new == Fresh(2)
                 rooted == SetRootParent(AddChild(WithNode(nodes, new[1], Combinator("and")), new[1], n), new[1])
             IN  Replace(AddChild(WithNode(rooted, new[2], NewSibling("and")), new[1], new[2]), new[1])
     ELSE /\ Cardinality(DOMAIN nodes) + 1 <= MaxNodes
          /\ LET new == Fresh(1)
                 parent == nodes[n].parent
             IN  Replace(AddChild(WithNode(nodes, new[1], NewSibling(nodes[parent].kind)), parent, new[1]), root)

(* A new combinator in the place of the selected node, which becomes its first child. *)
InsertNodeCombinator(n) ==
  /\ MayEdit
  /\ Cardinality(DOMAIN nodes) + 2 <= MaxNodes
  /\ LET new == Fresh(2)
         with == WithNode(WithNode(nodes, new[1], Combinator("or")), new[2], Leaf(LengthBelow0))
         parent == nodes[n].parent
         placed == IF parent = None THEN SetRootParent(with, new[1]) ELSE ReplaceChild(with, parent, n, new[1])
     IN  Replace(AddChild(AddChild(placed, new[1], n), new[1], new[2]), IF parent = None THEN new[1] ELSE root)

(* Mutant: the last child takes the root's place, however deep it was. *)
LiftToRoot(state) ==
  IF state.parent = None \/ Len(state.nodes[state.parent].children) # 1
  THEN state
  ELSE LET child == state.nodes[state.parent].children[1]
       IN  [nodes |-> SetRootParent(state.nodes, child), root |-> child, parent |-> None]

(* Where a single child is left, it takes its parent's place: one turn of   *)
(* the loop, on the nodes, the root and the parent to look at next.         *)
LiftSingleChild(state) ==
  LET parent == state.parent
      child == state.nodes[parent].children[1]
      grandParent == state.nodes[parent].parent
  IN  IF parent = None \/ Len(state.nodes[parent].children) # 1
      THEN state
      ELSE IF grandParent = None
           THEN [nodes |-> SetRootParent(state.nodes, child), root |-> child, parent |-> None]
           ELSE [state EXCEPT !.nodes = ReplaceChild(@, grandParent, parent, child), !.parent = grandParent]

(* The selected node goes, with its subtree.  The button is there only while the root has children. *)
RemoveNode(n) ==
  /\ MayEdit
  /\ CanHaveChildren(nodes[root])
  /\ IF nodes[n].parent = None
     THEN Replace(NoopNodes, 1)
     ELSE LET removed == [nodes  |-> RemoveChild(nodes, nodes[n].parent, n),
                          root   |-> root,
                          parent |-> nodes[n].parent]
              lifted[turn \in 0..MaxNodes] == IF turn = 0 THEN removed ELSE LiftSingleChild(lifted[turn - 1])
          IN  Replace(lifted[MaxNodes].nodes, lifted[MaxNodes].root)

(* The dialog closes, either way, and the filter is saved: its old rows are deleted first. *)
CloseAndSave ==
  /\ editing
  /\ editing' = FALSE
  /\ nodeEdits' = 0
  /\ rows' = <<>>
  /\ unsaved' = RowsOf(nodes, root)
  /\ UNCHANGED <<nodes, root, tornRows>>

(* The next node's row, its parent's RowID known from the row inserted for the parent. *)
SaveFilterNode ==
  /\ unsaved # <<>>
  /\ rows' = Append(rows, Head(unsaved))
  /\ unsaved' = Tail(unsaved)
  /\ UNCHANGED <<nodes, root, editing, nodeEdits, tornRows>>

(* The program ends, at any moment, and starts again with what the table holds. *)
FilterRestart ==
  /\ nodes' = LoadedNodes(rows)
  /\ root' = LoadedRoot(rows)
  /\ editing' = FALSE
  /\ nodeEdits' = 0
  /\ unsaved' = <<>>
  /\ tornRows' = (tornRows \/ unsaved # <<>>)
  /\ UNCHANGED rows

FilterNext ==
  \/ Edit
  \/ \E n \in DOMAIN nodes : SetModelData(n)
  \/ \E n \in DOMAIN nodes : AddNodeSibling(n)
  \/ \E n \in DOMAIN nodes : InsertNodeCombinator(n)
  \/ \E n \in DOMAIN nodes : RemoveNode(n)
  \/ CloseAndSave
  \/ SaveFilterNode
  \/ FilterRestart

FilterSpec == FilterInit /\ [][FilterNext]_filterVars

-----------------------------------------------------------------------------
(* Every node is as the code takes it to be. *)
FilterTypeOK ==
  /\ DOMAIN nodes \subseteq Addresses
  /\ root \in DOMAIN nodes
  /\ \A n \in DOMAIN nodes :
       /\ nodes[n].kind \in Combinators \cup {"comparison"}
       /\ ~CanHaveChildren(nodes[n]) => nodes[n].children = <<>>
       /\ Range(nodes[n].children) \subseteq DOMAIN nodes
  /\ editing \in BOOLEAN /\ tornRows \in BOOLEAN /\ nodeEdits \in 0..MaxNodeEdits
  /\ Len(rows) + Len(unsaved) <= MaxNodes

(* What Filter::checkNodeConsistency() asserts after every edit, and more:  *)
(* each child's plain pointer leads to the node that holds it, to no node   *)
(* that is gone, the root has none, and no node is held twice.              *)
ParentsKnowChildren ==
  /\ nodes[root].parent = None
  /\ \A n \in DOMAIN nodes \ {root} :
       /\ nodes[n].parent \in DOMAIN nodes
       /\ \E i \in DOMAIN nodes[nodes[n].parent].children : nodes[nodes[n].parent].children[i] = n
  /\ Cardinality(DOMAIN nodes) = Len(PreOrder(nodes, root))

(* The rows never make the loader drop one: whenever the program ends, each *)
(* row but the first belongs to an earlier row that can have children, and  *)
(* the first one is the only root.                                          *)
RowsFormTree ==
  \A i \in DOMAIN rows :
    IF i = 1
    THEN rows[i].parent = -1
    ELSE rows[i].parent \in 1..(i - 1) /\ rows[rows[i].parent].kind \in Combinators

(* While the dialog is closed and nothing is being saved, the tree in memory *)
(* is the one that the next start loads; without rows that is the noop node. *)
StoredAsEdited ==
  ~editing /\ unsaved = <<>> =>
    /\ RowsOf(nodes, root) = RowsOf(LoadedNodes(rows), LoadedRoot(rows))
    /\ rows # <<>> => RowsOf(nodes, root) = rows

(* The editor never leaves a combinator with fewer than two children: only *)
(* the rows of an interrupted save make one.                               *)
CombinatorsCombine ==
  tornRows \/ \A n \in DOMAIN nodes : CanHaveChildren(nodes[n]) => Len(nodes[n].children) >= 2

(* The tree that the dialog shows is one: what its editor dereferences is there. *)
TreeIntact == FilterTypeOK /\ ParentsKnowChildren /\ CombinatorsCombine

(* The table is worth loading, at every moment, and holds what was edited. *)
TableLoads == RowsFormTree /\ StoredAsEdited

KnownLengths == {song \in Library : HasLength(song)}

(* Nodes that are added, in whichever place of the tree, change nothing yet: *)
(* the filter matches the same songs, of those whose length is known, until  *)
(* the user edits the new nodes.                                             *)
AddingIsNeutral ==
  [][(\E n \in DOMAIN nodes : AddNodeSibling(n) \/ InsertNodeCombinator(n)) =>
       Matching(nodes', root') \cap KnownLengths = Matching(nodes, root) \cap KnownLengths]_filterVars

(* Whether a song satisfies a tree without the subtree of gone, by the definition of the combinators. *)
SatisfiesWithout(ns, r, gone, song) ==
  LET satisfied[n \in DOMAIN ns] ==
        LET left == Range(ns[n].children) \ {gone}
        IN  CASE ns[n].kind = "and" -> \A c \in left : satisfied[c]
              [] ns[n].kind = "or"  -> \E c \in left : satisfied[c]
              [] OTHER              -> IsComparisonSatisfiedBy(ns[n].test, song)
  IN  satisfied[r]

(* Removing a node removes what it and its subtree asked for, and nothing   *)
(* else: the single children that are lifted into their parents' places     *)
(* leave the filter matching what it matched without the removed subtree.   *)
RemovingPrunes ==
  [][\A n \in DOMAIN nodes \ {root} :
       RemoveNode(n) => Matching(nodes', root') = {song \in Library : SatisfiesWithout(nodes, root, n, song)}]_filterVars

(* DlgEditFilter.cpp:651: both kinds of edit change the tree around the node *)
(* they are about, and the filter's meaning by that node alone.              *)
EditsAreLocal == AddingIsNeutral /\ RemovingPrunes
=============================================================================
