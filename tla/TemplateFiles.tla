---------------------------- MODULE TemplateFiles ----------------------------
(***************************************************************************)
(* The XML files by which templates pass from one library to another       *)
(* (src/src/Template.cpp): what is written of a template, and what is      *)
(* read from a file, which may come from a later version of the program or *)
(* be damaged.                                                             *)
(*                                                                         *)
(* A name stands for the name, the notes and the colour.  The properties   *)
(* and comparisons of a filter are the numbers of the code's enumerations. *)
(***************************************************************************)
EXTENDS Integers, Sequences, SequencesExt

CONSTANTS
  NoLimit,      \* a filter without a duration limit
  Unreadable    \* what is made of an element that cannot be read

SongProperties == 0..28
Comparisons == 0..7

ComparisonNode(property, comparison, value) ==
  [kind |-> "comparison", property |-> property, comparison |-> comparison, value |-> value]

Combination(kind, children) == [kind |-> kind, children |-> children]

ItemFilter(name, favorite, limit, root) ==
  [name |-> name, favorite |-> favorite, limit |-> limit, root |-> root]

-----------------------------------------------------------------------------
Element(tag, attributes, children) == [tag |-> tag, attributes |-> attributes, children |-> children]

NoAttributes == <<>>

(* The value of an attribute, or what stands for one that is not there. *)
Attribute(element, name, default) ==
  IF name \in DOMAIN element.attributes THEN element.attributes[name] ELSE default

ChildElements(element, tag) == SelectSeq(element.children, LAMBDA child : child.tag = tag)

-----------------------------------------------------------------------------
(* What is written. *)
RECURSIVE AddNodeToDom(_)
AddNodeToDom(node) ==
  IF node.kind = "comparison"
  THEN Element("comparison",
               [songProperty |-> node.property, comparison |-> node.comparison, value |-> node.value], <<>>)
  ELSE Element(node.kind, NoAttributes, [k \in DOMAIN node.children |-> AddNodeToDom(node.children[k])])

(* The attributes of an item; the two optional ones only where there is something to say. *)
ItemAttributes(filter) ==
  [name |-> filter.name]
    @@ (IF filter.favorite THEN [isFavorite |-> 1] ELSE NoAttributes)
    @@ (IF filter.limit = NoLimit THEN NoAttributes ELSE [durationLimit |-> filter.limit])

ExportItem(filter) ==
  Element("item", ItemAttributes(filter), <<Element("filter", NoAttributes, <<AddNodeToDom(filter.root)>>)>>)

ExportTemplate(template) ==
  Element("SkauTanTemplate", [name |-> template.name],
          <<Element("items", NoAttributes, [k \in DOMAIN template.items |-> ExportItem(template.items[k])])>>)

ExportAll(templates) ==
  Element("SkauTanTemplates", NoAttributes, [k \in DOMAIN templates |-> ExportTemplate(templates[k])])

-----------------------------------------------------------------------------
(* What is read.  A missing number counts as 0, one that is not in the *)
(* enumeration is an error.                                            *)
ReadComparison(element) ==
  LET property   == Attribute(element, "songProperty", 0)
      comparison == Attribute(element, "comparison", 0)
  IN  IF property \in SongProperties /\ comparison \in Comparisons
      THEN ComparisonNode(property, comparison, Attribute(element, "value", ""))
      ELSE Unreadable

(* A combination with a child that cannot be read cannot be read either. *)
RECURSIVE ReadTemplateFilterNode(_)
ReadTemplateFilterNode(element) ==
  LET children == [k \in DOMAIN element.children |-> ReadTemplateFilterNode(element.children[k])]
  IN  CASE element.tag = "comparison" -> ReadComparison(element)
        [] element.tag \in {"and", "or"} ->
             IF Unreadable \in ToSet(children) THEN Unreadable ELSE Combination(element.tag, children)
        [] OTHER -> Unreadable

(* An item without a filter, or whose filter cannot be read, is none. *)
ReadTemplateItem(element) ==
  LET filters == ChildElements(element, "filter")
      root    == IF filters = <<>> \/ Head(filters).children = <<>> THEN Unreadable
                 ELSE ReadTemplateFilterNode(Head(Head(filters).children))
  IN  IF root = Unreadable THEN Unreadable
      ELSE ItemFilter(Attribute(element, "name", ""), Attribute(element, "isFavorite", 0) = 1,
                      Attribute(element, "durationLimit", NoLimit), root)

(* The items that cannot be read are left out, the template is kept. *)
ReadTemplate(element) ==
  LET lists == ChildElements(element, "items")
      items == IF lists = <<>> THEN <<>> ELSE ChildElements(Head(lists), "item")
  IN  [name  |-> Attribute(element, "name", ""),
       items |-> SelectSeq([k \in DOMAIN items |-> ReadTemplateItem(items[k])], LAMBDA item : item # Unreadable)]

ImportAll(document) ==
  LET found == ChildElements(document, "SkauTanTemplate")
  IN  IF document.tag = "SkauTanTemplates" THEN [k \in DOMAIN found |-> ReadTemplate(found[k])] ELSE <<>>
=============================================================================
