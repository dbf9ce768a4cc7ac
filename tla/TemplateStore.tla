---------------------------- MODULE TemplateStore ----------------------------
(***************************************************************************)
(* The templates and the filters of the song library: the lists in memory, *)
(* the tables they are written to (src/src/DB/Database.cpp), and the       *)
(* dialogs that change both (src/src/UI/Dlg/DlgTemplatesList.cpp,          *)
(* DlgManageFilters.cpp).                                                  *)
(*                                                                         *)
(* A slot of a dialog changes the lists at once and writes statement by    *)
(* statement; outside of a transaction each statement is there to stay,    *)
(* and the program may end between any two of them.  The next start lists  *)
(* what it finds in the tables in the order of the column Position.        *)
(*                                                                         *)
(* What a filter consists of is one value (its nodes: FilterEditor.tla);   *)
(* what the user enters in DlgEditFilter is there at once.  Several rows   *)
(* that are selected are removed one after another, from the last on, as   *)
(* if each had been removed by itself.                                     *)
(***************************************************************************)
EXTENDS Integers, Sequences, FiniteSets, SequencesExt

CONSTANTS
  InitialItems,  \* the items of the templates
  InitialContent, \* and what the filters consist of, at first
  MaxTemplates,  \* bound: RowIDs in the table Templates
  MaxFilters,    \* bound: RowIDs in the table Filters
  MaxItems,      \* bound: items of a template
  MaxEdits,      \* bound: changes by the user
  Contents,      \* what filters consist of
  Noop           \* the content of a filter without nodes

ASSUME TemplateStoreAssumption ==
  /\ {MaxTemplates, MaxFilters, MaxItems, MaxEdits} \subseteq Nat
  /\ Noop \in Contents
  /\ InitialContent \in Seq(Contents)
  /\ InitialItems \in Seq(Seq(DOMAIN InitialContent))

VARIABLES
  templates,    \* mTemplates, as the RowIDs
  items,        \* mItems of each template, as the RowIDs of the filters
  filters,      \* mFilters, as the RowIDs
  content,      \* what each filter consists of
  db,           \* the tables
  todo,         \* the transactions that the current slot has yet to execute
  listed,       \* whether the templates dialog is open
  former,       \* history: items before the current slot
  numbered,     \* history: all templates were saved, and since then neither one
                \* before others removed nor a save interrupted
  copies,       \* history: the filters that were duplicated and not saved since
  edits         \* history: how many changes there were

lists == <<templates, items, filters, content>>
remembered == <<former, numbered, copies, edits>>
storeVars == <<lists, db, todo, listed, remembered>>

NoPosition == -1 \* NULL, which comes first

-----------------------------------------------------------------------------
(* The tables, and the statements on them.                                  *)
(*   db.position       the column Position of Templates, a row per RowID,   *)
(*   db.items          the rows of TemplateItems, by their IndexInTemplate, *)
(*   db.filterPosition the column Position of Filters,                      *)
(*   db.content        the rest of Filters with FilterNodes.                *)

With(f, key, value) == [k \in DOMAIN f \cup {key} |-> IF k = key THEN value ELSE f[k]]
Without(f, key) == [k \in DOMAIN f \ {key} |-> f[k]]
NewRowId(table) == 1 + Max(DOMAIN table \cup {0})

(* The elements of a list that are in a set, in the order of the list. *)
Among(list, S) ==
  LET Kept[n \in 0..Len(list)] ==
        IF n = 0 THEN <<>> ELSE IF list[n] \in S THEN Append(Kept[n - 1], list[n]) ELSE Kept[n - 1]
  IN  Kept[Len(list)]

Statement(kind, id, arg) == [kind |-> kind, id |-> id, arg |-> arg]

Execute(s, d) ==
  CASE s.kind = "insert template" -> [d EXCEPT !.position = With(@, s.id, NoPosition), !.items = With(@, s.id, <<>>)]
    [] s.kind = "place template"  -> [d EXCEPT !.position[s.id] = s.arg]
    [] s.kind = "delete items"    -> [d EXCEPT !.items[s.id] = <<>>]
    [] s.kind = "insert item"     -> [d EXCEPT !.items[s.id] = Append(@, s.arg.filter)]
    [] s.kind = "delete template" -> [d EXCEPT !.position = Without(@, s.id), !.items = Without(@, s.id)]
    [] s.kind = "insert filter"   -> [d EXCEPT !.filterPosition = With(@, s.id, NoPosition), !.content = With(@, s.id, Noop)]
    [] s.kind = "place filter"    -> [d EXCEPT !.filterPosition[s.id] = s.arg]
    [] s.kind = "delete nodes"    -> [d EXCEPT !.content[s.id] = Noop]
    [] s.kind = "insert nodes"    -> [d EXCEPT !.content[s.id] = s.arg]
    [] s.kind = "delete filter"   -> [d EXCEPT !.filterPosition = Without(@, s.id), !.content = Without(@, s.id)]

(* A row of Filters that rows of TemplateItems refer to cannot be deleted. *)
MayExecute(s, d) ==
  s.kind = "delete filter" => \A template \in DOMAIN d.items : s.id \notin Range(d.items[template])

(* A transaction: all of its statements, or none if one of them fails. *)
Transacted(transaction, d) ==
  LET after[i \in 0..Len(transaction)] ==
        IF i = 0 THEN d ELSE Execute(transaction[i], after[i - 1])
  IN  IF \A i \in DOMAIN transaction : MayExecute(transaction[i], after[i - 1])
      THEN after[Len(transaction)]
      ELSE d

OneByOne(statements) == [i \in DOMAIN statements |-> <<statements[i]>>]

(* The rows of a table as they are loaded: by the position, and where that *)
(* is the same by the RowID.                                               *)
Before(position, a, b) ==
  position[a] < position[b] \/ (position[a] = position[b] /\ a < b)

Listing(position, list) ==
  /\ Range(list) = DOMAIN position
  /\ \A i, j \in DOMAIN list : i < j => Before(position, list[i], list[j])

Listed(position) ==
  CHOOSE list \in [1..Cardinality(DOMAIN position) -> DOMAIN position] : Listing(position, list)

LoadedItems(d) == [template \in DOMAIN d.items |-> Among(d.items[template], DOMAIN d.content)]

-----------------------------------------------------------------------------
(* The writes of the database's operations. *)

IndexOf(list, id) == (CHOOSE i \in DOMAIN list : list[i] = id) - 1

SaveItems(template, its) ==
  <<Statement("delete items", template, 0)>>
    \o [i \in DOMAIN its |-> Statement("insert item", template, [index |-> i, filter |-> its[i]])]

(* Mutant: the old items are not deleted. *)
SaveTemplateAppends(ts, its, template) ==
  <<Statement("place template", template, IndexOf(ts, template))>> \o Tail(SaveItems(template, its[template]))

SaveTemplate(ts, its, template) ==
  <<Statement("place template", template, IndexOf(ts, template))>> \o SaveItems(template, its[template])

SaveAllTemplates(ts, its) == FlattenSeq([i \in DOMAIN ts |-> SaveTemplate(ts, its, ts[i])])

SaveFilter(fs, filter, value) ==
  <<Statement("place filter", filter, IndexOf(fs, filter)),
    Statement("delete nodes", filter, 0),
    Statement("insert nodes", filter, value)>>

InsertTemplateRow(id) == <<Statement("insert template", id, 0)>>

InsertFilterRow(id) == <<Statement("insert filter", id, 0)>>

DeleteTemplate(template) ==
  <<Statement("delete items", template, 0), Statement("delete template", template, 0)>>

(* The templates that lose an item to it are saved first. *)
DeleteFilter(ts, its, filter, affected) ==
  FlattenSeq([n \in DOMAIN affected |-> SaveTemplate(ts, its, affected[n])])
    \o <<Statement("delete nodes", filter, 0), Statement("delete filter", filter, 0)>>

(* After the swap in the list, the two are placed where they are now. *)
SwapTemplates(ts, i, j) ==
  <<Statement("place template", ts[i], i - 1), Statement("place template", ts[j], j - 1)>>

SwapFilters(fs, i, j) ==
  <<Statement("place filter", fs[i], i - 1), Statement("place filter", fs[j], j - 1)>>

Swapped(list, i, j) == [list EXCEPT ![i] = list[j], ![j] = list[i]]

(* The filter that stands for an imported one: the last known one of the same content. *)
KnownFilter(value) ==
  LET known == {i \in DOMAIN filters : content[filters[i]] = value}
  IN  IF known = {} THEN 0 ELSE filters[Max(known)]

(* Mutant: the references of the templates are left. *)
WithoutRefsLeft(its, filter) == its

Replaced(list, from, to) == [i \in DOMAIN list |-> IF list[i] = from THEN to ELSE list[i]]

WithoutRefs(its, filter) ==
  [template \in DOMAIN its |-> Among(its[template], Range(its[template]) \ {filter})]

-----------------------------------------------------------------------------
StoreInit ==
  /\ templates = [i \in DOMAIN InitialItems |-> i] /\ items = InitialItems
  /\ filters = [i \in DOMAIN InitialContent |-> i] /\ content = InitialContent
  /\ db = [position       |-> [id \in DOMAIN InitialItems |-> id - 1],
           items          |-> InitialItems,
           filterPosition |-> [id \in DOMAIN InitialContent |-> id - 1],
           content        |-> InitialContent]
  /\ todo = <<>> /\ listed = FALSE
  /\ former = items /\ numbered = TRUE /\ copies = {} /\ edits = 0

(* A slot runs when the former one has written everything. *)
Slot(writes) ==
  /\ todo = <<>>
  /\ todo' = writes
  /\ former' = items
  /\ UNCHANGED db

Counted == edits < MaxEdits /\ edits' = edits + 1

(* The dialog opens.  Each row it fills in looks to it like an edit of the *)
(* template's notes, and so it saves the template.                         *)
OpenTemplates ==
  /\ ~listed /\ listed' = TRUE
  /\ Slot(OneByOne(SaveAllTemplates(templates, items)))
  /\ numbered' = TRUE
  /\ UNCHANGED <<lists, copies, edits>>

CloseTemplates ==
  /\ listed /\ listed' = FALSE
  /\ todo = <<>>
  /\ UNCHANGED <<lists, db, todo, remembered>>

(* The dialog of the filters, opened from that of the templates, has closed. *)
FiltersManaged ==
  /\ listed
  /\ Slot(OneByOne(SaveAllTemplates(templates, items)))
  /\ numbered' = TRUE
  /\ UNCHANGED <<lists, listed, copies, edits>>

AddTemplate ==
  LET id == NewRowId(db.position)
      ts == Append(templates, id)
      its == With(items, id, <<>>)
  IN  /\ listed /\ id <= MaxTemplates /\ Counted
      /\ templates' = ts /\ items' = its
      /\ Slot(OneByOne(InsertTemplateRow(id) \o SaveTemplate(ts, its, id)))
      /\ UNCHANGED <<filters, content, listed, numbered, copies>>

(* A template whose items consist of the given values is imported.  Those   *)
(* that are not known become filters of their own, one for each item.       *)
ImportTemplate(values) ==
  LET id == NewRowId(db.position)
      unknown == Among([i \in DOMAIN values |-> i], {i \in DOMAIN values : KnownFilter(values[i]) = 0})
      newIds == [n \in DOMAIN unknown |-> NewRowId(db.filterPosition) + n - 1]
      ts == Append(templates, id)
      its == With(items, id, [i \in DOMAIN values |->
               IF KnownFilter(values[i]) = 0 THEN newIds[IndexOf(unknown, i) + 1] ELSE KnownFilter(values[i])])
      saves == [n \in DOMAIN newIds |->
                 InsertFilterRow(newIds[n]) \o SaveFilter(filters \o newIds, newIds[n], values[unknown[n]])]
  IN  /\ listed /\ id <= MaxTemplates /\ \A n \in DOMAIN newIds : newIds[n] <= MaxFilters
      /\ Counted
      /\ templates' = ts /\ items' = its
      /\ filters' = filters \o newIds
      /\ content' = [f \in DOMAIN content \cup Range(newIds) |->
                       IF f \in DOMAIN content THEN content[f] ELSE values[unknown[IndexOf(newIds, f) + 1]]]
      /\ Slot(OneByOne(InsertTemplateRow(id) \o FlattenSeq(saves)
                         \o SaveTemplate(ts, its, id) \o SaveAllTemplates(ts, its)))
      /\ numbered' = TRUE
      /\ UNCHANGED <<listed, copies>>

RemoveTemplate(i) ==
  /\ listed /\ Counted
  /\ templates' = RemoveAt(templates, i)
  /\ items' = Without(items, templates[i])
  /\ Slot(OneByOne(DeleteTemplate(templates[i])))
  /\ numbered' = (numbered /\ i = Len(templates))
  /\ UNCHANGED <<filters, content, listed, copies>>

MoveTemplate(i, j) ==
  LET ts == Swapped(templates, i, j)
  IN  /\ listed /\ Counted
      /\ templates' = ts
      /\ Slot(OneByOne(SwapTemplates(ts, i, j) \o SaveTemplate(ts, items, ts[i]) \o SaveTemplate(ts, items, ts[j])))
      /\ UNCHANGED <<items, filters, content, listed, numbered, copies>>

(* The items of the only selected template are changed, and it is saved. *)
SetItems(template, its) ==
  /\ listed /\ Counted
  /\ items' = [items EXCEPT ![template] = its]
  /\ Slot(OneByOne(SaveTemplate(templates, items', template)))
  /\ UNCHANGED <<templates, filters, content, listed, numbered, copies>>

InsertItem(template, filter, at) ==
  Len(items[template]) < MaxItems /\ SetItems(template, InsertAt(items[template], at, filter))
RemoveItem(template, at) == SetItems(template, RemoveAt(items[template], at))
MoveItem(template, i, j) == SetItems(template, Swapped(items[template], i, j))

(* Its name, its color or its notes are edited in the list. *)
TemplateChanged(template) == SetItems(template, items[template])

-----------------------------------------------------------------------------
(* The filters: from their own dialog, and as the items of a template. *)

AddFilter(value) ==
  LET id == NewRowId(db.filterPosition)
      fs == Append(filters, id)
  IN  /\ id <= MaxFilters /\ Counted
      /\ filters' = fs /\ content' = With(content, id, value)
      /\ Slot(OneByOne(InsertFilterRow(id) \o SaveFilter(fs, id, value)))
      /\ UNCHANGED <<templates, items, listed, numbered, copies>>

(* The copy's row is inserted, but the copy is not saved; the last row is refused. *)
DuplicateFilter(i) ==
  LET id == NewRowId(db.filterPosition)
  IN  /\ id <= MaxFilters /\ i < Len(filters) /\ Counted
      /\ filters' = Append(filters, id) /\ content' = With(content, id, content[filters[i]])
      /\ Slot(OneByOne(InsertFilterRow(id)))
      /\ copies' = copies \cup {id}
      /\ UNCHANGED <<templates, items, listed, numbered>>

SetContent(filter, value) ==
  /\ Counted
  /\ content' = [content EXCEPT ![filter] = value]
  /\ Slot(OneByOne(SaveFilter(filters, filter, value)))
  /\ copies' = copies \ {filter}
  /\ UNCHANGED <<templates, items, filters, listed, numbered>>

(* In the filters' dialog: the tree is edited in DlgEditFilter ... *)
EditFilter(i, value) == SetContent(filters[i], value)

(* ... or what else belongs to the filter in the row itself, its tree as it was. *)
FilterChanged(i) == SetContent(filters[i], content[filters[i]])

(* The same from the items of a template. *)
EditItem(template, at, value) == listed /\ SetContent(items[template][at], value)

ItemChanged(template, at) == listed /\ SetContent(items[template][at], content[items[template][at]])

(* The only slot that writes within a transaction. *)
RemoveFilter(i) ==
  LET filter == filters[i]
      affected == Among(templates, {t \in DOMAIN items : filter \in Range(items[t])})
      its == WithoutRefs(items, filter)
  IN  /\ Counted
      /\ filters' = RemoveAt(filters, i) /\ content' = Without(content, filter)
      /\ items' = its
      /\ Slot(<<DeleteFilter(templates, its, filter, affected)>>)
      /\ copies' = copies \ {filter}
      /\ UNCHANGED <<templates, listed, numbered>>

MoveFilter(i, j) ==
  LET fs == Swapped(filters, i, j)
  IN  /\ Counted
      /\ filters' = fs
      /\ Slot(OneByOne(SwapFilters(fs, i, j)))
      /\ UNCHANGED <<templates, items, content, listed, numbered, copies>>

(* One selected filter is replaced with another one in all the templates. *)
ReplaceFilter(from, to) ==
  LET its == [t \in DOMAIN items |-> Replaced(items[t], from, to)]
  IN  /\ from # to /\ Counted
      /\ items' = its
      /\ Slot(OneByOne(SaveAllTemplates(templates, its)))
      /\ numbered' = TRUE
      /\ UNCHANGED <<templates, filters, content, listed, copies>>

-----------------------------------------------------------------------------
ExecuteNext ==
  /\ todo # <<>>
  /\ db' = Transacted(Head(todo), db)
  /\ todo' = Tail(todo)
  /\ UNCHANGED <<lists, listed, remembered>>

(* The program ends, in the midst of a slot or not, and is started again. *)
Reopen ==
  /\ templates' = Listed(db.position)
  /\ items' = LoadedItems(db)
  /\ filters' = Listed(db.filterPosition)
  /\ content' = db.content
  /\ todo' = <<>> /\ listed' = FALSE
  /\ former' = items' /\ copies' = {}
  /\ numbered' = (numbered /\ todo = <<>>)
  /\ UNCHANGED <<db, edits>>

Adjacent(list) == {rows \in (DOMAIN list) \X (DOMAIN list) : rows[1] - rows[2] \in {-1, 1}}

StoreNext ==
  \/ OpenTemplates \/ CloseTemplates \/ FiltersManaged \/ AddTemplate
  \/ \E values \in BoundedSeq(Contents, MaxItems) : ImportTemplate(values)
  \/ \E i \in DOMAIN templates : RemoveTemplate(i)
  \/ \E rows \in Adjacent(templates) : MoveTemplate(rows[1], rows[2])
  \/ \E t \in DOMAIN items :
       \/ \E filter \in DOMAIN content, at \in 1..Len(items[t]) + 1 : InsertItem(t, filter, at)
       \/ \E at \in DOMAIN items[t] :
            RemoveItem(t, at) \/ ItemChanged(t, at) \/ \E value \in Contents : EditItem(t, at, value)
       \/ TemplateChanged(t)
       \/ \E rows \in Adjacent(items[t]) : MoveItem(t, rows[1], rows[2])
  \/ \E value \in Contents : AddFilter(value)
  \/ \E i \in DOMAIN filters :
       DuplicateFilter(i) \/ RemoveFilter(i) \/ FilterChanged(i) \/ \E value \in Contents : EditFilter(i, value)
  \/ \E rows \in Adjacent(filters) : MoveFilter(rows[1], rows[2])
  \/ \E from, to \in DOMAIN content : ReplaceFilter(from, to)
  \/ ExecuteNext
  \/ Reopen

StoreSpec == StoreInit /\ [][StoreNext]_storeVars

-----------------------------------------------------------------------------
AllWritten == todo = <<>>

(* Once a slot has written everything, each filter that was saved since it *)
(* was duplicated is stored as it is shown, and no template refers, in the *)
(* tables or in memory, to a filter that is gone: removing a filter takes  *)
(* it out of every template, in one transaction.                           *)
FiltersKept ==
  AllWritten =>
    /\ DOMAIN db.content = DOMAIN content /\ Range(filters) = DOMAIN content
    /\ \A filter \in DOMAIN content \ copies : db.content[filter] = content[filter]
    /\ \A t \in DOMAIN db.items : Range(db.items[t]) \subseteq DOMAIN db.content
    /\ \A t \in DOMAIN items : Range(items[t]) \subseteq DOMAIN content

(* Since all templates were last saved, and as long as none before others   *)
(* is removed and no save is interrupted, the next start lists the          *)
(* templates in the order in which the user put them.                       *)
OrderKept == AllWritten /\ numbered => Listed(db.position) = templates

(* Database.cpp:562, :764: what the dialogs show is what the next start shows. *)
StoredAsListed == FiltersKept /\ OrderKept

TemplatesWritten(transaction) ==
  {transaction[i].id : i \in {n \in DOMAIN transaction :
     transaction[n].kind \notin {"insert filter", "place filter", "delete nodes", "insert nodes", "delete filter"}}}

Shelf == INSTANCE TemplateShelf WITH
  shelf <- items,
  writing <- UNION {TemplatesWritten(todo[i]) : i \in DOMAIN todo}

(* The lists, the tables and the dialogs implement the shelf of templates:  *)
(* a slot changes only templates that it then writes, and an end of the     *)
(* program costs nothing but items of the templates being written.          *)
ImplementsShelf == Shelf!ShelfSpec
=============================================================================
