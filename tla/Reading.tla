------------------------------ MODULE Reading ------------------------------
(***************************************************************************)
(* A client that lists the records of one collection page by page          *)
(* (controller/metadata/crud_controller.go: List), with the records that   *)
(* they are linked to (appends, service/metadata/association.go), while    *)
(* others write.  A list is a Find, one more Find or two for each appended *)
(* relation, and a Count: statements of their own, in no transaction, each *)
(* of which reads what is committed at its time.                           *)
(*                                                                         *)
(* Hooks and policies, which Access has, change nothing here.  What others *)
(* write is one transaction at a time.                                     *)
(***************************************************************************)
EXTENDS Filters, FiniteSets, SequencesExt

CONSTANTS
  Coll,                 \* the collection that is listed
  FirstTables,          \* what the database may hold at first
  Edits,                \* what others may write: a table, an id, a row or nothing
  Lists,                \* the lists that the client may ask for
  KeyColumns,           \* the id and the foreign keys of the collection
  SpecialOption,        \* treeParentKey and such, as given at its creation, or Unnamed
  Unnamed,
  MaxPageSize,
  MaxNest,              \* levels of a tree that are nested (8)
  MaxEdits              \* bound: edits while the client reads

\* applySpecialCollectionDefaults: the columns of a tree, a calendar or a list of
\* comments, which CreateCollection adds.
DefaultKey == [treeParentKey |-> "parent_id", calendarStartField |-> "start",
               calendarEndField |-> "end", commentForeignKey |-> "target_id"]
SpecialKey(o) == IF SpecialOption[o] = Unnamed THEN DefaultKey[o] ELSE SpecialOption[o]

\* The children of a record of a tree are an append, but no field.
Appendable(f) ==
  IF f = "children" THEN [kind |-> "tree", fk |-> SpecialKey("treeParentKey"), target |-> Coll]
  ELSE Relation[Coll][f]
Appendables == DOMAIN Relation[Coll] \cup {"children"}

\* Sorting is by columns, ascending or descending.  A client selects columns,
\* or all but some; those that are no keys are left out.
IsList(q) ==
  /\ q.size \in Nat \ {0} /\ q.offset \in Nat
  /\ q.fields \cup q.except \subseteq KeyColumns
  /\ \A n \in DOMAIN q.sort : q.sort[n].desc \in BOOLEAN
  /\ q.type \in {"general", "tree", "calendar", "comment"}
  /\ \A n \in DOMAIN q.appends : q.appends[n] \in Appendables
  /\ "children" \in ToSet(q.appends) => q.type = "tree"

ASSUME ReadingAssumption ==
  /\ "id" \in KeyColumns
  /\ \A f \in DOMAIN Relation[Coll] :
       Relation[Coll][f].kind = "belongsTo" => Relation[Coll][f].fk \in KeyColumns
  /\ \A q \in Lists : IsList(q)
  /\ DOMAIN SpecialOption = DOMAIN DefaultKey /\ "children" \notin DOMAIN Relation[Coll]
  /\ MaxPageSize \in Nat \ {0} /\ MaxNest \in Nat /\ MaxEdits \in Nat

VARIABLES
  tables,       \* the committed rows
  list,         \* what the client asks for
  reader,       \* where the request is, its page, what it has found and appended
  readSoFar,    \* the ids on the pages that the client has been given
  edits,
  said,         \* history: the rows that the filter said when they were selected
  calm,         \* history: nothing was written since the client asked first
  cut,          \* history: linked records did not fit in a page
  linkedOnce,   \* history: links there were at some time of the request,
  linkedAlways  \* and those, with both records, that there were all the time

readingVars == <<tables, list, reader, readSoFar, edits, said, calm, cut, linkedOnce,
                 linkedAlways>>

AtRest == [at |-> "idle", page |-> 1, rows |-> <<>>, todo |-> <<>>, ids |-> {}, next |-> 1,
           appended |-> {}, outline |-> {}, total |-> 0]

\* The links of the database: relation, id, linked id.
Pointers(db) ==
  UNION {LET r == Appendable(f) IN
    CASE r.kind = "belongsTo" -> {<<f, row.id, row[r.fk]>> : row \in db[Coll]}
      [] r.kind \in {"hasMany", "tree"} -> {<<f, t[r.fk], t.id>> : t \in db[r.target]}
      [] r.kind = "belongsToMany" -> {<<f, p.source, p.other>> : p \in db[r.through]}
    : f \in Appendables}

Links(db) ==
  {l \in Pointers(db) : /\ \E row \in db[Coll] : row.id = l[2]
                        /\ \E t \in db[Appendable(l[1]).target] : t.id = l[3]}

ReadingInit ==
  /\ tables \in FirstTables
  /\ list \in Lists
  /\ reader = AtRest /\ readSoFar = <<>>
  /\ edits = 0
  /\ said = {} /\ calm = TRUE /\ cut = FALSE /\ linkedOnce = {} /\ linkedAlways = {}

-----------------------------------------------------------------------------
(***************************************************************************)
(* What others write.                                                      *)
(***************************************************************************)
Edited(db, e) ==
  [db EXCEPT ![e.table] = {row \in @ : row.id # e.id} \cup e.row]

Edit ==
  /\ edits < MaxEdits /\ reader.at # "idle"
  /\ edits' = edits + 1
  /\ \E e \in Edits : tables' = Edited(tables, e)
  /\ calm' = FALSE
  /\ linkedOnce' = linkedOnce \cup Pointers(tables')
  /\ linkedAlways' = linkedAlways \cap Links(tables')
  /\ UNCHANGED <<list, reader, readSoFar, said, cut>>

-----------------------------------------------------------------------------
(***************************************************************************)
(* applySpecialCollectionQuery: a calendar is asked for a window, comments *)
(* for those on one record.  That takes the place of what the client's     *)
(* filter says of the column.                                              *)
(***************************************************************************)
Special(q) ==
  LET From(o, op, v) == IF v = Nil THEN <<>> ELSE <<ColumnIs(<<SpecialKey(o)>>, <<Is(op, <<v>>)>>)>> IN
  CASE q.type = "calendar" -> From("calendarStartField", "$gte", q.start)
                              \o From("calendarEndField", "$lte", q.end)
    [] q.type = "comment" -> From("commentForeignKey", "$eq", q.target)
    [] OTHER -> <<>>

Unreplaced(q) ==
  SelectSeq(q.filter, LAMBDA e :
    ~(e.key = "column" /\ \E n \in DOMAIN Special(q) : Special(q)[n].path = e.path))

FilterOf(q) == Unreplaced(q) \o Special(q)

-----------------------------------------------------------------------------
(***************************************************************************)
(* Find.                                                                   *)
(***************************************************************************)
\* ORDER BY: NULL comes before everything else; what is equal comes in any
\* order.
Before(a, b) == b # Nil /\ (a = Nil \/ a < b)

Precedes(row, other, sort) ==
  \E n \in DOMAIN sort :
    /\ \A m \in 1..(n - 1) : row[sort[m].by] = other[sort[m].by]
    /\ LET a == row[sort[n].by]  b == other[sort[n].by] IN
       IF sort[n].desc THEN Before(b, a) ELSE Before(a, b)

Arranged(rows, sort) ==
  {s \in SetToSeqs(rows) : \A i, j \in DOMAIN s : i < j => ~Precedes(s[j], s[i], sort)}

\* The offset goes by the page size that was asked for, ...
OffsetOf(q, page) == IF q.offset > 0 THEN q.offset ELSE (page - 1) * q.size

\* ... of which no more than MaxPageSize records come.
PageOf(s, q, page) ==
  LET limit == IF q.size > MaxPageSize THEN MaxPageSize ELSE q.size
      from == OffsetOf(q, page) IN
  SubSeq(s, from + 1, IF from + limit > Len(s) THEN Len(s) ELSE from + limit)

\* applyFieldSelection: the id is selected unless the client excepts it.
Picked(q) == (IF q.fields = {} THEN KeyColumns ELSE q.fields \cup {"id"}) \ q.except

Get(row, column) == IF column \in Picked(list) THEN row[column] ELSE Nil

Start ==
  /\ reader.at = "idle"
  /\ reader' = [reader EXCEPT !.at = "find"]
  /\ linkedOnce' = Pointers(tables) /\ linkedAlways' = Links(tables)
  /\ UNCHANGED <<tables, list, readSoFar, edits, said, calm, cut>>

\* In two values: what has no start or end, or a later one, is not in the window.
InWindow(row) ==
  LET Lies(o, v, holds(_)) == v # Nil => row[SpecialKey(o)] # Nil /\ holds(row[SpecialKey(o)]) IN
  CASE list.type = "calendar" ->
         /\ Lies("calendarStartField", list.start, LAMBDA x : x \notin 0..(list.start - 1))
         /\ Lies("calendarEndField", list.end, LAMBDA x : x \in 0..list.end)
    [] list.type = "comment" -> Lies("commentForeignKey", list.target, LAMBDA x : x = list.target)
    [] OTHER -> TRUE

FindPage ==
  /\ reader.at = "find"
  /\ \E s \in Arranged(Kept(Coll, FilterOf(list), tables), list.sort) :
       LET rows == PageOf(s, list, reader.page) IN
       reader' = [reader EXCEPT !.rows = rows, !.at = "append",
                                !.todo = IF rows = <<>> THEN <<>> ELSE list.appends]
  /\ said' = {row \in tables[Coll] : /\ Says(Coll, Unreplaced(list), row, tables, TRUE)
                                     /\ InWindow(row)}
  /\ UNCHANGED <<tables, list, readSoFar, edits, calm, cut, linkedOnce, linkedAlways>>

-----------------------------------------------------------------------------
(***************************************************************************)
(* loadAppends: for each relation a Find of the target, of one page at     *)
(* most and in no order, and what is found is handed to the records.       *)
(***************************************************************************)
Option == Appendable(reader.todo[1])
Loading(kind) == reader.at = "append" /\ reader.todo # <<>> /\ Option.kind = kind
Listed == {reader.rows[n] : n \in DOMAIN reader.rows}

PagesOf(found) ==
  LET size == IF Cardinality(found) < MaxPageSize THEN Cardinality(found) ELSE MaxPageSize IN
  {page \in SUBSET found : Cardinality(page) = size}

Having(column, values) ==
  Kept(Option.target, <<ColumnIs(<<column>>, <<Is("$in", SetToSeq(values))>>)>>, tables)

\* Of what is found each record is handed what fits, a set of pairs.  The request
\* then goes on with the record at next, or with the relations in todo.
Hand(found, fits, next, todo) ==
  /\ \E page \in PagesOf(found) :
       reader' = [reader EXCEPT
         !.appended = @ \cup {<<reader.todo[1], p[1].id, p[2].id>> :
                              p \in {q \in fits : q[2] \in page}},
         !.at = "append", !.next = next, !.todo = todo]
  /\ cut' = (cut \/ Cardinality(found) > MaxPageSize)
  /\ UNCHANGED <<tables, list, readSoFar, edits, said, calm, linkedOnce, linkedAlways>>

LoadBelongsTo ==
  /\ Loading("belongsTo")
  /\ LET found == Having("id", {Get(row, Option.fk) : row \in Listed} \ {Nil}) IN
     Hand(found, {p \in Listed \X found : p[2].id = Get(p[1], Option.fk)},
          1, Tail(reader.todo))

\* One page for all the records.
LoadHasMany ==
  /\ Loading("hasMany")
  /\ LET found == Having(Option.fk, {Get(row, "id") : row \in Listed}) IN
     Hand(found, {p \in Listed \X found : p[2][Option.fk] = Get(p[1], "id")},
          1, Tail(reader.todo))

\* For one record after the other: the rows of the through table ...
LoadBelongsToMany ==
  /\ Loading("belongsToMany")
  /\ LET source == Get(reader.rows[reader.next], "id") IN
     reader' = [reader EXCEPT !.at = "targets",
       !.ids = {p.other : p \in {q \in tables[Option.through] : source # Nil /\ q.source = source}}]
  /\ UNCHANGED <<tables, list, readSoFar, edits, said, calm, cut, linkedOnce, linkedAlways>>

\* ... and the targets that they name.
LoadTargets ==
  /\ reader.at = "targets"
  /\ LET found == Having("id", reader.ids)
         last == reader.next = Len(reader.rows) IN
     Hand(found, {reader.rows[reader.next]} \X found,
          IF last THEN 1 ELSE reader.next + 1,
          IF last THEN Tail(reader.todo) ELSE reader.todo)

\* nestTreeChildren: what was found is nested, as paths from a record of the list.
\* That ends at a depth, also where records are their own descendants.
Nested(page) ==
  LET Levels[k \in 0..(MaxNest + 1)] ==
        IF k = 0 THEN {<<Get(row, "id")>> : row \in Listed}
        ELSE UNION {{Append(p, c.id) : c \in {c \in page : c[Option.fk] = Last(p)}} : p \in Levels[k - 1]}
  IN UNION {Levels[k] : k \in 1..(MaxNest + 1)}

\* loadTreeChildren: the children of what is on the list, one page of them.
LoadChildren ==
  /\ Loading("tree")
  /\ LET found == Having(Option.fk, {Get(row, "id") : row \in Listed}) IN
     /\ \E page \in PagesOf(found) :
          reader' = [reader EXCEPT
            !.outline = Nested(page), !.todo = Tail(@),
            !.appended = @ \cup {<<"children", c[Option.fk], c.id>> : c \in page}]
     /\ cut' = (cut \/ Cardinality(found) > MaxPageSize)
  /\ UNCHANGED <<tables, list, readSoFar, edits, said, calm, linkedOnce, linkedAlways>>

-----------------------------------------------------------------------------
(***************************************************************************)
(* Count, the answer, and the next page.                                   *)
(***************************************************************************)
CountAll ==
  /\ reader.at = "append" /\ reader.todo = <<>>
  /\ reader' = [reader EXCEPT !.at = "answer",
                              !.total = Cardinality(Kept(Coll, FilterOf(list), tables))]
  /\ UNCHANGED <<tables, list, readSoFar, edits, said, calm, cut, linkedOnce, linkedAlways>>

\* The pages go by the page size that was asked for, too.
TotalPages == (reader.total + list.size - 1) \div list.size

\* The client asks for one page after the other, as many as it is told of.
AnswerList ==
  /\ reader.at = "answer"
  /\ readSoFar' = readSoFar \o [n \in DOMAIN reader.rows |-> reader.rows[n].id]
  /\ reader' = IF reader.page < TotalPages
               THEN [AtRest EXCEPT !.at = "find", !.page = reader.page + 1]
               ELSE [AtRest EXCEPT !.at = "done"]
  /\ cut' = FALSE
  /\ linkedOnce' = Pointers(tables) /\ linkedAlways' = Links(tables)
  /\ UNCHANGED <<tables, list, edits, said, calm>>

\* A statement fails, and with it the request.
ListFails ==
  /\ reader.at \notin {"idle", "done", "failed"}
  /\ reader' = [AtRest EXCEPT !.at = "failed"]
  /\ UNCHANGED <<tables, list, readSoFar, edits, said, calm, cut, linkedOnce, linkedAlways>>

ReadingNext ==
  \/ Edit \/ Start \/ FindPage \/ LoadBelongsTo \/ LoadHasMany \/ LoadBelongsToMany
  \/ LoadTargets \/ LoadChildren \/ CountAll \/ AnswerList \/ ListFails

ReadingSpec == ReadingInit /\ [][ReadingNext]_readingVars

-----------------------------------------------------------------------------
(***************************************************************************)
(* Properties.                                                             *)
(***************************************************************************)
\* The type of the state; a relation is loaded while there are records to
\* hand to, and only once.
ReadingTypeOK ==
  /\ \A t \in DOMAIN tables : \A a, b \in tables[t] : a.id = b.id => a = b
  /\ list \in Lists
  /\ reader.at \in {"idle", "find", "append", "targets", "answer", "done", "failed"}
  /\ reader.todo # <<>> => reader.next \in DOMAIN reader.rows
  /\ reader.at = "targets" => Option.kind = "belongsToMany"
  /\ linkedAlways \subseteq linkedOnce
  /\ edits \in 0..MaxEdits /\ calm \in BOOLEAN /\ cut \in BOOLEAN

\* The WHERE clause, NULLs, empty operands, negation, relations and windows
\* included, keeps the records that the filter speaks of: no others are found,
\* and if nobody writes the total is their number.  (Of a relation from a collection
\* to itself the clause makes something else.)
FiltersMean ==
  ~NamesTwice(Coll, list.filter) =>
    /\ reader.at = "append" => Listed \subseteq said
    /\ reader.at = "answer" /\ calm => reader.total = Cardinality(said)

Sorted == \E n \in DOMAIN list.sort : list.sort[n].by = "id"

\* Whoever reads all pages is given every record that matches, once and in
\* order, provided that nobody writes, that the order leaves nothing open, and
\* that the pages are no larger than MaxPageSize: the records beyond it on a
\* page are on no other.
PagesWhole ==
  reader.at = "done" /\ calm /\ Sorted /\ list.size <= MaxPageSize /\ list.offset = 0 =>
    \E s \in Arranged(Kept(Coll, FilterOf(list), tables), list.sort) :
      readSoFar = [n \in DOMAIN s |-> s[n].id]

\* The column by which the records of a relation are found.
LoadedBy(f) == IF Appendable(f).kind = "belongsTo" THEN Appendable(f).fk ELSE "id"

\* What is appended to a record was linked to it at some time of the request,
\* and what was linked to it all the time is appended, unless the column that
\* names it was not selected or more was found than a page holds.
AppendsTrue ==
  reader.at = "answer" =>
    /\ reader.appended \subseteq linkedOnce
    /\ ~cut =>
         \A n \in DOMAIN list.appends : LoadedBy(list.appends[n]) \in Picked(list) =>
           {l \in linkedAlways : l[1] = list.appends[n] /\ \E row \in Listed : row.id = l[2]}
             \subseteq reader.appended

\* A tree shows a child below its parent, no deeper than it may, and below a record of
\* the list every child that it had all the time, however it got there itself, unless
\* the ids were not selected or more was found than a page holds.
TreeTrue ==
  LET ids == {row.id : row \in Listed}
      paths == reader.outline \cup {<<i>> : i \in ids} IN
  reader.at = "answer" /\ "children" \in ToSet(list.appends) =>
    /\ \A p \in reader.outline :
         /\ Len(p) <= MaxNest + 2
         /\ \A n \in 1..(Len(p) - 1) : <<"children", p[n], p[n + 1]>> \in linkedOnce
    /\ ~cut /\ "id" \in Picked(list) =>
         \A l \in linkedAlways, p \in paths :
           l[1] = "children" /\ l[2] = Last(p) /\ l[2] \in ids /\ Len(p) <= MaxNest + 1 =>
             Append(p, l[3]) \in reader.outline

\* Neither the pages of a list nor what is appended to it leave anything out, and the
\* clause finds what the filter means.
ReadsHold == FiltersMean /\ PagesWhole /\ AppendsTrue /\ TreeTrue
=============================================================================
