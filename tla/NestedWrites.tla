---------------------------- MODULE NestedWrites ----------------------------
(***************************************************************************)
(* Relations in the values of a Create or an Update                        *)
(* (service/metadata/association.go): targets are named by their ids, or   *)
(* given as records that are created first.  A belongsTo and an array of   *)
(* ids are kept in columns of the record itself, and so are written with   *)
(* it; a hasMany, hasOne or belongsToMany is set when the record is there. *)
(*                                                                         *)
(* All of it is one transaction.  Relations has transactions that overlap  *)
(* and the calls that change one relation; here writes follow one another, *)
(* and several relations, perhaps kept in the same place, are written at   *)
(* once.  The targets have no relation fields of their own.                *)
(***************************************************************************)
EXTENDS Integers, FiniteSets

CONSTANTS
  RelFields,        \* the relation fields of the source collection
  Kind,             \* the type of each
  KeyGiven,         \* its option foreignKey (through, for a belongsToMany), or Unset
  Unset,
  FieldNames,       \* the fields that have a column in the sources
  Sources, Targets, \* ids of records
  Lists,            \* what may be given for several targets: ids, and how many are created
  FirstKept,        \* what the tables may hold at first
  MaxLinked,        \* MaxPageSize
  MaxNested         \* bound: writes

InColumn == {"belongsTo", "belongsToManyArray"}
OneEach == {"hasMany", "hasOne"}

VARIABLES
  kept,    \* committed: the records that are there, and the links between them
  write,   \* the write that is under way
  nested   \* number of writes

nestedVars == <<kept, write, nested>>

-----------------------------------------------------------------------------
(***************************************************************************)
(* Where links are kept.  A link <<p, s, t>> is target t in column p of    *)
(* source s, source s in column p of target t, or a row of table p.        *)
(***************************************************************************)
\* relationOptsFromMap
Place(f) ==
  IF Kind[f] = "belongsToManyArray" THEN f
  ELSE IF KeyGiven[f] # Unset THEN KeyGiven[f]
  ELSE IF Kind[f] = "belongsTo" THEN f ELSE <<Kind[f], f>>

\* What the tables may hold: records that are there, and links.
Link == (FieldNames \cup {Place(f) : f \in RelFields}) \X Sources \X Targets
Tables == [there : SUBSET (Sources \cup Targets), links : SUBSET Link]

ASSUME NestedAssumption ==
  /\ Kind \in [RelFields -> InColumn \cup OneEach \cup {"belongsToMany"}]
  /\ {f \in RelFields : Kind[f] \in InColumn} \subseteq FieldNames
  /\ Lists \subseteq (SUBSET Targets) \X (0..1)
  /\ FirstKept \subseteq Tables /\ IsFiniteSet(Targets)
  /\ MaxLinked \in Nat \ {0} /\ MaxNested \in Nat

InRow(links, p, s) == {l \in links : l[1] = p /\ l[2] = s}
InTarget(links, p, t) == {l \in links : l[1] = p /\ l[3] = t}

\* The targets that are loaded with a source.  What a belongsTo loads is in its
\* foreign key, if that is a field.
Loaded(f, s, k) ==
  {t \in Targets \cap k.there :
     /\ <<Place(f), s, t>> \in k.links
     /\ Kind[f] = "belongsTo" => Place(f) \in FieldNames}

\* What an append may show: a hasOne shows one of those that are loaded.
Shown(f, s, k) ==
  LET loaded == Loaded(f, s, k) IN
  IF Kind[f] = "hasOne" /\ loaded # {} THEN {{t} : t \in loaded} ELSE {loaded}

\* ListAssociation looks in the field itself, where an array has its ids.
ListedAlone(f, s, k) == IF Kind[f] = "belongsToManyArray" THEN {{}} ELSE Shown(f, s, k)

-----------------------------------------------------------------------------
(***************************************************************************)
(* The values of a write.                                                  *)
(***************************************************************************)
Omitted == [given |-> FALSE, ids |-> {}, new |-> 0]
Named(ids, n) == [given |-> TRUE, ids |-> ids, new |-> n]
Null == Named({}, 0)

\* What may be given for a field: null or, where there can be several, none; ids,
\* of records that may not exist; records to be created.
Values(f) ==
  IF Kind[f] = "belongsTo" THEN {Null, Named({}, 1)} \cup {Named({t}, 0) : t \in Targets}
  ELSE {Named(l[1], l[2]) : l \in Lists}

NotWriting == [at |-> "idle", op |-> "none", rows |-> {}, values |-> [f \in RelFields |-> Omitted],
               todo |-> {}, columns |-> {}, made |-> [f \in RelFields |-> {}],
               whole |-> RelFields, staged |-> [there |-> {}, links |-> {}]]

NestedInit == kept \in FirstKept /\ write = NotWriting /\ nested = 0

\* One or two fields are given.
StartWrite ==
  /\ write.at = "idle" /\ nested < MaxNested
  /\ \E op \in {"create", "update", "updateWhere"}, f, g \in RelFields :
     \E x \in Values(f), y \in Values(g) :
       LET present == Sources \cap kept.there IN
       \E rows \in CASE op = "create" -> {{s} : s \in Sources \ present}
                     [] op = "update" -> {{s} : s \in present}
                     [] OTHER -> SUBSET present :
         /\ f = g => x = y
         /\ write' = [NotWriting EXCEPT !.at = "resolve", !.op = op, !.rows = rows,
                        !.values = [NotWriting.values EXCEPT ![f] = x, ![g] = y], !.staged = kept,
                        !.todo = {f, g} \cap {h \in RelFields : Kind[h] \in InColumn}]
  /\ nested' = nested + 1
  /\ UNCHANGED kept

\* The ids of n targets that are created: nobody knows them yet.
Creations(n) ==
  LET known == write.staged.there \cup {l[3] : l \in write.staged.links}
                 \cup UNION {write.values[f].ids : f \in RelFields}
                 \cup UNION {write.made[f] : f \in RelFields} IN
  {ids \in SUBSET (Targets \ known) : Cardinality(ids) = n}

\* processAssociationWrites: ids are not looked up.  A belongsTo is written to its
\* foreign key as well as to the column of its own name, except null.
Resolve(f) ==
  LET v == write.values[f] IN
  /\ write.at = "resolve" /\ f \in write.todo
  /\ \E ids \in Creations(v.new) :
       LET linked == v.ids \cup ids
           columns == IF linked = {} THEN {f} ELSE {f, Place(f)} IN
       write' = [write EXCEPT !.todo = @ \ {f}, !.made = [write.made EXCEPT ![f] = ids],
                   !.staged = [there |-> @.there \cup ids, links |-> @.links],
                   !.columns = @ \cup ((columns \cap FieldNames) \X {linked})]
  /\ UNCHANGED <<kept, nested>>

Written(links, columns, rows) ==
     {l \in links : ~(l[2] \in rows /\ \E c \in columns : c[1] = l[1])}
  \cup UNION {{<<c[1], s, t>> : s \in rows, t \in c[2]} : c \in columns}

\* INSERT or UPDATE; then the other relations, unless it is an Update by filter.
WriteRow ==
  /\ write.at = "resolve" /\ write.todo = {}
  /\ write' = [write EXCEPT
       !.at = "associate",
       !.staged = [there |-> @.there \cup write.rows,
                   links |-> Written(@.links, write.columns, write.rows)],
       !.todo = IF write.op = "updateWhere" THEN {}
                ELSE {f \in RelFields : write.values[f].given /\ Kind[f] \notin InColumn}]
  /\ UNCHANGED <<kept, nested>>

\* (slip) Nothing is cleared.
ClearedNever(links, f, s) == {{}}

\* Links that SetAssociation clears: a page of those of a hasMany.
Cleared(links, f, s) ==
  LET old == InRow(links, Place(f), s)
      size == IF Cardinality(old) < MaxLinked THEN Cardinality(old) ELSE MaxLinked IN
  IF Kind[f] \in OneEach THEN {page \in SUBSET old : Cardinality(page) = size} ELSE {old}

Fits(links, f, s) ==
  Kind[f] \in OneEach => Cardinality(InRow(links, Place(f), s)) <= MaxLinked

\* AddAssociation: a target has one source in a column of its own.
Linked(links, f, s, ids) ==
  (IF Kind[f] \in OneEach THEN links \ UNION {InTarget(links, Place(f), t) : t \in ids} ELSE links)
    \cup {<<Place(f), s, t>> : t \in ids}

\* applyPendingAssociations, in any order, as a Go map is gone through.
Associate(f) ==
  LET v == write.values[f]
      links == write.staged.links IN
  /\ write.at = "associate" /\ f \in write.todo
  /\ v.ids \subseteq write.staged.there
  /\ \E s \in write.rows, ids \in Creations(v.new) : \E cleared \in Cleared(links, f, s) :
       write' = [write EXCEPT
         !.todo = @ \ {f}, !.made = [write.made EXCEPT ![f] = ids],
         !.whole = IF Fits(links, f, s) THEN @ ELSE @ \ {f},
         !.staged = [there |-> @.there \cup ids,
                     links |-> Linked(links \ cleared, f, s, v.ids \cup ids)]]
  /\ UNCHANGED <<kept, nested>>

CommitNested ==
  /\ write.at = "associate" /\ write.todo = {}
  /\ kept' = write.staged
  /\ write' = NotWriting
  /\ UNCHANGED nested

\* A target that is not found or cannot be created, a rule, a hook, a policy, a
\* statement, the commit.
NestedFails ==
  /\ write.at # "idle"
  /\ write' = NotWriting
  /\ UNCHANGED <<kept, nested>>

NestedNext ==
  \/ StartWrite \/ WriteRow \/ CommitNested \/ NestedFails
  \/ \E f \in RelFields : Resolve(f) \/ Associate(f)

NestedSpec == NestedInit /\ [][NestedNext]_nestedVars

-----------------------------------------------------------------------------
(***************************************************************************)
(* Properties.                                                             *)
(***************************************************************************)
Given == {f \in RelFields : write.values[f].given}

\* Another field that is given is kept in the same place, or in this one's column.
Contested(f) == \E g \in Given \ {f} : Place(g) = Place(f) \/ g = Place(f) \/ f = Place(g)

\* Clearing a belongsTo whose foreign key is another field leaves the link, and one
\* whose foreign key is no field shows nothing.
Detached(f) ==
  Kind[f] = "belongsTo" /\ Place(f) # f
    /\ (write.values[f] = Null \/ Place(f) \notin FieldNames)

\* Update by filter takes no notice of relations that are not in columns.
Heeded(f) == Kind[f] \in InColumn \/ write.op # "updateWhere"

\* What is shown with a source is what is expected, of several in a hasOne one; and
\* what is listed alone is no other, unless it is an array.
Shows(f, s, k, expected) ==
  /\ \A answer \in Shown(f, s, k) :
       IF Kind[f] = "hasOne" THEN answer \subseteq expected /\ (answer = {} <=> expected = {})
       ELSE answer = expected
  /\ \A list \in ListedAlone(f, s, k) :
       list \in Shown(f, s, k) \/ Kind[f] = "belongsToManyArray"

\* A write leaves what it was given: before the commit every relation that it gives
\* shows exactly the targets that it names, of those that are there, and the ones
\* created for it (unless two of its fields share a place, or more was linked than a
\* page holds); the other relations of the record show what they showed, and other
\* records have lost no target but those that were moved.
NestedWhole ==
  write.at = "associate" /\ write.todo = {} =>
    LET staged == write.staged
        moved == UNION {write.values[f].ids : f \in Given}
        places == {Place(f) : f \in Given} \cup Given IN
    /\ \A f \in Given, s \in write.rows :
         f \in write.whole /\ Heeded(f) /\ ~Contested(f) /\ ~Detached(f) =>
           Shows(f, s, staged, (write.values[f].ids \cap staged.there) \cup write.made[f])
    /\ \A f \in RelFields, s \in Sources \cap kept.there :
         LET gone == Loaded(f, s, kept) \ Loaded(f, s, staged) IN
         /\ s \in write.rows /\ Place(f) \notin places /\ f \notin places => gone = {}
         /\ s \notin write.rows => gone \subseteq moved
=============================================================================
