------------------------------ MODULE Filters ------------------------------
(***************************************************************************)
(* Filters: the value in MySQL of the WHERE clause that the server builds  *)
(* for one (service/metadata/filter.go, operator.go), and, to compare it   *)
(* with, what a filter says of a record.                                   *)
(*                                                                         *)
(* A filter is a map, whose entries come in any order; here it is a        *)
(* sequence of them.  A column is given as a path, through relations.      *)
(* Operators on text (LIKE, $empty, $includes) and logical operators below *)
(* a column are left out; a column that the table does not have, or an     *)
(* unknown operator, makes the request fail.                               *)
(***************************************************************************)
EXTENDS Integers, Sequences

CONSTANTS
  Nil,          \* NULL, and nil
  Relation      \* Relation[coll][field]: the options of a relation field

\* A database is a set of rows for each table.  Every row has an "id", which
\* source and target keys are; a row of a through table has a source and an other.

\* The entries of a filter, and the conditions on a column.
AllOf(filters) == [key |-> "$and", of |-> filters]
AnyOf(filters) == [key |-> "$or", of |-> filters]
NoneOf(filter) == [key |-> "$not", of |-> <<filter>>]
ColumnIs(path, conditions) == [key |-> "column", path |-> path, conditions |-> conditions]
Is(op, args) == [op |-> op, args |-> args]

-----------------------------------------------------------------------------
(***************************************************************************)
(* The three values of a condition.                                        *)
(***************************************************************************)
Truth(b) == IF b THEN "true" ELSE "false"
Some(v, seq) == \E n \in DOMAIN seq : seq[n] = v

Not(v) == CASE v = "true" -> "false" [] v = "false" -> "true" [] OTHER -> "null"

\* An empty conjunction is "1=1", and so is an empty $or.
Conjunction(values) ==
  IF Some("false", values) THEN "false" ELSE IF Some("null", values) THEN "null" ELSE "true"

Disjunction(values) ==
  IF values = <<>> \/ Some("true", values) THEN "true"
  ELSE IF Some("null", values) THEN "null" ELSE "false"

\* Comparisons with NULL.
Compared(a, b, holds) == IF a = Nil \/ b = Nil THEN "null" ELSE Truth(holds)

\* The operators.  "= NULL" would be neither true nor false.
Condition(v, c) ==
  LET x == IF c.args = <<>> THEN Nil ELSE c.args[1]
      Among == IF Some(v, c.args) /\ v # Nil THEN "true"
               ELSE IF v = Nil \/ Some(Nil, c.args) THEN "null" ELSE "false"
      Within == Conjunction(<<Compared(v, x, v >= x), Compared(v, c.args[2], v <= c.args[2])>>) IN
  CASE c.op = "$eq" -> IF x = Nil THEN Truth(v = Nil) ELSE Compared(v, x, v = x)
    [] c.op = "$ne" -> IF x = Nil THEN Truth(v # Nil) ELSE Compared(v, x, v # x)
    [] c.op = "$gt" -> Compared(v, x, v > x)
    [] c.op = "$gte" -> Compared(v, x, v >= x)
    [] c.op = "$lt" -> Compared(v, x, v < x)
    [] c.op = "$lte" -> Compared(v, x, v <= x)
    [] c.op = "$in" -> IF c.args = <<>> THEN "false" ELSE Among
    [] c.op = "$notIn" -> IF c.args = <<>> THEN "true" ELSE Not(Among)
    [] c.op = "$between" -> Within
    [] c.op = "$notBetween" -> Not(Within)
    [] c.op = "$isNull" -> Truth(v = Nil)
    [] c.op = "$notNull" -> Truth(v # Nil)

Conditions(v, conditions) == Conjunction([n \in DOMAIN conditions |-> Condition(v, conditions[n])])

-----------------------------------------------------------------------------
(***************************************************************************)
(* BuildWhereClause.  Scope[t] is the row that the name of table t means:  *)
(* the innermost of that table.                                            *)
(***************************************************************************)
\* (slip) What a record belongs to is looked up by the record's own key.
JoinedByKey(coll, r, t, scope, db) ==
  IF r.kind = "hasMany" THEN t[r.fk] = scope[coll].id ELSE t.id = scope[coll].id

\* The condition that joins row t of the target to the row of the collection.
Joined(coll, r, t, scope, db) ==
  CASE r.kind = "belongsTo" -> t.id = scope[coll][r.fk]
    [] r.kind = "hasMany" -> t[r.fk] = scope[coll].id
    [] r.kind = "belongsToMany" ->
         \E p \in db[r.through] : p.other = t.id /\ p.source = scope[coll].id

RECURSIVE Column(_, _, _, _, _)
Column(coll, path, conditions, scope, db) ==
  IF Len(path) = 1 THEN Conditions(scope[coll][path[1]], conditions)
  ELSE LET r == Relation[coll][path[1]]
           Inside(t) == [scope EXCEPT ![r.target] = t] IN
       Truth(\E t \in db[r.target] :
               /\ Joined(coll, r, t, Inside(t), db)
               /\ Column(r.target, Tail(path), conditions, Inside(t), db) = "true")

RECURSIVE Where(_, _, _, _)
Where(coll, filter, scope, db) ==
  LET Values(filters) == [n \in DOMAIN filters |-> Where(coll, filters[n], scope, db)]
      Entry(e) ==
        CASE e.key = "$and" -> Conjunction(Values(e.of))
          [] e.key = "$or" -> Disjunction(Values(e.of))
          [] e.key = "$not" -> Not(Where(coll, e.of[1], scope, db))
          [] e.key = "column" -> Column(coll, e.path, e.conditions, scope, db) IN
  Conjunction([n \in DOMAIN filter |-> Entry(filter[n])])

\* The rows that SELECT ... WHERE keeps.
Kept(coll, filter, db) ==
  {row \in db[coll] : Where(coll, filter, [t \in DOMAIN db |-> IF t = coll THEN row ELSE Nil], db) = "true"}

-----------------------------------------------------------------------------
(***************************************************************************)
(* What a filter says, in two values: whether it is met, or (yes = FALSE)  *)
(* whether it is known not to be met, which $not asks for.  Of a value     *)
(* that is not there no comparison says anything.                          *)
(***************************************************************************)
Related(coll, r, row, db) ==
  CASE r.kind = "belongsTo" -> {t \in db[r.target] : row[r.fk] = t.id}
    [] r.kind = "hasMany" -> {t \in db[r.target] : t[r.fk] = row.id}
    [] r.kind = "belongsToMany" ->
         {t \in db[r.target] : \E p \in db[r.through] : p.source = row.id /\ p.other = t.id}

Meets(v, c, yes) ==
  LET args == {c.args[n] : n \in DOMAIN c.args}
      known == v # Nil /\ Nil \notin args
      Inside == known /\ v \in c.args[1]..c.args[2]
      Outside == v # Nil /\ \/ c.args[1] # Nil /\ v < c.args[1]
                            \/ c.args[2] # Nil /\ v > c.args[2] IN
  IF c.op = "$isNull" \/ (c.op = "$eq" /\ args = {Nil}) THEN (v = Nil) = yes
  ELSE IF c.op = "$notNull" \/ (c.op = "$ne" /\ args = {Nil}) THEN (v # Nil) = yes
  ELSE IF c.op \in {"$in", "$notIn"} /\ args = {} THEN yes = (c.op = "$notIn") ELSE
  CASE c.op = "$in" -> IF yes THEN v # Nil /\ v \in args ELSE known /\ v \notin args
    [] c.op = "$notIn" -> IF yes THEN known /\ v \notin args ELSE v # Nil /\ v \in args
    [] c.op = "$eq" -> known /\ (v = c.args[1]) = yes
    [] c.op = "$ne" -> known /\ (v = c.args[1]) # yes
    [] c.op = "$gt" -> known /\ (v > c.args[1]) = yes
    [] c.op = "$gte" -> known /\ (v < c.args[1]) # yes
    [] c.op = "$lt" -> known /\ (v < c.args[1]) = yes
    [] c.op = "$lte" -> known /\ (v > c.args[1]) # yes
    [] c.op = "$between" -> IF yes THEN Inside ELSE Outside
    [] c.op = "$notBetween" -> IF yes THEN Outside ELSE Inside

RECURSIVE SaysOfPath(_, _, _, _, _, _)
SaysOfPath(coll, path, conditions, row, db, yes) ==
  IF Len(path) > 1
  THEN LET r == Relation[coll][path[1]] IN
       yes = \E t \in Related(coll, r, row, db) :
               SaysOfPath(r.target, Tail(path), conditions, t, db, TRUE)
  ELSE LET Met(n) == Meets(row[path[1]], conditions[n], yes) IN
       IF yes THEN \A n \in DOMAIN conditions : Met(n) ELSE \E n \in DOMAIN conditions : Met(n)

RECURSIVE Says(_, _, _, _, _)
Says(coll, filter, row, db, yes) ==
  LET SomeOf(filters, y) == \E n \in DOMAIN filters : Says(coll, filters[n], row, db, y)
      EachOf(filters, y) == \A n \in DOMAIN filters : Says(coll, filters[n], row, db, y)
      Met(e) ==
        CASE e.key = "$and" -> IF yes THEN EachOf(e.of, TRUE) ELSE SomeOf(e.of, FALSE)
          [] e.key = "$or" /\ e.of = <<>> -> yes
          [] e.key = "$or" /\ e.of # <<>> -> IF yes THEN SomeOf(e.of, TRUE) ELSE EachOf(e.of, FALSE)
          [] e.key = "$not" -> SomeOf(e.of, ~yes)
          [] e.key = "column" -> SaysOfPath(coll, e.path, e.conditions, row, db, yes) IN
  IF yes THEN \A n \in DOMAIN filter : Met(filter[n]) ELSE \E n \in DOMAIN filter : Met(filter[n])

\* A path leads from a collection to itself in one step: in the clause the names
\* of both tables are those of the inner one.
RECURSIVE Doubles(_, _)
Doubles(coll, path) ==
  /\ Len(path) > 1
  /\ LET r == Relation[coll][path[1]] IN r.target = coll \/ Doubles(r.target, Tail(path))

RECURSIVE NamesTwice(_, _)
NamesTwice(coll, filter) ==
  \E n \in DOMAIN filter :
    IF filter[n].key = "column" THEN Doubles(coll, filter[n].path)
    ELSE \E m \in DOMAIN filter[n].of : NamesTwice(coll, filter[n].of[m])
=============================================================================
