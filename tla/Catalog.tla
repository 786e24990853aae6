------------------------------ MODULE Catalog ------------------------------
(***************************************************************************)
(* The catalogue of collections: CreateCollection, DropCollection, Sync    *)
(* and the load at start-up (service/metadata/database.go, collection.go). *)
(* Each call runs one statement after another on MySQL.  DDL commits at    *)
(* once and nothing is in a transaction, so calls interleave between the   *)
(* statements, and a call that fails leaves what it did.                   *)
(*                                                                         *)
(* A table, the rows of a collection and the collection in memory are      *)
(* sets of parts: fields, those that a collection gets unasked among them, *)
(* and indexes.  Through tables, table rules, and the rows of scripts are  *)
(* not modelled.                                                           *)
(***************************************************************************)
EXTENDS Integers, Sequences, FiniteSets

CONSTANTS
  Names,        \* names of collections
  Fields,
  Unloadable,   \* fields of a type that CreateCollection uses (NewIDField and
                \* PresetFieldsMap) and NewField does not know: id, created_at
                \* and updated_at
  Indexes,      \* indexes of one field
  Unique,       \* indexes that are part of CREATE TABLE
  On,           \* On[x] is the field of index x
  Target,       \* Target[f] is the collection that relation field f refers to
  Inputs,       \* the sets of parts that CreateCollection is asked for
  Admins,       \* concurrent requests to the catalogue
  None,
  MaxCalls,     \* bound: requests
  MaxFaults,    \* bound: statements that fail, and restarts
  MaxDepth      \* bound: calls of DropCollection on the stack of a goroutine

Parts == Fields \cup Indexes

ASSUME CatalogAssumption ==
  /\ Unloadable \subseteq Fields
  /\ Unique \subseteq Indexes /\ Fields \cap Indexes = {}
  /\ Names \cap Parts = {} /\ None \notin Names \cup Parts
  /\ On \in [Indexes -> Fields]
  /\ Target \in [Fields -> Names \cup {None}]
  /\ Inputs \subseteq SUBSET Parts
  /\ \A in \in Inputs, x \in Indexes : x \in in => On[x] \in in
  /\ MaxCalls \in Nat /\ MaxFaults \in Nat /\ MaxDepth \in Nat \ {0}

VARIABLES
  tables,       \* names that have a table
  columns,      \* columns[n]: the fields and indexes of the table
  rows,         \* names with a row in "collections"
  parts,        \* parts[n]: rows of n in "fields" and "indexes"
  published,    \* Database.collections
  shape,        \* shape[n]: the parts of a published collection
  call,         \* what each request is doing
  calls,        \* number of requests so far
  faults,       \* number of failures so far
  outcome,      \* history: the last answer for a name that no call has
                \* put in question since, "created" or "dropped"; a created
                \* collection that a start has loaded again is "reloaded"
  raced         \* history: names created or synchronised while being dropped

stored == <<tables, columns, rows, parts>>
memory == <<published, shape>>
history == <<outcome, raced>>
vars == <<stored, memory, call, calls, faults, history>>

Frame(n, want, todo) == [name |-> n, want |-> want, todo |-> todo]
Idle == [at |-> "idle", stack |-> <<>>, item |-> None, cascade |-> FALSE]

CreatePhases ==
  {"create table", "insert collection", "insert parts", "insert index"}
SyncPhases == {"sync table", "read columns", "add columns"}
DropPhases ==
  {"dependents", "loop", "delete fields", "delete indexes", "delete row", "unpublish"}

Init ==
  /\ tables = {}
  /\ columns = [n \in Names |-> {}]
  /\ rows = {}
  /\ parts = [n \in Names |-> {}]
  /\ published = {}
  /\ shape = [n \in Names |-> {}]
  /\ call = [a \in Admins |-> Idle]
  /\ calls = 0 /\ faults = 0
  /\ outcome = [n \in Names |-> "open"]
  /\ raced = {}

-----------------------------------------------------------------------------
At(a, label) == call[a].at = label
Depth(a) == Len(call[a].stack)
Top(a) == call[a].stack[Depth(a)]
Name(a) == Top(a).name
Todo(a) == Top(a).todo

Go(a, label) == call' = [call EXCEPT ![a].at = label]
Answer(a) == call' = [call EXCEPT ![a] = Idle]

\* The call goes on at label with todo left to do.
GoWith(a, label, todo) ==
  call' = [call EXCEPT ![a].at = label, ![a].item = None,
                       ![a].stack[Depth(a)].todo = todo]

Start(a, label, n, want, cascade) ==
  /\ calls < MaxCalls
  /\ calls' = calls + 1
  /\ call' = [call EXCEPT ![a] = [at |-> label, stack |-> <<Frame(n, want, want)>>,
                                  item |-> None, cascade |-> cascade]]

BeingDropped(n) ==
  \E a \in Admins : /\ call[a].at \in DropPhases
                    /\ \E i \in DOMAIN call[a].stack : call[a].stack[i].name = n
BeingMade(n) ==
  \E a \in Admins : /\ call[a].at \in CreatePhases \cup SyncPhases
                    /\ Name(a) = n

\* The parts that CREATE TABLE gives a table.
InTable(want) == want \cap (Fields \cup Unique)

\* CREATE TABLE IF NOT EXISTS
MakeTable(n, want) ==
  /\ tables' = tables \cup {n}
  /\ columns' = IF n \in tables THEN columns
                ELSE [columns EXCEPT ![n] = InTable(want)]

\* DROP TABLE IF EXISTS
RemoveTable(n) ==
  /\ tables' = tables \ {n}
  /\ columns' = [columns EXCEPT ![n] = {}]

-----------------------------------------------------------------------------
(***************************************************************************)
(* CreateCollection.                                                       *)
(***************************************************************************)

\* The name is free in memory.
Create(a) ==
  /\ At(a, "idle")
  /\ \E n \in Names, want \in Inputs :
       /\ n \notin published
       /\ Start(a, "create table", n, want, FALSE)
       /\ outcome' = [outcome EXCEPT ![n] = "open"]
       /\ raced' = IF BeingDropped(n) THEN raced \cup {n} ELSE raced
  /\ UNCHANGED <<stored, memory, faults>>

CreateTable(a) ==
  /\ At(a, "create table")
  /\ MakeTable(Name(a), Top(a).want)
  /\ Go(a, "insert collection")
  /\ UNCHANGED <<rows, parts, memory, calls, faults, history>>

\* (slip) A row that is there already is no error.
InsertCollectionIgnore(a) ==
  /\ At(a, "insert collection")
  /\ rows' = rows \cup {Name(a)}
  /\ Go(a, "insert parts")
  /\ UNCHANGED <<tables, columns, parts, memory, calls, faults, history>>

\* The name is unique in "collections".
InsertCollection(a) ==
  /\ At(a, "insert collection")
  /\ IF Name(a) \notin rows
     THEN rows' = rows \cup {Name(a)} /\ Go(a, "insert parts")
     ELSE Answer(a) /\ UNCHANGED rows
  /\ UNCHANGED <<tables, columns, parts, memory, calls, faults, history>>

\* So is the name of a field of a collection in "fields".
InsertField(a) ==
  /\ At(a, "insert parts")
  /\ \E f \in Todo(a) \cap Fields :
       IF f \notin parts[Name(a)]
       THEN /\ parts' = [parts EXCEPT ![Name(a)] = @ \cup {f}]
            /\ GoWith(a, "insert parts", Todo(a) \ {f})
       ELSE Answer(a) /\ UNCHANGED parts
  /\ UNCHANGED <<tables, columns, rows, memory, calls, faults, history>>

\* AddIndex: CREATE INDEX for those that CREATE TABLE has not made.
CreateIndex(a) ==
  /\ At(a, "insert parts")
  /\ Todo(a) \cap Fields = {}
  /\ \E x \in Todo(a) :
       LET n == Name(a) IN
       IF x \in Unique
       THEN /\ call' = [call EXCEPT ![a].at = "insert index", ![a].item = x]
            /\ UNCHANGED columns
       ELSE IF n \in tables /\ x \notin columns[n] /\ On[x] \in columns[n]
       THEN /\ columns' = [columns EXCEPT ![n] = @ \cup {x}]
            /\ call' = [call EXCEPT ![a].at = "insert index", ![a].item = x]
       ELSE Answer(a) /\ UNCHANGED columns
  /\ UNCHANGED <<tables, rows, parts, memory, calls, faults, history>>

\* persistIndex
InsertIndex(a) ==
  /\ At(a, "insert index")
  /\ parts' = [parts EXCEPT ![Name(a)] = @ \cup {call[a].item}]
  /\ GoWith(a, "insert parts", Todo(a) \ {call[a].item})
  /\ UNCHANGED <<tables, columns, rows, memory, calls, faults, history>>

Publish(a) ==
  /\ At(a, "insert parts")
  /\ Todo(a) = {}
  /\ published' = published \cup {Name(a)}
  /\ shape' = [shape EXCEPT ![Name(a)] = Top(a).want]
  /\ outcome' = [outcome EXCEPT ![Name(a)] = "created"]
  /\ Answer(a)
  /\ UNCHANGED <<stored, calls, faults, raced>>

-----------------------------------------------------------------------------
(***************************************************************************)
(* DropCollection.                                                         *)
(***************************************************************************)
Doubted(n) ==
  /\ outcome' = [outcome EXCEPT ![n] = "open"]
  /\ raced' = IF BeingMade(n) THEN raced \cup {n} ELSE raced

Drop(a) ==
  /\ At(a, "idle")
  /\ \E n \in Names, cascade \in BOOLEAN :
       /\ n \in published
       /\ Start(a, "dependents", n, {}, cascade)
       /\ Doubted(n)
  /\ UNCHANGED <<stored, memory, faults>>

\* dependentCollections
DependentsOf(n) ==
  {m \in published \ {n} : \E f \in shape[m] \cap Fields : Target[f] = n}

Dependents(a) ==
  LET deps == DependentsOf(Name(a)) IN
  /\ At(a, "dependents")
  /\ IF deps # {} /\ ~call[a].cascade
     THEN Answer(a)
     ELSE GoWith(a, "loop", deps)
  /\ UNCHANGED <<stored, memory, calls, faults, history>>

\* The recursive call for a dependent, unless it is gone.
Descend(a) ==
  /\ At(a, "loop")
  /\ \E dep \in Todo(a) :
       IF dep \notin published
       THEN GoWith(a, "loop", Todo(a) \ {dep}) /\ UNCHANGED history
       ELSE /\ Depth(a) < MaxDepth
            /\ call' = [call EXCEPT
                 ![a].at = "dependents",
                 ![a].stack = Append([@ EXCEPT ![Depth(a)].todo = Todo(a) \ {dep}],
                                     Frame(dep, {}, {}))]
            /\ Doubted(dep)
  /\ UNCHANGED <<stored, memory, calls, faults>>

DropTable(a) ==
  /\ At(a, "loop")
  /\ Todo(a) = {}
  /\ RemoveTable(Name(a))
  /\ Go(a, "delete fields")
  /\ UNCHANGED <<rows, parts, memory, calls, faults, history>>

\* (slip) The row of the collection is deleted first.
DeleteRowFirst(a) ==
  /\ At(a, "delete fields")
  /\ rows' = rows \ {Name(a)}
  /\ Go(a, "delete indexes")
  /\ UNCHANGED <<tables, columns, parts, memory, calls, faults, history>>

\* deleteCollectionMeta: the rows of the parts first, the collection's last.
DeleteFields(a) ==
  /\ At(a, "delete fields")
  /\ parts' = [parts EXCEPT ![Name(a)] = @ \ Fields]
  /\ Go(a, "delete indexes")
  /\ UNCHANGED <<tables, columns, rows, memory, calls, faults, history>>

DeleteIndexes(a) ==
  /\ At(a, "delete indexes")
  /\ parts' = [parts EXCEPT ![Name(a)] = @ \ Indexes]
  /\ Go(a, "delete row")
  /\ UNCHANGED <<tables, columns, rows, memory, calls, faults, history>>

\* (slip) The row of the collection is forgotten.
DeleteRowForgotten(a) ==
  /\ At(a, "delete row")
  /\ Go(a, "unpublish")
  /\ UNCHANGED <<stored, memory, calls, faults, history>>

DeleteRow(a) ==
  /\ At(a, "delete row")
  /\ rows' = rows \ {Name(a)}
  /\ Go(a, "unpublish")
  /\ UNCHANGED <<tables, columns, parts, memory, calls, faults, history>>

\* (slip) The first call returns to a loop as well.
LeaveToLoop(a) ==
  call' = [call EXCEPT ![a].at = "loop",
                       ![a].stack = SubSeq(@, 1, Depth(a) - 1)]

\* DropCollection returns: to the loop of the call that made it, if any.
Leave(a) ==
  IF Depth(a) = 1
  THEN Answer(a)
  ELSE call' = [call EXCEPT ![a].at = "loop",
                            ![a].stack = SubSeq(@, 1, Depth(a) - 1)]

Unpublish(a) ==
  /\ At(a, "unpublish")
  /\ published' = published \ {Name(a)}
  /\ shape' = [shape EXCEPT ![Name(a)] = {}]
  /\ outcome' = [outcome EXCEPT ![Name(a)] = "dropped"]
  /\ Leave(a)
  /\ UNCHANGED <<stored, calls, faults, raced>>

-----------------------------------------------------------------------------
(***************************************************************************)
(* Collection.Sync.                                                        *)
(***************************************************************************)
Sync(a) ==
  /\ At(a, "idle")
  /\ \E n \in Names :
       /\ n \in published
       /\ Start(a, "sync table", n, shape[n], FALSE)
       /\ raced' = IF BeingDropped(n) THEN raced \cup {n} ELSE raced
  /\ UNCHANGED <<stored, memory, faults, outcome>>

\* What a broken drop has left in "fields" and "indexes" may be no
\* definition of a table: an index without its field, or no column.
SyncTable(a) ==
  LET n == Name(a)
      want == Top(a).want IN
  /\ At(a, "sync table")
  /\ \/ /\ n \in tables \/ \A x \in want \cap Unique : On[x] \in want
        /\ MakeTable(n, want)
        /\ Go(a, "read columns")
     \/ /\ \/ want \cap Fields = {}
           \/ n \notin tables /\ \E x \in want \cap Unique : On[x] \notin want
        /\ Answer(a)
        /\ UNCHANGED <<tables, columns>>
  /\ UNCHANGED <<rows, parts, memory, calls, faults, history>>

\* existingColumnNames: a table that is gone has none.
ReadColumns(a) ==
  /\ At(a, "read columns")
  /\ GoWith(a, "add columns", (Top(a).want \cap Fields) \ columns[Name(a)])
  /\ UNCHANGED <<stored, memory, calls, faults, history>>

AddColumn(a) ==
  LET n == Name(a) IN
  /\ At(a, "add columns")
  /\ \E f \in Todo(a) :
       IF n \in tables /\ f \notin columns[n]
       THEN /\ columns' = [columns EXCEPT ![n] = @ \cup {f}]
            /\ GoWith(a, "add columns", Todo(a) \ {f})
       ELSE Answer(a) /\ UNCHANGED columns
  /\ UNCHANGED <<tables, rows, parts, memory, calls, faults, history>>

Synced(a) ==
  /\ At(a, "add columns")
  /\ Todo(a) = {}
  /\ Answer(a)
  /\ UNCHANGED <<stored, memory, calls, faults, history>>

-----------------------------------------------------------------------------
(***************************************************************************)
(* Failures and start-up.                                                  *)
(***************************************************************************)

\* A statement is under way, or its acknowledgement.
AwaitsMySQL(a) ==
  /\ ~At(a, "idle") /\ ~At(a, "dependents")
  /\ At(a, "loop") => Todo(a) = {}

\* The statement fails, or the answer to the one before was lost: the call
\* returns an error through all levels, and nothing is undone.
Break(a) ==
  /\ faults < MaxFaults
  /\ faults' = faults + 1
  /\ AwaitsMySQL(a)
  /\ Answer(a)
  /\ UNCHANGED <<stored, memory, calls, history>>

\* Bootstrap: loadCollections, loadFields, loadIndexes.  Parts without a
\* collection are passed over, and so are fields that NewField refuses, the
\* indexes of which are loaded.
Restarted ==
  /\ published' = rows
  /\ shape' = [n \in Names |-> IF n \in rows THEN parts[n] \ Unloadable ELSE {}]
  /\ call' = [a \in Admins |-> Idle]
  /\ outcome' = [n \in Names |-> IF outcome[n] = "created" THEN "reloaded" ELSE outcome[n]]
  /\ UNCHANGED <<stored, calls, raced>>

Crash ==
  /\ faults < MaxFaults
  /\ faults' = faults + 1
  /\ Restarted

\* The stack of the goroutine is used up, which ends the process.
Overflow(a) ==
  /\ At(a, "loop")
  /\ Todo(a) \cap published # {}
  /\ Depth(a) = MaxDepth
  /\ Restarted
  /\ UNCHANGED faults

Step(a) ==
  \/ CreateTable(a) \/ InsertCollection(a) \/ InsertField(a)
  \/ CreateIndex(a) \/ InsertIndex(a) \/ Publish(a)
  \/ Dependents(a) \/ Descend(a) \/ DropTable(a) \/ DeleteFields(a)
  \/ DeleteIndexes(a) \/ DeleteRow(a) \/ Unpublish(a)
  \/ SyncTable(a) \/ ReadColumns(a) \/ AddColumn(a) \/ Synced(a)

Next ==
  \/ \E a \in Admins : \/ Create(a) \/ Drop(a) \/ Sync(a)
                        \/ Step(a) \/ Break(a) \/ Overflow(a)
  \/ Crash

Spec == Init /\ [][Next]_vars

-----------------------------------------------------------------------------
(***************************************************************************)
(* Properties.                                                             *)
(***************************************************************************)
Frames == [name : Names, want : SUBSET Parts, todo : SUBSET (Parts \cup Names)]

TypeOK ==
  /\ tables \subseteq Names
  /\ columns \in [Names -> SUBSET Parts]
  /\ rows \subseteq Names
  /\ parts \in [Names -> SUBSET Parts]
  /\ published \subseteq Names
  /\ shape \in [Names -> SUBSET Parts]
  /\ call \in [Admins -> [at : {"idle"} \cup CreatePhases \cup SyncPhases \cup DropPhases,
                          stack : Seq(Frames), item : Indexes \cup {None},
                          cascade : BOOLEAN]]
  /\ \A a \in Admins : /\ At(a, "idle") <=> Depth(a) = 0
                       /\ Depth(a) <= MaxDepth
                       /\ At(a, "insert index") => call[a].item # None
  /\ calls \in 0..MaxCalls /\ faults \in 0..MaxFaults
  /\ outcome \in [Names -> {"open", "created", "reloaded", "dropped"}]
  /\ raced \subseteq Names

\* A collection whose creation was answered with success stays until somebody
\* drops it: other requests for the same name, failing or not, and restarts
\* leave its table and its rows alone.  Its entry in memory is what the rows
\* say; from the next start on it is without the fields that cannot be loaded.
CreatedLasts ==
  \A n \in Names \ raced :
    /\ outcome[n] \in {"created", "reloaded"} => n \in tables \cap rows \cap published
    /\ outcome[n] = "created" => shape[n] = parts[n]
    /\ outcome[n] = "reloaded" => shape[n] = parts[n] \ Unloadable

\* After a successful drop nothing of the collection is left, neither in
\* MySQL nor for the next start to find, whatever failed before it.
DroppedIsGone ==
  \A n \in Names \ raced :
    outcome[n] = "dropped" =>
      n \notin tables \cup rows \cup published /\ parts[n] = {}

\* The order of the statements: what a call that broke off has left in
\* "fields" and "indexes" belongs to a collection that the next start
\* loads, so that it can still be dropped.
LeftoversListed ==
  \A n \in Names \ raced : parts[n] # {} => n \in rows

\* A cascading drop works through the dependents and does not come back to
\* a collection that it is dropping already.
CascadeDescends ==
  \A a \in Admins :
    \A i, j \in DOMAIN call[a].stack :
      call[a].stack[i].name = call[a].stack[j].name => i = j
=============================================================================
