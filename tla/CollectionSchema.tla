-------------------------- MODULE CollectionSchema --------------------------
(***************************************************************************)
(* The fields and indexes of one collection, once it has been created      *)
(* (service/metadata/collection.go).  Each is in three places: in MySQL as *)
(* a column or a key, as a row of "fields" or "indexes", and in memory.    *)
(* A change holds Collection.mu and goes through the three, one statement  *)
(* after another, without a transaction; Sync holds no lock.               *)
(*                                                                         *)
(* Of what a field is made of, the model keeps whether it has a column,    *)
(* one option that anybody may set (label), and whether NewField accepts   *)
(* the options (sound), as a relation's target.  The table of a            *)
(* many-to-many relation and the order of the fields are left out.  A name *)
(* always stands for a field with a column, or always for one without (no  *)
(* client gives a relation the name of a preset field).                    *)
(*                                                                         *)
(* NewField does not know the types of the preset fields "id",             *)
(* "created_at" and "updated_at" (field_factory.go), which                 *)
(* CreateCollection makes without it: it refuses every update of them, and *)
(* at the next start they do not come back into memory, though they have   *)
(* their rows and columns.                                                 *)
(***************************************************************************)
EXTENDS Integers, FiniteSets

CONSTANTS
  Fields,
  Virtual,            \* relation fields, which have no column
  System,             \* fields that cannot be removed
  Unloadable,         \* those among them whose type NewField does not know
  Indexes,
  On,                 \* On[x] is the set of the fields of index x
  Own,                \* Own[f]: the index that f gets if it is declared indexed
  Labels,
  Stored,             \* the fields of the collection at first
  SchemaAdmins,       \* concurrent requests
  NoField,
  MaxSchemaCalls,     \* bound: requests
  MaxSchemaFaults     \* bound: statements that fail, and crashes

Options == [label : Labels, sound : BOOLEAN]

ASSUME SchemaAssumption ==
  /\ Fields \cap Indexes = {}
  /\ Virtual \subseteq Fields /\ System \subseteq Stored /\ Stored \subseteq Fields
  /\ Unloadable \subseteq System \ Virtual
  /\ On \in [Indexes -> SUBSET Fields] /\ \A x \in Indexes : On[x] # {}
  /\ Own \in [Fields \ Virtual -> Indexes \cup {NoField}]
  /\ \A f \in Fields \ Virtual : Own[f] # NoField => On[Own[f]] = {f}
  /\ NoField \notin Options \cup Indexes \cup Fields \cup SchemaAdmins
  /\ Labels # {}
  /\ MaxSchemaCalls \in Nat /\ MaxSchemaFaults \in Nat

VARIABLES
  columns,            \* MySQL: the columns of the table
  keys,               \* MySQL: keys[x] are the columns of key x, {} if there is none
  fieldRows,          \* "fields": the options, or NoField
  indexRows,          \* "indexes": how many rows an index has (its name is not unique)
  metaRow,            \* "collections": the display name
  fields,             \* Collection.fields: the options that a Field was built from
  opts,               \* the map that Field.Options returns
  indexes,            \* Collection.indexes: how many entries an index has
  displayName,
  mu,                 \* the request that holds Collection.mu
  change,             \* what each request is doing
  schemaCalls, schemaFaults,
  clean,              \* history: no statement failed and no change broke off
  halfRemoved,        \* history: fields whose removal has broken off, and the
                      \* indexes for which that ever happened
  bereft,             \* history: indexes one of whose fields has been removed
  raced,              \* history: fields removed while a Sync was under way
  refused,            \* history: fields whose last update was refused
  reloaded            \* history: a start has loaded the collection

mysql == <<columns, keys>>
catalogue == <<fieldRows, indexRows, metaRow>>
inMemory == <<fields, opts, indexes, displayName>>
past == <<clean, halfRemoved, bereft, raced, refused, reloaded>>
schemaVars == <<mysql, catalogue, inMemory, mu, change, schemaCalls, schemaFaults, past>>

Resting == [at |-> "idle", field |-> NoField, index |-> NoField, input |-> NoField,
            todo |-> {}]

SchemaInit ==
  /\ \E l \in Labels :
       /\ fieldRows = [f \in Fields |->
            IF f \in Stored THEN [label |-> l, sound |-> TRUE] ELSE NoField]
       /\ metaRow = l
  /\ columns = Stored \ Virtual
  /\ keys = [x \in Indexes |-> {}] /\ indexRows = [x \in Indexes |-> 0]
  /\ fields = fieldRows /\ opts = fieldRows
  /\ indexes = indexRows /\ displayName = metaRow
  /\ mu = NoField /\ change = [a \in SchemaAdmins |-> Resting]
  /\ schemaCalls = 0 /\ schemaFaults = 0
  /\ clean = TRUE /\ halfRemoved = {} /\ bereft = {} /\ raced = {}
  /\ refused = {} /\ reloaded = FALSE

-----------------------------------------------------------------------------
Doing(a, label) == change[a].at = label
Field(a) == change[a].field
Index(a) == change[a].index

NewCall ==
  /\ schemaCalls < MaxSchemaCalls
  /\ schemaCalls' = schemaCalls + 1

\* The request takes the lock and comes to its first statement.
Lock(a, label, f, x, in) ==
  /\ Doing(a, "idle") /\ mu = NoField
  /\ NewCall
  /\ mu' = a
  /\ change' = [change EXCEPT ![a] =
       [at |-> label, field |-> f, index |-> x, input |-> in, todo |-> {}]]

Continue(a, label) == change' = [change EXCEPT ![a] = [@ EXCEPT !.at = label]] /\ UNCHANGED mu

\* It answers, with success or not, and the lock is free again.
Unlock(a) == change' = [change EXCEPT ![a] = Resting] /\ mu' = NoField

SyncUnderWay == \E a \in SchemaAdmins : change[a].at \in {"readFields", "addColumns"}

-----------------------------------------------------------------------------
(***************************************************************************)
(* AddField.                                                               *)
(***************************************************************************)
\* A Field that is built from options o takes the place of f's.
Publish(f, o) ==
  /\ fields' = [fields EXCEPT ![f] = o]
  /\ opts' = [opts EXCEPT ![f] = o]
  /\ refused' = refused \ {f}

\* (slip) The row is written first.
AddFieldRowFirst(a) ==
  /\ \E f \in Fields \ Virtual, l \in Labels :
       LET o == [label |-> l, sound |-> TRUE] IN
       /\ fields[f] = NoField
       /\ Lock(a, "addColumn", f, NoField, o)
       /\ fieldRows' = [fieldRows EXCEPT ![f] = o]
  /\ UNCHANGED <<mysql, indexRows, metaRow, inMemory, schemaFaults, past>>

\* A name that is taken, or options that NewField refuses, end the request.
\* Without a column the field is in memory at once.
AddField(a) ==
  /\ \E f \in Fields, l \in Labels, indexed \in BOOLEAN :
       LET o == [label |-> l, sound |-> TRUE]
           x == IF indexed /\ f \notin Virtual THEN Own[f] ELSE NoField
       IN /\ fields[f] = NoField
          /\ IF f \in Virtual
             THEN Lock(a, "insertField", f, x, o) /\ Publish(f, o)
             ELSE Lock(a, "addColumn", f, x, o) /\ UNCHANGED <<fields, opts, refused>>
  /\ UNCHANGED <<mysql, catalogue, indexes, displayName, schemaFaults, clean, halfRemoved,
                 bereft, raced, reloaded>>

\* ALTER TABLE ADD COLUMN
AddColumn(a) ==
  LET f == Field(a) IN
  /\ Doing(a, "addColumn")
  /\ IF f \in columns
     THEN Unlock(a) /\ UNCHANGED <<columns, fields, opts, refused>>
     ELSE /\ columns' = columns \cup {f}
          /\ Publish(f, change[a].input)
          /\ Continue(a, "insertField")
  /\ UNCHANGED <<keys, catalogue, indexes, displayName, schemaCalls, schemaFaults, clean,
                 halfRemoved, bereft, raced, reloaded>>

\* insertFieldRow: the names of a collection's fields are unique.
InsertField(a) ==
  LET f == Field(a) IN
  /\ Doing(a, "insertField")
  /\ IF fieldRows[f] # NoField
     THEN Unlock(a) /\ UNCHANGED fieldRows
     ELSE /\ fieldRows' = [fieldRows EXCEPT ![f] = change[a].input]
          /\ IF Index(a) = NoField THEN Unlock(a) ELSE Continue(a, "createIndex")
  /\ UNCHANGED <<mysql, indexRows, metaRow, inMemory, schemaCalls, schemaFaults, past>>

-----------------------------------------------------------------------------
(***************************************************************************)
(* AddIndex and RemoveIndex.                                               *)
(***************************************************************************)
AddIndex(a) ==
  /\ \E x \in Indexes : Lock(a, "createIndex", NoField, x, NoField)
  /\ UNCHANGED <<mysql, catalogue, inMemory, schemaFaults, past>>

\* CREATE INDEX
Creatable(x) == keys[x] = {} /\ On[x] \subseteq columns

\* (slip) The entry is made before the key.
CreateIndexLate(a) ==
  /\ Doing(a, "createIndex")
  /\ indexes' = [indexes EXCEPT ![Index(a)] = @ + 1]
  /\ IF Creatable(Index(a))
     THEN /\ keys' = [keys EXCEPT ![Index(a)] = On[Index(a)]]
          /\ Continue(a, "insertIndex")
     ELSE Unlock(a) /\ UNCHANGED keys
  /\ UNCHANGED <<columns, catalogue, fields, opts, displayName, schemaCalls,
                 schemaFaults, past>>

CreateIndex(a) ==
  /\ Doing(a, "createIndex")
  /\ IF Creatable(Index(a))
     THEN /\ keys' = [keys EXCEPT ![Index(a)] = On[Index(a)]]
          /\ Continue(a, "insertIndex")
     ELSE Unlock(a) /\ UNCHANGED keys
  /\ UNCHANGED <<columns, catalogue, inMemory, schemaCalls, schemaFaults, past>>

\* persistIndex, and the entry in memory
InsertIndex(a) ==
  /\ Doing(a, "insertIndex")
  /\ indexRows' = [indexRows EXCEPT ![Index(a)] = @ + 1]
  /\ indexes' = [indexes EXCEPT ![Index(a)] = @ + 1]
  /\ Unlock(a)
  /\ UNCHANGED <<mysql, fieldRows, metaRow, fields, opts, displayName, schemaCalls,
                 schemaFaults, past>>

RemoveIndex(a) ==
  /\ \E x \in Indexes :
       /\ indexes[x] > 0
       /\ Lock(a, "dropIndex", NoField, x, NoField)
  /\ UNCHANGED <<mysql, catalogue, inMemory, schemaFaults, past>>

\* DROP INDEX
DropIndex(a) ==
  /\ Doing(a, "dropIndex")
  /\ IF keys[Index(a)] = {}
     THEN Unlock(a) /\ UNCHANGED keys
     ELSE /\ keys' = [keys EXCEPT ![Index(a)] = {}]
          /\ Continue(a, "deleteIndex")
  /\ UNCHANGED <<columns, catalogue, inMemory, schemaCalls, schemaFaults, past>>

\* deleteIndexRow deletes every row of that name, RemoveIndex one entry.
DeleteIndex(a) ==
  /\ Doing(a, "deleteIndex")
  /\ indexRows' = [indexRows EXCEPT ![Index(a)] = 0]
  /\ indexes' = [indexes EXCEPT ![Index(a)] = @ - 1]
  /\ Unlock(a)
  /\ UNCHANGED <<mysql, fieldRows, metaRow, fields, opts, displayName, schemaCalls,
                 schemaFaults, past>>

-----------------------------------------------------------------------------
(***************************************************************************)
(* RemoveField.                                                            *)
(***************************************************************************)
RemoveField(a) ==
  /\ \E f \in Fields \ System :
       /\ fields[f] # NoField
       /\ Lock(a, "dropColumn", f, NoField, NoField)
  /\ UNCHANGED <<mysql, catalogue, inMemory, schemaFaults, past>>

\* ALTER TABLE DROP COLUMN, which takes the column out of the keys and fails
\* for a virtual field; then the field leaves the memory, its indexes do not.
DropColumn(a) ==
  LET f == Field(a) IN
  /\ Doing(a, "dropColumn")
  /\ IF f \notin columns
     THEN Unlock(a) /\ UNCHANGED <<mysql, fields, opts, bereft, refused>>
     ELSE /\ columns' = columns \ {f}
          /\ keys' = [x \in Indexes |-> keys[x] \ {f}]
          /\ Publish(f, NoField)
          /\ bereft' = bereft \cup {x \in Indexes : f \in On[x]}
          /\ Continue(a, "deleteField")
  /\ raced' = IF SyncUnderWay THEN raced \cup {f} ELSE raced
  /\ UNCHANGED <<catalogue, indexes, displayName, schemaCalls, schemaFaults, clean,
                 halfRemoved, reloaded>>

\* deleteFieldRow
DeleteField(a) ==
  /\ Doing(a, "deleteField")
  /\ fieldRows' = [fieldRows EXCEPT ![Field(a)] = NoField]
  /\ halfRemoved' = halfRemoved \ {Field(a)}
  /\ Unlock(a)
  /\ UNCHANGED <<mysql, indexRows, metaRow, inMemory, schemaCalls, schemaFaults, clean,
                 bereft, raced, refused, reloaded>>

-----------------------------------------------------------------------------
(***************************************************************************)
(* UpdateField and UpdateMeta.                                             *)
(***************************************************************************)
\* (slip) The row takes the options whether NewField accepts them or not.
UpdateFieldAnyway(a) ==
  /\ \E f \in Fields, l \in Labels, sound \in BOOLEAN :
       LET o == [label |-> l, sound |-> sound] IN
       /\ fields[f] # NoField
       /\ opts' = [opts EXCEPT ![f] = o]
       /\ fields' = IF sound THEN [fields EXCEPT ![f] = o] ELSE fields
       /\ refused' = IF sound THEN refused \ {f} ELSE refused \cup {f}
       /\ Lock(a, "updateField", f, NoField, o)
  /\ UNCHANGED <<mysql, catalogue, indexes, displayName, schemaFaults, clean, halfRemoved,
                 bereft, raced, reloaded>>

\* o is what the request sets, and for the rest what Options returned.
\* SetOptions puts it in the Field that is there before NewField has accepted
\* it; a refusal leaves it in there.
UpdateField(a) ==
  /\ \E f \in Fields, l \in Labels, sound \in BOOLEAN :
       LET o == [label |-> l, sound |-> sound] IN
       /\ fields[f] # NoField
       /\ \/ /\ sound /\ f \notin Unloadable
             /\ Publish(f, o)
             /\ Lock(a, "updateField", f, NoField, o)
          \/ /\ ~sound \/ f \in Unloadable
             /\ opts' = [opts EXCEPT ![f] = o]
             /\ refused' = refused \cup {f}
             /\ Doing(a, "idle") /\ mu = NoField
             /\ NewCall
             /\ UNCHANGED <<fields, mu, change>>
  /\ UNCHANGED <<mysql, catalogue, indexes, displayName, schemaFaults, clean, halfRemoved,
                 bereft, raced, reloaded>>

\* updateFieldRow
WriteField(a) ==
  LET f == Field(a) IN
  /\ Doing(a, "updateField")
  /\ fieldRows' = IF fieldRows[f] = NoField THEN fieldRows
                  ELSE [fieldRows EXCEPT ![f] = change[a].input]
  /\ Unlock(a)
  /\ UNCHANGED <<mysql, indexRows, metaRow, inMemory, schemaCalls, schemaFaults, past>>

UpdateMeta(a) ==
  /\ \E l \in Labels :
       /\ displayName' = l
       /\ Lock(a, "updateCollection", NoField, NoField, NoField)
  /\ UNCHANGED <<mysql, catalogue, fields, opts, indexes, schemaFaults, past>>

\* updateCollectionRow
WriteMeta(a) ==
  /\ Doing(a, "updateCollection")
  /\ metaRow' = displayName
  /\ Unlock(a)
  /\ UNCHANGED <<mysql, fieldRows, indexRows, inMemory, schemaCalls, schemaFaults, past>>

-----------------------------------------------------------------------------
(***************************************************************************)
(* Sync, without the lock: existingColumnNames, then the fields (for which *)
(* it waits until no change is under way), then the columns missing.       *)
(***************************************************************************)
ReadColumns(a) ==
  /\ Doing(a, "idle") /\ NewCall
  /\ change' = [change EXCEPT ![a] = [@ EXCEPT !.at = "readFields", !.todo = columns]]
  /\ UNCHANGED <<mysql, catalogue, inMemory, mu, schemaFaults, past>>

\* (slip) Fields without a column are taken for missing.
ReadAllFields(a) ==
  /\ Doing(a, "readFields") /\ mu = NoField
  /\ change' = [change EXCEPT ![a] = [@ EXCEPT !.at = "addColumns",
       !.todo = {f \in Fields : fields[f] # NoField} \ change[a].todo]]
  /\ UNCHANGED <<mysql, catalogue, inMemory, mu, schemaCalls, schemaFaults, past>>

\* The fields that a column is expected for.
WithColumn == {f \in Fields \ Virtual : fields[f] # NoField}

ReadFields(a) ==
  /\ Doing(a, "readFields") /\ mu = NoField
  /\ change' = [change EXCEPT ![a] = [@ EXCEPT !.at = "addColumns",
       !.todo = WithColumn \ change[a].todo]]
  /\ UNCHANGED <<mysql, catalogue, inMemory, mu, schemaCalls, schemaFaults, past>>

AddMissing(a) ==
  /\ Doing(a, "addColumns")
  /\ \/ /\ change[a].todo = {}
        /\ change' = [change EXCEPT ![a] = Resting]
        /\ UNCHANGED columns
     \/ \E f \in change[a].todo \cap columns :
          /\ change' = [change EXCEPT ![a] = Resting]
          /\ UNCHANGED columns
     \/ \E f \in change[a].todo \ columns :
          /\ columns' = columns \cup {f}
          /\ change' = [change EXCEPT ![a] = [@ EXCEPT !.todo = change[a].todo \ {f}]]
  /\ UNCHANGED <<keys, catalogue, inMemory, mu, schemaCalls, schemaFaults, past>>

-----------------------------------------------------------------------------
(***************************************************************************)
(* A statement fails; a crash, and the next start, which loads the rows.   *)
(***************************************************************************)
BrokenOff(a) ==
  CASE Doing(a, "deleteField") -> {Field(a)}
    [] Doing(a, "deleteIndex") -> {Index(a)}
    [] OTHER -> {}

Faulted ==
  /\ schemaFaults < MaxSchemaFaults
  /\ schemaFaults' = schemaFaults + 1

Break(a) ==
  /\ mu = a
  /\ Faulted
  /\ Unlock(a)
  /\ clean' = FALSE
  /\ halfRemoved' = halfRemoved \cup BrokenOff(a)
  /\ UNCHANGED <<mysql, catalogue, inMemory, schemaCalls, bereft, raced, refused, reloaded>>

\* loadFields skips the rows that NewField refuses.
Loadable(f) == fieldRows[f] # NoField /\ fieldRows[f].sound /\ f \notin Unloadable

\* loadFields, loadIndexes
CrashSchema ==
  /\ Faulted
  /\ fields' = [f \in Fields |-> IF Loadable(f) THEN fieldRows[f] ELSE NoField]
  /\ opts' = fields'
  /\ refused' = {} /\ reloaded' = TRUE
  /\ indexes' = indexRows /\ displayName' = metaRow
  /\ mu' = NoField /\ change' = [a \in SchemaAdmins |-> Resting]
  /\ clean' = (clean /\ mu = NoField)
  /\ halfRemoved' = halfRemoved \cup UNION {BrokenOff(a) : a \in SchemaAdmins}
  /\ UNCHANGED <<mysql, catalogue, schemaCalls, bereft, raced>>

Change(a) ==
  \/ AddField(a) \/ AddColumn(a) \/ InsertField(a)
  \/ AddIndex(a) \/ CreateIndex(a) \/ InsertIndex(a)
  \/ RemoveIndex(a) \/ DropIndex(a) \/ DeleteIndex(a)
  \/ RemoveField(a) \/ DropColumn(a) \/ DeleteField(a)
  \/ UpdateField(a) \/ WriteField(a) \/ UpdateMeta(a) \/ WriteMeta(a)
  \/ ReadColumns(a) \/ ReadFields(a) \/ AddMissing(a)
  \/ Break(a)

SchemaNext == (\E a \in SchemaAdmins : Change(a)) \/ CrashSchema

SchemaSpec == SchemaInit /\ [][SchemaNext]_schemaVars

-----------------------------------------------------------------------------
(***************************************************************************)
(* Properties.                                                             *)
(***************************************************************************)
Statements ==
  {"addColumn", "insertField", "createIndex", "insertIndex", "dropIndex",
   "deleteIndex", "dropColumn", "deleteField", "updateField", "updateCollection"}

\* The type of the state; the lock is held by the request that is at one of
\* its statements, and by no other.
SchemaTypeOK ==
  /\ columns \subseteq Fields \ Virtual
  /\ keys \in [Indexes -> SUBSET Fields]
  /\ fieldRows \in [Fields -> Options \cup {NoField}]
  /\ indexRows \in [Indexes -> Nat] /\ metaRow \in Labels
  /\ fields \in [Fields -> Options \cup {NoField}]
  /\ opts \in [Fields -> Options \cup {NoField}]
  /\ indexes \in [Indexes -> Nat] /\ displayName \in Labels
  /\ mu \in SchemaAdmins \cup {NoField}
  /\ change \in [SchemaAdmins ->
       [at : {"idle", "readFields", "addColumns"} \cup Statements,
        field : Fields \cup {NoField}, index : Indexes \cup {NoField},
        input : Options \cup {NoField}, todo : SUBSET (Fields \ Virtual)]]
  /\ \A a \in SchemaAdmins : change[a].at \in Statements <=> mu = a
  /\ schemaCalls \in Nat /\ schemaFaults \in Nat
  /\ clean \in BOOLEAN /\ halfRemoved \subseteq Fields \cup Indexes
  /\ bereft \subseteq Indexes /\ raced \subseteq Fields
  /\ refused \subseteq Fields /\ reloaded \in BOOLEAN

\* The fields that no start brings back.
Left == IF reloaded THEN Unloadable ELSE {}

FieldsAgree ==
  \A f \in Fields :
    /\ fields[f] = IF f \in Left THEN NoField ELSE fieldRows[f]
    /\ opts[f] = fields[f] \/ f \in refused

\* A running server and the next start agree on the collection: while nothing
\* has failed, between two changes the rows are what the memory holds, options
\* and restarts included - but for the preset fields that a start leaves out,
\* which keep their rows, and the options of a field whose last update was
\* refused; the fields that have rows have their columns, and no column is left
\* over unless a Sync overlapped a removal; and the indexes none of whose fields
\* was removed have their keys.
SchemaAgrees ==
  clean /\ mu = NoField =>
    /\ FieldsAgree /\ metaRow = displayName
    /\ \A f \in Fields \ Virtual :
         /\ fieldRows[f] # NoField => f \in columns
         /\ f \in columns => fieldRows[f] # NoField \/ f \in raced
    /\ \A x \in Indexes \ bereft :
         /\ indexRows[x] = indexes[x] /\ indexes[x] <= 1
         /\ keys[x] = IF indexes[x] = 1 THEN On[x] ELSE {}

RowsHaveColumns ==
  \A f \in Fields \ Virtual :
    fieldRows[f] # NoField =>
      \/ f \in columns \/ f \in halfRemoved
      \/ \E a \in SchemaAdmins : Doing(a, "deleteField") /\ Field(a) = f

IndexesHaveKeys ==
  \A x \in Indexes \ (halfRemoved \cup bereft) :
    indexRows[x] + indexes[x] > 0 =>
      \/ keys[x] = On[x]
      \/ \E a \in SchemaAdmins : Doing(a, "deleteIndex") /\ Index(a) = x

\* The order of the statements: whichever of them fails, what the next start
\* loads as a field has its column, unless the removal of that field broke
\* off (a field without a column makes every read of the collection fail); and
\* an index that is listed, in memory or for the next start, has its key,
\* unless its removal broke off or one of its fields was removed.
ListedExist == RowsHaveColumns /\ IndexesHaveKeys

\* What the server and the next start take the collection for is what MySQL has,
\* after changes that succeed and after those that break off.
SchemaHolds == SchemaAgrees /\ ListedExist
=============================================================================
