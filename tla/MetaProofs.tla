----------------------------- MODULE MetaProofs -----------------------------
(***************************************************************************)
(* What is proved of the two parts that controller/metadata/meta.go        *)
(* administers, and of the way of a value through what they describe.      *)
(* They share no state.                                                    *)
(*                                                                         *)
(* CollectionSchema: what rows, memory and MySQL say of a collection's     *)
(* fields and indexes agrees, for every set of fields, indexes and         *)
(* administrators, and whatever statement breaks off (SchemaHolds).  That  *)
(* is not inductive, since it speaks of a collection at rest; SchemaInvar  *)
(* adds what the request that holds the lock has already done.             *)
(*                                                                         *)
(* ScriptRuntime: what is loaded is what was answered for, and what runs   *)
(* is what is loaded (ScriptsHold).  No lock is held between a row and the *)
(* runtime; ScriptInvar says what a request that is alone on its script    *)
(* has done of the two, and what a request has seen of what it runs.       *)
(*                                                                         *)
(* RoundTrip: a field keeps what clients have made of it, and a record     *)
(* meets the rules of its collection (RecordsHold).  That needs the form   *)
(* of what each type's column holds and of what a client may have read of  *)
(* it and send back: TripInvar, with Cell and Offer.                       *)
(*                                                                         *)
(* Administration: each of the three is as it is alone (PartsKept), so     *)
(* that what is proved of it holds of the whole, its types among it.       *)
(***************************************************************************)
EXTENDS Administration, FiniteSetTheorems, SequenceTheorems, WellFoundedInduction, TLAPS

-----------------------------------------------------------------------------
(***************************************************************************)
(* CollectionSchema: the invariant.                                        *)
(***************************************************************************)
\* Rows and fields hold what NewField accepted.
SoundInv ==
  /\ \A f \in Fields : /\ fieldRows[f] # NoField => fieldRows[f].sound
                       /\ fields[f] # NoField => fields[f].sound
  /\ \A a \in SchemaAdmins :
       change[a].at \in Statements /\ change[a].input # NoField => change[a].input.sound

FieldWork == {"addColumn", "insertField", "dropColumn", "deleteField", "updateField"}
IndexWork == {"createIndex", "insertIndex", "dropIndex", "deleteIndex"}

\* What the request that holds the lock has found or done, whatever failed before.
Work(a) ==
  LET f == Field(a)  x == Index(a) IN
  /\ change[a].at \in FieldWork => f \in Fields
  /\ change[a].at \in {"addColumn", "insertField", "updateField"} => change[a].input \in Options
  /\ Doing(a, "addColumn") => f \notin Virtual /\ fields[f] = NoField
  /\ Doing(a, "insertField") => f \in Virtual \/ f \in columns
  /\ Doing(a, "deleteField") => f \notin Virtual /\ fields[f] = NoField
  /\ change[a].at \in IndexWork => x \in Indexes
  /\ change[a].at \in {"dropIndex", "deleteIndex"} => indexes[x] > 0
  /\ Doing(a, "insertIndex") => keys[x] = On[x]
  /\ Doing(a, "deleteIndex") => keys[x] = {}
  /\ Doing(a, "insertIndex") /\ x \notin halfRemoved \cup bereft =>
       indexRows[x] = 0 /\ indexes[x] = 0

WorkInv == \A a \in SchemaAdmins : Work(a)

\* A key has no other columns than its index; an index whose removal never broke off
\* and all of whose fields are there is listed once.
ListedInv ==
  /\ \A x \in Indexes : keys[x] \subseteq On[x]
  /\ \A x \in Indexes \ (halfRemoved \cup bereft) : indexRows[x] <= 1 /\ indexes[x] <= 1

\* What a Sync takes for missing is a field, unless it has been removed meanwhile.
SyncInv ==
  \A a \in SchemaAdmins : Doing(a, "addColumns") =>
    \A f \in change[a].todo : fields[f] # NoField \/ f \in raced

\* A field's options are those that it was built from, unless an update of it was
\* refused; and the fields that no start brings back stay what they are: nobody removes
\* them, nor adds them again.
FieldsInv ==
  /\ \A f \in Fields : opts[f] = fields[f] \/ f \in refused
  /\ \A f \in Unloadable :
       /\ f \in columns /\ fieldRows[f] # NoField
       /\ reloaded => fields[f] = NoField
  /\ \A a \in SchemaAdmins :
       change[a].at \in {"insertField", "dropColumn", "deleteField", "updateField"} =>
         Field(a) \notin Unloadable

\* Rows and memory, in particular where the request that holds the lock stands.
FieldAgrees(f) ==
  \/ fieldRows[f] = fields[f]
  \/ reloaded /\ f \in Unloadable
  \/ \E a \in SchemaAdmins :
       Field(a) = f /\ change[a].at \in {"insertField", "deleteField", "updateField"}

InputAgrees(a) ==
  /\ Doing(a, "insertField") =>
       fieldRows[Field(a)] = NoField /\ fields[Field(a)] = change[a].input
  /\ Doing(a, "updateField") =>
       fieldRows[Field(a)] # NoField /\ fields[Field(a)] = change[a].input

MetaAgrees == metaRow = displayName \/ \E a \in SchemaAdmins : Doing(a, "updateCollection")

ColumnsAgree ==
  \A f \in Fields \ Virtual :
    /\ fields[f] # NoField => f \in columns
    /\ f \in columns => fields[f] # NoField \/ f \in raced \/ (reloaded /\ f \in Unloadable)

KeyAgrees(x) ==
  /\ indexRows[x] = indexes[x] /\ indexes[x] <= 1
  /\ \/ keys[x] = IF indexes[x] = 1 THEN On[x] ELSE {}
     \/ \E a \in SchemaAdmins : Index(a) = x /\ change[a].at \in {"insertIndex", "deleteIndex"}

CleanInv ==
  clean =>
    /\ halfRemoved = {}
    /\ \A f \in Fields : FieldAgrees(f)
    /\ \A a \in SchemaAdmins : InputAgrees(a)
    /\ MetaAgrees /\ ColumnsAgree
    /\ \A x \in Indexes \ bereft : KeyAgrees(x)

SchemaInvar ==
  /\ SchemaTypeOK /\ SoundInv /\ WorkInv /\ ListedInv /\ SyncInv /\ ListedExist
  /\ FieldsInv /\ CleanInv

-----------------------------------------------------------------------------
(***************************************************************************)
(* CollectionSchema: the lock, and the types.                              *)
(***************************************************************************)
\* The requests, and the rest of the state.
Works ==
  [at : {"idle", "readFields", "addColumns"} \cup Statements,
   field : Fields \cup {NoField}, index : Indexes \cup {NoField},
   input : Options \cup {NoField}, todo : SUBSET (Fields \ Virtual)]

RequestsOK ==
  /\ mu \in SchemaAdmins \cup {NoField}
  /\ change \in [SchemaAdmins -> Works]
  /\ \A a \in SchemaAdmins : change[a].at \in Statements <=> mu = a
  /\ schemaCalls \in Nat

TablesOK ==
  /\ columns \subseteq Fields \ Virtual
  /\ keys \in [Indexes -> SUBSET Fields]
  /\ fieldRows \in [Fields -> Options \cup {NoField}]
  /\ indexRows \in [Indexes -> Nat] /\ metaRow \in Labels
  /\ fields \in [Fields -> Options \cup {NoField}]
  /\ opts \in [Fields -> Options \cup {NoField}]
  /\ indexes \in [Indexes -> Nat] /\ displayName \in Labels
  /\ schemaFaults \in Nat
  /\ clean \in BOOLEAN /\ halfRemoved \subseteq Fields \cup Indexes
  /\ bereft \subseteq Indexes /\ raced \subseteq Fields
  /\ refused \subseteq Fields /\ reloaded \in BOOLEAN

\* The type invariant is the two of them.
LEMMA TypeParts == SchemaTypeOK => RequestsOK /\ TablesOK
BY DEF SchemaTypeOK, RequestsOK, TablesOK, Works

\* The other way round, after a step.
LEMMA TypeWhole == RequestsOK' /\ TablesOK' => SchemaTypeOK'
BY DEF SchemaTypeOK, RequestsOK, TablesOK, Works

\* Two counts of zero agree.
LEMMA Zero == \A m, n : m = 0 /\ n = 0 => m = n /\ n <= 1
OBVIOUS

\* Taking the lock, with the request it starts.
LEMMA LockOK ==
  ASSUME RequestsOK, NEW a \in SchemaAdmins, NEW label \in Statements,
         NEW f \in Fields \cup {NoField}, NEW x \in Indexes \cup {NoField},
         NEW in \in Options \cup {NoField}, Lock(a, label, f, x, in)
  PROVE  RequestsOK'
BY SchemaAssumption DEF RequestsOK, Works, Lock, NewCall, Doing, Statements

\* The next statement of the request that holds the lock.
LEMMA ContinueOK ==
  ASSUME RequestsOK, NEW a \in SchemaAdmins, NEW label \in Statements,
         mu = a, Continue(a, label), UNCHANGED schemaCalls
  PROVE  RequestsOK'
BY SchemaAssumption DEF RequestsOK, Works, Continue, Statements

\* The end of the request that holds the lock.
LEMMA UnlockOK ==
  ASSUME RequestsOK, NEW a \in SchemaAdmins, mu = a, Unlock(a), UNCHANGED schemaCalls
  PROVE  RequestsOK'
BY SchemaAssumption DEF RequestsOK, Works, Unlock, Resting, Statements

-----------------------------------------------------------------------------
(***************************************************************************)
(* CollectionSchema: the steps.                                            *)
(***************************************************************************)
\* One lemma for each operation and each of its statements.
LEMMA AddFieldKeeps ==
  ASSUME SchemaInvar, NEW a \in SchemaAdmins, AddField(a)
  PROVE  SchemaInvar'
<1> USE SchemaAssumption DEF SchemaInvar, Doing, Field, Index, Statements, mysql, catalogue, inMemory, past
<1>types. RequestsOK /\ TablesOK
  BY TypeParts
<1> USE DEF Work, WorkInv, FieldWork, IndexWork
<1>0. PICK f \in Fields, o \in Options, x \in Indexes \cup {NoField} :
        /\ fields[f] = NoField /\ o.sound
        /\ \/ f \in Virtual /\ Lock(a, "insertField", f, x, o) /\ Publish(f, o)
           \/ f \notin Virtual /\ Lock(a, "addColumn", f, x, o) /\ UNCHANGED <<fields, opts, refused>>
        /\ UNCHANGED <<mysql, catalogue, indexes, displayName, schemaFaults, clean,
                       halfRemoved, bereft, raced, reloaded>>
  <2>1. PICK f \in Fields, l \in Labels, indexed \in BOOLEAN :
          LET o == [label |-> l, sound |-> TRUE]
              x == IF indexed /\ f \notin Virtual THEN Own[f] ELSE NoField
          IN /\ fields[f] = NoField
             /\ IF f \in Virtual
                THEN Lock(a, "insertField", f, x, o) /\ Publish(f, o)
                ELSE Lock(a, "addColumn", f, x, o) /\ UNCHANGED <<fields, opts, refused>>
    BY DEF AddField
  <2> DEFINE o == [label |-> l, sound |-> TRUE]
             x == IF indexed /\ f \notin Virtual THEN Own[f] ELSE NoField
  <2>2. o \in Options /\ o.sound
    BY DEF Options
  <2>3. x \in Indexes \cup {NoField}
    OBVIOUS
  <2>4. UNCHANGED <<mysql, catalogue, indexes, displayName, schemaFaults, clean,
                    halfRemoved, bereft, raced, reloaded>>
    BY DEF AddField
  <2>5. /\ fields[f] = NoField
        /\ \/ f \in Virtual /\ Lock(a, "insertField", f, x, o) /\ Publish(f, o)
           \/ f \notin Virtual /\ Lock(a, "addColumn", f, x, o) /\ UNCHANGED <<fields, opts, refused>>
    BY <2>1
  <2> HIDE DEF o, x
  <2> QED
    BY <2>2, <2>3, <2>4, <2>5
<1>lock. mu = NoField /\ \A b \in SchemaAdmins : change[b].at \notin Statements
  BY <1>types DEF AddField, Lock, RequestsOK
<1>1. RequestsOK'
  BY <1>0, <1>types, <1>lock, LockOK
<1>tables. TablesOK'
  BY <1>0, <1>types, <1>lock DEF Lock, NewCall, Publish, TablesOK, RequestsOK, Works
<1>2. SoundInv'
  <2>2. ASSUME NEW g \in Fields
        PROVE  /\ fieldRows'[g] # NoField => fieldRows'[g].sound
               /\ fields'[g] # NoField => fields'[g].sound
    BY <1>types, <1>lock, <1>0 DEF SoundInv, TablesOK, Publish
  <2>3. ASSUME NEW b \in SchemaAdmins, change'[b].at \in Statements, change'[b].input # NoField
        PROVE  change'[b].input.sound
    BY <1>types, <1>lock, <2>3, <1>0 DEF SoundInv, RequestsOK, Works, Lock, Unlock, Continue, Resting, Publish
  <2> QED
    BY <2>2, <2>3 DEF SoundInv
<1>3. WorkInv'
  <2> SUFFICES ASSUME NEW b \in SchemaAdmins PROVE Work(b)'
    BY DEF WorkInv
  <2>1. CASE b = a
    BY <1>types, <1>lock, <2>1, <1>0 DEF Lock, Publish, RequestsOK, Works, TablesOK, ListedExist, IndexesHaveKeys
  <2>2. CASE b # a
    <3>1. change'[b] = change[b] /\ change[b].at \notin FieldWork \cup IndexWork
      BY <1>types, <1>lock, <2>2, <1>0 DEF Lock, Publish, RequestsOK
    <3> QED
      BY <3>1
  <2> QED
    BY <2>1, <2>2
<1>4. ListedInv'
  BY <1>0, <1>types, <1>lock DEF Lock, NewCall, Publish, RequestsOK, Works, TablesOK, ListedInv
<1>5. SyncInv'
  <2> SUFFICES ASSUME NEW b \in SchemaAdmins, change'[b].at = "addColumns", NEW g \in change'[b].todo
               PROVE  fields'[g] # NoField \/ g \in raced'
    BY DEF SyncInv
  <2>1. change'[b] = change[b]
    BY <1>0, <1>types DEF Lock, RequestsOK
  <2>2. g \in Fields /\ (fields[g] # NoField \/ g \in raced)
    BY <1>types, <2>1 DEF SyncInv, RequestsOK, Works
  <2> QED
    BY <1>0, <1>types, <2>2 DEF Publish, TablesOK
<1>6. RowsHaveColumns'
  BY <1>0, <1>types, <1>lock DEF Lock, NewCall, Publish, RequestsOK, Works, TablesOK, ListedExist, RowsHaveColumns
<1>7. IndexesHaveKeys'
  BY <1>0, <1>types, <1>lock DEF Lock, NewCall, Publish, RequestsOK, Works, TablesOK, ListedExist, IndexesHaveKeys, ListedInv
<1>8. CleanInv'
  <2> SUFFICES ASSUME clean'
               PROVE  /\ (halfRemoved = {} /\ MetaAgrees /\ ColumnsAgree)'
                      /\ \A g \in Fields : FieldAgrees(g)'
                      /\ \A b \in SchemaAdmins : InputAgrees(b)'
                      /\ \A y \in Indexes \ bereft' : KeyAgrees(y)'
    BY DEF CleanInv
  <2>0. /\ clean /\ halfRemoved = {} /\ MetaAgrees /\ ColumnsAgree
        /\ \A g \in Fields : FieldAgrees(g)
        /\ \A b \in SchemaAdmins : InputAgrees(b)
        /\ \A y \in Indexes \ bereft : KeyAgrees(y)
    BY <1>0 DEF CleanInv
  <2>1. (halfRemoved = {})'
    BY <1>0, <2>0
  <2>2. ASSUME NEW g \in Fields PROVE FieldAgrees(g)'
    BY <1>0, <1>types, <1>lock, <2>0 DEF Lock, NewCall, Publish, RequestsOK, Works, TablesOK, FieldAgrees, InputAgrees
  <2>3. ASSUME NEW b \in SchemaAdmins PROVE InputAgrees(b)'
    BY <1>0, <1>types, <1>lock, <2>0 DEF Lock, NewCall, Publish, RequestsOK, Works, TablesOK, FieldAgrees, InputAgrees
  <2>4. MetaAgrees'
    BY <1>0, <1>types, <1>lock, <2>0 DEF Lock, NewCall, Publish, RequestsOK, Works, TablesOK, MetaAgrees
  <2>5. ColumnsAgree'
    BY <1>0, <1>types, <1>lock, <2>0 DEF Lock, NewCall, Publish, RequestsOK, Works, TablesOK, ColumnsAgree, SyncInv, SyncUnderWay
  <2>6. ASSUME NEW y \in Indexes \ bereft' PROVE KeyAgrees(y)'
    BY <1>0, <1>types, <1>lock, <2>0 DEF Lock, NewCall, Publish, RequestsOK, Works, TablesOK, KeyAgrees, ListedInv
  <2> QED
    BY <2>1, <2>2, <2>3, <2>4, <2>5, <2>6
<1>9. FieldsInv'
  <2>1. \A g \in Fields : opts'[g] = fields'[g] \/ g \in refused'
    BY <1>0, <1>types DEF Publish, TablesOK, FieldsInv
  <2>2. ASSUME NEW g \in Unloadable
        PROVE  g \in columns' /\ fieldRows'[g] # NoField /\ (reloaded' => fields'[g] = NoField)
    <3>1. g \in Fields /\ g \notin Virtual
      OBVIOUS
    <3>2. fields'[g] = fields[g]
      BY <1>0, <1>types, <3>1 DEF Publish, TablesOK
    <3> QED
      BY <1>0, <3>2 DEF FieldsInv
  <2>3. ASSUME NEW b \in SchemaAdmins,
               change'[b].at \in {"insertField", "dropColumn", "deleteField", "updateField"}
        PROVE  change'[b].field \notin Unloadable
    <3>1. CASE b = a
      <4>1. f \in Virtual /\ change'[a].field = f
        BY <1>0, <1>types, <2>3, <3>1 DEF Lock, RequestsOK
      <4> QED
        BY <3>1, <4>1
    <3>2. CASE b # a
      <4>1. change'[b] = change[b]
        BY <1>0, <1>types, <3>2 DEF Lock, RequestsOK
      <4> QED
        BY <1>lock, <2>3, <4>1
    <3> QED
      BY <3>1, <3>2
  <2> QED
    BY <2>1, <2>2, <2>3 DEF FieldsInv
<1> QED
  BY <1>1, <1>tables, <1>2, <1>3, <1>4, <1>5, <1>6, <1>7, <1>8, <1>9, TypeWhole DEF ListedExist

\* ALTER TABLE ADD COLUMN.
LEMMA AddColumnKeeps ==
  ASSUME SchemaInvar, NEW a \in SchemaAdmins, AddColumn(a)
  PROVE  SchemaInvar'
<1> USE SchemaAssumption DEF SchemaInvar, Doing, Field, Index, Statements, mysql, catalogue, inMemory, past
<1>types. RequestsOK /\ TablesOK
  BY TypeParts
<1> USE DEF Work, WorkInv, FieldWork, IndexWork
<1>lock. mu = a /\ \A b \in SchemaAdmins : change[b].at \in Statements => b = a
  BY <1>types DEF AddColumn, RequestsOK
<1>1. RequestsOK'
  BY <1>types, <1>lock, ContinueOK, UnlockOK DEF AddColumn
<1>tables. TablesOK'
  <2>1. Field(a) \in Fields \ Virtual /\ change[a].input \in Options
    BY <1>lock DEF AddColumn
  <2> QED
    BY <1>types, <2>1 DEF AddColumn, Publish, TablesOK
<1>2. SoundInv'
  <2>1. change[a].input # NoField => change[a].input.sound
    BY <1>lock, <1>types DEF SoundInv, RequestsOK
  <2>2. ASSUME NEW g \in Fields
        PROVE  /\ fieldRows'[g] # NoField => fieldRows'[g].sound
               /\ fields'[g] # NoField => fields'[g].sound
    BY <1>types, <1>lock, <2>1 DEF SoundInv, TablesOK, AddColumn, Publish
  <2>3. ASSUME NEW b \in SchemaAdmins, change'[b].at \in Statements, change'[b].input # NoField
        PROVE  change'[b].input.sound
    BY <1>types, <1>lock, <2>3, <2>1 DEF SoundInv, RequestsOK, Works, Lock, Unlock, Continue, Resting, AddColumn, Publish
  <2> QED
    BY <2>2, <2>3 DEF SoundInv
<1>3. WorkInv'
  <2> SUFFICES ASSUME NEW b \in SchemaAdmins PROVE Work(b)'
    BY DEF WorkInv
  <2>1. CASE b = a
    BY <1>types, <1>lock, <2>1 DEF AddColumn, Unlock, Continue, Resting, Publish, RequestsOK, Works, TablesOK, ListedExist, IndexesHaveKeys
  <2>2. CASE b # a
    <3>1. change'[b] = change[b] /\ change[b].at \notin FieldWork \cup IndexWork
      BY <1>types, <1>lock, <2>2 DEF AddColumn, Unlock, Continue, Resting, Publish, RequestsOK
    <3> QED
      BY <3>1
  <2> QED
    BY <2>1, <2>2
<1>4. ListedInv'
  BY <1>types, <1>lock DEF AddColumn, Unlock, Continue, Publish, Resting, RequestsOK, Works, TablesOK, ListedInv
<1>5. SyncInv'
  BY <1>types, <1>lock DEF AddColumn, Unlock, Continue, Publish, Resting, RequestsOK, Works, TablesOK, SyncInv, SyncUnderWay, Options
<1>6. RowsHaveColumns'
  BY <1>types, <1>lock DEF AddColumn, Unlock, Continue, Publish, Resting, RequestsOK, Works, TablesOK, ListedExist, RowsHaveColumns
<1>7. IndexesHaveKeys'
  BY <1>types, <1>lock DEF AddColumn, Unlock, Continue, Publish, Resting, RequestsOK, Works, TablesOK, ListedExist, IndexesHaveKeys, ListedInv
<1>8. CleanInv'
  <2> SUFFICES ASSUME clean'
               PROVE  /\ (halfRemoved = {} /\ MetaAgrees /\ ColumnsAgree)'
                      /\ \A f \in Fields : FieldAgrees(f)'
                      /\ \A b \in SchemaAdmins : InputAgrees(b)'
                      /\ \A x \in Indexes \ bereft' : KeyAgrees(x)'
    BY DEF CleanInv
  <2>0. /\ clean /\ halfRemoved = {} /\ MetaAgrees /\ ColumnsAgree
        /\ \A f \in Fields : FieldAgrees(f)
        /\ \A b \in SchemaAdmins : InputAgrees(b)
        /\ \A x \in Indexes \ bereft : KeyAgrees(x)
    BY DEF AddColumn, CleanInv
  <2>1. (halfRemoved = {})'
    BY <2>0 DEF AddColumn
  <2>2. ASSUME NEW f \in Fields PROVE FieldAgrees(f)'
    BY <1>types, <1>lock, <2>0 DEF AddColumn, Unlock, Continue, Publish, Resting, RequestsOK, Works, TablesOK, FieldAgrees, InputAgrees, FieldsInv, Options
  <2>3. ASSUME NEW b \in SchemaAdmins PROVE InputAgrees(b)'
    <3>1. CASE b # a
      <4>1. change'[b] = change[b] /\ change[b].at \notin Statements
        BY <1>types, <1>lock, <3>1 DEF AddColumn, Unlock, Continue, RequestsOK
      <4> QED
        BY <4>1 DEF InputAgrees
    <3>2. CASE b = a /\ Field(a) \in columns
      BY <1>types, <3>2 DEF AddColumn, Unlock, Resting, InputAgrees, RequestsOK
    <3>3. CASE b = a /\ Field(a) \notin columns
      <4>1. Field(a) \in Fields /\ Field(a) \notin Unloadable /\ fields[Field(a)] = NoField
        BY <1>lock, <3>3 DEF AddColumn, FieldsInv
      <4>2. fieldRows[Field(a)] = NoField
        BY <1>lock, <2>0, <4>1 DEF AddColumn, FieldAgrees
      <4>3. change'[a] = [change[a] EXCEPT !.at = "insertField"]
        BY <1>types, <3>3 DEF AddColumn, Continue, RequestsOK
      <4>4. /\ change'[a].at = "insertField" /\ change'[a].field = change[a].field
            /\ change'[a].input = change[a].input
        BY <1>types, <4>3 DEF RequestsOK, Works
      <4>5. fields'[Field(a)] = change[a].input /\ fieldRows' = fieldRows
        BY <1>types, <3>3, <4>1 DEF AddColumn, Publish, TablesOK
      <4> QED
        BY <3>3, <4>2, <4>4, <4>5 DEF InputAgrees
    <3> QED
      BY <3>1, <3>2, <3>3
  <2>4. MetaAgrees'
    BY <1>types, <1>lock, <2>0 DEF AddColumn, Unlock, Continue, Publish, Resting, RequestsOK, Works, TablesOK, MetaAgrees
  <2>5. ColumnsAgree'
    BY <1>types, <1>lock, <2>0 DEF AddColumn, Unlock, Continue, Publish, Resting, RequestsOK, Works, TablesOK, ColumnsAgree, SyncInv, SyncUnderWay, Options
  <2>6. ASSUME NEW x \in Indexes \ bereft' PROVE KeyAgrees(x)'
    BY <1>types, <1>lock, <2>0 DEF AddColumn, Unlock, Continue, Publish, Resting, RequestsOK, Works, TablesOK, KeyAgrees, ListedInv
  <2> QED
    BY <2>1, <2>2, <2>3, <2>4, <2>5, <2>6
<1>9. FieldsInv'
  BY <1>types, <1>lock DEF AddColumn, Unlock, Continue, Publish, Resting, RequestsOK, Works, TablesOK, FieldsInv
<1> QED
  BY <1>1, <1>tables, <1>2, <1>3, <1>4, <1>5, <1>6, <1>7, <1>8, <1>9, TypeWhole DEF ListedExist

\* insertFieldRow.
LEMMA InsertFieldKeeps ==
  ASSUME SchemaInvar, NEW a \in SchemaAdmins, InsertField(a)
  PROVE  SchemaInvar'
<1> USE SchemaAssumption DEF SchemaInvar, Doing, Field, Index, Statements, mysql, catalogue, inMemory, past
<1>types. RequestsOK /\ TablesOK
  BY TypeParts
<1> USE DEF Work, WorkInv, FieldWork, IndexWork
<1>lock. mu = a /\ \A b \in SchemaAdmins : change[b].at \in Statements => b = a
  BY <1>types DEF InsertField, RequestsOK
<1>1. RequestsOK'
  BY <1>types, <1>lock, ContinueOK, UnlockOK DEF InsertField
<1>tables. TablesOK'
  BY <1>types, <1>lock DEF InsertField, Unlock, Continue, Resting, TablesOK, RequestsOK, Works, Options
<1>2. SoundInv'
  <2>1. change[a].input # NoField => change[a].input.sound
    BY <1>lock, <1>types DEF SoundInv, RequestsOK
  <2>2. ASSUME NEW g \in Fields
        PROVE  /\ fieldRows'[g] # NoField => fieldRows'[g].sound
               /\ fields'[g] # NoField => fields'[g].sound
    BY <1>types, <1>lock, <2>1 DEF SoundInv, TablesOK, InsertField
  <2>3. ASSUME NEW b \in SchemaAdmins, change'[b].at \in Statements, change'[b].input # NoField
        PROVE  change'[b].input.sound
    <3>1. CASE change' = [change EXCEPT ![a] = Resting]
      BY <1>types, <1>lock, <2>3, <3>1 DEF SoundInv, RequestsOK, Works, Resting
    <3>2. CASE change' = [change EXCEPT ![a] = [change[a] EXCEPT !.at = "createIndex"]]
      BY <1>types, <1>lock, <2>1, <2>3, <3>2 DEF SoundInv, RequestsOK, Works
    <3> QED
      BY <3>1, <3>2 DEF InsertField, Unlock, Continue
  <2> QED
    BY <2>2, <2>3 DEF SoundInv
<1>3. WorkInv'
  <2> SUFFICES ASSUME NEW b \in SchemaAdmins PROVE Work(b)'
    BY DEF WorkInv
  <2>1. CASE b = a
    BY <1>types, <1>lock, <2>1 DEF InsertField, Unlock, Continue, Resting, RequestsOK, Works, TablesOK, ListedExist, IndexesHaveKeys
  <2>2. CASE b # a
    <3>1. change'[b] = change[b] /\ change[b].at \notin FieldWork \cup IndexWork
      BY <1>types, <1>lock, <2>2 DEF InsertField, Unlock, Continue, Resting, RequestsOK
    <3> QED
      BY <3>1
  <2> QED
    BY <2>1, <2>2
<1>4. ListedInv'
  BY <1>types, <1>lock DEF InsertField, Unlock, Continue, Resting, RequestsOK, Works, TablesOK, ListedInv
<1>5. SyncInv'
  BY <1>types, <1>lock DEF InsertField, Unlock, Continue, Resting, RequestsOK, Works, TablesOK, SyncInv, SyncUnderWay, Options
<1>6. RowsHaveColumns'
  BY <1>types, <1>lock DEF InsertField, Unlock, Continue, Resting, RequestsOK, Works, TablesOK, ListedExist, RowsHaveColumns
<1>7. IndexesHaveKeys'
  BY <1>types, <1>lock DEF InsertField, Unlock, Continue, Resting, RequestsOK, Works, TablesOK, ListedExist, IndexesHaveKeys, ListedInv
<1>8. CleanInv'
  <2> SUFFICES ASSUME clean'
               PROVE  /\ (halfRemoved = {} /\ MetaAgrees /\ ColumnsAgree)'
                      /\ \A f \in Fields : FieldAgrees(f)'
                      /\ \A b \in SchemaAdmins : InputAgrees(b)'
                      /\ \A x \in Indexes \ bereft' : KeyAgrees(x)'
    BY DEF CleanInv
  <2>0. /\ clean /\ halfRemoved = {} /\ MetaAgrees /\ ColumnsAgree
        /\ \A f \in Fields : FieldAgrees(f)
        /\ \A b \in SchemaAdmins : InputAgrees(b)
        /\ \A x \in Indexes \ bereft : KeyAgrees(x)
    BY DEF InsertField, CleanInv
  <2>1. (halfRemoved = {})'
    BY <2>0 DEF InsertField
  <2>2. ASSUME NEW f \in Fields PROVE FieldAgrees(f)'
    BY <1>types, <1>lock, <2>0 DEF InsertField, Unlock, Continue, Resting, RequestsOK, Works, TablesOK, FieldAgrees, InputAgrees, Options
  <2>3. ASSUME NEW b \in SchemaAdmins PROVE InputAgrees(b)'
    BY <1>types, <1>lock, <2>0 DEF InsertField, Unlock, Continue, Resting, RequestsOK, Works, TablesOK, FieldAgrees, InputAgrees, Options
  <2>4. MetaAgrees'
    BY <1>types, <1>lock, <2>0 DEF InsertField, Unlock, Continue, Resting, RequestsOK, Works, TablesOK, MetaAgrees
  <2>5. ColumnsAgree'
    BY <1>types, <1>lock, <2>0 DEF InsertField, Unlock, Continue, Resting, RequestsOK, Works, TablesOK, ColumnsAgree, SyncInv, SyncUnderWay, Options
  <2>6. ASSUME NEW x \in Indexes \ bereft' PROVE KeyAgrees(x)'
    BY <1>types, <1>lock, <2>0 DEF InsertField, Unlock, Continue, Resting, RequestsOK, Works, TablesOK, KeyAgrees, ListedInv
  <2> QED
    BY <2>1, <2>2, <2>3, <2>4, <2>5, <2>6
<1>9. FieldsInv'
  BY <1>types, <1>lock DEF InsertField, Unlock, Continue, Resting, RequestsOK, Works, TablesOK, FieldsInv
<1> QED
  BY <1>1, <1>tables, <1>2, <1>3, <1>4, <1>5, <1>6, <1>7, <1>8, <1>9, TypeWhole DEF ListedExist

\* AddIndex.
LEMMA AddIndexKeeps ==
  ASSUME SchemaInvar, NEW a \in SchemaAdmins, AddIndex(a)
  PROVE  SchemaInvar'
<1> USE SchemaAssumption DEF SchemaInvar, Doing, Field, Index, Statements, mysql, catalogue, inMemory, past
<1>types. RequestsOK /\ TablesOK
  BY TypeParts
<1> USE DEF Work, WorkInv, FieldWork, IndexWork
<1>lock. mu = NoField /\ \A b \in SchemaAdmins : change[b].at \notin Statements
  BY <1>types DEF AddIndex, Lock, RequestsOK
<1>1. RequestsOK'
  BY <1>types, <1>lock, LockOK DEF AddIndex
<1>tables. TablesOK'
  BY <1>types, <1>lock DEF AddIndex, Lock, NewCall, TablesOK, RequestsOK, Works, Options
<1>2. SoundInv'
  BY <1>types, <1>lock DEF AddIndex, Lock, NewCall, SoundInv, RequestsOK, Works, TablesOK, Options
<1>3. WorkInv'
  BY <1>types, <1>lock DEF AddIndex, Lock, NewCall, RequestsOK, Works, TablesOK, ListedExist, IndexesHaveKeys, Options
<1>4. ListedInv'
  BY <1>types, <1>lock DEF AddIndex, Lock, NewCall, RequestsOK, Works, TablesOK, ListedInv
<1>5. SyncInv'
  BY <1>types, <1>lock DEF AddIndex, Lock, NewCall, RequestsOK, Works, TablesOK, SyncInv, SyncUnderWay, Options
<1>6. RowsHaveColumns'
  BY <1>types, <1>lock DEF AddIndex, Lock, NewCall, RequestsOK, Works, TablesOK, ListedExist, RowsHaveColumns
<1>7. IndexesHaveKeys'
  BY <1>types, <1>lock DEF AddIndex, Lock, NewCall, RequestsOK, Works, TablesOK, ListedExist, IndexesHaveKeys, ListedInv
<1>8. CleanInv'
  <2> SUFFICES ASSUME clean'
               PROVE  /\ (halfRemoved = {} /\ MetaAgrees /\ ColumnsAgree)'
                      /\ \A f \in Fields : FieldAgrees(f)'
                      /\ \A b \in SchemaAdmins : InputAgrees(b)'
                      /\ \A x \in Indexes \ bereft' : KeyAgrees(x)'
    BY DEF CleanInv
  <2>0. /\ clean /\ halfRemoved = {} /\ MetaAgrees /\ ColumnsAgree
        /\ \A f \in Fields : FieldAgrees(f)
        /\ \A b \in SchemaAdmins : InputAgrees(b)
        /\ \A x \in Indexes \ bereft : KeyAgrees(x)
    BY DEF AddIndex, CleanInv
  <2>1. (halfRemoved = {})'
    BY <2>0 DEF AddIndex
  <2>2. ASSUME NEW f \in Fields PROVE FieldAgrees(f)'
    BY <1>types, <1>lock, <2>0 DEF AddIndex, Lock, NewCall, RequestsOK, Works, TablesOK, FieldAgrees, InputAgrees, Options
  <2>3. ASSUME NEW b \in SchemaAdmins PROVE InputAgrees(b)'
    BY <1>types, <1>lock, <2>0 DEF AddIndex, Lock, NewCall, RequestsOK, Works, TablesOK, FieldAgrees, InputAgrees, Options
  <2>4. MetaAgrees'
    BY <1>types, <1>lock, <2>0 DEF AddIndex, Lock, NewCall, RequestsOK, Works, TablesOK, MetaAgrees
  <2>5. ColumnsAgree'
    BY <1>types, <1>lock, <2>0 DEF AddIndex, Lock, NewCall, RequestsOK, Works, TablesOK, ColumnsAgree, SyncInv, SyncUnderWay, Options
  <2>6. ASSUME NEW x \in Indexes \ bereft' PROVE KeyAgrees(x)'
    BY <1>types, <1>lock, <2>0 DEF AddIndex, Lock, NewCall, RequestsOK, Works, TablesOK, KeyAgrees, ListedInv
  <2> QED
    BY <2>1, <2>2, <2>3, <2>4, <2>5, <2>6
<1>9. FieldsInv'
  BY <1>types, <1>lock DEF AddIndex, Lock, NewCall, RequestsOK, Works, TablesOK, FieldsInv
<1> QED
  BY <1>1, <1>tables, <1>2, <1>3, <1>4, <1>5, <1>6, <1>7, <1>8, <1>9, TypeWhole DEF ListedExist

\* CREATE INDEX.
LEMMA CreateIndexKeeps ==
  ASSUME SchemaInvar, NEW a \in SchemaAdmins, CreateIndex(a)
  PROVE  SchemaInvar'
<1> USE SchemaAssumption DEF SchemaInvar, Doing, Field, Index, Statements, mysql, catalogue, inMemory, past
<1>types. RequestsOK /\ TablesOK
  BY TypeParts
<1> USE DEF Work, WorkInv, FieldWork, IndexWork
<1>lock. mu = a /\ \A b \in SchemaAdmins : change[b].at \in Statements => b = a
  BY <1>types DEF CreateIndex, RequestsOK
<1>1. RequestsOK'
  BY <1>types, <1>lock, ContinueOK, UnlockOK DEF CreateIndex
<1>tables. TablesOK'
  BY <1>types, <1>lock DEF CreateIndex, Creatable, Continue, Unlock, Resting, TablesOK, RequestsOK, Works, Options
<1>2. SoundInv'
  <2>1. UNCHANGED <<fieldRows, fields>>
    BY DEF CreateIndex
  <2>2. ASSUME NEW b \in SchemaAdmins, change'[b].at \in Statements, change'[b].input # NoField
        PROVE  change'[b].input.sound
    BY <1>types, <1>lock, <2>2 DEF SoundInv, RequestsOK, Works, Unlock, Continue, Resting, CreateIndex
  <2> QED
    BY <2>1, <2>2 DEF SoundInv
<1>3. WorkInv'
  <2> SUFFICES ASSUME NEW b \in SchemaAdmins PROVE Work(b)'
    BY DEF WorkInv
  <2>1. CASE b = a
    <3>1. CASE ~Creatable(Index(a))
      BY <1>types, <2>1, <3>1 DEF CreateIndex, Unlock, Resting, RequestsOK
    <3>2. CASE Creatable(Index(a))
      <4>1. Index(a) \in Indexes
        BY <1>lock DEF CreateIndex
      <4>2. change'[a] = [change[a] EXCEPT !.at = "insertIndex"]
        BY <1>types, <3>2 DEF CreateIndex, Continue, RequestsOK
      <4>3. change'[a].at = "insertIndex" /\ change'[a].index = Index(a)
        BY <1>types, <4>2 DEF RequestsOK, Works
      <4>4. keys'[Index(a)] = On[Index(a)] /\ UNCHANGED <<indexRows, indexes, halfRemoved, bereft>>
        BY <1>types, <3>2, <4>1 DEF CreateIndex, TablesOK
      <4>5. Index(a) \notin halfRemoved \cup bereft => ~(indexRows[Index(a)] + indexes[Index(a)] > 0)
        BY <1>lock, <3>2, <4>1 DEF CreateIndex, Creatable, ListedExist, IndexesHaveKeys
      <4>6. indexRows[Index(a)] \in Nat /\ indexes[Index(a)] \in Nat
        BY <1>types, <4>1 DEF TablesOK
      <4>7. Index(a) \notin halfRemoved \cup bereft => indexRows[Index(a)] = 0 /\ indexes[Index(a)] = 0
        BY <4>5, <4>6
      <4> QED
        BY <2>1, <4>1, <4>3, <4>4, <4>7
    <3> QED
      BY <3>1, <3>2
  <2>2. CASE b # a
    <3>1. change'[b] = change[b] /\ change[b].at \notin FieldWork \cup IndexWork
      BY <1>types, <1>lock, <2>2 DEF CreateIndex, Unlock, Continue, RequestsOK
    <3> QED
      BY <3>1
  <2> QED
    BY <2>1, <2>2
<1>4. ListedInv'
  BY <1>types, <1>lock DEF CreateIndex, Creatable, Continue, Unlock, Resting, RequestsOK, Works, TablesOK, ListedInv
<1>5. SyncInv'
  BY <1>types, <1>lock DEF CreateIndex, Creatable, Continue, Unlock, Resting, RequestsOK, Works, TablesOK, SyncInv, SyncUnderWay, Options
<1>6. RowsHaveColumns'
  BY <1>types, <1>lock DEF CreateIndex, Creatable, Continue, Unlock, Resting, RequestsOK, Works, TablesOK, ListedExist, RowsHaveColumns
<1>7. IndexesHaveKeys'
  BY <1>types, <1>lock DEF CreateIndex, Creatable, Continue, Unlock, Resting, RequestsOK, Works, TablesOK, ListedExist, IndexesHaveKeys, ListedInv
<1>8. CleanInv'
  <2> SUFFICES ASSUME clean'
               PROVE  /\ (halfRemoved = {} /\ MetaAgrees /\ ColumnsAgree)'
                      /\ \A f \in Fields : FieldAgrees(f)'
                      /\ \A b \in SchemaAdmins : InputAgrees(b)'
                      /\ \A x \in Indexes \ bereft' : KeyAgrees(x)'
    BY DEF CleanInv
  <2>0. /\ clean /\ halfRemoved = {} /\ MetaAgrees /\ ColumnsAgree
        /\ \A f \in Fields : FieldAgrees(f)
        /\ \A b \in SchemaAdmins : InputAgrees(b)
        /\ \A x \in Indexes \ bereft : KeyAgrees(x)
    BY DEF CreateIndex, CleanInv
  <2>1. (halfRemoved = {})'
    BY <2>0 DEF CreateIndex
  <2>2. ASSUME NEW f \in Fields PROVE FieldAgrees(f)'
    BY <1>types, <1>lock, <2>0 DEF CreateIndex, Creatable, Continue, Unlock, Resting, RequestsOK, Works, TablesOK, FieldAgrees, InputAgrees, Options
  <2>3. ASSUME NEW b \in SchemaAdmins PROVE InputAgrees(b)'
    BY <1>types, <1>lock, <2>0 DEF CreateIndex, Creatable, Continue, Unlock, Resting, RequestsOK, Works, TablesOK, FieldAgrees, InputAgrees, Options
  <2>4. MetaAgrees'
    BY <1>types, <1>lock, <2>0 DEF CreateIndex, Creatable, Continue, Unlock, Resting, RequestsOK, Works, TablesOK, MetaAgrees
  <2>5. ColumnsAgree'
    BY <1>types, <1>lock, <2>0 DEF CreateIndex, Creatable, Continue, Unlock, Resting, RequestsOK, Works, TablesOK, ColumnsAgree, SyncInv, SyncUnderWay, Options
  <2>6. ASSUME NEW x \in Indexes \ bereft' PROVE KeyAgrees(x)'
    <3>1. CASE x = Index(a)
      <4>1. /\ keys[x] = IF indexes[x] = 1 THEN On[x] ELSE {}
            /\ indexRows[x] = indexes[x] /\ indexes[x] <= 1
        BY <1>lock, <2>0, <3>1 DEF CreateIndex, KeyAgrees
      <4>2. indexRows' = indexRows /\ indexes' = indexes
        BY DEF CreateIndex
      <4>3. CASE ~Creatable(x)
        BY <3>1, <4>1, <4>2, <4>3 DEF CreateIndex, KeyAgrees
      <4>4. CASE Creatable(x)
        <5>1. Index(a)' = x /\ Doing(a, "insertIndex")'
          BY <1>types, <3>1, <4>4 DEF CreateIndex, Continue, RequestsOK, Works
        <5> QED
          BY <4>1, <4>2, <5>1 DEF KeyAgrees
      <4> QED
        BY <4>3, <4>4
    <3>2. CASE x # Index(a)
      <4>1. /\ keys[x] = IF indexes[x] = 1 THEN On[x] ELSE {}
            /\ indexRows[x] = indexes[x] /\ indexes[x] <= 1
        BY <1>lock, <2>0, <3>2 DEF CreateIndex, KeyAgrees
      <4>2. keys'[x] = keys[x] /\ indexRows'[x] = indexRows[x] /\ indexes'[x] = indexes[x]
        BY <1>types, <3>2 DEF CreateIndex, TablesOK
      <4> QED
        BY <4>1, <4>2 DEF KeyAgrees
    <3> QED
      BY <3>1, <3>2
  <2> QED
    BY <2>1, <2>2, <2>3, <2>4, <2>5, <2>6
<1>9. FieldsInv'
  BY <1>types, <1>lock DEF CreateIndex, Creatable, Continue, Unlock, Resting, RequestsOK, Works, TablesOK, FieldsInv
<1> QED
  BY <1>1, <1>tables, <1>2, <1>3, <1>4, <1>5, <1>6, <1>7, <1>8, <1>9, TypeWhole DEF ListedExist

\* persistIndex, and the entry in memory.
LEMMA InsertIndexKeeps ==
  ASSUME SchemaInvar, NEW a \in SchemaAdmins, InsertIndex(a)
  PROVE  SchemaInvar'
<1> USE SchemaAssumption DEF SchemaInvar, Doing, Field, Index, Statements, mysql, catalogue, inMemory, past
<1>types. RequestsOK /\ TablesOK
  BY TypeParts
<1> USE DEF Work, WorkInv, FieldWork, IndexWork
<1>lock. mu = a /\ \A b \in SchemaAdmins : change[b].at \in Statements => b = a
  BY <1>types DEF InsertIndex, RequestsOK
<1>1. RequestsOK'
  BY <1>types, <1>lock, UnlockOK DEF InsertIndex
<1>tables. TablesOK'
  BY <1>types, <1>lock DEF InsertIndex, Unlock, Resting, TablesOK, RequestsOK, Works, Options
<1>2. SoundInv'
  BY <1>types, <1>lock DEF InsertIndex, Unlock, Resting, SoundInv, RequestsOK, Works, TablesOK, Options
<1>3. WorkInv'
  BY <1>types, <1>lock DEF InsertIndex, Unlock, Resting, RequestsOK, Works, TablesOK, ListedExist, IndexesHaveKeys, Options
<1>4. ListedInv'
  BY <1>types, <1>lock DEF InsertIndex, Unlock, Resting, RequestsOK, Works, TablesOK, ListedInv
<1>5. SyncInv'
  BY <1>types, <1>lock DEF InsertIndex, Unlock, Resting, RequestsOK, Works, TablesOK, SyncInv, SyncUnderWay, Options
<1>6. RowsHaveColumns'
  BY <1>types, <1>lock DEF InsertIndex, Unlock, Resting, RequestsOK, Works, TablesOK, ListedExist, RowsHaveColumns
<1>7. IndexesHaveKeys'
  BY <1>types, <1>lock DEF InsertIndex, Unlock, Resting, RequestsOK, Works, TablesOK, ListedExist, IndexesHaveKeys, ListedInv
<1>8. CleanInv'
  <2> SUFFICES ASSUME clean'
               PROVE  /\ (halfRemoved = {} /\ MetaAgrees /\ ColumnsAgree)'
                      /\ \A f \in Fields : FieldAgrees(f)'
                      /\ \A b \in SchemaAdmins : InputAgrees(b)'
                      /\ \A x \in Indexes \ bereft' : KeyAgrees(x)'
    BY DEF CleanInv
  <2>0. /\ clean /\ halfRemoved = {} /\ MetaAgrees /\ ColumnsAgree
        /\ \A f \in Fields : FieldAgrees(f)
        /\ \A b \in SchemaAdmins : InputAgrees(b)
        /\ \A x \in Indexes \ bereft : KeyAgrees(x)
    BY DEF InsertIndex, CleanInv
  <2>1. (halfRemoved = {})'
    BY <2>0 DEF InsertIndex
  <2>2. ASSUME NEW f \in Fields PROVE FieldAgrees(f)'
    BY <1>types, <1>lock, <2>0 DEF InsertIndex, Unlock, Resting, RequestsOK, Works, TablesOK, FieldAgrees, InputAgrees, Options
  <2>3. ASSUME NEW b \in SchemaAdmins PROVE InputAgrees(b)'
    BY <1>types, <1>lock, <2>0 DEF InsertIndex, Unlock, Resting, RequestsOK, Works, TablesOK, FieldAgrees, InputAgrees, Options
  <2>4. MetaAgrees'
    BY <1>types, <1>lock, <2>0 DEF InsertIndex, Unlock, Resting, RequestsOK, Works, TablesOK, MetaAgrees
  <2>5. ColumnsAgree'
    BY <1>types, <1>lock, <2>0 DEF InsertIndex, Unlock, Resting, RequestsOK, Works, TablesOK, ColumnsAgree, SyncInv, SyncUnderWay, Options
  <2>6. ASSUME NEW x \in Indexes \ bereft' PROVE KeyAgrees(x)'
    BY <1>types, <1>lock, <2>0 DEF InsertIndex, Unlock, Resting, RequestsOK, Works, TablesOK, KeyAgrees, ListedInv
  <2> QED
    BY <2>1, <2>2, <2>3, <2>4, <2>5, <2>6
<1>9. FieldsInv'
  BY <1>types, <1>lock DEF InsertIndex, Unlock, Resting, RequestsOK, Works, TablesOK, FieldsInv
<1> QED
  BY <1>1, <1>tables, <1>2, <1>3, <1>4, <1>5, <1>6, <1>7, <1>8, <1>9, TypeWhole DEF ListedExist

\* RemoveIndex.
LEMMA RemoveIndexKeeps ==
  ASSUME SchemaInvar, NEW a \in SchemaAdmins, RemoveIndex(a)
  PROVE  SchemaInvar'
<1> USE SchemaAssumption DEF SchemaInvar, Doing, Field, Index, Statements, mysql, catalogue, inMemory, past
<1>types. RequestsOK /\ TablesOK
  BY TypeParts
<1> USE DEF Work, WorkInv, FieldWork, IndexWork
<1>lock. mu = NoField /\ \A b \in SchemaAdmins : change[b].at \notin Statements
  BY <1>types DEF RemoveIndex, Lock, RequestsOK
<1>1. RequestsOK'
  BY <1>types, <1>lock, LockOK DEF RemoveIndex
<1>tables. TablesOK'
  BY <1>types, <1>lock DEF RemoveIndex, Lock, NewCall, TablesOK, RequestsOK, Works, Options
<1>2. SoundInv'
  BY <1>types, <1>lock DEF RemoveIndex, Lock, NewCall, SoundInv, RequestsOK, Works, TablesOK, Options
<1>3. WorkInv'
  BY <1>types, <1>lock DEF RemoveIndex, Lock, NewCall, RequestsOK, Works, TablesOK, ListedExist, IndexesHaveKeys, Options
<1>4. ListedInv'
  BY <1>types, <1>lock DEF RemoveIndex, Lock, NewCall, RequestsOK, Works, TablesOK, ListedInv
<1>5. SyncInv'
  BY <1>types, <1>lock DEF RemoveIndex, Lock, NewCall, RequestsOK, Works, TablesOK, SyncInv, SyncUnderWay, Options
<1>6. RowsHaveColumns'
  BY <1>types, <1>lock DEF RemoveIndex, Lock, NewCall, RequestsOK, Works, TablesOK, ListedExist, RowsHaveColumns
<1>7. IndexesHaveKeys'
  BY <1>types, <1>lock DEF RemoveIndex, Lock, NewCall, RequestsOK, Works, TablesOK, ListedExist, IndexesHaveKeys, ListedInv
<1>8. CleanInv'
  <2> SUFFICES ASSUME clean'
               PROVE  /\ (halfRemoved = {} /\ MetaAgrees /\ ColumnsAgree)'
                      /\ \A f \in Fields : FieldAgrees(f)'
                      /\ \A b \in SchemaAdmins : InputAgrees(b)'
                      /\ \A x \in Indexes \ bereft' : KeyAgrees(x)'
    BY DEF CleanInv
  <2>0. /\ clean /\ halfRemoved = {} /\ MetaAgrees /\ ColumnsAgree
        /\ \A f \in Fields : FieldAgrees(f)
        /\ \A b \in SchemaAdmins : InputAgrees(b)
        /\ \A x \in Indexes \ bereft : KeyAgrees(x)
    BY DEF RemoveIndex, CleanInv
  <2>1. (halfRemoved = {})'
    BY <2>0 DEF RemoveIndex
  <2>2. ASSUME NEW f \in Fields PROVE FieldAgrees(f)'
    BY <1>types, <1>lock, <2>0 DEF RemoveIndex, Lock, NewCall, RequestsOK, Works, TablesOK, FieldAgrees, InputAgrees, Options
  <2>3. ASSUME NEW b \in SchemaAdmins PROVE InputAgrees(b)'
    BY <1>types, <1>lock, <2>0 DEF RemoveIndex, Lock, NewCall, RequestsOK, Works, TablesOK, FieldAgrees, InputAgrees, Options
  <2>4. MetaAgrees'
    BY <1>types, <1>lock, <2>0 DEF RemoveIndex, Lock, NewCall, RequestsOK, Works, TablesOK, MetaAgrees
  <2>5. ColumnsAgree'
    BY <1>types, <1>lock, <2>0 DEF RemoveIndex, Lock, NewCall, RequestsOK, Works, TablesOK, ColumnsAgree, SyncInv, SyncUnderWay, Options
  <2>6. ASSUME NEW x \in Indexes \ bereft' PROVE KeyAgrees(x)'
    BY <1>types, <1>lock, <2>0 DEF RemoveIndex, Lock, NewCall, RequestsOK, Works, TablesOK, KeyAgrees, ListedInv
  <2> QED
    BY <2>1, <2>2, <2>3, <2>4, <2>5, <2>6
<1>9. FieldsInv'
  BY <1>types, <1>lock DEF RemoveIndex, Lock, NewCall, RequestsOK, Works, TablesOK, FieldsInv
<1> QED
  BY <1>1, <1>tables, <1>2, <1>3, <1>4, <1>5, <1>6, <1>7, <1>8, <1>9, TypeWhole DEF ListedExist

\* DROP INDEX.
LEMMA DropIndexKeeps ==
  ASSUME SchemaInvar, NEW a \in SchemaAdmins, DropIndex(a)
  PROVE  SchemaInvar'
<1> USE SchemaAssumption DEF SchemaInvar, Doing, Field, Index, Statements, mysql, catalogue, inMemory, past
<1>types. RequestsOK /\ TablesOK
  BY TypeParts
<1> USE DEF Work, WorkInv, FieldWork, IndexWork
<1>lock. mu = a /\ \A b \in SchemaAdmins : change[b].at \in Statements => b = a
  BY <1>types DEF DropIndex, RequestsOK
<1>1. RequestsOK'
  BY <1>types, <1>lock, ContinueOK, UnlockOK DEF DropIndex
<1>tables. TablesOK'
  BY <1>types, <1>lock DEF DropIndex, Continue, Unlock, Resting, TablesOK, RequestsOK, Works, Options
<1>2. SoundInv'
  <2>1. change[a].input # NoField => change[a].input.sound
    BY <1>lock, <1>types DEF SoundInv, RequestsOK
  <2>2. ASSUME NEW g \in Fields
        PROVE  /\ fieldRows'[g] # NoField => fieldRows'[g].sound
               /\ fields'[g] # NoField => fields'[g].sound
    BY <1>types, <1>lock, <2>1 DEF SoundInv, TablesOK, DropIndex
  <2>3. ASSUME NEW b \in SchemaAdmins, change'[b].at \in Statements, change'[b].input # NoField
        PROVE  change'[b].input.sound
    BY <1>types, <1>lock, <2>3, <2>1 DEF SoundInv, RequestsOK, Works, Lock, Unlock, Continue, Resting, DropIndex
  <2> QED
    BY <2>2, <2>3 DEF SoundInv
<1>3. WorkInv'
  <2> SUFFICES ASSUME NEW b \in SchemaAdmins PROVE Work(b)'
    BY DEF WorkInv
  <2>1. CASE b = a
    <3>1. CASE keys[Index(a)] = {}
      BY <1>types, <2>1, <3>1 DEF DropIndex, Unlock, Resting, RequestsOK
    <3>2. CASE keys[Index(a)] # {}
      <4>1. Index(a) \in Indexes /\ indexes[Index(a)] > 0
        BY <1>lock DEF DropIndex
      <4>2. change'[a] = [change[a] EXCEPT !.at = "deleteIndex"]
        BY <1>types, <3>2 DEF DropIndex, Continue, RequestsOK
      <4>3. change'[a].at = "deleteIndex" /\ change'[a].index = Index(a)
        BY <1>types, <4>2 DEF RequestsOK, Works
      <4>4. keys'[Index(a)] = {} /\ indexes' = indexes
        BY <1>types, <3>2, <4>1 DEF DropIndex, TablesOK
      <4> QED
        BY <2>1, <4>1, <4>3, <4>4
    <3> QED
      BY <3>1, <3>2
  <2>2. CASE b # a
    <3>1. change'[b] = change[b] /\ change[b].at \notin FieldWork \cup IndexWork
      BY <1>types, <1>lock, <2>2 DEF DropIndex, Unlock, Continue, RequestsOK
    <3> QED
      BY <3>1
  <2> QED
    BY <2>1, <2>2
<1>4. ListedInv'
  BY <1>types, <1>lock DEF DropIndex, Continue, Unlock, Resting, RequestsOK, Works, TablesOK, ListedInv
<1>5. SyncInv'
  BY <1>types, <1>lock DEF DropIndex, Continue, Unlock, Resting, RequestsOK, Works, TablesOK, SyncInv, SyncUnderWay, Options
<1>6. RowsHaveColumns'
  BY <1>types, <1>lock DEF DropIndex, Continue, Unlock, Resting, RequestsOK, Works, TablesOK, ListedExist, RowsHaveColumns
<1>7. IndexesHaveKeys'
  BY <1>types, <1>lock DEF DropIndex, Continue, Unlock, Resting, RequestsOK, Works, TablesOK, ListedExist, IndexesHaveKeys, ListedInv
<1>8. CleanInv'
  <2> SUFFICES ASSUME clean'
               PROVE  /\ (halfRemoved = {} /\ MetaAgrees /\ ColumnsAgree)'
                      /\ \A f \in Fields : FieldAgrees(f)'
                      /\ \A b \in SchemaAdmins : InputAgrees(b)'
                      /\ \A x \in Indexes \ bereft' : KeyAgrees(x)'
    BY DEF CleanInv
  <2>0. /\ clean /\ halfRemoved = {} /\ MetaAgrees /\ ColumnsAgree
        /\ \A f \in Fields : FieldAgrees(f)
        /\ \A b \in SchemaAdmins : InputAgrees(b)
        /\ \A x \in Indexes \ bereft : KeyAgrees(x)
    BY DEF DropIndex, CleanInv
  <2>1. (halfRemoved = {})'
    BY <2>0 DEF DropIndex
  <2>2. ASSUME NEW f \in Fields PROVE FieldAgrees(f)'
    BY <1>types, <1>lock, <2>0 DEF DropIndex, Continue, Unlock, Resting, RequestsOK, Works, TablesOK, FieldAgrees, InputAgrees, Options
  <2>3. ASSUME NEW b \in SchemaAdmins PROVE InputAgrees(b)'
    BY <1>types, <1>lock, <2>0 DEF DropIndex, Continue, Unlock, Resting, RequestsOK, Works, TablesOK, FieldAgrees, InputAgrees, Options
  <2>4. MetaAgrees'
    BY <1>types, <1>lock, <2>0 DEF DropIndex, Continue, Unlock, Resting, RequestsOK, Works, TablesOK, MetaAgrees
  <2>5. ColumnsAgree'
    BY <1>types, <1>lock, <2>0 DEF DropIndex, Continue, Unlock, Resting, RequestsOK, Works, TablesOK, ColumnsAgree, SyncInv, SyncUnderWay, Options
  <2>6. ASSUME NEW x \in Indexes \ bereft' PROVE KeyAgrees(x)'
    <3>1. CASE x = Index(a)
      <4>1. /\ keys[x] = IF indexes[x] = 1 THEN On[x] ELSE {}
            /\ indexRows[x] = indexes[x] /\ indexes[x] <= 1
        BY <1>lock, <2>0, <3>1 DEF DropIndex, KeyAgrees
      <4>2. indexRows' = indexRows /\ indexes' = indexes
        BY DEF DropIndex
      <4>3. CASE keys[x] = {}
        BY <3>1, <4>1, <4>2, <4>3 DEF DropIndex, KeyAgrees
      <4>4. CASE keys[x] # {}
        <5>1. Index(a)' = x /\ Doing(a, "deleteIndex")'
          BY <1>types, <3>1, <4>4 DEF DropIndex, Continue, RequestsOK, Works
        <5> QED
          BY <4>1, <4>2, <5>1 DEF KeyAgrees
      <4> QED
        BY <4>3, <4>4
    <3>2. CASE x # Index(a)
      <4>1. /\ keys[x] = IF indexes[x] = 1 THEN On[x] ELSE {}
            /\ indexRows[x] = indexes[x] /\ indexes[x] <= 1
        BY <1>lock, <2>0, <3>2 DEF DropIndex, KeyAgrees
      <4>2. keys'[x] = keys[x] /\ indexRows'[x] = indexRows[x] /\ indexes'[x] = indexes[x]
        BY <1>types, <3>2 DEF DropIndex, TablesOK
      <4> QED
        BY <4>1, <4>2 DEF KeyAgrees
    <3> QED
      BY <3>1, <3>2
  <2> QED
    BY <2>1, <2>2, <2>3, <2>4, <2>5, <2>6
<1>9. FieldsInv'
  BY <1>types, <1>lock DEF DropIndex, Continue, Unlock, Resting, RequestsOK, Works, TablesOK, FieldsInv
<1> QED
  BY <1>1, <1>tables, <1>2, <1>3, <1>4, <1>5, <1>6, <1>7, <1>8, <1>9, TypeWhole DEF ListedExist

\* deleteIndexRow, and the entry in memory.
LEMMA DeleteIndexKeeps ==
  ASSUME SchemaInvar, NEW a \in SchemaAdmins, DeleteIndex(a)
  PROVE  SchemaInvar'
<1> USE SchemaAssumption DEF SchemaInvar, Doing, Field, Index, Statements, mysql, catalogue, inMemory, past
<1>types. RequestsOK /\ TablesOK
  BY TypeParts
<1> USE DEF Work, WorkInv, FieldWork, IndexWork
<1>lock. mu = a /\ \A b \in SchemaAdmins : change[b].at \in Statements => b = a
  BY <1>types DEF DeleteIndex, RequestsOK
<1>1. RequestsOK'
  BY <1>types, <1>lock, UnlockOK DEF DeleteIndex
<1>tables. TablesOK'
  BY <1>types, <1>lock DEF DeleteIndex, Unlock, Resting, TablesOK, RequestsOK, Works, Options
<1>2. SoundInv'
  BY <1>types, <1>lock DEF DeleteIndex, Unlock, Resting, SoundInv, RequestsOK, Works, TablesOK, Options
<1>3. WorkInv'
  BY <1>types, <1>lock DEF DeleteIndex, Unlock, Resting, RequestsOK, Works, TablesOK, ListedExist, IndexesHaveKeys, Options
<1>4. ListedInv'
  BY <1>types, <1>lock DEF DeleteIndex, Unlock, Resting, RequestsOK, Works, TablesOK, ListedInv
<1>5. SyncInv'
  BY <1>types, <1>lock DEF DeleteIndex, Unlock, Resting, RequestsOK, Works, TablesOK, SyncInv, SyncUnderWay, Options
<1>6. RowsHaveColumns'
  BY <1>types, <1>lock DEF DeleteIndex, Unlock, Resting, RequestsOK, Works, TablesOK, ListedExist, RowsHaveColumns
<1>7. IndexesHaveKeys'
  BY <1>types, <1>lock DEF DeleteIndex, Unlock, Resting, RequestsOK, Works, TablesOK, ListedExist, IndexesHaveKeys, ListedInv
<1>8. CleanInv'
  <2> SUFFICES ASSUME clean'
               PROVE  /\ (halfRemoved = {} /\ MetaAgrees /\ ColumnsAgree)'
                      /\ \A f \in Fields : FieldAgrees(f)'
                      /\ \A b \in SchemaAdmins : InputAgrees(b)'
                      /\ \A x \in Indexes \ bereft' : KeyAgrees(x)'
    BY DEF CleanInv
  <2>0. /\ clean /\ halfRemoved = {} /\ MetaAgrees /\ ColumnsAgree
        /\ \A f \in Fields : FieldAgrees(f)
        /\ \A b \in SchemaAdmins : InputAgrees(b)
        /\ \A x \in Indexes \ bereft : KeyAgrees(x)
    BY DEF DeleteIndex, CleanInv
  <2>1. (halfRemoved = {})'
    BY <2>0 DEF DeleteIndex
  <2>2. ASSUME NEW f \in Fields PROVE FieldAgrees(f)'
    BY <1>types, <1>lock, <2>0 DEF DeleteIndex, Unlock, Resting, RequestsOK, Works, TablesOK, FieldAgrees, InputAgrees, Options
  <2>3. ASSUME NEW b \in SchemaAdmins PROVE InputAgrees(b)'
    BY <1>types, <1>lock, <2>0 DEF DeleteIndex, Unlock, Resting, RequestsOK, Works, TablesOK, FieldAgrees, InputAgrees, Options
  <2>4. MetaAgrees'
    BY <1>types, <1>lock, <2>0 DEF DeleteIndex, Unlock, Resting, RequestsOK, Works, TablesOK, MetaAgrees
  <2>5. ColumnsAgree'
    BY <1>types, <1>lock, <2>0 DEF DeleteIndex, Unlock, Resting, RequestsOK, Works, TablesOK, ColumnsAgree, SyncInv, SyncUnderWay, Options
  <2>6. ASSUME NEW x \in Indexes \ bereft' PROVE KeyAgrees(x)'
    <3>1. CASE x = Index(a)
      <4>1. indexes[x] \in Nat /\ indexes[x] > 0 /\ indexes[x] <= 1
        BY <1>types, <1>lock, <2>0, <3>1 DEF DeleteIndex, KeyAgrees, TablesOK
      <4>2. indexRows'[x] = 0 /\ indexes'[x] = indexes[x] - 1 /\ keys'[x] = keys[x]
        BY <1>types, <3>1 DEF DeleteIndex, TablesOK
      <4>3. keys[x] = {}
        BY <1>lock, <3>1 DEF DeleteIndex
      <4>4. indexes'[x] = 0
        BY <4>1, <4>2
      <4>5. keys'[x] = IF indexes'[x] = 1 THEN On[x] ELSE {}
        BY <4>2, <4>3, <4>4
      <4>6. indexRows'[x] = indexes'[x] /\ indexes'[x] <= 1
        BY <4>2, <4>4, Zero
      <4> QED
        BY <4>5, <4>6 DEF KeyAgrees
    <3>2. CASE x # Index(a)
      <4>1. /\ keys[x] = IF indexes[x] = 1 THEN On[x] ELSE {}
            /\ indexRows[x] = indexes[x] /\ indexes[x] <= 1
        BY <1>lock, <2>0, <3>2 DEF DeleteIndex, KeyAgrees
      <4>2. keys'[x] = keys[x] /\ indexRows'[x] = indexRows[x] /\ indexes'[x] = indexes[x]
        BY <1>types, <3>2 DEF DeleteIndex, TablesOK
      <4> QED
        BY <4>1, <4>2 DEF KeyAgrees
    <3> QED
      BY <3>1, <3>2
  <2> QED
    BY <2>1, <2>2, <2>3, <2>4, <2>5, <2>6
<1>9. FieldsInv'
  BY <1>types, <1>lock DEF DeleteIndex, Unlock, Resting, RequestsOK, Works, TablesOK, FieldsInv
<1> QED
  BY <1>1, <1>tables, <1>2, <1>3, <1>4, <1>5, <1>6, <1>7, <1>8, <1>9, TypeWhole DEF ListedExist

\* RemoveField.
LEMMA RemoveFieldKeeps ==
  ASSUME SchemaInvar, NEW a \in SchemaAdmins, RemoveField(a)
  PROVE  SchemaInvar'
<1> USE SchemaAssumption DEF SchemaInvar, Doing, Field, Index, Statements, mysql, catalogue, inMemory, past
<1>types. RequestsOK /\ TablesOK
  BY TypeParts
<1> USE DEF Work, WorkInv, FieldWork, IndexWork
<1>lock. mu = NoField /\ \A b \in SchemaAdmins : change[b].at \notin Statements
  BY <1>types DEF RemoveField, Lock, RequestsOK
<1>1. RequestsOK'
  BY <1>types, <1>lock, LockOK DEF RemoveField
<1>tables. TablesOK'
  BY <1>types, <1>lock DEF RemoveField, Lock, NewCall, TablesOK, RequestsOK, Works, Options
<1>2. SoundInv'
  BY <1>types, <1>lock DEF RemoveField, Lock, NewCall, SoundInv, RequestsOK, Works, TablesOK, Options
<1>3. WorkInv'
  BY <1>types, <1>lock DEF RemoveField, Lock, NewCall, RequestsOK, Works, TablesOK, ListedExist, IndexesHaveKeys, Options
<1>4. ListedInv'
  BY <1>types, <1>lock DEF RemoveField, Lock, NewCall, RequestsOK, Works, TablesOK, ListedInv
<1>5. SyncInv'
  BY <1>types, <1>lock DEF RemoveField, Lock, NewCall, RequestsOK, Works, TablesOK, SyncInv, SyncUnderWay, Options
<1>6. RowsHaveColumns'
  BY <1>types, <1>lock DEF RemoveField, Lock, NewCall, RequestsOK, Works, TablesOK, ListedExist, RowsHaveColumns
<1>7. IndexesHaveKeys'
  BY <1>types, <1>lock DEF RemoveField, Lock, NewCall, RequestsOK, Works, TablesOK, ListedExist, IndexesHaveKeys, ListedInv
<1>8. CleanInv'
  <2> SUFFICES ASSUME clean'
               PROVE  /\ (halfRemoved = {} /\ MetaAgrees /\ ColumnsAgree)'
                      /\ \A f \in Fields : FieldAgrees(f)'
                      /\ \A b \in SchemaAdmins : InputAgrees(b)'
                      /\ \A x \in Indexes \ bereft' : KeyAgrees(x)'
    BY DEF CleanInv
  <2>0. /\ clean /\ halfRemoved = {} /\ MetaAgrees /\ ColumnsAgree
        /\ \A f \in Fields : FieldAgrees(f)
        /\ \A b \in SchemaAdmins : InputAgrees(b)
        /\ \A x \in Indexes \ bereft : KeyAgrees(x)
    BY DEF RemoveField, CleanInv
  <2>1. (halfRemoved = {})'
    BY <2>0 DEF RemoveField
  <2>2. ASSUME NEW f \in Fields PROVE FieldAgrees(f)'
    BY <1>types, <1>lock, <2>0 DEF RemoveField, Lock, NewCall, RequestsOK, Works, TablesOK, FieldAgrees, InputAgrees, Options
  <2>3. ASSUME NEW b \in SchemaAdmins PROVE InputAgrees(b)'
    BY <1>types, <1>lock, <2>0 DEF RemoveField, Lock, NewCall, RequestsOK, Works, TablesOK, FieldAgrees, InputAgrees, Options
  <2>4. MetaAgrees'
    BY <1>types, <1>lock, <2>0 DEF RemoveField, Lock, NewCall, RequestsOK, Works, TablesOK, MetaAgrees
  <2>5. ColumnsAgree'
    BY <1>types, <1>lock, <2>0 DEF RemoveField, Lock, NewCall, RequestsOK, Works, TablesOK, ColumnsAgree, SyncInv, SyncUnderWay, Options
  <2>6. ASSUME NEW x \in Indexes \ bereft' PROVE KeyAgrees(x)'
    BY <1>types, <1>lock, <2>0 DEF RemoveField, Lock, NewCall, RequestsOK, Works, TablesOK, KeyAgrees, ListedInv
  <2> QED
    BY <2>1, <2>2, <2>3, <2>4, <2>5, <2>6
<1>9. FieldsInv'
  BY <1>types, <1>lock DEF RemoveField, Lock, NewCall, RequestsOK, Works, TablesOK, FieldsInv
<1> QED
  BY <1>1, <1>tables, <1>2, <1>3, <1>4, <1>5, <1>6, <1>7, <1>8, <1>9, TypeWhole DEF ListedExist

\* ALTER TABLE DROP COLUMN, and the field in memory.
LEMMA DropColumnKeeps ==
  ASSUME SchemaInvar, NEW a \in SchemaAdmins, DropColumn(a)
  PROVE  SchemaInvar'
<1> USE SchemaAssumption DEF SchemaInvar, Doing, Field, Index, Statements, mysql, catalogue, inMemory, past
<1>types. RequestsOK /\ TablesOK
  BY TypeParts
<1> USE DEF Work, WorkInv, FieldWork, IndexWork
<1>lock. mu = a /\ \A b \in SchemaAdmins : change[b].at \in Statements => b = a
  BY <1>types DEF DropColumn, RequestsOK
<1>1. RequestsOK'
  BY <1>types, <1>lock, ContinueOK, UnlockOK DEF DropColumn
<1>tables. TablesOK'
  <2>1. Field(a) \in Fields
    BY <1>lock DEF DropColumn
  <2>2. raced' \subseteq Fields /\ bereft' \subseteq Indexes
    BY <1>types, <2>1 DEF DropColumn, TablesOK
  <2>3. keys' \in [Indexes -> SUBSET Fields]
    BY <1>types DEF DropColumn, TablesOK
  <2>4. columns' \subseteq Fields \ Virtual
    BY <1>types DEF DropColumn, TablesOK
  <2>5. /\ fields' \in [Fields -> Options \cup {NoField}] /\ opts' \in [Fields -> Options \cup {NoField}]
        /\ refused' \subseteq Fields
    BY <1>types DEF DropColumn, TablesOK, Publish
  <2> QED
    BY <1>types, <2>2, <2>3, <2>4, <2>5 DEF DropColumn, TablesOK
<1>2. SoundInv'
  <2>1. change[a].input # NoField => change[a].input.sound
    BY <1>lock, <1>types DEF SoundInv, RequestsOK
  <2>2. ASSUME NEW g \in Fields
        PROVE  /\ fieldRows'[g] # NoField => fieldRows'[g].sound
               /\ fields'[g] # NoField => fields'[g].sound
    BY <1>types, <1>lock, <2>1 DEF SoundInv, TablesOK, DropColumn, Publish
  <2>3. ASSUME NEW b \in SchemaAdmins, change'[b].at \in Statements, change'[b].input # NoField
        PROVE  change'[b].input.sound
    BY <1>types, <1>lock, <2>3, <2>1 DEF SoundInv, RequestsOK, Works, Lock, Unlock, Continue, Resting, DropColumn, Publish
  <2> QED
    BY <2>2, <2>3 DEF SoundInv
<1>3. WorkInv'
  <2> SUFFICES ASSUME NEW b \in SchemaAdmins PROVE Work(b)'
    BY DEF WorkInv
  <2>1. CASE b = a
    <3>1. CASE Field(a) \notin columns
      BY <1>types, <2>1, <3>1 DEF DropColumn, Unlock, Resting, RequestsOK
    <3>2. CASE Field(a) \in columns
      <4>1. change'[a] = [change[a] EXCEPT !.at = "deleteField"]
        BY <1>types, <3>2 DEF DropColumn, Continue, RequestsOK
      <4>2. change'[a].at = "deleteField" /\ change'[a].field = Field(a)
        BY <1>types, <4>1 DEF RequestsOK, Works
      <4>3. Field(a) \in Fields \ Virtual /\ fields'[Field(a)] = NoField
        BY <1>types, <3>2 DEF DropColumn, Publish, TablesOK
      <4> QED
        BY <2>1, <4>2, <4>3
    <3> QED
      BY <3>1, <3>2
  <2>2. CASE b # a
    <3>1. change'[b] = change[b] /\ change[b].at \notin FieldWork \cup IndexWork
      BY <1>types, <1>lock, <2>2 DEF DropColumn, Unlock, Continue, RequestsOK
    <3> QED
      BY <3>1
  <2> QED
    BY <2>1, <2>2
<1>4. ListedInv'
  BY <1>types, <1>lock DEF DropColumn, Continue, Unlock, Resting, Publish, RequestsOK, Works, TablesOK, ListedInv
<1>5. SyncInv'
  BY <1>types, <1>lock DEF DropColumn, Continue, Unlock, Resting, Publish, RequestsOK, Works, TablesOK, SyncInv, SyncUnderWay, Options
<1>6. RowsHaveColumns'
  BY <1>types, <1>lock DEF DropColumn, Continue, Unlock, Resting, Publish, RequestsOK, Works, TablesOK, ListedExist, RowsHaveColumns
<1>7. IndexesHaveKeys'
  <2>1. CASE Field(a) \notin columns
    BY <1>types, <1>lock, <2>1 DEF DropColumn, Unlock, Resting, RequestsOK, Works, ListedExist, IndexesHaveKeys
  <2>2. CASE Field(a) \in columns
    <3>1. ASSUME NEW x \in Indexes \ (halfRemoved' \cup bereft'), indexRows'[x] + indexes'[x] > 0
          PROVE  keys'[x] = On[x]
      <4>1. Field(a) \notin On[x] /\ x \notin bereft /\ x \notin halfRemoved
        BY <3>1, <2>2 DEF DropColumn
      <4>2. keys[x] = On[x]
        BY <1>lock, <4>1, <3>1 DEF DropColumn, ListedExist, IndexesHaveKeys
      <4>3. keys'[x] = keys[x] \ {Field(a)}
        BY <2>2 DEF DropColumn
      <4> QED
        BY <4>1, <4>2, <4>3
    <3> QED
      BY <3>1 DEF IndexesHaveKeys
  <2> QED
    BY <2>1, <2>2
<1>8. CleanInv'
  <2> SUFFICES ASSUME clean'
               PROVE  /\ (halfRemoved = {} /\ MetaAgrees /\ ColumnsAgree)'
                      /\ \A f \in Fields : FieldAgrees(f)'
                      /\ \A b \in SchemaAdmins : InputAgrees(b)'
                      /\ \A x \in Indexes \ bereft' : KeyAgrees(x)'
    BY DEF CleanInv
  <2>0. /\ clean /\ halfRemoved = {} /\ MetaAgrees /\ ColumnsAgree
        /\ \A f \in Fields : FieldAgrees(f)
        /\ \A b \in SchemaAdmins : InputAgrees(b)
        /\ \A x \in Indexes \ bereft : KeyAgrees(x)
    BY DEF DropColumn, CleanInv
  <2>1. (halfRemoved = {})'
    BY <2>0 DEF DropColumn
  <2>2. ASSUME NEW f \in Fields PROVE FieldAgrees(f)'
    BY <1>types, <1>lock, <2>0 DEF DropColumn, Continue, Unlock, Resting, Publish, RequestsOK, Works, TablesOK, FieldAgrees, InputAgrees, Options
  <2>3. ASSUME NEW b \in SchemaAdmins PROVE InputAgrees(b)'
    BY <1>types, <1>lock, <2>0 DEF DropColumn, Continue, Unlock, Resting, Publish, RequestsOK, Works, TablesOK, FieldAgrees, InputAgrees, Options
  <2>4. MetaAgrees'
    BY <1>types, <1>lock, <2>0 DEF DropColumn, Continue, Unlock, Resting, Publish, RequestsOK, Works, TablesOK, MetaAgrees
  <2>5. ColumnsAgree'
    BY <1>types, <1>lock, <2>0 DEF DropColumn, Continue, Unlock, Resting, Publish, RequestsOK, Works, TablesOK, ColumnsAgree, SyncInv, SyncUnderWay, Options
  <2>6. ASSUME NEW x \in Indexes \ bereft' PROVE KeyAgrees(x)'
    <3>1. CASE Field(a) \notin columns
      BY <1>types, <1>lock, <2>0, <3>1 DEF DropColumn, Unlock, Resting, RequestsOK, KeyAgrees
    <3>2. CASE Field(a) \in columns
      <4>1. Field(a) \notin On[x] /\ x \notin bereft
        BY <3>2 DEF DropColumn
      <4>2. keys'[x] = keys[x] \ {Field(a)} /\ keys[x] \subseteq On[x]
        BY <3>2 DEF DropColumn, ListedInv
      <4>3. keys'[x] = keys[x]
        BY <4>1, <4>2
      <4>4. indexRows'[x] = indexRows[x] /\ indexes'[x] = indexes[x]
        BY DEF DropColumn
      <4>5. /\ keys[x] = IF indexes[x] = 1 THEN On[x] ELSE {}
            /\ indexRows[x] = indexes[x] /\ indexes[x] <= 1
        BY <1>lock, <2>0, <4>1 DEF DropColumn, KeyAgrees
      <4> QED
        BY <4>3, <4>4, <4>5 DEF KeyAgrees
    <3> QED
      BY <3>1, <3>2
  <2> QED
    BY <2>1, <2>2, <2>3, <2>4, <2>5, <2>6
<1>9. FieldsInv'
  <2>0. Field(a) \in Fields /\ Field(a) \notin Unloadable
    BY <1>lock DEF DropColumn, FieldsInv
  <2>1. \A g \in Fields : opts'[g] = fields'[g] \/ g \in refused'
    BY <1>types, <2>0 DEF DropColumn, Publish, TablesOK, FieldsInv
  <2>2. ASSUME NEW g \in Unloadable
        PROVE  g \in columns' /\ fieldRows'[g] # NoField /\ (reloaded' => fields'[g] = NoField)
    <3>1. g \in Fields /\ g # Field(a)
      BY <2>0
    <3>2. fields'[g] = fields[g] /\ (g \in columns => g \in columns')
      BY <1>types, <3>1 DEF DropColumn, Publish, TablesOK
    <3>3. fieldRows' = fieldRows /\ reloaded' = reloaded
      BY DEF DropColumn
    <3> QED
      BY <3>2, <3>3 DEF FieldsInv
  <2>3. ASSUME NEW b \in SchemaAdmins,
               change'[b].at \in {"insertField", "dropColumn", "deleteField", "updateField"}
        PROVE  change'[b].field \notin Unloadable
    <3>1. CASE b = a
      <4>1. Field(a) \in columns
        BY <1>types, <2>3, <3>1 DEF DropColumn, Unlock, Resting, RequestsOK
      <4>2. change'[a].field = Field(a)
        BY <1>types, <4>1 DEF DropColumn, Continue, RequestsOK, Works
      <4> QED
        BY <2>0, <3>1, <4>2
    <3>2. CASE b # a
      <4>1. change'[b] = change[b]
        BY <1>types, <3>2 DEF DropColumn, Continue, Unlock, RequestsOK
      <4> QED
        BY <1>lock, <2>3, <3>2, <4>1
    <3> QED
      BY <3>1, <3>2
  <2> QED
    BY <2>1, <2>2, <2>3 DEF FieldsInv
<1> QED
  BY <1>1, <1>tables, <1>2, <1>3, <1>4, <1>5, <1>6, <1>7, <1>8, <1>9, TypeWhole DEF ListedExist

\* deleteFieldRow.
LEMMA DeleteFieldKeeps ==
  ASSUME SchemaInvar, NEW a \in SchemaAdmins, DeleteField(a)
  PROVE  SchemaInvar'
<1> USE SchemaAssumption DEF SchemaInvar, Doing, Field, Index, Statements, mysql, catalogue, inMemory, past
<1>types. RequestsOK /\ TablesOK
  BY TypeParts
<1> USE DEF Work, WorkInv, FieldWork, IndexWork
<1>lock. mu = a /\ \A b \in SchemaAdmins : change[b].at \in Statements => b = a
  BY <1>types DEF DeleteField, RequestsOK
<1>1. RequestsOK'
  BY <1>types, <1>lock, UnlockOK DEF DeleteField
<1>tables. TablesOK'
  BY <1>types, <1>lock DEF DeleteField, Unlock, Resting, TablesOK, RequestsOK, Works, Options
<1>2. SoundInv'
  BY <1>types, <1>lock DEF DeleteField, Unlock, Resting, SoundInv, RequestsOK, Works, TablesOK, Options
<1>3. WorkInv'
  BY <1>types, <1>lock DEF DeleteField, Unlock, Resting, RequestsOK, Works, TablesOK, ListedExist, IndexesHaveKeys, Options
<1>4. ListedInv'
  BY <1>types, <1>lock DEF DeleteField, Unlock, Resting, RequestsOK, Works, TablesOK, ListedInv
<1>5. SyncInv'
  BY <1>types, <1>lock DEF DeleteField, Unlock, Resting, RequestsOK, Works, TablesOK, SyncInv, SyncUnderWay, Options
<1>6. RowsHaveColumns'
  BY <1>types, <1>lock DEF DeleteField, Unlock, Resting, RequestsOK, Works, TablesOK, ListedExist, RowsHaveColumns
<1>7. IndexesHaveKeys'
  BY <1>types, <1>lock DEF DeleteField, Unlock, Resting, RequestsOK, Works, TablesOK, ListedExist, IndexesHaveKeys, ListedInv
<1>8. CleanInv'
  <2> SUFFICES ASSUME clean'
               PROVE  /\ (halfRemoved = {} /\ MetaAgrees /\ ColumnsAgree)'
                      /\ \A f \in Fields : FieldAgrees(f)'
                      /\ \A b \in SchemaAdmins : InputAgrees(b)'
                      /\ \A x \in Indexes \ bereft' : KeyAgrees(x)'
    BY DEF CleanInv
  <2>0. /\ clean /\ halfRemoved = {} /\ MetaAgrees /\ ColumnsAgree
        /\ \A f \in Fields : FieldAgrees(f)
        /\ \A b \in SchemaAdmins : InputAgrees(b)
        /\ \A x \in Indexes \ bereft : KeyAgrees(x)
    BY DEF DeleteField, CleanInv
  <2>1. (halfRemoved = {})'
    BY <2>0 DEF DeleteField
  <2>2. ASSUME NEW f \in Fields PROVE FieldAgrees(f)'
    BY <1>types, <1>lock, <2>0 DEF DeleteField, Unlock, Resting, RequestsOK, Works, TablesOK, FieldAgrees, InputAgrees, Options
  <2>3. ASSUME NEW b \in SchemaAdmins PROVE InputAgrees(b)'
    BY <1>types, <1>lock, <2>0 DEF DeleteField, Unlock, Resting, RequestsOK, Works, TablesOK, FieldAgrees, InputAgrees, Options
  <2>4. MetaAgrees'
    BY <1>types, <1>lock, <2>0 DEF DeleteField, Unlock, Resting, RequestsOK, Works, TablesOK, MetaAgrees
  <2>5. ColumnsAgree'
    BY <1>types, <1>lock, <2>0 DEF DeleteField, Unlock, Resting, RequestsOK, Works, TablesOK, ColumnsAgree, SyncInv, SyncUnderWay, Options
  <2>6. ASSUME NEW x \in Indexes \ bereft' PROVE KeyAgrees(x)'
    BY <1>types, <1>lock, <2>0 DEF DeleteField, Unlock, Resting, RequestsOK, Works, TablesOK, KeyAgrees, ListedInv
  <2> QED
    BY <2>1, <2>2, <2>3, <2>4, <2>5, <2>6
<1>9. FieldsInv'
  BY <1>types, <1>lock DEF DeleteField, Unlock, Resting, RequestsOK, Works, TablesOK, FieldsInv
<1> QED
  BY <1>1, <1>tables, <1>2, <1>3, <1>4, <1>5, <1>6, <1>7, <1>8, <1>9, TypeWhole DEF ListedExist

\* UpdateField.
LEMMA UpdateFieldKeeps ==
  ASSUME SchemaInvar, NEW a \in SchemaAdmins, UpdateField(a)
  PROVE  SchemaInvar'
<1> USE SchemaAssumption DEF SchemaInvar, Doing, Field, Index, Statements, mysql, catalogue, inMemory, past
<1>types. RequestsOK /\ TablesOK
  BY TypeParts
<1> USE DEF Work, WorkInv, FieldWork, IndexWork
<1>0. PICK f \in Fields, o \in Options :
        /\ fields[f] # NoField /\ opts' = [opts EXCEPT ![f] = o]
        /\ \/ /\ o.sound /\ f \notin Unloadable /\ fields' = [fields EXCEPT ![f] = o]
              /\ refused' = refused \ {f}
              /\ Lock(a, "updateField", f, NoField, o)
           \/ /\ refused' = refused \cup {f}
              /\ NewCall /\ UNCHANGED <<fields, mu, change>>
        /\ UNCHANGED <<mysql, catalogue, indexes, displayName, schemaFaults, clean,
                       halfRemoved, bereft, raced, reloaded>>
  BY DEF UpdateField, Publish, Options
<1>lock. mu = NoField /\ \A b \in SchemaAdmins : change[b].at \notin Statements
  BY <1>types DEF UpdateField, Lock, RequestsOK
<1>1. RequestsOK'
  BY <1>0, <1>types, <1>lock, LockOK DEF NewCall, RequestsOK
<1>tables. TablesOK'
  BY <1>0, <1>types, <1>lock DEF Lock, NewCall, TablesOK, RequestsOK, Works
<1>2. SoundInv'
  <2>1. ASSUME NEW g \in Fields
        PROVE  /\ fieldRows'[g] # NoField => fieldRows'[g].sound
               /\ fields'[g] # NoField => fields'[g].sound
    BY <1>0, <1>types DEF SoundInv, TablesOK
  <2>2. ASSUME NEW b \in SchemaAdmins, change'[b].at \in Statements, change'[b].input # NoField
        PROVE  change'[b].input.sound
    <3>1. CASE b = a
      <4>1. o.sound /\ change'[a].input = o
        BY <1>0, <1>types, <1>lock, <2>2, <3>1 DEF Lock, RequestsOK
      <4> QED
        BY <3>1, <4>1
    <3>2. CASE b # a
      <4>1. change'[b] = change[b]
        BY <1>0, <1>types, <3>2 DEF Lock, RequestsOK
      <4> QED
        BY <1>lock, <2>2, <4>1
    <3> QED
      BY <3>1, <3>2
  <2> QED
    BY <2>1, <2>2 DEF SoundInv
<1>3. WorkInv'
  BY <1>0, <1>types, <1>lock DEF Lock, NewCall, RequestsOK, Works, TablesOK, ListedExist, IndexesHaveKeys
<1>4. ListedInv'
  BY <1>0, <1>types, <1>lock DEF Lock, NewCall, RequestsOK, Works, TablesOK, ListedInv
<1>5. SyncInv'
  BY <1>0, <1>types, <1>lock DEF Lock, NewCall, RequestsOK, Works, TablesOK, SyncInv, SyncUnderWay
<1>6. RowsHaveColumns'
  BY <1>0, <1>types, <1>lock DEF Lock, NewCall, RequestsOK, Works, TablesOK, ListedExist, RowsHaveColumns
<1>7. IndexesHaveKeys'
  BY <1>0, <1>types, <1>lock DEF Lock, NewCall, RequestsOK, Works, TablesOK, ListedExist, IndexesHaveKeys, ListedInv
<1>8. CleanInv'
  <2> SUFFICES ASSUME clean'
               PROVE  /\ (halfRemoved = {} /\ MetaAgrees /\ ColumnsAgree)'
                      /\ \A g \in Fields : FieldAgrees(g)'
                      /\ \A b \in SchemaAdmins : InputAgrees(b)'
                      /\ \A x \in Indexes \ bereft' : KeyAgrees(x)'
    BY DEF CleanInv
  <2>0. /\ clean /\ halfRemoved = {} /\ MetaAgrees /\ ColumnsAgree
        /\ \A g \in Fields : FieldAgrees(g)
        /\ \A b \in SchemaAdmins : InputAgrees(b)
        /\ \A x \in Indexes \ bereft : KeyAgrees(x)
    BY <1>0 DEF CleanInv
  <2>1. (halfRemoved = {})'
    BY <1>0, <2>0
  <2>2. ASSUME NEW g \in Fields PROVE FieldAgrees(g)'
    BY <1>0, <1>types, <1>lock, <2>0 DEF Lock, NewCall, RequestsOK, Works, TablesOK, FieldAgrees, InputAgrees
  <2>3. ASSUME NEW b \in SchemaAdmins PROVE InputAgrees(b)'
    <3>1. change'[b].at = "updateField" =>
            /\ change'[b].field = f /\ change'[b].input = o
            /\ fields' = [fields EXCEPT ![f] = o]
      BY <1>0, <1>types, <1>lock DEF Lock, RequestsOK, Works
    <3>2. change'[b].at # "insertField"
      BY <1>0, <1>types, <1>lock DEF Lock, RequestsOK, Works
    <3>3. change'[b].at = "updateField" => fieldRows'[f] # NoField /\ fields'[f] = o
      BY <1>0, <1>types, <1>lock, <2>0, <3>1 DEF FieldAgrees, FieldsInv, TablesOK
    <3> QED
      BY <3>1, <3>2, <3>3 DEF InputAgrees
  <2>4. MetaAgrees'
    BY <1>0, <1>types, <1>lock, <2>0 DEF Lock, NewCall, RequestsOK, Works, TablesOK, MetaAgrees
  <2>5. ColumnsAgree'
    BY <1>0, <1>types, <1>lock, <2>0 DEF Lock, NewCall, RequestsOK, Works, TablesOK, ColumnsAgree, SyncInv, SyncUnderWay
  <2>6. ASSUME NEW x \in Indexes \ bereft' PROVE KeyAgrees(x)'
    BY <1>0, <1>types, <1>lock, <2>0 DEF Lock, NewCall, RequestsOK, Works, TablesOK, KeyAgrees, ListedInv
  <2> QED
    BY <2>1, <2>2, <2>3, <2>4, <2>5, <2>6
<1>9. FieldsInv'
  BY <1>0, <1>types, <1>lock DEF Lock, NewCall, RequestsOK, Works, TablesOK, FieldsInv
<1> QED
  BY <1>1, <1>tables, <1>2, <1>3, <1>4, <1>5, <1>6, <1>7, <1>8, <1>9, TypeWhole DEF ListedExist

\* updateFieldRow.
LEMMA WriteFieldKeeps ==
  ASSUME SchemaInvar, NEW a \in SchemaAdmins, WriteField(a)
  PROVE  SchemaInvar'
<1> USE SchemaAssumption DEF SchemaInvar, Doing, Field, Index, Statements, mysql, catalogue, inMemory, past
<1>types. RequestsOK /\ TablesOK
  BY TypeParts
<1> USE DEF Work, WorkInv, FieldWork, IndexWork
<1>lock. mu = a /\ \A b \in SchemaAdmins : change[b].at \in Statements => b = a
  BY <1>types DEF WriteField, RequestsOK
<1>1. RequestsOK'
  BY <1>types, <1>lock, UnlockOK DEF WriteField
<1>tables. TablesOK'
  BY <1>types, <1>lock DEF WriteField, Unlock, Resting, TablesOK, RequestsOK, Works, Options
<1>2. SoundInv'
  BY <1>types, <1>lock DEF WriteField, Unlock, Resting, SoundInv, RequestsOK, Works, TablesOK, Options
<1>3. WorkInv'
  BY <1>types, <1>lock DEF WriteField, Unlock, Resting, RequestsOK, Works, TablesOK, ListedExist, IndexesHaveKeys, Options
<1>4. ListedInv'
  BY <1>types, <1>lock DEF WriteField, Unlock, Resting, RequestsOK, Works, TablesOK, ListedInv
<1>5. SyncInv'
  BY <1>types, <1>lock DEF WriteField, Unlock, Resting, RequestsOK, Works, TablesOK, SyncInv, SyncUnderWay, Options
<1>6. RowsHaveColumns'
  BY <1>types, <1>lock DEF WriteField, Unlock, Resting, RequestsOK, Works, TablesOK, ListedExist, RowsHaveColumns
<1>7. IndexesHaveKeys'
  BY <1>types, <1>lock DEF WriteField, Unlock, Resting, RequestsOK, Works, TablesOK, ListedExist, IndexesHaveKeys, ListedInv
<1>8. CleanInv'
  <2> SUFFICES ASSUME clean'
               PROVE  /\ (halfRemoved = {} /\ MetaAgrees /\ ColumnsAgree)'
                      /\ \A f \in Fields : FieldAgrees(f)'
                      /\ \A b \in SchemaAdmins : InputAgrees(b)'
                      /\ \A x \in Indexes \ bereft' : KeyAgrees(x)'
    BY DEF CleanInv
  <2>0. /\ clean /\ halfRemoved = {} /\ MetaAgrees /\ ColumnsAgree
        /\ \A f \in Fields : FieldAgrees(f)
        /\ \A b \in SchemaAdmins : InputAgrees(b)
        /\ \A x \in Indexes \ bereft : KeyAgrees(x)
    BY DEF WriteField, CleanInv
  <2>1. (halfRemoved = {})'
    BY <2>0 DEF WriteField
  <2>2. ASSUME NEW f \in Fields PROVE FieldAgrees(f)'
    BY <1>types, <1>lock, <2>0 DEF WriteField, Unlock, Resting, RequestsOK, Works, TablesOK, FieldAgrees, InputAgrees, Options
  <2>3. ASSUME NEW b \in SchemaAdmins PROVE InputAgrees(b)'
    BY <1>types, <1>lock, <2>0 DEF WriteField, Unlock, Resting, RequestsOK, Works, TablesOK, FieldAgrees, InputAgrees, Options
  <2>4. MetaAgrees'
    BY <1>types, <1>lock, <2>0 DEF WriteField, Unlock, Resting, RequestsOK, Works, TablesOK, MetaAgrees
  <2>5. ColumnsAgree'
    BY <1>types, <1>lock, <2>0 DEF WriteField, Unlock, Resting, RequestsOK, Works, TablesOK, ColumnsAgree, SyncInv, SyncUnderWay, Options
  <2>6. ASSUME NEW x \in Indexes \ bereft' PROVE KeyAgrees(x)'
    BY <1>types, <1>lock, <2>0 DEF WriteField, Unlock, Resting, RequestsOK, Works, TablesOK, KeyAgrees, ListedInv
  <2> QED
    BY <2>1, <2>2, <2>3, <2>4, <2>5, <2>6
<1>9. FieldsInv'
  BY <1>types, <1>lock DEF WriteField, Unlock, Resting, RequestsOK, Works, TablesOK, FieldsInv
<1> QED
  BY <1>1, <1>tables, <1>2, <1>3, <1>4, <1>5, <1>6, <1>7, <1>8, <1>9, TypeWhole DEF ListedExist

\* UpdateMeta.
LEMMA UpdateMetaKeeps ==
  ASSUME SchemaInvar, NEW a \in SchemaAdmins, UpdateMeta(a)
  PROVE  SchemaInvar'
<1> USE SchemaAssumption DEF SchemaInvar, Doing, Field, Index, Statements, mysql, catalogue, inMemory, past
<1>types. RequestsOK /\ TablesOK
  BY TypeParts
<1> USE DEF Work, WorkInv, FieldWork, IndexWork
<1>lock. mu = NoField /\ \A b \in SchemaAdmins : change[b].at \notin Statements
  BY <1>types DEF UpdateMeta, Lock, RequestsOK
<1>1. RequestsOK'
  BY <1>types, <1>lock, LockOK DEF UpdateMeta
<1>tables. TablesOK'
  BY <1>types, <1>lock DEF UpdateMeta, Lock, NewCall, TablesOK, RequestsOK, Works, Options
<1>2. SoundInv'
  BY <1>types, <1>lock DEF UpdateMeta, Lock, NewCall, SoundInv, RequestsOK, Works, TablesOK, Options
<1>3. WorkInv'
  BY <1>types, <1>lock DEF UpdateMeta, Lock, NewCall, RequestsOK, Works, TablesOK, ListedExist, IndexesHaveKeys, Options
<1>4. ListedInv'
  BY <1>types, <1>lock DEF UpdateMeta, Lock, NewCall, RequestsOK, Works, TablesOK, ListedInv
<1>5. SyncInv'
  BY <1>types, <1>lock DEF UpdateMeta, Lock, NewCall, RequestsOK, Works, TablesOK, SyncInv, SyncUnderWay, Options
<1>6. RowsHaveColumns'
  BY <1>types, <1>lock DEF UpdateMeta, Lock, NewCall, RequestsOK, Works, TablesOK, ListedExist, RowsHaveColumns
<1>7. IndexesHaveKeys'
  BY <1>types, <1>lock DEF UpdateMeta, Lock, NewCall, RequestsOK, Works, TablesOK, ListedExist, IndexesHaveKeys, ListedInv
<1>8. CleanInv'
  <2> SUFFICES ASSUME clean'
               PROVE  /\ (halfRemoved = {} /\ MetaAgrees /\ ColumnsAgree)'
                      /\ \A f \in Fields : FieldAgrees(f)'
                      /\ \A b \in SchemaAdmins : InputAgrees(b)'
                      /\ \A x \in Indexes \ bereft' : KeyAgrees(x)'
    BY DEF CleanInv
  <2>0. /\ clean /\ halfRemoved = {} /\ MetaAgrees /\ ColumnsAgree
        /\ \A f \in Fields : FieldAgrees(f)
        /\ \A b \in SchemaAdmins : InputAgrees(b)
        /\ \A x \in Indexes \ bereft : KeyAgrees(x)
    BY DEF UpdateMeta, CleanInv
  <2>1. (halfRemoved = {})'
    BY <2>0 DEF UpdateMeta
  <2>2. ASSUME NEW f \in Fields PROVE FieldAgrees(f)'
    BY <1>types, <1>lock, <2>0 DEF UpdateMeta, Lock, NewCall, RequestsOK, Works, TablesOK, FieldAgrees, InputAgrees, Options
  <2>3. ASSUME NEW b \in SchemaAdmins PROVE InputAgrees(b)'
    BY <1>types, <1>lock, <2>0 DEF UpdateMeta, Lock, NewCall, RequestsOK, Works, TablesOK, FieldAgrees, InputAgrees, Options
  <2>4. MetaAgrees'
    BY <1>types, <1>lock, <2>0 DEF UpdateMeta, Lock, NewCall, RequestsOK, Works, TablesOK, MetaAgrees
  <2>5. ColumnsAgree'
    BY <1>types, <1>lock, <2>0 DEF UpdateMeta, Lock, NewCall, RequestsOK, Works, TablesOK, ColumnsAgree, SyncInv, SyncUnderWay, Options
  <2>6. ASSUME NEW x \in Indexes \ bereft' PROVE KeyAgrees(x)'
    BY <1>types, <1>lock, <2>0 DEF UpdateMeta, Lock, NewCall, RequestsOK, Works, TablesOK, KeyAgrees, ListedInv
  <2> QED
    BY <2>1, <2>2, <2>3, <2>4, <2>5, <2>6
<1>9. FieldsInv'
  BY <1>types, <1>lock DEF UpdateMeta, Lock, NewCall, RequestsOK, Works, TablesOK, FieldsInv
<1> QED
  BY <1>1, <1>tables, <1>2, <1>3, <1>4, <1>5, <1>6, <1>7, <1>8, <1>9, TypeWhole DEF ListedExist

\* updateCollectionRow.
LEMMA WriteMetaKeeps ==
  ASSUME SchemaInvar, NEW a \in SchemaAdmins, WriteMeta(a)
  PROVE  SchemaInvar'
<1> USE SchemaAssumption DEF SchemaInvar, Doing, Field, Index, Statements, mysql, catalogue, inMemory, past
<1>types. RequestsOK /\ TablesOK
  BY TypeParts
<1> USE DEF Work, WorkInv, FieldWork, IndexWork
<1>lock. mu = a /\ \A b \in SchemaAdmins : change[b].at \in Statements => b = a
  BY <1>types DEF WriteMeta, RequestsOK
<1>1. RequestsOK'
  BY <1>types, <1>lock, UnlockOK DEF WriteMeta
<1>tables. TablesOK'
  BY <1>types, <1>lock DEF WriteMeta, Unlock, Resting, TablesOK, RequestsOK, Works, Options
<1>2. SoundInv'
  BY <1>types, <1>lock DEF WriteMeta, Unlock, Resting, SoundInv, RequestsOK, Works, TablesOK, Options
<1>3. WorkInv'
  BY <1>types, <1>lock DEF WriteMeta, Unlock, Resting, RequestsOK, Works, TablesOK, ListedExist, IndexesHaveKeys, Options
<1>4. ListedInv'
  BY <1>types, <1>lock DEF WriteMeta, Unlock, Resting, RequestsOK, Works, TablesOK, ListedInv
<1>5. SyncInv'
  BY <1>types, <1>lock DEF WriteMeta, Unlock, Resting, RequestsOK, Works, TablesOK, SyncInv, SyncUnderWay, Options
<1>6. RowsHaveColumns'
  BY <1>types, <1>lock DEF WriteMeta, Unlock, Resting, RequestsOK, Works, TablesOK, ListedExist, RowsHaveColumns
<1>7. IndexesHaveKeys'
  BY <1>types, <1>lock DEF WriteMeta, Unlock, Resting, RequestsOK, Works, TablesOK, ListedExist, IndexesHaveKeys, ListedInv
<1>8. CleanInv'
  <2> SUFFICES ASSUME clean'
               PROVE  /\ (halfRemoved = {} /\ MetaAgrees /\ ColumnsAgree)'
                      /\ \A f \in Fields : FieldAgrees(f)'
                      /\ \A b \in SchemaAdmins : InputAgrees(b)'
                      /\ \A x \in Indexes \ bereft' : KeyAgrees(x)'
    BY DEF CleanInv
  <2>0. /\ clean /\ halfRemoved = {} /\ MetaAgrees /\ ColumnsAgree
        /\ \A f \in Fields : FieldAgrees(f)
        /\ \A b \in SchemaAdmins : InputAgrees(b)
        /\ \A x \in Indexes \ bereft : KeyAgrees(x)
    BY DEF WriteMeta, CleanInv
  <2>1. (halfRemoved = {})'
    BY <2>0 DEF WriteMeta
  <2>2. ASSUME NEW f \in Fields PROVE FieldAgrees(f)'
    BY <1>types, <1>lock, <2>0 DEF WriteMeta, Unlock, Resting, RequestsOK, Works, TablesOK, FieldAgrees, InputAgrees, Options
  <2>3. ASSUME NEW b \in SchemaAdmins PROVE InputAgrees(b)'
    BY <1>types, <1>lock, <2>0 DEF WriteMeta, Unlock, Resting, RequestsOK, Works, TablesOK, FieldAgrees, InputAgrees, Options
  <2>4. MetaAgrees'
    BY <1>types, <1>lock, <2>0 DEF WriteMeta, Unlock, Resting, RequestsOK, Works, TablesOK, MetaAgrees
  <2>5. ColumnsAgree'
    BY <1>types, <1>lock, <2>0 DEF WriteMeta, Unlock, Resting, RequestsOK, Works, TablesOK, ColumnsAgree, SyncInv, SyncUnderWay, Options
  <2>6. ASSUME NEW x \in Indexes \ bereft' PROVE KeyAgrees(x)'
    BY <1>types, <1>lock, <2>0 DEF WriteMeta, Unlock, Resting, RequestsOK, Works, TablesOK, KeyAgrees, ListedInv
  <2> QED
    BY <2>1, <2>2, <2>3, <2>4, <2>5, <2>6
<1>9. FieldsInv'
  BY <1>types, <1>lock DEF WriteMeta, Unlock, Resting, RequestsOK, Works, TablesOK, FieldsInv
<1> QED
  BY <1>1, <1>tables, <1>2, <1>3, <1>4, <1>5, <1>6, <1>7, <1>8, <1>9, TypeWhole DEF ListedExist

\* Sync: existingColumnNames.
LEMMA ReadColumnsKeeps ==
  ASSUME SchemaInvar, NEW a \in SchemaAdmins, ReadColumns(a)
  PROVE  SchemaInvar'
<1> USE SchemaAssumption DEF SchemaInvar, Doing, Field, Index, Statements, mysql, catalogue, inMemory, past
<1>types. RequestsOK /\ TablesOK
  BY TypeParts
<1> USE DEF Work, WorkInv, FieldWork, IndexWork
<1>lock. TRUE
  OBVIOUS
<1>1. RequestsOK'
  <2>1. change[a].at \notin Statements /\ change[a] \in Works
    BY <1>types DEF ReadColumns, RequestsOK
  <2>2. change' = [change EXCEPT ![a] = [change[a] EXCEPT !.at = "readFields", !.todo = columns]]
    BY DEF ReadColumns
  <2>3. (columns) \subseteq Fields \ Virtual
    BY <1>types, <2>1 DEF TablesOK, Works
  <2>4. [change[a] EXCEPT !.at = "readFields", !.todo = columns] \in Works
    BY <2>1, <2>3 DEF Works
  <2>5. UNCHANGED mu /\ schemaCalls' \in Nat
    BY <1>types DEF ReadColumns, NewCall, RequestsOK
  <2> QED
    BY <1>types, <2>1, <2>2, <2>4, <2>5 DEF RequestsOK
<1>tables. TablesOK'
  BY <1>types, <1>lock DEF ReadColumns, NewCall, TablesOK, RequestsOK, Works, Options
<1>2. SoundInv'
  BY <1>types, <1>lock DEF ReadColumns, NewCall, SoundInv, RequestsOK, Works, TablesOK, Options
<1>3. WorkInv'
  BY <1>types, <1>lock DEF ReadColumns, NewCall, RequestsOK, Works, TablesOK, ListedExist, IndexesHaveKeys, Options
<1>4. ListedInv'
  BY <1>types, <1>lock DEF ReadColumns, NewCall, RequestsOK, Works, TablesOK, ListedInv
<1>5. SyncInv'
  BY <1>types, <1>lock DEF ReadColumns, NewCall, RequestsOK, Works, TablesOK, SyncInv, SyncUnderWay, Options
<1>6. RowsHaveColumns'
  BY <1>types, <1>lock DEF ReadColumns, NewCall, RequestsOK, Works, TablesOK, ListedExist, RowsHaveColumns
<1>7. IndexesHaveKeys'
  BY <1>types, <1>lock DEF ReadColumns, NewCall, RequestsOK, Works, TablesOK, ListedExist, IndexesHaveKeys, ListedInv
<1>8. CleanInv'
  <2> SUFFICES ASSUME clean'
               PROVE  /\ (halfRemoved = {} /\ MetaAgrees /\ ColumnsAgree)'
                      /\ \A f \in Fields : FieldAgrees(f)'
                      /\ \A b \in SchemaAdmins : InputAgrees(b)'
                      /\ \A x \in Indexes \ bereft' : KeyAgrees(x)'
    BY DEF CleanInv
  <2>0. /\ clean /\ halfRemoved = {} /\ MetaAgrees /\ ColumnsAgree
        /\ \A f \in Fields : FieldAgrees(f)
        /\ \A b \in SchemaAdmins : InputAgrees(b)
        /\ \A x \in Indexes \ bereft : KeyAgrees(x)
    BY DEF ReadColumns, CleanInv
  <2>1. (halfRemoved = {})'
    BY <2>0 DEF ReadColumns
  <2>2. ASSUME NEW f \in Fields PROVE FieldAgrees(f)'
    BY <1>types, <1>lock, <2>0 DEF ReadColumns, NewCall, RequestsOK, Works, TablesOK, FieldAgrees, InputAgrees, Options
  <2>3. ASSUME NEW b \in SchemaAdmins PROVE InputAgrees(b)'
    BY <1>types, <1>lock, <2>0 DEF ReadColumns, NewCall, RequestsOK, Works, TablesOK, FieldAgrees, InputAgrees, Options
  <2>4. MetaAgrees'
    BY <1>types, <1>lock, <2>0 DEF ReadColumns, NewCall, RequestsOK, Works, TablesOK, MetaAgrees
  <2>5. ColumnsAgree'
    BY <1>types, <1>lock, <2>0 DEF ReadColumns, NewCall, RequestsOK, Works, TablesOK, ColumnsAgree, SyncInv, SyncUnderWay, Options
  <2>6. ASSUME NEW x \in Indexes \ bereft' PROVE KeyAgrees(x)'
    BY <1>types, <1>lock, <2>0 DEF ReadColumns, NewCall, RequestsOK, Works, TablesOK, KeyAgrees, ListedInv
  <2> QED
    BY <2>1, <2>2, <2>3, <2>4, <2>5, <2>6
<1>9. FieldsInv'
  BY <1>types, <1>lock DEF ReadColumns, NewCall, RequestsOK, Works, TablesOK, FieldsInv
<1> QED
  BY <1>1, <1>tables, <1>2, <1>3, <1>4, <1>5, <1>6, <1>7, <1>8, <1>9, TypeWhole DEF ListedExist

\* Sync: the fields are read.
LEMMA ReadFieldsKeeps ==
  ASSUME SchemaInvar, NEW a \in SchemaAdmins, ReadFields(a)
  PROVE  SchemaInvar'
<1> USE SchemaAssumption DEF SchemaInvar, Doing, Field, Index, Statements, mysql, catalogue, inMemory, past
<1>types. RequestsOK /\ TablesOK
  BY TypeParts
<1> USE DEF Work, WorkInv, FieldWork, IndexWork
<1>lock. TRUE
  OBVIOUS
<1>1. RequestsOK'
  <2>1. change[a].at \notin Statements /\ change[a] \in Works
    BY <1>types DEF ReadFields, RequestsOK
  <2>2. change' = [change EXCEPT ![a] = [change[a] EXCEPT !.at = "addColumns", !.todo = WithColumn \ change[a].todo]]
    BY DEF ReadFields
  <2>3. WithColumn \ change[a].todo \subseteq Fields \ Virtual
    BY DEF WithColumn
  <2>4. [change[a] EXCEPT !.at = "addColumns", !.todo = WithColumn \ change[a].todo] \in Works
    BY <2>1, <2>3 DEF Works
  <2>5. UNCHANGED <<mu, schemaCalls>>
    BY DEF ReadFields
  <2> QED
    BY <1>types, <2>1, <2>2, <2>4, <2>5 DEF RequestsOK
<1>tables. TablesOK'
  BY <1>types, <1>lock DEF ReadFields, TablesOK, RequestsOK, Works, Options
<1>2. SoundInv'
  BY <1>types, <1>lock DEF ReadFields, SoundInv, RequestsOK, Works, TablesOK, Options
<1>3. WorkInv'
  BY <1>types, <1>lock DEF ReadFields, RequestsOK, Works, TablesOK, ListedExist, IndexesHaveKeys, Options
<1>4. ListedInv'
  BY <1>types, <1>lock DEF ReadFields, RequestsOK, Works, TablesOK, ListedInv
<1>5. SyncInv'
  BY <1>types, <1>lock DEF ReadFields, RequestsOK, Works, TablesOK, WithColumn, SyncInv, SyncUnderWay, Options
<1>6. RowsHaveColumns'
  BY <1>types, <1>lock DEF ReadFields, RequestsOK, Works, TablesOK, ListedExist, RowsHaveColumns
<1>7. IndexesHaveKeys'
  BY <1>types, <1>lock DEF ReadFields, RequestsOK, Works, TablesOK, ListedExist, IndexesHaveKeys, ListedInv
<1>8. CleanInv'
  <2> SUFFICES ASSUME clean'
               PROVE  /\ (halfRemoved = {} /\ MetaAgrees /\ ColumnsAgree)'
                      /\ \A f \in Fields : FieldAgrees(f)'
                      /\ \A b \in SchemaAdmins : InputAgrees(b)'
                      /\ \A x \in Indexes \ bereft' : KeyAgrees(x)'
    BY DEF CleanInv
  <2>0. /\ clean /\ halfRemoved = {} /\ MetaAgrees /\ ColumnsAgree
        /\ \A f \in Fields : FieldAgrees(f)
        /\ \A b \in SchemaAdmins : InputAgrees(b)
        /\ \A x \in Indexes \ bereft : KeyAgrees(x)
    BY DEF ReadFields, CleanInv
  <2>1. (halfRemoved = {})'
    BY <2>0 DEF ReadFields
  <2>2. ASSUME NEW f \in Fields PROVE FieldAgrees(f)'
    BY <1>types, <1>lock, <2>0 DEF ReadFields, RequestsOK, Works, TablesOK, FieldAgrees, InputAgrees, Options
  <2>3. ASSUME NEW b \in SchemaAdmins PROVE InputAgrees(b)'
    BY <1>types, <1>lock, <2>0 DEF ReadFields, RequestsOK, Works, TablesOK, FieldAgrees, InputAgrees, Options
  <2>4. MetaAgrees'
    BY <1>types, <1>lock, <2>0 DEF ReadFields, RequestsOK, Works, TablesOK, MetaAgrees
  <2>5. ColumnsAgree'
    BY <1>types, <1>lock, <2>0 DEF ReadFields, RequestsOK, Works, TablesOK, ColumnsAgree, SyncInv, SyncUnderWay, Options
  <2>6. ASSUME NEW x \in Indexes \ bereft' PROVE KeyAgrees(x)'
    BY <1>types, <1>lock, <2>0 DEF ReadFields, RequestsOK, Works, TablesOK, KeyAgrees, ListedInv
  <2> QED
    BY <2>1, <2>2, <2>3, <2>4, <2>5, <2>6
<1>9. FieldsInv'
  BY <1>types, <1>lock DEF ReadFields, RequestsOK, Works, TablesOK, FieldsInv
<1> QED
  BY <1>1, <1>tables, <1>2, <1>3, <1>4, <1>5, <1>6, <1>7, <1>8, <1>9, TypeWhole DEF ListedExist

\* Sync: a column is added.
LEMMA AddMissingKeeps ==
  ASSUME SchemaInvar, NEW a \in SchemaAdmins, AddMissing(a)
  PROVE  SchemaInvar'
<1> USE SchemaAssumption DEF SchemaInvar, Doing, Field, Index, Statements, mysql, catalogue, inMemory, past
<1>types. RequestsOK /\ TablesOK
  BY TypeParts
<1> USE DEF Work, WorkInv, FieldWork, IndexWork
<1>rest. PICK w \in Works :
        /\ change' = [change EXCEPT ![a] = w]
        /\ \/ w = Resting /\ columns' = columns
           \/ \E f \in change[a].todo : /\ w = [change[a] EXCEPT !.todo = change[a].todo \ {f}]
                                       /\ columns' = columns \cup {f}
        /\ Doing(a, "addColumns")
        /\ UNCHANGED <<keys, catalogue, inMemory, mu, schemaCalls, schemaFaults, past>>
  <2>1. Resting \in Works
    BY DEF Resting, Works
  <2>2. ASSUME NEW f \in change[a].todo
        PROVE  [change[a] EXCEPT !.todo = change[a].todo \ {f}] \in Works
    BY <1>types DEF RequestsOK, Works
  <2> QED
    BY <2>1, <2>2 DEF AddMissing
<1>lock. a \in SchemaAdmins /\ change[a] \in Works /\ change[a].at \notin Statements
  BY <1>types, <1>rest DEF RequestsOK
<1>1. RequestsOK'
  <2>1. change[a].at \notin Statements /\ UNCHANGED <<mu, schemaCalls>>
    BY <1>types DEF AddMissing, RequestsOK
  <2>2. change'[a].at \notin Statements /\ change'[a] \in Works
    BY <1>types, <1>lock, <1>rest DEF RequestsOK, Works, Resting
  <2> QED
    BY <1>types, <1>rest, <2>1, <2>2 DEF RequestsOK
<1>tables. TablesOK'
  BY <1>types, <1>lock DEF AddMissing, Resting, TablesOK, RequestsOK, Works, Options
<1>2. SoundInv'
  <2>2. ASSUME NEW g \in Fields
        PROVE  /\ fieldRows'[g] # NoField => fieldRows'[g].sound
               /\ fields'[g] # NoField => fields'[g].sound
    BY <1>types, <1>lock DEF SoundInv, TablesOK, AddMissing
  <2>3. ASSUME NEW b \in SchemaAdmins, change'[b].at \in Statements, change'[b].input # NoField
        PROVE  change'[b].input.sound
    BY <1>types, <1>lock, <2>3 DEF SoundInv, RequestsOK, Works, Lock, Unlock, Continue, Resting, AddMissing
  <2> QED
    BY <2>2, <2>3 DEF SoundInv
<1>3. WorkInv'
  <2> SUFFICES ASSUME NEW b \in SchemaAdmins PROVE Work(b)'
    BY DEF WorkInv
  <2>1. CASE b = a
    <3>1. change'[a].at \notin FieldWork \cup IndexWork
      BY <1>lock, <1>rest DEF Resting, Works
    <3> QED
      BY <2>1, <3>1
  <2>2. CASE b # a
    BY <1>rest, <2>2
  <2> QED
    BY <2>1, <2>2
<1>4. ListedInv'
  BY <1>types, <1>lock DEF AddMissing, Resting, RequestsOK, Works, TablesOK, ListedInv
<1>5. SyncInv'
  <2>1. ASSUME NEW b \in SchemaAdmins, change'[b].at = "addColumns", NEW f \in change'[b].todo
        PROVE  fields[f] # NoField \/ f \in raced
    <3>1. change[b].at = "addColumns" /\ f \in change[b].todo
      BY <1>lock, <1>rest, <2>1 DEF Resting, Works
    <3> QED
      BY <3>1 DEF SyncInv
  <2> QED
    BY <2>1, <1>rest DEF SyncInv
<1>6. RowsHaveColumns'
  BY <1>types, <1>lock DEF AddMissing, Resting, RequestsOK, Works, TablesOK, ListedExist, RowsHaveColumns
<1>7. IndexesHaveKeys'
  BY <1>types, <1>lock DEF AddMissing, Resting, RequestsOK, Works, TablesOK, ListedExist, IndexesHaveKeys, ListedInv
<1>8. CleanInv'
  <2> SUFFICES ASSUME clean'
               PROVE  /\ (halfRemoved = {} /\ MetaAgrees /\ ColumnsAgree)'
                      /\ \A f \in Fields : FieldAgrees(f)'
                      /\ \A b \in SchemaAdmins : InputAgrees(b)'
                      /\ \A x \in Indexes \ bereft' : KeyAgrees(x)'
    BY DEF CleanInv
  <2>0. /\ clean /\ halfRemoved = {} /\ MetaAgrees /\ ColumnsAgree
        /\ \A f \in Fields : FieldAgrees(f)
        /\ \A b \in SchemaAdmins : InputAgrees(b)
        /\ \A x \in Indexes \ bereft : KeyAgrees(x)
    BY DEF AddMissing, CleanInv
  <2>1. (halfRemoved = {})'
    BY <2>0 DEF AddMissing
  <2>2. ASSUME NEW f \in Fields PROVE FieldAgrees(f)'
    BY <1>types, <1>lock, <2>0 DEF AddMissing, Resting, RequestsOK, Works, TablesOK, FieldAgrees, InputAgrees, Options
  <2>3. ASSUME NEW b \in SchemaAdmins PROVE InputAgrees(b)'
    <3>1. UNCHANGED <<fieldRows, fields>>
      BY DEF AddMissing
    <3>2. CASE b = a
      BY <1>rest, <3>2 DEF InputAgrees, Resting, Works
    <3>3. CASE b # a
      BY <1>rest, <2>0, <3>1, <3>3 DEF InputAgrees
    <3> QED
      BY <3>2, <3>3
  <2>4. MetaAgrees'
    BY <1>types, <1>lock, <2>0 DEF AddMissing, Resting, RequestsOK, Works, TablesOK, MetaAgrees
  <2>5. ColumnsAgree'
    BY <1>types, <1>lock, <2>0 DEF AddMissing, Resting, RequestsOK, Works, TablesOK, ColumnsAgree, SyncInv, SyncUnderWay, Options
  <2>6. ASSUME NEW x \in Indexes \ bereft' PROVE KeyAgrees(x)'
    BY <1>types, <1>lock, <2>0 DEF AddMissing, Resting, RequestsOK, Works, TablesOK, KeyAgrees, ListedInv
  <2> QED
    BY <2>1, <2>2, <2>3, <2>4, <2>5, <2>6
<1>9. FieldsInv'
  <2>1. columns \subseteq columns' /\ UNCHANGED <<fields, opts, fieldRows, refused, reloaded>>
    BY <1>rest
  <2>2. ASSUME NEW b \in SchemaAdmins,
               change'[b].at \in {"insertField", "dropColumn", "deleteField", "updateField"}
        PROVE  change'[b].field \notin Unloadable
    <3>1. CASE b = a
      BY <1>types, <1>lock, <1>rest, <2>2, <3>1 DEF Resting, RequestsOK, Works
    <3>2. CASE b # a
      <4>1. change'[b] = change[b]
        BY <1>types, <1>rest, <3>2 DEF RequestsOK
      <4> QED
        BY <2>2, <4>1 DEF FieldsInv
    <3> QED
      BY <3>1, <3>2
  <2> QED
    BY <2>1, <2>2 DEF FieldsInv
<1> QED
  BY <1>1, <1>tables, <1>2, <1>3, <1>4, <1>5, <1>6, <1>7, <1>8, <1>9, TypeWhole DEF ListedExist

\* A statement fails.
LEMMA BreakKeeps ==
  ASSUME SchemaInvar, NEW a \in SchemaAdmins, Break(a)
  PROVE  SchemaInvar'
<1> USE SchemaAssumption DEF SchemaInvar, Doing, Field, Index, Statements, mysql, catalogue, inMemory, past
<1>types. RequestsOK /\ TablesOK
  BY TypeParts
<1> USE DEF Work, WorkInv, FieldWork, IndexWork
<1>lock. mu = a /\ \A b \in SchemaAdmins : change[b].at \in Statements => b = a
  BY <1>types DEF Break, RequestsOK
<1>1. RequestsOK'
  BY <1>types, <1>lock, UnlockOK DEF Break
<1>tables. TablesOK'
  <2>1. change[a].at = "deleteField" => Field(a) \in Fields
    BY <1>lock
  <2>2. change[a].at = "deleteIndex" => Index(a) \in Indexes
    BY <1>lock
  <2>3. BrokenOff(a) \subseteq Fields \cup Indexes
    BY <2>1, <2>2 DEF BrokenOff
  <2>4. UNCHANGED <<mysql, catalogue, inMemory, bereft, raced, refused, reloaded>>
    BY DEF Break
  <2>5. schemaFaults' = schemaFaults + 1 /\ clean' = FALSE /\ halfRemoved' = halfRemoved \cup BrokenOff(a)
    BY DEF Break, Faulted
  <2>6. schemaFaults' \in Nat /\ clean' \in BOOLEAN /\ halfRemoved' \subseteq Fields \cup Indexes
    <3>1. schemaFaults' \in Nat
      BY <1>types, <2>5 DEF TablesOK
    <3>2. halfRemoved' \subseteq Fields \cup Indexes
      BY <1>types, <2>3, <2>5 DEF TablesOK
    <3> QED
      BY <2>5, <3>1, <3>2
  <2> QED
    BY <1>types, <2>4, <2>6 DEF TablesOK
<1>2. SoundInv'
  BY <1>types, <1>lock DEF Break, Unlock, Resting, Faulted, BrokenOff, SoundInv, RequestsOK, Works, TablesOK, Options
<1>3. WorkInv'
  BY <1>types, <1>lock DEF Break, Unlock, Resting, Faulted, BrokenOff, RequestsOK, Works, TablesOK, ListedExist, IndexesHaveKeys, Options
<1>4. ListedInv'
  BY <1>types, <1>lock DEF Break, Unlock, Resting, Faulted, BrokenOff, RequestsOK, Works, TablesOK, ListedInv
<1>5. SyncInv'
  BY <1>types, <1>lock DEF Break, Unlock, Resting, Faulted, BrokenOff, RequestsOK, Works, TablesOK, SyncInv, SyncUnderWay, Options
<1>6. RowsHaveColumns'
  BY <1>types, <1>lock DEF Break, Unlock, Resting, Faulted, BrokenOff, RequestsOK, Works, TablesOK, ListedExist, RowsHaveColumns
<1>7. IndexesHaveKeys'
  BY <1>types, <1>lock DEF Break, Unlock, Resting, Faulted, BrokenOff, RequestsOK, Works, TablesOK, ListedExist, IndexesHaveKeys, ListedInv
<1>8. CleanInv'
  BY DEF Break, CleanInv
<1>9. FieldsInv'
  BY <1>types, <1>lock DEF Break, Unlock, Resting, Faulted, BrokenOff, RequestsOK, Works, TablesOK, FieldsInv
<1> QED
  BY <1>1, <1>tables, <1>2, <1>3, <1>4, <1>5, <1>6, <1>7, <1>8, <1>9, TypeWhole DEF ListedExist

\* The invariant holds at the start.
LEMMA SchemaInitHolds == SchemaInit => SchemaInvar
<1> SUFFICES ASSUME SchemaInit PROVE SchemaInvar
  OBVIOUS
<1> USE SchemaAssumption DEF SchemaInit, Resting, Statements, Doing, Field, Index
<1>0. PICK l \in Labels :
        /\ fieldRows = [f \in Fields |->
             IF f \in Stored THEN [label |-> l, sound |-> TRUE] ELSE NoField]
        /\ metaRow = l
  OBVIOUS
<1>1. \A f \in Fields : fieldRows[f] = IF f \in Stored THEN [label |-> l, sound |-> TRUE] ELSE NoField
  BY <1>0
<1>2. fieldRows \in [Fields -> Options \cup {NoField}]
  BY <1>0 DEF Options
<1>3. \A f \in Fields : fieldRows[f] # NoField <=> f \in Stored
  <2>1. [label |-> l, sound |-> TRUE] \in Options
    BY DEF Options
  <2>2. [label |-> l, sound |-> TRUE] # NoField
    BY <2>1
  <2> QED
    BY <1>1, <2>2
<1>4. SchemaTypeOK
  BY <1>0, <1>2 DEF SchemaTypeOK
<1>5. SoundInv
  BY <1>1 DEF SoundInv
<1>6. WorkInv /\ SyncInv
  BY DEF WorkInv, Work, FieldWork, IndexWork, SyncInv
<1>7. ListedInv
  BY DEF ListedInv
<1>8. ListedExist
  BY <1>3 DEF ListedExist, RowsHaveColumns, IndexesHaveKeys
<1>9. ColumnsAgree
  BY <1>3 DEF ColumnsAgree
<1>10. CleanInv
  BY <1>9 DEF CleanInv, FieldAgrees, InputAgrees, MetaAgrees, KeyAgrees
<1>11. FieldsInv
  BY <1>3 DEF FieldsInv
<1> QED
  BY <1>4, <1>5, <1>6, <1>7, <1>8, <1>10, <1>11 DEF SchemaInvar

\* A crash and the restart that loads rows into memory.
LEMMA CrashKeeps ==
  ASSUME SchemaInvar, CrashSchema
  PROVE  SchemaInvar'
<1> USE SchemaAssumption
<1>types. RequestsOK /\ TablesOK
  BY TypeParts DEF SchemaInvar
<1>1. UNION {BrokenOff(a) : a \in SchemaAdmins} \subseteq Fields \cup Indexes
  <2>1. ASSUME NEW a \in SchemaAdmins PROVE BrokenOff(a) \subseteq Fields \cup Indexes
    BY DEF BrokenOff, SchemaInvar, WorkInv, Work, FieldWork, IndexWork, Doing, Field, Index
  <2> QED
    BY <2>1
<1> DEFINE broken == UNION {BrokenOff(a) : a \in SchemaAdmins}
<1>2. /\ halfRemoved' = halfRemoved \cup broken /\ clean' = (clean /\ mu = NoField)
      /\ indexes' = indexRows /\ displayName' = metaRow
      /\ mu' = NoField /\ change' = [a \in SchemaAdmins |-> Resting]
      /\ schemaFaults' = schemaFaults + 1
      /\ UNCHANGED <<mysql, catalogue, schemaCalls, bereft, raced>>
  BY DEF CrashSchema, Faulted
<1>3. \A a \in SchemaAdmins : /\ Doing(a, "deleteField") => Field(a) \in broken
                              /\ Doing(a, "deleteIndex") => Index(a) \in broken
  BY DEF BrokenOff, Doing
<1>4. mu = NoField => broken = {}
  <2>1. ASSUME mu = NoField, NEW a \in SchemaAdmins PROVE BrokenOff(a) = {}
    BY <1>types, <2>1 DEF BrokenOff, RequestsOK, Doing, Statements
  <2> QED
    BY <2>1
<1>5. broken \subseteq Fields \cup Indexes
  BY <1>1
<1> HIDE DEF broken
<1>6. /\ \A f \in Fields : fields'[f] = IF f \in Unloadable THEN NoField ELSE fieldRows[f]
      /\ fields' \in [Fields -> Options \cup {NoField}]
      /\ opts' = fields' /\ refused' = {} /\ reloaded' = TRUE
  BY <1>types DEF CrashSchema, Loadable, TablesOK, SchemaInvar, SoundInv
<1>7. \A a \in SchemaAdmins : change'[a].at = "idle" /\ change'[a].at \notin Statements
  BY <1>2 DEF Resting, Statements
<1>8. RequestsOK'
  BY <1>types, <1>2, <1>7 DEF RequestsOK, Works, Resting, Statements
<1>9. TablesOK'
  BY <1>types, <1>2, <1>5, <1>6 DEF TablesOK, mysql, catalogue
<1>10. SoundInv'
  BY <1>2, <1>6, <1>7 DEF SoundInv, SchemaInvar, catalogue
<1>11. WorkInv' /\ SyncInv'
  BY <1>7 DEF WorkInv, Work, FieldWork, IndexWork, SyncInv, Doing, Statements
<1>12. ListedInv'
  BY <1>2 DEF ListedInv, SchemaInvar, mysql, catalogue
<1>13. RowsHaveColumns'
  BY <1>2, <1>3 DEF SchemaInvar, ListedExist, RowsHaveColumns, mysql, catalogue
<1>14. IndexesHaveKeys'
  <2>1. ASSUME NEW x \in Indexes \ (halfRemoved' \cup bereft'), indexRows'[x] + indexes'[x] > 0
        PROVE  keys'[x] = On[x]
    <3>1. indexRows[x] \in Nat /\ indexes[x] \in Nat
      BY <1>types DEF TablesOK
    <3>2. indexRows[x] + indexes[x] > 0
      BY <1>2, <2>1, <3>1 DEF catalogue
    <3> QED
      BY <1>2, <1>3, <2>1, <3>2 DEF SchemaInvar, ListedExist, IndexesHaveKeys, mysql
  <2> QED
    BY <2>1 DEF IndexesHaveKeys
<1>15. FieldsInv'
  BY <1>2, <1>6, <1>7 DEF SchemaInvar, FieldsInv, mysql, catalogue
<1>16. CleanInv'
  <2> SUFFICES ASSUME clean' PROVE CleanInv'
    BY DEF CleanInv
  <2>1. clean /\ mu = NoField /\ halfRemoved' = {}
    BY <1>2, <1>4 DEF SchemaInvar, CleanInv
  <2>2. \A a \in SchemaAdmins : change[a].at \notin Statements
    BY <1>types, <2>1 DEF RequestsOK
  <2>3. ASSUME NEW f \in Fields
        PROVE  FieldAgrees(f)' /\ (f \in Unloadable \/ fields'[f] = fields[f])
    <3>1. fieldRows[f] = fields[f] \/ f \in Unloadable
      BY <2>1, <2>2 DEF SchemaInvar, CleanInv, FieldAgrees, Statements
    <3> QED
      BY <1>2, <1>6, <3>1 DEF FieldAgrees, catalogue
  <2>4. ASSUME NEW a \in SchemaAdmins PROVE InputAgrees(a)'
    BY <1>7 DEF InputAgrees, Doing
  <2>5. MetaAgrees'
    BY <1>2 DEF MetaAgrees, catalogue
  <2>6. ColumnsAgree'
    BY <1>2, <1>6, <2>1, <2>3 DEF SchemaInvar, CleanInv, ColumnsAgree, mysql
  <2>7. ASSUME NEW x \in Indexes \ bereft' PROVE KeyAgrees(x)'
    <3>1. /\ keys[x] = IF indexes[x] = 1 THEN On[x] ELSE {}
          /\ indexRows[x] = indexes[x] /\ indexes[x] <= 1
      BY <1>2, <2>1, <2>2 DEF SchemaInvar, CleanInv, KeyAgrees, Statements
    <3> QED
      BY <1>2, <3>1 DEF KeyAgrees, mysql, catalogue
  <2> QED
    BY <2>1, <2>3, <2>4, <2>5, <2>6, <2>7 DEF CleanInv
<1> QED
  BY <1>8, <1>9, <1>10, <1>11, <1>12, <1>13, <1>14, <1>15, <1>16, TypeWhole DEF SchemaInvar, ListedExist

\* Every step keeps the invariant.
LEMMA SchemaStep == SchemaInvar /\ [SchemaNext]_schemaVars => SchemaInvar'
<1> SUFFICES ASSUME SchemaInvar, [SchemaNext]_schemaVars PROVE SchemaInvar'
  OBVIOUS
<1>1. ASSUME NEW a \in SchemaAdmins, Change(a) PROVE SchemaInvar'
  BY <1>1, AddFieldKeeps, AddColumnKeeps, InsertFieldKeeps, AddIndexKeeps, CreateIndexKeeps,
     InsertIndexKeeps, RemoveIndexKeeps, DropIndexKeeps, DeleteIndexKeeps, RemoveFieldKeeps,
     DropColumnKeeps, DeleteFieldKeeps, UpdateFieldKeeps, WriteFieldKeeps, UpdateMetaKeeps,
     WriteMetaKeeps, ReadColumnsKeeps, ReadFieldsKeeps, AddMissingKeeps, BreakKeeps DEF Change
<1>2. CASE UNCHANGED schemaVars
  <2> USE <1>2 DEF schemaVars, mysql, catalogue, inMemory, past, SchemaInvar, Doing, Field, Index
  <2>1. SchemaTypeOK' /\ SoundInv'
    BY DEF SchemaTypeOK, SoundInv
  <2>2. WorkInv' /\ ListedInv' /\ SyncInv'
    BY DEF WorkInv, Work, ListedInv, SyncInv
  <2>3. ListedExist'
    BY DEF ListedExist, RowsHaveColumns, IndexesHaveKeys
  <2>4. CleanInv' /\ FieldsInv'
    BY DEF CleanInv, FieldAgrees, InputAgrees, MetaAgrees, ColumnsAgree, KeyAgrees, FieldsInv
  <2> QED
    BY <2>1, <2>2, <2>3, <2>4
<1> QED
  BY <1>1, <1>2, CrashKeeps DEF SchemaNext

\* The invariant.
THEOREM SchemaKept == SchemaSpec => []SchemaInvar
BY SchemaInitHolds, SchemaStep, PTL DEF SchemaSpec

\* What the server and the next start take the collection for is what MySQL has, after
\* changes that succeed and after those that break off (AddField, RemoveField, AddIndex,
\* RemoveIndex, UpdateField, UpdateMeta, Sync, loadFields, loadIndexes).
THEOREM SchemaTrue == SchemaSpec => []SchemaHolds
<1>1. SchemaInvar => SchemaHolds
  <2> SUFFICES ASSUME SchemaInvar PROVE SchemaAgrees
    BY DEF SchemaInvar, SchemaHolds
  <2>1. SUFFICES ASSUME clean, mu = NoField
                 PROVE  /\ FieldsAgree /\ metaRow = displayName
                        /\ \A f \in Fields \ Virtual :
                             /\ fieldRows[f] # NoField => f \in columns
                             /\ f \in columns => fieldRows[f] # NoField \/ f \in raced
                        /\ \A x \in Indexes \ bereft :
                             /\ indexRows[x] = indexes[x] /\ indexes[x] <= 1
                             /\ keys[x] = IF indexes[x] = 1 THEN On[x] ELSE {}
    BY DEF SchemaAgrees
  <2>2. \A a \in SchemaAdmins : change[a].at \notin Statements
    BY <2>1, SchemaAssumption DEF SchemaInvar, SchemaTypeOK
  <2>3. CleanInv
    BY DEF SchemaInvar
  <2>4. FieldsInv
    BY DEF SchemaInvar
  <2>5. \A f \in Fields : fieldRows[f] = fields[f] \/ (reloaded /\ f \in Unloadable)
    BY <2>1, <2>2, <2>3 DEF CleanInv, FieldAgrees, Statements
  <2>6. FieldsAgree
    BY <2>4, <2>5, SchemaAssumption DEF FieldsAgree, Left, FieldsInv
  <2>7. metaRow = displayName /\ ColumnsAgree
    BY <2>1, <2>2, <2>3 DEF CleanInv, MetaAgrees, Statements, Doing
  <2>8. ASSUME NEW f \in Fields \ Virtual
        PROVE  /\ fieldRows[f] # NoField => f \in columns
               /\ f \in columns => fieldRows[f] # NoField \/ f \in raced
    BY <2>4, <2>5, <2>7 DEF ColumnsAgree, FieldsInv
  <2>9. ASSUME NEW x \in Indexes \ bereft
        PROVE  /\ indexRows[x] = indexes[x] /\ indexes[x] <= 1
               /\ keys[x] = IF indexes[x] = 1 THEN On[x] ELSE {}
    BY <2>1, <2>2, <2>3 DEF CleanInv, KeyAgrees, Statements
  <2> QED
    BY <2>6, <2>7, <2>8, <2>9
<1> QED
  BY <1>1, SchemaKept, PTL

-----------------------------------------------------------------------------
(***************************************************************************)
(* ScriptRuntime: the invariant.                                           *)
(***************************************************************************)
\* A list is in order of priority.
InOrder(list) ==
  \A i, j \in DOMAIN list : i < j => Priority[list[i].def] <= Priority[list[j].def]

\* What a request that administers, and one that runs scripts, may be doing.
AdminType == [at : {"idle", "apply", "flip", "remove", "delete row"},
              id : Ids \cup {0}, row : Rows, alone : BOOLEAN]
CallerType == [at : {"idle", "hooks", "failed", "found", "called"},
               slot : Places \cup Routes \cup {NoScript},
               todo : Seq(Loaded), ran : Seq(Loaded)]

\* The list of a place is that of what is loaded, each once and in order.
ListInv(p) ==
  /\ IsInjective(hookMap[p]) /\ InOrder(hookMap[p])
  /\ ToSet(hookMap[p]) = At(p, Instances(scripts))

Loads(row) == IF row # NoScript /\ row.enabled THEN row.def ELSE NoScript

\* What the last request on a script has left.
SettledInv ==
  \A id \in settled : /\ OnScript(id) = {} /\ scriptRows[id] = asked[id]
                      /\ server = "up" => scripts[id] = Loads(asked[id])

\* What a request that is alone on its script has done so far.
AdminInv(a) ==
  LET id == admin[a].id  row == admin[a].row IN
  ~AdminAt(a, "idle") =>
    /\ server = "up" /\ id \in Ids
    /\ admin[a].at \in {"apply", "flip"} => row # NoScript
    /\ admin[a].alone =>
         /\ OnScript(id) = {a}
         /\ admin[a].at \in {"apply", "remove"} => scriptRows[id] = row
         /\ AdminAt(a, "flip") => scriptRows[id] # NoScript /\ scriptRows[id].def = row.def
         /\ AdminAt(a, "remove") => Loads(row) = NoScript
         /\ AdminAt(a, "delete row") => row = NoScript /\ scripts[id] = NoScript

\* How far Bootstrap has got.
BootInv ==
  /\ \A id \in toLoad : scriptRows[id] # NoScript /\ scriptRows[id].enabled
  /\ server = "up" => toLoad = {}
  /\ server = "down" => \A id \in Ids : scripts[id] = NoScript
  /\ server = "loading" =>
       \A id \in Ids : scripts[id] = IF id \in toLoad THEN NoScript ELSE Loads(scriptRows[id])

\* What a request has run and will run, and what it could have seen.
CallerInv(c) ==
  LET ran == caller[c].ran  todo == caller[c].todo IN
  /\ CallerAt(c, "idle") => ran = <<>> /\ todo = <<>>
  /\ ~CallerAt(c, "idle") => server = "up" /\ Instances(scripts) \subseteq seen[c]
  /\ ToSet(ran) \cup ToSet(todo) \subseteq seen[c]
  /\ \A i, j \in DOMAIN ran : ran[i].id = ran[j].id => i = j
  /\ CallerAt(c, "hooks") =>
       /\ \A i, j \in DOMAIN todo : todo[i].id = todo[j].id => i = j
       /\ \A i \in DOMAIN ran, j \in DOMAIN todo : ran[i].id # todo[j].id
       /\ steady[c] \subseteq ToSet(ran) \cup ToSet(todo)
  /\ CallerAt(c, "found") => Len(todo) = 1 /\ ran = <<>>

RuntimeTypes ==
  /\ scripts \in [Ids -> Definitions \cup {NoScript}]
  /\ hookMap \in [Places -> Seq(Loaded)]
  /\ customAPIRoutes \in [Routes -> Loaded \cup {NoScript}]

\* The manager is of one mind.
Registry == RuntimeTypes /\ RouteLive /\ \A p \in Places : ListInv(p)

AdminTypes ==
  /\ scriptRows \in [Ids -> Rows]
  /\ server \in {"up", "loading", "down", "refused"} /\ toLoad \subseteq Ids
  /\ admin \in [ScriptAdmins -> AdminType]
  /\ settled \subseteq Ids /\ asked \in [Ids -> Rows]

\* The requests that administer, and Bootstrap.
Governance ==
  /\ AdminTypes /\ RuntimeTypes
  /\ SettledInv /\ BootInv
  /\ \A a \in ScriptAdmins : AdminInv(a)

CallerTypes ==
  /\ caller \in [Callers -> CallerType]
  /\ steady \in [Callers -> SUBSET Loaded] /\ seen \in [Callers -> SUBSET Loaded]

\* The requests that run scripts.
Calling == CallerTypes /\ \A c \in Callers : CallerInv(c)

\* The three, and the counter: an INSERT has an id to give.
ScriptInvar == lastId \in 0..MaxScripts /\ Governance /\ Registry /\ Calling

-----------------------------------------------------------------------------
(***************************************************************************)
(* ScriptRuntime: lists.                                                   *)
(***************************************************************************)
\* A set of numbers has a least element.
LEMMA Least ==
  ASSUME NEW S, S \subseteq Nat, S # {}
  PROVE \E i \in S : \A j \in S : i <= j
<1> DEFINE R == {s \in Nat \X Nat : s[1] < s[2]}
<1>1. IsWellFoundedOn(R, Nat)
  BY NatLessThanWellFounded DEF OpToRel
<1>2. \A x, y \in Nat : <<y, x>> \in R <=> y < x
  OBVIOUS
<1> HIDE DEF R
<1>3. \E x \in S : \A y \in S : ~(<<y, x>> \in R)
  BY <1>1, WFMin, Zenon
<1>4. PICK x \in S : \A y \in S : ~(<<y, x>> \in R)
  BY <1>3
<1>5. \A y \in S : x <= y
  <2> SUFFICES ASSUME NEW y \in S PROVE x <= y
    OBVIOUS
  <2>1. x \in Nat /\ y \in Nat
    OBVIOUS
  <2>2. ~(y < x)
    BY <1>2, <1>4, <2>1
  <2> QED
    BY <2>1, <2>2
<1> QED
  BY <1>5

\* One list after the other.
LEMMA ConcatIs ==
  ASSUME NEW S, NEW s \in Seq(S), NEW t \in Seq(S)
  PROVE /\ s \o t \in Seq(S) /\ Len(s \o t) = Len(s) + Len(t)
        /\ \A i \in 1..(Len(s) + Len(t)) :
             (s \o t)[i] = IF i <= Len(s) THEN s[i] ELSE t[i - Len(s)]
OBVIOUS

\* What is left when the entry at k is taken out.
LEMMA RemoveAtIs ==
  ASSUME NEW S, NEW list \in Seq(S), NEW k \in 1..Len(list)
  PROVE /\ RemoveAt(list, k) \in Seq(S)
        /\ Len(RemoveAt(list, k)) = Len(list) - 1
        /\ \A i \in 1..(Len(list) - 1) :
             RemoveAt(list, k)[i] = IF i < k THEN list[i] ELSE list[i + 1]
<1> DEFINE n == Len(list)
           front == SubSeq(list, 1, k - 1)
           back == SubSeq(list, k + 1, n)
<1>1. n \in Nat /\ k \in Nat /\ 1 <= k /\ k <= n
  OBVIOUS
<1>2. /\ front \in Seq(S) /\ Len(front) = k - 1
      /\ \A i \in 1..(k - 1) : front[i] = list[i]
  BY <1>1
<1>3. /\ back \in Seq(S) /\ Len(back) = n - k
      /\ \A i \in 1..(n - k) : back[i] = list[k + i]
  BY <1>1
<1>4. RemoveAt(list, k) = front \o back
  BY DEF RemoveAt
<1> HIDE DEF front, back, n
<1>5. /\ front \o back \in Seq(S) /\ Len(front \o back) = n - 1
      /\ \A i \in 1..(n - 1) : (front \o back)[i] = IF i <= k - 1 THEN front[i] ELSE back[i - (k - 1)]
  <2>1. k - 1 \in Nat /\ n - k \in Nat /\ (k - 1) + (n - k) = n - 1
    BY <1>1
  <2>2. /\ front \o back \in Seq(S) /\ Len(front \o back) = Len(front) + Len(back)
        /\ \A i \in 1..(Len(front) + Len(back)) :
             (front \o back)[i] = IF i <= Len(front) THEN front[i] ELSE back[i - Len(front)]
    BY <1>2, <1>3, ConcatIs
  <2> QED
    BY <1>2, <1>3, <2>1, <2>2
<1>6. ASSUME NEW i \in 1..(n - 1) PROVE (front \o back)[i] = IF i < k THEN list[i] ELSE list[i + 1]
  <2>1. CASE i < k
    <3>1. i \in 1..(k - 1)
      BY <1>1, <2>1
    <3> QED
      BY <1>2, <1>5, <2>1, <3>1
  <2>2. CASE ~(i < k)
    <3>1. i - (k - 1) \in 1..(n - k) /\ k + (i - (k - 1)) = i + 1
      BY <1>1, <2>2
    <3> QED
      BY <1>3, <1>5, <2>2, <3>1
  <2> QED
    BY <2>1, <2>2
<1> QED
  BY <1>4, <1>5, <1>6 DEF n

\* What is there once an entry is put in at k.
LEMMA InsertAtIs ==
  ASSUME NEW S, NEW list \in Seq(S), NEW k \in 1..(Len(list) + 1), NEW e \in S
  PROVE /\ InsertAt(list, k, e) \in Seq(S)
        /\ Len(InsertAt(list, k, e)) = Len(list) + 1
        /\ \A i \in 1..(Len(list) + 1) :
             InsertAt(list, k, e)[i] = IF i < k THEN list[i] ELSE IF i = k THEN e ELSE list[i - 1]
<1> DEFINE n == Len(list)
           front == SubSeq(list, 1, k - 1)
           back == SubSeq(list, k, n)
           start == front \o <<e>>
<1>1. n \in Nat /\ k \in Nat /\ 1 <= k /\ k <= n + 1
  OBVIOUS
<1>2. /\ front \in Seq(S) /\ Len(front) = k - 1
      /\ \A i \in 1..(k - 1) : front[i] = list[i]
  BY <1>1
<1>3. /\ back \in Seq(S) /\ Len(back) = n + 1 - k
      /\ \A i \in 1..(n + 1 - k) : back[i] = list[k + i - 1]
  <2>1. CASE k <= n
    BY <1>1, <2>1
  <2>2. CASE k = n + 1
    BY <1>1, <2>2
  <2> QED
    BY <1>1, <2>1, <2>2
<1>4. InsertAt(list, k, e) = start \o back
  BY DEF InsertAt
<1> HIDE DEF front, back, n
<1>5. /\ start \in Seq(S) /\ Len(start) = k
      /\ \A i \in 1..k : start[i] = IF i < k THEN list[i] ELSE e
  BY <1>1, <1>2
<1> HIDE DEF start
<1>6. /\ start \o back \in Seq(S) /\ Len(start \o back) = n + 1
      /\ \A i \in 1..(n + 1) : (start \o back)[i] = IF i <= k THEN start[i] ELSE back[i - k]
  BY <1>1, <1>3, <1>5
<1>7. ASSUME NEW i \in 1..(n + 1)
      PROVE (start \o back)[i] = IF i < k THEN list[i] ELSE IF i = k THEN e ELSE list[i - 1]
  <2>1. CASE i <= k
    <3>1. i \in 1..k
      BY <1>1, <2>1
    <3> QED
      BY <1>1, <1>5, <1>6, <2>1, <3>1
  <2>2. CASE ~(i <= k)
    <3>1. i - k \in 1..(n + 1 - k) /\ k + (i - k) - 1 = i - 1 /\ ~(i < k) /\ i # k
      BY <1>1, <2>2
    <3> QED
      BY <1>3, <1>6, <2>2, <3>1
  <2> QED
    BY <2>1, <2>2
<1> QED
  BY <1>4, <1>6, <1>7 DEF n

\* RemoveFirst takes out one place, where the entry is.
LEMMA RemoveFirstIs ==
  ASSUME NEW S, NEW list \in Seq(S), NEW e
  PROVE \/ (\A i \in DOMAIN list : list[i] # e) /\ RemoveFirst(list, e) = list
        \/ \E k \in 1..Len(list) : list[k] = e /\ RemoveFirst(list, e) = RemoveAt(list, k)
<1>1. CASE \E i \in 1..Len(list) : list[i] = e
  <2> DEFINE I == {i \in 1..Len(list) : list[i] = e}
  <2>1. I # {} /\ I \subseteq Nat
    BY <1>1
  <2>2. PICK k \in I : \A j \in I : k <= j
    BY <2>1, Least
  <2>3. Min(I) \in I
    BY <2>2 DEF Min
  <2>4. RemoveFirst(list, e) = RemoveAt(list, SelectInSeq(list, LAMBDA v : v = e))
    BY <1>1 DEF RemoveFirst
  <2>5. SelectInSeq(list, LAMBDA v : v = e) = Min(I)
    BY <2>1 DEF SelectInSeq
  <2> QED
    BY <2>3, <2>4, <2>5
<1>2. CASE ~\E i \in 1..Len(list) : list[i] = e
  BY <1>2 DEF RemoveFirst
<1> QED
  BY <1>1, <1>2

\* A list without repetition is as long as its set.
LEMMA LengthIs ==
  ASSUME NEW S, NEW list \in Seq(S), IsInjective(list)
  PROVE Len(list) = Cardinality(ToSet(list))
<1>1. DOMAIN list = 1..Len(list) /\ Len(list) \in Nat
  OBVIOUS
<1>2. list \in [1..Len(list) -> ToSet(list)]
  BY <1>1 DEF ToSet
<1>3. \A x \in ToSet(list) : \E i \in 1..Len(list) : list[i] = x
  BY <1>1 DEF ToSet
<1>4. list \in Bijection(1..Len(list), ToSet(list))
  BY <1>2, <1>3 DEF Bijection, Injection, Surjection
<1> QED
  BY <1>1, <1>4, FS_CountingElements DEF ExistsBijection

\* The list without an entry: the others, in the same order.
LEMMA ListWithout ==
  ASSUME NEW S, NEW list \in Seq(S), IsInjective(list), NEW e
  PROVE LET less == RemoveFirst(list, e) IN
        /\ less \in Seq(S) /\ IsInjective(less)
        /\ ToSet(less) = ToSet(list) \ {e}
        /\ InOrder(list) => InOrder(less)
<1> DEFINE less == RemoveFirst(list, e)
<1>0. DOMAIN list = 1..Len(list) /\ Len(list) \in Nat
  OBVIOUS
<1>1. CASE (\A i \in DOMAIN list : list[i] # e) /\ less = list
  BY <1>1 DEF ToSet
<1>2. CASE \E k \in 1..Len(list) : list[k] = e /\ less = RemoveAt(list, k)
  <2>1. PICK k \in 1..Len(list) : list[k] = e /\ less = RemoveAt(list, k)
    BY <1>2
  <2>2. less \in Seq(S) /\ Len(less) = Len(list) - 1
    BY <2>1, RemoveAtIs
  <2>3. \A i \in 1..(Len(list) - 1) : less[i] = IF i < k THEN list[i] ELSE list[i + 1]
    BY <2>1, RemoveAtIs
  <2> HIDE DEF less
  <2>4. DOMAIN less = 1..(Len(list) - 1)
    BY <2>2
  \* Where an entry of the rest was.
  <2> DEFINE was(i) == IF i < k THEN i ELSE i + 1
  <2>5. \A i \in DOMAIN less : was(i) \in DOMAIN list /\ was(i) # k /\ less[i] = list[was(i)]
    BY <1>0, <2>3, <2>4
  <2>6. \A i, j \in DOMAIN less : /\ was(i) = was(j) => i = j
                                  /\ i < j => was(i) < was(j)
    BY <1>0, <2>4
  <2>7. \A m \in DOMAIN list \ {k} : \E i \in DOMAIN less : was(i) = m
    <3> SUFFICES ASSUME NEW m \in DOMAIN list \ {k} PROVE \E i \in DOMAIN less : was(i) = m
      OBVIOUS
    <3>1. CASE m < k
      <4>1. m \in DOMAIN less /\ was(m) = m
        BY <1>0, <2>4, <3>1
      <4> QED
        BY <4>1
    <3>2. CASE ~(m < k)
      <4>1. m - 1 \in DOMAIN less /\ was(m - 1) = m
        BY <1>0, <2>4, <3>2
      <4> QED
        BY <4>1
    <3> QED
      BY <3>1, <3>2
  <2> HIDE DEF was
  <2>8. IsInjective(less)
    BY <2>5, <2>6 DEF IsInjective
  <2>9. ToSet(less) = ToSet(list) \ {e}
    <3>1. ASSUME NEW x \in ToSet(less) PROVE x \in ToSet(list) \ {e}
      <4>1. PICK i \in DOMAIN less : x = less[i]
        BY DEF ToSet
      <4>2. x = list[was(i)] /\ was(i) \in DOMAIN list /\ was(i) # k
        BY <2>5, <4>1
      <4> QED
        BY <1>0, <2>1, <4>2 DEF IsInjective, ToSet
    <3>2. ASSUME NEW x \in ToSet(list) \ {e} PROVE x \in ToSet(less)
      <4>1. PICK m \in DOMAIN list : x = list[m]
        BY DEF ToSet
      <4>2. PICK i \in DOMAIN less : was(i) = m
        BY <2>1, <2>7, <4>1
      <4> QED
        BY <2>5, <4>1, <4>2 DEF ToSet
    <3> QED
      BY <3>1, <3>2
  <2>10. InOrder(list) => InOrder(less)
    BY <2>5, <2>6 DEF InOrder
  <2> QED
    BY <2>2, <2>8, <2>9, <2>10 DEF less
<1> QED
  BY <1>1, <1>2, RemoveFirstIs

\* The list with a new entry.
LEMMA ListWith ==
  ASSUME NEW S, NEW list \in Seq(S), IsInjective(list), NEW e \in S, e \notin ToSet(list),
         NEW k \in 1..(Len(list) + 1)
  PROVE LET more == InsertAt(list, k, e) IN
        /\ more \in Seq(S) /\ IsInjective(more)
        /\ ToSet(more) = ToSet(list) \cup {e}
<1> DEFINE more == InsertAt(list, k, e)
<1>0. DOMAIN list = 1..Len(list) /\ Len(list) \in Nat /\ k \in Nat /\ 1 <= k /\ k <= Len(list) + 1
  OBVIOUS
<1>1. more \in Seq(S) /\ Len(more) = Len(list) + 1
  BY InsertAtIs
<1>2. \A i \in 1..(Len(list) + 1) :
        more[i] = IF i < k THEN list[i] ELSE IF i = k THEN e ELSE list[i - 1]
  BY InsertAtIs
<1> HIDE DEF more
<1>3. DOMAIN more = 1..(Len(list) + 1)
  BY <1>1
<1> DEFINE was(i) == IF i < k THEN i ELSE i - 1
<1>4. \A i \in DOMAIN more \ {k} : was(i) \in DOMAIN list /\ more[i] = list[was(i)]
  BY <1>0, <1>2, <1>3
<1>5. k \in DOMAIN more /\ more[k] = e
  BY <1>0, <1>2, <1>3
<1>6. \A i, j \in DOMAIN more \ {k} : was(i) = was(j) => i = j
  BY <1>0, <1>3
<1>7. \A m \in DOMAIN list : \E i \in DOMAIN more \ {k} : was(i) = m
  <2> SUFFICES ASSUME NEW m \in DOMAIN list PROVE \E i \in DOMAIN more \ {k} : was(i) = m
    OBVIOUS
  <2>1. CASE m < k
    <3>1. m \in DOMAIN more \ {k} /\ was(m) = m
      BY <1>0, <1>3, <2>1
    <3> QED
      BY <3>1
  <2>2. CASE ~(m < k)
    <3>1. m + 1 \in DOMAIN more \ {k} /\ was(m + 1) = m
      BY <1>0, <1>3, <2>2
    <3> QED
      BY <3>1
  <2> QED
    BY <2>1, <2>2
<1> HIDE DEF was
<1>8. \A i \in DOMAIN more \ {k} : more[i] \in ToSet(list) /\ more[i] # e
  BY <1>4 DEF ToSet
<1>9. IsInjective(more)
  <2> SUFFICES ASSUME NEW i \in DOMAIN more, NEW j \in DOMAIN more, more[i] = more[j] PROVE i = j
    BY DEF IsInjective
  <2>1. i = k <=> j = k
    BY <1>5, <1>8
  <2>2. CASE i # k
    <3>1. was(i) = was(j)
      BY <1>4, <2>1, <2>2 DEF IsInjective
    <3> QED
      BY <1>6, <2>1, <2>2, <3>1
  <2> QED
    BY <2>1, <2>2
<1>10. ToSet(more) = ToSet(list) \cup {e}
  <2>1. ASSUME NEW x \in ToSet(more) PROVE x \in ToSet(list) \cup {e}
    BY <1>5, <1>8 DEF ToSet
  <2>2. ASSUME NEW x \in ToSet(list) PROVE x \in ToSet(more)
    <3>1. PICK m \in DOMAIN list : x = list[m]
      BY DEF ToSet
    <3>2. PICK i \in DOMAIN more \ {k} : was(i) = m
      BY <1>7
    <3> QED
      BY <1>4, <3>1, <3>2 DEF ToSet
  <2>3. e \in ToSet(more)
    BY <1>5 DEF ToSet
  <2> QED
    BY <2>1, <2>2, <2>3
<1> QED
  BY <1>1, <1>9, <1>10 DEF more

-----------------------------------------------------------------------------
(***************************************************************************)
(* ScriptRuntime: what is compiled and where it is registered.             *)
(***************************************************************************)
\* What the constants are.
LEMMA ScriptConstants ==
  /\ Places \cap Routes = {}
  /\ \A d \in Definitions : Slot[d] \in Places \cup Routes /\ Priority[d] \in Int /\ Compiles[d] \in BOOLEAN
  /\ NoScript \notin Definitions /\ NoScript \notin Loaded
  /\ \A d \in Definitions, e \in BOOLEAN : Row(d, e) # NoScript
BY ScriptAssumption DEF Loaded, Row, Ids

\* The fields of a row.
LEMMA RowFacts ==
  /\ \A d \in Definitions, e \in BOOLEAN :
       Row(d, e) \in Rows /\ Row(d, e).def = d /\ Row(d, e).enabled = e /\ Row(d, e) # NoScript
  /\ \A row \in Rows : row # NoScript => row.def \in Definitions /\ row.enabled \in BOOLEAN
  /\ NoScript \in Rows
BY ScriptConstants DEF Row, Rows

\* The fields of an instance.
LEMMA InstFacts ==
  \A id \in Ids, d \in Definitions :
    Inst(id, d) \in Loaded /\ Inst(id, d).id = id /\ Inst(id, d).def = d /\ Inst(id, d) # NoScript
<1>1. \A id \in Ids, d \in Definitions :
        Inst(id, d) \in Loaded /\ Inst(id, d).id = id /\ Inst(id, d).def = d
  BY DEF Inst, Loaded
<1> QED
  BY <1>1, ScriptConstants

\* The instances of what is compiled: one of each script.
LEMMA InstancesAre ==
  ASSUME NEW compiled \in [Ids -> Definitions \cup {NoScript}]
  PROVE /\ Instances(compiled) \subseteq Loaded
        /\ \A x \in Instances(compiled) : compiled[x.id] = x.def /\ x = Inst(x.id, x.def)
        /\ \A id \in Ids, d \in Definitions : compiled[id] = d => Inst(id, d) \in Instances(compiled)
        /\ \A id \in Ids : compiled[id] = NoScript => \A x \in Instances(compiled) : x.id # id
        /\ \A x, y \in Instances(compiled) : x.id = y.id => x = y
<1>1. ASSUME NEW x \in Instances(compiled)
      PROVE  \E id \in Ids : /\ compiled[id] \in Definitions /\ x = Inst(id, compiled[id])
                             /\ x.id = id /\ x.def = compiled[id] /\ x \in Loaded
  <2>1. PICK id \in Ids : compiled[id] # NoScript /\ x = Inst(id, compiled[id])
    BY DEF Instances
  <2>2. compiled[id] \in Definitions
    BY <2>1
  <2> QED
    BY <2>1, <2>2, InstFacts
<1>2. \A id \in Ids, d \in Definitions : compiled[id] = d => Inst(id, d) \in Instances(compiled)
  BY ScriptConstants DEF Instances
<1>3. \A x \in Instances(compiled) : x \in Loaded /\ compiled[x.id] = x.def /\ x = Inst(x.id, x.def)
  BY <1>1
<1>4. \A id \in Ids : compiled[id] = NoScript => \A x \in Instances(compiled) : x.id # id
  BY <1>1, ScriptConstants
<1> QED
  BY <1>2, <1>3, <1>4

\* With another definition for one script, the others' instances are the same.
LEMMA InstancesBut ==
  ASSUME NEW compiled \in [Ids -> Definitions \cup {NoScript}], NEW id \in Ids,
         NEW d \in Definitions \cup {NoScript}
  PROVE LET others == {x \in Instances(compiled) : x.id # id} IN
        Instances([compiled EXCEPT ![id] = d]) =
          IF d = NoScript THEN others ELSE others \cup {Inst(id, d)}
<1> DEFINE after == [compiled EXCEPT ![id] = d]
           others == {x \in Instances(compiled) : x.id # id}
<1>0. after \in [Ids -> Definitions \cup {NoScript}]
  OBVIOUS
<1>00. after[id] = d /\ \A i \in Ids \ {id} : after[i] = compiled[i]
  OBVIOUS
<1> HIDE DEF after
<1>1. ASSUME NEW x \in Instances(after), x.id # id PROVE x \in Instances(compiled)
  <2>1. PICK i \in Ids : after[i] # NoScript /\ x = Inst(i, after[i])
    BY DEF Instances
  <2>2. x.id = i
    BY <1>0, <2>1, InstFacts
  <2> QED
    BY <1>00, <1>1, <2>1, <2>2 DEF Instances
<1>2. ASSUME NEW x \in Instances(compiled), x.id # id PROVE x \in Instances(after)
  <2>1. PICK i \in Ids : compiled[i] # NoScript /\ x = Inst(i, compiled[i])
    BY DEF Instances
  <2>2. x.id = i
    BY <2>1, InstFacts
  <2> QED
    BY <1>00, <1>2, <2>1, <2>2 DEF Instances
<1>3. ASSUME NEW x \in Instances(after), x.id = id PROVE d # NoScript /\ x = Inst(id, d)
  <2>1. PICK i \in Ids : after[i] # NoScript /\ x = Inst(i, after[i])
    BY DEF Instances
  <2>2. x.id = i
    BY <1>0, <2>1, InstFacts
  <2> QED
    BY <1>00, <1>3, <2>1, <2>2
<1>4. d # NoScript => Inst(id, d) \in Instances(after)
  BY <1>00 DEF Instances
<1> QED
  BY <1>1, <1>2, <1>3, <1>4 DEF after

OthersAt(slot, id) == {x \in At(slot, Instances(scripts)) : x.id # id}

\* The list of a place without one script.
LEMMA HooksWithoutIs ==
  ASSUME Registry, NEW id \in Ids, NEW p \in Places
  PROVE LET list == HooksWithout(id)[p] IN
        /\ list \in Seq(Loaded) /\ IsInjective(list) /\ InOrder(list)
        /\ ToSet(list) = OthersAt(p, id)
<1> DEFINE list == HooksWithout(id)[p]
           e == Inst(id, scripts[id])
<1>0. /\ hookMap[p] \in Seq(Loaded) /\ IsInjective(hookMap[p]) /\ InOrder(hookMap[p])
      /\ ToSet(hookMap[p]) = At(p, Instances(scripts))
      /\ scripts \in [Ids -> Definitions \cup {NoScript}]
  BY DEF Registry, RuntimeTypes, ListInv
<1>1. CASE scripts[id] # NoScript /\ Slot[scripts[id]] = p
  <2>1. list = RemoveFirst(hookMap[p], e)
    BY <1>1 DEF HooksWithout
  <2> HIDE DEF list
  <2>2. /\ list \in Seq(Loaded) /\ IsInjective(list) /\ InOrder(list)
        /\ ToSet(list) = ToSet(hookMap[p]) \ {e}
    BY <1>0, <2>1, ListWithout
  <2>3. \A x \in Instances(scripts) : x.id = id <=> x = e
    <3>1. e.id = id
      BY <1>0, <1>1, InstFacts
    <3>2. \A x \in Instances(scripts) : x = Inst(x.id, x.def) /\ scripts[x.id] = x.def
      BY <1>0, InstancesAre
    <3> QED
      BY <3>1, <3>2
  <2> QED
    BY <1>0, <2>2, <2>3 DEF OthersAt, At, list
<1>2. CASE ~(scripts[id] # NoScript /\ Slot[scripts[id]] = p)
  <2>1. list = hookMap[p]
    BY <1>2 DEF HooksWithout
  <2>2. \A x \in At(p, Instances(scripts)) : x.id # id
    BY <1>0, <1>2, InstancesAre DEF At
  <2> QED
    BY <1>0, <2>1, <2>2 DEF OthersAt
<1> QED
  BY <1>1, <1>2

\* A route without one script: what is left is another's, or nothing.
LEMMA RoutesWithoutIs ==
  ASSUME Registry, NEW id \in Ids, NEW r \in Routes
  PROVE RoutesWithout(id)[r] \in OthersAt(r, id) \cup {NoScript}
<1>0. scripts \in [Ids -> Definitions \cup {NoScript}]
  BY DEF Registry, RuntimeTypes
<1>1. CASE scripts[id] # NoScript /\ Slot[scripts[id]] = r
  BY <1>1 DEF RoutesWithout
<1>2. CASE ~(scripts[id] # NoScript /\ Slot[scripts[id]] = r)
  <2>1. RoutesWithout(id)[r] = customAPIRoutes[r]
    BY <1>2 DEF RoutesWithout
  <2>2. customAPIRoutes[r] # NoScript => customAPIRoutes[r] \in At(r, Instances(scripts))
    BY DEF Registry, RouteLive
  <2>3. \A x \in At(r, Instances(scripts)) : x.id # id
    BY <1>0, <1>2, InstancesAre DEF At
  <2> QED
    BY <2>1, <2>2, <2>3 DEF OthersAt
<1> QED
  BY <1>1, <1>2

\* What is registered once one script has another definition, or none.
LEMMA AtBut ==
  ASSUME RuntimeTypes, NEW id \in Ids, NEW d \in Definitions \cup {NoScript}, NEW slot,
         scripts' = [scripts EXCEPT ![id] = d]
  PROVE /\ scripts' \in [Ids -> Definitions \cup {NoScript}]
        /\ d = NoScript => At(slot, Instances(scripts')) = OthersAt(slot, id)
        /\ d # NoScript => At(slot, Instances(scripts')) =
             IF Slot[d] = slot THEN OthersAt(slot, id) \cup {Inst(id, d)} ELSE OthersAt(slot, id)
<1>0. scripts \in [Ids -> Definitions \cup {NoScript}]
  BY DEF RuntimeTypes
<1>1. Instances(scripts') =
        IF d = NoScript THEN {x \in Instances(scripts) : x.id # id}
        ELSE {x \in Instances(scripts) : x.id # id} \cup {Inst(id, d)}
  BY <1>0, InstancesBut
<1>2. d # NoScript => Inst(id, d).def = d
  BY InstFacts
<1> QED
  BY <1>0, <1>1, <1>2 DEF At, OthersAt

\* The others are instances too.
LEMMA OthersLoaded ==
  ASSUME RuntimeTypes, NEW id, NEW slot
  PROVE OthersAt(slot, id) \subseteq Loaded
<1>1. Instances(scripts) \subseteq Loaded
  BY InstancesAre DEF RuntimeTypes
<1> QED
  BY <1>1 DEF OthersAt, At

\* removeScriptLocked: hooks and routes are those of what is left.
LEMMA RemoveScriptKeeps ==
  ASSUME Registry, NEW id \in Ids, RemoveScript(id)
  PROVE Registry' /\ scripts' = [scripts EXCEPT ![id] = NoScript]
<1>0. RuntimeTypes
  BY DEF Registry
<1>1. scripts' = [scripts EXCEPT ![id] = NoScript]
  BY DEF RemoveScript
<1>2. \A slot : At(slot, Instances(scripts')) = OthersAt(slot, id)
  BY <1>0, <1>1, AtBut
<1>3. scripts' \in [Ids -> Definitions \cup {NoScript}]
  BY <1>0, <1>1, AtBut
<1>4. hookMap' = HooksWithout(id) /\ customAPIRoutes' = RoutesWithout(id)
  BY DEF RemoveScript
<1>5. \A p \in Places : /\ hookMap'[p] \in Seq(Loaded) /\ IsInjective(hookMap'[p]) /\ InOrder(hookMap'[p])
                        /\ ToSet(hookMap'[p]) = OthersAt(p, id)
  BY <1>4, HooksWithoutIs
<1>6. \A r \in Routes : customAPIRoutes'[r] \in OthersAt(r, id) \cup {NoScript}
  BY <1>4, RoutesWithoutIs
<1>7. hookMap' \in [Places -> Seq(Loaded)]
  BY <1>4, <1>5 DEF HooksWithout
<1>8. customAPIRoutes' \in [Routes -> Loaded \cup {NoScript}]
  <2>1. \A r \in Routes : customAPIRoutes'[r] \in Loaded \cup {NoScript}
    BY <1>0, <1>6, OthersLoaded
  <2> QED
    BY <1>4, <2>1 DEF RoutesWithout
<1>9. RouteLive'
  BY <1>2, <1>6 DEF RouteLive
<1>10. \A p \in Places : ListInv(p)'
  BY <1>2, <1>5 DEF ListInv, InOrder
<1> QED
  BY <1>1, <1>3, <1>7, <1>8, <1>9, <1>10 DEF Registry, RuntimeTypes

\* LoadScript: they are those of what is left and of the new version, if it compiles.
LEMMA LoadScriptKeeps ==
  ASSUME Registry, NEW id \in Ids, NEW d \in Definitions, LoadScript(id, d)
  PROVE /\ Registry'
        /\ scripts' = [scripts EXCEPT ![id] = IF Compiles[d] THEN d ELSE NoScript]
<1>0. RuntimeTypes
  BY DEF Registry
<1>1. CASE ~Compiles[d]
  <2>1. RemoveScript(id)
    BY <1>1 DEF LoadScript
  <2> QED
    BY <1>1, <2>1, RemoveScriptKeeps
<1>2. CASE Compiles[d]
  <2> DEFINE e == Inst(id, d)
  <2>1. scripts' = [scripts EXCEPT ![id] = d]
    BY <1>2 DEF LoadScript
  <2>2. d # NoScript /\ e \in Loaded /\ e.id = id /\ e.def = d
    BY ScriptConstants, InstFacts
  <2>3. scripts' \in [Ids -> Definitions \cup {NoScript}]
    BY <1>0, <2>1, AtBut
  <2>4. \A slot : At(slot, Instances(scripts')) =
          IF Slot[d] = slot THEN OthersAt(slot, id) \cup {e} ELSE OthersAt(slot, id)
    BY <1>0, <2>1, <2>2, AtBut
  <2>5. customAPIRoutes' = [r \in Routes |-> IF Slot[d] = r THEN e ELSE RoutesWithout(id)[r]]
    BY <1>2 DEF LoadScript
  <2> HIDE DEF e
  <2>6. \A r \in Routes : customAPIRoutes'[r] = IF Slot[d] = r THEN e ELSE RoutesWithout(id)[r]
    BY <2>5
  <2>7. \A r \in Routes : RoutesWithout(id)[r] \in OthersAt(r, id) \cup {NoScript}
    BY RoutesWithoutIs
  <2>8. customAPIRoutes' \in [Routes -> Loaded \cup {NoScript}]
    <3>1. \A r \in Routes : customAPIRoutes'[r] \in Loaded \cup {NoScript}
      BY <1>0, <2>2, <2>6, <2>7, OthersLoaded
    <3> QED
      BY <2>5, <3>1
  <2>9. RouteLive'
    BY <2>4, <2>6, <2>7 DEF RouteLive
  <2>10. HooksLeft(id) = HooksWithout(id)
    BY DEF HooksLeft
  <2>11. \A p \in Places : LET list == HooksWithout(id)[p] IN
           /\ list \in Seq(Loaded) /\ IsInjective(list) /\ InOrder(list)
           /\ ToSet(list) = OthersAt(p, id)
    BY HooksWithoutIs
  <2>12. HooksWithout(id) \in [Places -> Seq(Loaded)]
    BY <2>11 DEF HooksWithout
  <2>13. CASE Slot[d] \in Places
    <3>1. PICK list \in SortedWith(HooksWithout(id)[Slot[d]], e) :
            hookMap' = [HooksWithout(id) EXCEPT ![Slot[d]] = list]
      BY <1>2, <2>10, <2>13 DEF LoadScript, e
    <3> DEFINE before == HooksWithout(id)[Slot[d]]
    <3>2. PICK k \in 1..(Len(before) + 1) : list = InsertAt(before, k, e)
      BY <3>1 DEF SortedWith
    <3>3. InOrder(list)
      BY <3>1 DEF SortedWith, InOrder
    <3>4. /\ before \in Seq(Loaded) /\ IsInjective(before) /\ ToSet(before) = OthersAt(Slot[d], id)
      BY <2>11, <2>13
    <3>5. e \notin ToSet(before)
      BY <2>2, <3>4 DEF OthersAt
    <3> HIDE DEF before
    <3>6. /\ list \in Seq(Loaded) /\ IsInjective(list) /\ ToSet(list) = ToSet(before) \cup {e}
      BY <2>2, <3>2, <3>4, <3>5, ListWith
    <3>7. hookMap' \in [Places -> Seq(Loaded)]
      BY <2>12, <3>1, <3>6
    <3>8. hookMap'[Slot[d]] = list /\ \A p \in Places : p # Slot[d] => hookMap'[p] = HooksWithout(id)[p]
      BY <2>12, <2>13, <3>1
    <3>9. ASSUME NEW p \in Places PROVE ListInv(p)'
      <4>1. CASE p = Slot[d]
        BY <2>4, <3>3, <3>4, <3>6, <3>8, <4>1 DEF ListInv, InOrder
      <4>2. CASE p # Slot[d]
        BY <2>4, <2>11, <3>8, <4>2 DEF ListInv, InOrder
      <4> QED
        BY <4>1, <4>2
    <3> QED
      BY <1>2, <2>1, <2>3, <2>8, <2>9, <3>7, <3>9 DEF Registry, RuntimeTypes
  <2>14. CASE Slot[d] \notin Places
    <3>1. hookMap' = HooksWithout(id)
      BY <1>2, <2>10, <2>14 DEF LoadScript
    <3>2. \A p \in Places : ListInv(p)'
      BY <2>4, <2>11, <2>14, <3>1 DEF ListInv, InOrder
    <3> QED
      BY <1>2, <2>1, <2>3, <2>8, <2>9, <2>12, <3>1, <3>2 DEF Registry, RuntimeTypes
  <2> QED
    BY <2>13, <2>14
<1> QED
  BY <1>1, <1>2, ScriptConstants

-----------------------------------------------------------------------------
(***************************************************************************)
(* ScriptRuntime: the requests that administer.                            *)
(***************************************************************************)
\* Whoever is alone: nobody else is on its script.
LEMMA AloneOnScript ==
  ASSUME Governance, NEW a \in ScriptAdmins, NEW b \in ScriptAdmins, a # b,
         ~AdminAt(a, "idle"), ~AdminAt(b, "idle"), admin[b].alone
  PROVE admin[a].id # admin[b].id
<1>1. OnScript(admin[b].id) = {b}
  BY DEF Governance, AdminInv
<1> QED
  BY <1>1 DEF OnScript, AdminAt

\* What a request has done so far stays done.
LEMMA AdminStays ==
  ASSUME NEW b \in ScriptAdmins, NEW j, j = admin[b].id, AdminInv(b), ~AdminAt(b, "idle"),
         server' = server,
         /\ admin'[b].at = admin[b].at /\ admin'[b].id = admin[b].id /\ admin'[b].row = admin[b].row,
         admin'[b].alone => /\ admin[b].alone /\ OnScript(j)' = {b}
                            /\ scriptRows'[j] = scriptRows[j] /\ scripts'[j] = scripts[j]
  PROVE AdminInv(b)'
<1>1. ~AdminAt(b, "idle")' /\ admin'[b].id = j
  BY DEF AdminAt
<1>2. server' = "up" /\ j \in Ids /\ (admin'[b].at \in {"apply", "flip"} => admin'[b].row # NoScript)
  BY DEF AdminInv
<1>3. ASSUME admin'[b].alone
      PROVE  /\ OnScript(j)' = {b}
             /\ admin'[b].at \in {"apply", "remove"} => scriptRows'[j] = admin'[b].row
             /\ admin'[b].at = "flip" => scriptRows'[j] # NoScript /\ scriptRows'[j].def = admin'[b].row.def
             /\ admin'[b].at = "remove" => Loads(admin'[b].row) = NoScript
             /\ admin'[b].at = "delete row" => admin'[b].row = NoScript /\ scripts'[j] = NoScript
  BY <1>3 DEF AdminInv, AdminAt
<1> QED
  BY <1>1, <1>2, <1>3 DEF AdminInv, AdminAt

\* A request takes up work on a script.
LEMMA TakeKeeps ==
  ASSUME Governance, NEW a \in ScriptAdmins, NEW id \in Ids, NEW row \in Rows, NEW alone \in BOOLEAN,
         NEW label \in {"apply", "flip", "remove", "delete row"},
         Take(a, label, id, row, alone),
         scriptRows' \in [Ids -> Rows], RuntimeTypes',
         \A i \in Ids \ {id} : scriptRows'[i] = scriptRows[i] /\ scripts'[i] = scripts[i],
         UNCHANGED boot,
         label \in {"apply", "flip"} => row # NoScript,
         alone => /\ label \in {"apply", "remove"} => scriptRows'[id] = row
                  /\ label = "flip" => scriptRows'[id] # NoScript /\ scriptRows'[id].def = row.def
                  /\ label = "remove" => Loads(row) = NoScript
                  /\ label = "delete row" => row = NoScript /\ scripts'[id] = NoScript
  PROVE Governance'
<1> DEFINE mine == [at |-> label, id |-> id, row |-> row, alone |-> alone /\ OnScript(id) = {}]
<1>0. AdminTypes /\ server = "up" /\ AdminAt(a, "idle") /\ toLoad = {}
  BY DEF Governance, Take, BootInv
<1>1. server' = server /\ toLoad' = toLoad
  BY DEF boot
<1>2. admin' = [b \in ScriptAdmins |->
                  IF b = a THEN mine
                  ELSE IF b \in OnScript(id) THEN [admin[b] EXCEPT !.alone = FALSE] ELSE admin[b]]
  BY DEF Take
<1>3. settled' = settled \ {id} /\ asked' = asked
  BY DEF Take
<1>4. (alone /\ OnScript(id) = {}) \in BOOLEAN
  OBVIOUS
<1>5. mine \in AdminType /\ mine.at = label /\ mine.id = id /\ mine.row = row
      /\ (mine.alone => alone /\ OnScript(id) = {})
  BY <1>4 DEF AdminType
<1> HIDE DEF mine
<1>6. \A b \in ScriptAdmins : admin[b] \in AdminType
  BY <1>0 DEF AdminTypes
<1>7. \A b \in ScriptAdmins : LET less == [admin[b] EXCEPT !.alone = FALSE] IN
        /\ less \in AdminType /\ less.at = admin[b].at /\ less.id = admin[b].id
        /\ less.row = admin[b].row /\ less.alone = FALSE
  BY <1>6 DEF AdminType
<1>8. admin'[a] = mine
  BY <1>2
<1>9. \A b \in ScriptAdmins \ {a} :
        /\ admin'[b] \in AdminType /\ admin'[b].at = admin[b].at /\ admin'[b].id = admin[b].id
        /\ admin'[b].row = admin[b].row
        /\ b \in OnScript(id) => admin'[b].alone = FALSE
        /\ b \notin OnScript(id) => admin'[b].alone = admin[b].alone
  BY <1>2, <1>6, <1>7
<1>10. admin' \in [ScriptAdmins -> AdminType]
  <2>1. \A b \in ScriptAdmins : admin'[b] \in AdminType
    BY <1>5, <1>8, <1>9
  <2> QED
    BY <1>2, <2>1
<1>11. AdminTypes'
  BY <1>0, <1>1, <1>3, <1>10 DEF AdminTypes
<1>12. BootInv'
  BY <1>0, <1>1 DEF BootInv
<1>13. \A i \in Ids \ {id} : OnScript(i)' = OnScript(i)
  BY <1>0, <1>5, <1>8, <1>9 DEF OnScript, AdminAt
<1>14. SettledInv'
  BY <1>1, <1>3, <1>13 DEF Governance, SettledInv, AdminTypes
<1>15. ASSUME NEW b \in ScriptAdmins \ {a} PROVE AdminInv(b)'
  <2> SUFFICES ASSUME ~AdminAt(b, "idle") PROVE AdminInv(b)'
    BY <1>9 DEF AdminInv, AdminAt
  <2>1. AdminInv(b)
    BY DEF Governance
  <2>2. PICK j : j = admin[b].id
    OBVIOUS
  <2>3. ASSUME admin'[b].alone
        PROVE  /\ OnScript(j)' = {b}
               /\ scriptRows'[j] = scriptRows[j] /\ scripts'[j] = scripts[j]
    <3>1. b \notin OnScript(id) /\ admin[b].alone
      BY <1>9, <2>3
    <3>2. j # id /\ j \in Ids
      BY <2>1, <2>2, <3>1 DEF OnScript, AdminAt, AdminInv
    <3>3. OnScript(j) = {b}
      BY <2>1, <2>2, <3>1 DEF AdminInv
    <3>4. OnScript(j)' = {b}
      BY <1>13, <3>2, <3>3
    <3>5. scriptRows'[j] = scriptRows[j] /\ scripts'[j] = scripts[j]
      BY <3>2
    <3> QED
      BY <3>4, <3>5
  <2>4. admin'[b].alone => admin[b].alone
    BY <1>9
  <2> QED
    BY <1>1, <1>9, <2>1, <2>2, <2>3, <2>4, AdminStays
<1>16. AdminInv(a)'
  <2>1. ASSUME mine.alone PROVE OnScript(id)' = {a}
    <3>1. \A b \in ScriptAdmins \ {a} : ~(admin[b].at # "idle" /\ admin[b].id = id)
      BY <1>5, <2>1 DEF OnScript
    <3>2. \A b \in ScriptAdmins \ {a} : ~(admin'[b].at # "idle" /\ admin'[b].id = id)
      BY <1>9, <3>1
    <3>3. admin'[a].at # "idle" /\ admin'[a].id = id
      BY <1>5, <1>8
    <3> QED
      BY <3>2, <3>3 DEF OnScript
  <2>2. admin'[a].id = id /\ admin'[a].row = row /\ admin'[a].at = label /\ admin'[a].alone = mine.alone
    BY <1>5, <1>8
  <2> QED
    BY <1>0, <1>1, <1>5, <2>1, <2>2 DEF AdminInv, AdminAt
<1> QED
  BY <1>11, <1>12, <1>14, <1>15, <1>16 DEF Governance

\* A request on a script is answered, or refused.
LEMMA EndKeeps ==
  ASSUME Governance, NEW a \in ScriptAdmins, ~AdminAt(a, "idle"),
         NEW id, id = admin[a].id, NEW row, row = admin[a].row,
         Answered(a) \/ Refused(a),
         scriptRows' \in [Ids -> Rows], RuntimeTypes',
         \A i \in Ids \ {id} : scriptRows'[i] = scriptRows[i] /\ scripts'[i] = scripts[i],
         UNCHANGED boot,
         Refused(a) \/ (admin[a].alone => scriptRows'[id] = row /\ scripts'[id] = Loads(row))
  PROVE Governance'
<1>0. AdminTypes /\ server = "up" /\ toLoad = {} /\ id \in Ids /\ row \in Rows
  <2>1. AdminTypes /\ AdminInv(a) /\ BootInv
    BY DEF Governance
  <2>2. admin[a] \in AdminType
    BY <2>1 DEF AdminTypes
  <2>3. row \in Rows
    BY <2>2 DEF AdminType
  <2> QED
    BY <2>1, <2>3 DEF AdminInv, BootInv
<1>1. server' = server /\ toLoad' = toLoad
  BY DEF boot
<1>2. admin' = [admin EXCEPT ![a] = Free]
  BY DEF Answered, Refused
<1>3. Free \in AdminType /\ Free.at = "idle"
  BY RowFacts DEF Free, AdminType
<1>4. admin'[a] = Free /\ \A b \in ScriptAdmins \ {a} : admin'[b] = admin[b]
  BY <1>0, <1>2 DEF AdminTypes
<1>5. admin' \in [ScriptAdmins -> AdminType]
  BY <1>0, <1>2, <1>3 DEF AdminTypes
<1>6. \/ settled' = settled /\ asked' = asked
      \/ /\ settled' = settled \cup {id} /\ asked' = [asked EXCEPT ![id] = row]
         /\ admin[a].alone /\ scriptRows'[id] = row /\ scripts'[id] = Loads(row)
  BY DEF Answered, Refused, promise
<1>7. AdminTypes'
  BY <1>0, <1>1, <1>5, <1>6 DEF AdminTypes
<1>8. BootInv'
  BY <1>0, <1>1 DEF BootInv
<1>9. \A i : OnScript(i)' = OnScript(i) \ {a}
  BY <1>3, <1>4 DEF OnScript
<1>10. \A i \in settled : i # id
  BY DEF Governance, SettledInv, OnScript, AdminAt
<1>11. SettledInv'
  <2>1. \A i \in settled : /\ OnScript(i)' = {} /\ scriptRows'[i] = asked[i]
                           /\ scripts'[i] = Loads(asked[i])
    BY <1>0, <1>9, <1>10 DEF Governance, SettledInv, AdminTypes
  <2>2. CASE settled' = settled /\ asked' = asked
    BY <2>1, <2>2 DEF SettledInv
  <2>3. CASE /\ settled' = settled \cup {id} /\ asked' = [asked EXCEPT ![id] = row]
             /\ admin[a].alone /\ scriptRows'[id] = row /\ scripts'[id] = Loads(row)
    <3>1. OnScript(id) = {a}
      BY <2>3 DEF Governance, AdminInv
    <3>2. asked'[id] = row /\ \A i \in settled : asked'[i] = asked[i]
      BY <1>0, <1>10, <2>3 DEF AdminTypes
    <3> QED
      BY <1>9, <2>1, <2>3, <3>1, <3>2 DEF SettledInv
  <2> QED
    BY <1>6, <2>2, <2>3
<1>12. ASSUME NEW b \in ScriptAdmins \ {a} PROVE AdminInv(b)'
  <2> SUFFICES ASSUME ~AdminAt(b, "idle") PROVE AdminInv(b)'
    BY <1>4 DEF AdminInv, AdminAt
  <2>1. AdminInv(b)
    BY DEF Governance
  <2>2. PICK j : j = admin[b].id
    OBVIOUS
  <2>3. ASSUME admin[b].alone
        PROVE  /\ OnScript(j)' = {b}
               /\ scriptRows'[j] = scriptRows[j] /\ scripts'[j] = scripts[j]
    <3>1. j # id /\ j \in Ids
      BY <2>1, <2>2, <2>3, AloneOnScript DEF AdminInv
    <3>2. OnScript(j) = {b}
      BY <2>1, <2>2, <2>3 DEF AdminInv
    <3>3. OnScript(j)' = {b}
      BY <1>9, <3>2
    <3> QED
      BY <3>1, <3>3
  <2> QED
    BY <1>1, <1>4, <2>1, <2>2, <2>3, AdminStays
<1>13. AdminInv(a)'
  BY <1>3, <1>4 DEF AdminInv, AdminAt
<1> QED
  BY <1>7, <1>8, <1>11, <1>12, <1>13 DEF Governance

\* The manager does not change.
LEMMA RegistryStays ==
  ASSUME Registry, UNCHANGED runtime
  PROVE Registry'
BY DEF Registry, RuntimeTypes, RouteLive, ListInv, InOrder, runtime

\* Nothing changes that a request could see.
LEMMA CallingStays ==
  ASSUME Calling, UNCHANGED <<scripts, caller, server, watch>>
  PROVE Calling'
<1> USE DEF watch
<1>1. CallerTypes'
  BY DEF Calling, CallerTypes
<1>2. \A c \in Callers : CallerInv(c)'
  BY DEF Calling, CallerInv, CallerAt
<1> QED
  BY <1>1, <1>2 DEF Calling

\* A change in the manager: what was registered all along gets less, what was loaded
\* at some time gets more.
LEMMA WatchKeeps ==
  ASSUME Calling, Watch, RuntimeTypes', UNCHANGED <<caller, server>>
  PROVE Calling'
<1> DEFINE now == Instances(scripts')
<1>1. now \subseteq Loaded
  BY InstancesAre DEF RuntimeTypes
<1>2. \A c \in Callers : /\ steady'[c] = steady[c] \cap now
                         /\ seen'[c] = IF CallerAt(c, "idle") THEN {} ELSE seen[c] \cup now
  BY DEF Watch, CallerAt
<1>3. CallerTypes'
  <2>1. \A c \in Callers : steady'[c] \in SUBSET Loaded /\ seen'[c] \in SUBSET Loaded
    BY <1>1, <1>2 DEF Calling, CallerTypes
  <2>2. steady' \in [Callers -> SUBSET Loaded] /\ seen' \in [Callers -> SUBSET Loaded]
    BY <2>1 DEF Watch
  <2> QED
    BY <2>2 DEF Calling, CallerTypes
<1> HIDE DEF now
<1>4. ASSUME NEW c \in Callers PROVE CallerInv(c)'
  <2>1. CallerInv(c)
    BY DEF Calling
  <2>2. CASE CallerAt(c, "idle")
    <3>1. caller'[c].ran = <<>> /\ caller'[c].todo = <<>> /\ caller'[c].at = "idle"
      BY <2>1, <2>2 DEF CallerInv, CallerAt
    <3>2. ToSet(caller'[c].ran) = {} /\ ToSet(caller'[c].todo) = {} /\ DOMAIN caller'[c].ran = {}
      BY <3>1 DEF ToSet
    <3> QED
      BY <3>1, <3>2 DEF CallerInv, CallerAt
  <2>3. CASE ~CallerAt(c, "idle")
    <3>1. seen'[c] = seen[c] \cup Instances(scripts') /\ steady'[c] \subseteq steady[c]
      BY <1>2, <2>3 DEF now
    <3> QED
      BY <2>1, <2>3, <3>1 DEF CallerInv, CallerAt
  <2> QED
    BY <2>2, <2>3
<1> QED
  BY <1>3, <1>4 DEF Calling

\* ScriptSave.
LEMMA SaveKeeps ==
  ASSUME ScriptInvar, NEW a \in ScriptAdmins, Save(a)
  PROVE ScriptInvar'
<1> USE DEF ScriptInvar
<1>0. AdminTypes /\ RuntimeTypes
  BY DEF Governance
<1> DEFINE id == lastId + 1
<1>1. id \in Ids /\ lastId' = id /\ lastId' \in 0..MaxScripts
  BY ScriptAssumption DEF Save, Ids
<1>2. PICK d \in Definitions, e \in BOOLEAN :
        /\ scriptRows' = [scriptRows EXCEPT ![id] = Row(d, e)]
        /\ Take(a, "apply", id, Row(d, e), TRUE)
  BY DEF Save
<1>3. UNCHANGED <<runtime, boot, caller, watch>>
  BY DEF Save
<1>4. Row(d, e) \in Rows /\ Row(d, e) # NoScript
  BY RowFacts
<1> HIDE DEF id
<1>5. /\ scriptRows' \in [Ids -> Rows] /\ scriptRows'[id] = Row(d, e)
      /\ \A i \in Ids \ {id} : scriptRows'[i] = scriptRows[i]
  BY <1>0, <1>1, <1>2, <1>4 DEF AdminTypes
<1>6. RuntimeTypes' /\ scripts' = scripts
  BY <1>0, <1>3 DEF RuntimeTypes, runtime
<1>7. Governance'
  BY <1>1, <1>2, <1>3, <1>4, <1>5, <1>6, TakeKeeps
<1>8. Calling'
  BY <1>3, <1>6, CallingStays DEF boot
<1> QED
  BY <1>1, <1>3, <1>7, <1>8, RegistryStays

\* ScriptUpdate.
LEMMA UpdateKeeps ==
  ASSUME ScriptInvar, NEW a \in ScriptAdmins, Update(a)
  PROVE ScriptInvar'
<1> USE DEF ScriptInvar
<1>0. AdminTypes /\ RuntimeTypes
  BY DEF Governance
<1>1. PICK id \in Ids, d \in Definitions, e \in BOOLEAN :
        /\ scriptRows' = Updated(id, Row(d, e))
        /\ Take(a, "apply", id, Row(d, e), scriptRows[id] # NoScript)
  BY DEF Update
<1>2. UNCHANGED <<lastId, runtime, boot, caller, watch>>
  BY DEF Update
<1>3. Row(d, e) \in Rows /\ Row(d, e) # NoScript
  BY RowFacts
<1>4. /\ scriptRows' \in [Ids -> Rows] /\ (scriptRows[id] # NoScript => scriptRows'[id] = Row(d, e))
      /\ \A i \in Ids \ {id} : scriptRows'[i] = scriptRows[i]
  BY <1>0, <1>1, <1>3 DEF AdminTypes, Updated
<1>5. RuntimeTypes' /\ scripts' = scripts
  BY <1>0, <1>2 DEF RuntimeTypes, runtime
<1>6. Governance'
  <2>1. PICK alone \in BOOLEAN : alone = (scriptRows[id] # NoScript)
    OBVIOUS
  <2>2. Take(a, "apply", id, Row(d, e), alone)
    BY <1>1, <2>1
  <2>3. alone => scriptRows'[id] = Row(d, e)
    BY <1>4, <2>1
  <2> QED
    BY <1>2, <1>3, <1>4, <1>5, <2>2, <2>3, TakeKeeps
<1>7. Calling'
  BY <1>2, <1>5, CallingStays DEF boot
<1> QED
  BY <1>2, <1>6, <1>7, RegistryStays

\* ScriptToggle: the read.
LEMMA ToggleKeeps ==
  ASSUME ScriptInvar, NEW a \in ScriptAdmins, Toggle(a)
  PROVE ScriptInvar'
<1> USE DEF ScriptInvar
<1>0. AdminTypes /\ RuntimeTypes
  BY DEF Governance
<1>1. PICK id \in Ids :
        /\ scriptRows[id] # NoScript
        /\ Take(a, "flip", id, Row(scriptRows[id].def, ~scriptRows[id].enabled), TRUE)
  BY DEF Toggle
<1>2. UNCHANGED <<scriptRows, lastId, runtime, boot, caller, watch>>
  BY DEF Toggle
<1>3. scriptRows[id].def \in Definitions
  BY <1>0, <1>1, RowFacts DEF AdminTypes
<1>flag. PICK e \in BOOLEAN : e = ~scriptRows[id].enabled
  OBVIOUS
<1>4. PICK row \in Rows : row = Row(scriptRows[id].def, e) /\ row # NoScript /\ row.def = scriptRows[id].def
  BY <1>3, RowFacts
<1>5. RuntimeTypes' /\ scripts' = scripts /\ scriptRows' = scriptRows /\ scriptRows' \in [Ids -> Rows]
  BY <1>0, <1>2 DEF RuntimeTypes, runtime, AdminTypes
<1>6. Governance'
  <2>1. Take(a, "flip", id, row, TRUE)
    BY <1>1, <1>flag, <1>4
  <2>2. scriptRows'[id] # NoScript /\ scriptRows'[id].def = row.def
    BY <1>1, <1>4, <1>5
  <2> QED
    BY <1>2, <1>4, <1>5, <2>1, <2>2, TakeKeeps
<1>7. Calling'
  BY <1>2, <1>5, CallingStays DEF boot
<1> QED
  BY <1>2, <1>6, <1>7, RegistryStays

\* A row with its flag set.
LEMMA SetEnabledIs ==
  ASSUME AdminTypes, NEW id \in Ids, NEW e \in BOOLEAN
  PROVE LET rows == SetEnabled(id, e) IN
        /\ rows \in [Ids -> Rows] /\ \A i \in Ids \ {id} : rows[i] = scriptRows[i]
        /\ scriptRows[id] = NoScript => rows[id] = NoScript
        /\ scriptRows[id] # NoScript =>
             rows[id] # NoScript /\ rows[id] = Row(scriptRows[id].def, e)
<1>1. CASE scriptRows[id] = NoScript
  BY <1>1 DEF SetEnabled, AdminTypes
<1>2. CASE scriptRows[id] # NoScript
  <2>1. Row(scriptRows[id].def, e) \in Rows /\ Row(scriptRows[id].def, e) # NoScript
    BY <1>2, RowFacts DEF AdminTypes
  <2> QED
    BY <1>2, <2>1 DEF SetEnabled, AdminTypes
<1> QED
  BY <1>1, <1>2

\* ScriptDisable: the row.
LEMMA DisableKeeps ==
  ASSUME ScriptInvar, NEW a \in ScriptAdmins, Disable(a)
  PROVE ScriptInvar'
<1> USE DEF ScriptInvar
<1>0. AdminTypes /\ RuntimeTypes
  BY DEF Governance
<1>1. PICK id \in Ids : /\ scriptRows' = SetEnabled(id, FALSE)
                        /\ Take(a, "remove", id, SetEnabled(id, FALSE)[id], TRUE)
  BY DEF Disable
<1>2. UNCHANGED <<lastId, runtime, boot, caller, watch>>
  BY DEF Disable
<1>3. /\ scriptRows' \in [Ids -> Rows] /\ \A i \in Ids \ {id} : scriptRows'[i] = scriptRows[i]
      /\ scriptRows[id] # NoScript => scriptRows'[id] = Row(scriptRows[id].def, FALSE)
      /\ scriptRows[id] = NoScript => scriptRows'[id] = NoScript
  BY <1>0, <1>1, SetEnabledIs
<1>4. PICK row \in Rows : row = scriptRows'[id]
  BY <1>3
<1>5. Loads(row) = NoScript
  <2>1. scriptRows[id] # NoScript => Row(scriptRows[id].def, FALSE).enabled = FALSE
    BY <1>0, RowFacts DEF AdminTypes
  <2> QED
    BY <1>3, <1>4, <2>1 DEF Loads
<1>6. RuntimeTypes' /\ scripts' = scripts
  BY <1>0, <1>2 DEF RuntimeTypes, runtime
<1>7. Governance'
  <2>1. Take(a, "remove", id, row, TRUE)
    BY <1>1, <1>4
  <2> QED
    BY <1>2, <1>3, <1>4, <1>5, <1>6, <2>1, TakeKeeps
<1>8. Calling'
  BY <1>2, <1>6, CallingStays DEF boot
<1> QED
  BY <1>2, <1>7, <1>8, RegistryStays

\* ScriptDelete: the runtime.
LEMMA DeleteKeeps ==
  ASSUME ScriptInvar, NEW a \in ScriptAdmins, Delete(a)
  PROVE ScriptInvar'
<1> USE DEF ScriptInvar
<1>0. AdminTypes /\ RuntimeTypes
  BY DEF Governance
<1>1. PICK id \in Ids : RemoveScript(id) /\ Take(a, "delete row", id, NoScript, TRUE)
  BY DEF Delete
<1>2. UNCHANGED <<scriptRows, lastId, boot, caller>> /\ Watch
  BY DEF Delete
<1>3. Registry' /\ scripts' = [scripts EXCEPT ![id] = NoScript]
  BY <1>1, RemoveScriptKeeps
<1>4. RuntimeTypes'
  BY <1>3 DEF Registry
<1>5. /\ scripts'[id] = NoScript /\ \A i \in Ids \ {id} : scripts'[i] = scripts[i]
      /\ scriptRows' \in [Ids -> Rows] /\ scriptRows' = scriptRows
  BY <1>0, <1>2, <1>3 DEF RuntimeTypes, AdminTypes
<1>6. NoScript \in Rows
  BY RowFacts
<1>7. Governance'
  BY <1>1, <1>2, <1>4, <1>5, <1>6, TakeKeeps
<1>8. Calling'
  BY <1>2, <1>4, WatchKeeps DEF boot
<1> QED
  BY <1>2, <1>3, <1>7, <1>8

\* What is known of a request that is under way.
LEMMA AdminFacts ==
  ASSUME Governance, NEW a \in ScriptAdmins, ~AdminAt(a, "idle")
  PROVE /\ admin[a].id \in Ids /\ admin[a].row \in Rows /\ server = "up" /\ toLoad = {}
        /\ admin[a].at \in {"apply", "flip"} => admin[a].row # NoScript
        /\ admin[a].alone =>
             /\ OnScript(admin[a].id) = {a}
             /\ admin[a].at \in {"apply", "remove"} => scriptRows[admin[a].id] = admin[a].row
             /\ admin[a].at = "flip" => /\ scriptRows[admin[a].id] # NoScript
                                        /\ scriptRows[admin[a].id].def = admin[a].row.def
             /\ admin[a].at = "remove" => Loads(admin[a].row) = NoScript
             /\ admin[a].at = "delete row" => admin[a].row = NoScript /\ scripts[admin[a].id] = NoScript
<1>1. AdminInv(a) /\ AdminTypes /\ BootInv
  BY DEF Governance
<1>2. admin[a] \in AdminType
  BY <1>1 DEF AdminTypes
<1>3. admin[a].row \in Rows
  BY <1>2 DEF AdminType
<1>4. admin[a].id \in Ids /\ server = "up" /\ (admin[a].at \in {"apply", "flip"} => admin[a].row # NoScript)
  BY <1>1 DEF AdminInv
<1>5. toLoad = {}
  BY <1>1, <1>4 DEF BootInv
<1> QED
  BY <1>1, <1>3, <1>4, <1>5 DEF AdminInv, AdminAt

\* applyScriptRuntime.
LEMMA ApplyKeeps ==
  ASSUME ScriptInvar, NEW a \in ScriptAdmins, Apply(a)
  PROVE ScriptInvar'
<1> USE DEF ScriptInvar
<1>0. AdminTypes /\ RuntimeTypes
  BY DEF Governance
<1>1. PICK id, row : id = admin[a].id /\ row = admin[a].row
  OBVIOUS
<1>2. AdminAt(a, "apply") /\ ~AdminAt(a, "idle")
  BY DEF Apply, AdminAt
<1>3. /\ id \in Ids /\ row \in Rows /\ row # NoScript
      /\ admin[a].alone => scriptRows[id] = row
  BY <1>1, <1>2, AdminFacts DEF AdminAt
<1>4. row.def \in Definitions /\ row.enabled \in BOOLEAN /\ row.def # NoScript
  BY <1>3, RowFacts, ScriptConstants
<1>5. \/ /\ row.enabled /\ LoadScript(id, row.def)
         /\ IF Compiles[row.def] THEN Answered(a) ELSE Refused(a)
      \/ ~row.enabled /\ RemoveScript(id) /\ Answered(a)
  BY <1>1 DEF Apply
<1>6. UNCHANGED <<scriptRows, lastId, boot, caller>> /\ Watch
  BY DEF Apply
<1>7. PICK d \in Definitions \cup {NoScript} :
        /\ Registry' /\ scripts' = [scripts EXCEPT ![id] = d]
        /\ Answered(a) \/ Refused(a)
        /\ Refused(a) \/ d = Loads(row)
  <2>1. CASE row.enabled /\ LoadScript(id, row.def) /\ Compiles[row.def] /\ Answered(a)
    <3>1. Registry' /\ scripts' = [scripts EXCEPT ![id] = row.def]
      BY <1>3, <1>4, <2>1, LoadScriptKeeps
    <3>2. row.def = Loads(row)
      BY <1>3, <2>1 DEF Loads
    <3> QED
      BY <1>4, <2>1, <3>1, <3>2
  <2>2. CASE row.enabled /\ LoadScript(id, row.def) /\ ~Compiles[row.def] /\ Refused(a)
    <3>1. Registry' /\ scripts' = [scripts EXCEPT ![id] = NoScript]
      BY <1>3, <1>4, <2>2, LoadScriptKeeps
    <3> QED
      BY <2>2, <3>1
  <2>3. CASE ~row.enabled /\ RemoveScript(id) /\ Answered(a)
    <3>1. Registry' /\ scripts' = [scripts EXCEPT ![id] = NoScript]
      BY <1>3, <2>3, RemoveScriptKeeps
    <3>2. NoScript = Loads(row)
      BY <2>3 DEF Loads
    <3> QED
      BY <2>3, <3>1, <3>2
  <2> QED
    BY <1>5, <2>1, <2>2, <2>3
<1>8. RuntimeTypes'
  BY <1>7 DEF Registry
<1>9. scripts'[id] = d /\ \A i \in Ids \ {id} : scripts'[i] = scripts[i]
  BY <1>0, <1>3, <1>7 DEF RuntimeTypes
<1>10. scriptRows' = scriptRows /\ scriptRows' \in [Ids -> Rows]
  BY <1>0, <1>6 DEF AdminTypes
<1>11. Governance'
  BY <1>1, <1>2, <1>3, <1>6, <1>7, <1>8, <1>9, <1>10, EndKeeps
<1>12. Calling'
  BY <1>6, <1>8, WatchKeeps DEF boot
<1> QED
  BY <1>6, <1>7, <1>11, <1>12

\* ScriptDisable: the runtime.
LEMMA DisableScriptKeeps ==
  ASSUME ScriptInvar, NEW a \in ScriptAdmins, DisableScript(a)
  PROVE ScriptInvar'
<1> USE DEF ScriptInvar
<1>0. AdminTypes /\ RuntimeTypes
  BY DEF Governance
<1>1. PICK id, row : id = admin[a].id /\ row = admin[a].row
  OBVIOUS
<1>2. AdminAt(a, "remove") /\ ~AdminAt(a, "idle")
  BY DEF DisableScript, AdminAt
<1>3. id \in Ids /\ (admin[a].alone => scriptRows[id] = row /\ Loads(row) = NoScript)
  BY <1>1, <1>2, AdminFacts DEF AdminAt
<1>4. RemoveScript(id) /\ Answered(a) /\ Watch /\ UNCHANGED <<scriptRows, lastId, boot, caller>>
  BY <1>1 DEF DisableScript
<1>5. Registry' /\ scripts' = [scripts EXCEPT ![id] = NoScript]
  BY <1>3, <1>4, RemoveScriptKeeps
<1>6. RuntimeTypes'
  BY <1>5 DEF Registry
<1>7. scripts'[id] = NoScript /\ \A i \in Ids \ {id} : scripts'[i] = scripts[i]
  BY <1>0, <1>3, <1>5 DEF RuntimeTypes
<1>8. scriptRows' = scriptRows /\ scriptRows' \in [Ids -> Rows]
  BY <1>0, <1>4 DEF AdminTypes
<1>9. Governance'
  BY <1>1, <1>2, <1>3, <1>4, <1>6, <1>7, <1>8, EndKeeps
<1>10. Calling'
  BY <1>4, <1>6, WatchKeeps DEF boot
<1> QED
  BY <1>4, <1>5, <1>9, <1>10

\* ScriptDelete: the row.
LEMMA DeleteRowKeeps ==
  ASSUME ScriptInvar, NEW a \in ScriptAdmins, DeleteRow(a)
  PROVE ScriptInvar'
<1> USE DEF ScriptInvar
<1>0. AdminTypes /\ RuntimeTypes
  BY DEF Governance
<1>1. PICK id, row : id = admin[a].id /\ row = admin[a].row
  OBVIOUS
<1>2. AdminAt(a, "delete row") /\ ~AdminAt(a, "idle")
  BY DEF DeleteRow, AdminAt
<1>3. id \in Ids /\ (admin[a].alone => row = NoScript /\ scripts[id] = NoScript)
  BY <1>1, <1>2, AdminFacts DEF AdminAt
<1>4. /\ scriptRows' = [scriptRows EXCEPT ![id] = NoScript] /\ Answered(a)
      /\ UNCHANGED <<lastId, runtime, boot, caller, watch>>
  BY <1>1 DEF DeleteRow
<1>5. /\ scriptRows' \in [Ids -> Rows] /\ scriptRows'[id] = NoScript
      /\ \A i \in Ids \ {id} : scriptRows'[i] = scriptRows[i]
  BY <1>0, <1>3, <1>4, RowFacts DEF AdminTypes
<1>6. Registry' /\ scripts' = scripts
  BY <1>4, RegistryStays DEF runtime
<1>7. RuntimeTypes'
  BY <1>6 DEF Registry
<1>8. Loads(NoScript) = NoScript
  BY DEF Loads
<1>9. Governance'
  <2>1. Answered(a) /\ UNCHANGED boot
    BY <1>4
  <2>2. admin[a].alone => scriptRows'[id] = row /\ scripts'[id] = Loads(row)
    BY <1>3, <1>5, <1>6, <1>8
  <2>3. \A i \in Ids \ {id} : scriptRows'[i] = scriptRows[i] /\ scripts'[i] = scripts[i]
    BY <1>5, <1>6
  <2>4. scriptRows' \in [Ids -> Rows]
    BY <1>5
  <2> QED
    BY <1>1, <1>2, <1>7, <2>1, <2>2, <2>3, <2>4, EndKeeps
<1>10. Calling'
  BY <1>4, <1>6, CallingStays DEF boot
<1> QED
  BY <1>4, <1>6, <1>9, <1>10

\* A statement fails.
LEMMA StatementFailsKeeps ==
  ASSUME ScriptInvar, NEW a \in ScriptAdmins, StatementFails(a)
  PROVE ScriptInvar'
<1> USE DEF ScriptInvar
<1>0. AdminTypes /\ RuntimeTypes
  BY DEF Governance
<1>1. PICK id, row : id = admin[a].id /\ row = admin[a].row
  OBVIOUS
<1>2. ~AdminAt(a, "idle") /\ Refused(a) /\ UNCHANGED <<scriptRows, lastId, runtime, boot, caller, watch>>
  BY DEF StatementFails, AdminAt
<1>3. Registry' /\ scripts' = scripts /\ scriptRows' = scriptRows /\ scriptRows' \in [Ids -> Rows]
  BY <1>0, <1>2, RegistryStays DEF runtime, AdminTypes
<1>4. RuntimeTypes'
  BY <1>3 DEF Registry
<1>5. Governance'
  BY <1>1, <1>2, <1>3, <1>4, EndKeeps
<1>6. Calling'
  BY <1>2, <1>3, CallingStays DEF boot
<1> QED
  BY <1>2, <1>3, <1>5, <1>6

\* ScriptToggle: the write.
LEMMA FlipKeeps ==
  ASSUME ScriptInvar, NEW a \in ScriptAdmins, Flip(a)
  PROVE ScriptInvar'
<1> USE DEF ScriptInvar
<1>0. AdminTypes /\ RuntimeTypes
  BY DEF Governance
<1>1. PICK id, row : id = admin[a].id /\ row = admin[a].row
  OBVIOUS
<1>2. AdminAt(a, "flip") /\ ~AdminAt(a, "idle")
  BY DEF Flip, AdminAt
<1>3. /\ id \in Ids /\ row \in Rows /\ row # NoScript /\ server = "up" /\ toLoad = {}
      /\ admin[a].alone => /\ OnScript(id) = {a}
                           /\ scriptRows[id] # NoScript /\ scriptRows[id].def = row.def
  BY <1>1, <1>2, AdminFacts DEF AdminAt
<1>4. row.def \in Definitions /\ row.enabled \in BOOLEAN /\ row = Row(row.def, row.enabled)
  BY <1>3, RowFacts DEF Rows, Row
<1>5. /\ scriptRows' = SetEnabled(id, row.enabled)
      /\ admin' = [admin EXCEPT ![a] = [admin[a] EXCEPT !.at = "apply"]]
      /\ UNCHANGED <<lastId, runtime, boot, caller, promise, watch>>
  BY <1>1 DEF Flip
<1>6. /\ scriptRows' \in [Ids -> Rows] /\ \A i \in Ids \ {id} : scriptRows'[i] = scriptRows[i]
      /\ admin[a].alone => scriptRows'[id] = row
  BY <1>0, <1>3, <1>4, <1>5, SetEnabledIs
<1>7. Registry' /\ scripts' = scripts
  BY <1>5, RegistryStays DEF runtime
<1>8. RuntimeTypes'
  BY <1>7 DEF Registry
<1>9. server' = server /\ toLoad' = toLoad /\ settled' = settled /\ asked' = asked
  BY <1>5 DEF boot, promise
<1>10. admin[a] \in AdminType
  BY <1>0 DEF AdminTypes
<1>11. /\ admin'[a] \in AdminType /\ admin'[a].at = "apply" /\ admin'[a].id = id
       /\ admin'[a].row = row /\ admin'[a].alone = admin[a].alone
  BY <1>0, <1>1, <1>5, <1>10 DEF AdminTypes, AdminType
<1>12. \A b \in ScriptAdmins \ {a} : admin'[b] = admin[b]
  BY <1>0, <1>5 DEF AdminTypes
<1>13. AdminTypes'
  <2>1. admin' \in [ScriptAdmins -> AdminType]
    BY <1>0, <1>5, <1>11 DEF AdminTypes
  <2> QED
    BY <1>0, <1>6, <1>9, <2>1 DEF AdminTypes
<1>14. BootInv'
  BY <1>3, <1>9 DEF BootInv
<1>15. \A i : OnScript(i)' = OnScript(i)
  <2>1. admin[a].at # "idle" /\ admin[a].id = id
    BY <1>1, <1>2 DEF AdminAt
  <2> QED
    BY <1>11, <1>12, <2>1 DEF OnScript
<1>16. \A i \in settled : i # id
  <2>1. a \in OnScript(id)
    BY <1>1, <1>2 DEF OnScript, AdminAt
  <2> QED
    BY <2>1 DEF Governance, SettledInv
<1>17. SettledInv'
  BY <1>0, <1>6, <1>7, <1>9, <1>15, <1>16 DEF Governance, SettledInv, AdminTypes
<1>18. ASSUME NEW b \in ScriptAdmins \ {a} PROVE AdminInv(b)'
  <2> SUFFICES ASSUME ~AdminAt(b, "idle") PROVE AdminInv(b)'
    BY <1>12 DEF AdminInv, AdminAt
  <2>1. AdminInv(b)
    BY DEF Governance
  <2>2. PICK j : j = admin[b].id
    OBVIOUS
  <2>3. ASSUME admin[b].alone
        PROVE  /\ OnScript(j)' = {b}
               /\ scriptRows'[j] = scriptRows[j] /\ scripts'[j] = scripts[j]
    <3>1. j # id /\ j \in Ids
      BY <1>1, <1>2, <2>1, <2>2, <2>3, AloneOnScript DEF AdminInv
    <3>2. OnScript(j) = {b}
      BY <2>1, <2>2, <2>3 DEF AdminInv
    <3>3. OnScript(j)' = {b}
      BY <1>15, <3>2
    <3> QED
      BY <1>6, <1>7, <3>1, <3>3
  <2> QED
    BY <1>9, <1>12, <2>1, <2>2, <2>3, AdminStays
<1>19. AdminInv(a)'
  <2>1. admin'[a].alone => OnScript(id)' = {a} /\ scriptRows'[id] = row
    BY <1>3, <1>6, <1>11, <1>15
  <2> QED
    BY <1>3, <1>9, <1>11, <2>1 DEF AdminInv, AdminAt
<1>20. Governance'
  BY <1>8, <1>13, <1>14, <1>17, <1>18, <1>19 DEF Governance
<1>21. Calling'
  BY <1>5, <1>7, CallingStays DEF boot
<1> QED
  BY <1>5, <1>7, <1>20, <1>21

\* DropCollection.
LEMMA DropScriptsKeeps ==
  ASSUME ScriptInvar, DropScripts
  PROVE ScriptInvar'
<1> USE DEF ScriptInvar
<1>0. AdminTypes /\ RuntimeTypes
  BY DEF Governance
<1> DEFINE gone == {id \in Ids : scriptRows[id] # NoScript /\ scriptRows[id].def \in Owned}
<1>1. /\ server = "up"
      /\ scriptRows' = [id \in Ids |-> IF id \in gone THEN NoScript ELSE scriptRows[id]]
      /\ settled' = settled \ gone
      /\ admin' = [a \in ScriptAdmins |->
           IF admin[a].id \in gone THEN [admin[a] EXCEPT !.alone = FALSE] ELSE admin[a]]
      /\ UNCHANGED <<lastId, runtime, boot, caller, asked, watch>>
  BY DEF DropScripts
<1> HIDE DEF gone
<1>2. scriptRows' \in [Ids -> Rows] /\ \A i \in Ids \ gone : scriptRows'[i] = scriptRows[i]
  BY <1>0, <1>1, RowFacts DEF AdminTypes
<1>3. Registry' /\ scripts' = scripts
  BY <1>1, RegistryStays DEF runtime
<1>4. RuntimeTypes'
  BY <1>3 DEF Registry
<1>5. server' = server /\ toLoad' = toLoad
  BY <1>1 DEF boot
<1>6. \A a \in ScriptAdmins :
        /\ admin'[a] \in AdminType /\ admin'[a].at = admin[a].at /\ admin'[a].id = admin[a].id
        /\ admin'[a].row = admin[a].row
        /\ admin'[a].alone => admin[a].alone /\ admin[a].id \notin gone
  <2> SUFFICES ASSUME NEW a \in ScriptAdmins
      PROVE /\ admin'[a] \in AdminType /\ admin'[a].at = admin[a].at /\ admin'[a].id = admin[a].id
            /\ admin'[a].row = admin[a].row
            /\ admin'[a].alone => admin[a].alone /\ admin[a].id \notin gone
    OBVIOUS
  <2>1. admin[a] \in AdminType
    BY <1>0 DEF AdminTypes
  <2>2. CASE admin[a].id \in gone
    <3>1. admin'[a] = [admin[a] EXCEPT !.alone = FALSE]
      BY <1>1, <2>2
    <3> QED
      BY <2>1, <3>1 DEF AdminType
  <2>3. CASE admin[a].id \notin gone
    <3>1. admin'[a] = admin[a]
      BY <1>1, <2>3
    <3> QED
      BY <2>1, <2>3, <3>1
  <2> QED
    BY <2>2, <2>3
<1>7. AdminTypes'
  <2>1. admin' \in [ScriptAdmins -> AdminType]
    BY <1>1, <1>6
  <2> QED
    BY <1>0, <1>1, <1>2, <1>5, <2>1 DEF AdminTypes
<1>8. BootInv'
  BY <1>1, <1>5 DEF Governance, BootInv
<1>9. \A i : OnScript(i)' = OnScript(i)
  BY <1>6 DEF OnScript
<1>10. SettledInv'
  BY <1>0, <1>1, <1>2, <1>3, <1>5, <1>9 DEF Governance, SettledInv, AdminTypes
<1>11. ASSUME NEW b \in ScriptAdmins PROVE AdminInv(b)'
  <2> SUFFICES ASSUME ~AdminAt(b, "idle") PROVE AdminInv(b)'
    BY <1>6 DEF AdminInv, AdminAt
  <2>1. AdminInv(b)
    BY DEF Governance
  <2>2. PICK j : j = admin[b].id
    OBVIOUS
  <2>3. ASSUME admin'[b].alone
        PROVE  /\ OnScript(j)' = {b}
               /\ scriptRows'[j] = scriptRows[j] /\ scripts'[j] = scripts[j]
    <3>1. admin[b].alone /\ j \notin gone
      BY <1>6, <2>2, <2>3
    <3>2. j \in Ids /\ OnScript(j) = {b}
      BY <2>1, <2>2, <3>1 DEF AdminInv
    <3>3. OnScript(j)' = {b}
      BY <1>9, <3>2
    <3> QED
      BY <1>2, <1>3, <3>1, <3>2, <3>3
  <2>4. admin'[b].alone => admin[b].alone
    BY <1>6
  <2> QED
    BY <1>5, <1>6, <2>1, <2>2, <2>3, <2>4, AdminStays
<1>12. Governance'
  BY <1>4, <1>7, <1>8, <1>10, <1>11 DEF Governance
<1>13. Calling'
  BY <1>1, <1>3, <1>5, CallingStays
<1> QED
  BY <1>1, <1>3, <1>12, <1>13

-----------------------------------------------------------------------------
(***************************************************************************)
(* ScriptRuntime: the requests that run scripts.                           *)
(***************************************************************************)
\* Neither rows nor what is compiled change, and no request that administers steps.
LEMMA GovernanceStays ==
  ASSUME Governance, RuntimeTypes', UNCHANGED <<scriptRows, scripts, boot, admin, promise>>
  PROVE Governance'
<1> USE DEF boot, promise
<1>1. AdminTypes'
  BY DEF Governance, AdminTypes
<1>2. \A i : OnScript(i)' = OnScript(i)
  BY DEF OnScript
<1>3. SettledInv'
  BY <1>2 DEF Governance, SettledInv
<1>4. BootInv'
  BY DEF Governance, BootInv
<1>5. ASSUME NEW a \in ScriptAdmins PROVE AdminInv(a)'
  <2> SUFFICES ASSUME ~AdminAt(a, "idle") PROVE AdminInv(a)'
    BY DEF AdminInv, AdminAt
  <2>1. PICK j : j = admin[a].id
    OBVIOUS
  <2>2. AdminInv(a)
    BY DEF Governance
  <2>3. admin'[a].alone => OnScript(j)' = {a}
    BY <1>2, <2>1, <2>2 DEF AdminInv
  <2>4. scriptRows'[j] = scriptRows[j] /\ scripts'[j] = scripts[j] /\ server' = server
    OBVIOUS
  <2>5. /\ admin'[a].at = admin[a].at /\ admin'[a].id = admin[a].id /\ admin'[a].row = admin[a].row
        /\ admin'[a].alone => admin[a].alone
    OBVIOUS
  <2> QED
    BY <2>1, <2>2, <2>3, <2>4, <2>5, AdminStays
<1> QED
  BY <1>1, <1>3, <1>4, <1>5 DEF Governance

\* One of the requests takes a step of its own.
LEMMA CallerSteps ==
  ASSUME ScriptInvar, NEW c \in Callers, NEW x \in CallerType,
         caller' = [caller EXCEPT ![c] = x],
         UNCHANGED <<scriptRows, lastId, runtime, boot, admin, promise>>,
         steady' \in [Callers -> SUBSET Loaded], seen' \in [Callers -> SUBSET Loaded],
         \A b \in Callers \ {c} : steady'[b] = steady[b] /\ seen'[b] = seen[b],
         CallerInv(c)'
  PROVE ScriptInvar'
<1> USE DEF ScriptInvar
<1>1. Registry' /\ scripts' = scripts /\ server' = server
  BY RegistryStays DEF runtime, boot
<1>2. RuntimeTypes'
  BY <1>1 DEF Registry
<1>3. Governance'
  BY <1>1, <1>2, GovernanceStays
<1>4. caller \in [Callers -> CallerType]
  BY DEF Calling, CallerTypes
<1>5. CallerTypes'
  BY <1>4 DEF CallerTypes
<1>6. ASSUME NEW b \in Callers \ {c} PROVE CallerInv(b)'
  <2>1. caller'[b] = caller[b] /\ steady'[b] = steady[b] /\ seen'[b] = seen[b]
    BY <1>4
  <2>2. CallerInv(b)
    BY DEF Calling
  <2> QED
    BY <1>1, <2>1, <2>2 DEF CallerInv, CallerAt
<1>7. Calling'
  BY <1>5, <1>6 DEF Calling
<1> QED
  BY <1>1, <1>3, <1>7

\* What a request that runs scripts has at hand.
LEMMA CallerFacts ==
  ASSUME Calling, NEW c \in Callers
  PROVE /\ caller[c] \in CallerType
        /\ caller[c].todo \in Seq(Loaded) /\ caller[c].ran \in Seq(Loaded)
        /\ caller[c].slot \in Places \cup Routes \cup {NoScript}
        /\ caller \in [Callers -> CallerType]
        /\ steady \in [Callers -> SUBSET Loaded] /\ seen \in [Callers -> SUBSET Loaded]
        /\ steady[c] \subseteq Loaded /\ seen[c] \subseteq Loaded
<1>1. caller[c] \in CallerType /\ CallerTypes
  BY DEF Calling, CallerTypes
<1>2. caller[c].todo \in Seq(Loaded) /\ caller[c].ran \in Seq(Loaded)
      /\ caller[c].slot \in Places \cup Routes \cup {NoScript}
  BY <1>1 DEF CallerType
<1> QED
  BY <1>1, <1>2 DEF CallerTypes

\* getHooks.
LEMMA StartHooksKeeps ==
  ASSUME ScriptInvar, NEW c \in Callers, StartHooks(c)
  PROVE ScriptInvar'
<1> USE DEF ScriptInvar
<1>1. PICK p \in Places :
        /\ caller' = [caller EXCEPT ![c] =
             [at |-> "hooks", slot |-> p, todo |-> hookMap[p], ran |-> <<>>]]
        /\ steady' = [steady EXCEPT ![c] = At(p, Instances(scripts))]
  BY DEF StartHooks
<1>2. /\ server = "up" /\ seen' = [seen EXCEPT ![c] = Instances(scripts)]
      /\ UNCHANGED <<scriptRows, lastId, runtime, boot, admin, promise>>
  BY DEF StartHooks
<1>3. PICK list : list = hookMap[p]
  OBVIOUS
<1>4. /\ list \in Seq(Loaded) /\ IsInjective(list) /\ ToSet(list) = At(p, Instances(scripts))
      /\ scripts \in [Ids -> Definitions \cup {NoScript}]
  BY <1>3 DEF Registry, RuntimeTypes, ListInv
<1>5. PICK x : x = [at |-> "hooks", slot |-> p, todo |-> list, ran |-> <<>>]
  OBVIOUS
<1>6. x \in CallerType
  BY <1>4, <1>5 DEF CallerType
<1>7. Instances(scripts) \subseteq Loaded
  BY <1>4, InstancesAre
<1>8. At(p, Instances(scripts)) \subseteq Instances(scripts)
  BY DEF At
<1>9. /\ steady' \in [Callers -> SUBSET Loaded] /\ seen' \in [Callers -> SUBSET Loaded]
      /\ \A b \in Callers \ {c} : steady'[b] = steady[b] /\ seen'[b] = seen[b]
      /\ steady'[c] = At(p, Instances(scripts)) /\ seen'[c] = Instances(scripts)
  BY <1>1, <1>2, <1>7, <1>8, CallerFacts
<1>10. caller' = [caller EXCEPT ![c] = x]
  BY <1>1, <1>3, <1>5
<1>11. caller'[c] = x
  BY <1>10, CallerFacts
<1>12. caller'[c].at = "hooks" /\ caller'[c].todo = list /\ caller'[c].ran = <<>>
  BY <1>5, <1>11
<1>13. ToSet(caller'[c].ran) = {} /\ DOMAIN caller'[c].ran = {}
  BY <1>12 DEF ToSet
<1>14. \A i, j \in DOMAIN list : list[i].id = list[j].id => i = j
  <2>1. \A i \in DOMAIN list : list[i] \in Instances(scripts)
    BY <1>4, <1>8 DEF ToSet
  <2>2. \A i, j \in DOMAIN list : list[i].id = list[j].id => list[i] = list[j]
    BY <1>4, <2>1, InstancesAre
  <2> QED
    BY <1>4, <2>2 DEF IsInjective
<1>15. server' = "up" /\ scripts' = scripts
  BY <1>2 DEF boot, runtime
<1>16. CallerInv(c)'
  BY <1>4, <1>8, <1>9, <1>12, <1>13, <1>14, <1>15 DEF CallerInv, CallerAt
<1> QED
  BY <1>2, <1>6, <1>9, <1>10, <1>16, CallerSteps

\* A hook has run: its script is in what has run, once, and not in what is left.
LEMMA HookRan ==
  ASSUME ScriptInvar, NEW c \in Callers, CallerAt(c, "hooks"), caller[c].todo # <<>>
  PROVE \E more, less \in Seq(Loaded) :
        /\ more = Append(caller[c].ran, Head(caller[c].todo)) /\ less = Tail(caller[c].todo)
        /\ ToSet(more) \cup ToSet(less) = ToSet(caller[c].ran) \cup ToSet(caller[c].todo)
        /\ \A i, j \in DOMAIN more : more[i].id = more[j].id => i = j
        /\ \A i, j \in DOMAIN less : less[i].id = less[j].id => i = j
        /\ \A i \in DOMAIN more, j \in DOMAIN less : more[i].id # less[j].id
<1>0. PICK more, less : more = Append(caller[c].ran, Head(caller[c].todo)) /\ less = Tail(caller[c].todo)
  OBVIOUS
<1>1. PICK ran, todo : ran = caller[c].ran /\ todo = caller[c].todo
  OBVIOUS
<1>2. ran \in Seq(Loaded) /\ todo \in Seq(Loaded) /\ CallerInv(c)
  BY <1>1, CallerFacts DEF ScriptInvar, Calling
<1>3. /\ \A i, j \in DOMAIN ran : ran[i].id = ran[j].id => i = j
      /\ \A i, j \in DOMAIN todo : todo[i].id = todo[j].id => i = j
      /\ \A i \in DOMAIN ran, j \in DOMAIN todo : ran[i].id # todo[j].id
  BY <1>1, <1>2 DEF CallerInv
<1>4. PICK n : n = Len(ran)
  OBVIOUS
<1>5. /\ more \in Seq(Loaded) /\ DOMAIN more = 1..(n + 1)
      /\ DOMAIN ran = 1..n /\ n \in Nat
      /\ \A i \in 1..n : more[i] = ran[i]
      /\ more[n + 1] = todo[1] /\ 1 \in DOMAIN todo
      /\ less \in Seq(Loaded)
      /\ \A i \in DOMAIN less : less[i] = todo[i + 1] /\ i + 1 \in DOMAIN todo /\ i \in Nat /\ i # 0
      /\ ToSet(more) = ToSet(ran) \cup {todo[1]}
      /\ ToSet(todo) = ToSet(less) \cup {todo[1]}
  <2>10. more = Append(ran, Head(todo)) /\ less = Tail(todo) /\ todo # <<>>
    BY <1>0, <1>1
  <2>11. ran \in Seq(Loaded) /\ todo \in Seq(Loaded) /\ todo # <<>>
    BY <1>2, <2>10
  <2>1. Len(todo) \in Nat \ {0} /\ n \in Nat /\ DOMAIN ran = 1..n /\ DOMAIN todo = 1..Len(todo)
    BY <1>2, <1>4, <2>10
  <2>2. /\ more \in Seq(Loaded) /\ DOMAIN more = 1..(n + 1)
        /\ \A i \in 1..n : more[i] = ran[i]
        /\ more[n + 1] = todo[1]
    BY <1>4, <2>1, <2>10, <2>11
  <2>3. /\ less \in Seq(Loaded) /\ DOMAIN less = 1..(Len(todo) - 1)
        /\ \A i \in 1..(Len(todo) - 1) : less[i] = todo[i + 1]
    BY <2>1, <2>10, <2>11
  <2>4. ToSet(more) = ToSet(ran) \cup {todo[1]}
    <3>1. \A x \in ToSet(more) : x \in ToSet(ran) \cup {todo[1]}
      BY <2>1, <2>2 DEF ToSet
    <3>2. \A x \in ToSet(ran) : x \in ToSet(more)
      BY <2>1, <2>2 DEF ToSet
    <3>3. todo[1] \in ToSet(more)
      BY <2>1, <2>2 DEF ToSet
    <3> QED
      BY <3>1, <3>2, <3>3
  <2>5. ToSet(todo) = ToSet(less) \cup {todo[1]}
    <3>1. \A i \in DOMAIN todo : i # 1 => i - 1 \in DOMAIN less /\ less[i - 1] = todo[i]
      BY <2>1, <2>3
    <3>2. \A i \in DOMAIN less : i + 1 \in DOMAIN todo /\ less[i] = todo[i + 1]
      BY <2>1, <2>3
    <3>3. 1 \in DOMAIN todo
      BY <2>1
    <3>4. ASSUME NEW x \in ToSet(todo) PROVE x \in ToSet(less) \cup {todo[1]}
      <4>1. PICK i \in DOMAIN todo : x = todo[i]
        BY DEF ToSet
      <4>2. i # 1 => \E k \in DOMAIN less : less[k] = x
        BY <3>1, <4>1
      <4> QED
        BY <4>1, <4>2 DEF ToSet
    <3>5. \A x \in ToSet(less) : x \in ToSet(todo)
      BY <3>2 DEF ToSet
    <3>6. todo[1] \in ToSet(todo)
      BY <3>3 DEF ToSet
    <3> QED
      BY <3>4, <3>5, <3>6
  <2>6. \A i \in DOMAIN less : less[i] = todo[i + 1] /\ i + 1 \in DOMAIN todo /\ i \in Nat /\ i # 0
    BY <2>1, <2>3
  <2>7. 1 \in DOMAIN todo
    BY <2>1
  <2> QED
    BY <2>1, <2>2, <2>3, <2>4, <2>5, <2>6, <2>7
<1>6. \A i \in DOMAIN more : i \in DOMAIN ran \/ i = n + 1
  BY <1>5
<1>10. \A i \in DOMAIN ran : more[i] = ran[i] /\ ran[i].id # todo[1].id
  <2>1. \A i \in DOMAIN ran : ran[i].id # todo[1].id
    BY <1>3, <1>5
  <2> QED
    BY <1>5, <2>1
<1>7. \A i, j \in DOMAIN more : more[i].id = more[j].id => i = j
  <2> SUFFICES ASSUME NEW i \in DOMAIN more, NEW j \in DOMAIN more, more[i].id = more[j].id
               PROVE  i = j
    OBVIOUS
  <2>1. more[n + 1] = todo[1]
    BY <1>5
  <2>2. CASE i \in DOMAIN ran /\ j \in DOMAIN ran
    <3>1. ran[i].id = ran[j].id
      BY <1>10, <2>2
    <3> QED
      BY <1>3, <2>2, <3>1
  <2>3. CASE i = n + 1 /\ j \in DOMAIN ran
    BY <1>10, <2>1, <2>3
  <2>4. CASE i \in DOMAIN ran /\ j = n + 1
    BY <1>10, <2>1, <2>4
  <2>5. CASE i = n + 1 /\ j = n + 1
    BY <2>5
  <2> QED
    BY <1>6, <2>2, <2>3, <2>4, <2>5
<1>8. \A i, j \in DOMAIN less : less[i].id = less[j].id => i = j
  <2> SUFFICES ASSUME NEW i \in DOMAIN less, NEW j \in DOMAIN less, less[i].id = less[j].id
               PROVE  i = j
    OBVIOUS
  <2>1. /\ todo[i + 1].id = todo[j + 1].id
        /\ i + 1 \in DOMAIN todo /\ j + 1 \in DOMAIN todo
    BY <1>5
  <2>2. i + 1 = j + 1
    BY <1>3, <2>1
  <2> QED
    BY <1>5, <2>2
<1>9. \A i \in DOMAIN more, j \in DOMAIN less : more[i].id # less[j].id
  <2> SUFFICES ASSUME NEW i \in DOMAIN more, NEW j \in DOMAIN less
               PROVE  more[i].id # less[j].id
    OBVIOUS
  <2>1. less[j] = todo[j + 1] /\ j + 1 \in DOMAIN todo /\ j + 1 # 1
    BY <1>5
  <2>2. CASE i \in DOMAIN ran
    <3>1. more[i] = ran[i]
      BY <1>10, <2>2
    <3>2. ran[i].id # todo[j + 1].id
      BY <1>3, <2>1, <2>2
    <3> QED
      BY <2>1, <3>1, <3>2
  <2>3. CASE i = n + 1
    BY <1>3, <1>5, <2>1, <2>3
  <2> QED
    BY <1>6, <2>2, <2>3
<1>11. /\ more \in Seq(Loaded) /\ less \in Seq(Loaded)
       /\ ToSet(more) \cup ToSet(less) = ToSet(caller[c].ran) \cup ToSet(caller[c].todo)
  BY <1>1, <1>5
<1> QED
  BY <1>0, <1>7, <1>8, <1>9, <1>11, Zenon

\* A request takes a step that is not one of the watchers'.
LEMMA CallerMoves ==
  ASSUME ScriptInvar, NEW c \in Callers, NEW x \in CallerType,
         caller' = [caller EXCEPT ![c] = x],
         UNCHANGED <<scriptRows, lastId, runtime, boot, admin, promise, watch>>,
         CallerInv(c)'
  PROVE ScriptInvar'
<1>1. steady' = steady /\ seen' = seen
  BY DEF watch
<1>2. steady' \in [Callers -> SUBSET Loaded] /\ seen' \in [Callers -> SUBSET Loaded]
  BY <1>1, CallerFacts DEF ScriptInvar
<1> QED
  BY <1>1, <1>2, CallerSteps

\* A hook returns.
LEMMA HookReturnsKeeps ==
  ASSUME ScriptInvar, NEW c \in Callers, HookReturns(c)
  PROVE ScriptInvar'
<1>1. /\ CallerAt(c, "hooks") /\ caller[c].todo # <<>>
      /\ caller' = [caller EXCEPT ![c] = [caller[c] EXCEPT
           !.todo = Tail(caller[c].todo), !.ran = Append(caller[c].ran, Head(caller[c].todo))]]
      /\ UNCHANGED <<scriptRows, lastId, runtime, boot, admin, promise, watch>>
  BY DEF HookReturns, Rest
<1>2. PICK more, less \in Seq(Loaded) :
        /\ more = Append(caller[c].ran, Head(caller[c].todo)) /\ less = Tail(caller[c].todo)
        /\ ToSet(more) \cup ToSet(less) = ToSet(caller[c].ran) \cup ToSet(caller[c].todo)
        /\ \A i, j \in DOMAIN more : more[i].id = more[j].id => i = j
        /\ \A i, j \in DOMAIN less : less[i].id = less[j].id => i = j
        /\ \A i \in DOMAIN more, j \in DOMAIN less : more[i].id # less[j].id
  BY <1>1, HookRan, Zenon
<1>3. /\ ToSet(more) \cup ToSet(less) = ToSet(caller[c].ran) \cup ToSet(caller[c].todo)
      /\ \A i, j \in DOMAIN more : more[i].id = more[j].id => i = j
      /\ \A i, j \in DOMAIN less : less[i].id = less[j].id => i = j
      /\ \A i \in DOMAIN more, j \in DOMAIN less : more[i].id # less[j].id
  BY <1>2, Zenon
<1>4. PICK x : x = [caller[c] EXCEPT !.todo = less, !.ran = more]
  OBVIOUS
<1>5. caller[c] \in CallerType /\ CallerInv(c) /\ caller \in [Callers -> CallerType]
  BY CallerFacts DEF ScriptInvar, Calling
<1>6. x \in CallerType /\ x.at = caller[c].at /\ x.todo = less /\ x.ran = more
  BY <1>3, <1>4, <1>5 DEF CallerType
<1>7. caller' = [caller EXCEPT ![c] = x]
  BY <1>1, <1>2, <1>4
<1>8. caller'[c] = x
  BY <1>5, <1>7
<1>9. scripts' = scripts /\ server' = server /\ steady' = steady /\ seen' = seen
  BY <1>1 DEF runtime, boot, watch
<1>10. /\ server = "up" /\ Instances(scripts) \subseteq seen[c]
       /\ ToSet(more) \cup ToSet(less) \subseteq seen[c]
       /\ steady[c] \subseteq ToSet(more) \cup ToSet(less)
  BY <1>1, <1>3, <1>5 DEF CallerInv, CallerAt
<1>11. caller'[c].at = "hooks" /\ caller'[c].todo = less /\ caller'[c].ran = more
  BY <1>1, <1>6, <1>8 DEF CallerAt
<1>12. CallerInv(c)'
  BY <1>3, <1>9, <1>10, <1>11 DEF CallerInv, CallerAt
<1> QED
  BY <1>1, <1>6, <1>7, <1>12, CallerMoves

\* A hook fails.
LEMMA HookBreaksKeeps ==
  ASSUME ScriptInvar, NEW c \in Callers, HookBreaks(c)
  PROVE ScriptInvar'
<1>1. /\ CallerAt(c, "hooks") /\ caller[c].todo # <<>>
      /\ caller' = [caller EXCEPT ![c] = [caller[c] EXCEPT !.at = "failed",
           !.todo = <<>>, !.ran = Append(caller[c].ran, Head(caller[c].todo))]]
      /\ UNCHANGED <<scriptRows, lastId, runtime, boot, admin, promise, watch>>
  BY DEF HookBreaks
<1>2. PICK more, less \in Seq(Loaded) :
        /\ more = Append(caller[c].ran, Head(caller[c].todo)) /\ less = Tail(caller[c].todo)
        /\ ToSet(more) \cup ToSet(less) = ToSet(caller[c].ran) \cup ToSet(caller[c].todo)
        /\ \A i, j \in DOMAIN more : more[i].id = more[j].id => i = j
  BY <1>1, HookRan, Zenon
<1>3. /\ ToSet(more) \cup ToSet(less) = ToSet(caller[c].ran) \cup ToSet(caller[c].todo)
      /\ \A i, j \in DOMAIN more : more[i].id = more[j].id => i = j
  BY <1>2, Zenon
<1>4. PICK x : x = [caller[c] EXCEPT !.at = "failed", !.todo = <<>>, !.ran = more]
  OBVIOUS
<1>5. caller[c] \in CallerType /\ CallerInv(c) /\ caller \in [Callers -> CallerType]
  BY CallerFacts DEF ScriptInvar, Calling
<1>6. x \in CallerType /\ x.at = "failed" /\ x.todo = <<>> /\ x.ran = more
  <2>1. caller[c] = [at |-> caller[c].at, slot |-> caller[c].slot, todo |-> caller[c].todo, ran |-> caller[c].ran]
    BY <1>5 DEF CallerType
  <2>2. caller[c].slot \in Places \cup Routes \cup {NoScript}
    BY CallerFacts DEF ScriptInvar
  <2>3. x = [at |-> "failed", slot |-> caller[c].slot, todo |-> <<>>, ran |-> more]
    BY <1>4, <2>1
  <2>4. <<>> \in Seq(Loaded)
    OBVIOUS
  <2> QED
    BY <1>2, <2>2, <2>3, <2>4 DEF CallerType
<1>7. caller' = [caller EXCEPT ![c] = x]
  BY <1>1, <1>2, <1>4
<1>8. caller'[c] = x
  BY <1>5, <1>7
<1>9. scripts' = scripts /\ server' = server /\ steady' = steady /\ seen' = seen
  BY <1>1 DEF runtime, boot, watch
<1>10. /\ server = "up" /\ Instances(scripts) \subseteq seen[c] /\ ToSet(more) \subseteq seen[c]
  BY <1>1, <1>3, <1>5 DEF CallerInv, CallerAt
<1>11. caller'[c].at = "failed" /\ caller'[c].todo = <<>> /\ caller'[c].ran = more
  BY <1>6, <1>8
<1>12. ToSet(caller'[c].todo) = {}
  BY <1>11 DEF ToSet
<1>13. CallerInv(c)'
  BY <1>3, <1>9, <1>10, <1>11, <1>12 DEF CallerInv, CallerAt
<1> QED
  BY <1>1, <1>6, <1>7, <1>13, CallerMoves

\* FindCustomAPI.
LEMMA FindCustomAPIKeeps ==
  ASSUME ScriptInvar, NEW c \in Callers, FindCustomAPI(c)
  PROVE ScriptInvar'
<1> USE DEF ScriptInvar
<1>1. PICK r \in Routes :
        /\ customAPIRoutes[r] # NoScript
        /\ caller' = [caller EXCEPT ![c] =
             [at |-> "found", slot |-> r, todo |-> <<customAPIRoutes[r]>>, ran |-> <<>>]]
  BY DEF FindCustomAPI
<1>2. /\ server = "up" /\ seen' = [seen EXCEPT ![c] = Instances(scripts)]
      /\ UNCHANGED <<scriptRows, lastId, runtime, boot, admin, promise, steady>>
  BY DEF FindCustomAPI
<1>3. PICK i : i = customAPIRoutes[r]
  OBVIOUS
<1>4. scripts \in [Ids -> Definitions \cup {NoScript}] /\ i \in Instances(scripts)
  BY <1>1, <1>3 DEF Registry, RuntimeTypes, RouteLive, At
<1>5. Instances(scripts) \subseteq Loaded
  BY <1>4, InstancesAre
<1>6. PICK list : list = <<i>>
  OBVIOUS
<1>7. list \in Seq(Loaded) /\ Len(list) = 1 /\ ToSet(list) = {i}
  <2>1. i \in Loaded
    BY <1>4, <1>5
  <2>2. list \in Seq(Loaded) /\ Len(list) = 1 /\ DOMAIN list = {1} /\ list[1] = i
    BY <1>6, <2>1
  <2> QED
    BY <2>2 DEF ToSet
<1>8. PICK x : x = [at |-> "found", slot |-> r, todo |-> list, ran |-> <<>>]
  OBVIOUS
<1>9. x \in CallerType
  BY <1>7, <1>8 DEF CallerType
<1>10. caller' = [caller EXCEPT ![c] = x]
  BY <1>1, <1>3, <1>6, <1>8
<1>11. caller'[c] = x
  BY <1>10, CallerFacts
<1>12. caller'[c].at = "found" /\ caller'[c].todo = list /\ caller'[c].ran = <<>>
  BY <1>8, <1>11
<1>13. ToSet(caller'[c].ran) = {} /\ DOMAIN caller'[c].ran = {}
  BY <1>12 DEF ToSet
<1>14. /\ steady' \in [Callers -> SUBSET Loaded] /\ seen' \in [Callers -> SUBSET Loaded]
       /\ \A b \in Callers \ {c} : steady'[b] = steady[b] /\ seen'[b] = seen[b]
       /\ seen'[c] = Instances(scripts)
  BY <1>2, <1>5, CallerFacts
<1>15. server' = "up" /\ scripts' = scripts
  BY <1>2 DEF boot, runtime
<1>16. CallerInv(c)'
  BY <1>4, <1>7, <1>12, <1>13, <1>14, <1>15 DEF CallerInv, CallerAt
<1> QED
  BY <1>2, <1>9, <1>10, <1>14, <1>16, CallerSteps

\* ExecuteCustomAPI.
LEMMA ExecuteCustomAPIKeeps ==
  ASSUME ScriptInvar, NEW c \in Callers, ExecuteCustomAPI(c)
  PROVE ScriptInvar'
<1> USE DEF ScriptInvar
<1>1. PICK found : found = Head(caller[c].todo)
  OBVIOUS
<1>2. PICK d : d = IF scripts[found.id] # NoScript THEN scripts[found.id] ELSE found.def
  OBVIOUS
<1>3. /\ CallerAt(c, "found")
      /\ caller' = [caller EXCEPT ![c] =
           [caller[c] EXCEPT !.at = "called", !.todo = <<>>, !.ran = <<Inst(found.id, d)>>]]
      /\ UNCHANGED <<scriptRows, lastId, runtime, boot, admin, promise, watch>>
  BY <1>1, <1>2 DEF ExecuteCustomAPI
<1>4. caller[c] \in CallerType /\ CallerInv(c) /\ caller \in [Callers -> CallerType]
      /\ caller[c].todo \in Seq(Loaded) /\ seen[c] \subseteq Loaded
  BY CallerFacts DEF Calling
<1>5. /\ server = "up" /\ Instances(scripts) \subseteq seen[c]
      /\ ToSet(caller[c].todo) \subseteq seen[c] /\ Len(caller[c].todo) = 1
  BY <1>3, <1>4 DEF CallerInv, CallerAt
<1>6. found \in seen[c] /\ found \in Loaded
  <2>1. found = caller[c].todo[1] /\ 1 \in DOMAIN caller[c].todo
    BY <1>1, <1>4, <1>5
  <2>2. found \in ToSet(caller[c].todo)
    BY <2>1 DEF ToSet
  <2> QED
    BY <1>4, <1>5, <2>2
<1>7. found.id \in Ids /\ found.def \in Definitions /\ found = Inst(found.id, found.def)
  BY <1>6 DEF Loaded, Inst
<1>8. PICK i : i = Inst(found.id, d)
  OBVIOUS
<1>9. i \in seen[c] /\ i \in Loaded
  <2>1. scripts \in [Ids -> Definitions \cup {NoScript}]
    BY DEF Registry, RuntimeTypes
  <2>2. CASE scripts[found.id] # NoScript
    <3>1. d = scripts[found.id] /\ d \in Definitions
      BY <1>2, <1>7, <2>1, <2>2
    <3>2. i \in Instances(scripts)
      BY <1>7, <1>8, <2>1, <3>1, InstancesAre
    <3> QED
      BY <1>4, <1>5, <3>2
  <2>3. CASE scripts[found.id] = NoScript
    <3>1. i = found
      BY <1>2, <1>7, <1>8, <2>3
    <3> QED
      BY <1>6, <3>1
  <2> QED
    BY <2>2, <2>3
<1>10. PICK list : list = <<i>>
  OBVIOUS
<1>11. list \in Seq(Loaded) /\ DOMAIN list = {1} /\ ToSet(list) = {i}
  <2>1. list \in Seq(Loaded) /\ DOMAIN list = {1} /\ list[1] = i
    BY <1>9, <1>10
  <2> QED
    BY <2>1 DEF ToSet
<1>12. PICK x : x = [caller[c] EXCEPT !.at = "called", !.todo = <<>>, !.ran = list]
  OBVIOUS
<1>13. x \in CallerType /\ x.at = "called" /\ x.todo = <<>> /\ x.ran = list
  <2>1. caller[c] = [at |-> caller[c].at, slot |-> caller[c].slot, todo |-> caller[c].todo, ran |-> caller[c].ran]
    BY <1>4 DEF CallerType
  <2>2. caller[c].slot \in Places \cup Routes \cup {NoScript}
    BY CallerFacts DEF ScriptInvar
  <2>3. x = [at |-> "called", slot |-> caller[c].slot, todo |-> <<>>, ran |-> list]
    BY <1>12, <2>1
  <2>4. <<>> \in Seq(Loaded)
    OBVIOUS
  <2> QED
    BY <1>11, <2>2, <2>3, <2>4 DEF CallerType
<1>14. caller' = [caller EXCEPT ![c] = x]
  BY <1>3, <1>8, <1>10, <1>12
<1>15. caller'[c] = x
  BY <1>4, <1>14
<1>16. caller'[c].at = "called" /\ caller'[c].todo = <<>> /\ caller'[c].ran = list
  BY <1>13, <1>15
<1>17. ToSet(caller'[c].todo) = {}
  BY <1>16 DEF ToSet
<1>18. scripts' = scripts /\ server' = server /\ steady' = steady /\ seen' = seen
  BY <1>3 DEF runtime, boot, watch
<1>19. CallerInv(c)'
  BY <1>5, <1>9, <1>11, <1>16, <1>17, <1>18 DEF CallerInv, CallerAt
<1> QED
  BY <1>3, <1>13, <1>14, <1>19, CallerMoves

\* The request is answered.
LEMMA ReplyKeeps ==
  ASSUME ScriptInvar, NEW c \in Callers, Reply(c)
  PROVE ScriptInvar'
<1> USE DEF ScriptInvar
<1>1. /\ caller' = [caller EXCEPT ![c] = Waiting]
      /\ steady' = [steady EXCEPT ![c] = {}] /\ seen' = [seen EXCEPT ![c] = {}]
      /\ UNCHANGED <<scriptRows, lastId, runtime, boot, admin, promise>>
  BY DEF Reply
<1>2. Waiting \in CallerType /\ Waiting.at = "idle" /\ Waiting.todo = <<>> /\ Waiting.ran = <<>>
  BY DEF Waiting, CallerType
<1>3. /\ steady' \in [Callers -> SUBSET Loaded] /\ seen' \in [Callers -> SUBSET Loaded]
      /\ \A b \in Callers \ {c} : steady'[b] = steady[b] /\ seen'[b] = seen[b]
      /\ caller'[c] = Waiting
  BY <1>1, CallerFacts
<1>4. caller'[c].at = "idle" /\ caller'[c].todo = <<>> /\ caller'[c].ran = <<>>
  BY <1>2, <1>3
<1>5. ToSet(caller'[c].ran) = {} /\ ToSet(caller'[c].todo) = {} /\ DOMAIN caller'[c].ran = {}
  BY <1>4 DEF ToSet
<1>6. CallerInv(c)'
  BY <1>4, <1>5 DEF CallerInv, CallerAt
<1> QED
  BY <1>1, <1>2, <1>3, <1>6, CallerSteps

-----------------------------------------------------------------------------
(***************************************************************************)
(* ScriptRuntime: crash, start, and the theorems.                          *)
(***************************************************************************)
\* A manager that has compiled nothing.
NothingIsLoaded ==
  /\ scripts = [id \in Ids |-> NoScript] /\ hookMap = [p \in Places |-> <<>>]
  /\ customAPIRoutes = [r \in Routes |-> NoScript]

\* Then hooks and routes are empty too.
LEMMA NothingLoaded == NothingIsLoaded => Registry /\ \A id \in Ids : scripts[id] = NoScript
<1> SUFFICES ASSUME NothingIsLoaded PROVE Registry /\ \A id \in Ids : scripts[id] = NoScript
  OBVIOUS
<1> USE DEF NothingIsLoaded
<1>1. Instances(scripts) = {}
  BY DEF Instances
<1>2. \A p \in Places : At(p, Instances(scripts)) = {}
  BY <1>1 DEF At
<1>3. \A p \in Places : hookMap[p] = <<>>
  OBVIOUS
<1>4. RuntimeTypes
  BY DEF RuntimeTypes
<1>5. RouteLive
  BY DEF RouteLive
<1>6. ASSUME NEW p \in Places PROVE ListInv(p)
  <2>1. hookMap[p] = <<>> /\ DOMAIN hookMap[p] = {} /\ At(p, Instances(scripts)) = {}
    BY <1>2, <1>3
  <2>2. ToSet(hookMap[p]) = {} /\ IsInjective(hookMap[p]) /\ InOrder(hookMap[p])
    BY <2>1 DEF ToSet, IsInjective, InOrder
  <2> QED
    BY <2>1, <2>2 DEF ListInv
<1> QED
  BY <1>4, <1>5, <1>6 DEF Registry

\* Nobody runs scripts.
NobodyIsCalling ==
  /\ caller = [c \in Callers |-> Waiting]
  /\ steady = [c \in Callers |-> {}] /\ seen = [c \in Callers |-> {}]

\* Then what is known of them holds.
LEMMA NobodyCalls == NobodyIsCalling => Calling
<1> SUFFICES ASSUME NobodyIsCalling PROVE Calling
  OBVIOUS
<1> USE DEF NobodyIsCalling
<1>1. Waiting \in CallerType /\ Waiting.at = "idle" /\ Waiting.todo = <<>> /\ Waiting.ran = <<>>
  BY DEF Waiting, CallerType
<1>2. CallerTypes
  BY <1>1 DEF CallerTypes
<1>3. ASSUME NEW c \in Callers PROVE CallerInv(c)
  <2>1. caller[c].at = "idle" /\ caller[c].todo = <<>> /\ caller[c].ran = <<>>
    BY <1>1
  <2>2. ToSet(caller[c].ran) = {} /\ ToSet(caller[c].todo) = {} /\ DOMAIN caller[c].ran = {}
    BY <2>1 DEF ToSet
  <2> QED
    BY <2>1, <2>2 DEF CallerInv, CallerAt
<1> QED
  BY <1>2, <1>3 DEF Calling

\* Nobody administers.
NobodyIsAdministering == admin = [a \in ScriptAdmins |-> Free]
AllIdle ==
  /\ admin \in [ScriptAdmins -> AdminType]
  /\ \A id : OnScript(id) = {}
  /\ \A a \in ScriptAdmins : AdminInv(a)

\* Then what is known of them holds.
LEMMA NobodyAdministers == NobodyIsAdministering => AllIdle
<1>1. Free \in AdminType /\ Free.at = "idle"
  BY RowFacts DEF Free, AdminType
<1> QED
  BY <1>1 DEF OnScript, AdminInv, AdminAt, NobodyIsAdministering, AllIdle

\* At the start.
LEMMA InitKeeps ==
  ASSUME ScriptInit
  PROVE ScriptInvar
<1>1. Registry /\ \A id \in Ids : scripts[id] = NoScript
  BY NothingLoaded DEF ScriptInit, NothingIsLoaded
<1>2. Calling
  BY NobodyCalls DEF ScriptInit, NobodyIsCalling
<1>3. AllIdle
  BY NobodyAdministers DEF ScriptInit, NobodyIsAdministering
<1>4. AdminTypes
  BY <1>3, RowFacts DEF ScriptInit, AdminTypes, AllIdle
<1>5. SettledInv /\ BootInv
  BY <1>1 DEF ScriptInit, SettledInv, BootInv
<1>6. lastId \in 0..MaxScripts
  BY ScriptAssumption DEF ScriptInit
<1> QED
  BY <1>1, <1>2, <1>3, <1>4, <1>5, <1>6 DEF ScriptInvar, Governance, Registry, AllIdle

\* A crash.
LEMMA CrashScriptsKeeps ==
  ASSUME ScriptInvar, CrashScripts
  PROVE ScriptInvar'
<1>1. Registry' /\ \A id \in Ids : scripts'[id] = NoScript
  <2>1. NothingIsLoaded'
    BY DEF CrashScripts, NothingIsLoaded
  <2>2. (NothingIsLoaded => Registry /\ \A id \in Ids : scripts[id] = NoScript)'
    BY NothingLoaded, PTL
  <2> QED
    BY <2>1, <2>2
<1>2. Calling'
  <2>1. NobodyIsCalling'
    BY DEF CrashScripts, NobodyIsCalling
  <2>2. (NobodyIsCalling => Calling)'
    BY NobodyCalls, PTL
  <2> QED
    BY <2>1, <2>2
<1>3. AllIdle'
  <2>1. NobodyIsAdministering'
    BY DEF CrashScripts, NobodyIsAdministering
  <2>2. (NobodyIsAdministering => AllIdle)'
    BY NobodyAdministers, PTL
  <2> QED
    BY <2>1, <2>2
<1>4. server' = "down" /\ toLoad' = {} /\ UNCHANGED <<scriptRows, lastId, settled, asked>>
  BY DEF CrashScripts, promise
<1>5. AdminTypes'
  BY <1>3, <1>4 DEF ScriptInvar, Governance, AdminTypes, AllIdle
<1>6. SettledInv'
  BY <1>3, <1>4 DEF ScriptInvar, Governance, SettledInv, AllIdle
<1>7. BootInv'
  BY <1>1, <1>4 DEF BootInv
<1> QED
  BY <1>1, <1>2, <1>3, <1>4, <1>5, <1>6, <1>7 DEF ScriptInvar, Governance, Registry, AllIdle

\* While the server is not up, nobody works.
LEMMA NotUp ==
  ASSUME ScriptInvar, server # "up"
  PROVE /\ \A a \in ScriptAdmins : AdminAt(a, "idle")
        /\ \A c \in Callers : CallerAt(c, "idle")
<1>1. \A a \in ScriptAdmins : AdminInv(a)
  BY DEF ScriptInvar, Governance
<1>2. \A c \in Callers : CallerInv(c)
  BY DEF ScriptInvar, Calling
<1> QED
  BY <1>1, <1>2 DEF AdminInv, CallerInv

\* Nobody runs scripts while the server is not up ...
LEMMA IdleCalling ==
  ASSUME ScriptInvar, server # "up", UNCHANGED <<caller, watch>>
  PROVE Calling'
<1>1. steady' = steady /\ seen' = seen /\ caller' = caller
  BY DEF watch
<1>2. CallerTypes'
  BY <1>1 DEF ScriptInvar, Calling, CallerTypes
<1>3. ASSUME NEW c \in Callers PROVE CallerInv(c)'
  <2>1. CallerAt(c, "idle") /\ CallerInv(c)
    BY NotUp DEF ScriptInvar, Calling
  <2>2. caller'[c].at = "idle" /\ caller'[c].todo = <<>> /\ caller'[c].ran = <<>>
    BY <1>1, <2>1 DEF CallerInv, CallerAt
  <2>3. ToSet(caller'[c].ran) = {} /\ ToSet(caller'[c].todo) = {} /\ DOMAIN caller'[c].ran = {}
    BY <2>2 DEF ToSet
  <2> QED
    BY <2>2, <2>3 DEF CallerInv, CallerAt
<1> QED
  BY <1>2, <1>3 DEF Calling

\* ... and nobody administers.
LEMMA IdleAdmins ==
  ASSUME ScriptInvar, server # "up", UNCHANGED admin
  PROVE /\ \A a \in ScriptAdmins : AdminInv(a)'
        /\ \A id : OnScript(id)' = {}
<1>1. \A a \in ScriptAdmins : admin'[a].at = "idle"
  BY NotUp DEF AdminAt
<1> QED
  BY <1>1 DEF AdminInv, AdminAt, OnScript

\* Bootstrap reads the rows.
LEMMA ListScriptsKeeps ==
  ASSUME ScriptInvar, ListScripts
  PROVE ScriptInvar'
<1>1. /\ server = "down" /\ server' = "loading"
      /\ toLoad' = {id \in Ids : scriptRows[id] # NoScript /\ scriptRows[id].enabled}
      /\ UNCHANGED <<scriptRows, lastId, runtime, admin, caller, promise, watch>>
  BY DEF ListScripts
<1>2. Registry' /\ scripts' = scripts
  BY <1>1, RegistryStays DEF ScriptInvar, runtime
<1>3. Calling' /\ \A a \in ScriptAdmins : AdminInv(a)'
  BY <1>1, IdleCalling, IdleAdmins
<1>4. AdminTypes'
  BY <1>1 DEF ScriptInvar, Governance, AdminTypes, promise
<1>5. SettledInv'
  <2>1. \A id : OnScript(id)' = {}
    BY <1>1, IdleAdmins
  <2> QED
    BY <1>1, <2>1 DEF ScriptInvar, Governance, SettledInv, promise
<1>6. BootInv'
  <2>1. \A id \in Ids : scripts'[id] = NoScript
    BY <1>1, <1>2 DEF ScriptInvar, Governance, BootInv
  <2>2. \A id \in Ids \ toLoad' : Loads(scriptRows'[id]) = NoScript
    BY <1>1 DEF Loads
  <2> QED
    BY <1>1, <2>1, <2>2 DEF BootInv
<1> QED
  BY <1>1, <1>2, <1>3, <1>4, <1>5, <1>6 DEF ScriptInvar, Governance, Registry

\* Bootstrap compiles one.
LEMMA LoadNextKeeps ==
  ASSUME ScriptInvar, LoadNext
  PROVE ScriptInvar'
<1>1. PICK id \in toLoad :
        /\ LoadScript(id, scriptRows[id].def)
        /\ toLoad' = toLoad \ {id}
        /\ server' = IF Compiles[scriptRows[id].def] THEN "loading" ELSE "refused"
  BY DEF LoadNext
<1>2. server = "loading" /\ UNCHANGED <<scriptRows, lastId, admin, caller, promise, watch>>
  BY DEF LoadNext
<1>3. PICK row : row = scriptRows[id]
  OBVIOUS
<1>4. id \in Ids /\ row \in Rows /\ row # NoScript /\ row.enabled
  BY <1>3 DEF ScriptInvar, Governance, AdminTypes, BootInv
<1>5. row.def \in Definitions
  BY <1>4, RowFacts
<1>6. Registry' /\ scripts' = [scripts EXCEPT ![id] = IF Compiles[row.def] THEN row.def ELSE NoScript]
  BY <1>1, <1>3, <1>4, <1>5, LoadScriptKeeps DEF ScriptInvar
<1>7. Calling' /\ \A a \in ScriptAdmins : AdminInv(a)'
  BY <1>2, IdleCalling, IdleAdmins
<1>8. server' \in {"loading", "refused"}
  BY <1>1
<1>9. AdminTypes'
  BY <1>1, <1>2, <1>8 DEF ScriptInvar, Governance, AdminTypes, promise
<1>10. SettledInv'
  <2>1. \A i : OnScript(i)' = {}
    BY <1>2, IdleAdmins
  <2> QED
    BY <1>2, <1>8, <2>1 DEF ScriptInvar, Governance, SettledInv, promise
<1>11. BootInv'
  <2>1. \A i \in toLoad' : scriptRows'[i] # NoScript /\ scriptRows'[i].enabled
    BY <1>1, <1>2 DEF ScriptInvar, Governance, BootInv
  <2>2. ASSUME server' = "loading", NEW i \in Ids
        PROVE  scripts'[i] = IF i \in toLoad' THEN NoScript ELSE Loads(scriptRows'[i])
    <3>1. scripts[i] = IF i \in toLoad THEN NoScript ELSE Loads(scriptRows[i])
      BY <1>2 DEF ScriptInvar, Governance, BootInv
    <3>2. scripts \in [Ids -> Definitions \cup {NoScript}]
      BY DEF ScriptInvar, Governance, RuntimeTypes
    <3>3. Compiles[row.def]
      BY <1>1, <1>3, <2>2
    <3>4. CASE i = id
      <4>1. scripts'[i] = row.def
        BY <1>4, <1>6, <3>2, <3>3, <3>4
      <4>2. Loads(scriptRows'[i]) = row.def
        BY <1>2, <1>3, <1>4, <3>4 DEF Loads
      <4> QED
        BY <1>1, <3>4, <4>1, <4>2
    <3>5. CASE i # id
      <4>1. scripts'[i] = scripts[i]
        BY <1>6, <3>2, <3>5
      <4> QED
        BY <1>1, <1>2, <3>1, <3>5, <4>1
    <3> QED
      BY <3>4, <3>5
  <2> QED
    BY <1>8, <2>1, <2>2 DEF BootInv
<1> QED
  BY <1>2, <1>6, <1>7, <1>9, <1>10, <1>11 DEF ScriptInvar, Governance, Registry

\* Bootstrap has compiled them all.
LEMMA ServeKeeps ==
  ASSUME ScriptInvar, Serve
  PROVE ScriptInvar'
<1>1. /\ server = "loading" /\ toLoad = {} /\ server' = "up"
      /\ UNCHANGED <<scriptRows, lastId, runtime, toLoad, admin, caller, promise, watch>>
  BY DEF Serve
<1>2. Registry' /\ scripts' = scripts
  BY <1>1, RegistryStays DEF ScriptInvar, runtime
<1>3. Calling' /\ \A a \in ScriptAdmins : AdminInv(a)'
  BY <1>1, IdleCalling, IdleAdmins
<1>4. AdminTypes'
  BY <1>1 DEF ScriptInvar, Governance, AdminTypes, promise
<1>5. SettledInv'
  <2>1. \A id : OnScript(id)' = {}
    BY <1>1, IdleAdmins
  <2>2. \A id \in Ids : scripts'[id] = Loads(scriptRows[id])
    BY <1>1, <1>2 DEF ScriptInvar, Governance, BootInv
  <2> QED
    BY <1>1, <2>1, <2>2 DEF ScriptInvar, Governance, SettledInv, AdminTypes, promise
<1>6. BootInv'
  BY <1>1 DEF BootInv
<1> QED
  BY <1>1, <1>2, <1>3, <1>4, <1>5, <1>6 DEF ScriptInvar, Governance, Registry

\* Every step keeps the invariant.
LEMMA ScriptStep ==
  ASSUME ScriptInvar, [ScriptNext]_scriptVars
  PROVE ScriptInvar'
<1>1. CASE \E a \in ScriptAdmins :
             \/ Save(a) \/ Update(a) \/ Toggle(a) \/ Disable(a) \/ Delete(a)
             \/ Apply(a) \/ Flip(a) \/ DisableScript(a) \/ DeleteRow(a) \/ StatementFails(a)
  BY <1>1, SaveKeeps, UpdateKeeps, ToggleKeeps, DisableKeeps, DeleteKeeps, ApplyKeeps, FlipKeeps,
     DisableScriptKeeps, DeleteRowKeeps, StatementFailsKeeps
<1>2. CASE \E c \in Callers : \/ StartHooks(c) \/ HookReturns(c) \/ HookBreaks(c)
                              \/ FindCustomAPI(c) \/ ExecuteCustomAPI(c) \/ Reply(c)
  BY <1>2, StartHooksKeeps, HookReturnsKeeps, HookBreaksKeeps, FindCustomAPIKeeps,
     ExecuteCustomAPIKeeps, ReplyKeeps
<1>3. CASE DropScripts \/ CrashScripts \/ ListScripts \/ LoadNext \/ Serve
  BY <1>3, DropScriptsKeeps, CrashScriptsKeeps, ListScriptsKeeps, LoadNextKeeps, ServeKeeps
<1>4. CASE UNCHANGED scriptVars
  <2>1. UNCHANGED <<scriptRows, lastId, runtime, boot, admin, caller, promise, watch>>
    BY <1>4 DEF scriptVars
  <2>2. Registry' /\ scripts' = scripts /\ server' = server
    BY <2>1, RegistryStays DEF ScriptInvar, runtime, boot
  <2>3. Governance'
    BY <2>1, <2>2, GovernanceStays DEF ScriptInvar, Registry
  <2>4. Calling'
    BY <2>1, <2>2, CallingStays DEF ScriptInvar
  <2> QED
    BY <2>1, <2>2, <2>3, <2>4 DEF ScriptInvar
<1> QED
  BY <1>1, <1>2, <1>3, <1>4 DEF ScriptNext

\* What a request that is alone on its script has done, how far Bootstrap has got, what
\* is registered, and what a request under way has run and will run (yaegi_manager.go,
\* meta.go), for any scripts, requests and bounds.
THEOREM ScriptsKept == ScriptSpec => []ScriptInvar
<1>1. ScriptInit => ScriptInvar
  BY InitKeeps
<1>2. ScriptInvar /\ [ScriptNext]_scriptVars => ScriptInvar'
  BY ScriptStep
<1> QED
  BY <1>1, <1>2, PTL DEF ScriptSpec

\* The invariant says enough.
LEMMA ScriptsAreTrue ==
  ASSUME ScriptInvar
  PROVE ScriptsHold
<1>1. AnswerHolds
  BY DEF ScriptInvar, Governance, SettledInv, AnswerHolds, Loads
<1>2. HookListExact
  <2>1. ASSUME NEW p \in Places
        PROVE  /\ ToSet(hookMap[p]) = At(p, Instances(scripts))
               /\ Len(hookMap[p]) = Cardinality(At(p, Instances(scripts)))
               /\ InOrder(hookMap[p])
    <3>1. /\ hookMap[p] \in Seq(Loaded) /\ IsInjective(hookMap[p]) /\ InOrder(hookMap[p])
          /\ ToSet(hookMap[p]) = At(p, Instances(scripts))
      BY DEF ScriptInvar, Registry, RuntimeTypes, ListInv
    <3>2. Len(hookMap[p]) = Cardinality(ToSet(hookMap[p]))
      BY <3>1, LengthIs
    <3> QED
      BY <3>1, <3>2
  <2> QED
    BY <2>1 DEF HookListExact, InOrder
<1>3. RouteLive
  BY DEF ScriptInvar, Registry
<1>4. RunsAsLoaded
  <2>1. \A c \in Callers : CallerInv(c)
    BY DEF ScriptInvar, Calling
  <2>2. SteadyHooksRun
    BY <2>1 DEF SteadyHooksRun, CallerInv
  <2>3. RanLoaded
    BY <2>1 DEF RanLoaded, CallerInv
  <2> QED
    BY <2>2, <2>3 DEF RunsAsLoaded
<1> QED
  BY <1>1, <1>2, <1>3, <1>4 DEF ScriptsHold, RegisteredAsLoaded

\* What was answered with success stays in force, hooks and routes are exactly those of
\* what is loaded, and a request runs what was loaded while it ran, each script once
\* (ScriptsHold), whichever requests interleave, fail or are cut off by a crash.
THEOREM ScriptsTrue == ScriptSpec => []ScriptsHold
<1>1. ScriptInvar => ScriptsHold
  BY ScriptsAreTrue
<1> QED
  BY <1>1, ScriptsKept, PTL

-----------------------------------------------------------------------------
(***************************************************************************)
(* RoundTrip: values.                                                      *)
(***************************************************************************)
\* Values of the field, on their way and in the column.
Texts == {Text(w) : w \in Words \cup {"", "new"}}
Shapes == {Object("shape"), Object("other"), Json(Object("shape"))}

Plains == {"choice", "url", "uuid"}

\* What may be given for the field: what clients send, and what they have read.
Offer(v) ==
  \/ v = Nil
  \/ schema.type = "string" /\ v \in Texts \cup {Number(1), Digits(1)}
  \/ schema.type \in Plains /\ v \in Texts
  \/ schema.type = "time" /\ (v \in Texts \/ \E t \in Texts : v = Base64(t))
  \/ schema.type = "password" /\ (v \in Texts \/ \E t \in Texts : v = Hash(t))
  \/ schema.type = "encrypted" /\ (v \in Texts \/ v[1] = "cipher")
  \/ schema.type = "integer" /\ \E n \in Nat : v = Number(n) \/ (n # 0 /\ v = Digits(n))
  \/ schema.type = "boolean" /\ v \in {Bool(TRUE), Bool(FALSE)}
  \/ schema.type = "json" /\ v \in {Object("shape"), Json(Object("shape")), Text("bad")}
  \/ schema.type \in {"multiSelect", "point"} /\ v \in Shapes

\* What the column has.
Cell(c) ==
  \/ c = Nil /\ schema.type # "uuid"
  \/ schema.type = "string" /\ c \in Texts \cup {Digits(1)}
  \/ schema.type \in Plains /\ c \in Texts /\ (schema.type = "uuid" => c # Text(""))
  \/ schema.type = "time" /\ c \in Texts \ {Text("")}
  \/ schema.type = "password" /\ (c = Text("") \/ \E t \in Texts : c = Hash(t))
  \/ /\ schema.type = "encrypted"
     /\ c = Text("") \/ (c[1] = "cipher" /\ (c[3] \in Texts \ {Text("")} \/ c[3][1] = "cipher"))
  \/ schema.type = "integer" /\ \E n \in Nat : c = Number(n)
  \/ schema.type = "boolean" /\ c \in {Number(0), Number(1)}
  \/ schema.type = "json" /\ c = Json(Object("shape"))
  \/ schema.type \in {"multiSelect", "point"} /\ \E v \in Shapes : c = Json(v)

\* What the column has of what was given.
Puts(v, c) ==
  \/ v = Nil /\ c = Nil
  \/ /\ schema.type = "string"
     /\ (v \in Texts /\ c = v) \/ (v \in {Number(1), Digits(1)} /\ c = Digits(1))
  \/ schema.type \in Plains /\ v \in Texts /\ c = v
  \/ schema.type = "time" /\ v \in Texts \ {Text("")} /\ c = v
  \/ /\ schema.type = "password"
     /\ \/ v = Text("") /\ c = v
        \/ v \in Texts \ {Text("")} /\ c = Hash(v)
        \/ \E t \in Texts : v = Hash(t) /\ c = v
  \/ /\ schema.type = "encrypted"
     /\ \/ v = Text("") /\ c = v
        \/ (v \in Texts \ {Text("")} \/ v[1] = "cipher") /\ c = Cipher(key, v)
  \/ schema.type = "integer" /\ \E n \in Nat : (v = Number(n) \/ (n # 0 /\ v = Digits(n))) /\ c = Number(n)
  \/ /\ schema.type = "boolean"
     /\ (v = Bool(TRUE) /\ c = Number(1)) \/ (v = Bool(FALSE) /\ c = Number(0))
  \/ /\ schema.type = "json" /\ c = Json(Object("shape"))
     /\ v \in {Object("shape"), Json(Object("shape"))}
  \/ schema.type \in {"multiSelect", "point"} /\ v \in Shapes /\ c = Json(v)

\* What is meant by a value that was read.
Says(v) == IF v[1] \in {"hash", "base64"} THEN v[2] ELSE MeantBy(v)

\* The tags of values, and what they carry: values of different tags are different.
LEMMA NilForm == Nil[1] = "nil" /\ NoValue[1] = "none"
BY DEF Nil, NoValue
LEMMA TextForm == \A w : Text(w)[1] = "text" /\ Text(w)[2] = w
BY DEF Text
LEMMA EmptyText == Text("")[1] = "text" /\ Text("")[2] = ""
BY DEF Text
LEMMA NewText == Text("new")[1] = "text" /\ Text("new")[2] = "new"
BY DEF Text
LEMMA BadText == Text("bad")[1] = "text" /\ Text("bad")[2] = "bad"
BY DEF Text
LEMMA ZeroForm == Number(0)[1] = "number" /\ Number(0)[2] = 0
BY DEF Number
LEMMA NumberForm == \A n : Number(n)[1] = "number" /\ Number(n)[2] = n
BY DEF Number
LEMMA BoolForm == \A b : Bool(b)[1] = "bool" /\ Bool(b)[2] = b
BY DEF Bool
LEMMA ObjectForm == \A o : Object(o)[1] = "object" /\ Object(o)[2] = o
BY DEF Object
LEMMA DigitsForm == \A n : Digits(n)[1] = "digits" /\ Digits(n)[2] = n
BY DEF Digits
LEMMA HashForm == \A v : Hash(v)[1] = "hash" /\ Hash(v)[2] = v
BY DEF Hash
LEMMA CipherForm ==
  \A k, v : Cipher(k, v)[1] = "cipher" /\ Cipher(k, v)[2] = k /\ Cipher(k, v)[3] = v
BY DEF Cipher
LEMMA JsonForm == \A v : Json(v)[1] = "json" /\ Json(v)[2] = v
BY DEF Json
LEMMA Base64Form == \A v : Base64(v)[1] = "base64" /\ Base64(v)[2] = v
BY DEF Base64

\* A text, among the values of a field.
LEMMA TextForms == \A t \in Texts : t[1] = "text" /\ t = Text(t[2]) /\ t # Nil
<1> TAKE t \in Texts
<1>1. PICK w \in Words \cup {"", "new"} : t = Text(w)
  BY DEF Texts
<1> QED
  BY <1>1, TextForm, NilForm

\* ToStoreValue and MySQL's column together: what is put there of each type's values.
LEMMA Stores ==
  ASSUME RoundTripAssumption, schema \in FieldSchemas, NEW v, Offer(v), NEW c \in Column(ToStore(v))
  PROVE  Puts(v, c)
<1> DEFINE Same == IF v[1] = "number" THEN {Digits(v[2])} ELSE IF v[1] \in Textual THEN {v} ELSE {}
<1>1. CASE v = Nil
  BY <1>1, NilForm DEF Column, ToStore, Puts
<1>2. CASE v # Nil /\ schema.type = "string"
  <2>1. ToStore(v) = v /\ Column(v) = Same
    BY <1>2 DEF ToStore, Column
  <2>2. v \in Texts \/ v = Number(1) \/ v = Digits(1)
    BY <1>2 DEF Offer, Plains
  <2>3. v \in Texts => c = v
    BY <2>1, TextForms DEF Textual
  <2>4. v = Digits(1) => c = Digits(1)
    BY <2>1, DigitsForm DEF Textual
  <2>5. v = Number(1) => c = Digits(1)
    BY <2>1, NumberForm
  <2> QED
    BY <1>2, <2>2, <2>3, <2>4, <2>5 DEF Puts
<1>3. CASE v # Nil /\ schema.type \in Plains
  <2>1. ToStore(v) = v /\ Column(v) = Same
    BY <1>3 DEF ToStore, Column, Plains
  <2>2. v \in Texts
    BY <1>3 DEF Offer, Plains
  <2>3. c = v
    BY <2>1, <2>2, TextForms DEF Textual
  <2> QED
    BY <1>3, <2>2, <2>3 DEF Puts
<1>4. CASE v # Nil /\ schema.type = "time"
  <2>1. ToStore(v) = v
    BY <1>4 DEF ToStore
  <2>2. Column(v) = IF v[1] = "text" /\ v[2] # "" THEN {v} ELSE {}
    BY <1>4 DEF Column
  <2>3. v \in Texts \/ \E t \in Texts : v = Base64(t)
    BY <1>4 DEF Offer, Plains
  <2>4. v \in Texts
    BY <2>1, <2>2, <2>3, Base64Form
  <2>5. c \in Column(v)
    BY <2>1
  <2>6. c = v /\ v[2] # ""
    BY <2>2, <2>5
  <2>7. v # Text("")
    BY <2>6, EmptyText
  <2> QED
    BY <1>4, <2>4, <2>6, <2>7 DEF Puts
<1>5. CASE v # Nil /\ schema.type = "password"
  <2>1. ToStore(v) = HashOf(v)
    BY <1>5 DEF ToStore
  <2>2. v \in Texts \/ \E t \in Texts : v = Hash(t)
    BY <1>5 DEF Offer, Plains
  <2>3. v = Text("") => HashOf(v) = v
    BY DEF HashOf
  <2>4. v \in Texts \ {Text("")} => HashOf(v) = Hash(v)
    BY TextForms DEF HashOf, Hashed
  <2>5. (\E t \in Texts : v = Hash(t)) => HashOf(v) = v /\ v[1] = "hash"
    BY HashForm DEF HashOf, Hashed
  <2>6. HashOf(v)[1] = "text" \/ HashOf(v)[1] = "hash"
    BY <2>2, <2>3, <2>4, <2>5, EmptyText, HashForm
  <2>7. Column(HashOf(v)) = {HashOf(v)}
    BY <1>5, <2>6, NilForm DEF Column, Textual
  <2>8. c = HashOf(v)
    BY <2>1, <2>7
  <2> QED
    BY <1>5, <2>2, <2>3, <2>4, <2>5, <2>8 DEF Puts
<1>6. CASE v # Nil /\ schema.type = "encrypted"
  <2>1. ToStore(v) = Sealed(v)
    BY <1>6 DEF ToStore
  <2>2. Cipher(key, v)[1] = "cipher"
    BY CipherForm
  <2>3. v \in Texts \/ v[1] = "cipher"
    BY <1>6 DEF Offer, Plains
  <2>4. /\ v = Text("") => Sealed(v) = v
        /\ v # Text("") => Sealed(v) = Cipher(key, v)
    BY DEF Sealed
  <2>5. Sealed(v)[1] = "text" \/ Sealed(v)[1] = "cipher"
    BY <2>2, <2>4, EmptyText
  <2>6. Column(Sealed(v)) = {Sealed(v)}
    BY <1>6, <2>5, NilForm DEF Column, Textual
  <2>7. c = Sealed(v)
    BY <2>1, <2>6
  <2> QED
    BY <1>6, <2>3, <2>4, <2>7 DEF Puts
<1>7. CASE v # Nil /\ schema.type = "integer"
  <2>1. ToStore(v) = v
    BY <1>7 DEF ToStore
  <2>2. PICK n \in Nat : v = Number(n) \/ (n # 0 /\ v = Digits(n))
    BY <1>7 DEF Offer, Plains
  <2>3. Column(v) = {Number(n)}
    BY <1>7, <2>2, NumberForm, DigitsForm DEF Column
  <2> QED
    BY <1>7, <2>1, <2>2, <2>3 DEF Puts
<1>8. CASE v # Nil /\ schema.type = "boolean"
  BY <1>8, BoolForm, NumberForm DEF Column, ToStore, Puts, Offer, Plains
<1>9. CASE v # Nil /\ schema.type = "json"
  <2>1. /\ ToStore(v) = JsonText(v)
        /\ Column(JsonText(v)) = IF JsonText(v) = Nil THEN {Nil}
                                 ELSE IF JsonText(v)[1] = "json" THEN {JsonText(v)} ELSE {}
    BY <1>9 DEF ToStore, Column
  <2>2. v = Object("shape") \/ v = Json(Object("shape")) \/ v = Text("bad")
    BY <1>9 DEF Offer, Plains
  <2>3. v = Text("bad") => JsonText(v) = v
    BY TextForm DEF JsonText, Textual
  <2>4. v # Text("bad") => JsonText(v) = Json(Object("shape"))
    BY <2>2, ObjectForm, JsonForm DEF JsonText, Textual
  <2>5. v # Text("bad")
    BY <2>1, <2>3, TextForm, NilForm
  <2>6. c = Json(Object("shape"))
    BY <2>1, <2>4, <2>5, JsonForm, NilForm
  <2> QED
    BY <1>9, <2>2, <2>5, <2>6 DEF Puts
<1>10. CASE v # Nil /\ schema.type \in {"multiSelect", "point"}
  BY <1>10, JsonForm, NilForm DEF Column, ToStore, Puts, Offer, Plains, Encoded
<1> QED
  BY <1>1, <1>2, <1>3, <1>4, <1>5, <1>6, <1>7, <1>8, <1>9, <1>10
  DEF RoundTripAssumption, FieldSchemas, Types, Plains

\* What is in the column is of its type, and means what was given; a uuid is never empty.
LEMMA PutsCell ==
  ASSUME NEW v, NEW c, Puts(v, c), schema.type = "uuid" => ~IsEmpty(v)
  PROVE  Cell(c)
<1>1. CASE v = Nil /\ c = Nil
  BY <1>1 DEF Cell, IsEmpty
<1>2. CASE schema.type = "password" /\ ~(v = Nil /\ c = Nil)
  BY <1>2 DEF Puts, Cell, Plains
<1>3. CASE schema.type = "encrypted" /\ ~(v = Nil /\ c = Nil)
  <2>1. \/ v = Text("") /\ c = v
        \/ (v \in Texts \ {Text("")} \/ v[1] = "cipher") /\ c = Cipher(key, v)
    BY <1>3 DEF Puts, Plains
  <2>2. Cipher(key, v)[1] = "cipher" /\ Cipher(key, v)[3] = v
    BY CipherForm
  <2> QED
    BY <1>3, <2>1, <2>2 DEF Cell
<1>4. CASE schema.type = "integer" /\ ~(v = Nil /\ c = Nil)
  BY <1>4 DEF Puts, Cell, Plains
<1>5. CASE schema.type = "boolean" /\ ~(v = Nil /\ c = Nil)
  BY <1>5 DEF Puts, Cell, Plains
<1>6. CASE schema.type \in {"string", "time", "json", "multiSelect", "point"} /\ ~(v = Nil /\ c = Nil)
  BY <1>6 DEF Puts, Cell, Plains
<1>7. CASE schema.type \in Plains /\ ~(v = Nil /\ c = Nil)
  BY <1>7 DEF Puts, Cell, Plains, IsEmpty
<1> QED
  BY <1>1, <1>2, <1>3, <1>4, <1>5, <1>6, <1>7 DEF Puts

\* No conversion on the way into the column changes what is meant: a hash stands for
\* what was hashed, an encoding for what was encoded.  A ciphertext that was taken for
\* a text is the exception.
LEMMA PutsMeaning ==
  ASSUME NEW v, NEW c, Puts(v, c), v[1] # "cipher"
  PROVE  Meaning(c) = Says(v)
<1>1. CASE v = Nil /\ c = Nil
  BY <1>1, NilForm DEF Meaning, Says, MeantBy
<1> DEFINE Other == ~(v = Nil /\ c = Nil)
<1>2. CASE schema.type = "string" /\ Other
  <2>1. CASE v \in Texts /\ c = v
    BY <1>2, <2>1, TextForms DEF Meaning, Says, MeantBy
  <2>2. CASE v \in {Number(1), Digits(1)} /\ c = Digits(1)
    <3>1. Meaning(c) = Number(1)
      BY <1>2, <2>2, DigitsForm, NilForm DEF Meaning
    <3>2. Says(v) = Number(1)
      BY <1>2, <2>2, DigitsForm, NumberForm DEF Says, MeantBy
    <3> QED
      BY <3>1, <3>2
  <2> QED
    BY <1>2, <2>1, <2>2 DEF Puts, Plains
<1>3. CASE schema.type \in Plains \cup {"time"} /\ Other
  <2>1. v \in Texts /\ c = v
    BY <1>3 DEF Puts, Plains
  <2> QED
    BY <1>3, <2>1, TextForms DEF Meaning, Says, MeantBy, Plains
<1>5. CASE schema.type = "password" /\ Other
  <2>1. CASE v = Text("") /\ c = v
    BY <1>5, <2>1, EmptyText, NilForm DEF Meaning, Says, MeantBy
  <2>2. CASE v \in Texts \ {Text("")} /\ c = Hash(v)
    <3>1. Meaning(c) = v
      BY <1>5, <2>2, HashForm, NilForm DEF Meaning
    <3>2. Says(v) = v
      BY <1>5, <2>2, TextForms DEF Says, MeantBy
    <3> QED
      BY <3>1, <3>2
  <2>3. CASE \E t \in Texts : v = Hash(t) /\ c = v
    <3>1. v[1] = "hash" /\ c = v
      BY <2>3, HashForm
    <3> QED
      BY <1>5, <3>1, NilForm DEF Meaning, Says
  <2> QED
    BY <1>5, <2>1, <2>2, <2>3 DEF Puts, Plains
<1>6. CASE schema.type = "encrypted" /\ Other
  <2>1. CASE v = Text("") /\ c = v
    BY <1>6, <2>1, EmptyText, NilForm DEF Meaning, Says, MeantBy
  <2>2. CASE v \in Texts \ {Text("")} /\ c = Cipher(key, v)
    <3>1. c[1] = "cipher" /\ c[3] = v
      BY <2>2, CipherForm
    <3>2. Meaning(c) = v
      BY <1>6, <3>1, NilForm DEF Meaning
    <3>3. Says(v) = v
      BY <1>6, <2>2, TextForms DEF Says, MeantBy
    <3> QED
      BY <3>2, <3>3
  <2> QED
    BY <1>6, <2>1, <2>2 DEF Puts, Plains
<1>7. CASE schema.type = "integer" /\ Other
  <2>1. PICK n \in Nat : (v = Number(n) \/ (n # 0 /\ v = Digits(n))) /\ c = Number(n)
    BY <1>7 DEF Puts, Plains
  <2>2. Meaning(c) = c
    BY <1>7, <2>1, NumberForm, NilForm DEF Meaning
  <2>3. Says(v) = Number(n)
    BY <1>7, <2>1, NumberForm, DigitsForm DEF Says, MeantBy
  <2> QED
    BY <2>1, <2>2, <2>3
<1>8. CASE schema.type = "boolean" /\ Other
  <2>1. (v = Bool(TRUE) /\ c = Number(1)) \/ (v = Bool(FALSE) /\ c = Number(0))
    BY <1>8 DEF Puts, Plains
  <2>2. Says(v) = v
    BY <1>8, <2>1, BoolForm DEF Says, MeantBy
  <2>3. c[1] = "number" /\ c # Nil
    BY <2>1, NumberForm, NilForm
  <2>4. Meaning(c) = Bool(c[2] # 0)
    BY <1>8, <2>3 DEF Meaning
  <2>5. CASE c = Number(1)
    <3>1. c[2] = 1
      BY <2>5, NumberForm
    <3>4. c[2] # 0
      BY <3>1
    <3>5. Bool(c[2] # 0) = Bool(TRUE)
      BY <3>4
    <3>2. Meaning(c) = Bool(TRUE)
      BY <2>4, <3>5
    <3>3. c # Number(0)
      BY <3>1, NumberForm
    <3> QED
      BY <2>1, <2>2, <3>2, <3>3
  <2>6. CASE c = Number(0)
    <3>1. c[2] = 0
      BY <2>6, NumberForm
    <3>2. Meaning(c) = Bool(FALSE)
      BY <2>4, <3>1
    <3>3. c # Number(1)
      BY <3>1, NumberForm
    <3> QED
      BY <2>1, <2>2, <3>2, <3>3
  <2> QED
    BY <2>1, <2>5, <2>6
<1>9. CASE schema.type = "json" /\ Other
  <2>1. c = Json(Object("shape")) /\ v \in {Object("shape"), Json(Object("shape"))}
    BY <1>9 DEF Puts, Plains
  <2>2. Meaning(c) = Object("shape")
    BY <1>9, <2>1, JsonForm, NilForm DEF Meaning
  <2>3. Says(v) = Object("shape")
    BY <1>9, <2>1, JsonForm, ObjectForm DEF Says, MeantBy
  <2> QED
    BY <2>2, <2>3
<1>10. CASE schema.type \in {"multiSelect", "point"} /\ Other
  <2>1. v \in Shapes /\ c = Json(v)
    BY <1>10 DEF Puts, Plains
  <2>2. Meaning(c) = v
    BY <1>10, <2>1, JsonForm, NilForm DEF Meaning
  <2>3. Says(v) = v
    BY <1>10, <2>1, JsonForm, ObjectForm DEF Says, MeantBy, Shapes
  <2> QED
    BY <2>2, <2>3
<1> QED
  BY <1>1, <1>2, <1>3, <1>5, <1>6, <1>7, <1>8, <1>9, <1>10 DEF Puts

\* What scanRows makes of a column can be sent back, and still means what the column
\* means, unless it is a ciphertext under another key.
LEMMA CellRead ==
  ASSUME NEW c, Cell(c)
  PROVE  /\ Offer(FromStore(c))
         /\ FromStore(c)[1] # "cipher" => Says(FromStore(c)) = Meaning(c)
         /\ schema.type = "uuid" => ~IsEmpty(FromStore(c))
         /\ schema.type = "string" => FromStore(c)[1] # "number"
<1>1. CASE c = Nil /\ schema.type # "uuid"
  BY <1>1, NilForm DEF Offer, FromStore, Says, MeantBy, Meaning
<1> DEFINE Other == ~(c = Nil /\ schema.type # "uuid")
<1>2. CASE schema.type = "string" /\ Other
  <2>1. c \in Texts \/ c = Digits(1)
    BY <1>2 DEF Cell, Plains
  <2>2. FromStore(c) = c
    BY <1>2, NilForm DEF FromStore, Plainly
  <2>3. c # Nil /\ c[1] \in {"text", "digits"}
    BY <2>1, TextForms, DigitsForm, NilForm
  <2>4. Says(c) = Meaning(c)
    BY <1>2, <2>3 DEF Says, MeantBy, Meaning
  <2>5. Offer(c)
    BY <1>2, <2>1 DEF Offer
  <2> QED
    BY <1>2, <2>2, <2>3, <2>4, <2>5
<1>3. CASE schema.type \in Plains /\ Other
  <2>1. c \in Texts /\ (schema.type = "uuid" => c # Text(""))
    BY <1>3 DEF Cell, Plains
  <2>2. FromStore(c) = c
    BY <1>3, NilForm DEF FromStore, Plainly, Plains
  <2>3. c # Nil /\ c[1] = "text"
    BY <2>1, TextForms
  <2>4. Says(c) = Meaning(c)
    BY <1>3, <2>3 DEF Says, MeantBy, Meaning, Plains
  <2>5. c # Number(0)
    BY <2>3, NumberForm
  <2> QED
    BY <1>3, <2>1, <2>2, <2>3, <2>4, <2>5 DEF Offer, IsEmpty
<1>4. CASE schema.type = "time" /\ Other
  <2>1. c \in Texts /\ c # Nil /\ c[1] = "text"
    BY <1>4, TextForms DEF Cell, Plains
  <2>2. FromStore(c) = Base64(c)
    BY <1>4, <2>1 DEF FromStore, Plainly
  <2>3. Says(Base64(c)) = c
    BY Base64Form DEF Says
  <2>4. Meaning(c) = c
    BY <1>4, <2>1 DEF Meaning
  <2> QED
    BY <1>4, <2>1, <2>2, <2>3, <2>4 DEF Offer
<1>5. CASE schema.type = "password" /\ Other
  <2>1. c = Text("") \/ \E t \in Texts : c = Hash(t)
    BY <1>5 DEF Cell, Plains
  <2>2. c # Nil /\ (c = Text("") \/ c[1] = "hash")
    BY <2>1, HashForm, EmptyText, NilForm
  <2>3. FromStore(c) = c
    BY <1>5, <2>2 DEF FromStore, Plainly
  <2>4. Says(c) = Meaning(c)
    BY <1>5, <2>2, EmptyText DEF Says, MeantBy, Meaning
  <2>5. Text("") \in Texts
    BY DEF Texts
  <2> QED
    BY <1>5, <2>1, <2>3, <2>4, <2>5 DEF Offer
<1>6. CASE schema.type = "encrypted" /\ Other
  <2>1. CASE c = Text("")
    <3>1. FromStore(c) = c
      BY <1>6, <2>1, EmptyText, NilForm DEF FromStore, Opened
    <3>2. Says(c) = Meaning(c)
      BY <1>6, <2>1, EmptyText, NilForm DEF Says, MeantBy, Meaning
    <3>3. Text("") \in Texts
      BY DEF Texts
    <3> QED
      BY <1>6, <2>1, <3>1, <3>2, <3>3 DEF Offer
  <2>2. CASE c[1] = "cipher" /\ (c[3] \in Texts \ {Text("")} \/ c[3][1] = "cipher")
    <3>1. FromStore(c) = c \/ FromStore(c) = c[3]
      BY <1>6, <2>2, NilForm DEF FromStore, Opened
    <3>2. Meaning(c) = c[3]
      BY <1>6, <2>2, NilForm DEF Meaning
    <3>3. c[3] \in Texts => Says(c[3]) = c[3]
      BY <1>6, TextForms DEF Says, MeantBy
    <3> QED
      BY <1>6, <2>2, <3>1, <3>2, <3>3 DEF Offer
  <2> QED
    BY <1>6, <2>1, <2>2 DEF Cell, Plains
<1>7. CASE schema.type = "integer" /\ Other
  <2>1. PICK n \in Nat : c = Number(n)
    BY <1>7 DEF Cell, Plains
  <2>2. c # Nil /\ c[1] = "number"
    BY <2>1, NumberForm, NilForm
  <2>3. FromStore(c) = c /\ Meaning(c) = c /\ Says(c) = c
    BY <1>7, <2>2 DEF FromStore, Plainly, Says, MeantBy, Meaning
  <2> QED
    BY <1>7, <2>1, <2>3 DEF Offer
<1>8. CASE schema.type = "boolean" /\ Other
  <2>1. c = Number(1) \/ c = Number(0)
    BY <1>8 DEF Cell, Plains
  <2>2. c # Nil /\ c[1] = "number"
    BY <2>1, NumberForm, NilForm
  <2>3. FromStore(c) = Bool(c[2] # 0) /\ Meaning(c) = Bool(c[2] # 0)
    BY <1>8, <2>2 DEF FromStore, Plainly, Meaning
  <2>4. Bool(c[2] # 0) = Bool(TRUE) \/ Bool(c[2] # 0) = Bool(FALSE)
    <3>1. CASE c[2] # 0
      BY <3>1
    <3>2. CASE c[2] = 0
      BY <3>2
    <3> QED
      BY <3>1, <3>2
  <2>5. Says(Bool(TRUE)) = Bool(TRUE) /\ Says(Bool(FALSE)) = Bool(FALSE)
    BY <1>8, BoolForm DEF Says, MeantBy
  <2> QED
    BY <1>8, <2>3, <2>4, <2>5 DEF Offer
<1>9. CASE schema.type = "json" /\ Other
  <2>1. c = Json(Object("shape"))
    BY <1>9 DEF Cell, Plains
  <2>2. c # Nil /\ c[1] = "json"
    BY <2>1, JsonForm, NilForm
  <2>3. FromStore(c) = c /\ Meaning(c) = c[2] /\ Says(c) = c[2]
    BY <1>9, <2>2 DEF FromStore, Plainly, Says, MeantBy, Meaning
  <2> QED
    BY <1>9, <2>1, <2>3 DEF Offer
<1>10. CASE schema.type \in {"multiSelect", "point"} /\ Other
  <2>1. PICK v \in Shapes : c = Json(v)
    BY <1>10 DEF Cell, Plains
  <2>2. c # Nil /\ c[1] = "json" /\ c[2] = v
    BY <2>1, JsonForm, NilForm
  <2>3. FromStore(c) = v /\ Meaning(c) = v
    BY <1>10, <2>2 DEF FromStore, Unmarshalled, Meaning
  <2>4. Says(v) = v
    BY <1>10, JsonForm, ObjectForm DEF Says, MeantBy, Shapes
  <2> QED
    BY <1>10, <2>3, <2>4 DEF Offer
<1> QED
  BY <1>1, <1>2, <1>3, <1>4, <1>5, <1>6, <1>7, <1>8, <1>9, <1>10 DEF Cell

\* What fits and what is not empty does so and is so when it is read.
LEMMA PutsRules ==
  ASSUME NEW v, NEW c, Puts(v, c)
  PROVE  /\ ~IsEmpty(v) => ~IsEmpty(FromStore(c))
         /\ (IsEmpty(v) \/ Fits(v)) /\ ~(schema.type = "string" /\ v = Number(1)) =>
              IsEmpty(FromStore(c)) \/ Fits(FromStore(c))
<1> DEFINE Back == FromStore(c)
<1>1. CASE v = Nil /\ c = Nil
  BY <1>1 DEF FromStore, IsEmpty
<1> DEFINE Other == ~(v = Nil /\ c = Nil)
<1>11. ASSUME Back = v
       PROVE  /\ ~IsEmpty(v) => ~IsEmpty(FromStore(c))
              /\ (IsEmpty(v) \/ Fits(v)) => IsEmpty(FromStore(c)) \/ Fits(FromStore(c))
  BY <1>11
<1>12. ASSUME schema.type \in {"time", "password", "encrypted", "integer", "boolean", "json", "multiSelect"}
       PROVE  Fits(Back)
  BY <1>12 DEF Fits
<1>13. \A w : w[1] \in {"digits", "base64", "hash", "json", "bool"} => ~IsEmpty(w)
  BY NilForm, EmptyText, NumberForm DEF IsEmpty
<1>2. CASE schema.type = "string" /\ Other
  <2>1. CASE v \in Texts /\ c = v
    <3>1. Back = v
      BY <1>2, <2>1, TextForms DEF FromStore, Plainly
    <3> QED
      BY <1>11, <3>1
  <2>2. CASE v \in {Number(1), Digits(1)} /\ c = Digits(1)
    <3>1. Back = Digits(1)
      BY <1>2, <2>2, DigitsForm, NilForm DEF FromStore, Plainly
    <3>2. ~IsEmpty(Digits(1)) /\ ~Fits(Digits(1))
      BY <1>2, <1>13, DigitsForm DEF Fits, FitsPattern
    <3> QED
      BY <1>2, <2>2, <3>1, <3>2
  <2> QED
    BY <1>2, <2>1, <2>2 DEF Puts, Plains
<1>3. CASE schema.type \in Plains /\ Other
  <2>1. v \in Texts /\ c = v
    BY <1>3 DEF Puts, Plains
  <2>2. Back = v
    BY <1>3, <2>1, TextForms DEF FromStore, Plainly, Plains
  <2> QED
    BY <1>11, <2>2
<1>4. CASE schema.type = "time" /\ Other
  <2>1. c \in Texts
    BY <1>4 DEF Puts, Plains
  <2>2. Back = Base64(c)
    BY <1>4, <2>1, TextForms DEF FromStore, Plainly
  <2> QED
    BY <1>4, <1>12, <1>13, <2>2, Base64Form
<1>5. CASE schema.type = "password" /\ Other
  <2>1. \/ v = Text("") /\ c = v
        \/ c[1] = "hash"
    BY <1>5, HashForm DEF Puts, Plains
  <2>2. Back = c
    BY <1>5, <2>1, NilForm, EmptyText DEF FromStore, Plainly
  <2>3. CASE v = Text("") /\ c = v
    BY <1>11, <2>2, <2>3
  <2>4. CASE c[1] = "hash"
    BY <1>5, <1>12, <1>13, <2>2, <2>4
  <2> QED
    BY <2>1, <2>3, <2>4
<1>6. CASE schema.type = "encrypted" /\ Other
  <2>1. \/ v = Text("") /\ c = v
        \/ c = Cipher(key, v)
    BY <1>6 DEF Puts, Plains
  <2>2. v = Text("") /\ c = v => Back = v
    BY <1>6, EmptyText, NilForm DEF FromStore, Opened
  <2>3. c = Cipher(key, v) => Back = v
    BY <1>6, CipherForm, NilForm DEF FromStore, Opened
  <2> QED
    BY <1>11, <2>1, <2>2, <2>3
<1>7. CASE schema.type = "integer" /\ Other
  <2>1. PICK n \in Nat : (v = Number(n) \/ (n # 0 /\ v = Digits(n))) /\ c = Number(n)
    BY <1>7 DEF Puts, Plains
  <2>2. Back = Number(n)
    BY <1>7, <2>1, NumberForm, NilForm DEF FromStore, Plainly
  <2>3. n # 0 => ~IsEmpty(Number(n))
    BY NumberForm, ZeroForm, NilForm, EmptyText DEF IsEmpty
  <2> QED
    BY <1>7, <1>12, <2>1, <2>2, <2>3
<1>8. CASE schema.type = "boolean" /\ Other
  <2>1. c = Number(1) \/ c = Number(0)
    BY <1>8 DEF Puts, Plains
  <2>2. Back = Bool(c[2] # 0)
    BY <1>8, <2>1, NumberForm, NilForm DEF FromStore, Plainly
  <2>3. Back[1] = "bool"
    BY <2>2, BoolForm
  <2> QED
    BY <1>8, <1>12, <1>13, <2>3
<1>9. CASE schema.type = "json" /\ Other
  <2>1. c = Json(Object("shape"))
    BY <1>9 DEF Puts, Plains
  <2>2. Back = c /\ Back[1] = "json"
    BY <1>9, <2>1, JsonForm, NilForm DEF FromStore, Plainly
  <2> QED
    BY <1>9, <1>12, <1>13, <2>2
<1>10. CASE schema.type \in {"multiSelect", "point"} /\ Other
  <2>1. v \in Shapes /\ c = Json(v)
    BY <1>10 DEF Puts, Plains
  <2>2. Back = v
    BY <1>10, <2>1, JsonForm, NilForm DEF FromStore, Unmarshalled
  <2> QED
    BY <1>11, <2>2
<1> QED
  BY <1>1, <1>2, <1>3, <1>4, <1>5, <1>6, <1>7, <1>8, <1>9, <1>10 DEF Puts

\* What becomes of the fields of a request that is not refused.
Generates(body, values) ==
  /\ schema.type = "uuid" => "field" \in DOMAIN values /\ ~IsEmpty(values["field"])
  /\ IF "field" \in DOMAIN body /\ (schema.type = "uuid" => ~IsEmpty(body["field"]))
     THEN "field" \in DOMAIN values /\ values["field"] = body["field"]
     ELSE "field" \in DOMAIN values => schema.type = "uuid" /\ values["field"] = Text("new")

Totals(values) ==
  schema.formula =>
    /\ "input" \in DOMAIN values /\ values["input"][1] = "number"
    /\ "total" \in DOMAIN values /\ values["total"] = Sum(values["input"])

\* applyAutoFields leaves the field as it is, or gives it a new uuid, and computes the
\* total of the input that is carried.
LEMMA Automatic ==
  ASSUME NEW body, Proper(AutoFields(body))
  PROVE  Generates(body, AutoFields(body)) /\ Totals(AutoFields(body))
<1> DEFINE lacking == "field" \notin DOMAIN body \/ IsEmpty(body["field"])
           new == With(body, "field", Text("new"))
           generated == IF schema.type = "uuid" /\ lacking THEN new ELSE body
<1>1. ~IsEmpty(Text("new"))
  BY NilForm, NewText, EmptyText, ZeroForm DEF IsEmpty
<1>2. /\ DOMAIN new = DOMAIN body \cup {"field"}
      /\ new["field"] = Text("new")
      /\ "input" \in DOMAIN body => new["input"] = body["input"]
  BY DEF With
<1> HIDE DEF new
<1>3. "input" \in DOMAIN body => "input" \in DOMAIN generated /\ generated["input"] = body["input"]
  BY <1>2
<1>4. Generates(body, generated)
  <2>1. CASE schema.type = "uuid" /\ lacking
    <3>1. generated = new
      BY <2>1
    <3> QED
      BY <1>1, <1>2, <2>1, <3>1 DEF Generates
  <2>2. CASE ~(schema.type = "uuid" /\ lacking)
    <3>1. generated = body
      BY <2>2
    <3> QED
      BY <2>2, <3>1 DEF Generates
  <2> QED
    BY <2>1, <2>2
<1>5. CASE ~schema.formula
  <2>1. AutoFields(body) = generated
    BY <1>5 DEF AutoFields, new
  <2> HIDE DEF generated
  <2> QED
    BY <1>4, <1>5, <2>1 DEF Totals
<1>6. CASE schema.formula
  <2>1. /\ "input" \in DOMAIN body /\ body["input"][1] = "number"
        /\ AutoFields(body) = With(generated, "total", Sum(body["input"]))
    BY <1>6 DEF AutoFields, Proper, new
  <2> HIDE DEF generated
  <2> DEFINE full == With(generated, "total", Sum(body["input"]))
  <2>2. /\ DOMAIN full = DOMAIN generated \cup {"total"}
        /\ full["total"] = Sum(body["input"])
        /\ "input" \in DOMAIN generated => full["input"] = generated["input"]
        /\ "field" \in DOMAIN generated => full["field"] = generated["field"]
    BY DEF With
  <2> HIDE DEF full
  <2>3. AutoFields(body) = full
    BY <2>1 DEF full
  <2>4. Generates(body, full)
    BY <1>4, <2>2 DEF Generates
  <2>5. Totals(full)
    BY <1>3, <2>1, <2>2 DEF Totals
  <2> QED
    BY <2>3, <2>4, <2>5
<1> QED
  BY <1>5, <1>6

\* A hook changes the number, and the field of a text.
LEMMA Hooking ==
  ASSUME NEW body, NEW values, NEW place, Proper(Hooked(values, place))
  PROVE  /\ Proper(values)
         /\ schema.hook # place => Hooked(values, place) = values
         /\ schema.type # "string" /\ Generates(body, values) => Generates(body, Hooked(values, place))
         /\ schema.hook = place /\ schema.type = "string" =>
              /\ "field" \in DOMAIN Hooked(values, place)
              /\ Hooked(values, place)["field"] = Text("bad")
<1> DEFINE changed == With(values, "input", Number(Limit + 1))
           spoilt == With(changed, "field", Text("bad"))
<1>1. /\ DOMAIN changed = DOMAIN values \cup {"input"}
      /\ "field" \in DOMAIN values => changed["field"] = values["field"]
  BY DEF With
<1>2. "field" \in DOMAIN spoilt /\ spoilt["field"] = Text("bad")
  BY DEF With
<1>3. Hooked(values, place) = IF schema.hook # place \/ values = Failed THEN values
                              ELSE IF schema.type = "string" THEN spoilt ELSE changed
  BY DEF Hooked
<1> HIDE DEF changed, spoilt
<1>4. Proper(values)
  BY <1>3 DEF Proper
<1>5. schema.type # "string" /\ Generates(body, values) => Generates(body, changed)
  BY <1>1 DEF Generates
<1> QED
  BY <1>2, <1>3, <1>4, <1>5 DEF Proper

\* The values that are stored in the end.
LEMMA Preparing ==
  ASSUME NEW body, NEW isUpdate, NEW values, values = Prepared(body, isUpdate), Proper(values)
  PROVE  /\ schema.hook = "none" \/ schema.type # "string" => Generates(body, values)
         /\ schema.hook # "none" /\ schema.type = "string" =>
              schema.hook # "beforeValidate"
         /\ schema.hook = "beforeSave" /\ schema.type = "string" =>
              "field" \in DOMAIN values /\ values["field"] = Text("bad")
         /\ schema.hook # "beforeSave" => Valid(values, isUpdate)
         /\ schema.hook = "none" => Totals(values)
<1> DEFINE first == AutoFields(body)
           hooked == Hooked(first, "beforeValidate")
           last == Hooked(hooked, "beforeSave")
<1>1. Proper(hooked) /\ Valid(hooked, isUpdate) /\ values = last
  BY DEF Prepared, Proper
<1>2. Proper(first)
  BY <1>1, Hooking
<1>3. Generates(body, first) /\ Totals(first)
  BY <1>2, Automatic
<1>4. Proper(last)
  BY <1>1
<1> HIDE DEF first
<1>5. /\ schema.hook # "beforeValidate" => hooked = first
      /\ schema.type # "string" => Generates(body, hooked)
      /\ schema.hook = "beforeValidate" /\ schema.type = "string" =>
           "field" \in DOMAIN hooked /\ hooked["field"] = Text("bad")
  BY <1>1, <1>3, Hooking
<1> HIDE DEF hooked
<1>6. /\ schema.hook # "beforeSave" => last = hooked
      /\ schema.type # "string" => Generates(body, last)
      /\ schema.hook = "beforeSave" /\ schema.type = "string" =>
           "field" \in DOMAIN last /\ last["field"] = Text("bad")
  BY <1>4, <1>5, Hooking
<1> HIDE DEF last
<1>7. schema.hook = "beforeValidate" => schema.type # "string"
  <2> SUFFICES ASSUME schema.hook = "beforeValidate", schema.type = "string" PROVE FALSE
    OBVIOUS
  <2>1. IsEmpty(hooked["field"]) \/ Fits(hooked["field"])
    BY <1>1, <1>5 DEF Valid
  <2>2. hooked["field"] = Text("bad")
    BY <1>5
  <2>3. ~IsEmpty(Text("bad"))
    BY BadText, EmptyText, NilForm, ZeroForm DEF IsEmpty
  <2>4. ~Fits(Text("bad"))
    BY DEF Fits, FitsPattern
  <2> QED
    BY <2>1, <2>2, <2>3, <2>4
<1> QED
  BY <1>1, <1>3, <1>5, <1>6, <1>7

-----------------------------------------------------------------------------
(***************************************************************************)
(* RoundTrip: the invariant.                                               *)
(***************************************************************************)
Basics ==
  /\ schema \in FieldSchemas /\ key \in Keys /\ blurred \in BOOLEAN
  /\ DOMAIN stored = RecordIds /\ DOMAIN meant = RecordIds
  /\ copy.id \in RecordIds \cup {0}
  /\ emptied \cup bypassed \cup sealed \subseteq RecordIds

RowOK(row) ==
  row = NoRow \/ (row = [field |-> row.field, input |-> row.input, total |-> row.total] /\ Cell(row.field))

RowsInv == \A i \in RecordIds : RowOK(stored[i])

\* What was sealed in ciphertext is read as ciphertext.
SealInv ==
  \A i \in sealed :
    /\ stored[i] # NoRow
    /\ stored[i].field[1] = "cipher" /\ stored[i].field[3][1] = "cipher"

CopyForm ==
  copy.id # 0 =>
    /\ Offer(copy.record.field)
    /\ schema.type = "uuid" => ~IsEmpty(copy.record.field)
    /\ schema.type = "string" => copy.record.field[1] # "number"
    /\ copy.id \in sealed => copy.record.field[1] = "cipher"

CopyMeans ==
  copy.id # 0 /\ ~blurred =>
    /\ copy.meant # NoValue
    /\ copy.record.field[1] # "cipher" => Says(copy.record.field) = copy.meant

TripInvar ==
  Basics /\ RowsInv /\ SealInv /\ CopyForm /\ CopyMeans /\ MeaningKept /\ RulesMet

\* The invariant, row by row.
RuleOf(i, row, e, b) ==
  LET v == FromStore(row.field) IN
  /\ schema.required /\ schema.hook # "beforeSave" => ~IsEmpty(v) \/ i \in e
  /\ schema.hook # "beforeSave" /\ i \notin b => IsEmpty(v) \/ Fits(v)
  /\ schema.tableRule /\ schema.hook # "beforeSave" => row.input[2] <= Limit
  /\ schema.formula /\ schema.hook = "none" => row.total = Sum(row.input)

MeansOf(i, row, m, sl) ==
  /\ m = NoValue <=> row = NoRow
  /\ row # NoRow /\ i \notin sl => Meaning(row.field) = m

\* RowsInv after a step, from each row.
LEMMA RowsStay ==
  ASSUME schema'.type = schema.type, \A i \in RecordIds : \A row : row = stored'[i] => RowOK(row)
  PROVE  RowsInv'
<1> SUFFICES ASSUME NEW i \in RecordIds, stored'[i] # NoRow
             PROVE  RowOK(stored[i])'
  BY DEF RowsInv, RowOK
<1>1. PICK row : row = stored'[i]
  OBVIOUS
<1>2. row = [field |-> row.field, input |-> row.input, total |-> row.total] /\ Cell(row.field)
  BY <1>1 DEF RowOK
<1>3. PICK c : c = row.field
  OBVIOUS
<1>4. Cell(c)'
  BY <1>2, <1>3 DEF Cell
<1>5. Cell(stored[i].field)'
  BY <1>1, <1>3, <1>4 DEF Cell
<1> QED
  BY <1>1, <1>2, <1>5 DEF RowOK

\* MeaningKept after a step, from each row.
LEMMA MeansStay ==
  ASSUME schema'.type = schema.type,
         ~blurred' => \A i \in RecordIds : \A row, m, sl :
           row = stored'[i] /\ m = meant'[i] /\ sl = sealed' => MeansOf(i, row, m, sl)
  PROVE  MeaningKept'
BY DEF MeaningKept, MeansOf, Meaning, Saved

\* RulesMet after a step that does not change the key, from each row.
LEMMA RulesStay ==
  ASSUME UNCHANGED <<schema, key>>,
         \A i \in RecordIds : \A row, e, b :
           row = stored'[i] /\ row # NoRow /\ e = emptied' /\ b = bypassed' => RuleOf(i, row, e, b)
  PROVE  RulesMet'
<1> SUFFICES ASSUME NEW i \in RecordIds, NEW row, NEW e, NEW b, row # NoRow,
                    row = stored'[i], e = emptied', b = bypassed'
             PROVE  RuleOf(i, row, e, b)'
  BY DEF RulesMet, RuleOf, Saved, FromStore, Opened, Plainly, IsEmpty, Fits
<1> QED
  BY DEF RuleOf, FromStore, Opened, Plainly, IsEmpty, Fits

\* Steps that leave a client's copy alone do not spoil it.
LEMMA CopyStays ==
  ASSUME CopyForm, CopyMeans, schema'.type = schema.type, UNCHANGED copy,
         sealed' \subseteq sealed, blurred => blurred'
  PROVE  CopyForm' /\ CopyMeans'
BY DEF CopyForm, CopyMeans, Offer, Says, MeantBy, IsEmpty

\* A float64 holds the integers up to 2^53, and makes no zero of another number.
LEMMA Decoding ==
  ASSUME RoundTripAssumption, NEW n \in Nat
  PROVE  Rounded(n) \in Nat /\ (Rounded(n) = 0 <=> n = 0) /\ (n <= Exact => Rounded(n) = n)
BY DEF RoundTripAssumption, Rounded

\* What clients send, when it has been decoded.
Known == {"nil", "text", "number", "digits", "bool", "object", "json"}

\* What clients send is of the form that the field may be given, and means the same when
\* it has been decoded, unless it is a number beyond 2^53.
LEMMA GivenForm ==
  ASSUME RoundTripAssumption, schema \in FieldSchemas, NEW g \in Given
  PROVE  /\ Offer(Decoded(g)) /\ g[1] \in Known /\ Decoded(g)[1] = g[1]
         /\ IsEmpty(Decoded(g)) <=> IsEmpty(g)
         /\ ~Blurs(g) => Decoded(g) = g
<1>1. CASE g[1] \in Known \ {"number"} /\ Offer(g)
  BY <1>1 DEF Decoded
<1>2. CASE \E n \in Nat : g = Number(n) /\ (schema.type = "integer" \/ (schema.type = "string" /\ n = 1))
  <2>1. PICK n \in Nat : g = Number(n) /\ (schema.type = "integer" \/ (schema.type = "string" /\ n = 1))
    BY <1>2
  <2>2. g[1] = "number" /\ g[2] = n
    BY <2>1, NumberForm
  <2>3. PICK m \in Nat : m = Rounded(n) /\ (m = 0 <=> n = 0) /\ (n <= Exact => m = n)
    BY Decoding
  <2>4. Decoded(g) = Number(m)
    BY <2>2, <2>3 DEF Decoded
  <2>5. Number(m)[1] = "number" /\ Number(m)[2] = m
    BY NumberForm
  <2>6. IsEmpty(Number(m)) <=> m = 0
    BY <2>5, NilForm, EmptyText, ZeroForm DEF IsEmpty
  <2>7. IsEmpty(g) <=> n = 0
    BY <2>1, <2>2, NilForm, EmptyText, ZeroForm DEF IsEmpty
  <2>8. schema.type = "string" => m = 1
    BY <2>1, <2>3 DEF RoundTripAssumption
  <2>9. Offer(Decoded(g))
    BY <2>1, <2>4, <2>8 DEF Offer
  <2>10. ~Blurs(g) => n <= Exact
    BY <2>2 DEF Blurs, RoundTripAssumption
  <2> QED
    BY <2>1, <2>2, <2>3, <2>4, <2>5, <2>6, <2>7, <2>9, <2>10 DEF Known
<1>3. CASE g = Nil
  BY <1>1, <1>3, NilForm DEF Offer, Known
<1>4. CASE g \in Texts /\ schema.type \in {"string", "choice", "url", "uuid", "time", "password", "encrypted"}
  BY <1>1, <1>4, TextForms DEF Offer, Known, Plains
<1>5. CASE schema.type = "integer" /\ g # Nil
  <2>1. g \in {Number(0), Number(Exact + 1), Digits(Exact + 1)}
    BY <1>5 DEF Given
  <2>2. CASE g \in {Number(0), Number(Exact + 1)}
    <3>1. PICK n \in Nat : g = Number(n)
      BY <2>2 DEF RoundTripAssumption
    <3>2. g = Number(n) /\ schema.type = "integer"
      BY <1>5, <3>1
    <3>3. \E m \in Nat :
            g = Number(m) /\ (schema.type = "integer" \/ (schema.type = "string" /\ m = 1))
      BY <3>2
    <3> QED
      BY <1>2, <3>3
  <2>3. CASE g = Digits(Exact + 1)
    <3>1. PICK n \in Nat : n # 0 /\ g = Digits(n)
      BY <2>3 DEF RoundTripAssumption
    <3> QED
      BY <1>1, <1>5, <3>1, DigitsForm DEF Offer, Known
  <2> QED
    BY <2>1, <2>2, <2>3
<1>6. CASE schema.type = "boolean" /\ g # Nil
  <2>1. g = Bool(TRUE) \/ g = Bool(FALSE)
    BY <1>6 DEF Given
  <2>2. g[1] = "bool"
    BY <2>1, BoolForm
  <2> QED
    BY <1>1, <1>6, <2>1, <2>2 DEF Offer, Known
<1>7. CASE schema.type = "json" /\ g # Nil
  <2>1. g \in {Object("shape"), Json(Object("shape")), Text("bad")}
    BY <1>7 DEF Given
  <2>2. g[1] = "object" \/ g[1] = "json" \/ g[1] = "text"
    BY <2>1, ObjectForm, JsonForm, BadText
  <2> QED
    BY <1>1, <1>7, <2>1, <2>2 DEF Offer, Known
<1>8. CASE schema.type \in {"multiSelect", "point"} /\ g # Nil
  <2>1. g \in Shapes
    BY <1>8 DEF Given, Shapes
  <2>2. g[1] = "object" \/ g[1] = "json"
    BY <2>1, ObjectForm, JsonForm DEF Shapes
  <2> QED
    BY <1>1, <1>8, <2>1, <2>2 DEF Offer, Known
<1>9. CASE schema.type = "string" /\ g # Nil
  <2>1. g \in Texts \/ g = Number(1)
    BY <1>9 DEF Given, Texts
  <2> QED
    BY <1>2, <1>4, <1>9, <2>1
<1>10. CASE schema.type \in {"choice", "url", "uuid", "time", "password", "encrypted"} /\ g # Nil
  <2>1. g \in Texts
    BY <1>10 DEF Given, Texts
  <2> QED
    BY <1>4, <1>10, <2>1
<1> QED
  BY <1>3, <1>5, <1>6, <1>7, <1>8, <1>9, <1>10 DEF RoundTripAssumption, FieldSchemas, Types

\* What a write is given, and what it makes of it.
LEMMA Body ==
  ASSUME NEW body \in Bodies
  PROVE  "field" \in DOMAIN body => body["field"] \in Given
<1>1. CASE body \in [{"field"} -> Given]
  BY <1>1
<1>2. CASE body \in {[f \in {"input"} |-> Number(n)] : n \in Inputs}
  BY <1>2
<1>3. CASE \E v \in Given, n \in Inputs :
             body = [f \in {"field", "input"} |-> IF f = "field" THEN v ELSE Number(n)]
  BY <1>3
<1> QED
  BY <1>1, <1>2, <1>3 DEF Bodies

\* The field of a request that is not refused: what is validated is what is stored, and
\* what is read of it meets the rules.
LEMMA Carrying ==
  ASSUME RoundTripAssumption, schema \in FieldSchemas, NEW body, NEW values, NEW isUpdate,
         values = Prepared(body, isUpdate), Proper(values),
         "field" \in DOMAIN body => Offer(body["field"]),
         "field" \in DOMAIN values, NEW c \in Column(ToStore(values["field"]))
  PROVE  /\ Offer(values["field"]) /\ Puts(values["field"], c) /\ Cell(c)
         /\ ~IsEmpty(values["field"]) => ~IsEmpty(FromStore(c))
         /\ schema.hook # "beforeSave" /\ ~(schema.type = "string" /\ values["field"] = Number(1)) =>
              IsEmpty(FromStore(c)) \/ Fits(FromStore(c))
         /\ schema.hook # "beforeSave" /\ schema.required /\ ~isUpdate => ~IsEmpty(values["field"])
<1>1. schema.hook \in {"none", "beforeValidate", "beforeSave"}
  BY DEF RoundTripAssumption, FieldSchemas
<1>2. Text("bad") \in Texts /\ Text("new") \in Texts
  BY DEF Texts, RoundTripAssumption
<1>3. Offer(values["field"]) /\ (schema.type = "uuid" => ~IsEmpty(values["field"]))
  <2>1. CASE schema.hook = "none" \/ schema.type # "string"
    <3>1. Generates(body, values)
      BY <2>1, Preparing
    <3> QED
      BY <1>2, <3>1 DEF Generates, Offer, Plains
  <2>2. CASE schema.hook # "none" /\ schema.type = "string"
    <3>1. values["field"] = Text("bad")
      BY <1>1, <2>2, Preparing
    <3> QED
      BY <1>2, <2>2, <3>1 DEF Offer
  <2> QED
    BY <2>1, <2>2
<1>4. Puts(values["field"], c)
  BY <1>3, Stores
<1>5. Cell(c)
  BY <1>3, <1>4, PutsCell
<1>6. schema.hook # "beforeSave" => Valid(values, isUpdate)
  BY Preparing
<1>7. schema.hook # "beforeSave" => IsEmpty(values["field"]) \/ Fits(values["field"])
  BY <1>6 DEF Valid
<1>8. schema.hook # "beforeSave" /\ schema.required /\ ~isUpdate => ~IsEmpty(values["field"])
  BY <1>6 DEF Valid
<1> QED
  BY <1>3, <1>4, <1>5, <1>7, <1>8, PutsRules

\* The numbers of a row that was written.
LEMMA Numbers ==
  ASSUME RoundTripAssumption, schema \in FieldSchemas, NEW body, NEW values, NEW isUpdate,
         values = Prepared(body, isUpdate), Proper(values),
         NEW row, "input" \in DOMAIN values => row.input = Numeral(values["input"]),
         "total" \in DOMAIN values => row.total = values["total"]
  PROVE  /\ schema.tableRule /\ schema.hook # "beforeSave" => row.input[2] <= Limit
         /\ schema.formula /\ schema.hook = "none" => row.total = Sum(row.input)
<1>1. schema.hook # "beforeSave" => Valid(values, isUpdate)
  BY Preparing
<1>2. schema.hook = "none" => Totals(values)
  BY Preparing
<1>3. \A v : v[1] = "number" => Numeral(v) = v
  BY DEF Numeral
<1>4. schema.tableRule /\ schema.hook # "beforeSave" => row.input[2] <= Limit
  BY <1>1, <1>3 DEF Valid
<1>5. schema.formula /\ schema.hook = "none" => row.total = Sum(row.input)
  BY <1>2, <1>3 DEF Totals
<1> QED
  BY <1>4, <1>5

\* Nothing that is offered means nothing.
LEMMA Meant ==
  ASSUME NEW v, Offer(v), v[1] \in Known
  PROVE  MeantBy(v) # NoValue /\ Says(v) = MeantBy(v)
<1>1. v # NoValue
  BY NilForm DEF Known
<1>2. Says(v) = MeantBy(v)
  BY DEF Says, Known
<1>3. CASE v[1] = "digits"
  <2>1. MeantBy(v) = Number(v[2])
    BY <1>3 DEF MeantBy
  <2>2. Number(v[2])[1] = "number"
    BY NumberForm
  <2> QED
    BY <1>2, <2>1, <2>2, NilForm
<1>4. CASE schema.type = "json" /\ v[1] = "json"
  <2>1. v = Json(Object("shape"))
    BY <1>4, NilForm, ObjectForm, BadText DEF Offer, Plains
  <2>2. MeantBy(v) = Object("shape")
    BY <1>4, <2>1, JsonForm DEF MeantBy
  <2> QED
    BY <1>2, <2>2, ObjectForm, NilForm
<1>5. CASE v[1] # "digits" /\ ~(schema.type = "json" /\ v[1] = "json")
  <2>1. MeantBy(v) = v
    BY <1>5 DEF MeantBy
  <2> QED
    BY <1>1, <1>2, <2>1
<1> QED
  BY <1>2, <1>3, <1>4, <1>5

\* A row has a column.
LEMMA CellIs ==
  ASSUME NEW c, Cell(c)
  PROVE  c # NoValue
<1>1. NoValue[1] = "none"
  BY NilForm
<1>2. \A t \in Texts : t[1] = "text"
  BY TextForms
<1>3. \A v : Json(v)[1] = "json"
  BY JsonForm
<1>4. Digits(1)[1] = "digits" /\ Number(0)[1] = "number" /\ Number(1)[1] = "number" /\ Nil[1] = "nil"
  BY DigitsForm, NumberForm, NilForm
<1>5. \A n \in Nat : Number(n)[1] = "number"
  BY NumberForm
<1>6. \A v : Hash(v)[1] = "hash"
  BY HashForm
<1> QED
  BY <1>1, <1>2, <1>3, <1>4, <1>5, <1>6, EmptyText DEF Cell

\* More exceptions, the same rules.
LEMMA RuleGrows ==
  ASSUME NEW i, NEW row, NEW e, NEW b, RuleOf(i, row, e, b), NEW f, NEW d,
         i \in e => i \in f, i \in b => i \in d
  PROVE  RuleOf(i, row, f, d)
BY DEF RuleOf

\* The rules that a row met before a step.
LEMMA OldRules ==
  ASSUME RulesMet, NEW i \in RecordIds, stored[i] # NoRow
  PROVE  RuleOf(i, stored[i], emptied, bypassed)
BY DEF RulesMet, RuleOf, Saved

\* What a row meant before a step.
LEMMA OldMeans ==
  ASSUME MeaningKept, ~blurred, NEW i \in RecordIds
  PROVE  MeansOf(i, stored[i], meant[i], sealed)
BY DEF MeaningKept, MeansOf, Saved

\* A request that carries values, from its decoding to its row.
LEMMA Writing ==
  ASSUME RoundTripAssumption, TripInvar, NEW i \in RecordIds, NEW raw, NEW isUpdate \in BOOLEAN, NEW values,
         "field" \in DOMAIN raw => raw["field"] \in Given,
         values = Prepared(Plain(raw), isUpdate), Proper(values),
         isUpdate => stored[i] # NoRow,
         ~isUpdate => stored[i] = NoRow /\ meant[i] = NoValue,
         Put(i, values), Notes(i, raw, values),
         blurred => blurred', blurred' \in BOOLEAN, ~blurred' => \A f \in DOMAIN raw : ~Blurs(raw[f]),
         UNCHANGED <<schema, key, copy>>
  PROVE  TripInvar'
<1> DEFINE carried == "field" \in DOMAIN values
           body == Plain(raw)
<1>1. PICK c, row :
        /\ c \in IF carried THEN Column(ToStore(values["field"])) ELSE {Stays(i).field}
        /\ row = [field |-> row.field, input |-> row.input, total |-> row.total]
        /\ row.field = c
        /\ "input" \in DOMAIN values => row.input = Numeral(values["input"])
        /\ "total" \in DOMAIN values => row.total = values["total"]
        /\ "input" \notin DOMAIN values => row.input = Stays(i).input
        /\ "total" \notin DOMAIN values => row.total = Stays(i).total
        /\ stored' = [stored EXCEPT ![i] = row]
  BY DEF Put
<1>2. "field" \in DOMAIN body <=> "field" \in DOMAIN raw
  BY DEF Plain
<1>3. "field" \in DOMAIN raw =>
        /\ body["field"] = Decoded(raw["field"])
        /\ Offer(body["field"]) /\ body["field"][1] \in Known /\ body["field"][1] = raw["field"][1]
        /\ IsEmpty(body["field"]) <=> IsEmpty(raw["field"])
        /\ ~blurred' => body["field"] = raw["field"]
  <2> SUFFICES ASSUME "field" \in DOMAIN raw
               PROVE  /\ body["field"] = Decoded(raw["field"])
                      /\ Offer(body["field"]) /\ body["field"][1] \in Known /\ body["field"][1] = raw["field"][1]
                      /\ IsEmpty(body["field"]) <=> IsEmpty(raw["field"])
                      /\ ~blurred' => body["field"] = raw["field"]
    OBVIOUS
  <2>1. body["field"] = Decoded(raw["field"])
    BY DEF Plain
  <2> QED
    BY <2>1, GivenForm DEF TripInvar, Basics
<1> HIDE DEF body
<1>4. schema \in FieldSchemas /\ schema.hook \in {"none", "beforeValidate", "beforeSave"}
  BY DEF TripInvar, Basics, RoundTripAssumption, FieldSchemas
<1>5. values = Prepared(body, isUpdate)
  BY DEF body
<1>6. carried => /\ Offer(values["field"]) /\ Puts(values["field"], c) /\ Cell(c)
                 /\ ~IsEmpty(values["field"]) => ~IsEmpty(FromStore(c))
                 /\ schema.hook # "beforeSave" /\ ~(schema.type = "string" /\ values["field"] = Number(1)) =>
                      IsEmpty(FromStore(c)) \/ Fits(FromStore(c))
                 /\ schema.hook # "beforeSave" /\ schema.required /\ ~isUpdate => ~IsEmpty(values["field"])
  BY <1>1, <1>2, <1>3, <1>4, <1>5, Carrying
<1>7. /\ schema.hook = "none" \/ schema.type # "string" => Generates(body, values)
      /\ schema.hook = "none" \/ schema.type # "string" \/ (carried /\ values["field"] = Text("bad"))
  BY <1>4, <1>5, Preparing
<1>8. ~carried => schema.type # "uuid"
  BY <1>7 DEF Generates
<1>9. ~carried => c = IF isUpdate THEN stored[i].field ELSE Nil
  BY <1>1 DEF Stays
<1>10. Cell(c)
  <2>1. CASE ~carried /\ isUpdate
    BY <1>9, <2>1 DEF TripInvar, RowsInv, RowOK
  <2>2. CASE ~carried /\ ~isUpdate
    BY <1>8, <1>9, <2>2 DEF Cell
  <2> QED
    BY <1>6, <2>1, <2>2
<1>11. row # NoRow
  BY <1>1, <1>10, CellIs DEF NoRow
<1>12. \A j \in RecordIds : stored'[j] = IF j = i THEN row ELSE stored[j]
  BY <1>1 DEF TripInvar, Basics
<1> DEFINE own == "field" \in DOMAIN raw /\ ~IsEmpty(raw["field"])
           v == IF own /\ schema.hook = "none" THEN raw["field"] ELSE values["field"]
<1>13. /\ meant' = [meant EXCEPT ![i] =
             IF carried THEN MeantBy(v) ELSE IF meant[i] = NoValue THEN Nil ELSE meant[i]]
       /\ bypassed' = IF carried THEN IF v[1] = "number" THEN bypassed \cup {i} ELSE bypassed \ {i}
                      ELSE bypassed
       /\ emptied' = IF carried /\ IsEmpty(v) THEN emptied \cup {i} ELSE emptied
       /\ sealed' = IF carried THEN sealed \ {i} ELSE sealed
  BY DEF Notes
<1>14. own /\ schema.hook = "none" => carried /\ values["field"] = body["field"]
  BY <1>2, <1>3, <1>7 DEF Generates
<1>15. carried => /\ IsEmpty(values["field"]) => IsEmpty(v)
                  /\ values["field"] = Number(1) => v[1] = "number"
                  /\ ~blurred' => v = values["field"]
  BY <1>3, <1>14, NumberForm
<1>16. carried => values["field"][1] \in Known
  <2>1. Text("new")[1] \in Known /\ Text("bad")[1] \in Known
    BY NewText, BadText DEF Known
  <2>2. CASE schema.hook = "none" \/ schema.type # "string"
    BY <1>2, <1>3, <1>7, <2>1, <2>2 DEF Generates
  <2> QED
    BY <1>7, <2>1, <2>2
<1> HIDE DEF v
<1>17. RowsInv'
  <2>1. RowOK(row)
    BY <1>1, <1>10 DEF RowOK
  <2>2. \A j \in RecordIds : RowOK(stored[j])
    BY DEF TripInvar, RowsInv
  <2> QED
    BY <1>12, <2>1, <2>2, RowsStay
<1>18. MeaningKept'
  <2> SUFFICES ASSUME ~blurred', NEW j \in RecordIds
               PROVE  \A r, m, sl : r = stored'[j] /\ m = meant'[j] /\ sl = sealed' => MeansOf(j, r, m, sl)
    BY MeansStay
  <2>1. \A k \in RecordIds : MeansOf(k, stored[k], meant[k], sealed)
    BY OldMeans DEF TripInvar
  <2>2. CASE j # i
    BY <1>12, <1>13, <2>1, <2>2 DEF MeansOf, TripInvar, Basics
  <2>3. CASE j = i /\ carried
    <3>1. meant'[i] = MeantBy(values["field"])
      BY <1>13, <1>15, <2>3 DEF TripInvar, Basics
    <3>2. MeantBy(values["field"]) # NoValue /\ Says(values["field"]) = MeantBy(values["field"])
      BY <1>6, <1>16, <2>3, Meant
    <3>3. Meaning(c) = Says(values["field"])
      BY <1>6, <1>16, <2>3, PutsMeaning DEF Known
    <3> QED
      BY <1>1, <1>11, <1>12, <2>3, <3>1, <3>2, <3>3 DEF MeansOf
  <2>4. CASE j = i /\ ~carried /\ isUpdate
    <3>1. meant'[i] = meant[i] /\ sealed' = sealed
      BY <1>13, <2>1, <2>4 DEF MeansOf, TripInvar, Basics
    <3> QED
      BY <1>1, <1>9, <1>11, <1>12, <2>1, <2>4, <3>1 DEF MeansOf
  <2>5. CASE j = i /\ ~carried /\ ~isUpdate
    <3>1. meant'[i] = Nil
      BY <1>13, <2>5 DEF TripInvar, Basics
    <3>2. Meaning(Nil) = Nil /\ Nil # NoValue
      BY NilForm DEF Meaning
    <3> QED
      BY <1>1, <1>9, <1>11, <1>12, <2>5, <3>1, <3>2 DEF MeansOf
  <2> QED
    BY <2>2, <2>3, <2>4, <2>5
<1>19. RulesMet'
  <2> SUFFICES ASSUME NEW j \in RecordIds, stored'[j] # NoRow
               PROVE  \A r, e, b : r = stored'[j] /\ e = emptied' /\ b = bypassed' => RuleOf(j, r, e, b)
    BY RulesStay
  <2>1. CASE j # i
    <3>1. RuleOf(j, stored[j], emptied, bypassed)
      BY <1>12, <2>1, OldRules DEF TripInvar
    <3>2. (j \in emptied => j \in emptied') /\ (j \in bypassed => j \in bypassed')
      BY <1>13, <2>1
    <3> QED
      BY <1>12, <2>1, <3>1, <3>2, RuleGrows
  <2>2. CASE j = i
    <3>1. /\ schema.tableRule /\ schema.hook # "beforeSave" => row.input[2] <= Limit
          /\ schema.formula /\ schema.hook = "none" => row.total = Sum(row.input)
      BY <1>1, <1>4, <1>5, Numbers
    <3>2. CASE carried
      <4>1. IsEmpty(values["field"]) => i \in emptied'
        BY <1>13, <1>15, <3>2
      <4>2. values["field"] = Number(1) => i \in bypassed'
        BY <1>13, <1>15, <3>2
      <4> QED
        BY <1>1, <1>6, <1>12, <2>2, <3>1, <3>2, <4>1, <4>2 DEF RuleOf
    <3>3. CASE ~carried /\ isUpdate
      <4>1. RuleOf(i, stored[i], emptied, bypassed)
        BY <3>3, OldRules DEF TripInvar
      <4>2. emptied' = emptied /\ bypassed' = bypassed
        BY <1>13, <3>3
      <4> QED
        BY <1>1, <1>9, <1>12, <2>2, <3>1, <3>3, <4>1, <4>2 DEF RuleOf
    <3>4. CASE ~carried /\ ~isUpdate
      <4>1. IsEmpty(FromStore(Nil))
        BY DEF FromStore, IsEmpty
      <4>2. ~(schema.required /\ schema.hook # "beforeSave")
        BY <1>5, <3>4, Preparing DEF Valid
      <4> QED
        BY <1>1, <1>9, <1>12, <2>2, <3>1, <3>4, <4>1, <4>2 DEF RuleOf
    <3> QED
      BY <3>2, <3>3, <3>4
  <2> QED
    BY <2>1, <2>2
<1>20. SealInv'
  <2>1. \A j \in sealed' : j \in sealed /\ j \in RecordIds /\ (j # i \/ ~carried)
    BY <1>13 DEF TripInvar, Basics
  <2>2. i \in sealed => isUpdate
    BY DEF TripInvar, SealInv
  <2> QED
    BY <1>1, <1>9, <1>11, <1>12, <2>1, <2>2 DEF TripInvar, SealInv
<1>21. Basics'
  BY <1>1, <1>13 DEF TripInvar, Basics
<1>22. CopyForm' /\ CopyMeans'
  BY <1>13, CopyStays DEF TripInvar
<1> QED
  BY <1>17, <1>18, <1>19, <1>20, <1>21, <1>22 DEF TripInvar

-----------------------------------------------------------------------------
(***************************************************************************)
(* RoundTrip: the steps.                                                   *)
(***************************************************************************)
\* An empty table satisfies the invariant.
LEMMA TripInit ==
  ASSUME RoundTripAssumption, RoundTripInit
  PROVE  TripInvar
<1>1. Basics
  BY DEF RoundTripInit, Basics, NoCopy, RoundTripAssumption
<1>2. RowsInv /\ SealInv
  BY DEF RoundTripInit, RowsInv, RowOK, SealInv
<1>3. CopyForm /\ CopyMeans
  BY DEF RoundTripInit, CopyForm, CopyMeans, NoCopy
<1>4. Saved = {}
  BY DEF RoundTripInit, Saved
<1>5. MeaningKept /\ RulesMet
  BY <1>4 DEF RoundTripInit, MeaningKept, RulesMet
<1> QED
  BY <1>1, <1>2, <1>3, <1>5 DEF TripInvar

\* Create: a new row means what its body says.
LEMMA CreateStep ==
  ASSUME RoundTripAssumption, TripInvar, Create
  PROVE  TripInvar'
<1>1. PICK body \in Bodies, given \in {{}} \cup {{n} : n \in RecordIds} :
        LET values == Prepared(Plain(body), FALSE) IN
        \E i \in IdsFor(given) :
          /\ stored[i] = NoRow /\ meant[i] = NoValue
          /\ Proper(values)
          /\ Put(i, values)
          /\ Notes(i, body, values)
          /\ blurred' = (blurred \/ (\E n \in given : n > Exact) \/ \E f \in DOMAIN body : Blurs(body[f]))
  BY DEF Create
<1>2. PICK values : values = Prepared(Plain(body), FALSE)
  OBVIOUS
<1>3. PICK i \in IdsFor(given) :
        /\ stored[i] = NoRow /\ meant[i] = NoValue
        /\ Proper(values)
        /\ Put(i, values)
        /\ Notes(i, body, values)
        /\ blurred' = (blurred \/ (\E n \in given : n > Exact) \/ \E f \in DOMAIN body : Blurs(body[f]))
  BY <1>1, <1>2
<1>4. i \in RecordIds
  BY DEF IdsFor
<1>5. UNCHANGED <<schema, key, copy>>
  BY DEF Create
<1>6. blurred' \in BOOLEAN /\ (blurred => blurred') /\ (~blurred' => \A f \in DOMAIN body : ~Blurs(body[f]))
  BY <1>3 DEF TripInvar, Basics
<1>7. "field" \in DOMAIN body => body["field"] \in Given
  BY Body
<1> QED
  BY <1>2, <1>3, <1>4, <1>5, <1>6, <1>7, Writing

\* Modify: of what the body carries and the list names.
LEMMA ModifyStep ==
  ASSUME RoundTripAssumption, TripInvar, Modify
  PROVE  TripInvar'
<1>1. PICK i \in Saved, body \in Bodies, only \in {{"field", "input"}, {"field"}, {"input"}} :
        LET listed == Listed(body, only)
            values == Prepared(Plain(listed), TRUE) IN
        /\ Proper(values) /\ DOMAIN listed # {}
        /\ Put(i, values)
        /\ Notes(i, listed, values)
        /\ blurred' = (blurred \/ \E f \in DOMAIN listed : Blurs(listed[f]))
  BY DEF Modify
<1>2. PICK listed, values : listed = Listed(body, only) /\ values = Prepared(Plain(listed), TRUE)
  OBVIOUS
<1>3. /\ Proper(values)
      /\ Put(i, values)
      /\ Notes(i, listed, values)
      /\ blurred' = (blurred \/ \E f \in DOMAIN listed : Blurs(listed[f]))
  BY <1>1, <1>2
<1>4. i \in RecordIds /\ stored[i] # NoRow
  BY DEF Saved
<1>5. UNCHANGED <<schema, key, copy>>
  BY DEF Modify
<1>6. blurred' \in BOOLEAN /\ (blurred => blurred') /\ (~blurred' => \A f \in DOMAIN listed : ~Blurs(listed[f]))
  BY <1>3 DEF TripInvar, Basics
<1>7. "field" \in DOMAIN listed => listed["field"] \in Given
  <2>1. "field" \in DOMAIN listed => "field" \in DOMAIN body /\ listed["field"] = body["field"]
    BY <1>2 DEF Listed
  <2> QED
    BY <2>1, Body
<1> QED
  BY <1>2, <1>3, <1>4, <1>5, <1>6, <1>7, Writing

\* Ciphertext is in columns of one type only.
LEMMA CipherType ==
  ASSUME RoundTripAssumption, schema \in FieldSchemas, NEW v, v[1] = "cipher"
  PROVE  (Offer(v) => schema.type = "encrypted") /\ (Cell(v) => schema.type = "encrypted")
<1>1. v \notin Texts /\ v # Text("") /\ v # Text("bad") /\ v # Nil
  BY TextForms, EmptyText, BadText, NilForm
<1>2. \A n : v # Number(n) /\ v # Digits(n)
  BY NumberForm, DigitsForm
<1>3. \A w : v # Hash(w) /\ v # Base64(w)
  BY HashForm, Base64Form
<1>4. \A w : v # Json(w) /\ v # Object(w)
  BY JsonForm, ObjectForm
<1>5. v # Bool(TRUE) /\ v # Bool(FALSE)
  BY BoolForm
<1> QED
  BY <1>1, <1>2, <1>3, <1>4, <1>5 DEF Offer, Cell, Shapes

\* A copy is good if its field is.
LEMMA CopyTaken ==
  ASSUME UNCHANGED schema, NEW x, x = copy'.record.field, Offer(x),
         schema.type = "uuid" => ~IsEmpty(x),
         schema.type = "string" => x[1] # "number",
         copy'.id \in sealed' => x[1] = "cipher",
         ~blurred' => copy'.meant # NoValue /\ (x[1] # "cipher" => Says(x) = copy'.meant)
  PROVE  CopyForm' /\ CopyMeans'
BY DEF CopyForm, CopyMeans, Offer, Says, MeantBy, IsEmpty

\* Read: the copy is of the form that can be sent back, and means what the row means.
LEMMA ReadStep ==
  ASSUME RoundTripAssumption, TripInvar, Read
  PROVE  TripInvar'
<1>1. PICK i \in Saved :
        copy' = [id |-> i, meant |-> meant[i], record |-> [stored[i] EXCEPT !.field = FromStore(@)]]
  BY DEF Read
<1>2. UNCHANGED <<schema, stored, key, meant, emptied, bypassed, sealed, blurred>>
  BY DEF Read
<1>3. i \in RecordIds /\ stored[i] # NoRow
  BY DEF Saved
<1>4. /\ stored[i] = [field |-> stored[i].field, input |-> stored[i].input, total |-> stored[i].total]
      /\ Cell(stored[i].field)
  BY <1>3 DEF TripInvar, RowsInv, RowOK
<1>5. PICK c, x : c = stored[i].field /\ x = FromStore(c)
  OBVIOUS
<1>6. copy'.record.field = x /\ copy'.id = i /\ copy'.meant = meant[i]
  BY <1>1, <1>4, <1>5
<1>7. /\ Offer(x)
      /\ x[1] # "cipher" => Says(x) = Meaning(c)
      /\ schema.type = "uuid" => ~IsEmpty(x)
      /\ schema.type = "string" => x[1] # "number"
  BY <1>4, <1>5, CellRead
<1>8. i \in sealed => x[1] = "cipher"
  <2> SUFFICES ASSUME i \in sealed PROVE x[1] = "cipher"
    OBVIOUS
  <2>1. c[1] = "cipher" /\ c[3][1] = "cipher"
    BY <1>5 DEF TripInvar, SealInv
  <2>2. schema.type = "encrypted"
    BY <1>4, <1>5, <2>1, CipherType DEF TripInvar, Basics
  <2>3. c # Nil
    BY <2>1, NilForm
  <2> QED
    BY <1>5, <2>1, <2>2, <2>3 DEF FromStore, Opened
<1>9. ~blurred => /\ meant[i] # NoValue
                  /\ x[1] # "cipher" => Meaning(c) = meant[i]
  BY <1>3, <1>5, <1>8, OldMeans DEF TripInvar, MeansOf
<1>10. CopyForm' /\ CopyMeans'
  BY <1>2, <1>6, <1>7, <1>8, <1>9, CopyTaken
<1>11. Basics'
  BY <1>2, <1>3, <1>6 DEF TripInvar, Basics
<1>12. RowsInv'
  BY <1>2, RowsStay DEF TripInvar, RowsInv
<1>13. SealInv'
  BY <1>2 DEF TripInvar, SealInv
<1>14. MeaningKept' /\ RulesMet'
  BY <1>2, OldMeans, OldRules, MeansStay, RulesStay DEF TripInvar
<1> QED
  BY <1>10, <1>11, <1>12, <1>13, <1>14 DEF TripInvar

\* What a client sends back of what it has read.
LEMMA NumberType ==
  ASSUME RoundTripAssumption, schema \in FieldSchemas, NEW v, Offer(v), v[1] = "number"
  PROVE  \E n \in Nat : /\ v = Number(n)
                        /\ schema.type = "integer" \/ (schema.type = "string" /\ n = 1)
<1>1. v \notin Texts /\ v # Text("bad") /\ v # Nil
  BY TextForms, BadText, NilForm
<1>2. \A n : v # Digits(n)
  BY DigitsForm
<1>3. \A w : v # Hash(w) /\ v # Base64(w)
  BY HashForm, Base64Form
<1>4. \A w : v # Json(w) /\ v # Object(w)
  BY JsonForm, ObjectForm
<1>5. v # Bool(TRUE) /\ v # Bool(FALSE)
  BY BoolForm
<1> QED
  BY <1>1, <1>2, <1>3, <1>4, <1>5 DEF Offer, Shapes

\* Neither the web client's texts for large numbers nor their decoding changes what is
\* meant, but for numbers that another client sends as numbers.
LEMMA Sending ==
  ASSUME RoundTripAssumption, schema \in FieldSchemas, NEW v, Offer(v), NEW web \in BOOLEAN
  PROVE  /\ Offer(Decoded(Sent(web, v)))
         /\ Sent(web, v)[1] = "cipher" <=> v[1] = "cipher"
         /\ Decoded(Sent(web, v))[1] = "cipher" <=> v[1] = "cipher"
         /\ IsEmpty(Decoded(Sent(web, v))) <=> IsEmpty(v)
         /\ schema.type = "string" /\ v[1] # "number" =>
              Decoded(Sent(web, v))[1] # "number"
         /\ ~Blurs(Sent(web, v)) => Says(Decoded(Sent(web, v))) = Says(v)
<1>1. CASE v[1] # "number"
  <2>1. Sent(web, v) = v /\ Decoded(v) = v
    BY <1>1 DEF Sent, Blurs, Decoded
  <2> QED
    BY <1>1, <2>1
<1>2. CASE v[1] = "number"
  <2>1. PICK n \in Nat : /\ v = Number(n)
                         /\ schema.type = "integer" \/ (schema.type = "string" /\ n = 1)
    BY <1>2, NumberType
  <2>2. v[2] = n
    BY <2>1, NumberForm
  <2>3. Says(v) = v
    BY <1>2 DEF Says, MeantBy
  <2>4. IsEmpty(v) <=> n = 0
    BY <1>2, <2>1, <2>2, NilForm, EmptyText, ZeroForm DEF IsEmpty
  <2>5. Blurs(v) <=> n > Exact
    BY <1>2, <2>2 DEF Blurs
  <2>6. CASE web /\ n > Exact
    <3>1. Sent(web, v) = Digits(n)
      BY <2>2, <2>5, <2>6 DEF Sent
    <3>2. Digits(n)[1] = "digits" /\ Digits(n)[2] = n
      BY DigitsForm
    <3>3. Decoded(Digits(n)) = Digits(n)
      BY <3>2 DEF Decoded
    <3>4. Says(Digits(n)) = Number(n)
      BY <3>2 DEF Says, MeantBy
    <3>5. n # 0 /\ schema.type = "integer"
      BY <2>1, <2>6 DEF RoundTripAssumption
    <3>6. Offer(Digits(n))
      BY <3>5 DEF Offer
    <3>7. ~IsEmpty(Digits(n))
      BY <3>2, NilForm, EmptyText, ZeroForm DEF IsEmpty
    <3> QED
      BY <1>2, <2>1, <2>3, <2>4, <3>1, <3>2, <3>3, <3>4, <3>5, <3>6, <3>7
  <2>7. CASE ~(web /\ n > Exact)
    <3>1. Sent(web, v) = v
      BY <2>5, <2>7 DEF Sent
    <3>2. PICK m \in Nat : m = Rounded(n) /\ (m = 0 <=> n = 0) /\ (n <= Exact => m = n)
      BY Decoding
    <3>3. Decoded(v) = Number(m)
      BY <1>2, <2>2, <3>2 DEF Decoded
    <3>4. Number(m)[1] = "number" /\ Number(m)[2] = m
      BY NumberForm
    <3>5. IsEmpty(Number(m)) <=> m = 0
      BY <3>4, NilForm, EmptyText, ZeroForm DEF IsEmpty
    <3>6. schema.type = "string" => m = 1
      BY <2>1, <3>2 DEF RoundTripAssumption
    <3>7. Offer(Number(m))
      BY <2>1, <3>6 DEF Offer
    <3>8. ~Blurs(v) => m = n
      BY <2>5, <3>2 DEF RoundTripAssumption
    <3> QED
      BY <1>2, <2>1, <2>4, <3>1, <3>2, <3>3, <3>4, <3>5, <3>7, <3>8
  <2> QED
    BY <2>6, <2>7
<1> QED
  BY <1>1, <1>2

\* A copy that is sent back means what the record meant when it was read.
LEMMA SendBackStep ==
  ASSUME RoundTripAssumption, TripInvar, SendBack
  PROVE  TripInvar'
<1>1. PICK web \in BOOLEAN :
        LET i == copy.id
            body == [f \in {"field", "input", "total"} |-> Sent(web, copy.record[f])]
            values == Prepared(Plain(body), TRUE) IN
        /\ Proper(values)
        /\ Put(i, values)
        /\ blurred' = (blurred \/ \E f \in DOMAIN body : Blurs(body[f]))
        /\ sealed' = IF schema.type = "encrypted" /\ body["field"][1] = "cipher"
                     THEN sealed \cup {i} ELSE sealed
        /\ meant' = [meant EXCEPT ![i] =
             IF schema.hook = "none" \/ schema.type # "string" THEN copy.meant
             ELSE MeantBy(values["field"])]
        /\ emptied' = IF IsEmpty(values["field"]) THEN emptied \cup {i} ELSE emptied
        /\ bypassed' = bypassed \ {i}
  BY DEF SendBack
<1>2. copy' = NoCopy /\ UNCHANGED <<schema, key>> /\ copy.id \in Saved
  BY DEF SendBack
<1>3. PICK i, v, raw : i = copy.id /\ v = copy.record.field
                       /\ raw = [f \in {"field", "input", "total"} |-> Sent(web, copy.record[f])]
  OBVIOUS
<1>4. PICK body, values : body = Plain(raw) /\ values = Prepared(body, TRUE)
  OBVIOUS
<1>5. PICK s, w : s = Sent(web, v) /\ w = Decoded(s)
  OBVIOUS
<1>6. /\ "field" \in DOMAIN raw /\ raw["field"] = s
      /\ "field" \in DOMAIN body /\ body["field"] = w
  BY <1>3, <1>4, <1>5 DEF Plain
<1>7. /\ Proper(values)
      /\ Put(i, values)
      /\ blurred' = (blurred \/ \E f \in DOMAIN raw : Blurs(raw[f]))
      /\ sealed' = IF schema.type = "encrypted" /\ s[1] = "cipher"
                   THEN sealed \cup {i} ELSE sealed
      /\ meant' = [meant EXCEPT ![i] =
           IF schema.hook = "none" \/ schema.type # "string" THEN copy.meant
           ELSE MeantBy(values["field"])]
      /\ emptied' = IF IsEmpty(values["field"]) THEN emptied \cup {i} ELSE emptied
      /\ bypassed' = bypassed \ {i}
  BY <1>1, <1>3, <1>4, <1>6
<1>8. i \in RecordIds /\ stored[i] # NoRow /\ i # 0
  BY <1>2, <1>3 DEF Saved, RoundTripAssumption
<1>9. schema \in FieldSchemas /\ schema.hook \in {"none", "beforeValidate", "beforeSave"}
  BY DEF TripInvar, Basics, RoundTripAssumption, FieldSchemas
<1>10. /\ Offer(v) /\ (schema.type = "uuid" => ~IsEmpty(v))
       /\ schema.type = "string" => v[1] # "number"
       /\ i \in sealed => v[1] = "cipher"
       /\ ~blurred => copy.meant # NoValue /\ (v[1] # "cipher" => Says(v) = copy.meant)
  BY <1>3, <1>8 DEF TripInvar, CopyForm, CopyMeans
<1>11. /\ Offer(w) /\ (schema.type = "uuid" => ~IsEmpty(w))
       /\ schema.type = "string" => w[1] # "number"
       /\ (s[1] = "cipher" <=> v[1] = "cipher") /\ (w[1] = "cipher" <=> v[1] = "cipher")
       /\ ~Blurs(s) => Says(w) = Says(v)
  BY <1>5, <1>9, <1>10, Sending
<1>12. v[1] = "cipher" => schema.type = "encrypted"
  BY <1>9, <1>10, CipherType
<1>13. /\ schema.hook = "none" \/ schema.type # "string" =>
            "field" \in DOMAIN values /\ values["field"] = w
       /\ ~(schema.hook = "none" \/ schema.type # "string") =>
            "field" \in DOMAIN values /\ values["field"] = Text("bad")
  <2>1. CASE schema.hook = "none" \/ schema.type # "string"
    <3>1. Generates(body, values)
      BY <1>4, <1>7, <2>1, Preparing
    <3> QED
      BY <1>6, <1>11, <2>1, <3>1 DEF Generates
  <2>2. CASE ~(schema.hook = "none" \/ schema.type # "string")
    BY <1>4, <1>7, <1>9, <2>2, Preparing
  <2> QED
    BY <2>1, <2>2
<1>14. PICK c, row :
        /\ c \in Column(ToStore(values["field"]))
        /\ row = [field |-> row.field, input |-> row.input, total |-> row.total]
        /\ row.field = c
        /\ "input" \in DOMAIN values => row.input = Numeral(values["input"])
        /\ "total" \in DOMAIN values => row.total = values["total"]
        /\ stored' = [stored EXCEPT ![i] = row]
  BY <1>7, <1>13 DEF Put
<1>15. /\ Puts(values["field"], c) /\ Cell(c)
       /\ ~IsEmpty(values["field"]) => ~IsEmpty(FromStore(c))
       /\ schema.hook # "beforeSave" /\ ~(schema.type = "string" /\ values["field"] = Number(1)) =>
            IsEmpty(FromStore(c)) \/ Fits(FromStore(c))
  BY <1>4, <1>6, <1>7, <1>9, <1>11, <1>13, <1>14, Carrying
<1>16. \A j \in RecordIds : stored'[j] = IF j = i THEN row ELSE stored[j]
  BY <1>14 DEF TripInvar, Basics
<1>17. row # NoRow
  BY <1>14, <1>15, CellIs DEF NoRow
<1>18. ~blurred' => ~blurred /\ ~Blurs(s)
  BY <1>6, <1>7
<1>19. RowsInv'
  <2>1. RowOK(row)
    BY <1>14, <1>15 DEF RowOK
  <2>2. \A j \in RecordIds : RowOK(stored[j])
    BY DEF TripInvar, RowsInv
  <2> QED
    BY <1>2, <1>16, <2>1, <2>2, RowsStay
<1>20. MeaningKept'
  <2> SUFFICES ASSUME ~blurred', NEW j \in RecordIds
               PROVE  \A r, m, sl : r = stored'[j] /\ m = meant'[j] /\ sl = sealed' =>
                                      MeansOf(j, r, m, sl)
    BY <1>2, MeansStay
  <2>1. CASE j # i
    <3>1. MeansOf(j, stored[j], meant[j], sealed)
      BY <1>18, OldMeans DEF TripInvar
    <3>2. meant'[j] = meant[j] /\ (j \in sealed' <=> j \in sealed)
      BY <1>7, <2>1 DEF TripInvar, Basics
    <3> QED
      BY <1>16, <2>1, <3>1, <3>2 DEF MeansOf
  <2>2. CASE j = i /\ (schema.hook = "none" \/ schema.type # "string")
    <3>1. meant'[i] = copy.meant /\ copy.meant # NoValue
      BY <1>7, <1>8, <1>10, <1>18, <2>2 DEF TripInvar, Basics
    <3>2. i \notin sealed' => v[1] # "cipher"
      BY <1>7, <1>11, <1>12
    <3>3. v[1] # "cipher" => Meaning(c) = copy.meant
      BY <1>10, <1>11, <1>13, <1>15, <1>18, <2>2, PutsMeaning
    <3> QED
      BY <1>14, <1>16, <1>17, <2>2, <3>1, <3>2, <3>3 DEF MeansOf
  <2>3. CASE j = i /\ ~(schema.hook = "none" \/ schema.type # "string")
    <3>1. values["field"] = Text("bad")
      BY <1>13, <2>3
    <3>2. meant'[i] = MeantBy(Text("bad"))
      BY <1>7, <1>8, <2>3, <3>1 DEF TripInvar, Basics
    <3>3. MeantBy(Text("bad")) = Text("bad") /\ Says(Text("bad")) = Text("bad")
      BY <2>3, BadText DEF MeantBy, Says
    <3>4. Meaning(c) = Text("bad") /\ Text("bad") # NoValue
      BY <1>15, <3>1, <3>3, BadText, NilForm, PutsMeaning
    <3> QED
      BY <1>14, <1>16, <1>17, <2>3, <3>2, <3>3, <3>4 DEF MeansOf
  <2> QED
    BY <2>1, <2>2, <2>3
<1>21. RulesMet'
  <2> SUFFICES ASSUME NEW j \in RecordIds, stored'[j] # NoRow
               PROVE  \A r, e, b : r = stored'[j] /\ e = emptied' /\ b = bypassed' =>
                                     RuleOf(j, r, e, b)
    BY <1>2, RulesStay
  <2>1. CASE j # i
    <3>1. RuleOf(j, stored[j], emptied, bypassed)
      BY <1>16, <2>1, OldRules DEF TripInvar
    <3>2. (j \in emptied => j \in emptied') /\ (j \in bypassed => j \in bypassed')
      BY <1>7, <2>1
    <3> QED
      BY <1>16, <2>1, <3>1, <3>2, RuleGrows
  <2>2. CASE j = i
    <3>1. /\ schema.tableRule /\ schema.hook # "beforeSave" => row.input[2] <= Limit
          /\ schema.formula /\ schema.hook = "none" => row.total = Sum(row.input)
      BY <1>4, <1>7, <1>9, <1>14, Numbers
    <3>2. IsEmpty(values["field"]) => i \in emptied'
      BY <1>7
    <3>3. ~(schema.type = "string" /\ values["field"] = Number(1))
      BY <1>11, <1>13, BadText, NumberForm
    <3> QED
      BY <1>14, <1>15, <1>16, <2>2, <3>1, <3>2, <3>3 DEF RuleOf
  <2> QED
    BY <2>1, <2>2
<1>22. SealInv'
  <2>1. i \in sealed' => c[1] = "cipher" /\ c[3][1] = "cipher"
    <3> SUFFICES ASSUME i \in sealed' PROVE c[1] = "cipher" /\ c[3][1] = "cipher"
      OBVIOUS
    <3>1. w[1] = "cipher" /\ schema.type = "encrypted"
      BY <1>7, <1>10, <1>11, <1>12
    <3>2. Puts(w, c) /\ w # Nil /\ w # Text("")
      BY <1>13, <1>15, <3>1, NilForm, EmptyText
    <3>3. c = Cipher(key, w)
      BY <3>1, <3>2 DEF Puts, Plains
    <3> QED
      BY <3>1, <3>3, CipherForm
  <2>2. \A j \in sealed' : j \in RecordIds /\ (j = i \/ j \in sealed)
    BY <1>7, <1>8 DEF TripInvar, Basics
  <2> QED
    BY <1>14, <1>16, <1>17, <2>1, <2>2 DEF TripInvar, SealInv
<1>23. Basics'
  BY <1>2, <1>7, <1>8, <1>14 DEF TripInvar, Basics, NoCopy
<1>24. CopyForm' /\ CopyMeans'
  BY <1>2 DEF CopyForm, CopyMeans, NoCopy
<1> QED
  BY <1>19, <1>20, <1>21, <1>22, <1>23, <1>24 DEF TripInvar

\* DELETE with a filter: another id is equal to one below 2^53 as a float only if
\* it is the same.
LEMMA Finding ==
  ASSUME RoundTripAssumption, NEW i \in Nat, NEW j \in Nat, i < Exact,
         j = Rounded(i) \/ Rounded(j) = Rounded(i)
  PROVE  j = i
<1>1. Rounded(i) = i
  BY DEF Rounded, RoundTripAssumption
<1>2. CASE j <= Exact
  BY <1>1, <1>2 DEF Rounded, RoundTripAssumption
<1>3. CASE j > Exact
  <2>1. Rounded(j) >= j - 1
    BY <1>3 DEF Rounded, RoundTripAssumption
  <2>2. j - 1 >= Exact
    BY <1>3 DEF RoundTripAssumption
  <2>3. Rounded(j) \in Nat
    BY Decoding
  <2> QED
    BY <1>1, <1>3, <2>1, <2>2, <2>3 DEF RoundTripAssumption
<1> QED
  BY <1>2, <1>3 DEF RoundTripAssumption

\* Destroy: one row goes, as long as no id beyond 2^53 is in a filter.
LEMMA DestroyStep ==
  ASSUME RoundTripAssumption, TripInvar, Destroy
  PROVE  TripInvar'
<1>1. PICK i \in Saved, bulk \in BOOLEAN, floats \in BOOLEAN :
        LET gone == IF bulk THEN Found(i, floats) ELSE {i} IN
        /\ stored' = [j \in RecordIds |-> IF j \in gone THEN NoRow ELSE stored[j]]
        /\ meant' = [meant EXCEPT ![i] = NoValue]
        /\ blurred' = (blurred \/ (bulk /\ i >= Exact))
        /\ emptied' = emptied \ gone /\ bypassed' = bypassed \ gone /\ sealed' = sealed \ gone
  BY DEF Destroy
<1>2. PICK gone : gone = IF bulk THEN Found(i, floats) ELSE {i}
  OBVIOUS
<1>3. /\ stored' = [j \in RecordIds |-> IF j \in gone THEN NoRow ELSE stored[j]]
      /\ meant' = [meant EXCEPT ![i] = NoValue]
      /\ blurred' = (blurred \/ (bulk /\ i >= Exact))
      /\ emptied' = emptied \ gone /\ bypassed' = bypassed \ gone /\ sealed' = sealed \ gone
  BY <1>1, <1>2
<1>4. UNCHANGED <<schema, key, copy>>
  BY DEF Destroy
<1>5. i \in RecordIds /\ i \in Nat /\ stored[i] # NoRow
  BY DEF Saved, RoundTripAssumption
<1>6. ~blurred' => \A j \in RecordIds : j \in gone <=> j = i
  <2> SUFFICES ASSUME ~blurred', NEW j \in RecordIds
               PROVE  j \in gone <=> j = i
    OBVIOUS
  <2>1. CASE ~bulk
    BY <1>2, <2>1
  <2>2. CASE bulk
    <3>7. ~(bulk /\ i >= Exact)
      BY <1>3
    <3>1. i < Exact
      BY <1>5, <2>2, <3>7 DEF RoundTripAssumption
    <3>2. Rounded(i) = i
      BY <1>5, <3>1 DEF Rounded, RoundTripAssumption
    <3>3. i \in Found(i, floats)
      BY <3>2 DEF Found
    <3>4. j \in Found(i, floats) => j = Rounded(i) \/ Rounded(j) = Rounded(i)
      BY DEF Found
    <3>5. j \in Nat
      BY DEF RoundTripAssumption
    <3>6. j \in Found(i, floats) => j = i
      BY <1>5, <3>1, <3>4, <3>5, Finding
    <3> QED
      BY <1>2, <2>2, <3>3, <3>6
  <2> QED
    BY <2>1, <2>2
<1>7. \A j \in RecordIds : stored'[j] = IF j \in gone THEN NoRow ELSE stored[j]
  BY <1>3
<1>8. RowsInv'
  <2>1. RowOK(NoRow)
    BY DEF RowOK
  <2>2. \A j \in RecordIds : RowOK(stored[j])
    BY DEF TripInvar, RowsInv
  <2> QED
    BY <1>4, <1>7, <2>1, <2>2, RowsStay
<1>9. MeaningKept'
  <2> SUFFICES ASSUME ~blurred', NEW j \in RecordIds
               PROVE  \A r, m, sl : r = stored'[j] /\ m = meant'[j] /\ sl = sealed' =>
                                      MeansOf(j, r, m, sl)
    BY <1>4, MeansStay
  <2>1. CASE j # i
    <3>1. MeansOf(j, stored[j], meant[j], sealed)
      BY <1>3, OldMeans DEF TripInvar
    <3>2. meant'[j] = meant[j] /\ stored'[j] = stored[j] /\ (j \in sealed' <=> j \in sealed)
      BY <1>3, <1>6, <1>7, <2>1 DEF TripInvar, Basics
    <3> QED
      BY <3>1, <3>2 DEF MeansOf
  <2>2. CASE j = i
    BY <1>3, <1>5, <1>6, <1>7, <2>2 DEF MeansOf, TripInvar, Basics
  <2> QED
    BY <2>1, <2>2
<1>10. RulesMet'
  <2> SUFFICES ASSUME NEW j \in RecordIds, stored'[j] # NoRow
               PROVE  \A r, e, b : r = stored'[j] /\ e = emptied' /\ b = bypassed' =>
                                     RuleOf(j, r, e, b)
    BY <1>4, RulesStay
  <2>1. j \notin gone /\ stored'[j] = stored[j]
    BY <1>7
  <2>2. RuleOf(j, stored[j], emptied, bypassed)
    BY <2>1, OldRules DEF TripInvar
  <2>3. (j \in emptied => j \in emptied') /\ (j \in bypassed => j \in bypassed')
    BY <1>3, <2>1
  <2> QED
    BY <2>1, <2>2, <2>3, RuleGrows
<1>11. SealInv'
  <2>1. \A j \in sealed' : j \in RecordIds /\ j \in sealed /\ j \notin gone
    BY <1>3 DEF TripInvar, Basics
  <2> QED
    BY <1>7, <2>1 DEF TripInvar, SealInv
<1>12. Basics'
  BY <1>3, <1>4 DEF TripInvar, Basics
<1>13. CopyForm' /\ CopyMeans'
  BY <1>3, <1>4, CopyStays DEF TripInvar
<1> QED
  BY <1>8, <1>9, <1>10, <1>11, <1>12, <1>13 DEF TripInvar

\* Whether a ciphertext opens makes no difference to the rules.
OpensOrNot ==
  schema.type = "encrypted" =>
    \A d : Cell(d) => /\ IsEmpty(FromStore(d)) <=> d \in {Nil, Text("")}
                      /\ Fits(FromStore(d))

\* A ciphertext is never empty, with whatever key it is read.
LEMMA Opening == OpensOrNot
<1> SUFFICES ASSUME schema.type = "encrypted", NEW c, Cell(c)
             PROVE  /\ IsEmpty(FromStore(c)) <=> c \in {Nil, Text("")}
                    /\ Fits(FromStore(c))
  BY DEF OpensOrNot
<1>1. Fits(FromStore(c))
  BY DEF Fits
<1>2. CASE c = Nil
  BY <1>1, <1>2 DEF FromStore, IsEmpty
<1>3. CASE c = Text("")
  <2>1. FromStore(c) = c
    BY <1>3, EmptyText, NilForm DEF FromStore, Opened
  <2> QED
    BY <1>1, <1>3, <2>1 DEF IsEmpty
<1>4. CASE c[1] = "cipher" /\ (c[3] \in Texts \ {Text("")} \/ c[3][1] = "cipher")
  <2>1. c # Nil /\ c # Text("") /\ c # Number(0)
    BY <1>4, NilForm, EmptyText, ZeroForm
  <2>2. FromStore(c) = c \/ FromStore(c) = c[3]
    BY <2>1 DEF FromStore, Opened
  <2>3. c[3] # Nil /\ c[3] # Text("") /\ c[3] # Number(0)
    BY <1>4, TextForms, NilForm, EmptyText, ZeroForm
  <2> QED
    BY <1>1, <2>1, <2>2, <2>3 DEF IsEmpty
<1> QED
  BY <1>2, <1>3, <1>4 DEF Cell, Plains

\* Restart: what ciphertext means is what was encrypted, and its form meets the rules;
\* no other type's form depends on the key.
LEMMA RestartStep ==
  ASSUME RoundTripAssumption, TripInvar, Restart
  PROVE  TripInvar'
<1>1. /\ key' \in Keys /\ schema' = [schema EXCEPT !.tableRule = FALSE]
      /\ UNCHANGED <<stored, copy, meant, emptied, bypassed, sealed, blurred>>
  BY DEF Restart
<1>2. /\ schema \in FieldSchemas /\ schema' \in FieldSchemas
      /\ schema'.type = schema.type /\ schema'.required = schema.required
      /\ schema'.formula = schema.formula /\ schema'.hook = schema.hook
      /\ schema'.tableRule = FALSE
  BY <1>1 DEF TripInvar, Basics, FieldSchemas
<1>3. Basics'
  BY <1>1, <1>2 DEF TripInvar, Basics
<1>4. RowsInv'
  BY <1>1, <1>2, RowsStay DEF TripInvar, RowsInv
<1>5. SealInv'
  BY <1>1 DEF TripInvar, SealInv
<1>6. CopyForm' /\ CopyMeans'
  BY <1>1, <1>2, CopyStays DEF TripInvar
<1>7. MeaningKept'
  BY <1>1, <1>2, OldMeans, MeansStay DEF TripInvar
<1>8. RulesMet'
  <2> SUFFICES ASSUME NEW i \in RecordIds, stored[i] # NoRow
               PROVE  RuleOf(i, stored[i], emptied, bypassed)'
    BY <1>1 DEF RulesMet, RuleOf, Saved
  <2>1. PICK c : c = stored[i].field /\ Cell(c)
    BY DEF TripInvar, RowsInv, RowOK
  <2>2. c = stored'[i].field /\ Cell(c)'
    BY <1>1, <1>2, <2>1 DEF Cell
  <2>3. /\ IsEmpty(FromStore(c)) => IsEmpty(FromStore(c))'
        /\ IsEmpty(FromStore(c))' => IsEmpty(FromStore(c))
        /\ Fits(FromStore(c)) => Fits(FromStore(c))'
    <3>1. CASE schema.type = "encrypted"
      <4>1. (IsEmpty(FromStore(c)) <=> c \in {Nil, Text("")}) /\ Fits(FromStore(c))
        BY <2>1, <3>1, Opening DEF OpensOrNot
      <4>2. OpensOrNot'
        BY Opening, PTL
      <4>3. (IsEmpty(FromStore(c)) <=> c \in {Nil, Text("")})' /\ Fits(FromStore(c))'
        BY <1>2, <2>2, <3>1, <4>2 DEF OpensOrNot
      <4> QED
        BY <4>1, <4>3
    <3>2. CASE schema.type # "encrypted"
      <4>1. FromStore(c)' = FromStore(c)
        BY <1>2, <3>2 DEF FromStore, Plainly, Unmarshalled
      <4>2. \A v : Fits(v) <=> Fits(v)'
        BY <1>2 DEF Fits
      <4> QED
        BY <4>1, <4>2 DEF IsEmpty
    <3> QED
      BY <3>1, <3>2
  <2>4. RuleOf(i, stored[i], emptied, bypassed)
    BY OldRules DEF TripInvar
  <2> QED
    BY <1>1, <1>2, <2>1, <2>2, <2>3, <2>4 DEF RuleOf
<1> QED
  BY <1>3, <1>4, <1>5, <1>6, <1>7, <1>8 DEF TripInvar

\* Rows and copies keep their form, their meaning and the rules of the collection, for
\* any collection of the options, any words, numbers, ids and keys, and any number of
\* requests (ToStoreValue, FromStoreValue, ValidateRecord, applyAutoFields).
THEOREM RecordsKept == RoundTripSpec => []TripInvar
<1> USE RoundTripAssumption
<1>1. RoundTripInit => TripInvar
  BY TripInit
<1>2. TripInvar /\ [RoundTripNext]_tripVars => TripInvar'
  <2> SUFFICES ASSUME TripInvar, [RoundTripNext]_tripVars
               PROVE  TripInvar'
    OBVIOUS
  <2>1. CASE Create
    BY <2>1, CreateStep
  <2>2. CASE Modify
    BY <2>2, ModifyStep
  <2>3. CASE Read
    BY <2>3, ReadStep
  <2>4. CASE SendBack
    BY <2>4, SendBackStep
  <2>5. CASE Destroy
    BY <2>5, DestroyStep
  <2>6. CASE Restart
    BY <2>6, RestartStep
  <2>7. CASE UNCHANGED tripVars
    <3>1. UNCHANGED <<schema, stored, key, copy, meant, emptied, bypassed, sealed, blurred>>
      BY <2>7 DEF tripVars
    <3>2. RowsInv'
      BY <3>1, RowsStay DEF TripInvar, RowsInv
    <3>3. CopyForm' /\ CopyMeans'
      BY <3>1, CopyStays DEF TripInvar
    <3>4. MeaningKept' /\ RulesMet'
      BY <3>1, OldMeans, OldRules, MeansStay, RulesStay DEF TripInvar
    <3>5. Basics' /\ SealInv'
      BY <3>1 DEF TripInvar, Basics, SealInv
    <3> QED
      BY <3>2, <3>3, <3>4, <3>5 DEF TripInvar
  <2> QED
    BY <2>1, <2>2, <2>3, <2>4, <2>5, <2>6, <2>7 DEF RoundTripNext
<1> QED
  BY <1>1, <1>2, PTL DEF RoundTripSpec

\* A field keeps what clients have made of it, whatever its form in the column, and a
\* record meets the rules of its collection, whatever part of it was written.
THEOREM RecordsTrue == RoundTripSpec => []RecordsHold
<1>1. TripInvar => RecordsHold
  BY DEF TripInvar, RecordsHold
<1> QED
  BY <1>1, RecordsKept, PTL

-----------------------------------------------------------------------------
(***************************************************************************)
(* Administration: the parts together.                                     *)
(***************************************************************************)
\* Ids are issued in turn, and rows come with the ids that have been issued.
IssuedInv ==
  /\ \A id \in Ids : id > lastId => scriptRows[id] = NoScript
  /\ scriptCalls \in 0..MaxScriptCalls /\ scriptFaults \in 0..MaxScriptFaults

\* A step that adds no row but that of the next id.
LEMMA RowsIssued ==
  ASSUME IssuedInv, lastId \in Nat, lastId' \in Nat, lastId' >= lastId,
         \A id \in Ids : scriptRows'[id] = NoScript \/ scriptRows[id] # NoScript
                         \/ (id = lastId + 1 /\ lastId' = lastId + 1),
         scriptCalls' \in 0..MaxScriptCalls, scriptFaults' \in 0..MaxScriptFaults
  PROVE  IssuedInv'
<1> SUFFICES ASSUME NEW id \in Ids, id > lastId'
             PROVE  scriptRows'[id] = NoScript
  BY DEF IssuedInv
<1>1. id \in Nat
  BY ScriptAssumption DEF Ids
<1>2. id > lastId /\ ~(id = lastId + 1 /\ lastId' = lastId + 1)
  BY <1>1
<1> QED
  BY <1>2 DEF IssuedInv

\* A request that begins is counted.
LEMMA TakeCounts ==
  ASSUME scriptCalls \in 0..MaxScriptCalls, NEW a, NEW label, NEW id, NEW row, NEW alone,
         Take(a, label, id, row, alone)
  PROVE  scriptCalls' \in 0..MaxScriptCalls /\ scriptFaults' = scriptFaults
BY ScriptAssumption DEF Take

\* A step adds no row but that of the next id, which an INSERT gives it.
LEMMA StepIssues ==
  ASSUME ScriptInvar, IssuedInv, [ScriptNext]_scriptVars
  PROVE  /\ scriptCalls' \in 0..MaxScriptCalls /\ scriptFaults' \in 0..MaxScriptFaults
         /\ lastId' \in {lastId, lastId + 1}
         /\ \A id \in Ids : scriptRows'[id] = NoScript \/ scriptRows[id] # NoScript
                            \/ (id = lastId + 1 /\ lastId' = lastId + 1)
<1> DEFINE Counted == scriptCalls' \in 0..MaxScriptCalls /\ scriptFaults' \in 0..MaxScriptFaults
<1> DEFINE Adds == \A id \in Ids : scriptRows'[id] = NoScript \/ scriptRows[id] # NoScript
                                   \/ (id = lastId + 1 /\ lastId' = lastId + 1)
<1>0. /\ scriptRows \in [Ids -> Rows] /\ lastId \in 0..MaxScripts
      /\ scriptCalls \in 0..MaxScriptCalls /\ scriptFaults \in 0..MaxScriptFaults
      /\ MaxScripts \in Nat /\ MaxScriptCalls \in Nat /\ MaxScriptFaults \in Nat
  BY ScriptAssumption DEF ScriptInvar, Governance, AdminTypes, IssuedInv
<1>1. ASSUME NEW a \in ScriptAdmins, Save(a)
      PROVE  Counted /\ lastId' = lastId + 1 /\ Adds
  <2>1. Counted
    BY <1>0, <1>1, TakeCounts DEF Save
  <2>2. lastId' = lastId + 1 /\ \E row : scriptRows' = [scriptRows EXCEPT ![lastId + 1] = row]
    BY <1>1 DEF Save
  <2> QED
    BY <1>0, <2>1, <2>2
<1>2. ASSUME NEW a \in ScriptAdmins, Update(a) \/ Disable(a) \/ Toggle(a) \/ Delete(a)
      PROVE  Counted /\ lastId' = lastId /\ Adds
  <2>1. \E label, id, row, alone : Take(a, label, id, row, alone)
    BY <1>2, Zenon DEF Update, Disable, Toggle, Delete
  <2>2. Counted
    BY <1>0, <2>1, TakeCounts
  <2>3. lastId' = lastId
    BY <1>2, Zenon DEF Update, Disable, Toggle, Delete
  <2>4. Adds
    <3>1. CASE Update(a)
      BY <1>0, <3>1 DEF Update, Updated
    <3>2. CASE Disable(a)
      BY <1>0, <3>2 DEF Disable, SetEnabled
    <3>3. CASE Toggle(a) \/ Delete(a)
      <4>1. scriptRows' = scriptRows
        BY <3>3, Zenon DEF Toggle, Delete
      <4> QED
        BY <4>1
    <3> QED
      BY <1>2, <3>1, <3>2, <3>3
  <2> QED
    BY <2>2, <2>3, <2>4
<1>3. ASSUME NEW a \in ScriptAdmins, Apply(a) \/ Flip(a) \/ DisableScript(a) \/ DeleteRow(a)
                                     \/ StatementFails(a)
      PROVE  Counted /\ lastId' = lastId /\ Adds
  <2>1. lastId' = lastId /\ scriptCalls' = scriptCalls
    BY <1>3, Zenon DEF Apply, Flip, DisableScript, DeleteRow, StatementFails, scriptBounds
  <2>2. scriptFaults' = scriptFaults \/ (scriptFaults < MaxScriptFaults /\ scriptFaults' = scriptFaults + 1)
    BY <1>3, Zenon DEF Apply, Flip, DisableScript, DeleteRow, StatementFails, scriptBounds
  <2>3. Counted
    BY <1>0, <2>1, <2>2
  <2>4. Adds
    <3>1. CASE Flip(a)
      BY <1>0, <3>1 DEF Flip, SetEnabled
    <3>2. CASE DeleteRow(a)
      <4>1. scriptRows' = [scriptRows EXCEPT ![admin[a].id] = NoScript]
        BY <3>2, Zenon DEF DeleteRow
      <4> QED
        BY <1>0, <4>1
    <3>3. CASE Apply(a) \/ DisableScript(a) \/ StatementFails(a)
      <4>1. scriptRows' = scriptRows
        BY <3>3, Zenon DEF Apply, DisableScript, StatementFails
      <4> QED
        BY <4>1
    <3> QED
      BY <1>3, <3>1, <3>2, <3>3
  <2> QED
    BY <2>1, <2>3, <2>4
<1>4. ASSUME NEW c \in Callers, \/ StartHooks(c) \/ HookReturns(c) \/ HookBreaks(c)
                                \/ FindCustomAPI(c) \/ ExecuteCustomAPI(c) \/ Reply(c)
      PROVE  Counted /\ lastId' = lastId /\ Adds
  <2>1. UNCHANGED <<scriptRows, lastId, scriptCalls, scriptFaults>>
    BY <1>4 DEF StartHooks, HookReturns, HookBreaks, FindCustomAPI, ExecuteCustomAPI, Reply,
                scriptBounds
  <2> QED
    BY <1>0, <2>1
<1>5. CASE DropScripts
  <2>1. UNCHANGED <<lastId, scriptCalls, scriptFaults>>
    BY <1>5 DEF DropScripts, scriptBounds
  <2>2. Adds
    BY <1>5 DEF DropScripts
  <2> QED
    BY <1>0, <2>1, <2>2
<1>6. CASE CrashScripts \/ ListScripts \/ LoadNext \/ Serve \/ UNCHANGED scriptVars
  <2>1. UNCHANGED <<scriptRows, lastId, scriptCalls>>
    BY <1>6 DEF CrashScripts, ListScripts, LoadNext, Serve, scriptVars, scriptBounds
  <2>2. scriptFaults' = scriptFaults \/ (scriptFaults < MaxScriptFaults /\ scriptFaults' = scriptFaults + 1)
    BY <1>6 DEF CrashScripts, ListScripts, LoadNext, Serve, scriptVars, scriptBounds
  <2> QED
    BY <1>0, <2>1, <2>2
<1> QED
  BY <1>1, <1>2, <1>3, <1>4, <1>5, <1>6 DEF ScriptNext

\* The state of the scripts has its type: every id that has a row was issued by an INSERT,
\* and lists, routes and requests hold scripts with such ids.
LEMMA ScriptsTyped == ScriptSpec => []ScriptTypeOK
<1>1. ScriptInit => IssuedInv
  <2> SUFFICES ASSUME ScriptInit
               PROVE  IssuedInv
    OBVIOUS
  <2>1. scriptRows = [id \in Ids |-> NoScript] /\ scriptCalls = 0 /\ scriptFaults = 0
    BY DEF ScriptInit
  <2> QED
    BY <2>1, ScriptAssumption DEF IssuedInv
<1>2. ScriptInvar /\ IssuedInv /\ [ScriptNext]_scriptVars => IssuedInv'
  <2> SUFFICES ASSUME ScriptInvar, IssuedInv, [ScriptNext]_scriptVars
               PROVE  IssuedInv'
    OBVIOUS
  <2>1. lastId \in Nat
    BY ScriptAssumption DEF ScriptInvar
  <2> QED
    BY <2>1, StepIssues, RowsIssued
<1>3. ScriptInvar /\ IssuedInv => ScriptTypeOK
  <2> SUFFICES ASSUME ScriptInvar, IssuedInv
               PROVE  ScriptTypeOK
    OBVIOUS
  <2>1. AdminTypes /\ RuntimeTypes /\ CallerTypes /\ lastId \in 0..MaxScripts
    BY Zenon DEF ScriptInvar, Governance, Calling
  <2> QED
    BY <2>1, Zenon DEF AdminTypes, RuntimeTypes, CallerTypes, AdminType, CallerType, IssuedInv,
       ScriptTypeOK
<1> QED
  BY <1>1, <1>2, <1>3, ScriptsKept, PTL DEF ScriptSpec

\* What a column has is what the type of the column gives for it: putting it there again
\* changes nothing.
LEMMA CellInColumn ==
  ASSUME NEW c, Cell(c), schema \in FieldSchemas
  PROVE  c \in Column(c) \cup {Number(0), Number(1)}
<1>1. schema.type \in Types
  BY RoundTripAssumption DEF FieldSchemas
<1>2. CASE c = Nil
  BY <1>2 DEF Column
<1>3. CASE c # Nil /\ schema.type \in {"json", "multiSelect", "point"}
  <2>1. c[1] = "json"
    BY <1>3, JsonForm DEF Cell, Plains
  <2> QED
    BY <1>3, <2>1 DEF Column
<1>4. CASE c # Nil /\ schema.type = "integer"
  <2>1. c[1] = "number"
    BY <1>4, NumberForm DEF Cell, Plains
  <2> QED
    BY <1>4, <2>1 DEF Column
<1>5. CASE c # Nil /\ schema.type = "boolean"
  BY <1>5 DEF Cell, Plains
<1>6. CASE c # Nil /\ schema.type = "time"
  <2>1. c[1] = "text" /\ c[2] # ""
    <3>1. c \in Texts \ {Text("")}
      BY <1>6 DEF Cell, Plains
    <3>2. c[1] = "text" /\ c = Text(c[2])
      BY <3>1, TextForms
    <3> QED
      BY <3>1, <3>2
  <2> QED
    BY <1>6, <2>1 DEF Column
<1>7. CASE c # Nil /\ schema.type \in {"string", "choice", "url", "password", "encrypted", "uuid"}
  <2>1. \/ c \in Texts \/ c = Digits(1) \/ c = Text("") \/ (\E t \in Texts : c = Hash(t))
        \/ c[1] = "cipher"
    <3>1. CASE schema.type = "string"
      BY <1>7, <3>1 DEF Cell, Plains
    <3>2. CASE schema.type \in Plains
      BY <1>7, <3>2 DEF Cell, Plains
    <3>3. CASE schema.type = "password"
      BY <1>7, <3>3 DEF Cell, Plains
    <3>4. CASE schema.type = "encrypted"
      BY <1>7, <3>4 DEF Cell, Plains
    <3> QED
      BY <1>7, <3>1, <3>2, <3>3, <3>4 DEF Plains
  <2>2. c[1] \in {"text", "digits", "hash", "cipher"}
    BY <2>1, TextForms, DigitsForm, HashForm, EmptyText
  <2> QED
    BY <1>7, <2>2 DEF Column, Textual
<1> QED
  BY <1>1, <1>2, <1>3, <1>4, <1>5, <1>6, <1>7 DEF Types

\* The rows of a collection have what their columns can have.
LEMMA TripsTyped == RoundTripSpec => []RoundTripTypeOK
<1>1. TripInvar => RoundTripTypeOK
  <2> SUFFICES ASSUME TripInvar
               PROVE  RoundTripTypeOK
    OBVIOUS
  <2>1. \A i \in Saved : Cell(stored[i].field)
    BY DEF TripInvar, RowsInv, RowOK, Saved
  <2>2. \A i \in Saved : stored[i].field \in Column(stored[i].field) \cup {Number(0), Number(1)}
    BY <2>1, CellInColumn DEF TripInvar, Basics
  <2> QED
    BY <2>2 DEF TripInvar, Basics, RoundTripTypeOK
<1> QED
  BY <1>1, RecordsKept, PTL

\* The server as a whole does with scripts, fields and indexes, and values what each part
\* does alone: a step of one is none of another (meta.go, crud_controller.go).
THEOREM PartsKept == AdminSpec => ScriptSpec /\ SchemaSpec /\ RoundTripSpec
<1>1. AdminInit => ScriptInit /\ SchemaInit /\ RoundTripInit
  BY DEF AdminInit
<1>2. [AdminNext]_adminVars =>
        [ScriptNext]_scriptVars /\ [SchemaNext]_schemaVars /\ [RoundTripNext]_tripVars
  BY DEF AdminNext, ScriptsMove, SchemaMoves, ValuesMove, adminVars
<1> QED
  BY <1>1, <1>2, PTL DEF AdminSpec, ScriptSpec, SchemaSpec, RoundTripSpec

\* Scripts, fields and indexes, and values have their types whatever the others do: rows of
\* scripts have ids that were issued, fields the options that were accepted, and columns
\* only what their type takes.
THEOREM AdminTyped == AdminSpec => []AdminTypeOK
<1>1. SchemaInvar => SchemaTypeOK
  BY DEF SchemaInvar
<1>2. ScriptTypeOK /\ SchemaTypeOK /\ RoundTripTypeOK => AdminTypeOK
  BY DEF AdminTypeOK
<1> QED
  BY <1>1, <1>2, PartsKept, ScriptsTyped, TripsTyped, SchemaKept, PTL
=============================================================================
