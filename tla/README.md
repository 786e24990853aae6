# ITCodeX: models, model checks and proofs

ITCodeX (`src/server`) is a server in Go that keeps *collections*, tables whose
fields, indexes and hook scripts are defined at run time, in MySQL. Requests
create, update and destroy records through repositories; a write may write
records of related collections, run scripts that make repository calls of their
own, and run after-commit hooks. Users log in with one-time refresh tokens, and
every repository call is checked against policies held in memory. A web console
(`src/web`) administers it, and a client in Go (`src/client`) tests it.

This directory holds TLA+ modules for the server and its console, the TLC
configurations that check them on small instances, and proofs, checked by TLAPS,
for every value of their constants. Paths below are relative to
`src/server/internal` unless they begin with `src/`.

## 1. The system

| Component | Code | State | Operations | Model |
|---|---|---|---|---|
| Unit of work and repository writes | `service/metadata/tx.go`, `repository_generic.go`, `yaegi_sandbox.go`, `cel_validator.go` | `writeUnit` (transaction, hooks) in the context and in the repository value; connections of the pool | Create, CreateMany, Update, Destroy, Transaction (Go, script), after-commit hooks | `WriteUnit`, `AtomicUnits` |
| Primary keys | `src/server/pkg/utils/idgen.go` | machine number, sequence, last time, mutex | NextID | `Snowflake` |
| Login and refresh sessions | `service/auth`, `service/security/store.go` | rows of `auth_sessions`, tokens in browsers | Login, Refresh, Logout | `Sessions`, `OneTimeTokens` |
| Catalogue | `service/metadata/database.go`, `collection.go`, `system_store.go` | `Database.collections`, fields and indexes in memory; MySQL tables; rows of `collections`, `fields`, `indexes` | Bootstrap, CreateCollection, DropCollection, Sync | `Catalog` |
| | | | AddField, RemoveField, UpdateField, AddIndex, RemoveIndex, UpdateMeta, Sync | `CollectionSchema` |
| Script runtime | `service/metadata/yaegi_manager.go`, `controller/metadata/meta.go` | compiled scripts, hook lists, routes; rows of `yaegi_scripts` | save, toggle, disable, delete, load at start, run hooks and routes | `ScriptRuntime` |
| Access control | `service/acl`, `controller/security/security.go`, `service/security` | accounts, roles, policies in MySQL; each process's policies in memory | change accounts, roles, policies; first start; decide | `Authority` |
| | | | every action on records, under policies that change | `Access` |
| Resource manager | `service/resource` | registrations, middlewares | Register, Dispatch | `Authority` (lookup), `Access` (middleware) |
| Associations | `service/metadata/association.go`, `fields_relation.go` | foreign keys, arrays of ids, rows of through tables | add, set, remove, onDelete | `Relations` |
| | | | relations in the values of Create and Update | `NestedWrites` |
| | | | appended relations, trees | `Reading` |
| Field values and validation | `service/metadata/fields_*.go`, `field.go`, `cel_validator.go` | counters of sequence fields | sequence, sort and unique values | `FieldValues` |
| | | | conversions to and from columns, rules, hooks | `RoundTrip` |
| Reads | `repository_generic.go`, `filter.go`, `operator.go` | none | filters | `Filters` |
| | | | lists, pages, sorting, appends, counts | `Reading` |
| Files | `service/metadata/file_storage.go` | files on disk, rows | upload, content | `Files` |
| Web console | `src/web/src` | cached lists, drawers and forms, requests under way | list, create, edit, remove | `Console` |
| Go client | `src/client/internal/client` | requests under way | its methods on records, files, links, collections, fields, indexes, scripts | `TestClient` |
| Controllers, middleware | `controller`, `service/middleware`, `cmd` | none of their own | translate requests and answers | `TestClient`, and with what they call |
| DAO, configuration | `dao`, `manifest` | none | | not modelled |

How they interact. A controller dispatches to the resource manager, whose
handlers call a repository. The repository asks the access control, opens or
joins a unit of work, lets the association code write related records (through
other repositories, with the same context), validates, runs the script runtime's
hooks (which call repositories again), executes its statement, and leaves its
after-commit hook with the unit. `runWrite` commits and runs the hooks. The
catalogue supplies collections and fields to all of them; ids come from the one
generator of the process. All share a pool of 20 connections.

What is hard. A call several levels deep must find the right transaction from
two sources, the context and the repository value, and an error on any level
must undo what the levels below did. After-commit hooks run when the unit is
over and its context is still around. Requests hold a connection while they ask
for another. MySQL commits DDL at once, so catalogue operations fail in the
middle. Memory is a copy of rows that other requests, and other processes,
change. Lists are read in several statements. Clocks step back, tokens are
presented twice, acknowledgements get lost, answers overtake each other,
processes restart.

What makes each component correct:

- *Unit of work*: all a request wrote is durable or none of it; hooks run for
  durable writes only, once, for every save, in order; no transaction outlives
  its call; a request has one transaction; every request returns.
- *Primary keys*: no id is given twice, ids of a process increase, processes
  with different machine numbers never meet.
- *Sessions*: a token is exchanged once; a logout is final; what a browser holds
  was saved; a request is not held up for ever by another's row lock.
- *Catalogue*: a collection created with success stays until it is dropped, in
  MySQL and in memory, but for what no start brings back (below); a drop leaves
  nothing; what a broken call leaves can be found again; drops terminate; what the
  server and the next start take a collection for is what MySQL has, with the same
  exception.
- *Script runtime*: what was answered stays in force, what runs is what is
  loaded, in the order of priority, and a request is not disturbed by changes.
- *Access control*: after the last change the snapshot is the table; a request
  reaches no row and no column beyond its policies; whatever it does it could
  have done at policies and roles that held meanwhile; there is one first
  administrator, whole.
- *Associations*: links are as the last add, set, remove or nested write left
  them; onDelete leaves no dangling reference.
- *Field values*: numbers and unique values stay apart; a field keeps what a
  client made of it, through columns, answers and what is sent back; a record
  meets the rules of its collection.
- *Reads*: the clause finds what the filter means; no page of a list leaves a
  record out or shows one twice; what is appended is what is linked.
- *Files*: what is served of a record that its upload has written is all that was
  uploaded; file and record are those of each other, unless a client has written
  the record.
- *Console*: a drawer saves what it was opened for; the list shows what was
  changed with it.
- *Go client*: what a method returns was so while it was called; what it calls
  refused was not done.

A restart does not bring everything back, and the properties say what it leaves
out. `loadFields` (`database.go:450-453`) skips every row whose field `NewField`
refuses, and `NewField` has no factory for the types `id`, `createdAt` and
`updatedAt` (`field_factory.go:9-52`), which `CreateCollection` makes without it
for every collection that takes the defaults (`database.go:695-719`). Such a
collection keeps the rows and columns of these fields, and loses the fields in
memory at the next start: the times are no longer written, and an INSERT leaves
out the primary key that `applySystemFieldsForCreate` has drawn
(`repository_generic.go:304-322`), so that MySQL refuses it
(`fields_system.go:19`). The rules of a table (`SetTableValidation`,
`database.go:765`) are in no row, and are gone as well. What `WriteUnit`,
`Sessions`' `NestedWrites`, `Relations`, `FieldValues`, `Access` and `Files` say of
inserts after a restart is therefore about collections that declare an id of a type
that `NewField` knows.

The hazards of the code, each at its line and with the properties that cover it,
are listed in `PROJECT.json`.

## 2. Modules

### WriteUnit (core)

State. A *worker* is a goroutine serving a request, `cur[w]` its innermost
running call. A *call* is one repository call: `pc[c]` is where it stands,
`call[c]` what it was started with: its kind, the call it was made by, the unit
in the context it hands on (`ctx`, `WriteUnitFromContext`), the unit its
repository value is bound to (`bound`, `r.unit`), the unit its statements go to
(`unit`, `execDB`), and whether an after-commit hook is running (`post`,
`afterCommitRunning`). A unit is named after the call that began it; `ustate`,
`staged`, `after` and `hook` are its `sql.Tx`, the statements run in it, the
registered hooks, and the hook being run. `db` holds the durable statements.

Actions. `Request`, `NestedCall`, `CreateNext`, `CallInTransaction` and
`CallFromHook` start calls, from a client, an association or hook script,
CreateMany, the body of Transaction and an after-commit script; they differ in
the context and repository they hand over. `Begin` … `Finish` are the stretches
of Create, Update, Destroy, `runWrite`, `registerAfterCommit` and
`fireAfterCommit` between points where another goroutine can matter. Every step
may fail; scripts may ignore errors, CreateMany and associations do not.
`DriverAborts` ends a transaction under a running call (cancelled request, lost
connection), `CommitAckLost` commits without the process learning of it, `Crash`
restarts the process.

Abstracted: what is written. A statement is the identity of its call, and reads
are not modelled except the one of `checkUnique`, which takes a connection.
`Validate` chooses freely whether there is a unique value to check.

`AtomicUnits` is the promise: writes are staged in units, a unit becomes durable
as a whole or is dropped, and a durable write is notified at most once.
`WriteUnit` implements it under the mapping `Promise`.

### Snowflake

`NextID` with its mutex: `ReadClock` is everything up to the loop, `Spin` one
turn of the loop, `Return` the rest. The world is `Tick`, `SetBack` and
`Restart`; a restarted process draws a machine number at random, as the code
does (`SetMachineID(1)` in `NewDatabase` has no effect, because `init()` has
used the `sync.Once`). Shifts and masks are products and remainders by constants.

### Sessions

Requests present tokens that browsers hold, in any number of tabs, and move
through the handler: `Login`, `Insert`; `Refresh`, `LookUp`, `Ask`, `Update`,
`Commit`; `Logout`, `Revoke`. The UPDATE of a rotation locks its row until the
transaction ends, and its `NOW()` is the time it started (`Ask`), not the time
at which it got the row. `RollBack`, `InsertFails`, `RevokeFails` and `Crash`
are the failures; `AnswerWith` may lose the answer. `OneTimeTokens` is the
contract stated at `auth.Store` (`service/auth/types.go`). There `family[t]` is
the login that token `t` goes back to: only a login begins a family, and a login
goes on through exchanges only.

### Catalog

State. What MySQL holds: `tables` and their `columns` (fields and indexes), the
names in the table `collections` (`rows`), and the rows of a collection in
`fields` and `indexes` (`parts`). What the process holds: `published`, the keys of
`Database.collections`, and `shape`, the fields and indexes of each. A request,
`call[a]`, has a program counter and a stack, because a cascading DropCollection
calls itself for every dependent; a frame has the name, what the collection is
asked to consist of (`want`), and what is left to do (`todo`). `Unloadable` are
the fields that a start does not load (section 1).

Actions. `Create`, `CreateTable`, `InsertCollection`, `InsertField`,
`CreateIndex`, `InsertIndex`, `Publish` are CreateCollection, statement by
statement; `Drop`, `Dependents`, `Descend`, `DropTable`, `DeleteFields`,
`DeleteIndexes`, `DeleteRow`, `Unpublish` are DropCollection with
`deleteCollectionMeta`; `Sync`, `SyncTable`, `ReadColumns`, `AddColumn`, `Synced`
are Sync. No lock is held and no transaction is open across them, so any two
interleave. `Break` is a statement that fails, or whose acknowledgement was lost;
nothing is undone. `Crash` stops the process, and Bootstrap loads what the rows
say, without the fields in `Unloadable` (`Restarted`). `Overflow` is the end of a
recursion that used up the stack. Errors that MySQL answers with (a row or an
index that is there already, a table or a column that is not) are part of the
actions.

Two history variables. `outcome[n]` is the last answer that a request gave for
`n` and that no later drop (or, once dropped, creation) has put in question; a
creation that a start has been through since is `"reloaded"`.
`raced` is the set of names that were created or synchronised while a drop of
them was under way. The properties leave these out: a drop that overlaps a
creation may delete the table under it, and nothing in the code or its documents
says what should come out. Nor do they speak of columns: of two creators of one
name, the first to run CREATE TABLE IF NOT EXISTS decides the columns and the
first to insert its row the fields.

### CollectionSchema

One collection, once it is there: `columns` and `keys` of MySQL, the rows of its
fields and indexes, and what memory has of them. A change holds `Collection.mu`
and goes through the three in an order of its own, one statement after another,
each of which may fail; `Sync` holds no lock, and `CrashSchema` loads the rows, but
for those of fields in `Unloadable`, which keep their rows and columns. Of a field's
options the model keeps one label and whether `NewField` accepts them. `fields` is
what the Field in memory was built from, `opts` the map that its `Options` returns:
`UpdateField` changes the map in place before `NewField` may refuse, so that after a
refusal (`refused`) the two differ. `NewField` refuses every update of an
`Unloadable` field.

### ScriptRuntime

Rows of `yaegi_scripts` and the runtime made of them: `scripts` (compiled, by
id), `hookMap` (the list of a hook point) and `customAPIRoutes`. Requests write
the row and change the runtime in separate steps, in an order of their own
(`Apply`, `DisableScript`, `DeleteRow` …); callers copy a hook list
(`StartHooks`) and run it one by one (`HookReturns`, `HookBreaks`), or find a
route and run what is loaded by then. `CrashScripts`, `LoadNext` and `Serve` are
a restart. A script's text is reduced to its place, priority, and whether it
compiles.

### Access and Authority

`Access` has one subject and one resource, and looks at columns: the table of
policies, the snapshot that decides, and requests of every action on records,
step by step: the middleware's authorization, the repository's, hooks, the second
authorization of the values they leave, the statement under InnoDB's isolation,
the reading back, the pruning of the answer. Policies are changed in between, by
requests that write a row, read the table and publish what they read.

`Authority` has several subjects, resources and processes, and looks at rows: who
a token stands for, what its roles are by then, which policies of its process
match, what their filters leave, which handler an action reaches, and what
becomes of accounts, roles and policies. Processes start, also at once on an
empty database, and crash.

### Relations and NestedWrites

`Relations`: transactions that overlap add, set, remove and destroy. `links` is
committed, each request has its snapshot and what it has staged; a statement
waits for locks, gap locks included, and sees the newest rows. Every source has a
hasMany and a belongsToMany with one `OnDelete`.

`NestedWrites`: one write at a time, with relation fields of all five types that
may share their place. `Resolve` is `processAssociationWrites`, which creates
targets and turns relations kept in columns into values; `WriteRow` is the
statement; `Associate` is `applyPendingAssociations`, in any order.

### FieldValues and RoundTrip

`FieldValues`: two transactions at a time fill in sequence and sort numbers and
check a unique value; the counter is in memory and forgotten by `RestartServer`.
`givenIn` and `givenWith` are history: the process that gave a record its number,
and the records that the same request gave it to.

`RoundTrip`: values are terms (`Hash(v)`, `Cipher(k, v)`, `Json(v)`, `Digits(n)`
…), and every type of field has what it makes of a value on the way in
(`ToStore`), what its column makes of it (`Column`), and what it makes of that on
the way out (`FromStore`); around that, decoding of bodies and filters, formulas,
hooks and validation. Clients create, update in part, read, send back, destroy.
`Restart` may change the key, and loses the rule of the table.

### Filters and Reading

`Filters` is `BuildWhereClause` as a recursive operator on rows, in three-valued
logic (`Kept`), next to what a filter says (`Says`). `Reading` is a client that
reads a list: `FindPage`, one `Load…` for each relation appended, `CountAll`,
`AnswerList`, and the next page; `Edit` by others comes between any two. Trees,
calendars and comments have their options (`SpecialKey`), windows (`FilterOf`)
and nesting (`Nested`).

### Files

An upload is `CreateFile`, `CopyAll`, `CreateRecord`; what goes wrong leads to
`RemoveFile`, which may itself fail. Id and path of a record are ordinary fields:
`MakeRecord` is a client that creates a record as any other, with a free id and any
path or none, `ChangePath` one that updates a path, `DestroyRecord` a destruction;
an upload whose id a client has taken is refused its record (`RecordRefused`). A
viewer finds the record, then looks for the file that its path names, then opens it.
`Die` is a crash anywhere. `story` is history: what happened to an id.

### Console

A page with a list, a drawer and requests: `screen` is React state, `cached` the
query of react-query (what it shows, whether it is stale, what is being
fetched), `sent` the requests under way, each with what it was meant for. The
libraries are modelled from how the code uses them and marked external; so is
what the server does with a request, and what other administrators do.

### TestClient

Several clients call methods of the Go client on things of one kind: `Invoke`
sends the request, one action per statement of its handler (`Look`,
`UpdateRecord`, `ShowCollection`, ...) works it off, `Receive` is the rest of the
method. A call keeps what its handler has found, still has to do and is about to
say; `seen` and `did` are history. Values are reduced to two columns: a text, of
the call that sent it, and a mark that the update of a text leaves alone. `Refuse`
and `Fail` stand for all that policies, hooks, rules and drivers may object, which
other modules are about, wherever the handler would notice; `HandlerResponse` and
`LogicError` say with which status and code the client hears of it, `Failed` and
`ErrorCode` what it makes of them. A client that gives up after 30 seconds has a
call that is answered and not received.

### Instances with several components

`MCAdmin` (ScriptRuntime, CollectionSchema, RoundTrip; `Administration` states
their interleaving), `MCData` (Access, Relations, FieldValues, Reading),
`MCCatalog` (Catalog, Authority), `MCConsole` (WriteUnit, Console), `MCSessions`
(Sessions, NestedWrites, Files) and `MCSnowflake` (Snowflake, TestClient) hold
several components that share no variable. A behaviour of such a set is an
interleaving of one behaviour of each, and no property speaks of two of them; so it
is enough to look at the behaviours in which one, the one in `focus`, takes all the
steps, and the state spaces add up instead of multiplying.

Definitions marked *(slip)* are how the definition after them could be written
wrongly. No specification uses them: replacing the definition by its slip must
violate the property that `PROJECT.json` pairs with it, which shows that the
property can fail.

## 3. What is checked

| Run | Module, configuration | Shows |
|---|---|---|
| `write_unit` | `MCConsole`, `WriteUnit.cfg` | `WriteUnit`: atomicity of requests, order and completeness of hooks, no leaks, one transaction a request, the promise. `Console`: `ConsoleHolds` |
| `write_unit_pool` | `MCWriteUnit`, `WriteUnitPool.cfg` | every request returns when the pool is large enough |
| `write_unit_pool_full` | `MCWriteUnit`, `WriteUnitPoolFull.cfg` | violation: requests wait on each other when it is not |
| `write_unit_joined` | `MCWriteUnit`, `WriteUnitJoined.cfg` | violation: calls inside Transaction do not join it |
| `write_unit_hook_write` | `MCWriteUnit`, `WriteUnitHookWrite.cfg` | violation: writes of an after-commit hook go to the finished transaction |
| `snowflake` | `MCSnowflake`, `Snowflake.cfg` | `Snowflake`: ids increase and are apart; every call returns. `TestClient`: `ReturnsHold` |
| `sessions` | `MCSessions`, `Sessions.cfg` | `Sessions`: tokens are exchanged once, logouts are final, the contract, every request is answered. `NestedWrites`: `NestedWhole`. `Files`: `FilesHold` |
| `catalog` | `MCCatalog`, `Catalog.cfg` | `Catalog`: creations last, drops leave nothing, leftovers are found by the next start. `Authority`: `ActsAsGranted`, `StartsWhole` |
| `catalog_cascade` | `MCCatalog`, `CatalogCascade.cfg` | violation: a cascading drop of collections that refer to each other comes back to where it began |
| `admin` | `MCAdmin`, `Admin.cfg` | `ScriptsHold`, `SchemaHolds`, `RecordsHold` |
| `data` | `MCData`, `Data.cfg` | `Access`: `NothingBeyond`, `PoliciesPublished`, `UpdateDone`. `LinksHold`, `ValuesApart`, `ReadsHold` |
| `data_numbers` | `MCData`, `DataNumbers.cfg` | violation: an update gives a record a new sequence number |

Several of these are conjunctions of named parts, each with its own comment:
`ScriptsHold` (`AnswerHolds`, `RegisteredAsLoaded`, `RunsAsLoaded`), `SchemaHolds`
(`SchemaAgrees`, `ListedExist`), `RecordsHold` (`MeaningKept`, `RulesMet`),
`NothingBeyond` (`RowsGranted`, `FieldsGranted`), `LinksHold` (`LinksAsAsked`,
`NoDangling`), `ReadsHold` (`FiltersMean`, `PagesWhole`, `AppendsTrue`,
`TreeTrue`), `FilesHold` (`ServedWhole`, `NoneAlone`), `ConsoleHolds`
(`SendsWhatWasMeant`, `ListsWhatItChanged`), `ReturnsHold` (`RowsTrue`,
`NumberTrue`, `UpdateTrue`), `HooksInOrder` (`HookForEverySave`,
`HookInnerFirst`).

The five violations are disagreements between the code and its own documents or
tests; `PROJECT.json` ("findings") quotes them.

- `features_test.go:275` expects a write made by an after-commit hook to have
  happened. The context given to the hook still carries the unit that has just
  been committed, so the write is executed on a finished transaction.
- `docs/元数据/设计方案/04-Yaegi二开设计.md:357` forbids a second Begin inside
  Transaction. The script forms of Transaction pass on their caller's context,
  which does not carry the unit. `RequestAtomic` and `SingleBegin` are therefore
  stated for Create, Update and Destroy, where they hold, and `TransactionJoined`
  for Transaction, where it does not.
- The same document (142-143) has every statement use the transaction of its
  context. `checkUnique` uses the pool, and waits there while holding a
  connection.
- Refusing to drop a collection that others refer to, `database.go:838` advises
  `cascade=true`. Of two collections that refer to each other each stays
  published until the drop of the other is done, so DropCollection recurses
  until the stack is used up and the process ends.
- `docs/元数据/需求描述/字段/09-高级类型-05-自动序列.md:64` has a sequence number
  given at creation and never changed. `Update` calls `applyAutoFields` as Create
  does (`repository_generic.go:795`), which gives every sequence field that the
  values do not carry the next number.

What a property leaves out because the code does not promise it is part of the
property, as an explicit condition or a history variable, and is said in its
comment. The largest of these exceptions:

- `PoliciesPublished` speaks of changes that no other overlaps: of two that do,
  the one that read the table first may publish last.
- `UpdateDone` excepts an update whose record was changed or destroyed by another
  request meanwhile: Update answers 1 for a statement that changed nothing.
- `ValuesApart`, of numbers, excepts those that one `updateMany` gave to several
  records and those given by different processes (`NumbersApart`); requests that
  overlap are no exception, since `nextSequenceValue` holds `sequenceMu`. Places are
  excepted among requests that overlapped and after `updateMany`, and codes among
  requests that overlapped, unless there is a unique index.
- `CreatedLasts` compares a collection in memory with its rows: they are the same
  until a start, and from then on but for the fields in `Unloadable`, although
  `docs/元数据/设计方案/01-总体架构设计.md:219` has the start load all definitions from
  the table `fields` (section 1).
- `SchemaHolds` excepts the fields in `Unloadable` after a start, the indexes of
  removed fields, and, once a statement has failed, what `ListedExist` does not
  name. It also excepts the options of a field whose last update was refused:
  `UpdateField` sets the new options in the published Field
  (`collection.go:392-416`) before `NewField` may refuse them (418). The request is
  answered with an error, the field shows the refused options and converts and
  validates by them, and the row and the next start have the old ones; the same
  document (241) has cache and database change in step.
- `ReadsHold` excepts pages larger than `MaxPageSize` and sorts with ties,
  relations of a collection to itself (both tables have one name in the clause),
  pages of linked records that were cut, and keys that were not selected.
- `RecordsHold` excepts numbers from 2^53 on that were sent as JSON numbers
  (`blurred`), values that no rule was asked about (`emptied`, `bypassed`), and the
  rule of a table after a restart.
- `NestedWhole` excepts a belongsTo whose foreign key is another field (null
  leaves the link) or no field (nothing is shown), hasMany, hasOne and
  belongsToMany in an update by filter (ignored), two given fields kept in one
  place, and more links than a page.
- `FilesHold` excepts what an error of `Close` cut short, which is ignored, and
  records that a client has written: their path may name any file or none.
- `ListsWhatItChanged` excepts lists that are being loaded for the first time or
  that nobody looks at, and creations by the wizard, which invalidates nothing.
- `ReturnsHold` takes each column of a row by itself, because a row may be put
  together from two moments (a flag that was read, a text that was changed
  meanwhile). It excepts `UpdateCollection`, `UpdateScript`, `ToggleScript` and
  `DisableScript` of what another client has removed, which they do not notice, and
  says nothing of errors that leave open what was done: the codes 1 and 500.

### Bounds, and why they are enough

- `WriteUnit`: three calls and two workers. With three calls one request can
  have two nested calls, side by side or one within the other, an after-commit
  hook that writes, or a Transaction around two calls; or one request nests a
  call while the other runs. Every rule about contexts relates a call, its
  parent and the owner of the unit, which are three calls at most. Workers share
  nothing but the pool and `db`, so two suffice; they are interchangeable, and
  the run uses that symmetry. One restart (`MaxCrashes`) may happen anywhere.
  Update by filter is left out of the large run because it differs from Update
  of one record by registering no hook, as Destroy does.
- `WriteUnitPool`: saves, updates by filter and CreateMany of two workers whose
  calls open at most one transaction each, and a pool of three; the full run has
  a pool of two. TLC cannot use symmetry with liveness: `FairNext` lets the same
  worker make the first request (`InTurn`), which is one of two equal halves.
- `Snowflake`: two numbers a millisecond and two machine numbers, so that the
  number wraps at the second id and a number one bit too wide reaches into the
  machine's; four ids (`MaxIds`), the clock at most two milliseconds ahead
  (`MaxAhead`), one adjustment (`MaxSetBacks`) and two processes (`MaxBoots`).
- `Sessions`: three tokens, which is a login and two exchanges or two logins and
  an exchange, in two requests; tokens live for one unit of time and time
  advances once, so that a token may expire at any point of a request.
- `Catalog`: two names that may refer to each other, a field and an index for
  each, of which one is unique and so made by CREATE TABLE, the other by CREATE
  INDEX, and for one a field that no start loads; two requests at a time, because
  nothing but rows and memory connects them, and they are interchangeable; at most
  five requests (`MaxCalls`), which is a failed creation, a creation that
  succeeds, a racing one, a drop and a creation after it, at most two failed
  statements or restarts (`MaxFaults`), so that recovery can fail too, and six of
  both together (`MaxEvents`); three calls on a stack (`MaxDepth`), one more than
  collections.
- `CollectionSchema`: four fields, one of them a relation's and one of a type that
  no start loads, two indexes, of one field and of two; two requests at a time,
  four in all, two faults.
- `ScriptRuntime`: two hooks at one place, a route, and a script that does not
  compile; two ids, two requests at a time, three in all, one caller, one fault.
- `Access`: two records, two policies in the table, of those that differ in rows,
  columns or actions; two clients and two requests on policies, at most two of
  each and one fault, three of all together (`MaxAccessEvents`): a request with
  two changes of policies, or two requests and one.
- `Authority`: two processes, two users, two roles, three policies, two requests
  and one outage. Requests arrive once all processes are up and all who can have
  logged in, because a process that starts reads what it could as well have read
  after the request.
- `Relations`: two sources, three targets, a page of two, so that one may have
  more than a page; two requests, which may overlap.
- `NestedWrites`: one write (`MaxNested`) of one or two of seven fields, from two
  fillings of the tables: transactions that overlap are in `Relations`, and a
  write's outcome depends on what it finds only. A page of two, with three linked.
- `FieldValues`: three records and requests, two at a time, one restart.
- `RoundTrip`: four requests, a collection for every type, ids 8 and 9 with
  `Exact` = 8, which stands for 2^53: 9 is the first integer that a float64 does
  not hold. Two keys. The rule of the table is checked with each type of hook, and
  with encrypted text, which looks at the key.
- `Reading`: 171 lists (filters, sorts, page sizes of one to three with
  `MaxPageSize` two and three children, appends, windows), from several fillings,
  with one edit between any two statements; a tree is nested to two levels
  (`MaxNest`; eight in the code), one less than there can be.
- `Files`: two uploads, a viewer, one write of a client (`MaxByHand`), two troubles:
  the client can take the id of an upload or give any record any path, before the
  upload, during it or after it, and a second trouble can hit the removal that the
  first made necessary. A record that a client has written is left out of the
  property for good, so that a second write of it shows nothing new.
- `Console`: each of the six pages, with two things (the page of records only
  begins with two), three events, of which one trouble (`MaxTroubles`); answers
  and fetches are not counted. A drawer that is opened for another thing while a
  save is under way takes two events, the late answer none.

- `TestClient`: two things, two calls (`MaxCalls`) of any two methods, answered or
  not, and a page of one, so that a list may be cut short. A returned row is
  compared with what was there during that call, and all that others do between
  two steps of its handler is a change of a thing, which one other call can make:
  a third would change it again. One of the things is there, or both.

Where an instance runs out of calls, ids, tokens or requests, the MC module lets it
stutter when nothing is under way, so TLC's deadlock check stays on and finds
requests that wait on each other.

### Fairness

- `WriteUnit`: weak fairness of `Proceed(w)`: the Go scheduler runs a goroutine
  that can run, and a waiting `BeginTx` or query is given a connection when one
  is free: `database/sql` serves its waiters from a queue, so no request needs
  strong fairness. Nothing is assumed of clients, scripts, aborts or crashes: a
  script that never ends its list of calls is bounded by `Calls` only.
- `Snowflake`: weak fairness of a goroutine's own steps and of `Tick`; strong
  fairness of `Acquire`, since a `sync.Mutex` that starves a waiter for more than
  a millisecond is handed to it.
- `Sessions`: strong fairness of `Serve(c)`: InnoDB grants a row lock to those
  who wait for it in turn, although the row may be taken and freed in between.
- The other modules state safety only, and no fairness. Their requests wait for
  row locks at most, which `Sessions` and `WriteUnit` look at.

## 4. What is proved

All theorems hold for every value of the constants allowed by the ASSUMEs of the
modules: any number of calls, workers, clients and tokens, any pool, any width
of the fields of an id.

**WriteUnitProofs.** `Inductive` establishes `IInv`; from it follow `TypeCorrect`
(`TypeOK`), `HooksAreDurable` (`HookAfterDurable`), `NothingLeaks`
(`NoLeakedTransaction`), and, step by step, `PromiseKept` (`ImplementsPromise`).
`HookAfterDurable` is not inductive: to know that a hook about to be fired
belongs to a durable write one must know that a registered hook's statement is
staged in the same unit, that no other unit lists or stages that call, that no
call is registered twice, and that a unit whose owner fires hooks was committed.
These are the conjuncts of `IInv`, each a named definition with a comment.

`ChainsHold` establishes the second invariant, `JInv`, which knows the chain of a
request's calls: which of them works in whose unit, that the frames above a
waiting call are its descendants, in which order registrations and hooks stand
in a unit, and what of a finished subtree is staged. From it follow
`OneTransaction` (`SingleBegin`), `RequestsAtomic` (`RequestAtomic`) and
`HooksOrdered` (`HooksInOrder`).

**SnowflakeProofs.** `TypeCorrect`, `IdsIncrease` (`Increasing`) and
`MachinesNeverCollide` (`MachinesApart`). The invariant says that the last id is
packed from `lastTime` and `sequence`, and that the holder of the mutex is about
to return a larger one: a later time, or the same time and a larger number. The
lemmas `Digits`, `PackOrder` and `PackMachine` are the arithmetic: a number
below the base is determined by the sum, so the fields of an id can be read back.

Of `TestClient`: `AnswersKept` establishes `ClientInv`, from which `ReturnsTrue`
(`ReturnsHold`) follows, for any number of things and calls. What is returned was
decided several steps earlier, so the invariant has a part for each stage of a
call: what was found has been seen (`BegunInv`); a collection that was looked up
is the same one still or its absence has been seen; nothing was written for a call
that may still be refused (`SentInv`); and what is about to be said is true of
what has been seen (`ChangedInv`, `AnsweredInv`). Other calls only add to what has
been seen (`Grown`), under which all of this stays true; for numbers that is a
comparison of cardinalities (`NumberStays`).

**ClientProofs.** Of `Sessions`: `TypeCorrect`, `OneLiveToken` (`SingleLive`),
`HeldTokensSaved` (`HeldSaved`), `LogoutEnds` (`LogoutFinal`) and `ContractKept`
(`KeepsContract`). `SingleLive` needs to know that the token a request is about to
consume is still live when it commits, which the row lock guarantees, and that the
token it saves is in no row and in no other request.

Of `Console`: `ConsoleKept` establishes `ConsoleInvar`, whose `ScreenInv` says that
an open drawer has the record it was opened for and that its form differs from what
was meant only where the property allows it, `CacheInv` that a list which is being
read or rests was asked for after what it has been told of, and `SentInv` that every
save under way sends what its drawer meant. The properties speak of one moment, the
invariant of how it came about: a late answer may close a drawer, clear its form or
exchange its list, and none of these may leave an old form under a new record.
`SavesWhatWasMeant` (`SendsWhatWasMeant`), `ListsTold` (`ListsWhatItChanged`) and
`ConsoleTrue` (`ConsoleHolds`), which is both, follow.

**CatalogProofs.** `TypeCorrect`, `CreationLasts` (`CreatedLasts`),
`DropLeavesNothing` (`DroppedIsGone`) and `LeftoversFound` (`LeftoversListed`),
for any number of names, parts, requests, failures and levels of a cascade, and any
fields that a start leaves out. The
three properties are conjuncts of the invariant and need the rest of it:
`Apart` (no request makes what another drops, except names in `raced`),
`InsertInv` (whoever inserted the row of a collection is alone in saving its
parts, and the rows are exactly those it no longer has to save; whoever has not
yet will fail if the name is published by then), `DropInv` (how far a drop has
got, on every level of its stack) and `FormInv`. The unique key on the name in
`collections` is what the argument turns on: it elects one of the creators.

**RecordProofs.** `FilesAreWhole` (`FilesHold`). That what a viewer is about to be
served is whole has to be known of every file whose upload has made its record,
also of one whose commit is in doubt and whose upload is about to remove it
(`RecordedInv`, `ViewInv`), whatever clients have written into other records
meanwhile; that an upload takes a file away from no record but its own, because no
two have one id (`OwnInv`) and its record comes last (`AheadInv`).

Of `NestedWrites`: `NestedKept` establishes `NestedInvar`, `NestedTrue`
(`NestedWhole`) follows, for any relation fields, foreign keys, lists and links.
While fields are resolved, the columns of the write are exactly those of the
fields that have been (`ResolveInv`); a field whose place is its own alone is
settled by the statement, or by its `Associate`, and by no other
(`AssociateInv`); links that are gone were in a place that is given, and of
another source only when their target was named (`FrameInv`). That a target
which is created takes no links away needs that nobody knew its id.

**DataProofs** covers three modules that share no state. Of `Access`:
`LocksAndTypes`, `PoliciesDecide` (`PoliciesPublished`), `WithheldStaysWithheld`
(`NothingBeyond`) and `UpdatesTruthful` (`UpdateDone`). A change of policies
writes, reads and publishes in three steps, so what is known of the snapshot is
that it is the table of some moment since the last change that is not still on
its way; what is known of a request is, for each of its steps, which policies
have vouched for the rows and columns it has in hand.

Of `Relations`: `LinksKept` establishes `RelationsInvar`, `LinksTrue`
(`LinksHold`) follows. To know what a request leaves linked one must know, for
every step of it, which of its links it has made or taken away, and that what it
read is still so: that nobody else may change the record's links while it is
alone (row locks and the locks on ranges of keys), and that its snapshot then
says what the rows say. A destruction has, besides, put an end to the links of
every collection it has been through.

Of `FieldValues`: `ValuesKept` establishes `ValuesInvar`, `ValuesTrue`
(`ValuesApart`) follows: the rows a request has written are nobody else's, the
numbers under way differ from each other and from those stored since the start,
none is above the counter, and a request that was alone has seen all codes that
there are. The attempt to prove this showed a history variable of the model to
be too coarse. An update that carries no code counted as one that gave it anew,
so a record that shared its code with another left `loose` without losing that
code, and the property was wrong; it takes five requests to see it, more than
the run has. `looseCodes` is now kept apart from `loose`, and numbers have a
history of their own (`givenWith`), because overlapping excuses nothing there.

**MetaProofs** covers what `controller/metadata/meta.go` administers, and what the
fields it describes do with values. Of `CollectionSchema`: `SchemaKept`
establishes `SchemaInvar`, `SchemaTrue` (`SchemaHolds`) follows. The property
speaks of a collection on which no change is under way; the invariant says for
every statement of every operation what the request that holds the lock has behind
it in MySQL, memory and rows (`Work`, `CleanInv`), what is true of the three
whatever has broken off (`ListedInv`, `SyncInv`), and of fields and their options
whatever was refused or left out by a start (`FieldsInv`): a field that no start
loads keeps its row and its column for good, since nobody can remove it or add it
again.

Of `ScriptRuntime`: `ScriptsKept` establishes `ScriptInvar`, `ScriptsTrue`
(`ScriptsHold`) follows. `Registry` says that hooks and routes are those of the
compiled scripts; it rests on lemmas about the lists of the community modules
(what `RemoveFirst` and `InsertAt` leave in a sorted list without repetitions).
`Governance` says what a request that is alone on its script has done so far of
row and runtime, in the order of its kind, and how far Bootstrap has got.
`Calling` says that whatever a request has run or will run was loaded since it
looked, that no script occurs twice in the two together, and that a hook that
stayed registered is in one of them.

Of `RoundTrip`: `RecordsKept` establishes `TripInvar`, `RecordsTrue`
(`RecordsHold`) follows, for any schema, texts, numbers, ids and keys.
The property compares what a column means with what clients have made of it,
and says nothing of the form either has. The invariant does: which forms the
column of each type holds (`Cell` in `RowsInv`), that a row which was sealed
holds ciphertext inside ciphertext (`SealInv`), which forms a client can have
read and will send back (`Offer` in `CopyForm`), and that what it read still
means what it meant then (`CopyMeans`), although others have changed
the row since. One lemma per conversion says which forms it takes to which
and that it keeps the meaning. The columns of numbers showed the
form that the column gives to the text of a number to be a step of its own
(`Numeral`): the database makes it, no conversion of the server does.

`Administration` interleaves the three. `PartsKept` shows that it implements the
specification of each: its initial states are theirs, and its steps are steps of one
and leave the others alone, so that every theorem about a part is one about the
whole. `AdminTyped` (`AdminTypeOK`) gives the types of all three. For scripts that
takes `IssuedInv` besides `ScriptInvar`: no statement but an INSERT adds a row, and
that under the next id (`StepIssues`); for records it follows from `Cell`: what a
column has is what the type of the column gives for it (`CellInColumn`).

**AdminProofs.** `Governed` establishes `AInvar` of `Authority`: `Shapes` (types),
`BootInv` (what a process that is starting has found and inserted), `FoundInv`
(the first administrator is whole until a request changes something) and
`AskInv` (for every step of a request, that what it holds was so at some moment
since it began). `NamesUnique` (`AuthorityTypeOK`), `GrantsBind`
(`ActsAsGranted`) and `StartsClean` (`StartsWhole`) follow. `Least`, the least
element of a set of naturals, comes from the library's theorem on well-founded
relations, and gives the next id.

Only model-checked:

- `ReadsHold` (`Reading`, `Filters`): what a filter means is defined by recursion
  on the filter, so its equality with what the statement selects is an induction
  over data, and the prover takes no module with RECURSIVE operators;
- `DataTypeOK`, which puts the types of `MCData`'s components together (the
  invariants of the proofs contain the parts of every one but `Reading`, which
  reaches the RECURSIVE operators of `Filters`);
- every liveness property: TLAPS supports neither liveness under fairness nor
  ENABLED. Induction over data is out of its reach too, where it cannot be put as
  the least element of a set.

## 5. What is not modelled

Left out altogether: configuration, the generated DAO, the in-memory session store
that tests use, access tokens (they are not stored), the password hash, MySQL itself
beyond locks, isolation and unique keys.
Within the modelled components:

- *Writes*: MySQL ending a transaction without the driver noticing (a deadlock
  victim whose error a script ignores). Values are in `RoundTrip`, not here.
- *Catalogue*: through tables, the order of fields, `CREATE TABLE` with the
  indexes of preset fields, the rules of tables (in `RoundTrip`), a field that is
  added under the name of a preset one as a relation.
- *Script runtime*: what a script says. `DropCollection` deletes the rows of
  scripts and leaves the compiled ones to the next start.
- *Access control*: a start without a password for the first administrator
  (`store.go:318` founds nobody then), scripts that change the filter they are
  handed, in place or by what they return; users do not change once created,
  except their roles; patterns of resources are reduced to which lies `Under`
  which; lists of users, roles and policies. `AddFixedParams`, `Allow` and
  `Unregister` are not used by the program.
- *Associations*: hasOne has hasMany's code, and belongsTo through an association
  call is an Update. Targets of nested writes have no relations of their own, and
  nested writes do not overlap.
- *Field values*: padding, dates and patterns of sequence numbers. Columns of dates
  and times with zones.
- *Reads*: operators on text, logical operators below a column, columns that do not
  exist, appends within appends except for trees, policies and hooks on the Finds
  that an append makes.
- *Files*: paths that are no upload's, the files of a dropped collection (they
  stay), loss of power.
- *Console*: the libraries, searching, sorting, paging, validation of forms, the
  pages of settings and synchronisation, and the one tab that is kept while its
  collection is exchanged for another.
- *Go client*: `Login`, `Me` and `SetAccessToken` (a token that is refused is
  `Unauthorized`), options of queries, answers of another shape than the handlers
  give, and the tests. Fields and indexes are those of one collection that stays.

Seen while reading, outside what the properties speak of: ids have 63 bits while
`docs/元数据/需求描述/数据表/02-普通表GeneralCollection.md:55` speaks of 53;
`decodeInto` makes the numbers of a filter float64; a TIME is answered as base64
and cannot be sent back; `OverviewTab` keeps the form of the collection it was
opened for; a save that succeeds late closes whichever drawer is open then; the
drawer edits the row of the list, where
`src/web/docs/元数据管理端-产品需求文档.md:629` has it fetch the latest.

## 6. Plan

Done: all components of the table, to the extent section 5 leaves. Ahead:

1. The rest of `database.go` and `collection.go`: what they read from MySQL of
   tables that others have made.
2. Nested writes that overlap, composed with `Relations`; nested targets that have
   relations themselves.
3. Policies on the Finds that an append makes: `Reading` composed with `Access`.
