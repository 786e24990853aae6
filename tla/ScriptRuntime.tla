--------------------------- MODULE ScriptRuntime ---------------------------
(***************************************************************************)
(* Scripts: their rows in "yaegi_scripts", the interpreters compiled from  *)
(* them (service/metadata/yaegi_manager.go), the requests that administer  *)
(* both (controller/metadata/meta.go) and the requests that run them.      *)
(*                                                                         *)
(* A request writes the row first and the runtime after it, or the other   *)
(* way round, and holds no lock in between; the runtime changes under      *)
(* DefaultYaegiManager.mu.  The text of a script is abstracted to what the *)
(* runtime makes of it: where it is registered, its priority, and whether  *)
(* it compiles.                                                            *)
(***************************************************************************)
EXTENDS Integers, Sequences, FiniteSets, SequencesExt

CONSTANTS
  Definitions,        \* what the fields of a script row may hold
  Places,             \* a collection and a hook point
  Routes,             \* a method and a path of the custom API
  Slot,               \* Slot[d]: the place or the route that d is registered at
  Priority,           \* Priority[d]
  Compiles,           \* Compiles[d]
  Owned,              \* definitions that name the collection that may be dropped
  ScriptAdmins,       \* concurrent administrative requests
  Callers,            \* concurrent requests that run scripts
  NoScript,
  MaxScripts,         \* bound: rows inserted
  MaxScriptCalls,     \* bound: administrative requests
  MaxScriptFaults     \* bound: statements that fail, and crashes

Ids == 1..MaxScripts

ASSUME ScriptAssumption ==
  /\ Places \cap Routes = {}
  /\ Slot \in [Definitions -> Places \cup Routes]
  /\ Priority \in [Definitions -> Int]
  /\ Compiles \in [Definitions -> BOOLEAN]
  /\ Owned \subseteq Definitions
  /\ NoScript \notin Definitions
  /\ NoScript \notin [id : Ids, def : Definitions]
  /\ NoScript \notin [def : Definitions, enabled : BOOLEAN]
  /\ MaxScripts \in Nat /\ MaxScriptCalls \in Nat /\ MaxScriptFaults \in Nat

VARIABLES
  scriptRows,         \* yaegi_scripts
  lastId,             \* its AUTO_INCREMENT counter
  scripts,            \* manager: scripts[id] is the definition compiled for id
  hookMap,            \* manager: the instances at a place, in the order they run
  customAPIRoutes,    \* manager: the instance that answers on a route
  server,             \* "up", "loading", "down", or "refused": Bootstrap failed
  toLoad,             \* loadEnabledScripts: rows that it has still to load
  admin,              \* what each administrative request is doing
  caller,             \* what each request that runs scripts is doing
  scriptCalls, scriptFaults,
  settled,            \* history: scripts whose last request was answered with
                      \* success and overlapped no other one on the script
  asked,              \* history: what that request asked for
  steady,             \* history: instances registered where the request looks
                      \* for all the time since it looked
  seen                \* history: instances loaded at some time since then

runtime == <<scripts, hookMap, customAPIRoutes>>
boot == <<server, toLoad>>
scriptBounds == <<scriptCalls, scriptFaults>>
promise == <<settled, asked>>
watch == <<steady, seen>>
scriptVars == <<scriptRows, lastId, runtime, boot, admin, caller, scriptBounds,
                promise, watch>>

Row(d, e) == [def |-> d, enabled |-> e]
Inst(id, d) == [id |-> id, def |-> d]
Free == [at |-> "idle", id |-> 0, row |-> NoScript, alone |-> FALSE]
Waiting == [at |-> "idle", slot |-> NoScript, todo |-> <<>>, ran |-> <<>>]

ScriptInit ==
  /\ scriptRows = [id \in Ids |-> NoScript] /\ lastId = 0
  /\ scripts = [id \in Ids |-> NoScript]
  /\ hookMap = [p \in Places |-> <<>>]
  /\ customAPIRoutes = [r \in Routes |-> NoScript]
  /\ server = "up" /\ toLoad = {}
  /\ admin = [a \in ScriptAdmins |-> Free]
  /\ caller = [c \in Callers |-> Waiting]
  /\ scriptCalls = 0 /\ scriptFaults = 0
  /\ settled = {} /\ asked = [id \in Ids |-> NoScript]
  /\ steady = [c \in Callers |-> {}] /\ seen = [c \in Callers |-> {}]

-----------------------------------------------------------------------------
(***************************************************************************)
(* DefaultYaegiManager.  A change is one step: mu is held throughout.      *)
(***************************************************************************)
Instances(compiled) ==
  {Inst(id, compiled[id]) : id \in {i \in Ids : compiled[i] # NoScript}}

At(slot, instances) == {i \in instances : Slot[i.def] = slot}

\* removeScriptLocked: what is left of the hooks, and of the routes.  A
\* route goes with the script registered there, whoever answers on it now.
HooksWithout(id) ==
  [p \in Places |->
     IF scripts[id] # NoScript /\ Slot[scripts[id]] = p
     THEN RemoveFirst(hookMap[p], Inst(id, scripts[id])) ELSE hookMap[p]]

\* (slip) The route stays.
RoutesKept(id) == customAPIRoutes

RoutesWithout(id) ==
  [r \in Routes |->
     IF scripts[id] # NoScript /\ Slot[scripts[id]] = r
     THEN NoScript ELSE customAPIRoutes[r]]

\* (slip) An instance is added beside the one that it replaces.
HooksBeside(id) == hookMap

HooksLeft(id) == HooksWithout(id)

\* append and sort.Slice, which says nothing of the order of equals.
SortedWith(list, inst) ==
  {s \in {InsertAt(list, i, inst) : i \in 1..(Len(list) + 1)} :
     \A i, j \in DOMAIN s : i < j => Priority[s[i].def] <= Priority[s[j].def]}

RemoveScript(id) ==
  /\ scripts' = [scripts EXCEPT ![id] = NoScript]
  /\ hookMap' = HooksWithout(id)
  /\ customAPIRoutes' = RoutesWithout(id)

\* LoadScript removes the old instance, even when the new one then does not
\* compile.
LoadScript(id, d) ==
  IF ~Compiles[d]
  THEN RemoveScript(id)
  ELSE /\ scripts' = [scripts EXCEPT ![id] = d]
       /\ customAPIRoutes' = [r \in Routes |->
            IF Slot[d] = r THEN Inst(id, d) ELSE RoutesWithout(id)[r]]
       /\ IF Slot[d] \in Places
          THEN \E list \in SortedWith(HooksLeft(id)[Slot[d]], Inst(id, d)) :
                 hookMap' = [HooksLeft(id) EXCEPT ![Slot[d]] = list]
          ELSE hookMap' = HooksLeft(id)

\* What the requests under way could see of it.
Watch ==
  LET now == Instances(scripts')
      busy == {c \in Callers : caller[c].at # "idle"}
  IN /\ steady' = [c \in Callers |-> steady[c] \cap now]
     /\ seen' = [c \in Callers |-> IF c \in busy THEN seen[c] \cup now ELSE {}]

-----------------------------------------------------------------------------
(***************************************************************************)
(* The administrative requests.                                            *)
(***************************************************************************)
AdminAt(a, label) == admin[a].at = label
OnScript(id) == {a \in ScriptAdmins : admin[a].at # "idle" /\ admin[a].id = id}

\* Request a works on id from now on; row is what it is to leave there.
Take(a, label, id, row, alone) ==
  /\ server = "up" /\ AdminAt(a, "idle") /\ scriptCalls < MaxScriptCalls
  /\ scriptCalls' = scriptCalls + 1
  /\ settled' = settled \ {id}
  /\ admin' = [b \in ScriptAdmins |->
       IF b = a THEN [at |-> label, id |-> id, row |-> row,
                      alone |-> alone /\ OnScript(id) = {}]
       ELSE IF b \in OnScript(id) THEN [admin[b] EXCEPT !.alone = FALSE]
       ELSE admin[b]]
  /\ UNCHANGED <<asked, scriptFaults>>

Refused(a) == admin' = [admin EXCEPT ![a] = Free] /\ UNCHANGED promise

\* Answered with success.
Answered(a) ==
  /\ admin' = [admin EXCEPT ![a] = Free]
  /\ IF admin[a].alone
     THEN /\ settled' = settled \cup {admin[a].id}
          /\ asked' = [asked EXCEPT ![admin[a].id] = admin[a].row]
     ELSE UNCHANGED promise

\* ScriptSave: INSERT.
Save(a) ==
  /\ lastId < MaxScripts
  /\ lastId' = lastId + 1
  /\ \E d \in Definitions, e \in BOOLEAN :
       /\ scriptRows' = [scriptRows EXCEPT ![lastId + 1] = Row(d, e)]
       /\ Take(a, "apply", lastId + 1, Row(d, e), TRUE)
  /\ UNCHANGED <<runtime, boot, caller, watch>>

\* (slip) A row that is missing is inserted.
Upserted(id, row) == [scriptRows EXCEPT ![id] = row]

Updated(id, row) ==
  IF scriptRows[id] = NoScript THEN scriptRows
  ELSE [scriptRows EXCEPT ![id] = row]

\* ScriptUpdate: an UPDATE that finds no row is no error.
Update(a) ==
  /\ \E id \in Ids, d \in Definitions, e \in BOOLEAN :
       /\ scriptRows' = Updated(id, Row(d, e))
       /\ Take(a, "apply", id, Row(d, e), scriptRows[id] # NoScript)
  /\ UNCHANGED <<lastId, runtime, boot, caller, watch>>

\* applyScriptRuntime
Apply(a) ==
  LET id == admin[a].id  row == admin[a].row IN
  /\ AdminAt(a, "apply")
  /\ \/ /\ row.enabled
        /\ LoadScript(id, row.def)
        /\ IF Compiles[row.def] THEN Answered(a) ELSE Refused(a)
     \/ /\ ~row.enabled
        /\ RemoveScript(id)
        /\ Answered(a)
  /\ Watch
  /\ UNCHANGED <<scriptRows, lastId, boot, caller, scriptBounds>>

\* ScriptToggle: the row is read ...
Toggle(a) ==
  /\ \E id \in Ids :
       /\ scriptRows[id] # NoScript
       /\ Take(a, "flip", id,
               Row(scriptRows[id].def, ~scriptRows[id].enabled), TRUE)
  /\ UNCHANGED <<scriptRows, lastId, runtime, boot, caller, watch>>

\* ... and what was read is applied once its flag has been written.
SetEnabled(id, e) ==
  IF scriptRows[id] = NoScript THEN scriptRows
  ELSE [scriptRows EXCEPT ![id] = Row(scriptRows[id].def, e)]

Flip(a) ==
  /\ AdminAt(a, "flip")
  /\ scriptRows' = SetEnabled(admin[a].id, admin[a].row.enabled)
  /\ admin' = [admin EXCEPT ![a] = [admin[a] EXCEPT !.at = "apply"]]
  /\ UNCHANGED <<lastId, runtime, boot, caller, scriptBounds, promise, watch>>

\* ScriptDisable
Disable(a) ==
  /\ \E id \in Ids :
       /\ scriptRows' = SetEnabled(id, FALSE)
       /\ Take(a, "remove", id, SetEnabled(id, FALSE)[id], TRUE)
  /\ UNCHANGED <<lastId, runtime, boot, caller, watch>>

DisableScript(a) ==
  /\ AdminAt(a, "remove")
  /\ RemoveScript(admin[a].id)
  /\ Answered(a)
  /\ Watch
  /\ UNCHANGED <<scriptRows, lastId, boot, caller, scriptBounds>>

\* ScriptDelete: the runtime first, then the row.
Delete(a) ==
  /\ \E id \in Ids :
       /\ RemoveScript(id)
       /\ Take(a, "delete row", id, NoScript, TRUE)
  /\ Watch
  /\ UNCHANGED <<scriptRows, lastId, boot, caller>>

DeleteRow(a) ==
  /\ AdminAt(a, "delete row")
  /\ scriptRows' = [scriptRows EXCEPT ![admin[a].id] = NoScript]
  /\ Answered(a)
  /\ UNCHANGED <<lastId, runtime, boot, caller, scriptBounds, watch>>

\* The statement that a request comes to next fails, and so does the
\* request.  (One that fails at its first statement has done nothing.)
StatementFails(a) ==
  /\ admin[a].at \in {"flip", "delete row"}
  /\ scriptFaults < MaxScriptFaults
  /\ scriptFaults' = scriptFaults + 1
  /\ Refused(a)
  /\ UNCHANGED <<scriptRows, lastId, runtime, boot, caller, scriptCalls, watch>>

\* deleteCollectionMeta, as DropCollection calls it: the rows of the
\* collection's scripts go, and what is compiled stays.
DropScripts ==
  LET gone == {id \in Ids : scriptRows[id] # NoScript /\ scriptRows[id].def \in Owned}
  IN /\ server = "up" /\ gone # {}
     /\ scriptRows' = [id \in Ids |-> IF id \in gone THEN NoScript ELSE scriptRows[id]]
     /\ settled' = settled \ gone
     /\ admin' = [a \in ScriptAdmins |->
          IF admin[a].id \in gone THEN [admin[a] EXCEPT !.alone = FALSE] ELSE admin[a]]
     /\ UNCHANGED <<lastId, runtime, boot, caller, scriptBounds, asked, watch>>

-----------------------------------------------------------------------------
(***************************************************************************)
(* The requests that run scripts.                                          *)
(***************************************************************************)
CallerAt(c, label) == caller[c].at = label

\* getHooks: a copy of the list.
StartHooks(c) ==
  /\ server = "up" /\ CallerAt(c, "idle")
  /\ \E p \in Places :
       /\ caller' = [caller EXCEPT ![c] =
            [at |-> "hooks", slot |-> p, todo |-> hookMap[p], ran |-> <<>>]]
       /\ steady' = [steady EXCEPT ![c] = At(p, Instances(scripts))]
  /\ seen' = [seen EXCEPT ![c] = Instances(scripts)]
  /\ UNCHANGED <<scriptRows, lastId, runtime, boot, admin, scriptBounds, promise>>

\* (slip) The list itself, which another request may change.
LiveRest(c) ==
  LET list == hookMap[caller[c].slot] IN SubSeq(list, Len(caller[c].ran) + 2, Len(list))

Rest(c) == Tail(caller[c].todo)

HookReturns(c) ==
  /\ CallerAt(c, "hooks") /\ caller[c].todo # <<>>
  /\ caller' = [caller EXCEPT ![c] =
       [caller[c] EXCEPT !.todo = Rest(c), !.ran = Append(caller[c].ran, Head(caller[c].todo))]]
  /\ UNCHANGED <<scriptRows, lastId, runtime, boot, admin, scriptBounds, promise, watch>>

\* It returns an error or panics: those after it do not run.
HookBreaks(c) ==
  /\ CallerAt(c, "hooks") /\ caller[c].todo # <<>>
  /\ caller' = [caller EXCEPT ![c] =
       [caller[c] EXCEPT !.at = "failed", !.todo = <<>>,
                         !.ran = Append(caller[c].ran, Head(caller[c].todo))]]
  /\ UNCHANGED <<scriptRows, lastId, runtime, boot, admin, scriptBounds, promise, watch>>

\* FindCustomAPI; without a script on the route the request is answered 404.
FindCustomAPI(c) ==
  /\ server = "up" /\ CallerAt(c, "idle")
  /\ \E r \in Routes :
       /\ customAPIRoutes[r] # NoScript
       /\ caller' = [caller EXCEPT ![c] =
            [at |-> "found", slot |-> r, todo |-> <<customAPIRoutes[r]>>, ran |-> <<>>]]
  /\ seen' = [seen EXCEPT ![c] = Instances(scripts)]
  /\ UNCHANGED <<scriptRows, lastId, runtime, boot, admin, scriptBounds, promise, steady>>

\* ExecuteCustomAPI runs what is loaded under the id of the script that was
\* found; it compiles that script again when nothing is.
ExecuteCustomAPI(c) ==
  LET found == Head(caller[c].todo)
      d == IF scripts[found.id] # NoScript THEN scripts[found.id] ELSE found.def
  IN /\ CallerAt(c, "found")
     /\ caller' = [caller EXCEPT ![c] =
          [caller[c] EXCEPT !.at = "called", !.todo = <<>>, !.ran = <<Inst(found.id, d)>>]]
     /\ UNCHANGED <<scriptRows, lastId, runtime, boot, admin, scriptBounds, promise, watch>>

Reply(c) ==
  /\ \/ CallerAt(c, "hooks") /\ caller[c].todo = <<>>
     \/ caller[c].at \in {"failed", "called"}
  /\ caller' = [caller EXCEPT ![c] = Waiting]
  /\ steady' = [steady EXCEPT ![c] = {}]
  /\ seen' = [seen EXCEPT ![c] = {}]
  /\ UNCHANGED <<scriptRows, lastId, runtime, boot, admin, scriptBounds, promise>>

-----------------------------------------------------------------------------
(***************************************************************************)
(* Crash, and Bootstrap: loadEnabledScripts reads the rows ORDER BY id     *)
(* DESC and compiles one after another before the server answers anybody.  *)
(***************************************************************************)
CrashScripts ==
  /\ server # "down" /\ scriptFaults < MaxScriptFaults
  /\ scriptFaults' = scriptFaults + 1
  /\ server' = "down" /\ toLoad' = {}
  /\ scripts' = [id \in Ids |-> NoScript]
  /\ hookMap' = [p \in Places |-> <<>>]
  /\ customAPIRoutes' = [r \in Routes |-> NoScript]
  /\ admin' = [a \in ScriptAdmins |-> Free]
  /\ caller' = [c \in Callers |-> Waiting]
  /\ steady' = [c \in Callers |-> {}] /\ seen' = [c \in Callers |-> {}]
  /\ UNCHANGED <<scriptRows, lastId, scriptCalls, promise>>

ListScripts ==
  /\ server = "down"
  /\ server' = "loading"
  /\ toLoad' = {id \in Ids : scriptRows[id] # NoScript /\ scriptRows[id].enabled}
  /\ UNCHANGED <<scriptRows, lastId, runtime, admin, caller, scriptBounds, promise, watch>>

\* A script that does not compile ends Bootstrap, and the process.
LoadNext ==
  /\ server = "loading"
  /\ \E id \in toLoad :
       /\ \A other \in toLoad : other <= id
       /\ LoadScript(id, scriptRows[id].def)
       /\ toLoad' = toLoad \ {id}
       /\ server' = IF Compiles[scriptRows[id].def] THEN "loading" ELSE "refused"
  /\ UNCHANGED <<scriptRows, lastId, admin, caller, scriptBounds, promise, watch>>

Serve ==
  /\ server = "loading" /\ toLoad = {}
  /\ server' = "up"
  /\ UNCHANGED <<scriptRows, lastId, runtime, toLoad, admin, caller, scriptBounds,
                 promise, watch>>

ScriptNext ==
  \/ \E a \in ScriptAdmins :
       \/ Save(a) \/ Update(a) \/ Toggle(a) \/ Disable(a) \/ Delete(a)
       \/ Apply(a) \/ Flip(a) \/ DisableScript(a) \/ DeleteRow(a) \/ StatementFails(a)
  \/ \E c \in Callers : \/ StartHooks(c) \/ HookReturns(c) \/ HookBreaks(c) \/ FindCustomAPI(c)
                         \/ ExecuteCustomAPI(c) \/ Reply(c)
  \/ DropScripts \/ CrashScripts \/ ListScripts \/ LoadNext \/ Serve

ScriptSpec == ScriptInit /\ [][ScriptNext]_scriptVars

-----------------------------------------------------------------------------
(***************************************************************************)
(* Properties.                                                             *)
(***************************************************************************)
Rows == [def : Definitions, enabled : BOOLEAN] \cup {NoScript}
Loaded == [id : Ids, def : Definitions]

\* The type of the state; only ids that INSERT has issued have a row.
ScriptTypeOK ==
  /\ scriptRows \in [Ids -> Rows]
  /\ lastId \in 0..MaxScripts
  /\ \A id \in Ids : id > lastId => scriptRows[id] = NoScript
  /\ scripts \in [Ids -> Definitions \cup {NoScript}]
  /\ hookMap \in [Places -> Seq(Loaded)]
  /\ customAPIRoutes \in [Routes -> Loaded \cup {NoScript}]
  /\ server \in {"up", "loading", "down", "refused"}
  /\ toLoad \subseteq Ids
  /\ admin \in [ScriptAdmins ->
       [at : {"idle", "apply", "flip", "remove", "delete row"},
        id : Ids \cup {0}, row : Rows, alone : BOOLEAN]]
  /\ caller \in [Callers ->
       [at : {"idle", "hooks", "failed", "found", "called"},
        slot : Places \cup Routes \cup {NoScript},
        todo : Seq(Loaded), ran : Seq(Loaded)]]
  /\ scriptCalls \in 0..MaxScriptCalls /\ scriptFaults \in 0..MaxScriptFaults
  /\ settled \subseteq Ids /\ asked \in [Ids -> Rows]
  /\ steady \in [Callers -> SUBSET Loaded] /\ seen \in [Callers -> SUBSET Loaded]

\* Hot loading: what a request was answered with success stays in force.  If
\* no other request on the script overlapped it and none came after it, the
\* row is as that request asked, and a running server has compiled that row
\* if it is enabled and nothing if it is not, restarts included.
AnswerHolds ==
  \A id \in settled :
    /\ scriptRows[id] = asked[id]
    /\ server = "up" =>
         scripts[id] = IF asked[id] # NoScript /\ asked[id].enabled
                       THEN asked[id].def ELSE NoScript

RouteLive ==
  \A r \in Routes :
    customAPIRoutes[r] # NoScript =>
      customAPIRoutes[r] \in At(r, Instances(scripts))

HookListExact ==
  \A p \in Places :
    /\ ToSet(hookMap[p]) = At(p, Instances(scripts))
    /\ Len(hookMap[p]) = Cardinality(At(p, Instances(scripts)))
    /\ \A i, j \in DOMAIN hookMap[p] :
         i < j => Priority[hookMap[p][i].def] <= Priority[hookMap[p][j].def]

\* Whatever was saved, replaced, moved or removed, and in which order: the list
\* of a hook point holds each script that is registered there once, in the
\* version that is loaded, none other, and in order of priority; and a route
\* leads to a script that is loaded, in that version, and registered for it.
RegisteredAsLoaded == HookListExact /\ RouteLive

SteadyHooksRun ==
  \A c \in Callers :
    /\ \A i, j \in DOMAIN caller[c].ran :
         caller[c].ran[i].id = caller[c].ran[j].id => i = j
    /\ CallerAt(c, "hooks") =>
         steady[c] \subseteq ToSet(caller[c].ran) \cup ToSet(caller[c].todo)

RanLoaded ==
  \A c \in Callers : ToSet(caller[c].ran) \subseteq seen[c]

\* Scripts that are saved, disabled or deleted while a request runs the hooks
\* of a place do not disturb the others: a hook that was registered all along
\* runs, once, unless an earlier one failed.  And a script that was disabled or
\* replaced before a request arrived is not run by it: every version that the
\* request runs was loaded at some time since.
RunsAsLoaded == SteadyHooksRun /\ RanLoaded

\* What is loaded is what was answered for, the lists of hooks and routes are those of
\* the scripts loaded, and what runs is what they say.
ScriptsHold == AnswerHolds /\ RegisteredAsLoaded /\ RunsAsLoaded
=============================================================================
