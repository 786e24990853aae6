----------------------------- MODULE TestClient -----------------------------
(***************************************************************************)
(* The Go client (client/internal/client) and what its methods return,     *)
(* with the handlers that answer it (controller/metadata, controller/auth) *)
(* as far as they decide what is done, in which order, and what is said of *)
(* it.  What a write does inside is in the other modules.                  *)
(*                                                                         *)
(* A behaviour is about one kind of things.  Several clients call methods  *)
(* at once.  A method sends a request and waits for the answer; RemoveField*)
(* sends two.  A method that gives up (after 30 seconds, or when the       *)
(* connection breaks) never receives the answer, while the server goes on. *)
(***************************************************************************)
EXTENDS Integers, Sequences, FiniteSets

CONSTANTS
  ClientKinds,   \* the kinds of things to look at
  Ids,           \* of the things of that kind
  Absent,        \* there is no such thing
  Unsaid,        \* an answer says nothing of it
  PageLength,    \* 20: records or collections in one answer
  MaxCalls       \* bound: calls of methods

VARIABLES
  kind,          \* the kind of this behaviour
  things,        \* what the server has: Absent, or a value
  calls          \* the calls of methods, in the order in which they began

clientVars == <<kind, things, calls>>

\* A text is named by the call that sent it.  The mark of a script is whether it is
\* enabled, that of another thing the call that created it.
Values == [text : Int, mark : Int]

ASSUME ClientAssumption ==
  /\ ClientKinds \subseteq
       {"records", "files", "links", "collections", "fields", "indexes", "scripts"}
  /\ IsFiniteSet(Ids)
  /\ Absent \notin Values /\ Unsaid \notin Values /\ Absent # Unsaid
  /\ PageLength \in Nat \ {0} /\ MaxCalls \in Nat

\* What is said of a thing: a value, perhaps without text or mark, or Absent.
Left == -1
There == [text |-> Left, mark |-> Left]
Rows == Values \cup {Absent, Unsaid}
Silent == [i \in Ids |-> Unsaid]

Present == {i \in Ids : things[i] # Absent}

\* The methods of Client.
RecordMethods == {"List", "FindOne", "Create", "CreateMany", "UpdateWithOptions",
                  "DeleteOne", "BulkDelete", "Count"}
FileMethods == {"UploadFile", "DownloadFile", "DeleteOne"}
LinkMethods == {"ListAssociation", "AddAssociation", "SetAssociation", "RemoveAssociation"}
CollectionMethods == {"ListCollections", "CreateCollection", "GetCollection",
  "UpdateCollection", "DropCollection", "DropCollectionCascade", "SyncCollection"}
FieldMethods == {"ListFields", "AddField", "UpdateField", "RemoveField"}
IndexMethods == {"ListIndexes", "CreateIndex", "DeleteIndex"}
ScriptMethods == {"ListScripts", "CreateScript", "UpdateScript", "ToggleScript",
                  "DisableScript", "DeleteScript", "ValidateScript"}

AllMethods == RecordMethods \cup FileMethods \cup LinkMethods \cup CollectionMethods
              \cup FieldMethods \cup IndexMethods \cup ScriptMethods

Methods ==
  CASE kind = "records" -> RecordMethods
    [] kind = "files" -> FileMethods
    [] kind = "links" -> LinkMethods
    [] kind = "collections" -> CollectionMethods
    [] kind = "fields" -> FieldMethods
    [] kind = "indexes" -> IndexMethods
    [] kind = "scripts" -> ScriptMethods

\* What a method is called with: the ids that its path, its filter or its body name.
AboutNone ==
  {"UploadFile", "ListAssociation", "ListCollections", "ListFields", "ListIndexes",
   "ListScripts", "CreateScript", "ValidateScript"}
AboutMany == {"CreateMany", "BulkDelete", "Count", "AddAssociation", "RemoveAssociation"}

Subjects(m) ==
  CASE m \in AboutNone -> {{}}
    [] m = "List" -> {Ids}
    [] m = "SetAssociation" -> SUBSET Ids
    [] m \in AboutMany -> SUBSET Ids \ {{}}
    [] m = "Create" -> {{}} \cup {{i} : i \in Ids}
    [] OTHER -> {{i} : i \in Ids}

\* A script is sent with its flag.
Sent(m, n) == {[text |-> n, mark |-> e] :
                 e \in IF m \in {"CreateScript", "UpdateScript"} THEN {0, 1} ELSE {n}}

Open == {"sent", "begun", "changed", "answered"}
CallRecords ==
  [method : AllMethods, ids : SUBSET Ids, value : Values, stage : Open \cup {"returned"},
   found : Values \cup {Absent},   \* what the handler has read before it writes
   rest : SUBSET Ids,              \* what it still has to create or to drop
   rows : [Ids -> Rows],           \* what it says of the things
   number : Nat,                   \* total, count or affected
   status : Nat, code : Nat,       \* of the answer; then the code of the error
   ok : BOOLEAN,                   \* the method has returned no error
   did : BOOLEAN,                  \* history: something was written for this call
   seen : [Ids -> SUBSET (Values \cup {Absent})]]  \* history: during this call

ClientInit ==
  /\ kind \in ClientKinds
  /\ \E there \in SUBSET Ids :
       things = [i \in Ids |-> IF i \in there THEN [text |-> 0, mark |-> 0] ELSE Absent]
  /\ calls = <<>>

-----------------------------------------------------------------------------
(***************************************************************************)
(* The answers.                                                            *)
(***************************************************************************)
writeOK == [status |-> 200, code |-> 0]
writeFail(status, code) == [status |-> status, code |-> code]

\* HandlerResponse: the status that goes with a code; others are sent with 200.
HandlerResponse(code) ==
  [status |-> CASE code \in {400, 401, 403, 404, 409, 422} -> code
                [] code = 1 -> 500
                [] OTHER -> 200,
   code |-> code]

\* writeLogicError and wrapSvcErr say the same of an error.
ByCRUD == kind \in {"records", "files", "links"}
LogicError(status) ==
  IF ByCRUD THEN writeFail(status, status) ELSE HandlerResponse(status)
NotFound == LogicError(404)
AlreadyExists == LogicError(409)
SystemError == IF ByCRUD THEN writeFail(500, 1) ELSE HandlerResponse(1)

\* Before anything is done: what does not parse, what policies and hooks forbid, what
\* is not valid, and what else is named and is not there.  GoFrame checks the input
\* of the others, with a code of its own.
Refusals == {LogicError(403), LogicError(404), LogicError(422)} \cup
  (IF ByCRUD THEN {writeFail(400, 1)} ELSE {HandlerResponse(51)})

Watched(q, t) ==
  IF q.stage \in Open
  THEN [q EXCEPT !.seen = [i \in Ids |-> q.seen[i] \cup {t[i]}]]
  ELSE q

\* A step of call n at the server, after which there is t.
Serve(n, t, q) ==
  /\ things' = t
  /\ calls' = [m \in DOMAIN calls |-> Watched(IF m = n THEN q ELSE calls[m], t)]
  /\ UNCHANGED kind

Answered(q, a) == [q EXCEPT !.stage = "answered", !.status = a.status, !.code = a.code]
Refused(q, a) == [Answered(q, a) EXCEPT !.rows = Silent]
Says(q, i, row) == [q EXCEPT !.rows = [Silent EXCEPT ![i] = row]]
Did(q) == [q EXCEPT !.did = TRUE]

\* What is written is written when the driver reports an error, but an index is only
\* listed when there was none.
Outcomes(q) ==
  IF q.method \in {"CreateIndex", "DeleteIndex"} THEN {writeOK} ELSE {writeOK, SystemError}

Concludes(n, t, q) ==
  \E a \in Outcomes(q) :
    Serve(n, t, IF a = writeOK THEN Answered(q, a) ELSE Refused(q, a))

Asks(n, methods) == calls[n].stage = "sent" /\ calls[n].method \in methods

Goes(n, methods) == calls[n].stage = "begun" /\ calls[n].method \in methods

\* OptionalAuth looks at the token before all else, when there is one: UploadFile and
\* DownloadFile do not use doRequest, and send none.
Unauthorized(n) ==
  /\ calls[n].stage = "sent" /\ calls[n].method \notin {"UploadFile", "DownloadFile"}
  /\ Serve(n, things, Refused(calls[n], writeFail(401, 401)))

Refuse(n) ==
  /\ \/ calls[n].stage = "sent"
     \/ Goes(n, {"CreateMany", "UpdateWithOptions"})
  /\ \E a \in Refusals : Serve(n, things, Refused(calls[n], a))

\* The driver reports an error before the write, or the handler after it.
Fail(n) ==
  /\ \/ calls[n].stage \in {"sent", "begun"}
     \/ calls[n].stage = "changed" /\ calls[n].method # "CreateCollection"
  /\ Serve(n, things, Refused(calls[n], SystemError))

-----------------------------------------------------------------------------
(***************************************************************************)
(* Reading.                                                                *)
(***************************************************************************)
Find(n) ==
  /\ Asks(n, {"FindOne", "DownloadFile"})
  /\ \E i \in calls[n].ids :
       Serve(n, things, IF things[i] = Absent THEN Refused(calls[n], NotFound)
                        ELSE Answered(Says(calls[n], i, things[i]), writeOK))

\* A page; when it is not full there is nothing else.
Pages == IF kind \in {"records", "collections"}
         THEN {s \in SUBSET Present : s = Present \/ Cardinality(s) = PageLength}
         ELSE {Present}
Full(s) == kind \in {"records", "collections"} /\ Cardinality(s) >= PageLength
Listing(s) ==
  [i \in Ids |-> IF i \in s THEN things[i] ELSE IF Full(s) THEN Unsaid ELSE Absent]

\* FindAndCount reads the records, then how many there are.
List(n) ==
  /\ Asks(n, {"List", "ListAssociation", "ListCollections", "ListFields", "ListIndexes",
              "ListScripts"})
  /\ \E s \in Pages :
       LET q == [calls[n] EXCEPT !.rows = Listing(s)] IN
       Serve(n, things, IF calls[n].method = "List" THEN [q EXCEPT !.stage = "begun"]
                        ELSE Answered(q, writeOK))

Count(n) ==
  /\ Asks(n, {"Count"}) \/ Goes(n, {"List"})
  /\ Serve(n, things,
       Answered([calls[n] EXCEPT !.number = Cardinality(Present \cap calls[n].ids)], writeOK))

\* It says nothing of the scripts that there are.
Validate(n) ==
  Asks(n, {"ValidateScript"}) /\ Serve(n, things, Answered(calls[n], writeOK))

-----------------------------------------------------------------------------
(***************************************************************************)
(* Creating.                                                               *)
(***************************************************************************)
\* The id is in the request, or the server draws it.
NewIds(q) == IF q.ids = {} THEN Ids \ Present ELSE q.ids

With(i, v) == [things EXCEPT ![i] = v]

\* A collection or the fields are shown as they are later.
Create(n) ==
  /\ Asks(n, {"Create", "UploadFile", "CreateScript", "CreateIndex"})
  /\ \E i \in NewIds(calls[n]) :
       IF things[i] # Absent THEN Serve(n, things, Refused(calls[n], SystemError))
       ELSE Concludes(n, With(i, calls[n].value), Says(Did(calls[n]), i, calls[n].value))

CreateSchema(n) ==
  /\ Asks(n, {"CreateCollection", "AddField"})
  /\ \E i \in calls[n].ids :
       IF things[i] # Absent THEN Serve(n, things, Refused(calls[n], AlreadyExists))
       ELSE Serve(n, With(i, calls[n].value),
              [calls[n] EXCEPT !.stage = "changed", !.found = calls[n].value, !.did = TRUE])

\* CreateMany: each record in a transaction of its own, until one fails.
CreateNext(n) ==
  /\ Asks(n, {"CreateMany"}) \/ Goes(n, {"CreateMany"})
  /\ \E i \in calls[n].rest :
       LET q == [calls[n] EXCEPT !.rest = calls[n].rest \ {i}, !.stage = "begun",
                   !.rows = [calls[n].rows EXCEPT ![i] = calls[n].value]]
           t == With(i, calls[n].value) IN
       /\ things[i] = Absent
       /\ IF calls[n].rest = {i} THEN Concludes(n, t, Did(q)) ELSE Serve(n, t, Did(q))

-----------------------------------------------------------------------------
(***************************************************************************)
(* Changing and removing.                                                  *)
(***************************************************************************)
\* The handler reads a thing, or takes hold of a collection.  (The dependents of a
\* collection are dropped before it.)
Look(n) ==
  /\ Asks(n, {"UpdateWithOptions", "GetCollection", "UpdateCollection", "SyncCollection",
              "ToggleScript", "DropCollection", "DropCollectionCascade"})
  /\ \E i \in calls[n].ids :
       LET q == [calls[n] EXCEPT !.stage = "begun", !.found = things[i]] IN
       IF things[i] = Absent /\ calls[n].method # "UpdateWithOptions"
       THEN Serve(n, things, Refused(calls[n], NotFound))
       ELSE \E d \in SUBSET (Present \ {i}) :
              /\ calls[n].method # "DropCollectionCascade" => d = {}
              /\ Serve(n, things, [q EXCEPT !.rest = d])

Changed(v, w) == [v EXCEPT !.text = w.text]

\* In the transaction the record that is gone can still be read.
UpdateRecord(n) ==
  /\ Goes(n, {"UpdateWithOptions"})
  /\ \E i \in calls[n].ids :
       LET v == Changed(things[i], calls[n].value) IN
       \/ things[i] # Absent /\ Concludes(n, With(i, v), Says(Did(calls[n]), i, v))
       \/ things[i] = Absent /\ calls[n].found # Absent
          /\ Concludes(n, things, Says(calls[n], i, calls[n].found))
       \/ things[i] = Absent /\ calls[n].found = Absent
          /\ Serve(n, things, Refused(calls[n], NotFound))

UpdateField(n) ==
  /\ Asks(n, {"UpdateField"})
  /\ \E i \in calls[n].ids :
       IF things[i] = Absent THEN Serve(n, things, Refused(calls[n], NotFound))
       ELSE Serve(n, With(i, Changed(things[i], calls[n].value)),
              [calls[n] EXCEPT !.stage = "changed", !.did = TRUE])

\* It is still the collection that was looked up.
Same(q, i) == things[i] # Absent /\ things[i].mark = q.found.mark

UpdateCollection(n) ==
  /\ Goes(n, {"UpdateCollection"})
  /\ \E i \in calls[n].ids :
       LET q == calls[n]
           v == Changed(q.found, q.value) IN
       IF Same(q, i) THEN Serve(n, With(i, v), [q EXCEPT !.stage = "changed", !.found = v, !.did = TRUE])
       ELSE Serve(n, things, [q EXCEPT !.stage = "changed", !.found = v])

\* collToItem
ShowCollection(n) ==
  /\ \/ calls[n].stage = "changed" /\ calls[n].method \in {"CreateCollection", "UpdateCollection"}
     \/ Goes(n, {"GetCollection", "SyncCollection"})
  /\ \E i \in calls[n].ids :
       Serve(n, things,
         Answered(Says(calls[n], i, IF Same(calls[n], i) THEN things[i] ELSE calls[n].found), writeOK))

\* fieldsToItems
ShowFields(n) ==
  /\ calls[n].stage = "changed" /\ calls[n].method \in {"AddField", "UpdateField"}
  /\ Serve(n, things, Answered([calls[n] EXCEPT !.rows = Listing(Present)], writeOK))

\* An UPDATE of a script that is not there is none.
Overwritten(i, v) == IF things[i] = Absent THEN things ELSE With(i, v)
Overwriting(n, i) == IF things[i] = Absent THEN calls[n] ELSE Did(calls[n])

Marked(v, e) == [v EXCEPT !.mark = e]

SaveScript(n) ==
  /\ Asks(n, {"UpdateScript", "DisableScript"})
  /\ \E i \in calls[n].ids :
       IF calls[n].method = "UpdateScript"
       THEN Concludes(n, Overwritten(i, calls[n].value), Says(Overwriting(n, i), i, calls[n].value))
       ELSE Concludes(n, Overwritten(i, Marked(things[i], 0)), Overwriting(n, i))

\* It writes the flag only.
Flipped(v) == Marked(v, 1 - v.mark)
ToggleScript(n) ==
  /\ Goes(n, {"ToggleScript"})
  /\ \E i \in calls[n].ids :
       LET v == Flipped(calls[n].found) IN
       Concludes(n, Overwritten(i, Marked(things[i], v.mark)), Says(Overwriting(n, i), i, v))

Without(s) == [i \in Ids |-> IF i \in s THEN Absent ELSE things[i]]

Delete(n) ==
  /\ Asks(n, {"DeleteOne", "BulkDelete", "DeleteScript", "RemoveAssociation"})
  /\ Concludes(n, Without(calls[n].ids),
       [Did(calls[n]) EXCEPT !.number = Cardinality(Present \cap calls[n].ids)])

DeleteSchema(n) ==
  /\ Asks(n, {"RemoveField", "DeleteIndex"})
  /\ IF calls[n].ids \subseteq Present THEN Concludes(n, Without(calls[n].ids), Did(calls[n]))
     ELSE Serve(n, things, Refused(calls[n], NotFound))

DropNext(n) ==
  /\ Goes(n, {"DropCollection", "DropCollectionCascade"})
  /\ IF calls[n].rest = {}
     THEN Serve(n, Without(calls[n].ids), Answered(Did(calls[n]), writeOK))
     ELSE \E i \in calls[n].rest :
            Serve(n, Without({i}), [Did(calls[n]) EXCEPT !.rest = calls[n].rest \ {i}])

Link(n) ==
  /\ Asks(n, {"AddAssociation", "SetAssociation"})
  /\ Concludes(n,
       [i \in Ids |-> CASE i \in calls[n].ids /\ things[i] = Absent -> calls[n].value
                        [] i \notin calls[n].ids /\ calls[n].method = "SetAssociation" -> Absent
                        [] OTHER -> things[i]],
       Did(calls[n]))

-----------------------------------------------------------------------------
(***************************************************************************)
(* The client.                                                             *)
(***************************************************************************)
Invoke ==
  /\ Len(calls) < MaxCalls
  /\ \E m \in Methods :
       \E s \in Subjects(m), v \in Sent(m, Len(calls) + 1) :
         calls' = Append(calls,
           [method |-> m, ids |-> s, value |-> v, stage |-> "sent", found |-> Absent,
            rest |-> IF m = "CreateMany" THEN s ELSE {}, rows |-> Silent, number |-> 0,
            status |-> 0, code |-> 0, ok |-> FALSE, did |-> FALSE,
            seen |-> [i \in Ids |-> {things[i]}]])
  /\ UNCHANGED <<kind, things>>

\* (slip) Only the status is looked at.
FailedByStatus(q) == q.status >= 400

\* doRequest, and the copy of it in UploadFile; DownloadFile has no code to look at.
Failed(q) ==
  \/ q.status >= 400
  \/ q.method # "DownloadFile" /\ q.code \notin {0, 200, 201}

\* The code of the body first, in doRequest.
ErrorCode(q) ==
  IF q.code = 0 \/ (q.method \in {"UploadFile", "DownloadFile"} /\ q.status >= 400)
  THEN q.status ELSE q.code

\* What the caller takes for done when there is no error, and no data or only a number.
Removing == {"DeleteOne", "BulkDelete", "DropCollection", "DropCollectionCascade", "DeleteIndex",
             "DeleteScript", "RemoveAssociation"}
Confirming == Removing \cup {"DisableScript", "AddAssociation", "SetAssociation"}
Confirmed(q) ==
  [i \in Ids |->
     IF i \notin q.ids THEN IF q.method = "SetAssociation" THEN Absent ELSE Unsaid
     ELSE CASE q.method \in Removing -> Absent
            [] q.method = "DisableScript" -> Marked(There, 0)
            [] OTHER -> There]

Understood(q) == IF q.method \in Confirming THEN Confirmed(q) ELSE q.rows

Returned(q) ==
  IF Failed(q) THEN [q EXCEPT !.stage = "returned", !.rows = Silent, !.code = ErrorCode(q)]
  ELSE [q EXCEPT !.stage = "returned", !.rows = Understood(q), !.ok = TRUE]

\* RemoveField goes on as ListFields.
Receive(n) ==
  /\ calls[n].stage = "answered"
  /\ calls' = [calls EXCEPT ![n] =
       IF calls[n].method = "RemoveField" /\ ~Failed(calls[n])
       THEN [calls[n] EXCEPT !.method = "ListFields", !.stage = "sent"]
       ELSE Returned(calls[n])]
  /\ UNCHANGED <<kind, things>>

ClientNext ==
  \/ Invoke
  \/ \E n \in DOMAIN calls :
       \/ Receive(n)
       \/ Unauthorized(n) \/ Refuse(n) \/ Fail(n)
       \/ Find(n) \/ List(n) \/ Count(n) \/ Validate(n)
       \/ Create(n) \/ CreateSchema(n) \/ CreateNext(n)
       \/ Look(n) \/ UpdateRecord(n) \/ UpdateField(n) \/ UpdateCollection(n)
       \/ ShowCollection(n) \/ ShowFields(n) \/ SaveScript(n) \/ ToggleScript(n)
       \/ Delete(n) \/ DeleteSchema(n) \/ DropNext(n) \/ Link(n)

ClientSpec == ClientInit /\ [][ClientNext]_clientVars

-----------------------------------------------------------------------------
(***************************************************************************)
(* What a method returns.                                                  *)
(***************************************************************************)
\* It was so, each column at some moment.
Tells(vs, row) ==
  \/ row = Unsaid
  \/ row = Absent /\ Absent \in vs
  \/ /\ row \notin {Unsaid, Absent}
     /\ \E v \in vs \ {Absent} : row.text \in {Left, v.text}
     /\ \E v \in vs \ {Absent} : row.mark \in {Left, v.mark}

\* They do not notice that there is nothing to update.
Overlooking == {"UpdateCollection", "UpdateScript", "ToggleScript", "DisableScript"}

RowsTrue(q, rows) ==
  \A i \in Ids : \/ Tells(q.seen[i], rows[i])
                 \/ q.method \in Overlooking /\ Absent \in q.seen[i]

\* No fewer than were there all the time, no more than were there some time.
NumberTrue(q) ==
  /\ Cardinality({i \in q.ids : Absent \notin q.seen[i]}) <= q.number
  /\ q.number <= Cardinality({i \in q.ids : ~ q.seen[i] \subseteq {Absent}})

Numbering == {"List", "Count", "DeleteOne", "BulkDelete"}
Updating == {"UpdateWithOptions", "UpdateField", "UpdateCollection", "UpdateScript"}
UpdateTrue(q) == q.did \/ \E i \in q.ids : Absent \in q.seen[i]

\* Errors that say that nothing was done.  1 does not: doRequest prefers it to the
\* status, 400 or 500.
Clear == {400, 401, 403, 404, 409, 422, 51}

\* What a method of the client returns can be relied on.  Without an error, what it
\* says of a thing was so at some moment between its call and its return, whatever
\* other clients did meanwhile (or a script or a collection was not there, which four
\* methods overlook); a number is one of records that were there; and an update was
\* made.  With the code of a refusal, nothing has been done for it, but by CreateMany,
\* which keeps the records before the one refused, and by RemoveField, which fails as
\* ListFields when the field is gone.
ReturnsHold ==
  \A n \in DOMAIN calls :
    LET q == calls[n] IN
    q.stage = "returned" =>
      IF q.ok
      THEN /\ RowsTrue(q, q.rows)
           /\ q.method \in Numbering => NumberTrue(q)
           /\ q.method \in Updating => UpdateTrue(q)
      ELSE q.code \in Clear /\ q.did => q.method \in {"CreateMany", "ListFields"}
=============================================================================
