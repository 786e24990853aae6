------------------------------- MODULE Access -------------------------------
(***************************************************************************)
(* Access control: the rows of "acl_policies", the snapshot of them that   *)
(* decides (service/acl/enforcer.go), the requests that change policies    *)
(* (controller/security/security.go), and the requests on the records of   *)
(* one collection, which the resource manager's middleware and then every  *)
(* repository call authorize (service/security/integration.go,             *)
(* service/metadata/repository_generic.go).                                *)
(*                                                                         *)
(* One subject and one resource: whether a policy matches them is part of  *)
(* its "actions".  Of a record only the key and the column that filters    *)
(* look at have a value; of the other columns it is known whether they are *)
(* read or written.  A filter is the columns it names and the rows that it *)
(* keeps.  Scripts change values and records; a script that changes the    *)
(* filter it is handed is left out.                                        *)
(***************************************************************************)
EXTENDS Integers, FiniteSets

CONSTANTS
  Columns, Key, Owner,  \* Owner: the column that filters look at, Key apart
  Stamps, UpdatedAt,    \* columns that the repository fills in itself
  Contents,             \* values of Owner
  RowIds,               \* 1..n
  FirstRows,            \* the records there are at first
  Policies,             \* what a row of acl_policies may hold
  FirstPolicies,        \* what the table may hold at first
  PolicyIds,
  Asked,                \* the requests that callers make
  Additions,            \* what the columns that hooks add may be
  AllowTruncate,        \* DatabaseOptions.AllowTruncate
  Clients,              \* concurrent requests on records
  PolicyAdmins,         \* concurrent requests on policies
  NoPolicy, NoOne,
  MaxAccessCalls,       \* bound: requests on records
  MaxPolicyCalls,       \* bound: requests on policies
  MaxAccessFaults,      \* bound: statements that fail, and restarts
  MaxAccessEvents       \* bound: all three together

Rows == [id : RowIds, content : Contents]
FilterType == [names : SUBSET Columns, keep : SUBSET Rows]
NoFilter == [names |-> {}, keep |-> Rows]
Actions == {"list", "count", "get", "create", "update", "updateMany",
            "destroy", "destroyMany"}

OnKey(i) == [names |-> {Key}, keep |-> {r \in Rows : r.id = i}]

\* A request: its row's id or 0, its filter, the columns that it selects ({} is
\* everything) or sets, and the value that it sets Owner to.
Request(a, i, f, s, n, o) ==
  [action |-> a, id |-> i, filter |-> f, fields |-> s, names |-> n, owner |-> o]

\* The controllers turn down a bulk request without a filter, but for a
\* destroyMany where truncation is allowed.  Owner is a required column.
IsRequest(q) ==
  /\ q = Request(q.action, q.id, q.filter, q.fields, q.names, q.owner)
  /\ q.action \in Actions /\ q.filter \in FilterType
  /\ q.fields \cup q.names \subseteq Columns
  /\ IF q.action \in {"get", "update", "destroy"}
     THEN q.id \in RowIds /\ q.filter = OnKey(q.id)
     ELSE q.id = 0
  /\ q.action = "updateMany" => q.filter.names # {}
  /\ q.action = "destroyMany" => q.filter.names # {} \/ AllowTruncate
  /\ IF q.action \in {"update", "updateMany"} THEN UpdatedAt \in q.names
     ELSE IF q.action = "create" THEN Owner \in q.names ELSE q.names = {}
  /\ IF Owner \in q.names THEN q.owner \in Contents ELSE q.owner = NoOne

ASSUME AccessAssumption ==
  /\ {Key, Owner} \cup Stamps \subseteq Columns /\ UpdatedAt \in Stamps
  /\ RowIds \subseteq Nat \ {0} /\ RowIds # {} /\ FirstRows \subseteq Rows
  /\ {r.id : r \in FirstRows} = 1..Cardinality(FirstRows) /\ Cardinality(FirstRows) \in Nat
  /\ \A r, s \in FirstRows : r.id = s.id => r = s
  /\ Policies \subseteq [enabled : BOOLEAN, actions : SUBSET Actions,
                         filter : FilterType, read : SUBSET Columns,
                         write : SUBSET Columns]
  /\ FirstPolicies \subseteq [PolicyIds -> Policies \cup {NoPolicy}]
  /\ \A q \in Asked : IsRequest(q)
  /\ \A f \in {q.filter : q \in Asked} \cup {p.filter : p \in Policies} : f.names = {} => f = NoFilter
  /\ NoPolicy \notin Policies /\ NoOne \notin Clients
  /\ Additions \subseteq SUBSET Columns
  /\ AllowTruncate \in BOOLEAN
  /\ MaxAccessCalls \in Nat /\ MaxPolicyCalls \in Nat /\ MaxAccessFaults \in Nat
  /\ MaxAccessEvents \in Nat

VARIABLES
  hookAdds,     \* the columns that the collection's scripts add to records
  policyRows,   \* acl_policies
  snapshot,     \* Enforcer.snapshot
  publisher,    \* what each request on policies is doing
  table,        \* the records of the collection
  lastRow,      \* NextID
  locked,       \* the ids that each request's transaction has locked,
  changed,      \* those whose rows it wrote,
  draft,        \* and the rows that it left under them
  stage, ask,   \* where each request on records is, and what it asks for
  grant,        \* the decision that its next statement is built from
  readView,     \* what a transaction has read and will go on reading
  accessCalls, policyCalls, accessFaults,
  published,    \* history: no change of policies is pending, failed or raced
  inForce,      \* history: the snapshots there were while the request ran
  touched,      \* history: the rows it was answered, changed, or destroyed
  shown, written\* history: the columns it was answered, and those it wrote

policyState == <<policyRows, snapshot, publisher, published>>
transactions == <<locked, changed, draft>>
records == <<table, lastRow, transactions>>
request == <<stage, ask, grant, readView>>
witness == <<touched, shown, written>>
accessBounds == <<accessCalls, policyCalls, accessFaults>>
accessVars == <<hookAdds, policyState, records, request, accessBounds, inForce, witness>>

Unasked == [action |-> "list", id |-> 0, filter |-> NoFilter, fields |-> {},
            names |-> {}, owner |-> NoOne]
NoGrant == [filter |-> NoFilter, fields |-> {}, strict |-> FALSE]
\* What a request on policies is doing, what it has read, and whether no other
\* one overlapped it.
Publication(at, loaded, alone) == [at |-> at, loaded |-> loaded, alone |-> alone]
Nothing == [i \in PolicyIds |-> NoPolicy]
Unpublished == Publication("idle", Nothing, FALSE)

AccessInit ==
  /\ hookAdds \in Additions
  /\ policyRows \in FirstPolicies
  /\ snapshot = policyRows
  /\ publisher = [a \in PolicyAdmins |-> Unpublished] /\ published = TRUE
  /\ table = FirstRows /\ lastRow = Cardinality(FirstRows)
  /\ stage = [c \in Clients |-> "idle"] /\ ask = [c \in Clients |-> Unasked]
  /\ grant = [c \in Clients |-> NoGrant] /\ readView = [c \in Clients |-> NoOne]
  /\ locked = [c \in Clients |-> {}] /\ changed = [c \in Clients |-> {}]
  /\ draft = [c \in Clients |-> {}]
  /\ inForce = [c \in Clients |-> {}] /\ touched = [c \in Clients |-> {}]
  /\ shown = [c \in Clients |-> {}] /\ written = [c \in Clients |-> {}]
  /\ accessCalls = 0 /\ policyCalls = 0 /\ accessFaults = 0

-----------------------------------------------------------------------------
(***************************************************************************)
(* Enforcer.Evaluate, and what the authorizer makes of it.                 *)
(***************************************************************************)
PoliciesIn(s) == {s[i] : i \in PolicyIds} \ {NoPolicy}

Matching(action) ==
  {p \in PoliciesIn(snapshot) : p.enabled /\ action \in p.actions}

And(f, g) == [names |-> f.names \cup g.names, keep |-> f.keep \cap g.keep]

\* Row filters are alternatives, and none where one policy has none.
RowsOf(action) ==
  LET m == Matching(action) IN
  IF \E p \in m : p.filter = NoFilter THEN NoFilter
  ELSE [names |-> UNION {p.filter.names : p \in m},
        keep |-> UNION {p.filter.keep : p \in m}]

\* (slip) The policies' rows are left out of what a statement is built from.
CallersRows(action, f) == f

Effective(action, f) == And(RowsOf(action), f)

\* Columns stands for no restriction.
Readable(action) == UNION {p.read : p \in Matching(action)}
Writable(action) == UNION {p.write : p \in Matching(action)}

\* validateReadAccess: of the filter only the caller's part is looked at.
MayRead(action, fields, f) ==
  LET r == Readable(action) IN r # {} /\ fields \cup f.names \subseteq r

\* AuthorizeRepository
Permits(action, fields, f, names) ==
  /\ Matching(action) # {}
  /\ MayRead(action, fields, f)
  /\ names \subseteq Writable(action)

\* What SELECT asks for: everything readable, or what the caller selected and,
\* where reading is not restricted, the columns that internal callers rely on.
Selected(action, fields) ==
  LET r == Readable(action) IN
  IF fields = {} THEN r
  ELSE IF r = Columns THEN fields \cup {Key} \cup Stamps ELSE fields

Granted(action, fields, f) ==
  [filter |-> Effective(action, f), fields |-> Selected(action, fields),
   strict |-> Readable(action) # Columns]

\* (slip) Records are handed out as the hooks left them.
NotPruned(c, fields) == fields

\* pruneRecordFields, after the afterFind hooks
Pruned(c, fields) ==
  IF grant[c].strict THEN fields \cap grant[c].fields ELSE fields

-----------------------------------------------------------------------------
(***************************************************************************)
(* Requests on policies: a statement, LoadPolicies, ReplacePolicies.       *)
(***************************************************************************)
Publishing(a, label) == publisher[a].at = label

Bounded(events, max) ==
  events < max /\ accessCalls + policyCalls + accessFaults < MaxAccessEvents

\* No lock is held from the statement to the publication.
Record(a) ==
  /\ Publishing(a, "idle") /\ Bounded(policyCalls, MaxPolicyCalls)
  /\ policyCalls' = policyCalls + 1
  /\ published' = FALSE
  /\ LET others == {b \in PolicyAdmins \ {a} : ~Publishing(b, "idle")} IN
     publisher' = [b \in PolicyAdmins |->
       IF b = a THEN Publication("load", Nothing, others = {})
       ELSE Publication(publisher[b].at, publisher[b].loaded, FALSE)]
  /\ UNCHANGED <<snapshot, records, request, accessCalls, accessFaults, inForce, witness>>

\* PolicyCreate enables the policy, whatever the request says.
PolicyCreate(a) ==
  /\ \E i \in PolicyIds, p \in Policies :
       /\ policyRows[i] = NoPolicy
       /\ policyRows' = [policyRows EXCEPT ![i] = [p EXCEPT !.enabled = TRUE]]
  /\ Record(a)

\* An UPDATE that finds no row is no error.
PolicyUpdate(a) ==
  /\ \E i \in PolicyIds, p \in Policies :
       policyRows' = IF policyRows[i] = NoPolicy THEN policyRows
                     ELSE [policyRows EXCEPT ![i] = p]
  /\ Record(a)

PolicyDelete(a) ==
  /\ \E i \in PolicyIds : policyRows' = [policyRows EXCEPT ![i] = NoPolicy]
  /\ Record(a)

\* reloadPolicies: LoadPolicies ...
LoadPolicies(a) ==
  /\ Publishing(a, "load")
  /\ publisher' = [publisher EXCEPT ![a] =
                     Publication("publish", policyRows, publisher[a].alone)]
  /\ UNCHANGED <<policyRows, snapshot, published, records, request, accessBounds,
                 inForce, witness>>

\* ... which may fail, and the row has been written ...
LoadFails(a) ==
  /\ Publishing(a, "load") /\ Bounded(accessFaults, MaxAccessFaults)
  /\ accessFaults' = accessFaults + 1
  /\ publisher' = [publisher EXCEPT ![a] = Unpublished]
  /\ UNCHANGED <<policyRows, snapshot, published, records, request, accessCalls,
                 policyCalls, inForce, witness>>

\* (slip) The snapshot stays.
ReplaceNothing(loaded) == snapshot

ReplacePolicies(loaded) == loaded

\* ... and what was read is published, whatever was written meanwhile.
Publish(a) ==
  /\ Publishing(a, "publish")
  /\ snapshot' = ReplacePolicies(publisher[a].loaded)
  /\ published' = (published \/ publisher[a].alone)
  /\ publisher' = [publisher EXCEPT ![a] = Unpublished]
  /\ inForce' = [c \in Clients |->
       IF stage[c] = "idle" THEN inForce[c]
       ELSE inForce[c] \cup {PoliciesIn(snapshot')}]
  /\ UNCHANGED <<policyRows, records, request, accessBounds, witness>>

-----------------------------------------------------------------------------
(***************************************************************************)
(* Requests on records: arrival, and the first authorization.              *)
(***************************************************************************)
At(c, label) == stage[c] = label
\* Bound: as many creates are under way as there are ids left.
Room ==
  \E i \in RowIds :
    i > lastRow + Cardinality({b \in Clients : ask[b].action = "create" /\ ~At(b, "idle")})

\* Dispatch; ResourceMiddleware looks at the action only.
Arrive(c) ==
  /\ At(c, "idle") /\ Bounded(accessCalls, MaxAccessCalls)
  /\ accessCalls' = accessCalls + 1
  /\ \E q \in Asked :
       /\ Matching(q.action) # {}
       /\ q.action = "create" => Room
       /\ ask' = [ask EXCEPT ![c] = q]
  /\ stage' = [stage EXCEPT ![c] = "authorize"]
  /\ inForce' = [inForce EXCEPT ![c] = {PoliciesIn(snapshot)}]
  /\ UNCHANGED <<policyState, records, witness, grant, readView, policyCalls, accessFaults>>

\* The requests are over; what a transaction has not committed is rolled back.
EndAll(cs) ==
  LET Reset(f, v) == [c \in Clients |-> IF c \in cs THEN v ELSE f[c]] IN
  /\ stage' = Reset(stage, "idle") /\ ask' = Reset(ask, Unasked)
  /\ grant' = Reset(grant, NoGrant) /\ readView' = Reset(readView, NoOne)
  /\ locked' = Reset(locked, {}) /\ changed' = Reset(changed, {}) /\ draft' = Reset(draft, {})
  /\ inForce' = Reset(inForce, {}) /\ touched' = Reset(touched, {})
  /\ shown' = Reset(shown, {}) /\ written' = Reset(written, {})

End(c) == EndAll({c})

Goto(c, label) == stage' = [stage EXCEPT ![c] = label]

\* One call of authorizeRepository, at stage from; the decision is kept when
\* the statement that follows is built from it.
Authorization(c, from, fields, f, names, keep, to) ==
  /\ At(c, from)
  /\ \/ /\ Permits(ask[c].action, fields, f, names)
        /\ Goto(c, to)
        /\ grant' = IF keep THEN [grant EXCEPT ![c] = Granted(ask[c].action, fields, f)]
                    ELSE grant
        /\ UNCHANGED <<ask, readView, transactions, inForce, witness>>
     \/ /\ ~Permits(ask[c].action, fields, f, names)
        /\ End(c)
  /\ UNCHANGED <<policyState, table, lastRow, accessBounds>>

AfterAuthorize(action) ==
  CASE action \in {"list", "count", "get"} -> "select"
    [] action \in {"create", "updateMany"} -> "hook"
    [] action = "update" -> "old"
    [] OTHER -> "collect"

Authorize(c) ==
  LET q == ask[c] IN
  Authorization(c, "authorize", q.fields, q.filter, q.names, TRUE, AfterAuthorize(q.action))

-----------------------------------------------------------------------------
(***************************************************************************)
(* list, count and get.                                                    *)
(***************************************************************************)
Found(c, rows) ==
  /\ touched' = [touched EXCEPT ![c] = @ \cup rows]
  /\ shown' = [shown EXCEPT ![c] = @ \cup Pruned(c, grant[c].fields \cup hookAdds)]

\* A page of the matching rows; the list then counts them with the filter that
\* Find was granted, which count authorizes as if it were the caller's.
Select(c) ==
  LET rows == table \cap grant[c].filter.keep IN
  /\ At(c, "select")
  /\ \/ /\ ask[c].action = "list"
        /\ \E page \in SUBSET rows : Found(c, page)
        /\ Goto(c, "count")
        /\ UNCHANGED <<ask, grant, readView, transactions, inForce, written>>
     \/ /\ ask[c].action = "get" /\ rows # {}
        /\ Found(c, rows)
        /\ Goto(c, "answer")
        /\ UNCHANGED <<ask, grant, readView, transactions, inForce, written>>
     \/ /\ ask[c].action = "count" \/ (ask[c].action = "get" /\ rows = {})
        /\ End(c)
  /\ UNCHANGED <<policyState, table, lastRow, accessBounds>>

\* The granted filter is authorized as if it were the caller's: where the
\* columns that the policies filter by cannot be read the list is refused.
Count(c) ==
  Authorization(c, "count", {}, grant[c].filter, {}, FALSE, "answer")

Answer(c) ==
  /\ At(c, "answer")
  /\ End(c)
  /\ UNCHANGED <<policyState, table, lastRow, accessBounds>>

-----------------------------------------------------------------------------
(***************************************************************************)
(* create, update, updateMany: hooks, the second authorization, the        *)
(* statement, and for a single record the record read again.               *)
(***************************************************************************)
\* FindOne for the validator: its failure is ignored, but what the transaction
\* has read once it reads again (REPEATABLE READ).
Old(c) ==
  /\ At(c, "old")
  /\ readView' = IF Permits(ask[c].action, {}, OnKey(ask[c].id), {})
                 THEN [readView EXCEPT ![c] = table] ELSE readView
  /\ Goto(c, "hook")
  /\ UNCHANGED <<policyState, records, ask, grant, accessBounds, inForce, witness>>

\* applySystemFieldsForCreate, and the hooks before validation and the write
Hook(c) ==
  LET q == ask[c]
      names == q.names \cup hookAdds \cup
               (IF q.action = "create" THEN {Key} \cup Stamps ELSE {}) IN
  /\ At(c, "hook")
  /\ \E o \in IF Owner \in hookAdds THEN Contents ELSE {q.owner} :
       ask' = [ask EXCEPT ![c] = Request(q.action, q.id, q.filter, q.fields, names, o)]
  /\ Goto(c, "authorizeValues")
  /\ UNCHANGED <<policyState, records, grant, readView, accessBounds, inForce, witness>>

\* (slip) The values that the hooks left are not authorized again.
HookedValues(c) ==
  /\ At(c, "authorizeValues")
  /\ Goto(c, "write")
  /\ UNCHANGED <<policyState, records, ask, grant, readView, accessBounds, inForce, witness>>

AuthorizeValues(c) ==
  Authorization(c, "authorizeValues", {}, NoFilter, ask[c].names, FALSE, "write")

\* (slip) A statement does not wait.
WritesAtOnce(c, from, ids, changedIds, rows) ==
  /\ At(c, from)
  /\ locked' = [locked EXCEPT ![c] = ids]
  /\ changed' = [changed EXCEPT ![c] = changedIds]
  /\ draft' = [draft EXCEPT ![c] = rows]

\* A statement on a key locks that row, one on another column every row (no
\* column that filters look at has an index); it waits for those who hold one.
Writes(c, from, ids, changedIds, rows) ==
  /\ At(c, from)
  /\ \A b \in Clients \ {c} : ids \cap locked[b] = {}
  /\ locked' = [locked EXCEPT ![c] = ids]
  /\ changed' = [changed EXCEPT ![c] = changedIds]
  /\ draft' = [draft EXCEPT ![c] = rows]

Statement(c) == IF ask[c].action \in {"update", "destroy"} THEN {ask[c].id} ELSE RowIds
IdsOf(rows) == {r.id : r \in rows}

\* Bound: there is an id left, as Room sees to.
Insert(c) ==
  /\ ask[c].action = "create" /\ lastRow + 1 \in RowIds
  /\ lastRow' = lastRow + 1
  /\ LET row == [id |-> lastRow + 1, content |-> ask[c].owner] IN
     Writes(c, "write", {row.id}, {row.id}, {row})
  /\ LET q == ask[c] IN
     ask' = [ask EXCEPT ![c] =
               Request(q.action, lastRow + 1, q.filter, q.fields, q.names, q.owner)]
  /\ written' = [written EXCEPT ![c] = ask[c].names]
  /\ Goto(c, "reread")
  /\ UNCHANGED <<policyState, table, grant, readView, accessBounds, inForce, touched, shown>>

UpdateRows(c) ==
  LET rows == table \cap grant[c].filter.keep
      after == IF Owner \in ask[c].names
               THEN {[id |-> r.id, content |-> ask[c].owner] : r \in rows} ELSE rows IN
  /\ ask[c].action \in {"update", "updateMany"}
  /\ Writes(c, "write", Statement(c), IdsOf(rows), after)
  /\ touched' = [touched EXCEPT ![c] = @ \cup rows]
  /\ written' = [written EXCEPT ![c] = ask[c].names]
  /\ Goto(c, IF ask[c].action = "update" THEN "reread" ELSE "commit")
  /\ UNCHANGED <<policyState, table, lastRow, ask, grant, readView, accessBounds,
                 inForce, shown>>

\* FindOne, under the action of the request
Reread(c) ==
  Authorization(c, "reread", {}, OnKey(ask[c].id), {}, TRUE, "reselect")

\* What a transaction reads: its own rows, and the others as it first read them.
SeenBy(c) ==
  LET others == IF readView[c] = NoOne THEN table ELSE readView[c] IN
  draft[c] \cup {r \in others : r.id \notin changed[c]}

\* (slip) The record that is not found is answered as if it had been.
ReselectAnything(c) ==
  /\ At(c, "reselect")
  /\ Found(c, SeenBy(c) \cap grant[c].filter.keep)
  /\ Goto(c, "commit")
  /\ UNCHANGED <<policyState, records, ask, grant, readView, accessBounds, inForce,
                 written>>

Reselect(c) ==
  LET rows == SeenBy(c) \cap grant[c].filter.keep IN
  /\ At(c, "reselect")
  /\ \/ /\ rows # {}
        /\ Found(c, rows)
        /\ Goto(c, "commit")
        /\ UNCHANGED <<ask, grant, readView, transactions, inForce, written>>
     \/ /\ rows = {}
        /\ End(c)
  /\ UNCHANGED <<policyState, table, lastRow, accessBounds>>

-----------------------------------------------------------------------------
(***************************************************************************)
(* destroy, destroyMany.                                                   *)
(***************************************************************************)
\* A truncation that no policy narrows goes straight to the statement.  For
\* the others applyRelationOnDelete first reads the keys of the rows, under
\* the granted filter as if it were the caller's.
Collect(c) ==
  \/ /\ grant[c].filter # NoFilter
     /\ Authorization(c, "collect", {Key}, grant[c].filter, {}, FALSE, "delete")
  \/ /\ grant[c].filter = NoFilter
     /\ At(c, "collect") /\ Goto(c, "delete")
     /\ UNCHANGED <<policyState, records, ask, grant, readView, accessBounds, inForce,
                    witness>>

DeleteRows(c) ==
  LET rows == table \cap grant[c].filter.keep IN
  /\ Writes(c, "delete", Statement(c), IdsOf(rows), {})
  /\ touched' = [touched EXCEPT ![c] = rows]
  /\ Goto(c, "commit")
  /\ UNCHANGED <<policyState, table, lastRow, ask, grant, readView, accessBounds,
                 inForce, shown, written>>

-----------------------------------------------------------------------------
Commit(c) ==
  /\ At(c, "commit")
  /\ table' = {r \in table : r.id \notin changed[c]} \cup draft[c]
  /\ End(c)
  /\ UNCHANGED <<policyState, lastRow, accessBounds>>

\* A statement fails, and so does the request.
RequestFails(c) ==
  /\ ~At(c, "idle") /\ Bounded(accessFaults, MaxAccessFaults)
  /\ accessFaults' = accessFaults + 1
  /\ End(c)
  /\ UNCHANGED <<policyState, table, lastRow, accessCalls, policyCalls>>

\* A crash, and the next start: Bootstrap loads the policies.
Restart ==
  /\ Bounded(accessFaults, MaxAccessFaults)
  /\ accessFaults' = accessFaults + 1
  /\ snapshot' = policyRows /\ published' = TRUE
  /\ publisher' = [a \in PolicyAdmins |-> Unpublished]
  /\ EndAll(Clients)
  /\ UNCHANGED <<policyRows, table, lastRow, accessCalls, policyCalls>>

Serve(c) ==
  \/ Arrive(c) \/ Authorize(c) \/ Select(c) \/ Count(c) \/ Answer(c)
  \/ Old(c) \/ Hook(c) \/ AuthorizeValues(c) \/ Insert(c) \/ UpdateRows(c)
  \/ Reread(c) \/ Reselect(c) \/ Collect(c) \/ DeleteRows(c)
  \/ Commit(c) \/ RequestFails(c)

Administer(a) ==
  \/ PolicyCreate(a) \/ PolicyUpdate(a) \/ PolicyDelete(a)
  \/ LoadPolicies(a) \/ LoadFails(a) \/ Publish(a)

AccessNext ==
  /\ (\E c \in Clients : Serve(c)) \/ (\E a \in PolicyAdmins : Administer(a)) \/ Restart
  /\ UNCHANGED hookAdds

AccessSpec == AccessInit /\ [][AccessNext]_accessVars

-----------------------------------------------------------------------------
(***************************************************************************)
(* Properties.                                                             *)
(***************************************************************************)
Stages == {"idle", "authorize", "select", "count", "answer", "old", "hook", "authorizeValues",
           "write", "reread", "reselect", "collect", "delete", "commit"}

\* PolicyCreate enables what it inserts.
Rules == Policies \cup {[p EXCEPT !.enabled = TRUE] : p \in Policies} \cup {NoPolicy}

\* The type of the state; a transaction holds its locks from its statement to
\* its end and no longer, no two hold one on the same row, and it has written
\* nothing it has not locked.
AccessTypeOK ==
  /\ policyRows \in [PolicyIds -> Rules]
  /\ snapshot \in [PolicyIds -> Rules]
  /\ publisher \in [PolicyAdmins ->
       [at : {"idle", "load", "publish"}, alone : BOOLEAN,
        loaded : [PolicyIds -> Rules]]]
  /\ table \subseteq Rows /\ lastRow \in Nat
  /\ \A r, s \in table : r.id = s.id => r = s
  /\ stage \in [Clients -> Stages]
  /\ \A c \in Clients :
       /\ (locked[c] # {}) <=> stage[c] \in {"reread", "reselect", "commit"}
       /\ \A b \in Clients \ {c} : locked[b] \cap locked[c] = {}
       /\ draft[c] \subseteq Rows /\ IdsOf(draft[c]) \subseteq changed[c]
       /\ changed[c] \subseteq locked[c]
       /\ grant[c].filter \in FilterType /\ grant[c].fields \subseteq Columns
       /\ readView[c] = NoOne \/ readView[c] \subseteq Rows
       /\ ask[c].action \in Actions /\ ask[c].names \subseteq Columns
  /\ published \in BOOLEAN

\* What the policies in force while the request ran say of its action.
InForceFor(c) ==
  {p \in UNION inForce[c] : p.enabled /\ ask[c].action \in p.actions}

\* What is withheld stays withheld, however requests, publications, hooks and
\* restarts interleave: each row that a request is answered, changes or
\* destroys is within the rows of some policy in force while it ran.
RowsGranted ==
  \A c \in Clients : \A r \in touched[c] :
    \E p \in InForceFor(c) : r \in p.filter.keep

\* So are the columns: those of an answer, what hooks add to records included,
\* and those of a statement, what hooks and the repository add to the values
\* included.
FieldsGranted ==
  \A c \in Clients :
    /\ shown[c] \subseteq UNION {p.read : p \in InForceFor(c)}
    /\ written[c] \subseteq UNION {p.write : p \in InForceFor(c)}

\* No request reaches rows or columns that the policies withhold.
NothingBeyond == RowsGranted /\ FieldsGranted

\* Once a change of policies has been answered with success and no other one
\* overlapped it, what decides is what the table says.  (Of two that overlap,
\* the one that read the table first may publish last: its snapshot stays.)
PoliciesPublished == published => snapshot = policyRows

\* Update answers "affected = 1" where the statement changed no row and the
\* record is then found.  That is no lie unless the policies changed between
\* the statement and the reading, or the transaction reads the record as it
\* was before another request changed or destroyed it.
UpdateDone ==
  \A c \in Clients :
    At(c, "commit") /\ ask[c].action = "update" =>
      \/ ask[c].id \in changed[c]
      \/ Cardinality(inForce[c]) > 1
      \/ readView[c] # NoOne /\ \E r \in readView[c] \ table : r.id = ask[c].id
=============================================================================
