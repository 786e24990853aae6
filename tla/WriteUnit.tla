----------------------------- MODULE WriteUnit -----------------------------
(***************************************************************************)
(* The unit of work of the repositories (service/metadata/tx.go and the    *)
(* write operations of repository_generic.go).                             *)
(*                                                                         *)
(* A worker is a goroutine serving a request.  It makes repository calls;  *)
(* the association code and the scripts a call runs make further calls     *)
(* with the context that call hands them, so a worker has a chain of calls *)
(* linked by "parent", of which cur[w] is the innermost.  A call that      *)
(* finds no open unit begins a transaction of its own on a pooled          *)
(* connection; that unit is named after the call that owns it.             *)
(***************************************************************************)
EXTENDS Naturals, Sequences, FiniteSets, Functions

CONSTANTS
  Calls,        \* identities of repository calls, in the order they are made
  Workers,      \* goroutines
  PoolSize,     \* SetMaxOpenConns of the sql.DB
  Kinds,        \* kinds of call the clients make
  MaxCrashes,   \* bound on restarts of the process
  NoCall        \* absent call, absent unit

\* "save" is Create and Update of one record, "updateWhere" Update by filter;
\* "many" is CreateMany, "txRepo" GenericRepository.Transaction and
\* "txScript" the Transaction that scripts are given.
WriteKinds == {"save", "updateWhere", "destroy"}
Transactions == {"txRepo", "txScript"}

ASSUME CallsAssumption == Calls \subseteq Nat /\ NoCall \notin Calls
ASSUME PoolAssumption == PoolSize \in Nat \ {0} /\ MaxCrashes \in Nat
ASSUME KindsAssumption ==
  Kinds \subseteq WriteKinds \cup {"many", "txRepo", "txScript"}

VARIABLES
  cur,          \* cur[w]: the innermost running call of w
  pc,           \* pc[c]: where call c stands
  call,         \* call[c]: what c was started with
  ustate,       \* ustate[u]: the sql.Tx of the unit call u owns
  staged,       \* staged[u]: calls whose statement ran in unit u
  after,        \* after[u]: writeUnit.after, the registered hooks of u
  hook,         \* hook[u]: the after-commit hook u is running
  fired,        \* calls whose after-commit hooks were run, in order
  db,           \* calls whose statement is durable
  crashes       \* restarts so far

vars == <<cur, pc, call, ustate, staged, after, hook, fired, db, crashes>>

MaybeCall == Calls \cup {NoCall}
Phases == {"before", "check", "exec", "after", "body", "fail", "commit", "fire"}
Results == {"ok", "err", "gone"}

\* ctx: the unit in the context handed to what c runs.  bound: the unit of
\* the repository value (r.unit).  unit: where c's statements go.  post:
\* the context is marked afterCommitRunning.  root: the call of the client,
\* or of the after-commit hook, that c works for.
CallRecord ==
  [kind: Kinds \cup {"none", "save"}, parent: MaybeCall, root: MaybeCall,
   ctx: MaybeCall, bound: MaybeCall, unit: MaybeCall, post: BOOLEAN]

Unstarted ==
  [kind |-> "none", parent |-> NoCall, root |-> NoCall,
   ctx |-> NoCall, bound |-> NoCall, unit |-> NoCall, post |-> FALSE]

TypeOK ==
  /\ cur \in [Workers -> MaybeCall]
  /\ pc \in [Calls -> {"unused", "begin"} \cup Phases \cup Results]
  /\ call \in [Calls -> CallRecord]
  /\ ustate \in [Calls -> {"none", "active", "committed", "aborted"}]
  /\ staged \in [Calls -> SUBSET Calls]
  /\ after \in [Calls -> Seq(Calls)]
  /\ hook \in [Calls -> MaybeCall]
  /\ fired \in Seq(Calls)
  /\ db \subseteq Calls
  /\ crashes \in 0..MaxCrashes
  /\ \A u \in Calls : ustate[u] # "none" => call[u].unit = u

Init ==
  /\ cur = [w \in Workers |-> NoCall]
  /\ pc = [c \in Calls |-> "unused"]
  /\ call = [c \in Calls |-> Unstarted]
  /\ ustate = [c \in Calls |-> "none"]
  /\ staged = [c \in Calls |-> {}]
  /\ after = [c \in Calls |-> << >>]
  /\ hook = [c \in Calls |-> NoCall]
  /\ fired = << >>
  /\ db = {}
  /\ crashes = 0

-----------------------------------------------------------------------------
Owns(c) == call[c].unit = c

\* Every open transaction holds one connection of the pool.
InUse == {u \in Calls : ustate[u] = "active"}
ConnectionFree == Cardinality(InUse) < PoolSize

Fresh(c) ==
  /\ pc[c] = "unused"
  /\ \A d \in Calls : pc[d] = "unused" => c <= d

-----------------------------------------------------------------------------
(***************************************************************************)
(* Starting a call.  A definition marked (slip) is how the next one could  *)
(* be written wrongly; no specification uses it.                           *)
(***************************************************************************)

\* (slip) Only the repository's own unit is looked at.
UnitForBoundOnly(c, ctx, bound) == IF bound # NoCall THEN bound ELSE c

\* execDB: the unit of the context first, then the one the repository is
\* bound to; neither, and runWrite begins one for the call itself.
UnitFor(c, ctx, bound) ==
  IF ctx # NoCall THEN ctx ELSE IF bound # NoCall THEN bound ELSE c

\* (slip) The enriched context is dropped for every kind of call.
HandedOnPlain(c, k, ctx, bound) == ctx

\* The context a call hands on.  Create, Update and Destroy run with the
\* context runWrite enriched; Transaction drops it and calls fn with the
\* context of its own caller, in both its Go and its script form.
HandedOn(c, k, ctx, bound) ==
  IF k \in Transactions THEN ctx
  ELSE IF UnitFor(c, ctx, bound) = c THEN c
  ELSE ctx

FirstPhase(k) == IF k \in WriteKinds THEN "before" ELSE "body"

\* CreateMany opens no unit; each of its records is a Create.
Started(c, k, p, r, ctx, bound, post) ==
  [kind |-> k, parent |-> p, root |-> r, bound |-> bound, post |-> post,
   unit |-> IF k = "many" THEN NoCall ELSE UnitFor(c, ctx, bound),
   ctx |-> IF k = "many" THEN ctx ELSE HandedOn(c, k, ctx, bound)]

StartCall(w, c, k, p, r, ctx, bound, post) ==
  /\ Fresh(c)
  /\ call' = [call EXCEPT ![c] = Started(c, k, p, r, ctx, bound, post)]
  /\ pc' = [pc EXCEPT ![c] = IF k # "many" /\ UnitFor(c, ctx, bound) = c
                             THEN "begin" ELSE FirstPhase(k)]
  /\ cur' = [cur EXCEPT ![w] = c]
  /\ UNCHANGED <<ustate, staged, after, hook, fired, db, crashes>>

\* A client calls a repository, or a custom API script does, with a context
\* that carries no unit.
Request(w) ==
  /\ cur[w] = NoCall
  /\ \E c \in Calls, k \in Kinds :
       StartCall(w, c, k, NoCall, c, NoCall, NoCall, FALSE)

\* Association writes (target.Repository()) and hook scripts
\* (metadata.Collection(ctx, name)) make calls on unbound repositories, with
\* the context of the call they run in.
NestedCall(w) ==
  LET p == cur[w] IN
  /\ p # NoCall
  /\ pc[p] \in {"before", "after"}
  /\ \E c \in Calls, k \in Kinds \ {"txRepo"} :
       StartCall(w, c, k, p, call[p].root, call[p].ctx, NoCall, call[p].post)

\* The records of CreateMany, on the same repository and context.  For a
\* client that is one request for each record (04-Yaegi, 4.3.1).
CreateNext(w) ==
  LET p == cur[w] IN
  /\ p # NoCall
  /\ pc[p] = "body" /\ call[p].kind = "many"
  /\ \E c \in Calls :
       StartCall(w, c, "save", p,
                 IF call[p].parent = NoCall THEN c ELSE call[p].root,
                 call[p].ctx, call[p].bound, call[p].post)

\* The body of Transaction: a Go fn writes through the repository it is
\* given, which is bound to the unit; a script's fn gets a context only.
CallInTransaction(w) ==
  LET p == cur[w] IN
  /\ p # NoCall
  /\ pc[p] = "body" /\ call[p].kind \in Transactions
  /\ \E c \in Calls, k \in Kinds :
       /\ k \in Transactions => k = call[p].kind
       /\ StartCall(w, c, k, p, call[p].root, call[p].ctx,
                    IF call[p].kind = "txRepo" THEN call[p].unit ELSE NoCall,
                    call[p].post)

\* A script run by the after-commit hook of call h gets the context h ran
\* with, uncancelled and marked afterCommitRunning.
CallFromHook(w) ==
  LET p == cur[w] IN
  /\ p # NoCall
  /\ pc[p] = "fire" /\ hook[p] # NoCall
  /\ \E c \in Calls, k \in Kinds \ {"txRepo"} :
       StartCall(w, c, k, p, c, call[hook[p]].ctx, NoCall, TRUE)

-----------------------------------------------------------------------------
(***************************************************************************)
(* Leaving a call.  An error is passed on by associations and CreateMany;  *)
(* a script may pass it on or ignore it; the after-commit hooks of a unit  *)
(* ignore it.                                                              *)
(***************************************************************************)
MayIgnore(p) == IF p = NoCall THEN TRUE ELSE call[p].kind # "many"

Return(w, c, res) ==
  LET p == call[c].parent IN
  /\ cur' = [cur EXCEPT ![w] = p]
  /\ \/ /\ res = "err" => MayIgnore(p)
        /\ pc' = [pc EXCEPT ![c] = res]
     \/ /\ res = "err" /\ p # NoCall /\ pc[p] \in {"before", "after", "body"}
        /\ pc' = [pc EXCEPT ![c] = res, ![p] = "fail"]

Goto(c, label) == pc' = [pc EXCEPT ![c] = label] /\ UNCHANGED cur

-----------------------------------------------------------------------------
(***************************************************************************)
(* The steps of a call.                                                    *)
(***************************************************************************)

\* BeginTx waits for a connection.
Begin(w) ==
  LET c == cur[w] IN
  /\ c # NoCall
  /\ pc[c] = "begin"
  /\ ConnectionFree
  /\ \/ /\ ustate' = [ustate EXCEPT ![c] = "active"]
        /\ Goto(c, FirstPhase(call[c].kind))
     \/ Return(w, c, "err") /\ UNCHANGED ustate
  /\ UNCHANGED <<call, staged, after, hook, fired, db, crashes>>

\* Validation, with a unique field to look up or without.  Destroy validates
\* nothing.
Validate(w) ==
  LET c == cur[w] IN
  /\ c # NoCall
  /\ pc[c] = "before"
  /\ \E label \in {"check", "exec"} :
       /\ label = "check" => call[c].kind # "destroy"
       /\ Goto(c, label)
  /\ UNCHANGED <<call, ustate, staged, after, hook, fired, db, crashes>>

\* checkUnique queries coll.Db().DB(), the pool, and not the unit: it waits
\* for a second connection and gives it back.
CheckUnique(w) ==
  LET c == cur[w] IN
  /\ c # NoCall
  /\ pc[c] = "check"
  /\ ConnectionFree
  /\ Goto(c, "exec") \/ Goto(c, "fail")
  /\ UNCHANGED <<call, ustate, staged, after, hook, fired, db, crashes>>

\* (slip) A statement whose transaction is over goes to the pool instead.
ExecOnPool(w) ==
  LET c == cur[w] IN
  LET u == call[c].unit IN
  /\ c # NoCall
  /\ pc[c] = "exec"
  /\ staged' = [staged EXCEPT ![u] = @ \cup {c}]
  /\ db' = IF ustate[u] = "active" THEN db ELSE db \cup {c}
  /\ Goto(c, "after")
  /\ UNCHANGED <<call, ustate, after, hook, fired, crashes>>

\* The statement, on the transaction of the unit: sql.ErrTxDone when that
\* transaction is over.
ExecRuns(u) == ustate[u] = "active"

Exec(w) ==
  LET c == cur[w] IN
  LET u == call[c].unit IN
  /\ c # NoCall
  /\ pc[c] = "exec"
  /\ \/ /\ ExecRuns(u)
        /\ staged' = [staged EXCEPT ![u] = @ \cup {c}]
        /\ Goto(c, "after")
     \/ Goto(c, "fail") /\ UNCHANGED staged
  /\ UNCHANGED <<call, ustate, after, hook, fired, db, crashes>>

\* An authorization, validation, lookup or hook error, or fn's own.
Fail(w) ==
  LET c == cur[w] IN
  /\ c # NoCall
  /\ pc[c] \in {"before", "after", "body"}
  /\ Goto(c, "fail")
  /\ UNCHANGED <<call, ustate, staged, after, hook, fired, db, crashes>>

\* (slip) Only the call that owns the unit registers its hook.
OwnerRegisters(c) == call[c].kind = "save" /\ ~call[c].post /\ Owns(c)

\* registerAfterCommit: a call that saved one record registers, unless an
\* after-commit hook is running.
Registers(c) == call[c].kind = "save" /\ ~call[c].post

\* The call has done its work: it registers its hook, and the owner of the
\* unit goes on to commit it.
Complete(w) ==
  LET c == cur[w] IN
  LET u == call[c].unit IN
  /\ c # NoCall
  /\ pc[c] \in {"after", "body"}
  /\ IF Registers(c)
     THEN after' = [after EXCEPT ![u] = Append(@, c)]
     ELSE UNCHANGED after
  /\ IF Owns(c) THEN Goto(c, "commit") ELSE Return(w, c, "ok")
  /\ UNCHANGED <<call, ustate, staged, hook, fired, db, crashes>>

\* (slip) Every failing call marks a transaction of its own as rolled back.
RollbackAnyway(w) ==
  LET c == cur[w] IN
  /\ c # NoCall
  /\ pc[c] = "fail"
  /\ ustate' = [ustate EXCEPT ![c] = "aborted"]
  /\ Return(w, c, "err")
  /\ UNCHANGED <<call, staged, after, hook, fired, db, crashes>>

\* (slip) The error path forgets the transaction.
RollbackForgotten(w) ==
  LET c == cur[w] IN
  /\ c # NoCall
  /\ pc[c] = "fail"
  /\ Return(w, c, "err")
  /\ UNCHANGED <<call, ustate, staged, after, hook, fired, db, crashes>>

\* The error leaves the call; the owner rolls its transaction back.
Rollback(w) ==
  LET c == cur[w] IN
  /\ c # NoCall
  /\ pc[c] = "fail"
  /\ IF Owns(c)
     THEN ustate' = [ustate EXCEPT ![c] = "aborted"]
     ELSE UNCHANGED ustate
  /\ Return(w, c, "err")
  /\ UNCHANGED <<call, staged, after, hook, fired, db, crashes>>

CommitSucceeds(w) ==
  LET c == cur[w] IN
  /\ c # NoCall
  /\ pc[c] = "commit" /\ ustate[c] = "active"
  /\ db' = db \cup staged[c]
  /\ ustate' = [ustate EXCEPT ![c] = "committed"]
  /\ Goto(c, "fire")
  /\ UNCHANGED <<call, staged, after, hook, fired, crashes>>

\* (slip) The hooks are fired whatever Commit returned.
CommitFailsHooksFire(w) ==
  LET c == cur[w] IN
  /\ c # NoCall
  /\ pc[c] = "commit"
  /\ ustate' = [ustate EXCEPT ![c] = "aborted"]
  /\ Goto(c, "fire")
  /\ UNCHANGED <<call, staged, after, hook, fired, db, crashes>>

\* The server refuses, or the transaction was over already.
CommitFails(w) ==
  LET c == cur[w] IN
  /\ c # NoCall
  /\ pc[c] = "commit"
  /\ ustate' = [ustate EXCEPT ![c] = "aborted"]
  /\ Return(w, c, "err")
  /\ UNCHANGED <<call, staged, after, hook, fired, db, crashes>>

\* The server commits and the connection breaks before it says so.
CommitAckLost(w) ==
  LET c == cur[w] IN
  /\ c # NoCall
  /\ pc[c] = "commit" /\ ustate[c] = "active"
  /\ db' = db \cup staged[c]
  /\ ustate' = [ustate EXCEPT ![c] = "committed"]
  /\ Return(w, c, "err")
  /\ UNCHANGED <<call, staged, after, hook, fired, crashes>>

\* (slip) The hooks of the unit are popped like deferred calls.
FireHookLastFirst(w) ==
  LET c == cur[w] IN
  /\ c # NoCall
  /\ pc[c] = "fire" /\ after[c] # << >>
  /\ LET n == Len(after[c]) IN
     /\ hook' = [hook EXCEPT ![c] = after[c][n]]
     /\ fired' = Append(fired, after[c][n])
     /\ after' = [after EXCEPT ![c] = SubSeq(after[c], 1, n - 1)]
  /\ UNCHANGED <<cur, pc, call, ustate, staged, db, crashes>>

\* fireAfterCommit: the hooks of the unit, in the order of registration.
FireHook(w) ==
  LET c == cur[w] IN
  /\ c # NoCall
  /\ pc[c] = "fire" /\ after[c] # << >>
  /\ hook' = [hook EXCEPT ![c] = Head(after[c])]
  /\ fired' = Append(fired, Head(after[c]))
  /\ after' = [after EXCEPT ![c] = Tail(after[c])]
  /\ UNCHANGED <<cur, pc, call, ustate, staged, db, crashes>>

Finish(w) ==
  LET c == cur[w] IN
  /\ c # NoCall
  /\ pc[c] = "fire" /\ after[c] = << >>
  /\ Return(w, c, "ok")
  /\ UNCHANGED <<call, ustate, staged, after, hook, fired, db, crashes>>

\* database/sql ends a transaction by itself when the request is cancelled
\* or its connection is lost.
DriverAborts(u) ==
  /\ ustate[u] = "active"
  /\ ustate' = [ustate EXCEPT ![u] = "aborted"]
  /\ UNCHANGED <<cur, pc, call, staged, after, hook, fired, db, crashes>>

\* The process stops and starts again.
Crash ==
  /\ crashes < MaxCrashes
  /\ crashes' = crashes + 1
  /\ cur' = [w \in Workers |-> NoCall]
  /\ pc' = [c \in Calls |-> IF pc[c] \in Phases \cup {"begin"}
                            THEN "gone" ELSE pc[c]]
  /\ ustate' = [u \in Calls |-> IF ustate[u] = "active"
                                THEN "aborted" ELSE ustate[u]]
  /\ UNCHANGED <<call, staged, after, hook, fired, db>>

\* What a running call does next.
Proceed(w) ==
  \/ Begin(w) \/ Validate(w) \/ CheckUnique(w) \/ Exec(w) \/ Fail(w)
  \/ Complete(w) \/ Rollback(w)
  \/ CommitSucceeds(w) \/ CommitFails(w) \/ CommitAckLost(w)
  \/ FireHook(w) \/ Finish(w)

Next ==
  \/ \E w \in Workers :
       \/ Request(w) \/ NestedCall(w) \/ CreateNext(w)
       \/ CallInTransaction(w) \/ CallFromHook(w)
       \/ Proceed(w)
  \/ \E u \in Calls : DriverAborts(u)
  \/ Crash

Spec == Init /\ [][Next]_vars

\* A goroutine that can run is eventually scheduled.  Nothing is assumed of
\* clients, scripts, the driver's own aborts or crashes.
FairSpec == Spec /\ \A w \in Workers : WF_vars(Proceed(w))

-----------------------------------------------------------------------------
(***************************************************************************)
(* Properties.                                                             *)
(***************************************************************************)
Fired == Range(fired)
Live(c) == pc[c] \in {"begin"} \cup Phases

\* The statements run on behalf of the client's call r.
Written(r) ==
  {c \in Calls : call[c].root = r /\ \E u \in Calls : c \in staged[u]}

\* All that one request to Create, Update or Destroy wrote, in associations
\* and scripts too, is durable or none of it is; all of it once the call has
\* returned without an error, none of it when its transaction was rolled
\* back (04-Yaegi, 4.3: "either all succeed or all roll back").
RequestAtomic ==
  \A r \in Calls : call[r].kind \in WriteKinds =>
    /\ Written(r) \subseteq db \/ Written(r) \cap db = {}
    /\ pc[r] = "ok" => Written(r) \subseteq db
    /\ ustate[r] = "aborted" => Written(r) \cap db = {}

\* An after-commit hook runs for a write only once that write is durable,
\* and only once (tx.go: hooks are fired behind Commit).
HookAfterDurable ==
  /\ Fired \subseteq db
  /\ IsInjective(fired)

\* First: when the owner of a unit has returned without an error, the hook of every
\* call that saved a record in that unit has been run: none is lost to
\* nesting, to the repository form or to an error a script ignored.
HookForEverySave ==
  \A c \in Calls :
    LET u == call[c].unit IN
    (/\ pc[c] = "ok" /\ call[c].kind = "save" /\ ~call[c].post
     /\ u # NoCall /\ pc[u] = "ok") => c \in Fired

\* Second: within a unit, the hook of a nested call runs before its caller's.
HookInnerFirst ==
  \A i, j \in DOMAIN fired :
    call[fired[j]].parent = fired[i] => j < i

\* The after-commit hooks of a unit run for all its saves, and in the order in
\* which the saves ended.
HooksInOrder == HookForEverySave /\ HookInnerFirst

\* A connection is held only for a call that is still running: no error
\* path, nested call or restart leaves a transaction open.
NoLeakedTransaction ==
  \A u \in InUse : Live(u) /\ Owns(u)

\* A request to Create, Update or Destroy holds at most one transaction: the
\* calls of its associations and scripts have joined it.
SingleBegin ==
  \A u, v \in InUse :
    (call[u].root = call[v].root /\ call[call[u].root].kind \in WriteKinds) => u = v

\* The same inside Transaction ("a second Begin is forbidden, nested Creates
\* and hooks all join", 04-Yaegi, 4.3.2).
TransactionJoined ==
  \A u, v \in InUse : call[u].root = call[v].root => u = v

\* A write made by an after-commit hook through its own context is not
\* refused for the sake of the transaction that has just been committed.
HookWritesReach ==
  \A c \in Calls :
    (call[c].post /\ pc[c] = "exec") => ExecRuns(call[c].unit)

\* Every request comes to an end, whatever the others wait for.
EveryRequestReturns ==
  \A w \in Workers : cur[w] # NoCall ~> cur[w] = NoCall

OpenStaged ==
  [u \in Calls |-> IF ustate[u] = "active" THEN staged[u] ELSE {}]

\* The write path implements its promise: what units stage becomes durable
\* together or is dropped, and hooks are called for durable writes only.
Promise == INSTANCE AtomicUnits WITH
  Units <- Calls,
  Writes <- Calls,
  staged <- OpenStaged,
  durable <- db,
  notified <- Fired

ImplementsPromise == Promise!Spec
=============================================================================
