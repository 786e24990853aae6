----------------------------- MODULE Relations -----------------------------
(***************************************************************************)
(* The links between the records of two collections                        *)
(* (service/metadata/association.go): the association calls, each in a     *)
(* write transaction of its own, and what the destruction of a record does *)
(* to its links.  Every source record has two relation fields, a hasMany   *)
(* (hasOne runs the same code), whose links are foreign keys in the target *)
(* rows, and a belongsToMany, whose links are the rows of a through table. *)
(*                                                                         *)
(* Transactions are those of InnoDB at its default level: a SELECT reads   *)
(* the snapshot of the transaction's first one, with its own writes, while *)
(* UPDATE, DELETE and INSERT work on the newest rows and lock them until   *)
(* the end.  What a statement waits for may as well end it (a deadlock, a  *)
(* lock wait timeout): any request may fail, and is then rolled back.      *)
(***************************************************************************)
EXTENDS Integers, FiniteSets

CONSTANTS
  Sources, Targets,     \* records of the two collections
  Null,                 \* a foreign key that links to no record
  Here, Gone,           \* a record or a through row that is there; no row
  FirstLinks,           \* what the tables may hold at first
  LinkIds,              \* the sets of targets that a request may name
  OnDelete,             \* the option of the hasMany field
  MaxPage,              \* MaxPageSize
  Workers,              \* concurrent requests
  MaxLinkCalls          \* bound: requests

Pairs == Sources \X Targets
Keys == Sources \cup Targets \cup Pairs
IsLinkRows(r) ==
  /\ r \in [Keys -> Sources \cup {Null, Here, Gone}]
  /\ \A k \in Sources \cup Pairs : r[k] \in {Here, Gone}
  /\ \A t \in Targets : r[t] \in Sources \cup {Null, Gone}

\* The rows have no link to a source that is not there.
Ended(r, s) == r[s] = Gone => /\ \A t \in Targets : r[t] # s
                             /\ \A t \in Targets : r[<<s, t>>] = Gone

ASSUME RelationsAssumption ==
  /\ Null \notin Sources /\ Null # Gone /\ Here # Gone /\ Gone \notin Sources
  /\ Here \notin Sources /\ Null # Here /\ IsFiniteSet(Targets)
  /\ Sources \cap Targets = {} /\ Pairs \cap (Sources \cup Targets) = {}
  /\ \A r \in FirstLinks : IsLinkRows(r) /\ \A s \in Sources : Ended(r, s)
  /\ LinkIds \subseteq SUBSET Targets
  /\ OnDelete \subseteq {"SET NULL", "CASCADE", "RESTRICT"}
  /\ MaxPage \in Nat \ {0} /\ MaxLinkCalls \in Nat

VARIABLES
  rels,      \* the committed rows
  onDelete,  \* the option as it was configured
  job,       \* what each request asks for, where it is, what it has left to do
  view,      \* what its transaction's SELECTs see
  wrote,     \* the keys of the rows that it has written
  held,      \* the keys of the rows that it has locked
  gaps,      \* the sources whose range of the through table it has locked
  linkCalls,
  excused    \* history: sources whose links a destruction may have missed

transaction == <<view, wrote, held, gaps>>
relationVars == <<rels, onDelete, job, transaction, linkCalls, excused>>

NoJob == [op |-> "none", field |-> "hasMany", source |-> Null, want |-> {}, at |-> "idle",
          link |-> {}, unlink |-> {}, alone |-> FALSE, whole |-> TRUE]

NoView == [k \in Keys |-> Gone]

RelationsInit ==
  /\ rels \in FirstLinks /\ onDelete \in OnDelete
  /\ job = [c \in Workers |-> NoJob]
  /\ view = [c \in Workers |-> NoView]
  /\ wrote = [c \in Workers |-> {}] /\ held = [c \in Workers |-> {}]
  /\ gaps = [c \in Workers |-> {}]
  /\ linkCalls = 0 /\ excused = {}

-----------------------------------------------------------------------------
Doing(c, label) == job[c].at = label
Turn(c, label) == job' = [job EXCEPT ![c] = [job[c] EXCEPT !.at = label]]

\* The newest row that a statement of the request finds.
Newest(c, k) == IF k \in wrote[c] THEN view[c][k] ELSE rels[k]

LinkedIn(row, s) == {t \in Targets : row[t] = s}

\* The statement has the locks, and leaves row v under each of the keys.
Leaves(c, keys, v) ==
  /\ \A b \in Workers \ {c} : keys \cap held[b] = {}
  /\ held' = [held EXCEPT ![c] = @ \cup keys]
  /\ wrote' = [wrote EXCEPT ![c] = @ \cup keys]
  /\ view' = [view EXCEPT ![c] = [k \in Keys |-> IF k \in keys THEN v ELSE view[c][k]]]

\* The request is over; what it has not committed is rolled back.
Leave(c) ==
  /\ job' = [job EXCEPT ![c] = NoJob]
  /\ view' = [view EXCEPT ![c] = NoView]
  /\ wrote' = [wrote EXCEPT ![c] = {}] /\ held' = [held EXCEPT ![c] = {}]
  /\ gaps' = [gaps EXCEPT ![c] = {}]

Ask(op, field, s, ids) == [NoJob EXCEPT !.op = op, !.field = field, !.source = s, !.want = ids]

LinkRequests ==
       {Ask(op, f, s, ids) : op \in {"add", "set", "remove"}, f \in {"hasMany", "belongsToMany"},
                             s \in Sources, ids \in LinkIds}
  \cup {Ask("destroy", "hasMany", s, {}) : s \in Sources}
  \cup {Ask("destroyTarget", "hasMany", Null, {t}) : t \in Targets}
  \cup {Ask("truncate", "hasMany", Null, {})}

\* Two requests meet at a source that one of them destroys.
Meet(q, r) ==
  IF q.source = r.source /\ "destroy" \in {q.op, r.op} THEN {q.source} ELSE {}

UnderWay == {b \in Workers : ~Doing(b, "idle")}
MetBy(q) == UNION {Meet(q, job[b]) : b \in UnderWay}

StartRequest(c) ==
  /\ Doing(c, "idle") /\ linkCalls < MaxLinkCalls
  /\ linkCalls' = linkCalls + 1
  /\ \E q \in LinkRequests :
       /\ job' = [b \in Workers |->
            IF b = c THEN [q EXCEPT !.at = "check", !.alone = UnderWay = {}]
            ELSE [job[b] EXCEPT !.alone = FALSE]]
       /\ excused' = excused \cup MetBy(q) \cup (IF q.op = "truncate" THEN Sources ELSE {})
  /\ UNCHANGED <<rels, onDelete, transaction>>

-----------------------------------------------------------------------------
\* (slip) A destruction looks at no links.
StageWithoutLinks(q) ==
  CASE q.op = "add" -> "link"
    [] q.op = "destroy" -> "delete"
    [] q.op = "remove" /\ q.want # {} -> "unlink"
    [] OTHER -> IF q.field = "hasMany" THEN "read" ELSE "clear"

\* Where the code goes once the source is found.
StageAfterCheck(q) ==
  CASE q.op = "add" -> "link"
    [] q.op = "destroy" -> "read"
    [] q.op = "remove" /\ q.want # {} -> "unlink"
    [] OTHER -> IF q.field = "hasMany" THEN "read" ELSE "clear"

\* authorizeAssociation counts the source, and with that its transaction has
\* its snapshot; collectDestroyIDs reads it.
CheckSource(c) ==
  LET q == job[c] IN
  /\ Doing(c, "check") /\ q.source # Null
  /\ \/ /\ rels[q.source] = Here
        /\ view' = [view EXCEPT ![c] = rels]
        /\ job' = [job EXCEPT ![c] =
             [q EXCEPT !.at = StageAfterCheck(q),
                       !.link = IF q.op \in {"add", "set"} THEN q.want ELSE {},
                       !.unlink = IF q.op = "remove" THEN q.want ELSE {}]]
        /\ UNCHANGED <<wrote, held, gaps>>
     \/ /\ rels[q.source] = Gone
        /\ Leave(c)
  /\ UNCHANGED <<rels, onDelete, linkCalls, excused>>

\* The linked targets are read from the snapshot, one page of them at most and
\* in no order.
ReadLinked(c) ==
  LET s == job[c].source
      linked == LinkedIn(view[c], s)
      size == IF Cardinality(linked) < MaxPage THEN Cardinality(linked) ELSE MaxPage
      destroys == job[c].op = "destroy" IN
  /\ Doing(c, "read")
  /\ \/ /\ destroys /\ onDelete = "RESTRICT" /\ linked # {}
        /\ Leave(c) /\ UNCHANGED excused
     \/ /\ ~(destroys /\ onDelete = "RESTRICT" /\ linked # {})
        /\ \E page \in {p \in SUBSET linked : Cardinality(p) = size} :
             job' = [job EXCEPT ![c] =
               [job[c] EXCEPT !.unlink = page, !.whole = page = linked,
                  !.at = IF destroys /\ onDelete = "CASCADE" THEN "cascade" ELSE "unlink"]]
        /\ excused' = IF destroys /\ size < Cardinality(linked) THEN excused \cup {s}
                      ELSE excused
        /\ UNCHANGED transaction
  /\ UNCHANGED <<rels, onDelete, linkCalls>>

\* The target's Update by its key: the UPDATE, and FindOne, which may find in
\* the snapshot what is no longer there and fails where it finds nothing.
UpdateTarget(c, t, fk) ==
  \/ /\ Newest(c, t) # Gone
     /\ Leaves(c, {t}, fk)
     /\ UNCHANGED gaps
  \/ /\ Newest(c, t) = Gone /\ view[c][t] # Gone
     /\ \A b \in Workers \ {c} : t \notin held[b]
     /\ UNCHANGED transaction

\* hasMany: whoever the target is linked to by now.
UnlinkOne(c) ==
  LET q == job[c] IN
  /\ Doing(c, "unlink")
  /\ \E t \in q.unlink :
       /\ IF q.field = "hasMany" THEN UpdateTarget(c, t, Null)
          ELSE Leaves(c, {<<q.source, t>>}, Gone) /\ UNCHANGED gaps
       /\ job' = [job EXCEPT ![c] = [q EXCEPT !.unlink = q.unlink \ {t}]]
  /\ UNCHANGED <<rels, onDelete, linkCalls, excused>>

AfterUnlink(c) ==
  /\ Doing(c, "unlink") /\ job[c].unlink = {}
  /\ Turn(c, IF job[c].op = "destroy" THEN "clear" ELSE "link")
  /\ UNCHANGED <<rels, onDelete, transaction, linkCalls, excused>>

\* The children in the page, whoever they are linked to by now.
DestroyLinked(c) ==
  /\ Doing(c, "cascade")
  /\ Leaves(c, job[c].unlink, Gone)
  /\ Turn(c, "clear")
  /\ UNCHANGED <<rels, onDelete, gaps, linkCalls, excused>>

\* The rows that a statement on a source's range of the through table finds.
RangeOf(c, s) ==
  {k \in {s} \X Targets : Newest(c, k) = Here \/ \E b \in Workers : k \in held[b]}

\* (slip) The range is not locked, as at a lower isolation level.
ClearRows(c) ==
  /\ Doing(c, "clear")
  /\ Leaves(c, RangeOf(c, job[c].source), Gone)
  /\ UNCHANGED gaps
  /\ Turn(c, IF job[c].op = "destroy" THEN "delete" ELSE "link")
  /\ UNCHANGED <<rels, onDelete, linkCalls, excused>>

\* DELETE FROM through WHERE source = ?: rows that others have locked are
\* waited for, the range is locked against insertion.
ClearThrough(c) ==
  /\ Doing(c, "clear")
  /\ Leaves(c, RangeOf(c, job[c].source), Gone)
  /\ gaps' = [gaps EXCEPT ![c] = @ \cup {job[c].source}]
  /\ Turn(c, IF job[c].op = "destroy" THEN "delete" ELSE "link")
  /\ UNCHANGED <<rels, onDelete, linkCalls, excused>>

\* INSERT IGNORE, once the target has been found.
InsertPair(c, t) ==
  /\ view[c][t] # Gone
  /\ \A b \in Workers \ {c} : job[c].source \notin gaps[b]
  /\ Leaves(c, {<<job[c].source, t>>}, Here)
  /\ UNCHANGED gaps

\* The body of AddAssociation, which SetAssociation ends with.
LinkOne(c) ==
  LET q == job[c] IN
  /\ Doing(c, "link")
  /\ \E t \in q.link :
       /\ IF q.field = "hasMany" THEN UpdateTarget(c, t, q.source) ELSE InsertPair(c, t)
       /\ job' = [job EXCEPT ![c] = [q EXCEPT !.link = q.link \ {t}]]
  /\ UNCHANGED <<rels, onDelete, linkCalls, excused>>

AfterLink(c) ==
  /\ Doing(c, "link") /\ job[c].link = {}
  /\ Turn(c, "commit")
  /\ UNCHANGED <<rels, onDelete, transaction, linkCalls, excused>>

DeleteSource(c) ==
  /\ Doing(c, "delete")
  /\ Leaves(c, {job[c].source}, Gone)
  /\ Turn(c, "commit")
  /\ UNCHANGED <<rels, onDelete, gaps, linkCalls, excused>>

\* A target has no relation fields; a truncation looks at none.
DestroyOthers(c) ==
  /\ Doing(c, "check") /\ job[c].source = Null
  /\ Leaves(c, IF job[c].op = "truncate" THEN Sources ELSE job[c].want, Gone)
  /\ Turn(c, "commit")
  /\ UNCHANGED <<rels, onDelete, gaps, linkCalls, excused>>

CommitLinks(c) ==
  /\ Doing(c, "commit")
  /\ rels' = [k \in Keys |-> Newest(c, k)]
  /\ Leave(c)
  /\ UNCHANGED <<onDelete, linkCalls, excused>>

\* A target that is not found, a hook, a rule, a statement, a deadlock, a crash.
LinkFails(c) ==
  /\ ~Doing(c, "idle")
  /\ UNCHANGED <<rels, onDelete, linkCalls, excused>>
  /\ Leave(c)

Work(c) ==
  \/ StartRequest(c) \/ CheckSource(c) \/ ReadLinked(c) \/ UnlinkOne(c) \/ AfterUnlink(c)
  \/ DestroyLinked(c) \/ ClearThrough(c) \/ LinkOne(c) \/ AfterLink(c)
  \/ DeleteSource(c) \/ DestroyOthers(c) \/ CommitLinks(c) \/ LinkFails(c)

RelationsNext == \E c \in Workers : Work(c)
RelationsSpec == RelationsInit /\ [][RelationsNext]_relationVars

-----------------------------------------------------------------------------
(***************************************************************************)
(* Properties.                                                             *)
(***************************************************************************)
\* No two transactions hold a row, and none has written what it does not hold.
RelationsTypeOK ==
  /\ IsLinkRows(rels) /\ \A c \in Workers : IsLinkRows(view[c])
  /\ \A c \in Workers :
       /\ wrote[c] = held[c] /\ (Doing(c, "idle") => held[c] = {} /\ gaps[c] = {})
       /\ \A b \in Workers \ {c} : held[b] \cap held[c] = {}

LinksOf(c) ==
  LET q == job[c] IN
  IF q.field = "hasMany" THEN {t \in Targets : Newest(c, t) = q.source}
  ELSE {t \in Targets : Newest(c, <<q.source, t>>) = Here}

\* What is about to be committed is what was asked for.  Added: whatever still
\* exists is linked.  Removed: none of it is linked, and if nothing was named
\* nothing is.  Set: besides, nothing else is linked.  Through a table that is
\* so however requests overlap; a hasMany is read in a snapshot and a page at a
\* time, so for nothing else to be linked no other request may have overlapped
\* and the links must have fitted in the page.
LinksAsAsked ==
  \A c \in Workers : Doing(c, "commit") =>
    LET q == job[c]
        exact == q.field = "belongsToMany" \/ (q.alone /\ q.whole) IN
    /\ q.op \in {"add", "set"} =>
         \A t \in q.want : t \in LinksOf(c) \/ Newest(c, t) = Gone
    /\ q.op = "set" /\ exact => LinksOf(c) \subseteq q.want
    /\ q.op = "remove" => q.want \cap LinksOf(c) = {}
    /\ q.op = "remove" /\ q.want = {} /\ exact => LinksOf(c) = {}

\* No link outlives the record it is a link of, whatever is done on failure,
\* unless another request on that record overlapped its destruction, it had
\* more links than a page holds, or the collection was truncated.
NoDangling ==
  \A s \in Sources \ excused : Ended(rels, s)

\* The links of a record are those that were asked for, and go when it goes.
LinksHold == LinksAsAsked /\ NoDangling
=============================================================================
