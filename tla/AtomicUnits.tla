---------------------------- MODULE AtomicUnits ----------------------------
(***************************************************************************)
(* What the write path of the metadata repositories promises, without the  *)
(* call stack that delivers it (docs/.../04-Yaegi, section 4.3): the rows  *)
(* written by one unit of work become durable together or not at all, and  *)
(* the after-commit notification of a write is given at most once, and     *)
(* only when the write is durable.                                         *)
(***************************************************************************)
CONSTANTS
  Units,        \* units of work
  Writes        \* writes, each belonging to one repository call

VARIABLES
  staged,       \* staged[u]: writes of the open unit u
  durable,      \* writes that survive a restart
  notified      \* writes whose after-commit hooks were called

vars == <<staged, durable, notified>>

TypeOK ==
  /\ staged \in [Units -> SUBSET Writes]
  /\ durable \subseteq Writes
  /\ notified \subseteq Writes

Init ==
  /\ staged = [u \in Units |-> {}]
  /\ durable = {}
  /\ notified = {}

\* A write is made in one unit, once.
Stage(u, x) ==
  /\ x \notin durable
  /\ \A v \in Units : x \notin staged[v]
  /\ staged' = [staged EXCEPT ![u] = @ \cup {x}]
  /\ UNCHANGED <<durable, notified>>

Commit(u) ==
  /\ durable' = durable \cup staged[u]
  /\ staged' = [staged EXCEPT ![u] = {}]
  /\ UNCHANGED notified

Abort(u) ==
  /\ staged' = [staged EXCEPT ![u] = {}]
  /\ UNCHANGED <<durable, notified>>

\* The process stops: every open unit is lost.
Crash ==
  /\ staged' = [u \in Units |-> {}]
  /\ UNCHANGED <<durable, notified>>

Notify(x) ==
  /\ x \in durable \ notified
  /\ notified' = notified \cup {x}
  /\ UNCHANGED <<staged, durable>>

Next ==
  \/ \E u \in Units : Commit(u) \/ Abort(u)
  \/ \E u \in Units, x \in Writes : Stage(u, x)
  \/ \E x \in Writes : Notify(x)
  \/ Crash

Spec == Init /\ [][Next]_vars
=============================================================================
