-------------------------- MODULE WriteUnitProofs --------------------------
(***************************************************************************)
(* What WriteUnit guarantees for any number of calls, workers and          *)
(* connections.  The inductive invariant says where a call's write can be  *)
(* at each phase of the call: nowhere before its statement, staged in its  *)
(* unit after it, registered for a hook at most once, and durable as soon  *)
(* as the unit that holds it is committed.  A second one, built on it,     *)
(* says how the calls of a worker, of a request and of a unit hang         *)
(* together; the promises about whole requests rest on that.               *)
(***************************************************************************)
EXTENDS WriteUnit, SequenceTheorems, TLAPS

NotStaged == {"unused", "begin", "before", "check", "exec", "body"}
NotRegistered == NotStaged \cup {"after", "fail"}
Open == {"before", "check", "exec", "after", "body", "fail", "commit"}

\* Who may be in which phase.
PhaseInv ==
  \A c \in Calls :
    /\ pc[c] \in {"begin", "commit", "fire"} => Owns(c)
    /\ pc[c] = "unused" => ustate[c] = "none"
    /\ pc[c] = "body" => call[c].kind \notin WriteKinds
    /\ pc[c] = "fire" => ustate[c] = "committed"
    /\ pc[c] \in {"unused", "begin"} => staged[c] = {}
    /\ ustate[c] = "active" => pc[c] \in Open
    /\ pc[c] \in {"before", "check", "exec", "after"} => call[c].unit \in Calls

\* Where a write is.
StagedInv ==
  /\ \A c, u \in Calls : c \in staged[u] => pc[c] \notin NotStaged
  /\ \A c \in db : pc[c] \notin NotStaged
  /\ \A c \in Calls : pc[c] = "after" => c \in staged[call[c].unit]
  /\ \A u \in Calls : ustate[u] = "committed" => staged[u] \subseteq db

\* Where a hook is.
HookInv ==
  /\ \A u \in Calls : Range(after[u]) \subseteq staged[u]
  /\ \A u \in Calls : IsInjective(after[u])
  /\ \A u \in Calls : \A c \in Range(after[u]) :
       /\ pc[c] \notin NotRegistered
       /\ call[c].unit = u
       /\ c \notin Fired
  /\ \A c \in Fired : c \in db /\ pc[c] \notin NotRegistered
  /\ IsInjective(fired)

IInv == TypeOK /\ PhaseInv /\ StagedInv /\ HookInv

-----------------------------------------------------------------------------
(***************************************************************************)
(* What appending to a list of hooks, and taking its head, do to the set   *)
(* of its elements and to their being distinct.                            *)
(***************************************************************************)
LEMMA AppendRange ==
  ASSUME NEW S, NEW s \in Seq(S), NEW x \in S
  PROVE  /\ Append(s, x) \in Seq(S)
         /\ Range(Append(s, x)) = Range(s) \cup {x}
         /\ (x \notin Range(s) /\ IsInjective(s)) => IsInjective(Append(s, x))
<1> DEFINE t == Append(s, x)
<1>1. /\ t \in Seq(S)
      /\ Len(t) = Len(s) + 1
      /\ \A i \in 1..Len(s) : t[i] = s[i]
      /\ t[Len(s) + 1] = x
  BY AppendProperties
<1>2. Len(s) \in Nat /\ DOMAIN s = 1..Len(s) /\ DOMAIN t = 1..(Len(s) + 1)
  BY <1>1, LenProperties
<1> HIDE DEF t
<1>3. Range(t) = Range(s) \cup {x}
  <2>1. \A y \in Range(t) : y \in Range(s) \cup {x}
    BY <1>1, <1>2 DEF Range
  <2>2. \A y \in Range(s) : y \in Range(t)
    BY <1>1, <1>2 DEF Range
  <2>3. x \in Range(t)
    BY <1>1, <1>2 DEF Range
  <2> QED
    BY <2>1, <2>2, <2>3
<1>4. ASSUME x \notin Range(s), IsInjective(s)
      PROVE  IsInjective(t)
  <2>1. \A i \in DOMAIN s : s[i] # x
    BY <1>4 DEF Range
  <2> QED
    BY <1>1, <1>2, <1>4, <2>1 DEF IsInjective
<1> QED
  BY <1>1, <1>3, <1>4 DEF t

LEMMA TailRange ==
  ASSUME NEW S, NEW s \in Seq(S), s # << >>
  PROVE  /\ Tail(s) \in Seq(S) /\ Head(s) \in S
         /\ Head(s) \in Range(s) /\ Range(Tail(s)) \subseteq Range(s)
         /\ IsInjective(s) => /\ Head(s) \notin Range(Tail(s))
                             /\ IsInjective(Tail(s))
<1> DEFINE t == Tail(s)
<1>1. /\ t \in Seq(S) /\ Head(s) \in S
      /\ Len(t) = Len(s) - 1
      /\ \A i \in 1..Len(t) : t[i] = s[i + 1]
  BY HeadTailProperties
<1>2. /\ Len(s) \in Nat \ {0} /\ DOMAIN s = 1..Len(s)
      /\ DOMAIN t = 1..(Len(s) - 1)
  BY <1>1, LenProperties, EmptySeq
<1>3. Head(s) = s[1]
  OBVIOUS
<1> HIDE DEF t
<1>4. Head(s) \in Range(s)
  BY <1>2, <1>3 DEF Range
<1>5. Range(t) \subseteq Range(s)
  BY <1>1, <1>2 DEF Range
<1>6. ASSUME IsInjective(s)
      PROVE  Head(s) \notin Range(t) /\ IsInjective(t)
  <2>1. \A i \in DOMAIN t : t[i] = s[i + 1] /\ i + 1 \in DOMAIN s /\ i \in Nat /\ i # 0
    BY <1>1, <1>2
  <2>2. Head(s) \notin Range(t)
    BY <1>2, <1>3, <1>6, <2>1 DEF Range, IsInjective
  <2>3. IsInjective(t)
    BY <1>6, <2>1 DEF IsInjective
  <2> QED
    BY <2>2, <2>3
<1> QED
  BY <1>1, <1>4, <1>5, <1>6 DEF t

-----------------------------------------------------------------------------
(***************************************************************************)
(* The invariant holds initially and every kind of step preserves it.      *)
(***************************************************************************)
LEMMA InitIInv == Init => IInv
<1> SUFFICES ASSUME Init PROVE IInv
  OBVIOUS
<1>1. TypeOK
  BY CallsAssumption, PoolAssumption
  DEF Init, TypeOK, CallRecord, Unstarted, MaybeCall
<1>2. PhaseInv
  BY CallsAssumption DEF Init, PhaseInv, Unstarted, WriteKinds
<1>3. StagedInv
  BY DEF Init, StagedInv
<1>4. HookInv
  BY DEF Init, HookInv, Range, IsInjective, Fired
<1> QED
  BY <1>1, <1>2, <1>3, <1>4 DEF IInv

\* Steps that move calls only to phases in which their writes and hooks may
\* still be where they are.
LEMMA StagedFrame ==
  ASSUME StagedInv, db \subseteq Calls, UNCHANGED <<call, staged, db>>,
         \A d \in Calls : pc[d] \notin NotStaged => pc'[d] \notin NotStaged,
         \A d \in Calls : pc'[d] = "after" => pc[d] = "after",
         \A u \in Calls : ustate'[u] = "committed" => ustate[u] = "committed"
  PROVE  StagedInv'
BY DEF StagedInv

LEMMA HookFrame ==
  ASSUME TypeOK, HookInv, UNCHANGED <<call, after, fired>>, db \subseteq db',
         \A u \in Calls : staged[u] \subseteq staged'[u],
         \A d \in Calls : pc[d] \notin NotRegistered => pc'[d] \notin NotRegistered
  PROVE  HookInv'
<1>1. Fired' = Fired /\ \A u \in Calls : Range(after'[u]) = Range(after[u])
  BY DEF Fired, Range
<1>2. Fired \subseteq Calls /\ \A u \in Calls : Range(after[u]) \subseteq Calls
  BY DEF TypeOK, Fired, Range
<1>3. IsInjective(fired') /\ \A u \in Calls : IsInjective(after'[u])
  BY DEF HookInv, IsInjective
<1> QED
  BY <1>1, <1>2, <1>3 DEF HookInv

\* Starting a call touches only the fresh call c.
LEMMA StartStep ==
  ASSUME IInv, NEW w \in Workers, NEW c \in Calls, NEW k \in Kinds \cup {"save"},
         NEW p \in MaybeCall, NEW r \in MaybeCall, NEW x \in MaybeCall,
         NEW b \in MaybeCall, NEW m \in BOOLEAN,
         StartCall(w, c, k, p, r, x, b, m)
  PROVE  IInv'
<1> USE CallsAssumption DEF IInv
<1> DEFINE R == Started(c, k, p, r, x, b, m)
<1>0. /\ UnitFor(c, x, b) \in Calls
      /\ HandedOn(c, k, x, b) \in MaybeCall
      /\ k \in Kinds \cup {"none", "save"}
  BY DEF UnitFor, HandedOn, MaybeCall
<1>1. R \in CallRecord
  BY <1>0 DEF Started, CallRecord, MaybeCall
<1>2. /\ pc[c] = "unused"
      /\ ustate[c] = "none"
      /\ call' = [call EXCEPT ![c] = R]
      /\ cur' = [cur EXCEPT ![w] = c]
      /\ \E label \in {"begin", "before", "body"} :
           /\ pc' = [pc EXCEPT ![c] = label]
           /\ label = "begin" => R.unit = c
           /\ label = "before" => R.unit \in Calls
           /\ label = "body" => k \notin WriteKinds
      /\ UNCHANGED <<ustate, staged, after, hook, fired, db, crashes>>
  <2>1. /\ pc[c] = "unused" /\ ustate[c] = "none"
        /\ call' = [call EXCEPT ![c] = R]
        /\ cur' = [cur EXCEPT ![w] = c]
        /\ UNCHANGED <<ustate, staged, after, hook, fired, db, crashes>>
    BY DEF StartCall, Fresh, PhaseInv
  <2>2. CASE k = "many"
    <3>1. pc' = [pc EXCEPT ![c] = "body"] /\ k \notin WriteKinds
      BY <2>2 DEF StartCall, FirstPhase, WriteKinds
    <3> QED
      BY <2>1, <3>1
  <2>3. CASE k # "many" /\ UnitFor(c, x, b) = c
    <3>1. pc' = [pc EXCEPT ![c] = "begin"] /\ R.unit = c
      BY <2>3 DEF StartCall, Started
    <3> QED
      BY <2>1, <3>1
  <2>4. CASE k # "many" /\ UnitFor(c, x, b) # c
    <3>1. /\ pc' = [pc EXCEPT ![c] = FirstPhase(k)]
          /\ R.unit = UnitFor(c, x, b)
      BY <2>4 DEF StartCall, Started
    <3> QED
      BY <2>1, <3>1, <1>0 DEF FirstPhase
  <2> QED
    BY <2>2, <2>3, <2>4
<1> HIDE DEF R
<1>3. TypeOK'
  <2>1. call' \in [Calls -> CallRecord]
    BY <1>1, <1>2 DEF TypeOK
  <2>2. \A u \in Calls : ustate'[u] # "none" => call'[u].unit = u
    BY <1>2 DEF TypeOK
  <2>3. pc' \in [Calls -> {"unused", "begin"} \cup Phases \cup Results]
    BY <1>2 DEF TypeOK, Phases
  <2>4. cur' \in [Workers -> MaybeCall]
    BY <1>2 DEF TypeOK, MaybeCall
  <2> QED
    BY <1>2, <2>1, <2>2, <2>3, <2>4 DEF TypeOK
<1>4. PhaseInv'
  <2>1. R.kind = k
    BY DEF R, Started
  <2> QED
    BY <1>1, <1>2, <2>1 DEF PhaseInv, TypeOK, Owns, Open
<1>5. StagedInv'
  BY <1>2 DEF StagedInv, TypeOK, NotStaged
<1>6. HookInv'
  BY <1>2 DEF HookInv, TypeOK, Range, Fired, IsInjective, NotRegistered, NotStaged
<1> QED
  BY <1>3, <1>4, <1>5, <1>6
\* What Return does to pc and cur: the call ends, and an error may make a
\* caller that is running something fail.
LEMMA ReturnEffect ==
  ASSUME TypeOK, NEW w \in Workers, NEW c \in Calls, NEW res \in {"ok", "err"},
         pc[c] \notin {"before", "after", "body"} \/ res = "ok",
         Return(w, c, res)
  PROVE  /\ cur' \in [Workers -> MaybeCall]
         /\ pc' \in [Calls -> {"unused", "begin"} \cup Phases \cup Results]
         /\ pc'[c] = res
         /\ \A d \in Calls \ {c} :
              \/ pc'[d] = pc[d]
              \/ pc[d] \in {"before", "after", "body"} /\ pc'[d] = "fail"
<1> DEFINE p == call[c].parent
<1>1. p \in MaybeCall
  BY DEF TypeOK, CallRecord
<1>2. \/ pc' = [pc EXCEPT ![c] = res]
      \/ /\ p \in Calls /\ p # c /\ pc[p] \in {"before", "after", "body"}
         /\ pc' = [pc EXCEPT ![c] = res, ![p] = "fail"]
  BY <1>1, CallsAssumption DEF Return, MaybeCall
<1>3. cur' \in [Workers -> MaybeCall]
  BY <1>1 DEF Return, TypeOK
<1>4. CASE pc' = [pc EXCEPT ![c] = res]
  BY <1>3, <1>4 DEF TypeOK, Phases, Results
<1>5. CASE /\ p \in Calls /\ p # c /\ pc[p] \in {"before", "after", "body"}
           /\ pc' = [pc EXCEPT ![c] = res, ![p] = "fail"]
  <2>1. pc' \in [Calls -> {"unused", "begin"} \cup Phases \cup Results]
    BY <1>5 DEF TypeOK, Phases, Results
  <2>2. pc'[c] = res
    BY <1>5 DEF TypeOK
  <2>3. \A d \in Calls \ {c} :
          \/ pc'[d] = pc[d]
          \/ pc[d] \in {"before", "after", "body"} /\ pc'[d] = "fail"
    BY <1>5 DEF TypeOK
  <2> QED
    BY <1>3, <2>1, <2>2, <2>3
<1> QED
  BY <1>2, <1>4, <1>5

\* The steps of a running call, grouped by what they change.
LEMMA BeginStep ==
  ASSUME IInv, NEW w \in Workers, Begin(w)
  PROVE  IInv'
<1> DEFINE c == cur[w]
<1> USE CallsAssumption DEF IInv
<1>1. /\ c \in Calls /\ pc[c] = "begin" /\ Owns(c)
      /\ UNCHANGED <<call, staged, after, hook, fired, db, crashes>>
  BY DEF Begin, TypeOK, MaybeCall, PhaseInv
<1>2. CASE /\ ustate' = [ustate EXCEPT ![c] = "active"]
           /\ Goto(c, FirstPhase(call[c].kind))
  <2>1. TypeOK'
    BY <1>1, <1>2 DEF TypeOK, Goto, FirstPhase, Phases, Owns
  <2>2. PhaseInv'
    BY <1>1, <1>2 DEF TypeOK, PhaseInv, Goto, FirstPhase, Owns, Open
  <2>3. StagedInv'
    BY <1>1, <1>2 DEF TypeOK, StagedInv, PhaseInv, Goto, FirstPhase, NotStaged
  <2>4. HookInv'
    BY HookFrame, <1>1, <1>2 DEF TypeOK, NotRegistered, NotStaged, Goto, FirstPhase
  <2> QED
    BY <2>1, <2>2, <2>3, <2>4
<1>3. CASE Return(w, c, "err") /\ UNCHANGED ustate
  <2>0. /\ cur' \in [Workers -> MaybeCall]
        /\ pc' \in [Calls -> {"unused", "begin"} \cup Phases \cup Results]
        /\ pc'[c] = "err"
        /\ \A d \in Calls \ {c} :
             \/ pc'[d] = pc[d]
             \/ pc[d] \in {"before", "after", "body"} /\ pc'[d] = "fail"
    BY <1>1, <1>3, ReturnEffect
  <2>1. TypeOK'
    BY <2>0, <1>1, <1>3 DEF TypeOK
  <2>2. PhaseInv'
    BY <2>0, <1>1, <1>3 DEF TypeOK, PhaseInv, Owns, Open
  <2>3. StagedInv'
    BY <2>0, <1>1, <1>3, StagedFrame DEF TypeOK, NotStaged
  <2>4. HookInv'
    BY HookFrame, <2>0, <1>1, <1>3 DEF TypeOK, NotRegistered, NotStaged, Goto, FirstPhase
  <2> QED
    BY <2>1, <2>2, <2>3, <2>4
<1> QED
  BY <1>2, <1>3 DEF Begin

\* Validate, CheckUnique and Fail only move the call to its next phase.
LEMMA MoveStep ==
  ASSUME IInv, NEW w \in Workers,
         Validate(w) \/ CheckUnique(w) \/ Fail(w)
  PROVE  IInv'
<1> DEFINE c == cur[w]
<1> USE CallsAssumption DEF IInv
<1>1. /\ c \in Calls
      /\ \E label \in {"check", "exec", "fail"} :
           /\ pc' = [pc EXCEPT ![c] = label]
           /\ \/ pc[c] \in {"before", "check"}
              \/ pc[c] \in {"after", "body"} /\ label = "fail"
      /\ UNCHANGED <<cur, call, ustate, staged, after, hook, fired, db, crashes>>
  BY DEF Validate, CheckUnique, Fail, Goto, TypeOK, MaybeCall
<1>2. TypeOK'
  BY <1>1 DEF TypeOK, Phases
<1>3. PhaseInv'
  BY <1>1 DEF TypeOK, PhaseInv, Owns, Open
<1>4. StagedInv'
  BY <1>1 DEF TypeOK, StagedInv, NotStaged
<1>5. HookInv'
  BY HookFrame, <1>1 DEF TypeOK, NotRegistered, NotStaged, Goto, FirstPhase
<1> QED
  BY <1>2, <1>3, <1>4, <1>5

LEMMA ExecStep ==
  ASSUME IInv, NEW w \in Workers, Exec(w)
  PROVE  IInv'
<1> DEFINE c == cur[w]
           u == call[c].unit
<1> USE CallsAssumption DEF IInv
<1>1. /\ c \in Calls /\ u \in Calls /\ pc[c] = "exec"
      /\ UNCHANGED <<cur, call, ustate, after, hook, fired, db, crashes>>
  <2>1. c \in Calls /\ pc[c] = "exec"
    BY DEF Exec, TypeOK, MaybeCall
  <2>2. u \in Calls
    BY <2>1 DEF PhaseInv
  <2>3. UNCHANGED <<cur, call, ustate, after, hook, fired, db, crashes>>
    BY DEF Exec, Goto
  <2> QED
    BY <2>1, <2>2, <2>3
<1>2. CASE /\ ustate[u] = "active"
           /\ staged' = [staged EXCEPT ![u] = @ \cup {c}]
           /\ pc' = [pc EXCEPT ![c] = "after"]
  <2>1. TypeOK'
    BY <1>1, <1>2 DEF TypeOK, Phases
  <2>2. PhaseInv'
    BY <1>1, <1>2 DEF TypeOK, PhaseInv, Owns, Open
  <2>3. StagedInv'
    BY <1>1, <1>2 DEF TypeOK, StagedInv, NotStaged
  <2>4. HookInv'
    BY HookFrame, <1>1, <1>2 DEF TypeOK, NotRegistered, NotStaged, Goto, FirstPhase
  <2> QED
    BY <2>1, <2>2, <2>3, <2>4
<1>3. CASE pc' = [pc EXCEPT ![c] = "fail"] /\ UNCHANGED staged
  <2>1. TypeOK'
    BY <1>1, <1>3 DEF TypeOK, Phases
  <2>2. PhaseInv'
    BY <1>1, <1>3 DEF TypeOK, PhaseInv, Owns, Open
  <2>3. StagedInv'
    BY <1>1, <1>3 DEF TypeOK, StagedInv, NotStaged
  <2>4. HookInv'
    BY HookFrame, <1>1, <1>3 DEF TypeOK, NotRegistered, NotStaged, Goto, FirstPhase
  <2> QED
    BY <2>1, <2>2, <2>3, <2>4
<1> QED
  BY <1>2, <1>3 DEF Exec, Goto, ExecRuns

LEMMA CompleteStep ==
  ASSUME IInv, NEW w \in Workers, Complete(w)
  PROVE  IInv'
<1> DEFINE c == cur[w]
           u == call[c].unit
<1> USE CallsAssumption DEF IInv
<1>1. /\ c \in Calls /\ pc[c] \in {"after", "body"}
      /\ UNCHANGED <<call, ustate, staged, hook, fired, db, crashes>>
  BY DEF Complete, TypeOK, MaybeCall
<1>2. /\ cur' \in [Workers -> MaybeCall]
      /\ pc' \in [Calls -> {"unused", "begin"} \cup Phases \cup Results]
      /\ \/ ~Owns(c) /\ pc'[c] = "ok"
         \/ Owns(c) /\ pc'[c] = "commit"
      /\ \A d \in Calls \ {c} :
           \/ pc'[d] = pc[d]
           \/ pc[d] \in {"before", "after", "body"} /\ pc'[d] = "fail"
  <2>1. CASE Owns(c) /\ Goto(c, "commit")
    BY <1>1, <2>1 DEF TypeOK, Goto, Phases
  <2>2. CASE ~Owns(c) /\ Return(w, c, "ok")
    BY <1>1, <2>2, ReturnEffect
  <2> QED
    BY <2>1, <2>2 DEF Complete
<1>3. \/ UNCHANGED after
      \/ /\ pc[c] = "after" /\ u \in Calls
         /\ after' = [after EXCEPT ![u] = Append(@, c)]
  <2>1. CASE Registers(c)
    <3>1. pc[c] = "after"
      BY <1>1, <2>1 DEF PhaseInv, Registers, WriteKinds
    <3> QED
      BY <1>1, <2>1, <3>1 DEF PhaseInv, Complete
  <2>2. CASE ~Registers(c)
    BY <2>2 DEF Complete
  <2> QED
    BY <2>1, <2>2
<1>4. TypeOK'
  <2>1. after' \in [Calls -> Seq(Calls)]
    <3>1. CASE u \in Calls /\ after' = [after EXCEPT ![u] = Append(@, c)]
      <4>1. Append(after[u], c) \in Seq(Calls)
        BY <1>1, <3>1, AppendRange DEF TypeOK
      <4> QED
        BY <3>1, <4>1 DEF TypeOK
    <3> QED
      BY <1>3, <3>1 DEF TypeOK
  <2> QED
    BY <1>1, <1>2, <2>1 DEF TypeOK
<1>5. PhaseInv'
  <2>1. ustate[c] = "active" => Owns(c)
    BY <1>1 DEF TypeOK, Owns
  <2> QED
    BY <1>1, <1>2, <2>1 DEF PhaseInv, Owns, Open
<1>6. StagedInv'
  BY <1>1, <1>2, StagedFrame DEF TypeOK, NotStaged
<1>7. CASE UNCHANGED after
  BY HookFrame, <1>1, <1>2, <1>4, <1>5, <1>6, <1>7
  DEF TypeOK, NotRegistered, NotStaged
<1>8. CASE /\ pc[c] = "after" /\ u \in Calls
           /\ after' = [after EXCEPT ![u] = Append(@, c)]
  <2>1. /\ \A v \in Calls \ {u} : after'[v] = after[v]
        /\ after'[u] = Append(after[u], c)
        /\ after[u] \in Seq(Calls)
    BY <1>8 DEF TypeOK
  <2>2. /\ \A v \in Calls \ {u} : Range(after'[v]) = Range(after[v])
        /\ Range(after'[u]) = Range(after[u]) \cup {c}
    <3>0. after[u] \in Seq(Calls) /\ c \in Calls
      BY <2>1, <1>1
    <3>1. Range(Append(after[u], c)) = Range(after[u]) \cup {c}
      BY <3>0, AppendRange
    <3> QED
      BY <2>1, <3>1
  <2>3. c \notin Fired /\ \A v \in Calls : c \notin Range(after[v])
    BY <1>8 DEF HookInv, NotRegistered
  <2>4. c \in staged[u]
    BY <1>1, <1>8 DEF StagedInv
  <2>5. IsInjective(after'[u])
    <3>1. c \notin Range(after[u]) /\ IsInjective(after[u])
      BY <2>3, <1>8 DEF HookInv
    <3> QED
      BY <2>1, <3>1, <1>1, AppendRange
  <2>6. /\ \A v \in Calls : IsInjective(after'[v])
        /\ IsInjective(fired') /\ Fired' = Fired
    BY <1>1, <2>1, <2>5 DEF HookInv, Fired
  <2>7. /\ \A d \in Calls : pc[d] \notin NotRegistered => pc'[d] \notin NotRegistered
        /\ pc'[c] \notin NotRegistered
    BY <1>1, <1>2 DEF NotRegistered, NotStaged
  <2>8. Fired \subseteq Calls /\ \A v \in Calls : Range(after[v]) \subseteq Calls
    <3>1. fired \in Seq(Calls) /\ \A v \in Calls : after[v] \in Seq(Calls)
      BY DEF TypeOK
    <3> QED
      BY <3>1 DEF Fired, Range
  <2>9. \A v \in Calls : Range(after'[v]) \subseteq staged'[v]
    BY <1>1, <2>2, <2>4 DEF HookInv
  <2>10. \A v \in Calls : \A d \in Range(after'[v]) :
           pc'[d] \notin NotRegistered /\ call'[d].unit = v /\ d \notin Fired'
    <3>1. \A v \in Calls : \A d \in Range(after[v]) :
            pc'[d] \notin NotRegistered /\ call[d].unit = v /\ d \notin Fired
      BY <2>7, <2>8 DEF HookInv
    <3> QED
      BY <1>1, <2>2, <2>3, <2>6, <2>7, <3>1
  <2>11. \A d \in Fired' : d \in db' /\ pc'[d] \notin NotRegistered
    BY <1>1, <2>6, <2>7, <2>8 DEF HookInv
  <2>12. HookInv'
    BY <2>6, <2>9, <2>10, <2>11 DEF HookInv
  <2> QED
    BY <1>4, <1>5, <1>6, <2>12
<1> QED
  BY <1>3, <1>7, <1>8

\* Rollback and a failing Commit: the owner's unit is dropped.
LEMMA DropStep ==
  ASSUME IInv, NEW w \in Workers, Rollback(w) \/ CommitFails(w)
  PROVE  IInv'
<1> DEFINE c == cur[w]
<1> USE CallsAssumption DEF IInv
<1>1. /\ c \in Calls /\ pc[c] \in {"fail", "commit"}
      /\ \/ Owns(c) /\ ustate' = [ustate EXCEPT ![c] = "aborted"]
         \/ ~Owns(c) /\ UNCHANGED ustate
      /\ Return(w, c, "err")
      /\ UNCHANGED <<call, staged, after, hook, fired, db, crashes>>
  <2>1. CASE Rollback(w)
    BY <2>1 DEF Rollback, TypeOK, MaybeCall
  <2>2. CASE CommitFails(w)
    BY <2>2 DEF CommitFails, TypeOK, MaybeCall, PhaseInv
  <2> QED
    BY <2>1, <2>2
<1>2. /\ cur' \in [Workers -> MaybeCall]
      /\ pc' \in [Calls -> {"unused", "begin"} \cup Phases \cup Results]
      /\ pc'[c] = "err"
      /\ \A d \in Calls \ {c} :
           \/ pc'[d] = pc[d]
           \/ pc[d] \in {"before", "after", "body"} /\ pc'[d] = "fail"
  BY <1>1, ReturnEffect
<1>3. TypeOK'
  BY <1>1, <1>2 DEF TypeOK, Owns
<1>4. PhaseInv'
  <2>1. ustate'[c] # "active"
    BY <1>1 DEF TypeOK, Owns
  <2>2. \A d \in Calls \ {c} : ustate'[d] = ustate[d]
    BY <1>1 DEF TypeOK
  <2> QED
    BY <1>1, <1>2, <2>1, <2>2 DEF PhaseInv, Owns, Open
<1>5. StagedInv'
  BY <1>1, <1>2, StagedFrame DEF TypeOK, NotStaged
<1>6. HookInv'
  BY <1>1, <1>2, HookFrame DEF TypeOK, NotRegistered, NotStaged
<1> QED
  BY <1>3, <1>4, <1>5, <1>6

\* A Commit that reaches the server, acknowledged or not.
LEMMA CommitStep ==
  ASSUME IInv, NEW w \in Workers, CommitSucceeds(w) \/ CommitAckLost(w)
  PROVE  IInv'
<1> DEFINE c == cur[w]
<1> USE CallsAssumption DEF IInv
<1>1. /\ c \in Calls /\ pc[c] = "commit" /\ ustate[c] = "active"
      /\ db' = db \cup staged[c]
      /\ ustate' = [ustate EXCEPT ![c] = "committed"]
      /\ UNCHANGED <<call, staged, after, hook, fired, crashes>>
  BY DEF CommitSucceeds, CommitAckLost, TypeOK, MaybeCall
<1>2. /\ cur' \in [Workers -> MaybeCall]
      /\ pc' \in [Calls -> {"unused", "begin"} \cup Phases \cup Results]
      /\ pc'[c] \in {"fire", "err"}
      /\ \A d \in Calls \ {c} :
           \/ pc'[d] = pc[d]
           \/ pc[d] \in {"before", "after", "body"} /\ pc'[d] = "fail"
  <2>1. CASE Goto(c, "fire")
    BY <1>1, <2>1 DEF TypeOK, Goto, Phases
  <2>2. CASE Return(w, c, "err")
    BY <1>1, <2>2, ReturnEffect
  <2> QED
    BY <2>1, <2>2 DEF CommitSucceeds, CommitAckLost
<1>3. TypeOK'
  BY <1>1, <1>2 DEF TypeOK
<1>4. PhaseInv'
  BY <1>1, <1>2 DEF TypeOK, PhaseInv, Owns, Open
<1>5. StagedInv'
  <2>1. \A d \in Calls : pc[d] \notin NotStaged => pc'[d] \notin NotStaged
    BY <1>1, <1>2 DEF NotStaged
  <2>2. staged[c] \subseteq Calls /\ db \subseteq Calls
    BY <1>1 DEF TypeOK
  <2>3. \A d, u \in Calls : d \in staged'[u] => pc'[d] \notin NotStaged
    BY <1>1, <2>1 DEF StagedInv
  <2>4. \A d \in db' : pc'[d] \notin NotStaged
    BY <1>1, <2>1, <2>2 DEF StagedInv
  <2>5. \A d \in Calls : pc'[d] = "after" => d \in staged'[call'[d].unit]
    BY <1>1, <1>2 DEF StagedInv
  <2>6. \A u \in Calls : ustate'[u] = "committed" => staged'[u] \subseteq db'
    BY <1>1 DEF StagedInv, TypeOK
  <2> QED
    BY <2>3, <2>4, <2>5, <2>6 DEF StagedInv
<1>6. HookInv'
  BY <1>1, <1>2, HookFrame DEF TypeOK, NotRegistered, NotStaged
<1> QED
  BY <1>3, <1>4, <1>5, <1>6

\* The first registered hook of a committed unit is run.
LEMMA HookStep ==
  ASSUME IInv, NEW w \in Workers, FireHook(w)
  PROVE  IInv'
<1> DEFINE c == cur[w]
           h == Head(after[c])
<1> USE CallsAssumption DEF IInv
<1>1. /\ c \in Calls /\ pc[c] = "fire" /\ after[c] # << >>
      /\ hook' = [hook EXCEPT ![c] = h]
      /\ fired' = Append(fired, h)
      /\ after' = [after EXCEPT ![c] = Tail(after[c])]
      /\ UNCHANGED <<cur, pc, call, ustate, staged, db, crashes>>
  BY DEF FireHook, TypeOK, MaybeCall
<1>2. after[c] \in Seq(Calls) /\ fired \in Seq(Calls)
  BY <1>1 DEF TypeOK
<1>3. /\ Tail(after[c]) \in Seq(Calls) /\ h \in Calls
      /\ h \in Range(after[c]) /\ Range(Tail(after[c])) \subseteq Range(after[c])
      /\ h \notin Range(Tail(after[c])) /\ IsInjective(Tail(after[c]))
  <2>1. IsInjective(after[c])
    BY <1>1 DEF HookInv
  <2>2. after[c] # << >>
    BY <1>1
  <2> QED
    BY <1>2, <2>1, <2>2, TailRange
<1>4. h \notin Fired /\ h \in db /\ pc[h] \notin NotRegistered
  <2>1. ustate[c] = "committed"
    BY <1>1 DEF PhaseInv
  <2> QED
    BY <1>1, <1>3, <2>1 DEF HookInv, StagedInv
<1>5. /\ fired' \in Seq(Calls) /\ Fired' = Fired \cup {h} /\ IsInjective(fired')
  BY <1>1, <1>2, <1>3, <1>4, AppendRange DEF Fired, HookInv
<1>6. TypeOK'
  BY <1>1, <1>3, <1>5 DEF TypeOK, MaybeCall
<1>7. PhaseInv'
  BY <1>1 DEF PhaseInv, Owns
<1>8. StagedInv'
  BY <1>1 DEF StagedInv
<1>9. HookInv'
  <2>1. /\ after'[c] = Tail(after[c])
        /\ \A u \in Calls \ {c} : after'[u] = after[u]
    BY <1>1 DEF TypeOK
  <2>2. /\ Range(after'[c]) = Range(Tail(after[c]))
        /\ \A u \in Calls \ {c} : Range(after'[u]) = Range(after[u])
    BY <2>1
  <2>3. \A u \in Calls : Range(after'[u]) \subseteq Range(after[u])
    BY <1>3, <2>2
  <2>4. \A u \in Calls : IsInjective(after'[u])
    BY <1>3, <2>1 DEF HookInv
  <2>5. \A u \in Calls : h \notin Range(after'[u])
    <3>1. call[h].unit = c
      BY <1>1, <1>3 DEF HookInv
    <3>2. \A u \in Calls \ {c} : h \notin Range(after[u])
      BY <3>1 DEF HookInv
    <3> QED
      BY <1>3, <2>2, <3>2
  <2>6. \A u \in Calls : Range(after'[u]) \subseteq staged'[u]
    BY <1>1, <2>3 DEF HookInv
  <2>7. \A u \in Calls : \A d \in Range(after'[u]) :
          pc'[d] \notin NotRegistered /\ call'[d].unit = u /\ d \notin Fired'
    BY <1>1, <1>5, <2>3, <2>5 DEF HookInv
  <2>8. \A d \in Fired' : d \in db' /\ pc'[d] \notin NotRegistered
    BY <1>1, <1>4, <1>5 DEF HookInv
  <2> QED
    BY <1>5, <2>4, <2>6, <2>7, <2>8 DEF HookInv
<1> QED
  BY <1>6, <1>7, <1>8, <1>9

LEMMA FinishStep ==
  ASSUME IInv, NEW w \in Workers, Finish(w)
  PROVE  IInv'
<1> DEFINE c == cur[w]
<1> USE CallsAssumption DEF IInv
<1>1. /\ c \in Calls /\ pc[c] = "fire" /\ Return(w, c, "ok")
      /\ UNCHANGED <<call, ustate, staged, after, hook, fired, db, crashes>>
  BY DEF Finish, TypeOK, MaybeCall
<1>2. /\ cur' \in [Workers -> MaybeCall]
      /\ pc' \in [Calls -> {"unused", "begin"} \cup Phases \cup Results]
      /\ pc'[c] = "ok"
      /\ \A d \in Calls \ {c} :
           \/ pc'[d] = pc[d]
           \/ pc[d] \in {"before", "after", "body"} /\ pc'[d] = "fail"
  BY <1>1, ReturnEffect
<1>3. TypeOK'
  BY <1>1, <1>2 DEF TypeOK
<1>4. PhaseInv'
  BY <1>1, <1>2 DEF TypeOK, PhaseInv, Owns, Open
<1>5. StagedInv'
  BY <1>1, <1>2, StagedFrame DEF TypeOK, NotStaged
<1>6. HookInv'
  BY <1>1, <1>2, HookFrame DEF TypeOK, NotRegistered, NotStaged
<1> QED
  BY <1>3, <1>4, <1>5, <1>6

\* The steps that are nobody's own: the driver's and the restart.
LEMMA AbortStep ==
  ASSUME IInv, NEW u \in Calls, DriverAborts(u)
  PROVE  IInv'
<1> USE CallsAssumption DEF IInv
<1>1. /\ ustate[u] = "active" /\ ustate' = [ustate EXCEPT ![u] = "aborted"]
      /\ UNCHANGED <<cur, pc, call, staged, after, hook, fired, db, crashes>>
  BY DEF DriverAborts
<1>2. TypeOK'
  BY <1>1 DEF TypeOK
<1>3. PhaseInv'
  BY <1>1 DEF TypeOK, PhaseInv, Owns, Open
<1>4. StagedInv'
  BY <1>1, StagedFrame DEF TypeOK
<1>5. HookInv'
  BY <1>1, HookFrame DEF TypeOK
<1> QED
  BY <1>2, <1>3, <1>4, <1>5

LEMMA CrashStep ==
  ASSUME IInv, Crash
  PROVE  IInv'
<1> USE CallsAssumption, PoolAssumption DEF IInv
<1>1. /\ crashes < MaxCrashes /\ crashes' = crashes + 1
      /\ cur' = [w \in Workers |-> NoCall]
      /\ pc' = [c \in Calls |-> IF pc[c] \in Phases \cup {"begin"}
                                THEN "gone" ELSE pc[c]]
      /\ ustate' = [u \in Calls |-> IF ustate[u] = "active"
                                    THEN "aborted" ELSE ustate[u]]
      /\ UNCHANGED <<call, staged, after, hook, fired, db>>
  BY DEF Crash
<1>2. TypeOK'
  BY <1>1 DEF TypeOK, MaybeCall, Results
<1>3. PhaseInv'
  BY <1>1 DEF TypeOK, PhaseInv, Owns, Open, Phases
<1>4. StagedInv'
  BY <1>1, StagedFrame DEF TypeOK, NotStaged, Phases
<1>5. HookInv'
  BY <1>1, HookFrame DEF TypeOK, NotRegistered, NotStaged, Phases
<1> QED
  BY <1>2, <1>3, <1>4, <1>5

LEMMA StutterStep ==
  ASSUME IInv, UNCHANGED vars
  PROVE  IInv'
<1> USE DEF IInv, vars
<1>1. TypeOK'
  BY DEF TypeOK
<1>2. PhaseInv'
  BY DEF PhaseInv, Owns
<1>3. StagedInv'
  BY DEF StagedInv
<1>4. HookInv'
  BY HookFrame
<1> QED
  BY <1>1, <1>2, <1>3, <1>4

\* Every way in which a call is started is a StartCall with arguments of
\* the right sort.
LEMMA AnyStart ==
  ASSUME IInv, NEW w \in Workers,
         \/ Request(w) \/ NestedCall(w) \/ CreateNext(w)
         \/ CallInTransaction(w) \/ CallFromHook(w)
  PROVE  IInv'
<1> DEFINE p == cur[w]
<1> USE DEF IInv
<1>1. ASSUME p \in Calls
      PROVE  /\ call[p].root \in MaybeCall /\ call[p].ctx \in MaybeCall
             /\ call[p].bound \in MaybeCall /\ call[p].unit \in MaybeCall
             /\ call[p].post \in BOOLEAN
  BY <1>1 DEF TypeOK, CallRecord
<1>2. \A c \in Calls : c \in MaybeCall
  BY DEF MaybeCall
<1>3. NoCall \in MaybeCall /\ (p # NoCall => p \in Calls)
  BY DEF MaybeCall, TypeOK
<1>4. CASE Request(w)
  <2>1. PICK c \in Calls, k \in Kinds :
          StartCall(w, c, k, NoCall, c, NoCall, NoCall, FALSE)
    BY <1>4 DEF Request
  <2>2. c \in MaybeCall /\ k \in Kinds \cup {"save"} /\ FALSE \in BOOLEAN
    BY <1>2
  <2> QED
    BY <2>1, <2>2, <1>3, StartStep
<1>5. CASE NestedCall(w)
  <2>1. PICK c \in Calls, k \in Kinds \ {"txRepo"} :
          StartCall(w, c, k, p, call[p].root, call[p].ctx, NoCall, call[p].post)
    BY <1>5 DEF NestedCall
  <2>2. p \in Calls /\ p \in MaybeCall /\ k \in Kinds \cup {"save"}
    BY <1>2, <1>3, <1>5 DEF NestedCall
  <2> QED
    BY <2>1, <2>2, <1>1, <1>3, StartStep
<1>6. CASE CreateNext(w)
  <2>1. p \in Calls /\ p \in MaybeCall /\ "save" \in Kinds \cup {"save"}
    BY <1>2, <1>3, <1>6 DEF CreateNext
  <2>2. PICK c \in Calls :
          StartCall(w, c, "save", p,
                    IF call[p].parent = NoCall THEN c ELSE call[p].root,
                    call[p].ctx, call[p].bound, call[p].post)
    BY <1>6 DEF CreateNext
  <2>3. CASE call[p].parent = NoCall
    <3>1. StartCall(w, c, "save", p, c, call[p].ctx, call[p].bound, call[p].post)
      BY <2>2, <2>3
    <3>2. c \in MaybeCall
      BY <1>2
    <3>3. call[p].ctx \in MaybeCall /\ call[p].bound \in MaybeCall
          /\ call[p].post \in BOOLEAN
      BY <1>1, <2>1
    <3> QED
      BY <2>1, <3>1, <3>2, <3>3, StartStep
  <2>4. CASE call[p].parent # NoCall
    <3>1. StartCall(w, c, "save", p, call[p].root,
                    call[p].ctx, call[p].bound, call[p].post)
      BY <2>2, <2>4
    <3> QED
      BY <2>1, <3>1, <1>1, StartStep
  <2> QED
    BY <2>3, <2>4
<1>7. CASE CallInTransaction(w)
  <2> DEFINE b == IF call[p].kind = "txRepo" THEN call[p].unit ELSE NoCall
  <2>1. PICK c \in Calls, k \in Kinds :
          StartCall(w, c, k, p, call[p].root, call[p].ctx, b, call[p].post)
    BY <1>7 DEF CallInTransaction
  <2>2. p \in Calls /\ p \in MaybeCall /\ k \in Kinds \cup {"save"}
    BY <1>2, <1>3, <1>7 DEF CallInTransaction
  <2>3. b \in MaybeCall
    BY <1>1, <1>3, <2>2
  <2> HIDE DEF b
  <2> QED
    BY <2>1, <2>2, <2>3, <1>1, StartStep
<1>8. CASE CallFromHook(w)
  <2> DEFINE x == call[hook[p]].ctx
  <2>1. PICK c \in Calls, k \in Kinds \ {"txRepo"} :
          StartCall(w, c, k, p, c, x, NoCall, TRUE)
    BY <1>8 DEF CallFromHook
  <2>2. p \in Calls /\ p \in MaybeCall /\ c \in MaybeCall
        /\ k \in Kinds \cup {"save"} /\ TRUE \in BOOLEAN
    BY <1>2, <1>3, <1>8 DEF CallFromHook
  <2>3. x \in MaybeCall
    <3>1. hook[p] \in Calls
      <4>1. hook[p] # NoCall
        BY <1>8 DEF CallFromHook
      <4> QED
        BY <4>1, <2>2 DEF TypeOK, MaybeCall
    <3> QED
      BY <3>1 DEF TypeOK, CallRecord
  <2> HIDE DEF x
  <2> QED
    BY <2>1, <2>2, <2>3, <1>3, StartStep
<1> QED
  BY <1>4, <1>5, <1>6, <1>7, <1>8

LEMMA NextIInv == IInv /\ [Next]_vars => IInv'
<1> SUFFICES ASSUME IInv, [Next]_vars PROVE IInv'
  OBVIOUS
<1>1. ASSUME NEW w \in Workers,
             \/ Request(w) \/ NestedCall(w) \/ CreateNext(w)
             \/ CallInTransaction(w) \/ CallFromHook(w)
      PROVE  IInv'
  BY <1>1, AnyStart
<1>2. ASSUME NEW w \in Workers, Proceed(w)
      PROVE  IInv'
  BY <1>2, BeginStep, MoveStep, ExecStep, CompleteStep, DropStep, CommitStep,
     HookStep, FinishStep DEF Proceed
<1>3. ASSUME NEW u \in Calls, DriverAborts(u)
      PROVE  IInv'
  BY <1>3, AbortStep
<1>4. CASE Crash
  BY <1>4, CrashStep
<1>5. CASE UNCHANGED vars
  BY <1>5, StutterStep
<1> QED
  BY <1>1, <1>2, <1>3, <1>4, <1>5 DEF Next

THEOREM Inductive == Spec => []IInv
BY InitIInv, NextIInv, PTL DEF Spec

-----------------------------------------------------------------------------
\* Every variable of the write path keeps its type, and a transaction is
\* open only for the call whose statements it takes.
THEOREM TypeCorrect == Spec => []TypeOK
<1>1. IInv => TypeOK
  BY DEF IInv
<1> QED
  BY Inductive, <1>1, PTL

\* After-commit hooks run for durable writes only, and once for each.
THEOREM HooksAreDurable == Spec => []HookAfterDurable
<1>1. IInv => HookAfterDurable
  BY DEF IInv, HookInv, HookAfterDurable
<1> QED
  BY Inductive, <1>1, PTL

\* No path leaves a transaction, and its connection, behind.
THEOREM NothingLeaks == Spec => []NoLeakedTransaction
<1>1. IInv => NoLeakedTransaction
  BY DEF IInv, TypeOK, PhaseInv, NoLeakedTransaction, InUse, Live, Owns, Open, Phases
<1> QED
  BY Inductive, <1>1, PTL

-----------------------------------------------------------------------------
(***************************************************************************)
(* The write path implements AtomicUnits.  A unit's statements are the     *)
(* abstract staged set while its transaction is active; each step of the   *)
(* write path is the abstract step named here or changes nothing of it.    *)
(***************************************************************************)
LEMMA InitPromise == Init => Promise!Init
BY DEF Init, Promise!Init, OpenStaged, Fired, Range

LEMMA ExecPromise ==
  ASSUME IInv, NEW w \in Workers, Exec(w)
  PROVE  [Promise!Next]_(Promise!vars)
<1> DEFINE c == cur[w]
           u == call[c].unit
<1> USE CallsAssumption DEF IInv
<1>1. c \in Calls /\ pc[c] = "exec" /\ UNCHANGED <<ustate, fired, db>>
  BY DEF Exec, Goto, TypeOK, MaybeCall
<1>2. u \in Calls
  BY <1>1 DEF PhaseInv
<1>3. CASE ustate[u] = "active" /\ staged' = [staged EXCEPT ![u] = @ \cup {c}]
  <2>1. c \notin db /\ \A v \in Calls : c \notin staged[v]
    BY <1>1 DEF StagedInv, NotStaged
  <2>2. \A v \in Calls : c \notin OpenStaged[v]
    BY <2>1 DEF OpenStaged
  <2>3. OpenStaged' = [OpenStaged EXCEPT ![u] = @ \cup {c}]
    BY <1>1, <1>2, <1>3 DEF OpenStaged, TypeOK
  <2>4. Promise!Stage(u, c)
    BY <1>1, <2>1, <2>2, <2>3 DEF Promise!Stage, Fired
  <2> QED
    BY <1>1, <1>2, <2>4 DEF Promise!Next
<1>4. CASE UNCHANGED staged
  BY <1>1, <1>4 DEF Promise!vars, OpenStaged, Fired
<1> QED
  BY <1>3, <1>4 DEF Exec, ExecRuns

LEMMA CommitPromise ==
  ASSUME IInv, NEW w \in Workers, CommitSucceeds(w) \/ CommitAckLost(w)
  PROVE  Promise!Next
<1> DEFINE c == cur[w]
<1> USE CallsAssumption DEF IInv
<1>1. /\ c \in Calls /\ ustate[c] = "active"
      /\ db' = db \cup staged[c]
      /\ ustate' = [ustate EXCEPT ![c] = "committed"]
      /\ UNCHANGED <<staged, fired>>
  BY DEF CommitSucceeds, CommitAckLost, TypeOK, MaybeCall
<1>2. /\ OpenStaged[c] = staged[c]
      /\ OpenStaged' = [OpenStaged EXCEPT ![c] = {}]
  BY <1>1 DEF OpenStaged, TypeOK
<1>3. Promise!Commit(c)
  BY <1>1, <1>2 DEF Promise!Commit, Fired
<1> QED
  BY <1>1, <1>3 DEF Promise!Next

\* Rollback, a failing Commit and the driver's abort drop a unit.
LEMMA DropPromise ==
  ASSUME IInv, NEW u \in Calls, ustate' = [ustate EXCEPT ![u] = "aborted"],
         UNCHANGED <<staged, fired, db>>
  PROVE  Promise!Next
<1>1. OpenStaged' = [OpenStaged EXCEPT ![u] = {}]
  BY DEF IInv, OpenStaged, TypeOK
<1>2. Promise!Abort(u)
  BY <1>1 DEF Promise!Abort, Fired
<1> QED
  BY <1>2 DEF Promise!Next

LEMMA HookPromise ==
  ASSUME IInv, NEW w \in Workers, FireHook(w)
  PROVE  Promise!Next
<1> DEFINE c == cur[w]
           h == Head(after[c])
<1> USE CallsAssumption DEF IInv
<1>1. /\ c \in Calls /\ pc[c] = "fire" /\ after[c] # << >>
      /\ fired' = Append(fired, h)
      /\ UNCHANGED <<ustate, staged, db>>
  BY DEF FireHook, TypeOK, MaybeCall
<1>2. after[c] \in Seq(Calls) /\ fired \in Seq(Calls)
  BY <1>1 DEF TypeOK
<1>3. h \in Calls /\ h \in Range(after[c])
  <2>1. after[c] # << >>
    BY <1>1
  <2> QED
    BY <1>2, <2>1, TailRange
<1>4. h \in db \ Fired
  <2>1. ustate[c] = "committed"
    BY <1>1 DEF PhaseInv
  <2> QED
    BY <1>1, <1>3, <2>1 DEF HookInv, StagedInv
<1>5. Fired' = Fired \cup {h}
  BY <1>1, <1>2, <1>3, AppendRange DEF Fired
<1>6. Promise!Notify(h)
  BY <1>1, <1>4, <1>5 DEF Promise!Notify, OpenStaged
<1> QED
  BY <1>3, <1>6 DEF Promise!Next

LEMMA CrashPromise ==
  ASSUME Crash
  PROVE  Promise!Next
<1>1. OpenStaged' = [u \in Calls |-> {}]
  BY DEF Crash, OpenStaged
<1>2. Promise!Crash
  BY <1>1 DEF Promise!Crash, Crash, Fired
<1> QED
  BY <1>2 DEF Promise!Next

\* Begin opens an empty unit.
LEMMA BeginPromise ==
  ASSUME IInv, NEW w \in Workers, Begin(w)
  PROVE  UNCHANGED Promise!vars
<1> DEFINE c == cur[w]
<1>1. /\ c \in Calls /\ pc[c] = "begin" /\ UNCHANGED <<staged, fired, db>>
      /\ ustate' \in {ustate, [ustate EXCEPT ![c] = "active"]}
  BY DEF Begin, IInv, TypeOK, MaybeCall
<1>2. staged[c] = {}
  BY <1>1 DEF IInv, PhaseInv
<1>3. UNCHANGED OpenStaged
  BY <1>1, <1>2 DEF OpenStaged, IInv, TypeOK
<1> QED
  BY <1>1, <1>3 DEF Promise!vars, Fired

LEMMA NextPromise == IInv /\ [Next]_vars => [Promise!Next]_(Promise!vars)
<1> SUFFICES ASSUME IInv, [Next]_vars PROVE [Promise!Next]_(Promise!vars)
  OBVIOUS
<1>0. ASSUME UNCHANGED <<ustate, staged, fired, db>>
      PROVE  UNCHANGED Promise!vars
  BY <1>0 DEF Promise!vars, OpenStaged, Fired
<1>1. ASSUME NEW w \in Workers,
             \/ Request(w) \/ NestedCall(w) \/ CreateNext(w)
             \/ CallInTransaction(w) \/ CallFromHook(w)
      PROVE  UNCHANGED <<ustate, staged, fired, db>>
  BY <1>1 DEF Request, NestedCall, CreateNext, CallInTransaction, CallFromHook,
              StartCall
<1>2. ASSUME NEW w \in Workers,
             \/ Validate(w) \/ CheckUnique(w) \/ Fail(w) \/ Complete(w)
             \/ Finish(w)
      PROVE  UNCHANGED <<ustate, staged, fired, db>>
  BY <1>2 DEF Validate, CheckUnique, Fail, Complete, Finish
<1>3. ASSUME NEW w \in Workers, Rollback(w) \/ CommitFails(w)
      PROVE  [Promise!Next]_(Promise!vars)
  <2>1. cur[w] \in Calls
    BY <1>3 DEF Rollback, CommitFails, IInv, TypeOK, MaybeCall
  <2>2. /\ UNCHANGED <<staged, fired, db>>
        /\ ustate' \in {ustate, [ustate EXCEPT ![cur[w]] = "aborted"]}
    BY <1>3 DEF Rollback, CommitFails
  <2> QED
    BY <2>1, <2>2, <1>0, DropPromise
<1>4. ASSUME NEW w \in Workers, Proceed(w)
      PROVE  [Promise!Next]_(Promise!vars)
  BY <1>4, <1>0, <1>2, <1>3, BeginPromise, ExecPromise, CommitPromise,
     HookPromise DEF Proceed
<1>5. ASSUME NEW u \in Calls, DriverAborts(u)
      PROVE  Promise!Next
  BY <1>5, DropPromise DEF DriverAborts
<1>6. CASE UNCHANGED vars
  BY <1>0, <1>6 DEF vars
<1> QED
  BY <1>0, <1>1, <1>4, <1>5, <1>6, CrashPromise DEF Next

\* Whatever the nesting, the errors and the restarts, the write path is one
\* of the behaviours AtomicUnits allows.
THEOREM PromiseKept == Spec => ImplementsPromise
BY Inductive, InitPromise, NextPromise, PTL DEF Spec, ImplementsPromise, Promise!Spec

-----------------------------------------------------------------------------
(***************************************************************************)
(* Which calls a unit, a request and a worker hold, and in what order      *)
(* hooks stand: what the promises about whole requests rest on.            *)
(***************************************************************************)
\* The unit a call and what it calls work in; CreateMany has none of its own.
Home(c) ==
  IF call[c].kind # "many" THEN call[c].unit
  ELSE IF call[c].ctx # NoCall THEN call[c].ctx
  ELSE call[c].bound

\* What a call was started with.
StartInv ==
  \A c \in Calls :
    /\ pc[c] = "unused" => call[c] = Unstarted
    /\ pc[c] # "unused" =>
         /\ call[c].kind # "none" /\ call[c].parent # c
         /\ call[c].parent # NoCall => pc[call[c].parent] # "unused"
         /\ call[c].kind = "many" /\ call[c].parent = NoCall =>
              call[c].ctx = NoCall /\ call[c].bound = NoCall
    /\ call[c].kind \notin {"none", "many"} => call[c].unit \in Calls
    /\ call[c].kind # "many" => call[c].ctx \in {NoCall, call[c].unit}
    /\ ~call[c].post /\ call[c].parent # NoCall => Home(c) \in {NoCall, c, Home(call[c].parent)}

\* Calls are made in the order of their identities.
MadeInOrder == \A c, d \in Calls : pc[c] # "unused" /\ pc[d] = "unused" => c < d

\* Only calls that own it are named as units.
OwnerInv ==
  \A c \in Calls : \A u \in {call[c].ctx, call[c].bound, call[c].unit} \ {NoCall} :
    pc[u] # "unused" /\ Owns(u)

\* Whom a call works for.  What Create, Update or Destroy runs stays in the unit
\* that call began, or in the finished one that the hook it comes from left it.
RootOf(c, r) ==
  /\ r \in Calls /\ pc[r] # "unused" /\ call[r].root = r
  /\ call[r].kind \in WriteKinds =>
       /\ call[c].ctx = call[r].unit
       /\ call[c].unit \in {NoCall, call[r].unit}
       /\ call[r].unit = r \/ ustate[call[r].unit] = "committed"

RootInv == \A c \in Calls : pc[c] # "unused" => RootOf(c, call[c].root)

\* Where the writes and hooks of a unit come from, and what its end leaves.
UnitInv ==
  /\ \A u \in Calls : ustate[u] = "committed" => pc[u] \in {"fire"} \cup Results
  /\ \A u \in Calls : \A c \in staged[u] : call[c].unit = u
  /\ \A c \in db : call[c].unit \in Calls /\ ustate[call[c].unit] = "committed"
  /\ \A u \in Calls : pc[u] = "ok" /\ Owns(u) => ustate[u] = "committed" /\ after[u] = << >>
  /\ \A u \in Calls : hook[u] # NoCall => call[hook[u]].unit = u /\ call[hook[u]].kind = "save"
  /\ \A u \in Calls : \A c \in Range(after[u]) \cup Fired : call[c].kind = "save" /\ ~call[c].post
  /\ \A c \in Calls :
       call[c].kind = "save" /\ ~call[c].post /\ pc[c] \in {"ok", "commit", "fire"} =>
         c \in Range(after[call[c].unit]) \/ c \in Fired

\* A worker's running calls are a stack: the innermost is the latest, and each was
\* called by the one below it, which waits.
Waiting(p, c) == pc[p] \in {"before", "after", "body"} \/ (pc[p] = "fire" /\ call[c].post)

TopRuns(own) ==
  \A w \in Workers : cur[w] # NoCall => Live(cur[w]) /\ own[cur[w]] = w

BelowTop(own) ==
  \A c \in Calls : Live(c) =>
    own[c] \in Workers /\ cur[own[c]] # NoCall /\ c <= cur[own[c]]

CallerWaits(own) ==
  \A c \in Calls : Live(c) /\ call[c].parent # NoCall =>
    LET p == call[c].parent IN Live(p) /\ own[p] = own[c] /\ p < c /\ Waiting(p, c)

UnitRuns(own) ==
  \A c \in Calls : Live(c) /\ ~call[c].post /\ Home(c) \notin {NoCall, c} =>
    Live(Home(c)) /\ own[Home(c)] = own[c] /\ Home(c) < c

OneChain(own) ==
  \A c, d \in Calls :
    Live(c) /\ Live(d) /\ own[c] = own[d] /\ d < c =>
      call[c].parent # NoCall /\ d <= call[c].parent

StackOf(own) ==
  TopRuns(own) /\ BelowTop(own) /\ CallerWaits(own) /\ UnitRuns(own) /\ OneChain(own)

StackInv == \E own \in [Calls -> Workers \cup {NoCall}] : StackOf(own)

\* The hook of a nested call stands before its caller's.
OrderInv ==
  /\ \A u \in Calls : \A i, j \in DOMAIN after[u] :
       call[after[u][j]].parent = after[u][i] => j < i
  /\ \A c, u \in Calls : c \in Range(after[u]) /\ call[c].parent \in Fired => ~Live(u)
  /\ HookInnerFirst

ChainInv == StartInv /\ MadeInOrder /\ OwnerInv /\ RootInv
JInv == IInv /\ ChainInv /\ StackInv /\ UnitInv /\ OrderInv

-----------------------------------------------------------------------------
(***************************************************************************)
(* Requests as stacks of calls.                                            *)
(***************************************************************************)
LEMMA InitJInv == Init => JInv
<1> SUFFICES ASSUME Init PROVE JInv
  OBVIOUS
<1>1. IInv
  BY InitIInv
<1>2. ChainInv
  BY DEF Init, ChainInv, StartInv, MadeInOrder, OwnerInv, RootInv, Unstarted, Home
<1>3. Fired = {} /\ \A u \in Calls : Range(after[u]) = {}
  BY DEF Init, Fired, Range
<1>4. UnitInv
  BY <1>3 DEF Init, UnitInv
<1>5. StackInv
  <2>1. [c \in Calls |-> NoCall] \in [Calls -> Workers \cup {NoCall}]
    OBVIOUS
  <2>2. StackOf([c \in Calls |-> NoCall])
    BY DEF Init, StackOf, TopRuns, BelowTop, CallerWaits, UnitRuns, OneChain, Live, Phases
  <2> QED
    BY <2>1, <2>2 DEF StackInv
<1>6. OrderInv
  BY <1>3 DEF Init, OrderInv, HookInnerFirst
<1> QED
  BY <1>1, <1>2, <1>4, <1>5, <1>6 DEF JInv

\* What a step of a running call does to the calls: the innermost moves on, or ends
\* and perhaps makes its caller fail.
Stays(w) ==
  LET c == cur[w] IN
  cur' = cur /\ \E label \in Phases : pc' = [pc EXCEPT ![c] = label]

Ends(w) ==
  LET c == cur[w]
      p == call[c].parent IN
  /\ cur' = [cur EXCEPT ![w] = p]
  /\ pc'[c] \in {"ok", "err"}
  /\ \A d \in Calls \ {c} :
       \/ pc'[d] = pc[d]
       \/ d = p /\ pc[d] \in {"before", "after", "body"} /\ pc'[d] = "fail"

LEMMA ReturnEnds ==
  ASSUME TypeOK, NEW w \in Workers, cur[w] \in Calls, NEW res \in {"ok", "err"},
         pc[cur[w]] \notin {"before", "after", "body"} \/ res = "ok",
         Return(w, cur[w], res)
  PROVE  Ends(w)
<1> DEFINE c == cur[w]
           p == call[c].parent
<1>1. p \in MaybeCall /\ NoCall \notin Calls
  BY CallsAssumption DEF TypeOK, CallRecord
<1>2. \/ pc' = [pc EXCEPT ![c] = res]
      \/ /\ p \in Calls /\ p # c /\ pc[p] \in {"before", "after", "body"}
         /\ pc' = [pc EXCEPT ![c] = res, ![p] = "fail"]
  BY <1>1 DEF Return, MaybeCall
<1>3. cur' = [cur EXCEPT ![w] = p]
  BY DEF Return
<1>4. CASE pc' = [pc EXCEPT ![c] = res]
  BY <1>3, <1>4 DEF TypeOK, Ends
<1>5. CASE /\ p \in Calls /\ p # c /\ pc[p] \in {"before", "after", "body"}
           /\ pc' = [pc EXCEPT ![c] = res, ![p] = "fail"]
  BY <1>3, <1>5 DEF TypeOK, Ends
<1> QED
  BY <1>2, <1>4, <1>5

LEMMA ProceedShape ==
  ASSUME IInv, NEW w \in Workers, Proceed(w)
  PROVE  /\ cur[w] \in Calls /\ Live(cur[w]) /\ UNCHANGED <<call, crashes>>
         /\ Stays(w) \/ Ends(w)
<1> DEFINE c == cur[w]
<1> USE DEF IInv
<1>1. ASSUME c # NoCall PROVE c \in Calls
  BY <1>1 DEF TypeOK, MaybeCall
<1>2. CASE Begin(w)
  <2>1. c \in Calls /\ pc[c] = "begin" /\ UNCHANGED <<call, crashes>>
    BY <1>1, <1>2 DEF Begin
  <2>2. Goto(c, FirstPhase(call[c].kind)) \/ Return(w, c, "err")
    BY <1>2 DEF Begin
  <2>3. Goto(c, FirstPhase(call[c].kind)) => Stays(w)
    BY DEF Goto, FirstPhase, Stays, Phases
  <2>4. Return(w, c, "err") => Ends(w)
    BY <2>1, ReturnEnds
  <2> QED
    BY <2>1, <2>2, <2>3, <2>4 DEF Live
<1>3. CASE Validate(w) \/ CheckUnique(w) \/ Fail(w)
  BY <1>1, <1>3 DEF Validate, CheckUnique, Fail, Goto, Stays, Live, Phases
<1>4. CASE Exec(w)
  BY <1>1, <1>4 DEF Exec, Goto, Stays, Live, Phases
<1>5. CASE Complete(w)
  <2>1. c \in Calls /\ pc[c] \in {"after", "body"} /\ UNCHANGED <<call, crashes>>
    BY <1>1, <1>5 DEF Complete
  <2>2. Goto(c, "commit") \/ Return(w, c, "ok")
    BY <1>5 DEF Complete
  <2>3. Return(w, c, "ok") => Ends(w)
    BY <2>1, ReturnEnds
  <2> QED
    BY <2>1, <2>2, <2>3 DEF Goto, Stays, Live, Phases
<1>6. CASE Rollback(w) \/ CommitFails(w)
  <2>1. c \in Calls /\ pc[c] \in {"fail", "commit"} /\ UNCHANGED <<call, crashes>>
        /\ Return(w, c, "err")
    BY <1>1, <1>6 DEF Rollback, CommitFails
  <2>2. Ends(w)
    BY <2>1, ReturnEnds
  <2> QED
    BY <2>1, <2>2 DEF Live, Phases
<1>7. CASE CommitSucceeds(w)
  BY <1>1, <1>7 DEF CommitSucceeds, Goto, Stays, Live, Phases
<1>8. CASE CommitAckLost(w)
  <2>1. c \in Calls /\ pc[c] = "commit" /\ UNCHANGED <<call, crashes>> /\ Return(w, c, "err")
    BY <1>1, <1>8 DEF CommitAckLost
  <2>2. Ends(w)
    BY <2>1, ReturnEnds
  <2> QED
    BY <2>1, <2>2 DEF Live, Phases
<1>9. CASE FireHook(w)
  <2>1. c \in Calls /\ pc[c] = "fire" /\ UNCHANGED <<cur, pc, call, crashes>>
    BY <1>1, <1>9 DEF FireHook
  <2>2. pc' = [pc EXCEPT ![c] = "fire"]
    BY <2>1 DEF TypeOK
  <2> QED
    BY <2>1, <2>2 DEF Stays, Live, Phases
<1>10. CASE Finish(w)
  <2>1. c \in Calls /\ pc[c] = "fire" /\ UNCHANGED <<call, crashes>> /\ Return(w, c, "ok")
    BY <1>1, <1>10 DEF Finish
  <2>2. Ends(w)
    BY <2>1, ReturnEnds
  <2> QED
    BY <2>1, <2>2 DEF Live, Phases
<1> QED
  BY <1>2, <1>3, <1>4, <1>5, <1>6, <1>7, <1>8, <1>9, <1>10 DEF Proceed

\* The stack of a worker keeps its shape: what is left of it is below the call that
\* ended.
LEMMA ProceedStack ==
  ASSUME IInv, StackInv, NEW w \in Workers, Proceed(w)
  PROVE  StackInv'
<1>0. PICK c \in Calls, p \in MaybeCall : c = cur[w] /\ p = call[c].parent
  BY ProceedShape DEF IInv, TypeOK, CallRecord
<1>1. PICK own \in [Calls -> Workers \cup {NoCall}] : StackOf(own)
  BY DEF StackInv
<1>2. /\ c \in Calls /\ Live(c) /\ UNCHANGED call
      /\ Stays(w) \/ Ends(w)
  BY <1>0, ProceedShape
<1>3. TopRuns(own) /\ BelowTop(own) /\ CallerWaits(own) /\ UnitRuns(own) /\ OneChain(own)
  BY <1>1 DEF StackOf
<1>4. /\ Calls \subseteq Nat /\ NoCall \notin Calls
      /\ \A d \in Calls : call[d].parent \in Calls \/ call[d].parent = NoCall
      /\ \A d \in Calls : Home(d) \in Calls \/ Home(d) = NoCall
      /\ \A v \in Workers : cur[v] \in Calls \/ cur[v] = NoCall
  BY CallsAssumption DEF IInv, TypeOK, CallRecord, Home, MaybeCall
<1>5. \A d \in Calls : Home(d)' = Home(d) /\ call'[d] = call[d]
  BY <1>2 DEF Home
<1>6. cur \in [Workers -> MaybeCall] /\ pc \in [Calls -> {"unused", "begin"} \cup Phases \cup Results]
  BY DEF IInv, TypeOK
<1>7. own[c] = w
  BY <1>0, <1>2, <1>3, <1>4 DEF TopRuns
<1>8. CASE Stays(w)
  <2>1. /\ cur' = cur /\ \A d \in Calls : Live(d)' <=> Live(d)
        /\ \A d \in Calls \ {c} : pc'[d] = pc[d]
    BY <1>0, <1>2, <1>6, <1>8 DEF Stays, Live
  <2>2. \A d \in Calls : Live(d) => call[d].parent # c
    <3> SUFFICES ASSUME NEW d \in Calls, Live(d), call[d].parent = c PROVE FALSE
      OBVIOUS
    <3>1. own[d] = w /\ c < d
      BY <1>2, <1>3, <1>4, <1>7 DEF CallerWaits
    <3>2. d <= c
      BY <1>0, <1>3, <3>1 DEF BelowTop
    <3> QED
      BY <1>2, <1>4, <3>1, <3>2
  <2>3. TopRuns(own)'
    BY <1>3, <1>4, <2>1 DEF TopRuns
  <2>4. BelowTop(own)'
    BY <1>3, <2>1 DEF BelowTop
  <2>5. CallerWaits(own)'
    <3> SUFFICES ASSUME NEW d \in Calls, Live(d), call[d].parent # NoCall
                 PROVE  LET q == call[d].parent IN
                        Live(q)' /\ own[q] = own[d] /\ q < d /\ Waiting(q, d)'
      BY <1>5, <2>1 DEF CallerWaits
    <3>1. /\ Live(call[d].parent) /\ own[call[d].parent] = own[d]
          /\ call[d].parent < d /\ Waiting(call[d].parent, d)
      BY <1>3 DEF CallerWaits
    <3>2. call[d].parent \in Calls \ {c}
      BY <1>4, <2>2
    <3> QED
      BY <1>5, <2>1, <3>1, <3>2 DEF Waiting
  <2>6. UnitRuns(own)'
    BY <1>3, <1>4, <1>5, <2>1 DEF UnitRuns
  <2>7. OneChain(own)'
    BY <1>3, <1>5, <2>1 DEF OneChain
  <2> QED
    BY <2>3, <2>4, <2>5, <2>6, <2>7 DEF StackInv, StackOf
<1>9. CASE Ends(w)
  <2>1. cur'[w] = p /\ \A v \in Workers \ {w} : cur'[v] = cur[v]
    BY <1>0, <1>6, <1>9 DEF Ends
  <2>2. ~Live(c)'
    BY <1>0, <1>9 DEF Ends, Live, Phases
  <2>3. \A d \in Calls \ {c} : pc'[d] = pc[d] \/ (d = p /\ pc'[d] = "fail" /\ Live(d))
    BY <1>0, <1>9 DEF Ends, Live, Phases
  <2>4. \A d \in Calls \ {c} : Live(d)' <=> Live(d)
    BY <2>3 DEF Live, Phases
  <2>5. p # NoCall => p \in Calls /\ Live(p) /\ own[p] = w /\ p < c /\ p # c
    BY <1>0, <1>2, <1>3, <1>4, <1>7 DEF CallerWaits
  <2>6. \A d \in Calls \ {c} : Live(d) /\ own[d] = w => d < c /\ p # NoCall /\ d <= p
    <3> SUFFICES ASSUME NEW d \in Calls \ {c}, Live(d), own[d] = w
                 PROVE  d < c /\ p # NoCall /\ d <= p
      OBVIOUS
    <3>1. d <= c
      BY <1>0, <1>3 DEF BelowTop
    <3>2. d < c
      BY <1>2, <1>4, <3>1
    <3> QED
      BY <1>0, <1>2, <1>3, <1>7, <3>2 DEF OneChain
  <2>7. \A d \in Calls \ {c} : Live(d) /\ call[d].parent # NoCall => call[d].parent \notin {c, p}
    <3> SUFFICES ASSUME NEW d \in Calls \ {c}, Live(d), call[d].parent # NoCall,
                        call[d].parent \in {c, p}
                 PROVE  FALSE
      OBVIOUS
    <3>1. own[call[d].parent] = own[d] /\ call[d].parent < d
      BY <1>3 DEF CallerWaits
    <3>2. own[d] = w
      BY <1>7, <2>5, <3>1
    <3>3. d < c /\ d <= p /\ p \in Calls
      BY <1>4, <2>5, <2>6, <3>2
    <3> QED
      BY <1>2, <1>4, <3>1, <3>3
  <2>8. \A d \in Calls \ {c} : Live(d) /\ ~call[d].post => Home(d) # c
    <3> SUFFICES ASSUME NEW d \in Calls \ {c}, Live(d), ~call[d].post, Home(d) = c
                 PROVE  FALSE
      OBVIOUS
    <3>1. own[d] = w /\ c < d
      BY <1>2, <1>3, <1>4, <1>7 DEF UnitRuns
    <3>2. d < c
      BY <2>6, <3>1
    <3> QED
      BY <1>2, <1>4, <3>1, <3>2
  <2>9. TopRuns(own)'
    <3> SUFFICES ASSUME NEW v \in Workers, NEW d, d = cur'[v], d # NoCall
                 PROVE  Live(d)' /\ own[d] = v
      BY DEF TopRuns, Live
    <3>1. CASE v = w
      BY <2>1, <2>4, <2>5, <3>1
    <3>2. CASE v # w
      <4>1. d \in Calls /\ Live(d) /\ own[d] = v
        BY <1>3, <1>4, <2>1, <3>2 DEF TopRuns
      <4> QED
        BY <1>7, <2>4, <3>2, <4>1
    <3> QED
      BY <3>1, <3>2
  <2>10. BelowTop(own)'
    <3> SUFFICES ASSUME NEW d \in Calls \ {c}, Live(d)
                 PROVE  own[d] \in Workers /\ cur'[own[d]] # NoCall /\ d <= cur'[own[d]]
      BY <2>2, <2>4 DEF BelowTop
    <3>1. own[d] \in Workers /\ cur[own[d]] # NoCall /\ d <= cur[own[d]]
      BY <1>3 DEF BelowTop
    <3>2. CASE own[d] = w
      BY <2>1, <2>6, <3>1, <3>2
    <3>3. CASE own[d] # w
      BY <2>1, <3>1, <3>3
    <3> QED
      BY <3>2, <3>3
  <2>11. CallerWaits(own)'
    <3> SUFFICES ASSUME NEW d \in Calls \ {c}, Live(d), call[d].parent # NoCall
                 PROVE  LET q == call[d].parent IN
                        Live(q)' /\ own[q] = own[d] /\ q < d /\ Waiting(q, d)'
      BY <1>5, <2>2, <2>4 DEF CallerWaits
    <3>1. /\ Live(call[d].parent) /\ own[call[d].parent] = own[d]
          /\ call[d].parent < d /\ Waiting(call[d].parent, d)
      BY <1>3 DEF CallerWaits
    <3>2. call[d].parent \in Calls \ {c, p}
      BY <1>4, <2>7
    <3>3. pc'[call[d].parent] = pc[call[d].parent]
      BY <2>3, <3>2
    <3> QED
      BY <1>5, <2>4, <3>1, <3>2, <3>3 DEF Waiting
  <2>12. UnitRuns(own)'
    <3> SUFFICES ASSUME NEW d \in Calls \ {c}, Live(d), ~call[d].post, Home(d) \notin {NoCall, d}
                 PROVE  Live(Home(d))' /\ own[Home(d)] = own[d] /\ Home(d) < d
      BY <1>5, <2>2, <2>4 DEF UnitRuns
    <3>1. Live(Home(d)) /\ own[Home(d)] = own[d] /\ Home(d) < d
      BY <1>3 DEF UnitRuns
    <3>2. Home(d) \in Calls \ {c}
      BY <1>4, <2>8
    <3> QED
      BY <1>5, <2>4, <3>1, <3>2 DEF Live
  <2>13. OneChain(own)'
    BY <1>3, <1>5, <2>2, <2>4 DEF OneChain
  <2> QED
    BY <2>9, <2>10, <2>11, <2>12, <2>13 DEF StackInv, StackOf
<1> QED
  BY <1>2, <1>8, <1>9

\* What the code that starts a call hands to it: a context and a repository of the
\* unit its caller works in, or of one that is over.
HandedWell(w, c, k, p, r, x, b, m) ==
  /\ k \in Kinds \cup {"save"} /\ p = cur[w] /\ m \in BOOLEAN
  /\ p = NoCall => x = NoCall /\ b = NoCall
  /\ p # NoCall => p \in Calls /\ (pc[p] \in {"before", "after", "body"} \/ (pc[p] = "fire" /\ m))
  /\ p # NoCall /\ ~m =>
       ~call[p].post /\ x \in {NoCall, Home(p)} /\ (x = NoCall => b \in {NoCall, Home(p)})
  /\ \A u \in {x, b} \ {NoCall} : u \in Calls /\ pc[u] # "unused" /\ Owns(u)
  /\ \/ r = c /\ b = NoCall /\ (x = NoCall \/ ustate[x] = "committed")
     \/ p # NoCall /\ r = call[p].root /\ x = call[p].ctx

\* What a step that starts a call leaves.
LEMMA StartEffect ==
  ASSUME TypeOK, NEW w \in Workers, NEW c \in Calls, NEW k, NEW p, NEW r, NEW x, NEW b, NEW m,
         StartCall(w, c, k, p, r, x, b, m)
  PROVE  /\ pc[c] = "unused" /\ \A d \in Calls : pc[d] = "unused" => c <= d
         /\ pc'[c] \in {"begin", "before", "body"} /\ \A d \in Calls \ {c} : pc'[d] = pc[d]
         /\ cur'[w] = c /\ \A v \in Workers \ {w} : cur'[v] = cur[v]
         /\ call'[c] = Started(c, k, p, r, x, b, m) /\ \A d \in Calls \ {c} : call'[d] = call[d]
         /\ UNCHANGED <<ustate, staged, after, hook, fired, db, crashes>>
BY DEF StartCall, Fresh, TypeOK, FirstPhase

LEMMA StartedFields ==
  ASSUME NEW c, NEW k, NEW p, NEW r, NEW x, NEW b, NEW m
  PROVE  LET R == Started(c, k, p, r, x, b, m)
             U == IF x # NoCall THEN x ELSE IF b # NoCall THEN b ELSE c IN
         /\ R.kind = k /\ R.parent = p /\ R.root = r /\ R.bound = b /\ R.post = m
         /\ R.unit = IF k = "many" THEN NoCall ELSE U
         /\ R.ctx = IF k = "many" \/ k \in Transactions THEN x ELSE IF U = c THEN c ELSE x
BY DEF Started, UnitFor, HandedOn, Transactions

\* The home of the started call is its own, none, or where its caller works.
LEMMA StartHome ==
  ASSUME NEW w \in Workers, NEW c \in Calls, NEW k, NEW p, NEW r, NEW x, NEW b, NEW m,
         HandedWell(w, c, k, p, r, x, b, m), call'[c] = Started(c, k, p, r, x, b, m), ~m
  PROVE  Home(c)' \in {NoCall, c} \/ (p # NoCall /\ Home(c)' = Home(p))
<1>1. call'[c].kind = k /\ call'[c].bound = b
  BY StartedFields
<1>2. call'[c].unit = IF k = "many" THEN NoCall
                      ELSE IF x # NoCall THEN x ELSE IF b # NoCall THEN b ELSE c
  BY StartedFields
<1>3. k = "many" => call'[c].ctx = x
  BY StartedFields
<1>4. p = NoCall => x = NoCall /\ b = NoCall
  BY DEF HandedWell
<1>5. p # NoCall => x \in {NoCall, Home(p)} /\ (x = NoCall => b \in {NoCall, Home(p)})
  BY DEF HandedWell
<1> QED
  BY <1>1, <1>2, <1>3, <1>4, <1>5 DEF Home

LEMMA StartChain ==
  ASSUME IInv, ChainInv, StackInv, NEW w \in Workers, NEW c \in Calls,
         NEW k, NEW p, NEW r, NEW x, NEW b, NEW m,
         HandedWell(w, c, k, p, r, x, b, m), StartCall(w, c, k, p, r, x, b, m)
  PROVE  ChainInv'
<1> DEFINE R == Started(c, k, p, r, x, b, m)
<1>1. /\ pc[c] = "unused" /\ \A d \in Calls : pc[d] = "unused" => c <= d
      /\ pc'[c] \in {"begin", "before", "body"} /\ \A d \in Calls \ {c} : pc'[d] = pc[d]
      /\ call'[c] = R /\ \A d \in Calls \ {c} : call'[d] = call[d]
      /\ ustate' = ustate
  BY StartEffect DEF IInv
<1>2. /\ R.kind = k /\ R.parent = p /\ R.root = r /\ R.bound = b /\ R.post = m
      /\ R.unit = IF k = "many" THEN NoCall
                  ELSE IF x # NoCall THEN x ELSE IF b # NoCall THEN b ELSE c
      /\ R.ctx = IF k = "many" \/ k \in Transactions THEN x
                 ELSE IF x = NoCall /\ b = NoCall THEN c ELSE IF x = c \/ (x = NoCall /\ b = c) THEN c ELSE x
  BY StartedFields
<1>0. ~m => Home(c)' \in {NoCall, c} \/ (p # NoCall /\ Home(c)' = Home(p))
  BY <1>1, StartHome
<1> HIDE DEF R
<1>3. /\ Calls \subseteq Nat /\ NoCall \notin Calls
      /\ \A d \in Calls : call[d].parent \in MaybeCall /\ call[d].root \in MaybeCall
           /\ call[d].ctx \in MaybeCall /\ call[d].bound \in MaybeCall
           /\ call[d].unit \in MaybeCall /\ call[d].post \in BOOLEAN
  BY CallsAssumption DEF IInv, TypeOK, CallRecord
<1>4. p # NoCall => p \in Calls /\ pc[p] # "unused" /\ p # c
  BY <1>1 DEF HandedWell
<1>5. \A u \in {x, b} \ {NoCall} : u \in Calls /\ pc[u] # "unused" /\ Owns(u) /\ u # c
  BY <1>1 DEF HandedWell
<1>6. k \in WriteKinds \cup {"many", "txRepo", "txScript"} /\ k # "none"
  BY KindsAssumption DEF HandedWell, WriteKinds
<1>7. \A d \in Calls \ {c} : Home(d)' = Home(d)
  BY <1>1 DEF Home
<1>8. \A d \in Calls \ {c} : Owns(d) => Owns(d)'
  BY <1>1 DEF Owns
<1>9. StartInv'
  <2>1. pc'[c] # "unused" /\ call'[c].kind # "none" /\ call'[c].parent # c
    BY <1>1, <1>2, <1>3, <1>4, <1>6
  <2>2. call'[c].parent # NoCall => pc'[call'[c].parent] # "unused"
    BY <1>1, <1>2, <1>4
  <2>3. call'[c].kind = "many" /\ call'[c].parent = NoCall =>
          call'[c].ctx = NoCall /\ call'[c].bound = NoCall
    BY <1>1, <1>2 DEF HandedWell
  <2>4. call'[c].kind # "many" => call'[c].unit \in Calls
    BY <1>1, <1>2, <1>5
  <2>5. call'[c].kind # "many" => call'[c].ctx \in {NoCall, call'[c].unit}
    BY <1>1, <1>2, <1>5
  <2>6. ~m /\ p # NoCall => Home(c)' \in {NoCall, c, Home(p)'}
    BY <1>0, <1>4, <1>7
  <2>7. \A d \in Calls \ {c} : call[d].parent # NoCall /\ pc[d] # "unused" =>
          call[d].parent \in Calls \ {c} /\ pc[call[d].parent] # "unused"
    BY <1>1, <1>3 DEF ChainInv, StartInv, MaybeCall
  <2>8. \A d \in Calls \ {c} :
          /\ pc'[d] = "unused" => call'[d] = Unstarted
          /\ pc'[d] # "unused" =>
               /\ call'[d].kind # "none" /\ call'[d].parent # d
               /\ call'[d].parent # NoCall => pc'[call'[d].parent] # "unused"
               /\ call'[d].kind = "many" /\ call'[d].parent = NoCall =>
                    call'[d].ctx = NoCall /\ call'[d].bound = NoCall
          /\ call'[d].kind \notin {"none", "many"} => call'[d].unit \in Calls
          /\ call'[d].kind # "many" => call'[d].ctx \in {NoCall, call'[d].unit}
    BY <1>1, <2>7 DEF ChainInv, StartInv
  <2>9. ASSUME NEW d \in Calls \ {c}, NEW q, q = call[d].parent, ~call[d].post, q # NoCall
        PROVE  Home(d)' \in {NoCall, d, Home(q)'}
    <3>1. pc[d] # "unused"
      BY <2>9 DEF ChainInv, StartInv, Unstarted
    <3>2. q \in Calls \ {c}
      BY <2>7, <2>9, <3>1
    <3>3. Home(d) \in {NoCall, d, Home(q)}
      BY <2>9 DEF ChainInv, StartInv
    <3> QED
      BY <1>7, <3>2, <3>3
  <2>10. ASSUME NEW d \in Calls, ~call'[d].post, call'[d].parent # NoCall
         PROVE  (Home(d) \in {NoCall, d, Home(call[d].parent)})'
    <3>1. CASE d = c
      BY <1>1, <1>2, <2>6, <2>10, <3>1
    <3>2. CASE d # c
      BY <1>1, <2>9, <2>10, <3>2
    <3> QED
      BY <3>1, <3>2
  <2> QED
    BY <2>1, <2>2, <2>3, <2>4, <2>5, <2>8, <2>10 DEF StartInv
<1>10. MadeInOrder'
  <2>1. \A d \in Calls : pc[d] = "unused" /\ d # c => c < d
    BY <1>1, <1>3
  <2> QED
    BY <1>1, <2>1 DEF ChainInv, MadeInOrder
<1>11. OwnerInv'
  <2>1. \A u \in {call'[c].ctx, call'[c].bound, call'[c].unit} \ {NoCall} :
          u = c \/ u \in {x, b} \ {NoCall}
    BY <1>1, <1>2
  <2>0. x # c /\ b # c
    BY <1>3, <1>5
  <2>2. c \in {call'[c].ctx, call'[c].bound, call'[c].unit} => Owns(c)'
    BY <1>1, <1>2, <2>0 DEF Owns
  <2>3. \A u \in {call'[c].ctx, call'[c].bound, call'[c].unit} \ {NoCall} :
          pc'[u] # "unused" /\ Owns(u)'
    BY <1>1, <1>5, <1>8, <2>1, <2>2
  <2>4. \A d \in Calls \ {c} : \A u \in {call[d].ctx, call[d].bound, call[d].unit} \ {NoCall} :
          u \in Calls /\ pc[u] # "unused" /\ Owns(u) /\ u # c
    BY <1>1, <1>3 DEF ChainInv, OwnerInv, MaybeCall
  <2>5. \A d \in Calls \ {c} : \A u \in {call'[d].ctx, call'[d].bound, call'[d].unit} \ {NoCall} :
          pc'[u] # "unused" /\ Owns(u)'
    BY <1>1, <1>8, <2>4
  <2> QED
    BY <2>3, <2>5 DEF OwnerInv
<1>12. RootInv'
  <2>1. ASSUME NEW d \in Calls \ {c}, pc[d] # "unused", NEW q, q = call[d].root
        PROVE  RootOf(d, q)'
    <3>1. RootOf(d, q)
      BY <2>1 DEF ChainInv, RootInv
    <3>2. q \in Calls \ {c}
      BY <1>1, <3>1 DEF RootOf
    <3> QED
      BY <1>1, <3>1, <3>2 DEF RootOf
  <2>4. RootOf(c, r)'
    <3>1. CASE r = c /\ b = NoCall /\ (x = NoCall \/ ustate[x] = "committed")
      <4>1. k \in WriteKinds => k # "many" /\ k \notin Transactions
        BY DEF WriteKinds, Transactions
      <4>2. CASE x = NoCall
        <5>1. k \in WriteKinds => R.ctx = c /\ R.unit = c
          BY <1>2, <3>1, <4>1, <4>2
        <5> QED
          BY <1>1, <1>2, <3>1, <5>1 DEF RootOf
      <4>3. CASE x # NoCall
        <5>1. k \in WriteKinds => R.ctx = x /\ R.unit = x
          BY <1>2, <3>1, <4>1, <4>3
        <5> QED
          BY <1>1, <1>2, <3>1, <4>3, <5>1 DEF RootOf
      <4> QED
        BY <4>2, <4>3
    <3>2. CASE p # NoCall /\ r = call[p].root /\ x = call[p].ctx
      <4>1. RootOf(p, r) /\ r \in Calls \ {c}
        BY <1>1, <1>4, <3>2 DEF ChainInv, RootInv, RootOf
      <4>2. call[r].kind \in WriteKinds => call[r].unit \in Calls
        BY <4>1 DEF ChainInv, StartInv, WriteKinds
      <4>3. call[r].kind \in WriteKinds => x = call[r].unit /\ x # NoCall /\ x # c
        BY <1>3, <1>5, <3>2, <4>1, <4>2 DEF RootOf
      <4>4. call[r].kind \in WriteKinds => call'[c].ctx = x /\ call'[c].unit \in {NoCall, x}
        BY <1>1, <1>2, <4>3
      <4>5. call'[r] = call[r] /\ pc'[r] = pc[r]
        BY <1>1, <4>1
      <4> QED
        BY <1>1, <4>1, <4>3, <4>4, <4>5 DEF RootOf
    <3> QED
      BY <3>1, <3>2 DEF HandedWell
  <2>5. ASSUME NEW d \in Calls, pc'[d] # "unused" PROVE RootOf(d, call[d].root)'
    <3>1. CASE d = c
      BY <1>1, <1>2, <2>4, <3>1
    <3>2. CASE d # c
      BY <1>1, <2>1, <2>5, <3>2
    <3> QED
      BY <3>1, <3>2
  <2> QED
    BY <2>5 DEF RootInv
<1> QED
  BY <1>9, <1>10, <1>11, <1>12 DEF ChainInv

LEMMA StartStack ==
  ASSUME IInv, ChainInv, StackInv, NEW w \in Workers, NEW c \in Calls,
         NEW k, NEW p, NEW r, NEW x, NEW b, NEW m,
         HandedWell(w, c, k, p, r, x, b, m), StartCall(w, c, k, p, r, x, b, m)
  PROVE  StackInv'
<1>1. /\ pc[c] = "unused"
      /\ pc'[c] \in {"begin", "before", "body"} /\ \A d \in Calls \ {c} : pc'[d] = pc[d]
      /\ cur'[w] = c /\ \A v \in Workers \ {w} : cur'[v] = cur[v]
      /\ call'[c] = Started(c, k, p, r, x, b, m) /\ \A d \in Calls \ {c} : call'[d] = call[d]
  BY StartEffect DEF IInv
<1>2. call'[c].parent = p /\ call'[c].post = m
  BY <1>1, StartedFields
<1>3. ~m => Home(c)' \in {NoCall, c} \/ (p # NoCall /\ Home(c)' = Home(p))
  BY <1>1, StartHome
<1>4. PICK own \in [Calls -> Workers \cup {NoCall}] : StackOf(own)
  BY DEF StackInv
<1>5. TopRuns(own) /\ BelowTop(own) /\ CallerWaits(own) /\ UnitRuns(own) /\ OneChain(own)
  BY <1>4 DEF StackOf
<1>6. /\ Calls \subseteq Nat /\ NoCall \notin Calls
      /\ \A d \in Calls : call[d].parent \in Calls \/ call[d].parent = NoCall
      /\ \A d \in Calls : Home(d) \in Calls \/ Home(d) = NoCall
      /\ \A v \in Workers : cur[v] \in Calls \/ cur[v] = NoCall
  BY CallsAssumption DEF IInv, TypeOK, CallRecord, Home, MaybeCall
<1>7. p = cur[w] /\ m \in BOOLEAN
  BY DEF HandedWell
<1>8. ~Live(c) /\ Live(c)' /\ \A d \in Calls \ {c} : Live(d)' <=> Live(d)
  BY <1>1 DEF Live, Phases
<1>9. \A d \in Calls : Live(d) => d < c
  BY <1>1 DEF ChainInv, MadeInOrder, Live, Phases
<1>10. p # NoCall => p \in Calls \ {c} /\ Live(p) /\ own[p] = w
  BY <1>5, <1>6, <1>7, <1>8 DEF TopRuns
<1>11. \A d \in Calls \ {c} : Home(d)' = Home(d)
  BY <1>1 DEF Home
<1> DEFINE now == [own EXCEPT ![c] = w]
<1>12. now \in [Calls -> Workers \cup {NoCall}] /\ now[c] = w
       /\ \A d \in Calls \ {c} : now[d] = own[d]
  OBVIOUS
<1> HIDE DEF now
<1>13. TopRuns(now)'
  <2> SUFFICES ASSUME NEW v \in Workers, NEW d, d = cur'[v], d # NoCall
               PROVE  Live(d)' /\ now[d] = v
    BY DEF TopRuns, Live
  <2>1. CASE v = w
    BY <1>1, <1>8, <1>12, <2>1
  <2>2. CASE v # w
    <3>1. d \in Calls /\ Live(d) /\ own[d] = v
      BY <1>1, <1>5, <1>6, <2>2 DEF TopRuns
    <3> QED
      BY <1>8, <1>12, <3>1
  <2> QED
    BY <2>1, <2>2
<1>14. BelowTop(now)'
  <2> SUFFICES ASSUME NEW d \in Calls, Live(d)'
               PROVE  now[d] \in Workers /\ cur'[now[d]] # NoCall /\ d <= cur'[now[d]]
    BY DEF BelowTop
  <2>1. CASE d = c
    BY <1>1, <1>6, <1>12, <2>1
  <2>2. CASE d # c
    <3>1. Live(d) /\ own[d] \in Workers /\ cur[own[d]] # NoCall /\ d <= cur[own[d]]
      BY <1>5, <1>8, <2>2 DEF BelowTop
    <3>2. CASE own[d] = w
      BY <1>1, <1>6, <1>9, <1>12, <2>2, <3>1, <3>2
    <3>3. CASE own[d] # w
      BY <1>1, <1>12, <2>2, <3>1, <3>3
    <3> QED
      BY <3>2, <3>3
  <2> QED
    BY <2>1, <2>2
<1>15. CallerWaits(now)'
  <2>1. ASSUME p # NoCall
        PROVE  Live(p)' /\ now[p] = now[c] /\ p < c /\ Waiting(p, c)'
    <3>1. Live(p)' /\ now[p] = now[c] /\ p < c
      BY <1>8, <1>9, <1>10, <1>12, <2>1
    <3>2. pc[p] \in {"before", "after", "body"} \/ (pc[p] = "fire" /\ m)
      BY <2>1 DEF HandedWell
    <3> QED
      BY <1>1, <1>2, <1>10, <2>1, <3>1, <3>2 DEF Waiting
  <2>2. ASSUME NEW d \in Calls \ {c}, Live(d), NEW q, q = call[d].parent, q # NoCall
        PROVE  Live(q)' /\ now[q] = now[d] /\ q < d /\ Waiting(q, d)'
    <3>1. Live(q) /\ own[q] = own[d] /\ q < d /\ Waiting(q, d)
      BY <1>5, <2>2 DEF CallerWaits
    <3>2. q \in Calls \ {c}
      BY <1>6, <1>8, <2>2, <3>1
    <3> QED
      BY <1>1, <1>8, <1>12, <3>1, <3>2 DEF Waiting
  <2> QED
    BY <1>1, <1>2, <1>8, <2>1, <2>2 DEF CallerWaits
<1>16. UnitRuns(now)'
  <2>1. ASSUME ~m, NEW h, h = Home(c)', h \notin {NoCall, c}
        PROVE  Live(h)' /\ now[h] = now[c] /\ h < c
    <3>1. p # NoCall /\ h = Home(p) /\ ~call[p].post
      BY <1>3, <2>1 DEF HandedWell
    <3>2. h \in Calls /\ Live(h) /\ own[h] = w
      BY <1>5, <1>6, <1>10, <2>1, <3>1 DEF UnitRuns
    <3> QED
      BY <1>8, <1>9, <1>12, <2>1, <3>2
  <2>2. ASSUME NEW d \in Calls \ {c}, Live(d), ~call[d].post, NEW h, h = Home(d), h \notin {NoCall, d}
        PROVE  Live(h)' /\ now[h] = now[d] /\ h < d
    <3>1. Live(h) /\ own[h] = own[d] /\ h < d
      BY <1>5, <2>2 DEF UnitRuns
    <3>2. h \in Calls \ {c}
      BY <1>6, <1>8, <2>2, <3>1
    <3> QED
      BY <1>8, <1>12, <3>1, <3>2
  <2>3. ASSUME NEW d \in Calls, NEW h, h = Home(d)', Live(d)', ~call'[d].post, h \notin {NoCall, d}
        PROVE  Live(h)' /\ now[h] = now[d] /\ h < d
    <3>1. CASE d = c
      BY <1>2, <2>1, <2>3, <3>1
    <3>2. CASE d # c
      BY <1>1, <1>8, <1>11, <2>2, <2>3, <3>2
    <3> QED
      BY <3>1, <3>2
  <2> QED
    BY <2>3 DEF UnitRuns, Live
<1>17. OneChain(now)'
  <2> SUFFICES ASSUME NEW d \in Calls, NEW e \in Calls, Live(d)', Live(e)', now[d] = now[e], e < d
               PROVE  call'[d].parent # NoCall /\ e <= call'[d].parent
    BY DEF OneChain
  <2>1. CASE d = c
    <3>0. e # c
      BY <1>6, <2>1
    <3>1. e # c /\ Live(e) /\ own[e] = w
      BY <1>8, <1>12, <2>1, <3>0
    <3>2. p # NoCall /\ e <= p
      BY <1>5, <1>7, <3>1 DEF BelowTop
    <3> QED
      BY <1>2, <2>1, <3>2
  <2>2. CASE d # c
    <3>1. Live(d) /\ d < c
      BY <1>8, <1>9, <2>2
    <3>2. e # c
      BY <1>6, <3>1
    <3> QED
      BY <1>1, <1>5, <1>8, <1>12, <2>2, <3>1, <3>2 DEF OneChain
  <2> QED
    BY <2>1, <2>2
<1> QED
  BY <1>12, <1>13, <1>14, <1>15, <1>16, <1>17 DEF StackInv, StackOf

\* The fresh call has no write and no hook yet.
LEMMA StartUnits ==
  ASSUME IInv, ChainInv, UnitInv, OrderInv, NEW w \in Workers, NEW c \in Calls,
         NEW k, NEW p, NEW r, NEW x, NEW b, NEW m,
         HandedWell(w, c, k, p, r, x, b, m), StartCall(w, c, k, p, r, x, b, m)
  PROVE  UnitInv' /\ OrderInv'
<1>1. /\ pc[c] = "unused" /\ call[c] = Unstarted
      /\ pc'[c] \in {"begin", "before", "body"} /\ \A d \in Calls \ {c} : pc'[d] = pc[d]
      /\ \A d \in Calls \ {c} : call'[d] = call[d]
      /\ UNCHANGED <<ustate, staged, after, hook, fired, db, crashes>>
  BY StartEffect DEF IInv, ChainInv, StartInv
<1>2. /\ staged[c] = {}
      /\ \A u \in Calls : staged[u] \subseteq Calls \ {c}
      /\ db \subseteq Calls \ {c}
      /\ \A u \in Calls : Range(after[u]) \subseteq Calls \ {c}
      /\ Fired \subseteq Calls \ {c}
  BY <1>1 DEF IInv, TypeOK, PhaseInv, StagedInv, HookInv, NotStaged, NotRegistered
<1>3. Fired' = Fired /\ \A u \in Calls : Range(after'[u]) = Range(after[u])
  BY <1>1 DEF Fired
<1>4. \A u \in Calls : hook[u] \in (Calls \ {c}) \cup {NoCall}
  <2> SUFFICES ASSUME NEW u \in Calls, hook[u] = c PROVE FALSE
    BY DEF IInv, TypeOK, MaybeCall
  <2>1. call[c].kind = "save"
    BY CallsAssumption DEF UnitInv
  <2> QED
    BY <1>1, <2>1 DEF Unstarted
<1>5. UnitInv'
  <2>1. \A u \in Calls : ustate'[u] = "committed" => pc'[u] \in {"fire"} \cup Results
    BY <1>1 DEF UnitInv, Results
  <2>2. \A u \in Calls : \A d \in staged'[u] : call'[d].unit = u
    BY <1>1, <1>2 DEF UnitInv
  <2>3. \A d \in db' : call'[d].unit \in Calls /\ ustate'[call'[d].unit] = "committed"
    BY <1>1, <1>2 DEF UnitInv
  <2>4. \A u \in Calls : pc'[u] = "ok" /\ Owns(u)' => ustate'[u] = "committed" /\ after'[u] = << >>
    BY <1>1 DEF UnitInv, Owns
  <2>5. \A u \in Calls : hook'[u] # NoCall =>
          call'[hook'[u]].unit = u /\ call'[hook'[u]].kind = "save"
    BY <1>1, <1>4 DEF UnitInv
  <2>6. \A u \in Calls : \A d \in Range(after'[u]) \cup Fired' : call'[d].kind = "save" /\ ~call'[d].post
    BY <1>1, <1>2, <1>3 DEF UnitInv
  <2>7. \A d \in Calls :
          call'[d].kind = "save" /\ ~call'[d].post /\ pc'[d] \in {"ok", "commit", "fire"} =>
            d \in Range(after'[call'[d].unit]) \/ d \in Fired'
    BY <1>1, <1>3 DEF UnitInv
  <2> QED
    BY <2>1, <2>2, <2>3, <2>4, <2>5, <2>6, <2>7 DEF UnitInv
<1>6. OrderInv'
  <2>1. \A u \in Calls : \A i \in DOMAIN after[u] : after[u][i] \in Calls \ {c}
    BY <1>2 DEF Range
  <2>2. \A i \in DOMAIN fired : fired[i] \in Calls \ {c}
    BY <1>2 DEF Range, Fired
  <2>3. \A u \in Calls : \A i, j \in DOMAIN after'[u] :
          call'[after'[u][j]].parent = after'[u][i] => j < i
    BY <1>1, <2>1 DEF OrderInv
  <2>4. \A d, u \in Calls : d \in Range(after'[u]) /\ call'[d].parent \in Fired' => ~Live(u)'
    <3> SUFFICES ASSUME NEW d \in Calls, NEW u \in Calls, d \in Range(after[u]), call'[d].parent \in Fired
                 PROVE  ~Live(u)'
      BY <1>3
    <3>1. d # c /\ u # c
      BY <1>2 DEF IInv, HookInv
    <3> QED
      BY <1>1, <3>1 DEF OrderInv, Live
  <2>5. HookInnerFirst'
    BY <1>1, <2>2 DEF OrderInv, HookInnerFirst
  <2> QED
    BY <2>3, <2>4, <2>5 DEF OrderInv
<1> QED
  BY <1>5, <1>6

LEMMA StartedWell ==
  ASSUME JInv, NEW w \in Workers, NEW c \in Calls,
         NEW k, NEW p, NEW r, NEW x, NEW b, NEW m,
         HandedWell(w, c, k, p, r, x, b, m), StartCall(w, c, k, p, r, x, b, m)
  PROVE  ChainInv' /\ StackInv' /\ UnitInv' /\ OrderInv'
BY StartChain, StartStack, StartUnits DEF JInv

LEMMA AnyStartJ ==
  ASSUME JInv, NEW w \in Workers,
         \/ Request(w) \/ NestedCall(w) \/ CreateNext(w)
         \/ CallInTransaction(w) \/ CallFromHook(w)
  PROVE  ChainInv' /\ StackInv' /\ UnitInv' /\ OrderInv'
<1>0. PICK p \in MaybeCall : p = cur[w]
  BY DEF JInv, IInv, TypeOK
<1>1. /\ NoCall \notin Calls /\ (p # NoCall => p \in Calls)
      /\ \A c \in Calls : call[c].ctx \in MaybeCall /\ call[c].bound \in MaybeCall
           /\ call[c].unit \in MaybeCall /\ call[c].post \in BOOLEAN
      /\ \A c \in Calls : hook[c] \in MaybeCall
  BY CallsAssumption DEF MaybeCall, JInv, IInv, TypeOK, CallRecord
<1>2. p # NoCall => pc[p] # "unused" /\ call[p].kind # "none"
  BY <1>0, <1>1 DEF JInv, StackInv, StackOf, TopRuns, Live, Phases, ChainInv, StartInv
<1>3. ASSUME p # NoCall
      PROVE  \A u \in {call[p].ctx, call[p].bound, call[p].unit} \ {NoCall} :
               u \in Calls /\ pc[u] # "unused" /\ Owns(u)
  BY <1>1, <1>3 DEF JInv, ChainInv, OwnerInv, MaybeCall
<1>4. p # NoCall => call[p].ctx \in {NoCall, Home(p)}
  BY <1>1 DEF JInv, ChainInv, StartInv, Home
<1>5. CASE Request(w)
  <2>1. PICK c \in Calls, k \in Kinds :
          StartCall(w, c, k, NoCall, c, NoCall, NoCall, FALSE)
    BY <1>5 DEF Request
  <2>2. HandedWell(w, c, k, NoCall, c, NoCall, NoCall, FALSE)
    BY <1>5 DEF Request, HandedWell
  <2> QED
    BY <2>1, <2>2, StartedWell
<1>6. CASE NestedCall(w)
  <2>1. PICK c \in Calls, k \in Kinds \ {"txRepo"} :
          StartCall(w, c, k, p, call[p].root, call[p].ctx, NoCall, call[p].post)
    BY <1>0, <1>6 DEF NestedCall
  <2>2. p # NoCall /\ pc[p] \in {"before", "after"}
    BY <1>0, <1>6 DEF NestedCall
  <2>3. HandedWell(w, c, k, p, call[p].root, call[p].ctx, NoCall, call[p].post)
    BY <1>0, <1>1, <1>3, <1>4, <2>2 DEF HandedWell
  <2> QED
    BY <2>1, <2>3, StartedWell
<1>7. CASE CreateNext(w)
  <2>1. p # NoCall /\ pc[p] = "body" /\ call[p].kind = "many"
    BY <1>0, <1>7 DEF CreateNext
  <2>2. PICK c \in Calls :
          StartCall(w, c, "save", p,
                    IF call[p].parent = NoCall THEN c ELSE call[p].root,
                    call[p].ctx, call[p].bound, call[p].post)
    BY <1>0, <1>7 DEF CreateNext
  <2> DEFINE r == IF call[p].parent = NoCall THEN c ELSE call[p].root
  <2>3. call[p].ctx = NoCall => call[p].bound \in {NoCall, Home(p)}
    BY <2>1 DEF Home
  <2>4. call[p].parent = NoCall => call[p].ctx = NoCall /\ call[p].bound = NoCall
    BY <1>1, <1>2, <2>1 DEF JInv, ChainInv, StartInv
  <2>5. HandedWell(w, c, "save", p, r, call[p].ctx, call[p].bound, call[p].post)
    BY <1>0, <1>1, <1>3, <1>4, <2>1, <2>3, <2>4 DEF HandedWell
  <2> HIDE DEF r
  <2> QED
    BY <2>2, <2>5, StartedWell DEF r
<1>8. CASE CallInTransaction(w)
  <2>1. p # NoCall /\ pc[p] = "body" /\ call[p].kind \in Transactions
    BY <1>0, <1>8 DEF CallInTransaction
  <2> DEFINE b == IF call[p].kind = "txRepo" THEN call[p].unit ELSE NoCall
  <2>2. PICK c \in Calls, k \in Kinds :
          StartCall(w, c, k, p, call[p].root, call[p].ctx, b, call[p].post)
    BY <1>0, <1>8 DEF CallInTransaction
  <2>3. b \in {NoCall, call[p].unit} /\ b \in {NoCall, Home(p)}
    BY <2>1 DEF Home, Transactions
  <2> HIDE DEF b
  <2>4. HandedWell(w, c, k, p, call[p].root, call[p].ctx, b, call[p].post)
    BY <1>0, <1>1, <1>3, <1>4, <2>1, <2>3 DEF HandedWell
  <2> QED
    BY <2>2, <2>4, StartedWell
<1>9. CASE CallFromHook(w)
  <2>1. p # NoCall /\ pc[p] = "fire" /\ hook[p] # NoCall
    BY <1>0, <1>9 DEF CallFromHook
  <2>2. PICK x : x = call[hook[p]].ctx
    OBVIOUS
  <2>3. PICK c \in Calls, k \in Kinds \ {"txRepo"} :
          StartCall(w, c, k, p, c, x, NoCall, TRUE)
    BY <1>0, <1>9, <2>2 DEF CallFromHook
  <2>4. hook[p] \in Calls /\ call[hook[p]].unit = p /\ call[hook[p]].kind = "save"
    BY <1>1, <2>1 DEF JInv, UnitInv, MaybeCall
  <2>5. x \in {NoCall, p}
    BY <2>2, <2>4 DEF JInv, ChainInv, StartInv
  <2>6. pc[p] # "unused" /\ Owns(p) /\ ustate[p] = "committed"
    BY <1>1, <2>1 DEF JInv, IInv, PhaseInv
  <2>7. HandedWell(w, c, k, p, c, x, NoCall, TRUE)
    BY <1>0, <1>1, <2>1, <2>5, <2>6 DEF HandedWell
  <2> QED
    BY <2>3, <2>7, StartedWell
<1> QED
  BY <1>5, <1>6, <1>7, <1>8, <1>9

\* Steps that start no call and take back no commit.
LEMMA ChainFrame ==
  ASSUME IInv, ChainInv, UNCHANGED call,
         \A d \in Calls : pc'[d] = "unused" <=> pc[d] = "unused",
         \A u \in Calls : ustate[u] = "committed" => ustate'[u] = "committed"
  PROVE  ChainInv'
<1>1. \A c \in Calls :
        /\ call[c].parent \in Calls \cup {NoCall} /\ call[c].ctx \in Calls \cup {NoCall}
        /\ call[c].bound \in Calls \cup {NoCall} /\ call[c].unit \in Calls \cup {NoCall}
  BY DEF IInv, TypeOK, CallRecord, MaybeCall
<1>2. StartInv'
  BY <1>1 DEF ChainInv, StartInv, Home
<1>3. MadeInOrder'
  BY DEF ChainInv, MadeInOrder
<1>4. OwnerInv'
  <2> SUFFICES ASSUME NEW c \in Calls, NEW u \in {call[c].ctx, call[c].bound, call[c].unit} \ {NoCall}
               PROVE  pc'[u] # "unused" /\ Owns(u)'
    BY DEF OwnerInv
  <2>1. u \in Calls /\ pc[u] # "unused" /\ Owns(u)
    BY <1>1 DEF ChainInv, OwnerInv
  <2> QED
    BY <2>1 DEF Owns
<1>5. RootInv'
  <2> SUFFICES ASSUME NEW c \in Calls, pc[c] # "unused", NEW r, r = call[c].root
               PROVE  RootOf(c, r)'
    BY DEF RootInv
  <2>1. RootOf(c, r)
    BY DEF ChainInv, RootInv
  <2>2. call[r].kind \in WriteKinds => call[r].unit \in Calls
    BY <2>1 DEF RootOf, ChainInv, StartInv, WriteKinds
  <2> QED
    BY <2>1, <2>2 DEF RootOf
<1> QED
  BY <1>2, <1>3, <1>4, <1>5 DEF ChainInv

\* Steps that move calls on but leave writes and hooks where they are.
LEMMA UnitFrame ==
  ASSUME IInv, UnitInv, UNCHANGED <<call, staged, after, hook, fired, db>>,
         \A u \in Calls : ustate[u] = "committed" => ustate'[u] = "committed",
         \A u \in Calls : ustate'[u] = "committed" => pc'[u] \in {"fire"} \cup Results,
         \A u \in Calls : pc'[u] = "ok" /\ Owns(u) => ustate'[u] = "committed" /\ after[u] = << >>,
         \A c \in Calls : call[c].kind = "save" /\ ~call[c].post /\ pc'[c] \in {"ok", "commit", "fire"} =>
           pc[c] \in {"ok", "commit", "fire"}
  PROVE  UnitInv'
<1>1. Fired' = Fired /\ \A u \in Calls : Range(after'[u]) = Range(after[u]) /\ call'[u] = call[u]
  BY DEF Fired
<1>2. \A u \in Calls : Owns(u)' <=> Owns(u)
  BY DEF Owns
<1>3. /\ \A u \in Calls : \A c \in staged[u] : c \in Calls
      /\ \A c \in db : c \in Calls
  BY DEF IInv, TypeOK
<1> QED
  BY <1>1, <1>2, <1>3 DEF UnitInv

LEMMA OrderFrame ==
  ASSUME OrderInv, UNCHANGED <<call, after, fired>>,
         \A c \in Calls : Live(c)' => Live(c)
  PROVE  OrderInv'
BY DEF OrderInv, HookInnerFirst, Fired

\* A running step of a call starts none, and revives none.
LEMMA ProceedFrame ==
  ASSUME IInv, UnitInv, NEW w \in Workers, Proceed(w)
  PROVE  /\ \A d \in Calls : pc'[d] = "unused" <=> pc[d] = "unused"
         /\ \A d \in Calls : Live(d)' => Live(d)
         /\ \A u \in Calls : ustate[u] = "committed" => ustate'[u] = "committed"
<1>0. PICK c \in Calls : c = cur[w]
  BY ProceedShape
<1>1. pc \in [Calls -> {"unused", "begin"} \cup Phases \cup Results] /\ Live(c)
      /\ ustate \in [Calls -> {"none", "active", "committed", "aborted"}]
  BY <1>0, ProceedShape DEF IInv, TypeOK
<1>2. \/ \E label \in Phases : pc' = [pc EXCEPT ![c] = label]
      \/ /\ pc'[c] \in {"ok", "err"}
         /\ \A d \in Calls \ {c} : pc'[d] = pc[d] \/ (pc[d] \in {"before", "after", "body"} /\ pc'[d] = "fail")
  BY <1>0, ProceedShape DEF Stays, Ends
<1>3. \A d \in Calls : pc'[d] = "unused" <=> pc[d] = "unused"
  BY <1>1, <1>2 DEF Live, Phases
<1>4. \A d \in Calls : Live(d)' => Live(d)
  BY <1>1, <1>2 DEF Live, Phases
<1>5. \/ ustate' = ustate
      \/ pc[c] \in {"begin", "fail", "commit"} /\ ustate' = [ustate EXCEPT ![c] = "active"]
      \/ pc[c] \in {"begin", "fail", "commit"} /\ ustate' = [ustate EXCEPT ![c] = "aborted"]
      \/ ustate' = [ustate EXCEPT ![c] = "committed"]
  BY <1>0 DEF Proceed, Begin, Validate, CheckUnique, Exec, Fail, Complete, Rollback,
     CommitSucceeds, CommitFails, CommitAckLost, FireHook, Finish
<1>6. ustate[c] = "committed" => pc[c] \notin {"begin", "fail", "commit"}
  BY DEF UnitInv, Results
<1>7. \A u \in Calls : ustate[u] = "committed" => ustate'[u] = "committed"
  BY <1>1, <1>5, <1>6
<1> QED
  BY <1>3, <1>4, <1>7

LEMMA QuietUnits ==
  ASSUME IInv, ChainInv, UnitInv, OrderInv, NEW w \in Workers,
         \/ Begin(w) \/ Validate(w) \/ CheckUnique(w) \/ Fail(w)
         \/ Rollback(w) \/ CommitFails(w) \/ Finish(w)
  PROVE  UnitInv' /\ OrderInv'
<1>0. Proceed(w)
  BY DEF Proceed
<1>1. PICK c \in Calls : c = cur[w]
  BY <1>0, ProceedShape
<1>2. UNCHANGED <<call, staged, after, hook, fired, db>>
  BY DEF Begin, Validate, CheckUnique, Fail, Rollback, CommitFails, Finish
<1>3. /\ \A d \in Calls : Live(d)' => Live(d)
      /\ \A u \in Calls : ustate[u] = "committed" => ustate'[u] = "committed"
  BY <1>0, ProceedFrame
<1>4. /\ pc \in [Calls -> {"unused", "begin"} \cup Phases \cup Results]
      /\ ustate \in [Calls -> {"none", "active", "committed", "aborted"}]
  BY DEF IInv, TypeOK
<1>5. /\ pc'[c] \in {"ok", "commit", "fire"} => pc[c] = "fire" /\ after[c] = << >> /\ pc'[c] = "ok"
      /\ \A d \in Calls \ {c} : pc'[d] = pc[d] \/ (pc[d] \in {"before", "after", "body"} /\ pc'[d] = "fail")
  <2>1. CASE Begin(w)
    <3>1. pc[c] = "begin" /\ (Goto(c, FirstPhase(call[c].kind)) \/ Return(w, c, "err"))
      BY <1>1, <2>1 DEF Begin
    <3>2. Return(w, c, "err") => Ends(w)
      BY <1>1, <3>1, ReturnEnds DEF IInv
    <3>3. Return(w, c, "err") => pc'[c] = "err"
      BY <1>1, <1>4, <3>1 DEF Return, IInv, TypeOK
    <3> QED
      BY <1>1, <1>4, <3>1, <3>2, <3>3 DEF Goto, FirstPhase, Ends
  <2>2. CASE Validate(w) \/ CheckUnique(w) \/ Fail(w)
    BY <1>1, <1>4, <2>2 DEF Validate, CheckUnique, Fail, Goto
  <2>3. CASE Rollback(w) \/ CommitFails(w)
    <3>1. pc[c] \in {"fail", "commit"} /\ Return(w, c, "err")
      BY <1>1, <2>3 DEF Rollback, CommitFails
    <3>2. Ends(w)
      BY <1>1, <3>1, ReturnEnds DEF IInv
    <3>3. pc'[c] = "err"
      BY <1>1, <1>4, <3>1 DEF Return, IInv, TypeOK
    <3> QED
      BY <1>1, <3>2, <3>3 DEF Ends
  <2>4. CASE Finish(w)
    <3>1. pc[c] = "fire" /\ after[c] = << >> /\ Return(w, c, "ok")
      BY <1>1, <2>4 DEF Finish
    <3>2. pc' = [pc EXCEPT ![c] = "ok"]
      BY <3>1 DEF Return
    <3> QED
      BY <1>4, <3>1, <3>2
  <2> QED
    BY <2>1, <2>2, <2>3, <2>4
<1>6. \A u \in Calls : ustate'[u] = "committed" => ustate[u] = "committed"
  BY <1>4 DEF Begin, Validate, CheckUnique, Fail, Rollback, CommitFails, Finish
<1>7. pc'[c] # "ok" /\ pc'[c] \notin {"fire"} \cup Results => ustate[c] # "committed"
  <2>1. CASE Finish(w)
    <3>1. pc'[c] = "ok"
      BY <1>1, <1>4, <2>1 DEF Finish, Return
    <3> QED
      BY <3>1
  <2>2. CASE Begin(w) \/ Validate(w) \/ CheckUnique(w) \/ Fail(w) \/ Rollback(w) \/ CommitFails(w)
    <3>1. pc[c] \notin {"fire"} \cup Results
      BY <1>1, <2>2 DEF Begin, Validate, CheckUnique, Fail, Rollback, CommitFails, Results
    <3> QED
      BY <3>1 DEF UnitInv
  <2> QED
    BY <2>1, <2>2
<1>8. \A u \in Calls : ustate'[u] = "committed" => pc'[u] \in {"fire"} \cup Results
  <2> SUFFICES ASSUME NEW u \in Calls, ustate[u] = "committed"
               PROVE  pc'[u] \in {"fire"} \cup Results
    BY <1>6
  <2>1. pc[u] \in {"fire"} \cup Results
    BY DEF UnitInv
  <2> QED
    BY <1>5, <1>7, <2>1 DEF Results
<1>9. \A u \in Calls : pc'[u] = "ok" /\ Owns(u) => ustate'[u] = "committed" /\ after[u] = << >>
  <2> SUFFICES ASSUME NEW u \in Calls, pc'[u] = "ok", Owns(u)
               PROVE  ustate[u] = "committed" /\ after[u] = << >>
    BY <1>3
  <2>1. CASE u = c
    BY <1>5, <2>1 DEF IInv, PhaseInv
  <2>2. CASE u # c
    BY <1>5, <2>2 DEF UnitInv
  <2> QED
    BY <2>1, <2>2
<1>10. \A d \in Calls : pc'[d] \in {"ok", "commit", "fire"} => pc[d] \in {"ok", "commit", "fire"}
  BY <1>5
<1>11. UnitInv'
  BY <1>2, <1>3, <1>8, <1>9, <1>10, UnitFrame
<1>12. OrderInv'
  BY <1>2, <1>3, OrderFrame
<1> QED
  BY <1>11, <1>12

LEMMA ExecUnits ==
  ASSUME IInv, ChainInv, UnitInv, OrderInv, NEW w \in Workers, Exec(w)
  PROVE  UnitInv' /\ OrderInv'
<1>0. Proceed(w)
  BY DEF Proceed
<1>1. PICK c \in Calls : c = cur[w] /\ pc[c] = "exec"
  BY <1>0, ProceedShape DEF Exec
<1>2. PICK u \in Calls : u = call[c].unit
  BY <1>1 DEF IInv, PhaseInv
<1>3. /\ UNCHANGED <<call, ustate, after, hook, fired, db>>
      /\ pc' = [pc EXCEPT ![c] = "after"] \/ pc' = [pc EXCEPT ![c] = "fail"]
      /\ staged' = staged \/ staged' = [staged EXCEPT ![u] = @ \cup {c}]
  BY <1>1, <1>2 DEF Exec, Goto
<1>4. /\ pc \in [Calls -> {"unused", "begin"} \cup Phases \cup Results]
      /\ staged \in [Calls -> SUBSET Calls] /\ db \subseteq Calls
  BY DEF IInv, TypeOK
<1>5. OrderInv'
  <2>1. \A d \in Calls : Live(d)' => Live(d)
    BY <1>0, ProceedFrame
  <2> QED
    BY <1>3, <2>1, OrderFrame
<1>6. UnitInv'
  <2>1. \A d \in Calls \ {c} : pc'[d] = pc[d]
    BY <1>3, <1>4
  <2>2. pc'[c] \in {"after", "fail"} /\ ustate[c] # "committed"
    BY <1>1, <1>3, <1>4 DEF UnitInv, Results
  <2>3. Fired' = Fired /\ \A v \in Calls : Range(after'[v]) = Range(after[v])
    BY <1>3 DEF Fired
  <2>4. \A v \in Calls : \A d \in staged'[v] : call[d].unit = v
    BY <1>2, <1>3, <1>4 DEF UnitInv
  <2>5. \A v \in Calls : ustate[v] = "committed" => pc'[v] \in {"fire"} \cup Results
    BY <2>1, <2>2 DEF UnitInv
  <2>6. \A v \in Calls : pc'[v] = "ok" /\ Owns(v)' => ustate[v] = "committed" /\ after[v] = << >>
    BY <1>3, <2>1, <2>2 DEF UnitInv, Owns
  <2>7. \A d \in Calls :
          call[d].kind = "save" /\ ~call[d].post /\ pc'[d] \in {"ok", "commit", "fire"} =>
            d \in Range(after[call[d].unit]) \/ d \in Fired
    BY <2>1, <2>2 DEF UnitInv
  <2>8. /\ \A d \in db : call[d].unit \in Calls /\ ustate[call[d].unit] = "committed"
        /\ \A v \in Calls : hook[v] # NoCall => call[hook[v]].unit = v /\ call[hook[v]].kind = "save"
        /\ \A v \in Calls : \A d \in Range(after[v]) \cup Fired : call[d].kind = "save" /\ ~call[d].post
    BY DEF UnitInv
  <2> QED
    BY <1>3, <2>3, <2>4, <2>5, <2>6, <2>7, <2>8 DEF UnitInv
<1> QED
  BY <1>5, <1>6

\* A commit makes what its unit staged durable, and nothing else.
LEMMA CommitUnits ==
  ASSUME IInv, ChainInv, UnitInv, OrderInv, NEW w \in Workers,
         CommitSucceeds(w) \/ CommitAckLost(w)
  PROVE  UnitInv' /\ OrderInv'
<1>0. Proceed(w)
  BY DEF Proceed
<1>1. PICK c \in Calls : c = cur[w] /\ pc[c] = "commit"
  BY <1>0, ProceedShape DEF CommitSucceeds, CommitAckLost
<1>2. /\ UNCHANGED <<call, staged, after, hook, fired>>
      /\ ustate' = [ustate EXCEPT ![c] = "committed"]
      /\ db' = db \cup staged[c]
  BY <1>1 DEF CommitSucceeds, CommitAckLost
<1>3. /\ pc \in [Calls -> {"unused", "begin"} \cup Phases \cup Results]
      /\ ustate \in [Calls -> {"none", "active", "committed", "aborted"}]
      /\ staged \in [Calls -> SUBSET Calls] /\ db \subseteq Calls
  BY DEF IInv, TypeOK
<1>4. /\ pc'[c] \in {"fire", "err"}
      /\ \A d \in Calls \ {c} : pc'[d] = pc[d] \/ (pc[d] \in {"before", "after", "body"} /\ pc'[d] = "fail")
  <2>1. CASE CommitSucceeds(w)
    BY <1>1, <1>3, <2>1 DEF CommitSucceeds, Goto
  <2>2. CASE CommitAckLost(w)
    <3>1. Return(w, c, "err")
      BY <1>1, <2>2 DEF CommitAckLost
    <3>2. Ends(w)
      BY <1>1, <3>1, ReturnEnds DEF IInv
    <3>3. pc'[c] = "err"
      BY <1>1, <1>3, <3>1 DEF Return, IInv, TypeOK
    <3> QED
      BY <1>1, <3>2, <3>3 DEF Ends
  <2> QED
    BY <2>1, <2>2
<1>5. OrderInv'
  <2>1. \A d \in Calls : Live(d)' => Live(d)
    BY <1>0, ProceedFrame
  <2> QED
    BY <1>2, <2>1, OrderFrame
<1>6. UnitInv'
  <2>1. Fired' = Fired /\ \A v \in Calls : Range(after'[v]) = Range(after[v])
    BY <1>2 DEF Fired
  <2>2. /\ \A v \in Calls : \A d \in staged[v] : call[d].unit = v
        /\ \A d \in db : call[d].unit \in Calls /\ ustate[call[d].unit] = "committed"
        /\ \A v \in Calls : hook[v] # NoCall => call[hook[v]].unit = v /\ call[hook[v]].kind = "save"
        /\ \A v \in Calls : \A d \in Range(after[v]) \cup Fired : call[d].kind = "save" /\ ~call[d].post
    BY DEF UnitInv
  <2>3. \A v \in Calls : ustate'[v] = "committed" => pc'[v] \in {"fire"} \cup Results
    <3> SUFFICES ASSUME NEW v \in Calls, v # c, ustate[v] = "committed"
                 PROVE  pc'[v] \in {"fire"} \cup Results
      BY <1>2, <1>3, <1>4 DEF Results
    <3>1. pc[v] \in {"fire"} \cup Results
      BY DEF UnitInv
    <3> QED
      BY <1>4, <3>1 DEF Results
  <2>4. \A d \in db' : call[d].unit \in Calls /\ ustate'[call[d].unit] = "committed"
    BY <1>2, <1>3, <2>2
  <2>5. \A v \in Calls : pc'[v] = "ok" /\ Owns(v)' => ustate'[v] = "committed" /\ after[v] = << >>
    <3> SUFFICES ASSUME NEW v \in Calls, pc'[v] = "ok", Owns(v)
                 PROVE  ustate'[v] = "committed" /\ after[v] = << >>
      BY <1>2 DEF Owns
    <3>1. v # c /\ pc[v] = "ok"
      BY <1>4
    <3> QED
      BY <1>2, <1>3, <3>1 DEF UnitInv
  <2>6. \A d \in Calls :
          call[d].kind = "save" /\ ~call[d].post /\ pc'[d] \in {"ok", "commit", "fire"} =>
            d \in Range(after[call[d].unit]) \/ d \in Fired
    BY <1>1, <1>4 DEF UnitInv
  <2> QED
    BY <1>2, <2>1, <2>2, <2>3, <2>4, <2>5, <2>6 DEF UnitInv
<1> QED
  BY <1>5, <1>6

\* What a caller waits for: neither it nor the unit it works in is done.
LEMMA WaitingCaller ==
  ASSUME IInv, StackInv, NEW c \in Calls, Live(c), ~call[c].post
  PROVE  /\ call[c].parent # NoCall => pc[call[c].parent] \in {"before", "after", "body"}
         /\ call[c].parent \in Calls \cup {NoCall}
         /\ Home(c) # NoCall => Home(c) \in Calls /\ Live(Home(c))
<1>1. PICK own \in [Calls -> Workers \cup {NoCall}] : StackOf(own)
  BY DEF StackInv
<1>2. call[c].parent \in Calls \cup {NoCall} /\ Home(c) \in Calls \cup {NoCall}
  BY DEF IInv, TypeOK, CallRecord, Home, MaybeCall
<1>3. call[c].parent # NoCall => Waiting(call[c].parent, c)
  BY <1>1 DEF StackOf, CallerWaits
<1>4. Home(c) \notin {NoCall, c} => Live(Home(c))
  BY <1>1 DEF StackOf, UnitRuns
<1> QED
  BY <1>2, <1>3, <1>4 DEF Waiting

LEMMA CompleteUnits ==
  ASSUME IInv, ChainInv, StackInv, UnitInv, OrderInv, NEW w \in Workers, Complete(w)
  PROVE  UnitInv' /\ OrderInv'
<1>0. Proceed(w)
  BY DEF Proceed
<1>1. PICK c \in Calls : c = cur[w] /\ pc[c] \in {"after", "body"} /\ Live(c)
  BY <1>0, ProceedShape DEF Complete
<1>2. PICK u : u = call[c].unit
  OBVIOUS
<1>3. UNCHANGED <<call, ustate, staged, hook, fired, db>>
  BY DEF Complete
<1>4. /\ pc \in [Calls -> {"unused", "begin"} \cup Phases \cup Results]
      /\ after \in [Calls -> Seq(Calls)] /\ db \subseteq Calls
      /\ NoCall \notin Calls
  BY CallsAssumption DEF IInv, TypeOK
<1>5. /\ pc'[c] \in {"ok", "commit"} /\ (pc'[c] = "ok" => ~Owns(c))
      /\ \A d \in Calls \ {c} : pc'[d] = pc[d]
  <2>1. CASE Owns(c)
    BY <1>1, <1>4, <2>1 DEF Complete, Goto
  <2>2. CASE ~Owns(c)
    <3>1. pc' = [pc EXCEPT ![c] = "ok"]
      BY <1>1, <2>2 DEF Complete, Return
    <3> QED
      BY <1>4, <2>2, <3>1
  <2> QED
    BY <2>1, <2>2
<1>6. /\ \A d \in Calls : Live(d)' => Live(d)
      /\ ustate[c] # "committed"
  <2>1. ustate[c] # "committed"
    BY <1>1 DEF UnitInv, Results
  <2> QED
    BY <1>0, <2>1, ProceedFrame
<1>7. Fired' = Fired /\ \A d \in Calls : (Owns(d)' <=> Owns(d))
  BY <1>3 DEF Fired, Owns
<1>8. /\ \A v \in Calls : ustate[v] = "committed" => pc'[v] \in {"fire"} \cup Results
      /\ \A v \in Calls : pc'[v] = "ok" /\ Owns(v) => v # c /\ pc[v] = "ok" /\ ustate[v] = "committed" /\ after[v] = << >>
  BY <1>5, <1>6 DEF UnitInv
<1>9. /\ \A v \in Calls : \A d \in staged[v] : call[d].unit = v
      /\ \A d \in db : call[d].unit \in Calls /\ ustate[call[d].unit] = "committed"
      /\ \A v \in Calls : hook[v] # NoCall => call[hook[v]].unit = v /\ call[hook[v]].kind = "save"
      /\ \A v \in Calls : \A d \in Range(after[v]) \cup Fired : call[d].kind = "save" /\ ~call[d].post
      /\ \A d \in Calls :
           call[d].kind = "save" /\ ~call[d].post /\ pc[d] \in {"ok", "commit", "fire"} =>
             d \in Range(after[call[d].unit]) \/ d \in Fired
  BY DEF UnitInv
<1>10. CASE ~Registers(c)
  <2>1. after' = after
    BY <1>1, <1>10 DEF Complete
  <2>2. \A d \in Calls : call[d].kind = "save" /\ ~call[d].post /\ pc'[d] \in {"ok", "commit", "fire"} =>
          pc[d] \in {"ok", "commit", "fire"}
    BY <1>5, <1>10 DEF Registers
  <2>3. UnitInv'
    BY <1>3, <1>8, <2>1, <2>2, UnitFrame
  <2>4. OrderInv'
    BY <1>3, <1>6, <2>1, OrderFrame
  <2> QED
    BY <2>3, <2>4
<1>11. CASE Registers(c)
  <2>1. /\ call[c].kind = "save" /\ ~call[c].post
        /\ u \in Calls /\ Home(c) = u
    BY <1>2, <1>11 DEF Registers, ChainInv, StartInv, Home
  <2>2. /\ after'[u] = Append(after[u], c) /\ after[u] \in Seq(Calls)
        /\ \A v \in Calls \ {u} : after'[v] = after[v]
    BY <1>1, <1>2, <1>4, <1>11, <2>1 DEF Complete
  <2>3. /\ Range(after'[u]) = Range(after[u]) \cup {c}
        /\ \A v \in Calls \ {u} : Range(after'[v]) = Range(after[v])
    <3>1. Range(Append(after[u], c)) = Range(after[u]) \cup {c}
      BY <2>2, AppendRange
    <3> QED
      BY <2>2, <3>1
  <2>4. Live(u)
    BY <1>1, <1>4, <2>1, WaitingCaller
  <2>5. /\ call[c].parent \notin Fired /\ call[c].parent \notin Range(after[u])
    <3>1. call[c].parent # NoCall => pc[call[c].parent] \in {"before", "after", "body"}
      BY <1>1, <2>1, WaitingCaller
    <3>2. \A d \in Fired \cup Range(after[u]) : pc[d] \notin NotRegistered /\ d \in Calls
      BY <2>1 DEF IInv, HookInv, TypeOK, Fired, Range
    <3> QED
      BY <1>4, <3>1, <3>2 DEF NotRegistered, NotStaged
  <2>6. call[c].parent # c
    BY <1>1 DEF ChainInv, StartInv, Live, Phases
  <2>7. UnitInv'
    <3>1. \A v \in Calls : pc'[v] = "ok" /\ Owns(v) => ustate[v] = "committed" /\ after'[v] = << >>
      <4> SUFFICES ASSUME NEW v \in Calls, pc'[v] = "ok", Owns(v)
                   PROVE  ustate[v] = "committed" /\ after'[v] = << >>
        OBVIOUS
      <4>1. pc[v] = "ok" /\ ustate[v] = "committed" /\ after[v] = << >>
        BY <1>8
      <4>2. v # u
        BY <2>4, <4>1 DEF Live, Phases
      <4> QED
        BY <2>2, <4>1, <4>2
    <3>2. \A v \in Calls : \A d \in Range(after'[v]) \cup Fired : call[d].kind = "save" /\ ~call[d].post
      BY <1>9, <2>1, <2>3
    <3>3. \A d \in Calls :
            call[d].kind = "save" /\ ~call[d].post /\ pc'[d] \in {"ok", "commit", "fire"} =>
              d \in Range(after'[call[d].unit]) \/ d \in Fired
      <4> SUFFICES ASSUME NEW d \in Calls, call[d].kind = "save", ~call[d].post,
                          pc'[d] \in {"ok", "commit", "fire"}, d \notin Fired
                   PROVE  d \in Range(after'[call[d].unit])
        OBVIOUS
      <4>1. CASE d = c
        BY <1>2, <2>3, <4>1
      <4>2. CASE d # c
        <5>1. d \in Range(after[call[d].unit])
          BY <1>5, <1>9, <4>2
        <5>2. call[d].unit \in Calls
          BY DEF ChainInv, StartInv
        <5> QED
          BY <2>3, <5>1, <5>2
      <4> QED
        BY <4>1, <4>2
    <3> QED
      BY <1>3, <1>7, <1>8, <1>9, <3>1, <3>2, <3>3 DEF UnitInv
  <2>8. OrderInv'
    <3>1. \A v \in Calls : \A i, j \in DOMAIN after'[v] :
            call[after'[v][j]].parent = after'[v][i] => j < i
      <4> SUFFICES ASSUME NEW i \in DOMAIN after'[u], NEW j \in DOMAIN after'[u],
                          call[after'[u][j]].parent = after'[u][i]
                   PROVE  j < i
        BY <2>2 DEF OrderInv
      <4>1. /\ DOMAIN after'[u] = 1..(Len(after[u]) + 1) /\ DOMAIN after[u] = 1..Len(after[u])
            /\ Len(after[u]) \in Nat
            /\ after'[u][Len(after[u]) + 1] = c
            /\ \A k \in 1..Len(after[u]) : after'[u][k] = after[u][k] /\ after[u][k] \in Range(after[u])
        <5>1. DOMAIN after[u] = 1..Len(after[u]) /\ Len(after[u]) \in Nat
          BY <2>2, LenProperties
        <5>2. \A k \in 1..Len(after[u]) : after[u][k] \in Range(after[u])
          BY <5>1 DEF Range
        <5> QED
          BY <2>2, <5>1, <5>2, AppendProperties
      <4>2. CASE j = Len(after[u]) + 1
        BY <2>5, <2>6, <4>1, <4>2
      <4>3. CASE j # Len(after[u]) + 1 /\ i = Len(after[u]) + 1
        BY <4>1, <4>3
      <4>4. CASE j # Len(after[u]) + 1 /\ i # Len(after[u]) + 1
        <5>0. i \in 1..Len(after[u]) /\ j \in 1..Len(after[u])
          BY <4>1, <4>4
        <5>1. i \in DOMAIN after[u] /\ j \in DOMAIN after[u] /\ after'[u][i] = after[u][i] /\ after'[u][j] = after[u][j]
          BY <4>1, <5>0
        <5> QED
          BY <2>1, <5>1 DEF OrderInv
      <4> QED
        BY <4>2, <4>3, <4>4
    <3>2. \A d, v \in Calls : d \in Range(after'[v]) /\ call[d].parent \in Fired => ~Live(v)'
      BY <1>6, <2>3, <2>5 DEF OrderInv
    <3> QED
      BY <1>3, <1>7, <3>1, <3>2 DEF OrderInv, HookInnerFirst
  <2> QED
    BY <2>7, <2>8
<1> QED
  BY <1>10, <1>11

LEMMA FireUnits ==
  ASSUME IInv, ChainInv, StackInv, UnitInv, OrderInv, NEW w \in Workers, FireHook(w)
  PROVE  UnitInv' /\ OrderInv'
<1>1. PICK c \in Calls : c = cur[w]
  BY ProceedShape DEF Proceed
<1>2. PICK h : h = Head(after[c])
  OBVIOUS
<1>3. /\ pc[c] = "fire" /\ after[c] # << >>
      /\ hook' = [hook EXCEPT ![c] = h] /\ fired' = Append(fired, h)
      /\ after' = [after EXCEPT ![c] = Tail(after[c])]
      /\ UNCHANGED <<pc, call, ustate, staged, db>>
  BY <1>1, <1>2 DEF FireHook
<1>4. /\ after \in [Calls -> Seq(Calls)] /\ fired \in Seq(Calls) /\ hook \in [Calls -> MaybeCall]
      /\ db \subseteq Calls /\ NoCall \notin Calls
  BY CallsAssumption DEF IInv, TypeOK
<1>5. after'[c] = Tail(after[c]) /\ \A v \in Calls \ {c} : after'[v] = after[v]
  BY <1>3, <1>4
<1>6. /\ h \in Calls /\ h \in Range(after[c])
      /\ Range(after'[c]) \subseteq Range(after[c]) /\ h \notin Range(after'[c])
      /\ Range(after[c]) \subseteq Range(after'[c]) \cup {h}
  <2>1. IsInjective(after[c]) /\ after[c] \in Seq(Calls)
    BY <1>4 DEF IInv, HookInv
  <2>2. /\ Tail(after[c]) \in Seq(Calls) /\ h \in Calls /\ h \in Range(after[c])
        /\ Range(Tail(after[c])) \subseteq Range(after[c]) /\ h \notin Range(Tail(after[c]))
    BY <1>2, <1>3, <2>1, TailRange
  <2>3. Range(after[c]) \subseteq Range(Tail(after[c])) \cup {h}
    <3>1. /\ Len(Tail(after[c])) = Len(after[c]) - 1
          /\ \A i \in 1..Len(Tail(after[c])) : Tail(after[c])[i] = after[c][i + 1]
      BY <1>3, <2>1, HeadTailProperties
    <3>2. /\ Len(after[c]) \in Nat \ {0} /\ DOMAIN after[c] = 1..Len(after[c])
          /\ DOMAIN Tail(after[c]) = 1..Len(Tail(after[c]))
      BY <1>3, <2>1, <2>2, LenProperties, EmptySeq
    <3>3. h = after[c][1]
      BY <1>2
    <3> SUFFICES ASSUME NEW i \in DOMAIN after[c], i # 1
                 PROVE  after[c][i] \in Range(Tail(after[c]))
      BY <3>3 DEF Range
    <3>4. i - 1 \in 1..Len(Tail(after[c])) /\ after[c][i] = Tail(after[c])[i - 1]
      BY <3>1, <3>2
    <3> QED
      BY <3>2, <3>4 DEF Range
  <2> QED
    BY <1>5, <2>2, <2>3
<1>7. Fired' = Fired \cup {h}
  BY <1>3, <1>4, <1>6, AppendRange DEF Fired
<1>8. /\ call[h].unit = c /\ call[h].kind = "save" /\ ~call[h].post /\ h \notin Fired
      /\ pc[h] \notin NotRegistered /\ Home(h) = c
  BY <1>6 DEF IInv, HookInv, UnitInv, Home
<1>9. \A v \in Calls : (Owns(v)' <=> Owns(v)) /\ (Live(v)' <=> Live(v)) /\ Range(after'[v]) \subseteq Range(after[v])
  BY <1>3, <1>5, <1>6 DEF Owns, Live
<1>10. UnitInv'
  <2>1. /\ \A v \in Calls : ustate[v] = "committed" => pc[v] \in {"fire"} \cup Results
        /\ \A v \in Calls : \A d \in staged[v] : call[d].unit = v
        /\ \A d \in db : call[d].unit \in Calls /\ ustate[call[d].unit] = "committed"
    BY DEF UnitInv
  <2>2. \A v \in Calls : pc[v] = "ok" /\ Owns(v) => ustate[v] = "committed" /\ after'[v] = << >>
    BY <1>3, <1>5 DEF UnitInv
  <2>3. \A v \in Calls : hook'[v] # NoCall => call[hook'[v]].unit = v /\ call[hook'[v]].kind = "save"
    BY <1>3, <1>4, <1>8 DEF UnitInv
  <2>4. \A v \in Calls : \A d \in Range(after'[v]) \cup Fired' : call[d].kind = "save" /\ ~call[d].post
    BY <1>7, <1>8, <1>9 DEF UnitInv
  <2>5. \A d \in Calls :
          call[d].kind = "save" /\ ~call[d].post /\ pc[d] \in {"ok", "commit", "fire"} =>
            d \in Range(after'[call[d].unit]) \/ d \in Fired'
    <3> SUFFICES ASSUME NEW d \in Calls, call[d].kind = "save", ~call[d].post,
                        pc[d] \in {"ok", "commit", "fire"}, d \notin Fired'
                 PROVE  d \in Range(after'[call[d].unit])
      OBVIOUS
    <3>1. d \in Range(after[call[d].unit]) /\ d # h
      BY <1>7 DEF UnitInv
    <3>2. call[d].unit \in Calls
      BY DEF ChainInv, StartInv
    <3> QED
      BY <1>5, <1>6, <3>1, <3>2
  <2> QED
    BY <1>3, <1>9, <2>1, <2>2, <2>3, <2>4, <2>5 DEF UnitInv
<1>11. OrderInv'
  <2>1. /\ Len(after[c]) \in Nat \ {0} /\ DOMAIN after[c] = 1..Len(after[c])
        /\ DOMAIN after'[c] = 1..(Len(after[c]) - 1)
        /\ \A i \in DOMAIN after'[c] : after'[c][i] = after[c][i + 1]
        /\ after[c][1] = h
    <3>1. after[c] \in Seq(Calls) /\ after'[c] \in Seq(Calls) /\ Len(after'[c]) = Len(after[c]) - 1
          /\ \A i \in 1..Len(after'[c]) : after'[c][i] = after[c][i + 1]
      BY <1>3, <1>4, <1>5, HeadTailProperties
    <3> QED
      BY <1>2, <1>3, <3>1, LenProperties, EmptySeq
  <2>2. \A v \in Calls : \A i, j \in DOMAIN after'[v] :
          call[after'[v][j]].parent = after'[v][i] => j < i
    <3>1. ASSUME NEW i \in DOMAIN after'[c], NEW j \in DOMAIN after'[c],
                 call[after'[c][j]].parent = after'[c][i]
          PROVE  j < i
      <4>1. /\ i \in Nat /\ j \in Nat /\ i + 1 \in DOMAIN after[c] /\ j + 1 \in DOMAIN after[c]
            /\ call[after[c][j + 1]].parent = after[c][i + 1]
        BY <2>1, <3>1
      <4>2. j + 1 < i + 1
        BY <4>1 DEF OrderInv
      <4> QED
        BY <4>1, <4>2
    <3> QED
      BY <1>5, <3>1 DEF OrderInv
  <2>3. ASSUME NEW d \in Calls, NEW v \in Calls, d \in Range(after'[v]), call[d].parent \in Fired'
        PROVE  ~Live(v)
    <3>1. d \in Range(after[v])
      BY <1>9, <2>3
    <3>2. CASE call[d].parent \in Fired
      BY <3>1, <3>2 DEF OrderInv
    <3>3. CASE call[d].parent = h /\ v = c
      <4>1. PICK j \in DOMAIN after'[c] : after'[c][j] = d
        BY <2>3, <3>3 DEF Range
      <4>2. j + 1 \in DOMAIN after[c] /\ after[c][j + 1] = d /\ 1 \in DOMAIN after[c] /\ j \in Nat
        BY <2>1, <4>1
      <4>3. j + 1 < 1
        BY <2>1, <3>3, <4>2 DEF OrderInv
      <4> QED
        BY <4>2, <4>3
    <3>4. CASE call[d].parent = h /\ v # c
      <4>1. /\ call[d].unit = v /\ call[d].kind = "save" /\ ~call[d].post
        BY <3>1 DEF IInv, HookInv, UnitInv
      <4>2. Home(d) = v /\ Home(d) \in {NoCall, d, Home(h)}
        BY <1>4, <1>6, <3>4, <4>1 DEF ChainInv, StartInv, Home
      <4>3. v = d
        BY <1>4, <1>8, <3>4, <4>2
      <4>4. ASSUME Live(d) PROVE FALSE
        <5>1. pc[h] \in {"before", "after", "body"}
          BY <1>4, <1>6, <3>4, <4>1, <4>4, WaitingCaller
        <5> QED
          BY <1>8, <5>1 DEF NotRegistered, NotStaged
      <4> QED
        BY <4>3, <4>4
    <3> QED
      BY <1>7, <2>3, <3>2, <3>3, <3>4
  <2>4. HookInnerFirst'
    <3> SUFFICES ASSUME NEW i \in DOMAIN fired', NEW j \in DOMAIN fired',
                        call[fired'[j]].parent = fired'[i]
                 PROVE  j < i
      BY <1>3 DEF HookInnerFirst
    <3>1. /\ DOMAIN fired' = 1..(Len(fired) + 1) /\ DOMAIN fired = 1..Len(fired)
          /\ Len(fired) \in Nat /\ fired'[Len(fired) + 1] = h
          /\ \A k \in 1..Len(fired) : fired'[k] = fired[k] /\ fired[k] \in Fired
      <4>1. DOMAIN fired = 1..Len(fired) /\ Len(fired) \in Nat
        BY <1>4, LenProperties
      <4>2. \A k \in 1..Len(fired) : fired[k] \in Fired
        BY <4>1 DEF Range, Fired
      <4> QED
        BY <1>3, <1>4, <1>6, <4>1, <4>2, AppendProperties
    <3>2. call[h].parent \notin Fired
      <4>1. Live(c)
        BY <1>3 DEF Live, Phases
      <4> QED
        BY <1>6, <4>1 DEF OrderInv
    <3>3. call[h].parent # h
      <4>1. pc[h] # "unused"
        BY <1>8 DEF NotRegistered, NotStaged
      <4> QED
        BY <1>6, <4>1 DEF ChainInv, StartInv
    <3>4. CASE j = Len(fired) + 1
      BY <3>1, <3>2, <3>3, <3>4
    <3>5. CASE j # Len(fired) + 1 /\ i = Len(fired) + 1
      BY <3>1, <3>5
    <3>6. CASE j # Len(fired) + 1 /\ i # Len(fired) + 1
      <4>1. i \in DOMAIN fired /\ j \in DOMAIN fired /\ fired'[i] = fired[i] /\ fired'[j] = fired[j]
        BY <3>1, <3>6
      <4> QED
        BY <4>1 DEF OrderInv, HookInnerFirst
    <3> QED
      BY <3>4, <3>5, <3>6
  <2> QED
    BY <1>3, <1>9, <2>2, <2>3, <2>4 DEF OrderInv
<1> QED
  BY <1>10, <1>11

LEMMA ProceedJ ==
  ASSUME JInv, NEW w \in Workers, Proceed(w)
  PROVE  ChainInv' /\ StackInv' /\ UnitInv' /\ OrderInv'
<1> USE DEF JInv
<1>1. ChainInv'
  BY ProceedShape, ProceedFrame, ChainFrame
<1>2. StackInv'
  BY ProceedStack
<1>3. UnitInv' /\ OrderInv'
  BY QuietUnits, ExecUnits, CommitUnits, CompleteUnits, FireUnits DEF Proceed
<1> QED
  BY <1>1, <1>2, <1>3

LEMMA AbortJ ==
  ASSUME JInv, NEW u \in Calls, DriverAborts(u)
  PROVE  ChainInv' /\ StackInv' /\ UnitInv' /\ OrderInv'
<1> USE DEF JInv
<1>1. /\ ustate[u] = "active" /\ ustate' = [ustate EXCEPT ![u] = "aborted"]
      /\ UNCHANGED <<cur, pc, call, staged, after, hook, fired, db>>
  BY DEF DriverAborts
<1>2. \A v \in Calls : ustate'[v] = "committed" <=> ustate[v] = "committed"
  BY <1>1 DEF IInv, TypeOK
<1>3. ChainInv'
  BY <1>1, <1>2, ChainFrame
<1>4. StackInv'
  BY <1>1 DEF StackInv, StackOf, TopRuns, BelowTop, CallerWaits, UnitRuns, OneChain,
              Live, Home, Waiting
<1>5. UnitInv'
  BY <1>1, <1>2, UnitFrame DEF UnitInv
<1>6. OrderInv'
  BY <1>1, OrderFrame DEF Live
<1> QED
  BY <1>3, <1>4, <1>5, <1>6

LEMMA CrashJ ==
  ASSUME JInv, Crash
  PROVE  ChainInv' /\ StackInv' /\ UnitInv' /\ OrderInv'
<1> USE DEF JInv
<1>1. /\ cur' = [w \in Workers |-> NoCall]
      /\ \A c \in Calls : pc'[c] = IF pc[c] \in Phases \cup {"begin"} THEN "gone" ELSE pc[c]
      /\ \A u \in Calls : ustate'[u] = IF ustate[u] = "active" THEN "aborted" ELSE ustate[u]
      /\ UNCHANGED <<call, staged, after, hook, fired, db>>
  BY DEF Crash
<1>2. \A v \in Calls : ustate'[v] = "committed" <=> ustate[v] = "committed"
  BY <1>1 DEF IInv, TypeOK
<1>3. \A c \in Calls : ~Live(c)'
  BY <1>1 DEF Live, Phases
<1>4. ChainInv'
  BY <1>1, <1>2, ChainFrame DEF Phases
<1>5. StackInv'
  <2>1. [c \in Calls |-> NoCall] \in [Calls -> Workers \cup {NoCall}]
    OBVIOUS
  <2>2. StackOf([c \in Calls |-> NoCall])'
    BY <1>1, <1>3 DEF StackOf, TopRuns, BelowTop, CallerWaits, UnitRuns, OneChain
  <2> QED
    BY <2>1, <2>2 DEF StackInv
<1>6. UnitInv'
  <2>1. \A v \in Calls : ustate'[v] = "committed" => pc'[v] \in {"fire"} \cup Results
    BY <1>1, <1>2 DEF UnitInv, Results
  <2>2. \A v \in Calls : pc'[v] = "ok" /\ Owns(v) => ustate'[v] = "committed" /\ after[v] = << >>
    BY <1>1, <1>2 DEF UnitInv
  <2>3. \A c \in Calls : pc'[c] \in {"ok", "commit", "fire"} => pc[c] \in {"ok", "commit", "fire"}
    BY <1>1 DEF Phases
  <2> QED
    BY <1>1, <1>2, <2>1, <2>2, <2>3, UnitFrame
<1>7. OrderInv'
  BY <1>1, <1>3, OrderFrame
<1> QED
  BY <1>4, <1>5, <1>6, <1>7

LEMMA NextJInv == JInv /\ [Next]_vars => JInv'
<1> SUFFICES ASSUME JInv, [Next]_vars PROVE JInv'
  OBVIOUS
<1>1. IInv'
  BY NextIInv DEF JInv
<1>2. ChainInv' /\ StackInv' /\ UnitInv' /\ OrderInv'
  <2>1. CASE UNCHANGED vars
    <3>1. ChainInv'
      BY <2>1, ChainFrame DEF vars, JInv
    <3>2. StackInv'
      BY <2>1 DEF vars, JInv, StackInv, StackOf, TopRuns, BelowTop, CallerWaits, UnitRuns,
                  OneChain, Live, Home, Waiting
    <3>3. UnitInv'
      BY <2>1, UnitFrame DEF vars, JInv, UnitInv
    <3>4. OrderInv'
      BY <2>1, OrderFrame DEF vars, JInv, Live
    <3> QED
      BY <3>1, <3>2, <3>3, <3>4
  <2>2. CASE Next
    BY <2>2, AnyStartJ, ProceedJ, AbortJ, CrashJ DEF Next
  <2> QED
    BY <2>1, <2>2
<1> QED
  BY <1>1, <1>2 DEF JInv

\* The chain of a request's calls, the units they work in and the order of the hooks
\* are what JInv says, in every state the program reaches.
THEOREM ChainsHold == Spec => []JInv
BY InitJInv, NextJInv, PTL DEF Spec

\* One transaction for a request: two calls that work for the same Create, Update or
\* Destroy and hold open transactions are the same call, whatever associations, scripts
\* and CreateMany did below it (runWrite joins the unit it finds in the context).
THEOREM OneTransaction == Spec => []SingleBegin
<1>1. JInv => SingleBegin
  <2> SUFFICES ASSUME JInv, NEW u \in InUse, NEW v \in InUse, NEW r, r = call[u].root, r = call[v].root,
                      call[r].kind \in WriteKinds
               PROVE  u = v
    BY DEF SingleBegin
  <2>1. /\ u \in Calls /\ call[u].unit = u /\ pc[u] # "unused"
        /\ v \in Calls /\ call[v].unit = v /\ pc[v] # "unused"
    BY DEF InUse, JInv, IInv, TypeOK, PhaseInv, Open
  <2>2. RootOf(u, r) /\ RootOf(v, r)
    BY <2>1 DEF JInv, ChainInv, RootInv
  <2>3. u = call[r].unit /\ v = call[r].unit
    BY <2>1, <2>2, CallsAssumption DEF RootOf
  <2> QED
    BY <2>3
<1> QED
  BY <1>1, ChainsHold, PTL

\* A request is all or nothing: what the calls of one Create, Update or Destroy wrote
\* is durable together or not at all, all of it when the call returned without an
\* error and none of it when its transaction was rolled back.
THEOREM RequestsAtomic == Spec => []RequestAtomic
<1>1. JInv => RequestAtomic
  <2> SUFFICES ASSUME JInv, NEW r \in Calls, call[r].kind \in WriteKinds
               PROVE  /\ Written(r) \subseteq db \/ Written(r) \cap db = {}
                      /\ pc[r] = "ok" => Written(r) \subseteq db
                      /\ ustate[r] = "aborted" => Written(r) \cap db = {}
    BY DEF RequestAtomic
  <2> DEFINE U == call[r].unit
  <2>1. U \in Calls /\ Owns(U)
    BY CallsAssumption DEF JInv, ChainInv, StartInv, OwnerInv, WriteKinds
  <2>2. ASSUME NEW c \in Written(r)
        PROVE  c \in staged[U] /\ call[c].unit = U /\ (U = r \/ ustate[U] = "committed")
    <3>1. PICK u \in Calls : c \in staged[u]
      BY DEF Written
    <3>2. c \in Calls /\ pc[c] # "unused" /\ call[c].unit = u /\ call[c].root = r
      BY <3>1 DEF Written, JInv, IInv, StagedInv, NotStaged, UnitInv
    <3>3. RootOf(c, r)
      BY <3>2 DEF JInv, ChainInv, RootInv
    <3> QED
      BY <3>1, <3>2, <3>3, CallsAssumption DEF RootOf
  <2>3. ustate[U] = "committed" => staged[U] \subseteq db
    BY <2>1 DEF JInv, IInv, StagedInv
  <2>4. ustate[U] # "committed" => Written(r) \cap db = {}
    BY <2>2 DEF JInv, UnitInv
  <2>5. pc[r] = "ok" => Written(r) \subseteq db
    <3> SUFFICES ASSUME pc[r] = "ok", NEW c \in Written(r) PROVE c \in db
      OBVIOUS
    <3>1. U = r => ustate[U] = "committed"
      BY <2>1 DEF JInv, UnitInv, Owns
    <3> QED
      BY <2>2, <2>3, <3>1
  <2>6. ustate[r] = "aborted" => U = r
    BY DEF JInv, IInv, TypeOK
  <2> QED
    BY <2>2, <2>3, <2>4, <2>5, <2>6
<1> QED
  BY <1>1, ChainsHold, PTL

\* When the owner of a unit has returned without an error the hooks of all its saves
\* were run, and a nested save's hook before its caller's, whatever was nested in what.
THEOREM HooksOrdered == Spec => []HooksInOrder
<1>1. JInv => HooksInOrder
  <2> SUFFICES ASSUME JInv PROVE HookForEverySave /\ HookInnerFirst
    BY DEF HooksInOrder
  <2>1. HookForEverySave
    <3> SUFFICES ASSUME NEW c \in Calls, NEW u, u = call[c].unit, pc[c] = "ok",
                        call[c].kind = "save", ~call[c].post, u # NoCall, pc[u] = "ok"
                 PROVE  c \in Fired
      BY DEF HookForEverySave
    <3>1. u \in Calls /\ Owns(u)
      BY DEF JInv, ChainInv, StartInv, OwnerInv
    <3>2. after[u] = << >>
      BY <3>1 DEF JInv, UnitInv
    <3>3. Range(after[u]) = {}
      BY <3>2 DEF Range
    <3> QED
      BY <3>3 DEF JInv, UnitInv
  <2>2. HookInnerFirst
    BY DEF JInv, OrderInv
  <2> QED
    BY <2>1, <2>2
<1> QED
  BY <1>1, ChainsHold, PTL
=============================================================================
