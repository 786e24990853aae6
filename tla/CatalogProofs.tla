--------------------------- MODULE CatalogProofs ---------------------------
(***************************************************************************)
(* For any number of collections, requests and failures: a successful      *)
(* creation lasts, a successful drop leaves nothing, and what a broken     *)
(* call leaves in "fields" and "indexes" can be found again.               *)
(***************************************************************************)
EXTENDS Catalog, SequenceTheorems, TLAPS

Labels == {"idle"} \cup CreatePhases \cup SyncPhases \cup DropPhases
Want(a) == Top(a).want

\* The names on the stack of a request.
NamesOf(st) == {st[i].name : i \in DOMAIN st}
OnStack(a) == NamesOf(call[a].stack)

\* What a request may still do is of the right kind.
FormOf(a) ==
  /\ call[a].at \in CreatePhases \cup SyncPhases => Todo(a) \subseteq Want(a)
  /\ call[a].at \in {"create table", "insert collection"} => Todo(a) = Want(a)
  /\ At(a, "insert index") => call[a].item \in Todo(a)

FormInv == \A a \in Admins : FormOf(a)

\* Nobody makes what another drops, unless the name is known as raced.
Making(a, n) == call[a].at \in CreatePhases \cup SyncPhases /\ Name(a) = n
Dropping(a, n) == call[a].at \in DropPhases /\ n \in OnStack(a)

Apart ==
  \A a, b \in Admins, n \in Names \ raced : ~(Making(a, n) /\ Dropping(b, n))

\* The request that inserted the row of a collection is alone in saving its
\* parts, and has saved what it no longer has to.
Inserting(a, n) == call[a].at \in {"insert parts", "insert index"} /\ Name(a) = n
Opening(a, n) == call[a].at \in {"create table", "insert collection"} /\ Name(a) = n

Saved ==
  \A a \in Admins, n \in Names \ raced : Inserting(a, n) =>
    /\ n \in tables /\ n \in rows /\ n \notin published
    /\ parts[n] = Want(a) \ Todo(a)

Alone ==
  \A a, b \in Admins, n \in Names \ raced :
    Inserting(a, n) /\ Inserting(b, n) => a = b

\* Before that, the table is there first, and a name that somebody else has
\* published meanwhile has its row.
TableFirst ==
  \A a \in Admins, n \in Names \ raced :
    At(a, "insert collection") /\ Name(a) = n => n \in tables

NameTaken ==
  \A a \in Admins, n \in Names \ raced :
    Opening(a, n) /\ n \in published => n \in rows

InsertInv == Saved /\ Alone /\ TableFirst /\ NameTaken

\* How far a drop has got.
DropOf(a, n) ==
  /\ call[a].at \in {"delete fields", "delete indexes", "delete row", "unpublish"} =>
       n \notin tables
  /\ At(a, "delete indexes") => parts[n] \cap Fields = {}
  /\ call[a].at \in {"delete row", "unpublish"} => parts[n] = {}
  /\ At(a, "unpublish") => n \notin rows

DropInv ==
  \A a \in Admins, n \in Names \ raced :
    call[a].at \in DropPhases /\ Name(a) = n => DropOf(a, n)

\* No call that could undo it is under way when an answer stands.
OutcomeInv ==
  \A a \in Admins, n \in Names \ raced :
    /\ outcome[n] \in {"created", "reloaded"} => ~Dropping(a, n)
    /\ outcome[n] = "dropped" => ~Making(a, n)

IInv ==
  TypeOK /\ FormInv /\ Apart /\ InsertInv /\ DropInv /\ OutcomeInv
  /\ LeftoversListed /\ CreatedLasts /\ DroppedIsGone

-----------------------------------------------------------------------------
(***************************************************************************)
(* How a step moves one request.                                           *)
(***************************************************************************)

\* The parts of TypeOK that speak of calls.
Calls == [at : Labels, stack : Seq(Frames), item : Indexes \cup {None}, cascade : BOOLEAN]
CallType ==
  /\ call \in [Admins -> Calls]
  /\ \A a \in Admins : /\ At(a, "idle") <=> Depth(a) = 0
                       /\ Depth(a) <= MaxDepth
                       /\ At(a, "insert index") => call[a].item # None

LEMMA StackFacts ==
  ASSUME CallType, NEW a \in Admins
  PROVE  /\ Depth(a) \in Nat /\ DOMAIN call[a].stack = 1..Depth(a)
         /\ call[a].at # "idle" => /\ Depth(a) \in DOMAIN call[a].stack
                                   /\ Top(a) \in Frames /\ Name(a) \in Names
                                   /\ Name(a) \in OnStack(a)
                                   /\ Want(a) \subseteq Parts
                                   /\ Todo(a) \subseteq Parts \cup Names
         /\ call[a].at = "idle" => OnStack(a) = {}
         /\ OnStack(a) \subseteq Names
<1>1. call[a].stack \in Seq(Frames)
  BY DEF CallType, Calls
<1>2. /\ Depth(a) \in Nat /\ DOMAIN call[a].stack = 1..Depth(a)
      /\ \A i \in 1..Depth(a) : call[a].stack[i] \in Frames
  BY <1>1 DEF Depth
<1>3. call[a].at = "idle" <=> Depth(a) = 0
  BY DEF CallType, At
<1>4. call[a].at # "idle" => Depth(a) \in 1..Depth(a)
  BY <1>2, <1>3
<1>5. \A i \in 1..Depth(a) : /\ call[a].stack[i].name \in Names
                             /\ call[a].stack[i].want \subseteq Parts
                             /\ call[a].stack[i].todo \subseteq Parts \cup Names
  BY <1>2 DEF Frames
<1> QED
  BY <1>2, <1>3, <1>4, <1>5 DEF Top, Name, Want, Todo, OnStack, NamesOf

\* Requests other than a stay where they are.
Others(a) ==
  \A b \in Admins \ {a} :
    /\ call'[b] = call[b]
    /\ Name(b)' = Name(b) /\ Want(b)' = Want(b) /\ Todo(b)' = Todo(b)
    /\ OnStack(b)' = OnStack(b)

LEMMA CallChanges ==
  ASSUME CallType, NEW a \in Admins, NEW r \in Calls, call' = [call EXCEPT ![a] = r],
         r.at = "idle" <=> Len(r.stack) = 0, Len(r.stack) <= MaxDepth,
         r.at = "insert index" => r.item # None
  PROVE  Others(a) /\ CallType' /\ call'[a] = r
<1>1. call \in [Admins -> Calls] /\ call' \in [Admins -> Calls] /\ call'[a] = r
  BY DEF CallType
<1>2. \A b \in Admins \ {a} : call'[b] = call[b]
  BY <1>1
<1>3. Others(a)
  BY <1>2 DEF Others, Name, Want, Todo, OnStack, NamesOf, Top, Depth
<1>4. \A b \in Admins : /\ call'[b].at = "idle" <=> Len(call'[b].stack) = 0
                        /\ Len(call'[b].stack) <= MaxDepth
                        /\ call'[b].at = "insert index" => call'[b].item # None
  BY <1>1, <1>2 DEF CallType, At, Depth
<1> QED BY <1>1, <1>3, <1>4 DEF CallType, At, Depth

\* Labels inside of a call, except the one that needs an item.
Within(label) == label \in Labels \ {"idle", "insert index"}

\* The request a is at label, with todo left of want for n.
Now(a, label, n, want, todo) ==
  /\ Others(a)
  /\ CallType'
  /\ call'[a].at = label
  /\ Name(a)' = n /\ Want(a)' = want /\ Todo(a)' = todo

\* Going on within a call changes its top frame only, and no names.
\* The stack of a new request.
LEMMA OneFrame ==
  ASSUME NEW e \in Frames, NEW st, st = <<e>>
  PROVE  /\ st \in Seq(Frames) /\ Len(st) # 0 /\ Len(st) <= MaxDepth
         /\ st[Len(st)] = e
         /\ NamesOf(st) = {e.name}
<1>1. MaxDepth \in Nat \ {0}
  BY CatalogAssumption
<1>2. st \in Seq(Frames) /\ Len(st) = 1 /\ DOMAIN st = 1..1 /\ st[1] = e
  OBVIOUS
<1>3. \A i : i \in 1..1 <=> i = 1
  OBVIOUS
<1>4. NamesOf(st) = {e.name}
  BY <1>2, <1>3 DEF NamesOf
<1> QED BY <1>1, <1>2, <1>4

\* A stack whose frame k is replaced.
LEMMA FrameReplaced ==
  ASSUME NEW s \in Seq(Frames), NEW k \in 1..Len(s), NEW e \in Frames,
         NEW st, st = [s EXCEPT ![k] = e], NEW d, d = Len(s)
  PROVE  /\ st \in Seq(Frames) /\ Len(st) = d /\ DOMAIN st = 1..d
         /\ st[k] = e /\ \A i \in 1..d : i # k => st[i] = s[i]
BY ExceptSeq

\* Going on within a call changes its top frame only, and no names.
LEMMA GoFacts ==
  ASSUME CallType, NEW a \in Admins, ~At(a, "idle"),
         NEW label, Within(label), Go(a, label)
  PROVE  Now(a, label, Name(a), Want(a), Todo(a)) /\ OnStack(a)' = OnStack(a)
<1> DEFINE r == [call[a] EXCEPT !.at = label]
<1>1. call' = [call EXCEPT ![a] = r]
  BY DEF Go
<1>2. /\ r \in Calls /\ r.at = label /\ r.stack = call[a].stack
      /\ Len(r.stack) # 0 /\ Len(r.stack) <= MaxDepth
      /\ label # "idle" /\ label # "insert index"
  BY DEF CallType, Calls, At, Depth, Within
<1> HIDE DEF r
<1>3. Others(a) /\ CallType' /\ call'[a] = r
  BY <1>1, <1>2, CallChanges
<1>4. call'[a].stack = call[a].stack
  BY <1>2, <1>3
<1>5. Name(a)' = Name(a) /\ Want(a)' = Want(a) /\ Todo(a)' = Todo(a)
  BY <1>4 DEF Name, Want, Todo, Top, Depth
<1>6. OnStack(a)' = OnStack(a)
  BY <1>4 DEF OnStack, NamesOf
<1> QED
  BY <1>2, <1>3, <1>5, <1>6 DEF Now

LEMMA GoWithFacts ==
  ASSUME CallType, NEW a \in Admins, ~At(a, "idle"),
         NEW label, Within(label),
         NEW todo \in SUBSET (Parts \cup Names), GoWith(a, label, todo)
  PROVE  Now(a, label, Name(a), Want(a), todo) /\ OnStack(a)' = OnStack(a)
<1> DEFINE top == [Top(a) EXCEPT !.todo = todo]
           st == [call[a].stack EXCEPT ![Depth(a)] = top]
           r == [call[a] EXCEPT !.at = label, !.item = None, !.stack = st]
<1>0. /\ Depth(a) \in Nat /\ DOMAIN call[a].stack = 1..Depth(a)
      /\ Depth(a) \in 1..Len(call[a].stack) /\ Top(a) \in Frames
      /\ call[a].stack \in Seq(Frames) /\ call[a] \in Calls
      /\ Depth(a) # 0 /\ Depth(a) <= MaxDepth /\ Depth(a) = Len(call[a].stack)
  BY StackFacts DEF At, CallType, Calls, Depth
<1>1. call' = [call EXCEPT ![a] = r]
  BY DEF GoWith, Top
<1>2. top \in Frames /\ top.name = Name(a) /\ top.want = Want(a) /\ top.todo = todo
  BY <1>0 DEF Frames, Name, Want
<1>a. st = [call[a].stack EXCEPT ![Depth(a)] = top]
  OBVIOUS
<1> HIDE DEF top
<1>b. call' = [call EXCEPT ![a] = r] /\ r = [call[a] EXCEPT !.at = label, !.item = None, !.stack = st]
  BY <1>1
<1> HIDE DEF st
<1>3. /\ st \in Seq(Frames) /\ Len(st) = Depth(a)
      /\ st[Depth(a)] = top
      /\ \A i \in 1..Depth(a) : i # Depth(a) => st[i] = call[a].stack[i]
  <2>1. Depth(a) = Len(call[a].stack) /\ top \in Frames
    BY <1>0, <1>2
  <2>2. Depth(a) \in 1..Len(call[a].stack) /\ call[a].stack \in Seq(Frames)
    BY <1>0
  <2> QED BY <1>a, <2>1, <2>2, FrameReplaced
<1>5. /\ r \in Calls /\ r.at = label /\ r.stack = st
      /\ label # "idle" /\ label # "insert index"
  BY <1>0, <1>3 DEF Calls, Within
<1> HIDE DEF r
<1>6. Others(a) /\ CallType' /\ call'[a] = r
  BY <1>0, <1>1, <1>3, <1>5, CallChanges
<1>c. call'[a].stack = st
  BY <1>5, <1>6
<1>7. Name(a)' = Name(a) /\ Want(a)' = Want(a) /\ Todo(a)' = todo
  <2>1. Top(a)' = top
    BY <1>0, <1>3, <1>c DEF Top, Depth
  <2> QED BY <1>2, <2>1 DEF Name, Want, Todo
<1>8. \A i \in 1..Depth(a) : st[i].name = call[a].stack[i].name
  BY <1>0, <1>2, <1>3 DEF Name, Top
<1>d. DOMAIN st = 1..Depth(a)
  BY <1>3
<1>9. OnStack(a)' = OnStack(a)
  <2>1. OnStack(a)' = {st[i].name : i \in DOMAIN st}
    BY <1>c DEF OnStack, NamesOf
  <2> QED BY <2>1, <1>0, <1>d, <1>8 DEF OnStack, NamesOf
<1> QED BY <1>5, <1>6, <1>7, <1>9 DEF Now

LEMMA AnswerFacts ==
  ASSUME CallType, NEW a \in Admins, Answer(a)
  PROVE  Others(a) /\ CallType' /\ call'[a].at = "idle"
<1>1. Idle \in Calls
  BY DEF Idle, Calls, Labels
<1>2. Len(Idle.stack) = 0 /\ Idle.at = "idle" /\ MaxDepth \in Nat
  BY CatalogAssumption DEF Idle
<1>3. /\ Idle.at = "idle" <=> Len(Idle.stack) = 0
      /\ Len(Idle.stack) <= MaxDepth
      /\ Idle.at = "insert index" => Idle.item # None
  BY <1>2
<1> QED BY <1>1, <1>2, <1>3, CallChanges DEF Answer

LEMMA StartFacts ==
  ASSUME CallType, NEW a \in Admins,
         NEW label, Within(label), NEW n \in Names,
         NEW want \in SUBSET Parts, NEW cascade \in BOOLEAN,
         Start(a, label, n, want, cascade)
  PROVE  Now(a, label, n, want, want) /\ OnStack(a)' = {n}
<1> DEFINE frame == Frame(n, want, want)
           st == <<frame>>
           r == [at |-> label, stack |-> st, item |-> None, cascade |-> cascade]
<1>1. /\ frame \in Frames /\ frame.name = n /\ frame.want = want /\ frame.todo = want
  BY DEF Frame, Frames
<1>2. call' = [call EXCEPT ![a] = r]
  BY DEF Start
<1> HIDE DEF frame
<1>a. st = <<frame>> /\ frame \in Frames
  BY <1>1
<1>b. r.at = label /\ r.stack = st /\ r.item = None /\ r.cascade = cascade
  OBVIOUS
<1> HIDE DEF st
<1>3. /\ st \in Seq(Frames) /\ Len(st) # 0 /\ Len(st) <= MaxDepth
      /\ st[Len(st)] = frame
      /\ NamesOf(st) = {frame.name}
  BY <1>a, OneFrame
<1>4. /\ r \in Calls /\ r.at = label /\ r.stack = st
      /\ r.at # "idle" /\ r.at # "insert index"
      /\ Len(r.stack) # 0 /\ Len(r.stack) <= MaxDepth
  <2>1. r.at = label /\ r.stack = st
    BY <1>b
  <2>2. r \in Calls
    BY <1>3, Zenon DEF Calls, Within
  <2>3. r.at # "idle" /\ r.at # "insert index"
    BY <1>b DEF Within
  <2> QED BY <1>3, <2>1, <2>2, <2>3
<1> HIDE DEF r
<1>5. Others(a) /\ CallType' /\ call'[a] = r
  BY <1>2, <1>3, <1>4, CallChanges
<1>c. call'[a].stack = st
  BY <1>4, <1>5
<1>6. Name(a)' = n /\ Want(a)' = want /\ Todo(a)' = want
  <2>1. Top(a)' = frame
    BY <1>3, <1>c DEF Top, Depth
  <2> QED BY <1>1, <2>1 DEF Name, Want, Todo
<1>7. OnStack(a)' = {n}
  BY <1>1, <1>3, <1>c DEF OnStack
<1> QED BY <1>4, <1>5, <1>6, <1>7 DEF Now

\* CreateIndex goes on to the row of the index.
LEMMA ItemFacts ==
  ASSUME CallType, NEW a \in Admins, ~At(a, "idle"), NEW x \in Indexes,
         call' = [call EXCEPT ![a].at = "insert index", ![a].item = x]
  PROVE  /\ Now(a, "insert index", Name(a), Want(a), Todo(a))
         /\ OnStack(a)' = OnStack(a) /\ call'[a].item = x
<1> DEFINE r == [call[a] EXCEPT !.at = "insert index", !.item = x]
<1>1. call' = [call EXCEPT ![a] = r]
  OBVIOUS
<1>2. /\ r \in Calls /\ r.at = "insert index" /\ r.stack = call[a].stack /\ r.item = x
      /\ Len(r.stack) # 0 /\ Len(r.stack) <= MaxDepth
  BY DEF CallType, Calls, At, Depth, Labels, CreatePhases
<1>3. x # None
  BY CatalogAssumption DEF Parts
<1> HIDE DEF r
<1>4. Others(a) /\ CallType' /\ call'[a] = r
  BY <1>1, <1>2, <1>3, CallChanges
<1>5. call'[a].stack = call[a].stack
  BY <1>2, <1>4
<1>6. Name(a)' = Name(a) /\ Want(a)' = Want(a) /\ Todo(a)' = Todo(a)
  BY <1>5 DEF Name, Want, Todo, Top, Depth
<1>7. OnStack(a)' = OnStack(a)
  BY <1>5 DEF OnStack, NamesOf
<1> QED
  BY <1>2, <1>4, <1>6, <1>7 DEF Now

\* The recursive call of DropCollection puts its name on the stack.
LEMMA PushFacts ==
  ASSUME CallType, NEW a \in Admins, ~At(a, "idle"), Depth(a) < MaxDepth,
         NEW dep \in Names, NEW todo \in SUBSET (Parts \cup Names),
         call' = [call EXCEPT
           ![a].at = "dependents",
           ![a].stack = Append([@ EXCEPT ![Depth(a)].todo = todo], Frame(dep, {}, {}))]
  PROVE  /\ Others(a) /\ CallType' /\ call'[a].at = "dependents"
         /\ Name(a)' = dep /\ OnStack(a)' = OnStack(a) \cup {dep}
<1> DEFINE top == [Top(a) EXCEPT !.todo = todo]
           st == [call[a].stack EXCEPT ![Depth(a)] = top]
           frame == Frame(dep, {}, {})
           st2 == Append(st, frame)
           r == [call[a] EXCEPT !.at = "dependents", !.stack = st2]
<1>0. /\ Depth(a) \in Nat /\ DOMAIN call[a].stack = 1..Depth(a)
      /\ Depth(a) \in 1..Len(call[a].stack) /\ Top(a) \in Frames
      /\ call[a].stack \in Seq(Frames) /\ call[a] \in Calls
      /\ Depth(a) # 0 /\ Depth(a) = Len(call[a].stack)
  BY StackFacts DEF At, CallType, Calls, Depth
<1>1. call' = [call EXCEPT ![a] = r]
  BY DEF Top
<1>2. top \in Frames /\ top.name = Name(a) /\ frame \in Frames /\ frame.name = dep
  BY <1>0 DEF Frames, Name, Frame
<1>a. st = [call[a].stack EXCEPT ![Depth(a)] = top]
  OBVIOUS
<1> HIDE DEF top, frame
<1>b. r = [call[a] EXCEPT !.at = "dependents", !.stack = Append(st, frame)]
  OBVIOUS
<1> HIDE DEF st
<1>3. /\ st \in Seq(Frames) /\ Len(st) = Depth(a)
      /\ st[Depth(a)] = top
      /\ \A i \in 1..Depth(a) : i # Depth(a) => st[i] = call[a].stack[i]
  <2>1. Depth(a) = Len(call[a].stack) /\ top \in Frames
    BY <1>0, <1>2
  <2>2. Depth(a) \in 1..Len(call[a].stack) /\ call[a].stack \in Seq(Frames)
    BY <1>0
  <2> QED BY <1>a, <2>1, <2>2, FrameReplaced
<1>4. /\ st2 \in Seq(Frames) /\ Len(st2) = Depth(a) + 1
      /\ \A i \in 1..Depth(a) : st2[i] = st[i]
      /\ st2[Depth(a) + 1] = frame
  BY <1>2, <1>3, AppendProperties
<1>5. DOMAIN st2 = 1..(Depth(a) + 1)
  BY <1>0, <1>4
<1> HIDE DEF st2
<1>6. /\ r \in Calls /\ r.at = "dependents" /\ r.stack = st2
      /\ Len(r.stack) # 0 /\ Len(r.stack) <= MaxDepth
  <2>1. MaxDepth \in Nat
    BY CatalogAssumption
  <2>2. r \in Calls /\ r.at = "dependents" /\ r.stack = st2
    BY <1>0, <1>4 DEF Calls, Labels, DropPhases
  <2> QED BY <1>0, <1>4, <2>1, <2>2
<1> HIDE DEF r
<1>7. Others(a) /\ CallType' /\ call'[a] = r
  BY <1>0, <1>1, <1>4, <1>6, CallChanges
<1>c. call'[a].stack = st2
  BY <1>6, <1>7
<1>8. Name(a)' = dep
  <2>1. Top(a)' = frame
    BY <1>4, <1>c DEF Top, Depth
  <2> QED BY <1>2, <2>1 DEF Name
<1>9. \A i \in 1..Depth(a) : st2[i].name = call[a].stack[i].name
  BY <1>0, <1>2, <1>3, <1>4 DEF Name, Top
<1>10. \A i : i \in 1..(Depth(a) + 1) <=> i \in 1..Depth(a) \/ i = Depth(a) + 1
  BY <1>0
<1>11. OnStack(a)' = OnStack(a) \cup {dep}
  <2>1. OnStack(a)' = {st2[i].name : i \in DOMAIN st2}
    BY <1>c DEF OnStack, NamesOf
  <2>2. OnStack(a) = {call[a].stack[i].name : i \in 1..Depth(a)}
    BY <1>0 DEF OnStack, NamesOf
  <2> QED BY <1>2, <1>4, <1>5, <1>9, <1>10, <2>1, <2>2
<1> QED BY <1>6, <1>7, <1>8, <1>11

\* DropCollection returns: the request is idle, or back in the loop of the
\* call below, and its stack has no new name.
LEMMA LeaveFacts ==
  ASSUME CallType, NEW a \in Admins, ~At(a, "idle"), Leave(a)
  PROVE  /\ Others(a) /\ CallType' /\ call'[a].at \in {"idle", "loop"}
         /\ call'[a].at = "loop" => OnStack(a)' \subseteq OnStack(a)
<1>0. /\ Depth(a) \in Nat /\ DOMAIN call[a].stack = 1..Depth(a)
      /\ call[a].stack \in Seq(Frames) /\ call[a] \in Calls
      /\ Depth(a) # 0 /\ Depth(a) = Len(call[a].stack) /\ Depth(a) <= MaxDepth
  BY StackFacts DEF At, CallType, Calls, Depth
<1>1. CASE Depth(a) = 1
  BY <1>1, AnswerFacts DEF Leave
<1>2. CASE Depth(a) # 1
  <2> DEFINE k == Depth(a) - 1
             st == SubSeq(call[a].stack, 1, k)
             r == [call[a] EXCEPT !.at = "loop", !.stack = st]
  <2>1. call' = [call EXCEPT ![a] = r]
    BY <1>2 DEF Leave
  <2>0. MaxDepth \in Nat
    BY CatalogAssumption
  <2>2. k \in Nat /\ 1 <= k /\ k # 0 /\ k + 1 = Depth(a) /\ k <= MaxDepth
    <3>1. Depth(a) \in Nat /\ Depth(a) # 0 /\ Depth(a) # 1 /\ Depth(a) <= MaxDepth
      BY <1>0, <1>2
    <3> QED BY <2>0, <3>1
  <2>3. \A i \in 1..k : call[a].stack[i] \in Frames
    BY <1>0, <2>2, ElementOfSeq
  <2> HIDE DEF k
  <2>4. st \in Seq(Frames) /\ Len(st) = k /\ \A i \in 1..k : st[i] = call[a].stack[i]
    BY <2>2, <2>3, SubSeqProperties
  <2>5. DOMAIN st = 1..k
    BY <2>4
  <2> HIDE DEF st
  <2>6. /\ r \in Calls /\ r.at = "loop" /\ r.stack = st
        /\ Len(r.stack) # 0 /\ Len(r.stack) <= MaxDepth
    BY <1>0, <2>2, <2>4 DEF Calls, Labels, DropPhases
  <2> HIDE DEF r
  <2>7. Others(a) /\ CallType' /\ call'[a] = r
    BY <2>1, <2>2, <2>4, <2>6, CallChanges
  <2>8. OnStack(a)' \subseteq OnStack(a)
    <3>1. call'[a].stack = st
      BY <2>6, <2>7
    <3>2. OnStack(a)' = {call[a].stack[i].name : i \in 1..k}
      BY <2>4, <2>5, <3>1 DEF OnStack, NamesOf
    <3>3. OnStack(a) = {call[a].stack[i].name : i \in 1..Depth(a)}
      BY <1>0 DEF OnStack, NamesOf
    <3>4. 1..k \subseteq 1..Depth(a)
      BY <1>0, <2>2
    <3> QED BY <3>2, <3>3, <3>4
  <2> QED BY <2>6, <2>7, <2>8
<1> QED BY <1>1, <1>2
-----------------------------------------------------------------------------
(***************************************************************************)
(* Every step keeps the invariant.                                         *)
(***************************************************************************)
RestType ==
  /\ tables \subseteq Names
  /\ columns \in [Names -> SUBSET Parts]
  /\ rows \subseteq Names
  /\ parts \in [Names -> SUBSET Parts]
  /\ published \subseteq Names
  /\ shape \in [Names -> SUBSET Parts]
  /\ calls \in 0..MaxCalls /\ faults \in 0..MaxFaults
  /\ outcome \in [Names -> {"open", "created", "reloaded", "dropped"}]
  /\ raced \subseteq Names

LEMMA TypeSplit ==
  /\ TypeOK <=> CallType /\ RestType
  /\ TypeOK' <=> CallType' /\ RestType'
BY DEF TypeOK, CallType, RestType, Calls, Labels

\* A step of a opens nothing new: it makes and drops what it made and
\* dropped before, or less.
Shrinks(a) ==
  \A n : /\ Making(a, n)' => Making(a, n)
         /\ Dropping(a, n)' => Dropping(a, n)

LEMMA OtherCalls ==
  ASSUME NEW a \in Admins, Others(a)
  PROVE  \A b \in Admins : b # a =>
           /\ Want(b)' = Want(b) /\ Todo(b)' = Todo(b)
           /\ \A n : /\ Making(b, n)' <=> Making(b, n)
                     /\ Dropping(b, n)' <=> Dropping(b, n)
                     /\ Inserting(b, n)' <=> Inserting(b, n)
                     /\ Opening(b, n)' <=> Opening(b, n)
BY DEF Others, Making, Dropping, Inserting, Opening

LEMMA FormStays ==
  ASSUME FormInv, NEW a \in Admins, Others(a), FormOf(a)'
  PROVE  FormInv'
BY DEF FormInv, FormOf, Others, At

LEMMA ApartStays ==
  ASSUME Apart, NEW a \in Admins, Others(a), Shrinks(a), raced' = raced
  PROVE  Apart'
BY DEF Apart, Making, Dropping, Others, Shrinks

LEMMA OutcomeStays ==
  ASSUME OutcomeInv, NEW a \in Admins, Others(a), Shrinks(a),
         raced' = raced, outcome' = outcome
  PROVE  OutcomeInv'
BY DEF OutcomeInv, Making, Dropping, Others, Shrinks

\* A step that drops nothing, and leaves alone what others drop.
LEMMA DropStays ==
  ASSUME DropInv, NEW a \in Admins, Others(a), raced' = raced,
         call'[a].at \notin DropPhases \/ call'[a].at \in {"dependents", "loop"},
         \A b \in Admins, n \in Names \ raced :
           b # a /\ call[b].at \in DropPhases /\ Name(b) = n =>
             /\ n \in tables' => n \in tables
             /\ n \in rows' => n \in rows
             /\ parts'[n] \subseteq parts[n]
  PROVE  DropInv'
<1>1. \A n : call'[a].at \in DropPhases => DropOf(a, n)'
  BY DEF DropOf, At, DropPhases
<1>2. \A b \in Admins, n \in Names \ raced :
        b # a /\ call'[b].at \in DropPhases /\ Name(b)' = n => DropOf(b, n)'
  BY DEF DropInv, DropOf, At, Others
<1> QED BY <1>1, <1>2 DEF DropInv

\* Steps that change neither the rows nor what is in memory, and do not
\* begin anything.
LEMMA Quiet ==
  ASSUME IInv, NEW a \in Admins, Others(a), Shrinks(a), FormOf(a)',
         CallType', RestType',
         UNCHANGED <<tables, rows, parts, memory, history>>,
         call'[a].at \notin {"create table", "insert collection", "delete fields",
                             "delete indexes", "delete row", "unpublish"},
         \A n : Inserting(a, n)' => /\ Inserting(a, n)
                                    /\ Want(a)' = Want(a) /\ Todo(a)' = Todo(a)
  PROVE  IInv'
<1>0. /\ FormInv /\ Apart /\ Saved /\ Alone /\ TableFirst /\ NameTaken
      /\ DropInv /\ OutcomeInv
      /\ LeftoversListed /\ CreatedLasts /\ DroppedIsGone
  BY DEF IInv, InsertInv
<1>1. TypeOK'
  BY TypeSplit
<1>2. FormInv' /\ Apart' /\ OutcomeInv'
  BY <1>0, FormStays, ApartStays, OutcomeStays DEF history
<1>a. \A b \in Admins : \A n : Inserting(b, n)' => /\ Inserting(b, n)
                                                 /\ Want(b)' = Want(b) /\ Todo(b)' = Todo(b)
  BY OtherCalls
<1>3. Saved'
  BY <1>0, <1>a DEF Saved, memory, history
<1>4. Alone'
  BY <1>0, <1>a DEF Alone, history
<1>5. TableFirst'
  BY <1>0 DEF TableFirst, At, Others, history
<1>6. NameTaken'
  BY <1>0 DEF NameTaken, Opening, Others, memory, history
<1>7. DropInv'
  BY <1>0, DropStays DEF memory, history, DropPhases
<1>8. LeftoversListed' /\ CreatedLasts' /\ DroppedIsGone'
  BY <1>0 DEF LeftoversListed, CreatedLasts, DroppedIsGone, memory, history
<1> QED
  BY <1>1, <1>2, <1>3, <1>4, <1>5, <1>6, <1>7, <1>8 DEF IInv, InsertInv

\* An answer that changes nothing else: errors, and the end of Sync.
LEMMA Answers ==
  ASSUME IInv, NEW a \in Admins, Answer(a), RestType',
         UNCHANGED <<tables, rows, parts, memory, history>>
  PROVE  IInv'
<1>1. CallType
  BY TypeSplit DEF IInv
<1>2. Others(a) /\ CallType' /\ call'[a].at = "idle"
  BY <1>1, AnswerFacts
<1>3. FormOf(a)'
  BY <1>2 DEF FormOf, At, CreatePhases, SyncPhases
<1>4. Shrinks(a) /\ \A n : ~Inserting(a, n)'
  BY <1>2 DEF Shrinks, Making, Dropping, Inserting, CreatePhases, SyncPhases, DropPhases
<1> QED BY <1>2, <1>3, <1>4, Quiet
\* Another part for one collection, in columns or in parts.
LEMMA PartAdded ==
  ASSUME NEW g \in [Names -> SUBSET Parts], NEW m \in Names, NEW i \in Parts,
         NEW h, h = [g EXCEPT ![m] = @ \cup {i}]
  PROVE  /\ h \in [Names -> SUBSET Parts]
         /\ h[m] = g[m] \cup {i} /\ \A n \in Names : n # m => h[n] = g[n]
OBVIOUS

\* A request that goes on within its call, with less to do.
LEMMA GoesOn ==
  ASSUME IInv, NEW a \in Admins, ~At(a, "idle"), RestType',
         NEW label, NEW todo, Now(a, label, Name(a), Want(a), todo),
         OnStack(a)' = OnStack(a),
         \/ call[a].at \in DropPhases /\ label = "loop"
         \/ call[a].at \in SyncPhases /\ label = "add columns" /\ todo \subseteq Want(a)
         \/ /\ At(a, "insert parts") /\ label = "insert index"
            /\ todo = Todo(a) /\ call'[a].item \in todo,
         UNCHANGED <<tables, rows, parts, memory, history>>
  PROVE  IInv'
<1>0. FormOf(a)
  BY DEF IInv, FormInv
<1>1. /\ Others(a) /\ CallType' /\ call'[a].at = label
      /\ Name(a)' = Name(a) /\ Want(a)' = Want(a) /\ Todo(a)' = todo
  BY DEF Now
<1>2. FormOf(a)'
  BY <1>0, <1>1 DEF FormOf, At, CreatePhases, SyncPhases, DropPhases
<1>3. Shrinks(a)
  BY <1>1 DEF Shrinks, Making, Dropping, At, CreatePhases, SyncPhases, DropPhases
<1>4. \A n : Inserting(a, n)' => /\ Inserting(a, n)
                                 /\ Want(a)' = Want(a) /\ Todo(a)' = Todo(a)
  BY <1>1 DEF Inserting, At, SyncPhases, DropPhases
<1> QED BY <1>1, <1>2, <1>3, <1>4, Quiet

LEMMA DependentsKeeps ==
  ASSUME IInv, NEW a \in Admins, Dependents(a)
  PROVE  IInv'
<1>0. CallType /\ RestType /\ ~At(a, "idle") /\ call[a].at \in DropPhases
  BY TypeSplit DEF IInv, Dependents, At, DropPhases
<1>1. RestType' /\ UNCHANGED <<tables, rows, parts, memory, history>>
  BY <1>0 DEF RestType, Dependents, stored, memory, history
<1>2. CASE Answer(a)
  BY <1>1, <1>2, Answers
<1>3. CASE GoWith(a, "loop", DependentsOf(Name(a)))
  <2>1. DependentsOf(Name(a)) \in SUBSET (Parts \cup Names)
    BY <1>0 DEF DependentsOf, RestType
  <2>2. Within("loop")
    BY DEF Within, Labels, DropPhases
  <2>3. /\ Now(a, "loop", Name(a), Want(a), DependentsOf(Name(a)))
        /\ OnStack(a)' = OnStack(a)
    BY <1>0, <1>3, <2>1, <2>2, GoWithFacts
  <2> QED BY <1>0, <1>1, <2>3, GoesOn
<1> QED BY <1>2, <1>3 DEF Dependents

LEMMA ReadColumnsKeeps ==
  ASSUME IInv, NEW a \in Admins, ReadColumns(a)
  PROVE  IInv'
<1> DEFINE todo == (Want(a) \cap Fields) \ columns[Name(a)]
<1>0. CallType /\ RestType /\ ~At(a, "idle") /\ call[a].at \in SyncPhases
  BY TypeSplit DEF IInv, ReadColumns, At, SyncPhases
<1>1. RestType' /\ UNCHANGED <<tables, rows, parts, memory, history>>
  BY <1>0 DEF RestType, ReadColumns, stored, memory, history
<1>2. todo \subseteq Want(a) /\ Want(a) \subseteq Parts
  BY <1>0, StackFacts DEF At
<1>3. Within("add columns")
  BY DEF Within, Labels, SyncPhases
<1>4. GoWith(a, "add columns", todo)
  BY DEF ReadColumns, Want
<1> HIDE DEF todo
<1>5. Now(a, "add columns", Name(a), Want(a), todo) /\ OnStack(a)' = OnStack(a)
  BY <1>0, <1>2, <1>3, <1>4, GoWithFacts
<1> QED BY <1>0, <1>1, <1>2, <1>5, GoesOn

LEMMA AddColumnKeeps ==
  ASSUME IInv, NEW a \in Admins, AddColumn(a)
  PROVE  IInv'
<1>0. CallType /\ RestType /\ ~At(a, "idle") /\ call[a].at \in SyncPhases
  BY TypeSplit DEF IInv, AddColumn, At, SyncPhases
<1>1. Name(a) \in Names /\ Want(a) \subseteq Parts /\ Todo(a) \subseteq Want(a)
  BY <1>0, StackFacts DEF At, IInv, FormInv, FormOf
<1>2. UNCHANGED <<tables, rows, parts, memory, calls, faults, history>>
  BY DEF AddColumn
<1>3. PICK f \in Todo(a) :
        \/ /\ columns' = [columns EXCEPT ![Name(a)] = @ \cup {f}]
           /\ GoWith(a, "add columns", Todo(a) \ {f})
        \/ Answer(a) /\ columns' = columns
  BY DEF AddColumn
<1>4. RestType'
  BY <1>0, <1>1, <1>2, <1>3 DEF RestType, memory, history
<1>5. CASE Answer(a)
  BY <1>2, <1>4, <1>5, Answers
<1>6. CASE GoWith(a, "add columns", Todo(a) \ {f})
  <2> DEFINE todo == Todo(a) \ {f}
  <2>1. Within("add columns") /\ todo \subseteq Want(a)
    BY <1>1 DEF Within, Labels, SyncPhases
  <2> HIDE DEF todo
  <2>2. Now(a, "add columns", Name(a), Want(a), todo) /\ OnStack(a)' = OnStack(a)
    BY <1>0, <1>1, <1>6, <2>1, GoWithFacts DEF todo
  <2> QED BY <1>0, <1>2, <1>4, <2>1, <2>2, GoesOn
<1> QED BY <1>3, <1>5, <1>6

LEMMA CreateIndexKeeps ==
  ASSUME IInv, NEW a \in Admins, CreateIndex(a)
  PROVE  IInv'
<1>0. CallType /\ RestType /\ ~At(a, "idle") /\ At(a, "insert parts")
  BY TypeSplit DEF IInv, CreateIndex, At
<1>1. Name(a) \in Names /\ Want(a) \subseteq Parts /\ Todo(a) \subseteq Want(a)
  BY <1>0, StackFacts DEF At, IInv, FormInv, FormOf, CreatePhases
<1>2. UNCHANGED <<tables, rows, parts, memory, calls, faults, history>>
  BY DEF CreateIndex
<1>3. PICK x \in Todo(a) :
        \/ /\ columns' = columns \/ columns' = [columns EXCEPT ![Name(a)] = @ \cup {x}]
           /\ call' = [call EXCEPT ![a].at = "insert index", ![a].item = x]
        \/ Answer(a) /\ columns' = columns
  BY DEF CreateIndex
<1>4. x \in Indexes
  BY <1>1, <1>3 DEF CreateIndex, Parts
<1>a. columns' \in [Names -> SUBSET Parts]
  <2>1. x \in Parts
    BY <1>4 DEF Parts
  <2>2. columns' = columns \/ columns' = [columns EXCEPT ![Name(a)] = @ \cup {x}]
    BY <1>3
  <2>3. columns \in [Names -> SUBSET Parts] /\ Name(a) \in Names
    BY <1>0, <1>1 DEF RestType
  <2> QED BY <2>1, <2>2, <2>3, PartAdded
<1>5. RestType'
  BY <1>0, <1>2, <1>a DEF RestType, memory, history
<1>6. CASE Answer(a)
  BY <1>2, <1>5, <1>6, Answers
<1>7. CASE call' = [call EXCEPT ![a].at = "insert index", ![a].item = x]
  <2>1. /\ Now(a, "insert index", Name(a), Want(a), Todo(a))
        /\ OnStack(a)' = OnStack(a) /\ call'[a].item = x
    BY <1>0, <1>4, <1>7, ItemFacts
  <2> QED BY <1>0, <1>2, <1>3, <1>5, <2>1, GoesOn
<1> QED BY <1>3, <1>6, <1>7

LEMMA SyncedKeeps ==
  ASSUME IInv, NEW a \in Admins, Synced(a)
  PROVE  IInv'
<1>1. RestType' /\ UNCHANGED <<tables, rows, parts, memory, history>> /\ Answer(a)
  BY TypeSplit DEF IInv, RestType, Synced, stored, memory, history
<1> QED BY <1>1, Answers

LEMMA BreakKeeps ==
  ASSUME IInv, NEW a \in Admins, Break(a)
  PROVE  IInv'
<1>1. faults' \in 0..MaxFaults
  BY TypeSplit, CatalogAssumption DEF IInv, RestType, Break
<1>2. RestType' /\ UNCHANGED <<tables, rows, parts, memory, history>> /\ Answer(a)
  BY <1>1, TypeSplit DEF IInv, RestType, Break, stored, memory, history
<1> QED BY <1>2, Answers

\* What a drop is at work on is on its stack.
LEMMA TopIsDropped ==
  ASSUME CallType, NEW b \in Admins, call[b].at \in DropPhases
  PROVE  Dropping(b, Name(b))
BY StackFacts DEF Dropping, DropPhases

\* CREATE TABLE IF NOT EXISTS in CreateCollection and in Sync.
MakesTable(a, label) ==
  /\ \/ At(a, "create table") /\ label = "insert collection"
     \/ At(a, "sync table") /\ label = "read columns"
  /\ MakeTable(Name(a), Want(a))
  /\ Go(a, label)
  /\ UNCHANGED <<rows, parts, memory, calls, faults, history>>

LEMMA TableMade ==
  ASSUME IInv, NEW a \in Admins, NEW label, MakesTable(a, label)
  PROVE  IInv'
<1> DEFINE m == Name(a)
<1>0. /\ FormInv /\ Apart /\ Saved /\ Alone /\ TableFirst /\ NameTaken
      /\ DropInv /\ OutcomeInv
      /\ LeftoversListed /\ CreatedLasts /\ DroppedIsGone
      /\ CallType /\ RestType
      /\ \/ call[a].at = "create table" /\ label = "insert collection"
         \/ call[a].at = "sync table" /\ label = "read columns"
  BY TypeSplit DEF IInv, InsertInv, MakesTable, At
<1>1. /\ tables' = tables \cup {m} /\ columns' = IF m \in tables THEN columns
                                               ELSE [columns EXCEPT ![m] = InTable(Want(a))]
      /\ UNCHANGED <<rows, parts, memory, calls, faults, history>>
  BY DEF MakesTable, MakeTable
<1>2. m \in Names /\ Want(a) \subseteq Parts
  BY <1>0, StackFacts
<1>3. Now(a, label, m, Want(a), Todo(a)) /\ OnStack(a)' = OnStack(a)
  <2>1. Within(label)
    BY <1>0 DEF Within, Labels, CreatePhases, SyncPhases
  <2> QED BY <1>0, <2>1, GoFacts DEF MakesTable, At
<1>4. /\ Others(a) /\ CallType' /\ call'[a].at = label
      /\ Name(a)' = m /\ Want(a)' = Want(a) /\ Todo(a)' = Todo(a)
  BY <1>3 DEF Now
<1>5. \A n : /\ Making(a, n) <=> n = m
             /\ Making(a, n)' <=> n = m
             /\ ~Dropping(a, n)' /\ ~Inserting(a, n)'
             /\ Opening(a, n)' => Opening(a, n)
  BY <1>0, <1>4 DEF Making, Dropping, Inserting, Opening, CreatePhases, SyncPhases, DropPhases
<1> HIDE DEF m
<1>6. TypeOK'
  <2>1. columns' \in [Names -> SUBSET Parts]
    BY <1>0, <1>1, <1>2 DEF RestType, InTable
  <2> QED BY <1>0, <1>1, <1>2, <1>4, <2>1, TypeSplit DEF RestType, memory, history
<1>7. FormInv'
  <2>1. FormOf(a)'
    BY <1>0, <1>4 DEF FormInv, FormOf, At, CreatePhases, SyncPhases
  <2> QED BY <1>0, <1>4, <2>1, FormStays
<1>8. Apart' /\ OutcomeInv'
  BY <1>0, <1>1, <1>4, <1>5, ApartStays, OutcomeStays DEF Shrinks, history
<1>9. Saved' /\ Alone' /\ NameTaken'
  <2>1. \A b \in Admins : \A n : Inserting(b, n)' => /\ Inserting(b, n)
                                                   /\ Want(b)' = Want(b) /\ Todo(b)' = Todo(b)
    BY <1>4, <1>5, OtherCalls
  <2>2. Saved'
    BY <1>0, <1>1, <2>1 DEF Saved, memory, history
  <2>3. Alone'
    BY <1>0, <1>1, <2>1 DEF Alone, history
  <2>4. NameTaken'
    BY <1>0, <1>1, <1>4, <1>5, OtherCalls DEF NameTaken, memory, history
  <2> QED BY <2>2, <2>3, <2>4
<1>10. TableFirst'
  BY <1>0, <1>1, <1>4 DEF TableFirst, At, Others, history
<1>11. DropInv'
  <2>1. \A b \in Admins : Name(b) = m /\ m \notin raced => call[b].at \notin DropPhases
    BY <1>0, <1>2, <1>5, TopIsDropped DEF Apart
  <2> QED BY <1>0, <1>1, <1>4, <2>1, DropStays DEF DropPhases, history
<1>12. LeftoversListed' /\ CreatedLasts'
  BY <1>0, <1>1 DEF LeftoversListed, CreatedLasts, memory, history
<1>13. DroppedIsGone'
  BY <1>0, <1>1, <1>2, <1>5 DEF DroppedIsGone, OutcomeInv, memory, history
<1> QED
  BY <1>6, <1>7, <1>8, <1>9, <1>10, <1>11, <1>12, <1>13 DEF IInv, InsertInv

LEMMA CreateTableKeeps ==
  ASSUME IInv, NEW a \in Admins, CreateTable(a)
  PROVE  IInv'
<1>1. MakesTable(a, "insert collection")
  BY DEF CreateTable, MakesTable, Want
<1> QED BY <1>1, TableMade

LEMMA SyncTableKeeps ==
  ASSUME IInv, NEW a \in Admins, SyncTable(a)
  PROVE  IInv'
<1>1. CASE MakesTable(a, "read columns")
  BY <1>1, TableMade
<1>2. CASE ~MakesTable(a, "read columns")
  <2>1. Answer(a) /\ UNCHANGED <<tables, columns, rows, parts, memory, calls, faults, history>>
    BY <1>2 DEF SyncTable, MakesTable, Want
  <2>2. RestType'
    BY <2>1, TypeSplit DEF IInv, RestType, memory, history
  <2> QED BY <2>1, <2>2, Answers
<1> QED BY <1>1, <1>2

LEMMA InsertCollectionKeeps ==
  ASSUME IInv, NEW a \in Admins, InsertCollection(a)
  PROVE  IInv'
<1> DEFINE m == Name(a)
<1>0. /\ FormInv /\ Apart /\ Saved /\ Alone /\ TableFirst /\ NameTaken
      /\ DropInv /\ OutcomeInv
      /\ LeftoversListed /\ CreatedLasts /\ DroppedIsGone
      /\ CallType /\ RestType /\ call[a].at = "insert collection"
  BY TypeSplit DEF IInv, InsertInv, InsertCollection, At
<1>1. UNCHANGED <<tables, columns, parts, memory, calls, faults, history>>
  BY DEF InsertCollection
<1>2. m \in Names /\ Want(a) \subseteq Parts
  BY <1>0, StackFacts
<1>3. CASE m \in rows
  <2>1. Answer(a) /\ rows' = rows
    BY <1>3 DEF InsertCollection
  <2>2. RestType'
    BY <1>0, <1>1, <2>1 DEF RestType, memory, history
  <2> QED BY <1>1, <2>1, <2>2, Answers
<1>4. CASE m \notin rows
  <2>1. rows' = rows \cup {m} /\ Go(a, "insert parts")
    BY <1>4 DEF InsertCollection
  <2>2. Now(a, "insert parts", m, Want(a), Todo(a)) /\ OnStack(a)' = OnStack(a)
    <3>1. Within("insert parts")
      BY DEF Within, Labels, CreatePhases
    <3> QED BY <1>0, <2>1, <3>1, GoFacts DEF At
  <2>3. /\ Others(a) /\ CallType' /\ call'[a].at = "insert parts"
        /\ Name(a)' = m /\ Want(a)' = Want(a) /\ Todo(a)' = Todo(a)
    BY <2>2 DEF Now
  <2>4. \A n : /\ Making(a, n) <=> n = m
               /\ Making(a, n)' <=> n = m
               /\ Inserting(a, n)' <=> n = m
               /\ Opening(a, n) <=> n = m
               /\ ~Dropping(a, n)' /\ ~Opening(a, n)'
    BY <1>0, <2>3 DEF Making, Dropping, Inserting, Opening, CreatePhases, SyncPhases, DropPhases
  <2>5. Todo(a) = Want(a) /\ (m \notin raced => m \in tables)
    BY <1>0, <1>2 DEF FormInv, FormOf, TableFirst, At
  <2> HIDE DEF m
  <2>6. TypeOK'
    BY <1>0, <1>1, <1>2, <2>1, <2>3, TypeSplit DEF RestType, memory, history
  <2>7. FormInv'
    <3>1. FormOf(a)'
      BY <1>0, <2>3, <2>5 DEF FormOf, At
    <3> QED BY <1>0, <2>3, <3>1, FormStays
  <2>8. Apart' /\ OutcomeInv'
    BY <1>0, <1>1, <2>3, <2>4, ApartStays, OutcomeStays DEF Shrinks, history
  <2>9. Saved' /\ Alone'
    <3>1. m \notin raced => m \notin published /\ parts[m] = {}
      BY <1>0, <1>2, <1>4, <2>4 DEF NameTaken, LeftoversListed
    <3>2. \A b \in Admins : m \notin raced => ~Inserting(b, m)
      BY <1>0, <1>2, <1>4 DEF Saved
    <3>3. \A b \in Admins, n \in Names \ raced : b # a /\ Inserting(b, n)' => n # m
      BY <1>2, <2>3, <3>2, OtherCalls
    <3>4. \A n \in Names \ raced : Inserting(a, n)' =>
            n \in tables' /\ n \in rows' /\ n \notin published' /\ parts'[n] = Want(a)' \ Todo(a)'
      BY <1>1, <2>1, <2>3, <2>4, <2>5, <3>1 DEF memory
    <3>5. \A b \in Admins, n \in Names \ raced : b # a /\ Inserting(b, n)' =>
            n \in tables' /\ n \in rows' /\ n \notin published' /\ parts'[n] = Want(b)' \ Todo(b)'
      BY <1>0, <1>1, <2>1, <2>3, OtherCalls DEF Saved, memory
    <3>6. Saved'
      BY <1>1, <3>4, <3>5 DEF Saved, history
    <3>7. ASSUME NEW b \in Admins, NEW c \in Admins, NEW n \in Names \ raced',
                 Inserting(b, n)', Inserting(c, n)'
          PROVE b = c
      <4>1. n \in Names \ raced
        BY <1>1 DEF history
      <4>2. CASE b # a /\ c # a
        <5>1. Inserting(b, n) /\ Inserting(c, n)
          BY <2>3, <3>7, <4>2, OtherCalls
        <5> QED BY <1>0, <4>1, <5>1 DEF Alone
      <4>3. CASE b = a \/ c = a
        <5>1. n = m
          BY <2>4, <3>7, <4>1, <4>3
        <5> QED BY <3>3, <3>7, <4>1, <4>3, <5>1
      <4> QED BY <4>2, <4>3
    <3>8. Alone'
      BY <3>7 DEF Alone
    <3> QED BY <3>6, <3>8
  <2>10. TableFirst'
    BY <1>0, <1>1, <2>3 DEF TableFirst, At, Others, history
  <2>11. NameTaken'
    BY <1>0, <1>1, <2>1, <2>3, <2>4, OtherCalls DEF NameTaken, memory, history
  <2>12. DropInv'
    <3>1. \A b \in Admins : Name(b) = m /\ m \notin raced => call[b].at \notin DropPhases
      BY <1>0, <1>2, <2>4, TopIsDropped DEF Apart
    <3> QED BY <1>0, <1>1, <2>1, <2>3, <3>1, DropStays DEF DropPhases, history
  <2>13. LeftoversListed' /\ CreatedLasts'
    BY <1>0, <1>1, <2>1 DEF LeftoversListed, CreatedLasts, memory, history
  <2>14. DroppedIsGone'
    BY <1>0, <1>1, <1>2, <2>1, <2>4 DEF DroppedIsGone, OutcomeInv, memory, history
  <2> QED
    BY <2>6, <2>7, <2>8, <2>9, <2>10, <2>11, <2>12, <2>13, <2>14 DEF IInv, InsertInv
<1> QED BY <1>3, <1>4

\* InsertField and InsertIndex.
SavesPart(a, i) ==
  /\ call[a].at \in {"insert parts", "insert index"}
  /\ i \in Todo(a)
  /\ parts' = [parts EXCEPT ![Name(a)] = @ \cup {i}]
  /\ GoWith(a, "insert parts", Todo(a) \ {i})
  /\ UNCHANGED <<tables, columns, rows, memory, calls, faults, history>>

LEMMA SavePart ==
  ASSUME IInv, NEW a \in Admins, NEW i, SavesPart(a, i)
  PROVE  IInv'
<1> DEFINE m == Name(a)
           todo == Todo(a) \ {i}
<1>0. /\ FormInv /\ Apart /\ Saved /\ Alone /\ TableFirst /\ NameTaken
      /\ DropInv /\ OutcomeInv
      /\ LeftoversListed /\ CreatedLasts /\ DroppedIsGone
      /\ CallType /\ RestType /\ call[a].at \in {"insert parts", "insert index"}
  BY TypeSplit DEF IInv, InsertInv, SavesPart
<1>1. UNCHANGED <<tables, columns, rows, memory, calls, faults, history>>
  BY DEF SavesPart
<1>2. m \in Names /\ Want(a) \subseteq Parts /\ Todo(a) \subseteq Want(a)
  BY <1>0, StackFacts DEF FormInv, FormOf, CreatePhases
<1>3. Now(a, "insert parts", m, Want(a), todo) /\ OnStack(a)' = OnStack(a)
  <2>1. Within("insert parts") /\ todo \in SUBSET (Parts \cup Names)
    BY <1>2 DEF Within, Labels, CreatePhases
  <2> QED BY <1>0, <2>1, GoWithFacts DEF At, SavesPart
<1>4. /\ Others(a) /\ CallType' /\ call'[a].at = "insert parts"
      /\ Name(a)' = m /\ Want(a)' = Want(a) /\ Todo(a)' = todo
  BY <1>3 DEF Now
<1>5. \A n : /\ Making(a, n) <=> n = m
             /\ Making(a, n)' <=> n = m
             /\ Inserting(a, n) <=> n = m
             /\ Inserting(a, n)' <=> n = m
             /\ ~Dropping(a, n)' /\ ~Opening(a, n)'
  BY <1>0, <1>4 DEF Making, Dropping, Inserting, Opening, CreatePhases, SyncPhases, DropPhases
<1>6. todo \subseteq Want(a) /\ Want(a) \ todo = (Want(a) \ Todo(a)) \cup {i}
  BY <1>2 DEF SavesPart
<1> HIDE DEF m, todo
<1>a. /\ \A n \in Names : n # m => parts'[n] = parts[n]
      /\ parts'[m] = parts[m] \cup {i} /\ parts' \in [Names -> SUBSET Parts]
  <2>1. parts' = [parts EXCEPT ![m] = @ \cup {i}] /\ i \in Parts
    BY <1>2 DEF m, SavesPart
  <2>2. parts \in [Names -> SUBSET Parts]
    BY <1>0 DEF RestType
  <2> QED BY <1>2, <2>1, <2>2, PartAdded
<1>7. TypeOK'
  BY <1>0, <1>1, <1>4, <1>a, TypeSplit DEF RestType, memory, history
<1>8. FormInv'
  <2>1. FormOf(a)'
    BY <1>4, <1>6 DEF FormOf, At
  <2> QED BY <1>0, <1>4, <2>1, FormStays
<1>9. Apart' /\ OutcomeInv'
  BY <1>0, <1>1, <1>4, <1>5, ApartStays, OutcomeStays DEF Shrinks, history
<1>b. \A b \in Admins, n \in Names \ raced : b # a /\ Inserting(b, n)' => n # m
  BY <1>0, <1>2, <1>4, <1>5, OtherCalls DEF Alone
<1>10. Saved'
  <2>1. \A n \in Names \ raced : Inserting(a, n)' =>
          n \in tables' /\ n \in rows' /\ n \notin published' /\ parts'[n] = Want(a)' \ Todo(a)'
    BY <1>0, <1>1, <1>4, <1>5, <1>6, <1>a DEF Saved, memory
  <2>2. \A b \in Admins, n \in Names \ raced : b # a /\ Inserting(b, n)' =>
          n \in tables' /\ n \in rows' /\ n \notin published' /\ parts'[n] = Want(b)' \ Todo(b)'
    BY <1>0, <1>1, <1>4, <1>a, <1>b, OtherCalls DEF Saved, memory
  <2> QED BY <1>1, <2>1, <2>2 DEF Saved, history
<1>11. Alone'
  BY <1>0, <1>1, <1>4, <1>5, <1>b, OtherCalls DEF Alone, history
<1>12. TableFirst'
  BY <1>0, <1>1, <1>4 DEF TableFirst, At, Others, history
<1>13. NameTaken'
  BY <1>0, <1>1, <1>4, <1>5, OtherCalls DEF NameTaken, memory, history
<1>14. DropInv'
  <2>1. \A b \in Admins : Name(b) = m /\ m \notin raced => call[b].at \notin DropPhases
    BY <1>0, <1>2, <1>5, TopIsDropped DEF Apart
  <2> QED BY <1>0, <1>1, <1>4, <1>a, <2>1, DropStays DEF DropPhases, history
<1>15. LeftoversListed' /\ CreatedLasts' /\ DroppedIsGone'
  <2>1. m \notin raced => /\ m \in rows /\ m \notin published /\ outcome[m] # "dropped"
    BY <1>0, <1>2, <1>5 DEF Saved, OutcomeInv
  <2>2. LeftoversListed'
    BY <1>0, <1>1, <1>a, <2>1 DEF LeftoversListed, history
  <2>3. CreatedLasts'
    BY <1>0, <1>1, <1>a, <2>1 DEF CreatedLasts, memory, history
  <2>4. DroppedIsGone'
    BY <1>0, <1>1, <1>a, <2>1 DEF DroppedIsGone, memory, history
  <2> QED BY <2>2, <2>3, <2>4
<1> QED
  BY <1>7, <1>8, <1>9, <1>10, <1>11, <1>12, <1>13, <1>14, <1>15 DEF IInv, InsertInv

LEMMA InsertFieldKeeps ==
  ASSUME IInv, NEW a \in Admins, InsertField(a)
  PROVE  IInv'
<1>0. call[a].at \in {"insert parts", "insert index"} /\ RestType
  BY TypeSplit DEF IInv, InsertField, At
<1>1. UNCHANGED <<tables, columns, rows, memory, calls, faults, history>>
  BY DEF InsertField
<1>2. PICK f \in Todo(a) :
        \/ /\ parts' = [parts EXCEPT ![Name(a)] = @ \cup {f}]
           /\ GoWith(a, "insert parts", Todo(a) \ {f})
        \/ Answer(a) /\ parts' = parts
  BY DEF InsertField
<1>3. CASE Answer(a) /\ parts' = parts
  BY <1>0, <1>1, <1>3, Answers DEF RestType, memory, history
<1>4. CASE parts' # parts \/ ~Answer(a)
  <2>1. PICK i \in Todo(a) : SavesPart(a, i)
    BY <1>0, <1>1, <1>2, <1>4 DEF SavesPart
  <2> QED BY <2>1, SavePart
<1> QED BY <1>3, <1>4

LEMMA InsertIndexKeeps ==
  ASSUME IInv, NEW a \in Admins, InsertIndex(a)
  PROVE  IInv'
<1>1. call[a].at \in {"insert parts", "insert index"} /\ call[a].item \in Todo(a)
  BY DEF IInv, FormInv, FormOf, InsertIndex, At
<1>2. SavesPart(a, call[a].item)
  BY <1>1 DEF SavesPart, InsertIndex
<1> QED BY <1>2, SavePart

LEMMA PublishKeeps ==
  ASSUME IInv, NEW a \in Admins, Publish(a)
  PROVE  IInv'
<1> DEFINE m == Name(a)
<1>0. /\ FormInv /\ Apart /\ Saved /\ Alone /\ TableFirst /\ NameTaken
      /\ DropInv /\ OutcomeInv
      /\ LeftoversListed /\ CreatedLasts /\ DroppedIsGone
      /\ CallType /\ RestType /\ call[a].at = "insert parts" /\ Todo(a) = {}
  BY TypeSplit DEF IInv, InsertInv, Publish, At
<1>1. /\ published' = published \cup {m}
      /\ shape' = [shape EXCEPT ![m] = Want(a)]
      /\ outcome' = [outcome EXCEPT ![m] = "created"]
      /\ UNCHANGED <<tables, columns, rows, parts, calls, faults, raced>>
  BY DEF Publish, Want, stored
<1>2. m \in Names /\ Want(a) \subseteq Parts
  BY <1>0, StackFacts
<1>3. Others(a) /\ CallType' /\ call'[a].at = "idle"
  BY <1>0, AnswerFacts DEF Publish
<1>4. \A n : /\ Making(a, n) <=> n = m
             /\ Inserting(a, n) <=> n = m
             /\ ~Making(a, n)' /\ ~Dropping(a, n)' /\ ~Inserting(a, n)' /\ ~Opening(a, n)'
  BY <1>0, <1>3 DEF Making, Dropping, Inserting, Opening, CreatePhases, SyncPhases, DropPhases
<1>5. m \notin raced => /\ m \in tables /\ m \in rows /\ parts[m] = Want(a)
                        /\ \A b \in Admins : ~Dropping(b, m)
  BY <1>0, <1>2, <1>4 DEF Saved, Apart
<1> HIDE DEF m
<1>6. /\ shape'[m] = Want(a) /\ outcome'[m] = "created"
      /\ \A n \in Names : n # m => shape'[n] = shape[n] /\ outcome'[n] = outcome[n]
  BY <1>0, <1>1, <1>2 DEF RestType
<1>7. TypeOK'
  BY <1>0, <1>1, <1>2, <1>3, TypeSplit DEF RestType
<1>8. FormInv'
  <2>1. FormOf(a)'
    BY <1>3 DEF FormOf, At, CreatePhases, SyncPhases
  <2> QED BY <1>0, <1>3, <2>1, FormStays
<1>9. Apart'
  BY <1>0, <1>1, <1>3, <1>4, ApartStays DEF Shrinks
<1>10. OutcomeInv'
  <2>1. \A b \in Admins, n \in Names \ raced :
          /\ outcome'[n] \in {"created", "reloaded"} => ~Dropping(b, n)'
          /\ outcome'[n] = "dropped" => ~Making(b, n)'
    BY <1>0, <1>3, <1>4, <1>5, <1>6, OtherCalls DEF OutcomeInv
  <2> QED BY <1>1, <2>1 DEF OutcomeInv
<1>11. Saved'
  <2>1. \A b \in Admins, n \in Names \ raced : Inserting(b, n)' => b # a /\ n # m
    BY <1>0, <1>3, <1>4, OtherCalls DEF Alone
  <2>2. \A b \in Admins, n \in Names \ raced : Inserting(b, n)' =>
          n \in tables' /\ n \in rows' /\ n \notin published' /\ parts'[n] = Want(b)' \ Todo(b)'
    BY <1>0, <1>1, <1>3, <2>1, OtherCalls DEF Saved
  <2> QED BY <1>1, <2>2 DEF Saved
<1>12. Alone'
  BY <1>0, <1>1, <1>3, <1>4, OtherCalls DEF Alone
<1>13. TableFirst'
  BY <1>0, <1>1, <1>3 DEF TableFirst, At, Others
<1>14. NameTaken'
  <2>1. \A b \in Admins, n \in Names \ raced : Opening(b, n)' /\ n \in published' => n \in rows'
    BY <1>0, <1>1, <1>3, <1>4, <1>5, OtherCalls DEF NameTaken
  <2> QED BY <1>1, <2>1 DEF NameTaken
<1>15. DropInv'
  BY <1>0, <1>1, <1>3, DropStays DEF DropPhases
<1>16. LeftoversListed'
  BY <1>0, <1>1 DEF LeftoversListed
<1>17. CreatedLasts'
  <2>1. \A n \in Names \ raced :
          /\ outcome'[n] \in {"created", "reloaded"} => n \in tables /\ n \in rows /\ n \in published'
          /\ outcome'[n] = "created" => shape'[n] = parts[n]
          /\ outcome'[n] = "reloaded" => shape'[n] = parts[n] \ Unloadable
    BY <1>0, <1>1, <1>5, <1>6 DEF CreatedLasts
  <2> QED BY <1>1, <2>1 DEF CreatedLasts
<1>18. DroppedIsGone'
  <2>1. \A n \in Names \ raced : outcome'[n] = "dropped" =>
          n \notin tables /\ n \notin rows /\ n \notin published' /\ parts[n] = {}
    BY <1>0, <1>1, <1>6 DEF DroppedIsGone
  <2> QED BY <1>1, <2>1 DEF DroppedIsGone
<1> QED
  BY <1>7, <1>8, <1>9, <1>10, <1>11, <1>12, <1>13, <1>14, <1>15, <1>16, <1>17, <1>18
     DEF IInv, InsertInv

\* What the steps of a drop have in common: nobody makes m, which is the
\* only name they touch, and which they do not call created.
DropStep(a, m) ==
  /\ Others(a) /\ CallType' /\ RestType' /\ m \in Names
  /\ call'[a].at \in DropPhases \cup {"idle"}
  /\ \A n \in Names : n # m =>
       /\ n \in tables' <=> n \in tables
       /\ n \in rows' <=> n \in rows
       /\ n \in published' <=> n \in published
       /\ parts'[n] = parts[n] /\ shape'[n] = shape[n] /\ outcome'[n] = outcome[n]
  /\ m \in tables' => m \in tables
  /\ m \in rows' => m \in rows
  /\ parts'[m] \subseteq parts[m]
  /\ raced \subseteq raced'
  /\ \A n : Dropping(a, n)' => Dropping(a, n) \/ n = m
  /\ m \notin raced' =>
       /\ \A b \in Admins : b # a => ~Making(b, m)
       /\ call'[a].at \in DropPhases => DropOf(a, m)'
       /\ parts'[m] # {} => m \in rows'
       /\ outcome'[m] \notin {"created", "reloaded"}
       /\ outcome'[m] = "dropped" =>
            m \notin tables' /\ m \notin rows' /\ m \notin published' /\ parts'[m] = {}
  /\ call'[a].at \in DropPhases => Name(a)' = m \/ call'[a].at = "loop"

LEMMA DropStepKeeps ==
  ASSUME IInv, NEW a \in Admins, NEW m, DropStep(a, m)
  PROVE  IInv'
<1>0. /\ FormInv /\ Apart /\ Saved /\ Alone /\ TableFirst /\ NameTaken
      /\ DropInv /\ OutcomeInv
      /\ LeftoversListed /\ CreatedLasts /\ DroppedIsGone
  BY DEF IInv, InsertInv
<1>1. Others(a) /\ CallType' /\ m \in Names /\ raced \subseteq raced'
  BY DEF DropStep
<1>2. \A n \in Names : n # m =>
       /\ n \in tables' <=> n \in tables
       /\ n \in rows' <=> n \in rows
       /\ n \in published' <=> n \in published
       /\ parts'[n] = parts[n] /\ shape'[n] = shape[n] /\ outcome'[n] = outcome[n]
  BY DEF DropStep
<1>3. m \notin raced' =>
       /\ \A b \in Admins : b # a => ~Making(b, m)
       /\ call'[a].at \in DropPhases => DropOf(a, m)'
       /\ parts'[m] # {} => m \in rows'
       /\ outcome'[m] \notin {"created", "reloaded"}
       /\ outcome'[m] = "dropped" =>
            m \notin tables' /\ m \notin rows' /\ m \notin published' /\ parts'[m] = {}
  BY DEF DropStep
<1>4. \A n : ~Making(a, n)' /\ ~Inserting(a, n)' /\ ~Opening(a, n)' /\ ~At(a, "insert collection")'
  BY DEF DropStep, Making, Inserting, Opening, At, CreatePhases, SyncPhases, DropPhases
<1>5. TypeOK'
  BY TypeSplit DEF DropStep
<1>6. FormInv'
  <2>1. FormOf(a)'
    BY DEF DropStep, FormOf, At, CreatePhases, SyncPhases, DropPhases
  <2> QED BY <1>0, <1>1, <2>1, FormStays
<1>7. \A b \in Admins, n \in Names \ raced' : Making(b, n)' => b # a /\ n # m /\ Making(b, n)
  BY <1>1, <1>3, <1>4, OtherCalls
<1>8. \A b, n : /\ Inserting(b, n) => Making(b, n)
                /\ Opening(b, n) => Making(b, n)
                /\ Inserting(b, n)' => Making(b, n)'
                /\ Opening(b, n)' => Making(b, n)'
  BY DEF Making, Inserting, Opening, CreatePhases
<1>9. Apart'
  <2>1. \A n : Dropping(a, n)' => Dropping(a, n) \/ n = m
    BY DEF DropStep
  <2>2. \A b, c \in Admins, n \in Names \ raced' : ~(Making(b, n)' /\ Dropping(c, n)')
    BY <1>0, <1>1, <1>7, <2>1, OtherCalls DEF Apart
  <2> QED BY <2>2 DEF Apart
<1>10. Saved'
  <2>1. \A b \in Admins, n \in Names \ raced' : Inserting(b, n)' =>
          n \in tables' /\ n \in rows' /\ n \notin published' /\ parts'[n] = Want(b)' \ Todo(b)'
    BY <1>0, <1>1, <1>2, <1>7, <1>8, OtherCalls DEF Saved
  <2> QED BY <2>1 DEF Saved
<1>11. Alone'
  <2>1. \A b \in Admins : \A n : Inserting(b, n)' => Inserting(b, n)
    BY <1>1, <1>4, OtherCalls
  <2> QED BY <1>0, <1>1, <2>1 DEF Alone
<1>12. TableFirst'
  <2>1. \A b \in Admins, n \in Names \ raced' : At(b, "insert collection")' /\ Name(b)' = n =>
          /\ n # m /\ At(b, "insert collection") /\ Name(b) = n
    <3>1. \A b \in Admins : \A n : At(b, "insert collection")' /\ Name(b)' = n => Making(b, n)'
      BY DEF At, Making, CreatePhases
    <3> QED BY <1>1, <1>4, <1>7, <3>1 DEF At, Others
  <2> QED BY <1>0, <1>1, <1>2, <2>1 DEF TableFirst
<1>13. NameTaken'
  <2>1. \A b \in Admins, n \in Names \ raced' : Opening(b, n)' /\ n \in published' => n \in rows'
    BY <1>0, <1>1, <1>2, <1>7, <1>8, OtherCalls DEF NameTaken
  <2> QED BY <2>1 DEF NameTaken
<1>14. DropInv'
  <2>1. call'[a].at \in DropPhases /\ m \notin raced' => DropOf(a, m)'
    BY <1>3
  <2>2. \A n : call'[a].at = "loop" => DropOf(a, n)'
    BY DEF DropOf, At
  <2>3. \A b \in Admins, n \in Names \ raced' :
          b # a /\ call'[b].at \in DropPhases /\ Name(b)' = n => DropOf(b, n)'
    <3>1. \A n \in Names : (n \in tables' => n \in tables) /\ (n \in rows' => n \in rows)
                          /\ parts'[n] \subseteq parts[n]
      BY <1>2 DEF DropStep
    <3>2. \A b \in Admins, n \in Names \ raced : b # a /\ call[b].at \in DropPhases /\ Name(b) = n
            => DropOf(b, n)
      BY <1>0 DEF DropInv
    <3> QED BY <1>1, <3>1, <3>2 DEF DropOf, At, Others
  <2>4. call'[a].at \in DropPhases => Name(a)' = m \/ call'[a].at = "loop"
    BY DEF DropStep
  <2> QED BY <2>1, <2>2, <2>3, <2>4 DEF DropInv
<1>15. OutcomeInv'
  <2>1. \A n : Dropping(a, n)' => Dropping(a, n) \/ n = m
    BY DEF DropStep
  <2>2. \A b \in Admins, n \in Names \ raced' :
          /\ outcome'[n] \in {"created", "reloaded"} => ~Dropping(b, n)'
          /\ outcome'[n] = "dropped" => ~Making(b, n)'
    BY <1>0, <1>1, <1>2, <1>3, <1>7, <2>1, OtherCalls DEF OutcomeInv
  <2> QED BY <2>2 DEF OutcomeInv
<1>16. LeftoversListed' /\ CreatedLasts' /\ DroppedIsGone'
  BY <1>0, <1>1, <1>2, <1>3 DEF LeftoversListed, CreatedLasts, DroppedIsGone
<1> QED
  BY <1>5, <1>6, <1>9, <1>10, <1>11, <1>12, <1>13, <1>14, <1>15, <1>16 DEF IInv, InsertInv

\* What is known of a name that is being dropped.
LEMMA WhileDropping ==
  ASSUME IInv, NEW a \in Admins, call[a].at \in DropPhases, NEW m, m = Name(a)
  PROVE  /\ CallType /\ RestType /\ m \in Names /\ Dropping(a, m)
         /\ m \notin raced =>
              /\ \A b \in Admins : ~Making(b, m)
              /\ outcome[m] \notin {"created", "reloaded"} /\ DropOf(a, m)
              /\ parts[m] # {} => m \in rows
              /\ outcome[m] = "dropped" =>
                   m \notin tables /\ m \notin rows /\ m \notin published /\ parts[m] = {}
<1>1. CallType /\ RestType
  BY TypeSplit DEF IInv
<1>2. m \in Names /\ Dropping(a, m)
  BY <1>1, StackFacts, TopIsDropped DEF DropPhases
<1> QED
  BY <1>1, <1>2 DEF IInv, Apart, OutcomeInv, DropInv, LeftoversListed, DroppedIsGone

LEMMA DropKeeps ==
  ASSUME IInv, NEW a \in Admins, Drop(a)
  PROVE  IInv'
<1>0. CallType /\ RestType /\ LeftoversListed
  BY TypeSplit DEF IInv
<1>1. UNCHANGED <<tables, columns, rows, parts, published, shape, faults>>
  BY DEF Drop, stored, memory
<1>2. PICK n \in Names, cascade \in BOOLEAN :
        Start(a, "dependents", n, {}, cascade) /\ Doubted(n)
  BY DEF Drop
<1>3. Now(a, "dependents", n, {}, {}) /\ OnStack(a)' = {n}
  <2>1. Within("dependents") /\ {} \in SUBSET Parts
    BY DEF Within, Labels, DropPhases
  <2> QED BY <1>0, <1>2, <2>1, StartFacts
<1>4. calls' \in 0..MaxCalls
  BY <1>0, <1>2, CatalogAssumption DEF Start, RestType
<1>5. /\ outcome' = [outcome EXCEPT ![n] = "open"]
      /\ raced' = IF BeingMade(n) THEN raced \cup {n} ELSE raced
  BY <1>2 DEF Doubted
<1>6. RestType'
  BY <1>0, <1>1, <1>4, <1>5 DEF RestType
<1>7. n \notin raced' => \A b \in Admins : ~Making(b, n)
  BY <1>5 DEF BeingMade, Making
<1>8. DropStep(a, n)
  <2>1. /\ outcome'[n] = "open" /\ raced \subseteq raced'
        /\ \A k \in Names : k # n => outcome'[k] = outcome[k]
    BY <1>0, <1>5 DEF RestType
  <2>2. /\ Others(a) /\ CallType' /\ call'[a].at = "dependents" /\ Name(a)' = n
    BY <1>3 DEF Now
  <2>3. \A k : Dropping(a, k)' => k = n
    BY <1>3 DEF Dropping
  <2>4. call'[a].at \in DropPhases /\ DropOf(a, n)'
    BY <2>2 DEF DropOf, At, DropPhases
  <2>5. n \notin raced' => (parts'[n] # {} => n \in rows')
    BY <1>0, <1>1, <2>1 DEF LeftoversListed
  <2> QED BY <1>1, <1>6, <1>7, <2>1, <2>2, <2>3, <2>4, <2>5 DEF DropStep
<1> QED BY <1>8, DropStepKeeps

LEMMA DescendKeeps ==
  ASSUME IInv, NEW a \in Admins, Descend(a)
  PROVE  IInv'
<1>0. CallType /\ RestType /\ LeftoversListed /\ call[a].at = "loop" /\ ~At(a, "idle")
  BY TypeSplit DEF IInv, Descend, At
<1>1. UNCHANGED <<tables, columns, rows, parts, published, shape, calls, faults>>
  BY DEF Descend, stored, memory
<1>2. Todo(a) \subseteq Parts \cup Names
  BY <1>0, StackFacts
<1>3. PICK dep \in Todo(a) :
        \/ GoWith(a, "loop", Todo(a) \ {dep}) /\ UNCHANGED history
        \/ /\ dep \in published /\ Depth(a) < MaxDepth
           /\ call' = [call EXCEPT
                ![a].at = "dependents",
                ![a].stack = Append([@ EXCEPT ![Depth(a)].todo = Todo(a) \ {dep}],
                                    Frame(dep, {}, {}))]
           /\ Doubted(dep)
  BY DEF Descend
<1>4. CASE GoWith(a, "loop", Todo(a) \ {dep}) /\ UNCHANGED history
  <2> DEFINE todo == Todo(a) \ {dep}
  <2>1. Within("loop") /\ todo \in SUBSET (Parts \cup Names)
    BY <1>2 DEF Within, Labels, DropPhases
  <2>2. GoWith(a, "loop", todo)
    BY <1>4
  <2> HIDE DEF todo
  <2>3. Now(a, "loop", Name(a), Want(a), todo) /\ OnStack(a)' = OnStack(a)
    BY <1>0, <2>1, <2>2, GoWithFacts
  <2>4. RestType' /\ UNCHANGED <<tables, rows, parts, memory, history>>
    BY <1>0, <1>1, <1>4 DEF RestType, memory, history
  <2>5. call[a].at \in DropPhases
    BY <1>0 DEF DropPhases
  <2> QED BY <1>0, <2>3, <2>4, <2>5, GoesOn
<1>5. CASE /\ dep \in published /\ Depth(a) < MaxDepth
           /\ call' = [call EXCEPT
                ![a].at = "dependents",
                ![a].stack = Append([@ EXCEPT ![Depth(a)].todo = Todo(a) \ {dep}],
                                    Frame(dep, {}, {}))]
           /\ Doubted(dep)
  <2>1. dep \in Names /\ Todo(a) \ {dep} \in SUBSET (Parts \cup Names)
    BY <1>0, <1>2, <1>5 DEF RestType
  <2>2. /\ Others(a) /\ CallType' /\ call'[a].at = "dependents"
        /\ Name(a)' = dep /\ OnStack(a)' = OnStack(a) \cup {dep}
    BY <1>0, <1>5, <2>1, PushFacts
  <2>3. /\ outcome' = [outcome EXCEPT ![dep] = "open"]
        /\ raced' = IF BeingMade(dep) THEN raced \cup {dep} ELSE raced
    BY <1>5 DEF Doubted
  <2>4. RestType'
    BY <1>0, <1>1, <2>1, <2>3 DEF RestType
  <2>5. dep \notin raced' => \A b \in Admins : ~Making(b, dep)
    BY <2>3 DEF BeingMade, Making
  <2>6. /\ outcome'[dep] = "open" /\ raced \subseteq raced'
        /\ \A k \in Names : k # dep => outcome'[k] = outcome[k]
    BY <1>0, <2>1, <2>3 DEF RestType
  <2>7. \A k : Dropping(a, k)' => Dropping(a, k) \/ k = dep
    BY <1>0, <2>2 DEF Dropping, DropPhases
  <2>8. call'[a].at \in DropPhases /\ DropOf(a, dep)'
    BY <2>2 DEF DropOf, At, DropPhases
  <2>9. dep \notin raced' => (parts'[dep] # {} => dep \in rows')
    BY <1>0, <1>1, <2>1, <2>6 DEF LeftoversListed
  <2>10. DropStep(a, dep)
    BY <1>1, <2>1, <2>2, <2>4, <2>5, <2>6, <2>7, <2>8, <2>9 DEF DropStep
  <2> QED BY <2>10, DropStepKeeps
<1> QED BY <1>3, <1>4, <1>5

\* The statements of a drop: the request goes on to label with the same
\* stack, and only the name on top is touched.
DropStatement(a, m, label) ==
  /\ call[a].at \in DropPhases /\ m = Name(a) /\ Go(a, label)
  /\ label \in {"delete fields", "delete indexes", "delete row", "unpublish"}
  /\ UNCHANGED <<published, shape, calls, faults, outcome, raced>>
  /\ columns' \in [Names -> SUBSET Parts] /\ parts' \in [Names -> SUBSET Parts]
  /\ \A n \in Names : n # m => /\ n \in tables' <=> n \in tables
                               /\ n \in rows' <=> n \in rows
                               /\ parts'[n] = parts[n]
  /\ tables' \subseteq tables /\ rows' \subseteq rows /\ parts'[m] \subseteq parts[m]

LEMMA DropStatementKeeps ==
  ASSUME IInv, NEW a \in Admins, NEW m, NEW label, DropStatement(a, m, label),
         m \notin raced => DropOf(a, m)' /\ (parts'[m] # {} => m \in rows')
  PROVE  IInv'
<1>1. /\ call[a].at \in DropPhases /\ m = Name(a) /\ ~At(a, "idle")
      /\ label \in DropPhases
  BY DEF DropStatement, DropPhases, At
<1>2. /\ CallType /\ RestType /\ m \in Names /\ Dropping(a, m)
      /\ m \notin raced =>
           /\ \A b \in Admins : ~Making(b, m)
           /\ outcome[m] \notin {"created", "reloaded"}
           /\ outcome[m] = "dropped" =>
                m \notin tables /\ m \notin rows /\ m \notin published /\ parts[m] = {}
  BY <1>1, WhileDropping
<1>3. Now(a, label, m, Want(a), Todo(a)) /\ OnStack(a)' = OnStack(a)
  <2>1. Within(label)
    BY DEF DropStatement, Within, Labels, DropPhases
  <2> QED BY <1>1, <1>2, <2>1, GoFacts DEF DropStatement
<1>4. Others(a) /\ CallType' /\ call'[a].at = label /\ Name(a)' = m
  BY <1>3 DEF Now
<1>5. UNCHANGED <<published, shape, calls, faults, outcome, raced>>
  BY DEF DropStatement
<1>6. RestType'
  BY <1>2, <1>5 DEF RestType, DropStatement
<1>7. \A n : Dropping(a, n)' => Dropping(a, n)
  BY <1>1, <1>3 DEF Dropping
<1>8. /\ \A n \in Names : n # m => /\ n \in tables' <=> n \in tables
                                   /\ n \in rows' <=> n \in rows
                                   /\ parts'[n] = parts[n]
      /\ tables' \subseteq tables /\ rows' \subseteq rows /\ parts'[m] \subseteq parts[m]
  BY DEF DropStatement
<1>9. DropStep(a, m)
  BY <1>1, <1>2, <1>4, <1>5, <1>6, <1>7, <1>8 DEF DropStep
<1> QED BY <1>9, DropStepKeeps

LEMMA DropTableKeeps ==
  ASSUME IInv, NEW a \in Admins, DropTable(a)
  PROVE  IInv'
<1>1. call[a].at \in DropPhases
  BY DEF DropTable, At, DropPhases
<1>0. PICK m \in Names : m = Name(a)
  BY <1>1, TypeSplit, StackFacts DEF IInv, DropPhases
<1>2. /\ CallType /\ RestType /\ m \in Names
      /\ m \notin raced => (parts[m] # {} => m \in rows)
  BY <1>0, <1>1, WhileDropping
<1>3. /\ tables' = tables \ {m} /\ columns' = [columns EXCEPT ![m] = {}]
      /\ UNCHANGED <<rows, parts, published, shape, calls, faults, outcome, raced>>
      /\ Go(a, "delete fields")
  BY <1>0 DEF DropTable, RemoveTable, memory, history
<1>4. call'[a].at = "delete fields"
  BY <1>2, <1>3 DEF CallType, Calls, Go
<1>5. DropStatement(a, m, "delete fields")
  BY <1>0, <1>1, <1>2, <1>3 DEF DropStatement, RestType
<1>6. DropOf(a, m)'
  BY <1>3, <1>4 DEF DropOf, At
<1> QED BY <1>2, <1>3, <1>5, <1>6, DropStatementKeeps

LEMMA DeleteFieldsKeeps ==
  ASSUME IInv, NEW a \in Admins, DeleteFields(a)
  PROVE  IInv'
<1>1. call[a].at \in DropPhases /\ call[a].at = "delete fields"
  BY DEF DeleteFields, At, DropPhases
<1>0. PICK m \in Names : m = Name(a)
  BY <1>1, TypeSplit, StackFacts DEF IInv, DropPhases
<1>2. /\ CallType /\ RestType /\ m \in Names
      /\ m \notin raced => DropOf(a, m) /\ (parts[m] # {} => m \in rows)
  BY <1>0, <1>1, WhileDropping
<1>3. /\ parts' = [parts EXCEPT ![m] = @ \ Fields]
      /\ UNCHANGED <<tables, columns, rows, published, shape, calls, faults, outcome, raced>>
      /\ Go(a, "delete indexes")
  BY <1>0 DEF DeleteFields, memory, history
<1>4. call'[a].at = "delete indexes"
  BY <1>2, <1>3 DEF CallType, Calls, Go
<1>5. /\ parts'[m] = parts[m] \ Fields /\ parts' \in [Names -> SUBSET Parts]
      /\ \A n \in Names : n # m => parts'[n] = parts[n]
  BY <1>2, <1>3 DEF RestType
<1>6. DropStatement(a, m, "delete indexes")
  BY <1>0, <1>1, <1>2, <1>3, <1>5 DEF DropStatement, RestType
<1>7. m \notin raced => DropOf(a, m)'
  BY <1>1, <1>2, <1>3, <1>4, <1>5 DEF DropOf, At
<1> QED BY <1>2, <1>3, <1>5, <1>6, <1>7, DropStatementKeeps

LEMMA DeleteIndexesKeeps ==
  ASSUME IInv, NEW a \in Admins, DeleteIndexes(a)
  PROVE  IInv'
<1>1. call[a].at \in DropPhases /\ call[a].at = "delete indexes"
  BY DEF DeleteIndexes, At, DropPhases
<1>0. PICK m \in Names : m = Name(a)
  BY <1>1, TypeSplit, StackFacts DEF IInv, DropPhases
<1>2. /\ CallType /\ RestType /\ m \in Names
      /\ m \notin raced => DropOf(a, m)
  BY <1>0, <1>1, WhileDropping
<1>3. /\ parts' = [parts EXCEPT ![m] = @ \ Indexes]
      /\ UNCHANGED <<tables, columns, rows, published, shape, calls, faults, outcome, raced>>
      /\ Go(a, "delete row")
  BY <1>0 DEF DeleteIndexes, memory, history
<1>4. call'[a].at = "delete row"
  BY <1>2, <1>3 DEF CallType, Calls, Go
<1>5. /\ parts'[m] = parts[m] \ Indexes /\ parts' \in [Names -> SUBSET Parts]
      /\ \A n \in Names : n # m => parts'[n] = parts[n]
  BY <1>2, <1>3 DEF RestType
<1>6. DropStatement(a, m, "delete row")
  BY <1>0, <1>1, <1>2, <1>3, <1>5 DEF DropStatement, RestType
<1>7. m \notin raced => parts'[m] = {}
  <2>1. m \notin raced => parts[m] \cap Fields = {}
    BY <1>1, <1>2 DEF DropOf, At
  <2>2. parts[m] \subseteq Fields \cup Indexes
    BY <1>2 DEF RestType, Parts
  <2> QED BY <1>5, <2>1, <2>2
<1>8. m \notin raced => DropOf(a, m)'
  BY <1>1, <1>2, <1>3, <1>4, <1>7 DEF DropOf, At
<1> QED BY <1>6, <1>7, <1>8, DropStatementKeeps

LEMMA DeleteRowKeeps ==
  ASSUME IInv, NEW a \in Admins, DeleteRow(a)
  PROVE  IInv'
<1>1. call[a].at \in DropPhases /\ call[a].at = "delete row"
  BY DEF DeleteRow, At, DropPhases
<1>0. PICK m \in Names : m = Name(a)
  BY <1>1, TypeSplit, StackFacts DEF IInv, DropPhases
<1>2. /\ CallType /\ RestType /\ m \in Names
      /\ m \notin raced => DropOf(a, m)
  BY <1>0, <1>1, WhileDropping
<1>3. /\ rows' = rows \ {m}
      /\ UNCHANGED <<tables, columns, parts, published, shape, calls, faults, outcome, raced>>
      /\ Go(a, "unpublish")
  BY <1>0 DEF DeleteRow, memory, history
<1>4. call'[a].at = "unpublish"
  BY <1>2, <1>3 DEF CallType, Calls, Go
<1>5. DropStatement(a, m, "unpublish")
  BY <1>0, <1>1, <1>2, <1>3 DEF DropStatement, RestType
<1>6. m \notin raced => DropOf(a, m)' /\ parts'[m] = {}
  BY <1>1, <1>2, <1>3, <1>4 DEF DropOf, At
<1> QED BY <1>5, <1>6, DropStatementKeeps

LEMMA UnpublishKeeps ==
  ASSUME IInv, NEW a \in Admins, Unpublish(a)
  PROVE  IInv'
<1>1. call[a].at \in DropPhases /\ call[a].at = "unpublish" /\ ~At(a, "idle")
  BY DEF Unpublish, At, DropPhases
<1>0. PICK m \in Names : m = Name(a)
  BY <1>1, TypeSplit, StackFacts DEF IInv, DropPhases
<1>2. /\ CallType /\ RestType /\ m \in Names
      /\ m \notin raced => (\A b \in Admins : ~Making(b, m)) /\ DropOf(a, m)
  BY <1>0, <1>1, WhileDropping
<1>3. /\ published' = published \ {m} /\ shape' = [shape EXCEPT ![m] = {}]
      /\ outcome' = [outcome EXCEPT ![m] = "dropped"]
      /\ UNCHANGED <<tables, columns, rows, parts, calls, faults, raced>>
  BY <1>0 DEF Unpublish, stored
<1>4. /\ Others(a) /\ CallType' /\ call'[a].at \in {"idle", "loop"}
      /\ call'[a].at = "loop" => OnStack(a)' \subseteq OnStack(a)
  BY <1>1, <1>2, LeaveFacts DEF Unpublish
<1>5. m \notin raced => m \notin tables /\ m \notin rows /\ parts[m] = {}
  BY <1>1, <1>2 DEF DropOf, At
<1>6. RestType' /\ outcome'[m] = "dropped"
  BY <1>2, <1>3 DEF RestType
<1>7. \A n \in Names : n # m => /\ shape'[n] = shape[n] /\ outcome'[n] = outcome[n]
                                /\ n \in published' <=> n \in published
  BY <1>2, <1>3 DEF RestType
<1>8. \A n : Dropping(a, n)' => Dropping(a, n)
  BY <1>1, <1>4 DEF Dropping, DropPhases
<1>9. /\ call'[a].at \in DropPhases \cup {"idle"} /\ DropOf(a, m)'
      /\ call'[a].at \in DropPhases => call'[a].at = "loop"
  BY <1>4 DEF DropOf, At, DropPhases
<1>10. DropStep(a, m)
  BY <1>2, <1>3, <1>4, <1>5, <1>6, <1>7, <1>8, <1>9 DEF DropStep
<1> QED BY <1>10, DropStepKeeps

\* The first step of CreateCollection and of Sync.
Begins(a, n, label, want) ==
  /\ n \in Names /\ want \in SUBSET Parts
  /\ label \in {"create table", "sync table"}
  /\ label = "create table" => n \notin published
  /\ Start(a, label, n, want, FALSE)
  /\ raced' = IF BeingDropped(n) THEN raced \cup {n} ELSE raced
  /\ \/ outcome' = [outcome EXCEPT ![n] = "open"]
     \/ outcome' = outcome /\ n \in published
  /\ UNCHANGED <<tables, columns, rows, parts, published, shape, faults>>

LEMMA BeginsKeeps ==
  ASSUME IInv, NEW a \in Admins, NEW n, NEW label, NEW want, Begins(a, n, label, want)
  PROVE  IInv'
<1>0. /\ FormInv /\ Apart /\ Saved /\ Alone /\ TableFirst /\ NameTaken
      /\ DropInv /\ OutcomeInv
      /\ LeftoversListed /\ CreatedLasts /\ DroppedIsGone
      /\ CallType /\ RestType
  BY TypeSplit DEF IInv, InsertInv
<1>1. /\ n \in Names /\ want \in SUBSET Parts
      /\ label \in {"create table", "sync table"}
      /\ label = "create table" => n \notin published
      /\ raced' = IF BeingDropped(n) THEN raced \cup {n} ELSE raced
      /\ UNCHANGED <<tables, columns, rows, parts, published, shape, faults>>
  BY DEF Begins
<1>2. Now(a, label, n, want, want)
  <2>1. Within(label)
    BY <1>1 DEF Within, Labels, CreatePhases, SyncPhases
  <2> QED BY <1>0, <1>1, <2>1, StartFacts DEF Begins
<1>3. /\ Others(a) /\ CallType' /\ call'[a].at = label
      /\ Name(a)' = n /\ Want(a)' = want /\ Todo(a)' = want
  BY <1>2 DEF Now
<1>4. /\ outcome' \in [Names -> {"open", "created", "reloaded", "dropped"}]
      /\ \A k \in Names : k # n => outcome'[k] = outcome[k]
      /\ outcome'[n] \in {"created", "reloaded"} => outcome'[n] = outcome[n]
      /\ n \notin raced => outcome'[n] # "dropped"
  BY <1>0, <1>1 DEF Begins, RestType, DroppedIsGone
<1>5. \A k : /\ Making(a, k)' <=> k = n
             /\ ~Dropping(a, k)' /\ ~Inserting(a, k)'
             /\ Opening(a, k)' => k = n /\ n \notin published
  BY <1>1, <1>3 DEF Making, Dropping, Inserting, Opening, CreatePhases, SyncPhases, DropPhases
<1>6. raced \subseteq raced' /\ (n \notin raced' => \A b \in Admins : ~Dropping(b, n))
  <2>1. \A b \in Admins : Dropping(b, n) => BeingDropped(n)
    BY DEF Dropping, BeingDropped, OnStack, NamesOf
  <2> QED BY <1>1, <2>1
<1>7. TypeOK'
  <2>1. calls' \in 0..MaxCalls
    <3>1. calls < MaxCalls /\ calls' = calls + 1
      BY DEF Begins, Start
    <3>2. calls \in 0..MaxCalls /\ MaxCalls \in Nat
      BY <1>0, CatalogAssumption DEF RestType
    <3> QED BY <3>1, <3>2
  <2> QED BY <1>0, <1>1, <1>3, <1>4, <2>1, TypeSplit DEF RestType
<1>8. FormInv'
  <2>1. FormOf(a)'
    BY <1>1, <1>3 DEF FormOf, At
  <2> QED BY <1>0, <1>3, <2>1, FormStays
<1>9. Apart'
  <2>1. \A b, c \in Admins, k \in Names \ raced' : ~(Making(b, k)' /\ Dropping(c, k)')
    BY <1>0, <1>3, <1>5, <1>6, OtherCalls DEF Apart
  <2> QED BY <2>1 DEF Apart
<1>10. \A b \in Admins : \A k : Inserting(b, k)' =>
         Inserting(b, k) /\ Want(b)' = Want(b) /\ Todo(b)' = Todo(b)
  BY <1>3, <1>5, OtherCalls
<1>11. Saved'
  BY <1>0, <1>1, <1>6, <1>10 DEF Saved
<1>12. Alone'
  BY <1>0, <1>6, <1>10 DEF Alone
<1>13. TableFirst'
  BY <1>0, <1>1, <1>3, <1>6 DEF TableFirst, At, Others
<1>14. NameTaken'
  <2>1. \A b \in Admins, k \in Names \ raced' : Opening(b, k)' /\ k \in published' => k \in rows'
    BY <1>0, <1>1, <1>3, <1>5, <1>6, OtherCalls DEF NameTaken
  <2> QED BY <2>1 DEF NameTaken
<1>15. DropInv'
  <2>1. call'[a].at \notin DropPhases
    BY <1>1, <1>3 DEF DropPhases
  <2>2. \A b \in Admins, k \in Names \ raced' :
          b # a /\ call'[b].at \in DropPhases /\ Name(b)' = k => DropOf(b, k)'
    <3>1. \A b \in Admins, k \in Names \ raced :
            call[b].at \in DropPhases /\ Name(b) = k => DropOf(b, k)
      BY <1>0 DEF DropInv
    <3> QED BY <1>1, <1>3, <1>6, <3>1 DEF DropOf, At, Others
  <2> QED BY <2>1, <2>2 DEF DropInv
<1>16. OutcomeInv'
  <2>1. \A b \in Admins, k \in Names \ raced' :
          /\ outcome'[k] \in {"created", "reloaded"} => ~Dropping(b, k)'
          /\ outcome'[k] = "dropped" => ~Making(b, k)'
    BY <1>0, <1>3, <1>4, <1>5, <1>6, OtherCalls DEF OutcomeInv
  <2> QED BY <2>1 DEF OutcomeInv
<1>17. LeftoversListed'
  BY <1>0, <1>1, <1>6 DEF LeftoversListed
<1>18. CreatedLasts'
  BY <1>0, <1>1, <1>4, <1>6 DEF CreatedLasts
<1>19. DroppedIsGone'
  BY <1>0, <1>1, <1>4, <1>6 DEF DroppedIsGone
<1> QED
  BY <1>7, <1>8, <1>9, <1>11, <1>12, <1>13, <1>14, <1>15, <1>16, <1>17, <1>18, <1>19
     DEF IInv, InsertInv

LEMMA CreateKeeps ==
  ASSUME IInv, NEW a \in Admins, Create(a)
  PROVE  IInv'
<1>1. PICK n \in Names, want \in Inputs :
        /\ n \notin published
        /\ Start(a, "create table", n, want, FALSE)
        /\ outcome' = [outcome EXCEPT ![n] = "open"]
        /\ raced' = IF BeingDropped(n) THEN raced \cup {n} ELSE raced
  BY DEF Create
<1>2. want \in SUBSET Parts
  BY CatalogAssumption
<1>3. Begins(a, n, "create table", want)
  BY <1>1, <1>2 DEF Begins, Create, stored, memory
<1> QED BY <1>3, BeginsKeeps

LEMMA SyncKeeps ==
  ASSUME IInv, NEW a \in Admins, Sync(a)
  PROVE  IInv'
<1>1. PICK n \in Names :
        /\ n \in published
        /\ Start(a, "sync table", n, shape[n], FALSE)
        /\ raced' = IF BeingDropped(n) THEN raced \cup {n} ELSE raced
  BY DEF Sync
<1>2. PICK want \in SUBSET Parts : want = shape[n]
  BY TypeSplit DEF IInv, RestType
<1>3. Begins(a, n, "sync table", want)
  BY <1>1, <1>2 DEF Begins, Sync, stored, memory
<1> QED BY <1>3, BeginsKeeps

\* A restart ends all calls, and loads what the rows list.
LEMMA RestartKeeps ==
  ASSUME IInv, Restarted, faults' \in 0..MaxFaults
  PROVE  IInv'
<1>0. LeftoversListed /\ CreatedLasts /\ DroppedIsGone /\ RestType
  BY TypeSplit DEF IInv
<1>1. /\ published' = rows
      /\ shape' = [n \in Names |-> IF n \in rows THEN parts[n] \ Unloadable ELSE {}]
      /\ call' = [a \in Admins |-> Idle]
      /\ outcome' = [n \in Names |-> IF outcome[n] = "created" THEN "reloaded" ELSE outcome[n]]
      /\ UNCHANGED <<tables, columns, rows, parts, calls, raced>>
  BY DEF Restarted, stored
<1>2. Idle \in Calls /\ Idle.at = "idle" /\ Len(Idle.stack) = 0
  BY DEF Idle, Calls, Labels
<1>3. \A a \in Admins : call'[a].at = "idle" /\ Len(call'[a].stack) = 0
  BY <1>1, <1>2
<1>4. CallType'
  <2>1. MaxDepth \in Nat
    BY CatalogAssumption
  <2>2. call' \in [Admins -> Calls]
    BY <1>1, <1>2
  <2>3. \A a \in Admins : /\ call'[a].at = "idle" <=> Len(call'[a].stack) = 0
                          /\ Len(call'[a].stack) <= MaxDepth
                          /\ call'[a].at = "insert index" => call'[a].item # None
    <3> TAKE a \in Admins
    <3>1. call'[a].at = "idle" /\ Len(call'[a].stack) = 0
      BY <1>3
    <3> QED BY <2>1, <3>1
  <2> QED BY <2>2, <2>3 DEF CallType, At, Depth
<1>5. TypeOK'
  <2>1. RestType'
    BY <1>0, <1>1 DEF RestType
  <2> QED BY <1>4, <2>1, TypeSplit
<1>6. \A a \in Admins : /\ call'[a].at \notin CreatePhases \cup SyncPhases
                        /\ call'[a].at \notin DropPhases
  BY <1>3 DEF CreatePhases, SyncPhases, DropPhases
<1>7. FormInv' /\ Apart' /\ DropInv' /\ OutcomeInv'
  BY <1>3, <1>6 DEF FormInv, FormOf, At, CreatePhases, Apart, Making, Dropping, DropInv, OutcomeInv
<1>8. InsertInv'
  BY <1>3 DEF InsertInv, Saved, Alone, TableFirst, NameTaken, Inserting, Opening, At
<1>9. LeftoversListed'
  BY <1>0, <1>1 DEF LeftoversListed
<1>10. CreatedLasts'
  BY <1>0, <1>1 DEF CreatedLasts
<1>11. DroppedIsGone'
  BY <1>0, <1>1 DEF DroppedIsGone
<1> QED BY <1>5, <1>7, <1>8, <1>9, <1>10, <1>11 DEF IInv

LEMMA InitIInv == Init => IInv
<1> SUFFICES ASSUME Init PROVE IInv
  OBVIOUS
<1>1. \A a \in Admins : call[a] = Idle
  BY DEF Init
<1>2. Idle \in Calls /\ Idle.at = "idle" /\ Len(Idle.stack) = 0
  BY DEF Idle, Calls, Labels
<1>3. \A a \in Admins : call[a].at = "idle" /\ Len(call[a].stack) = 0
  BY <1>1, <1>2
<1>4. CallType
  <2>1. MaxDepth \in Nat
    BY CatalogAssumption
  <2>2. call \in [Admins -> Calls]
    BY <1>2 DEF Init
  <2>3. \A a \in Admins : /\ call[a].at = "idle" <=> Len(call[a].stack) = 0
                          /\ Len(call[a].stack) <= MaxDepth
                          /\ call[a].at = "insert index" => call[a].item # None
    <3> TAKE a \in Admins
    <3>1. call[a].at = "idle" /\ Len(call[a].stack) = 0
      BY <1>3
    <3> QED BY <2>1, <3>1
  <2> QED BY <2>2, <2>3 DEF CallType, At, Depth
<1>5. TypeOK
  <2>1. RestType
    BY CatalogAssumption DEF Init, RestType
  <2> QED BY <1>4, <2>1, TypeSplit
<1>6. \A a \in Admins : /\ call[a].at \notin CreatePhases \cup SyncPhases
                        /\ call[a].at \notin DropPhases
  BY <1>3 DEF CreatePhases, SyncPhases, DropPhases
<1>7. FormInv /\ Apart /\ DropInv /\ OutcomeInv
  BY <1>3, <1>6 DEF FormInv, FormOf, At, CreatePhases, Apart, Making, Dropping, DropInv, OutcomeInv
<1>8. InsertInv
  BY <1>3 DEF InsertInv, Saved, Alone, TableFirst, NameTaken, Inserting, Opening, At
<1>9. LeftoversListed /\ CreatedLasts /\ DroppedIsGone
  BY DEF Init, LeftoversListed, CreatedLasts, DroppedIsGone
<1> QED BY <1>5, <1>7, <1>8, <1>9 DEF IInv

\* What a state is like depends on the variables only.
LEMMA StutterKeeps ==
  ASSUME IInv, UNCHANGED vars
  PROVE  IInv'
<1>1. /\ UNCHANGED <<tables, columns, rows, parts, published, shape>>
      /\ UNCHANGED <<call, calls, faults, outcome, raced>>
  BY DEF vars, stored, memory, history
<1>2. TypeOK'
  BY <1>1 DEF IInv, TypeOK, At, Depth
<1>a. /\ FormInv /\ Apart /\ DropInv /\ OutcomeInv
  BY DEF IInv
<1>b. \A b : /\ Name(b)' = Name(b) /\ Want(b)' = Want(b) /\ Todo(b)' = Todo(b)
             /\ OnStack(b)' = OnStack(b)
  BY <1>1 DEF Name, Want, Todo, OnStack, Top, Depth
<1>3. FormInv' /\ Apart' /\ DropInv' /\ OutcomeInv'
  <2>1. FormInv'
    BY <1>1, <1>a, <1>b DEF FormInv, FormOf, At
  <2>2. Apart' /\ OutcomeInv'
    BY <1>1, <1>a, <1>b DEF Apart, OutcomeInv, Making, Dropping
  <2>3. DropInv'
    BY <1>1, <1>a, <1>b DEF DropInv, DropOf, At
  <2> QED BY <2>1, <2>2, <2>3
<1>4. InsertInv'
  BY <1>1 DEF IInv, InsertInv, Saved, Alone, TableFirst, NameTaken, Inserting, Opening,
              At, Name, Want, Todo, Top, Depth
<1>5. LeftoversListed' /\ CreatedLasts' /\ DroppedIsGone'
  BY <1>1 DEF IInv, LeftoversListed, CreatedLasts, DroppedIsGone
<1> QED BY <1>2, <1>3, <1>4, <1>5 DEF IInv

LEMMA NextIInv == IInv /\ [Next]_vars => IInv'
<1> SUFFICES ASSUME IInv, [Next]_vars PROVE IInv'
  OBVIOUS
<1>1. ASSUME NEW a \in Admins, Create(a) \/ Drop(a) \/ Sync(a) \/ Break(a)
      PROVE  IInv'
  BY <1>1, CreateKeeps, DropKeeps, SyncKeeps, BreakKeeps
<1>2. ASSUME NEW a \in Admins, Step(a)
      PROVE  IInv'
  <2>1. CASE CreateTable(a) \/ InsertCollection(a) \/ InsertField(a)
             \/ CreateIndex(a) \/ InsertIndex(a) \/ Publish(a)
    BY <2>1, CreateTableKeeps, InsertCollectionKeeps, InsertFieldKeeps,
       CreateIndexKeeps, InsertIndexKeeps, PublishKeeps
  <2>2. CASE Dependents(a) \/ Descend(a) \/ DropTable(a) \/ DeleteFields(a)
             \/ DeleteIndexes(a) \/ DeleteRow(a) \/ Unpublish(a)
    BY <2>2, DependentsKeeps, DescendKeeps, DropTableKeeps, DeleteFieldsKeeps,
       DeleteIndexesKeeps, DeleteRowKeeps, UnpublishKeeps
  <2>3. CASE SyncTable(a) \/ ReadColumns(a) \/ AddColumn(a) \/ Synced(a)
    BY <2>3, SyncTableKeeps, ReadColumnsKeeps, AddColumnKeeps, SyncedKeeps
  <2> QED BY <1>2, <2>1, <2>2, <2>3 DEF Step
<1>3. ASSUME NEW a \in Admins, Overflow(a)
      PROVE  IInv'
  <2>1. Restarted /\ faults' \in 0..MaxFaults
    BY <1>3, TypeSplit DEF Overflow, IInv, RestType
  <2> QED BY <2>1, RestartKeeps
<1>4. CASE Crash
  <2>1. Restarted /\ faults' \in 0..MaxFaults
    BY <1>4, TypeSplit, CatalogAssumption DEF Crash, IInv, RestType
  <2> QED BY <2>1, RestartKeeps
<1>5. CASE UNCHANGED vars
  BY <1>5, StutterKeeps
<1> QED BY <1>1, <1>2, <1>3, <1>4, <1>5 DEF Next

-----------------------------------------------------------------------------
\* The strengthened invariant of the catalogue.
THEOREM Inductive == Spec => []IInv
<1>1. Init => IInv
  BY InitIInv
<1>2. IInv /\ [Next]_vars => IInv'
  BY NextIInv
<1> QED BY <1>1, <1>2, PTL DEF Spec

\* Every value of the catalogue is of its kind, for any number of
\* collections, requests, failures and levels of recursion.
THEOREM TypeCorrect == Spec => []TypeOK
<1>1. IInv => TypeOK
  BY DEF IInv
<1> QED BY <1>1, Inductive, PTL

\* CreateCollection: what it answered with success stays until a drop; its entry
\* in memory is what the rows say, without the fields that a start leaves out.
THEOREM CreationLasts == Spec => []CreatedLasts
<1>1. IInv => CreatedLasts
  BY DEF IInv
<1> QED BY <1>1, Inductive, PTL

\* DropCollection: what it answered with success is gone for good.
THEOREM DropLeavesNothing == Spec => []DroppedIsGone
<1>1. IInv => DroppedIsGone
  BY DEF IInv
<1> QED BY <1>1, Inductive, PTL

\* A call that broke off leaves no rows of parts without the row of their
\* collection.
THEOREM LeftoversFound == Spec => []LeftoversListed
<1>1. IInv => LeftoversListed
  BY DEF IInv
<1> QED BY <1>1, Inductive, PTL
=============================================================================
