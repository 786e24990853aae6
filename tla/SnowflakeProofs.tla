-------------------------- MODULE SnowflakeProofs --------------------------
(***************************************************************************)
(* Any clock, any number of goroutines, any layout of the id: the ids of a *)
(* process strictly increase, and processes with different machine numbers *)
(* share none.  The inductive invariant bounds the ids returned so far by  *)
(* what the generator would return next.                                   *)
(*                                                                         *)
(* Any clients, things and calls: what a method of the Go client returns   *)
(* can be relied on.  The inductive invariant says at each stage of a call *)
(* what the handler may already say, or write, without having been wrong.  *)
(***************************************************************************)
EXTENDS Snowflake, TestClient, SequenceTheorems, FiniteSetTheorems, TLAPS

\* One goroutine at a time is inside NextID.
MutexInv ==
  \A w \in Workers : phase[w] \in {"read", "spin", "pack"} <=> mu = w

\* Ids have the machine number and a number of the millisecond in them.
Packed(id, m) ==
  \E t \in Int, s \in 0..MaxSequence : id = Pack(t, m, s)

LayoutInv ==
  /\ \A i \in DOMAIN issued : Packed(issued[i], machineID)
  /\ \A p \in past : Packed(p.id, p.machine)

\* Below: every returned id is smaller than the id for number s of t.
Below(t, s) == \A i \in DOMAIN issued : issued[i] < Pack(t, machineID, s)

OrderInv ==
  /\ Increasing
  /\ \A w \in Workers :
       /\ phase[w] = "pack" => Below(now, sequence)
       /\ phase[w] = "spin" => sequence = 0 /\ Below(lastTime + 1, 0)
  /\ (\A w \in Workers : phase[w] \notin {"spin", "pack"}) =>
        \A i \in DOMAIN issued : issued[i] <= Pack(lastTime, machineID, sequence)

IInv == TypeOK /\ MutexInv /\ LayoutInv /\ OrderInv

-----------------------------------------------------------------------------
(***************************************************************************)
(* The layout of an id.                                                    *)
(***************************************************************************)

\* A number below the base cannot make up for a smaller multiple of it.
LEMMA Digits ==
  ASSUME NEW a \in Int, NEW b \in Int, NEW n \in Nat \ {0},
         NEW r \in 0..(n - 1), NEW s \in 0..(n - 1), a < b
  PROVE  a * n + r < b * n + s
<1> DEFINE d == b - a - 1
<1>1. d \in Nat /\ b = a + 1 + d
  OBVIOUS
<1>2. d * n \in Nat
  BY <1>1
<1>3. b * n = a * n + n + d * n
  BY <1>1
<1>4. a * n \in Int /\ r < n
  OBVIOUS
<1> HIDE DEF d
<1> QED
  BY <1>2, <1>3, <1>4

\* An id of a later millisecond is larger, and so is one with a larger
\* number in the same millisecond.
LEMMA PackOrder ==
  ASSUME NEW t \in Int, NEW v \in Int, NEW m \in MachineNumbers,
         NEW r \in 0..MaxSequence, NEW s \in 0..MaxSequence
  PROVE  /\ Pack(t, m, r) \in Int
         /\ t < v => Pack(t, m, r) < Pack(v, m, s)
         /\ r <= s => Pack(t, m, r) <= Pack(t, m, s)
         /\ r < s => Pack(t, m, r) < Pack(t, m, s)
<1> USE LayoutAssumption DEF MachineNumbers, MaxSequence
<1> DEFINE a == (t - Epoch) * Machines + m
           b == (v - Epoch) * Machines + m
<1>1. a \in Int /\ b \in Int /\ a * Numbers \in Int /\ b * Numbers \in Int
  OBVIOUS
<1>2. Pack(t, m, r) = a * Numbers + r /\ Pack(v, m, s) = b * Numbers + s
      /\ Pack(t, m, s) = a * Numbers + s
  BY DEF Pack
<1>3. ASSUME t < v PROVE Pack(t, m, r) < Pack(v, m, s)
  <2>1. t - Epoch \in Int /\ v - Epoch \in Int /\ t - Epoch < v - Epoch
    BY <1>3
  <2>2. a < b
    BY <2>1, Digits
  <2> HIDE DEF a, b
  <2> QED
    BY <1>1, <1>2, <2>2, Digits
<1> HIDE DEF a, b
<1> QED
  BY <1>1, <1>2, <1>3

\* The machine number can be read off an id.
LEMMA PackMachine ==
  ASSUME NEW t \in Int, NEW v \in Int,
         NEW m \in MachineNumbers, NEW k \in MachineNumbers,
         NEW r \in 0..MaxSequence, NEW s \in 0..MaxSequence,
         Pack(t, m, r) = Pack(v, k, s)
  PROVE  m = k
<1> USE LayoutAssumption DEF MachineNumbers, MaxSequence
<1> DEFINE a == (t - Epoch) * Machines + m
           b == (v - Epoch) * Machines + k
<1>1. a \in Int /\ b \in Int
  OBVIOUS
<1>2. a * Numbers + r = b * Numbers + s
  BY DEF Pack
<1>3. a = b
  <2> HIDE DEF a, b
  <2>1. ~(a < b)
    BY <1>1, <1>2, Digits
  <2>2. ~(b < a)
    BY <1>1, <1>2, Digits
  <2> QED
    BY <1>1, <2>1, <2>2
<1>4. t - Epoch \in Int /\ v - Epoch \in Int
  OBVIOUS
<1>5. t - Epoch = v - Epoch
  BY <1>3, <1>4, Digits
<1> QED
  BY <1>3, <1>5

-----------------------------------------------------------------------------
(***************************************************************************)
(* The invariant.                                                          *)
(***************************************************************************)
LEMMA InitIInv == Init => IInv
<1> SUFFICES ASSUME Init PROVE IInv
  OBVIOUS
<1> USE WorkersAssumption, LayoutAssumption, BoundsAssumption
<1>1. TypeOK
  BY DEF Init, TypeOK, MachineNumbers, MaxSequence
<1>2. MutexInv
  BY DEF Init, MutexInv
<1>3. LayoutInv
  BY DEF Init, LayoutInv
<1>4. OrderInv
  BY DEF Init, OrderInv, Increasing, Below
<1> QED
  BY <1>1, <1>2, <1>3, <1>4 DEF IInv

\* Steps outside the critical section: the clock's, and a goroutine's on
\* the way to the mutex.
LEMMA OutsideStep ==
  ASSUME IInv, Tick \/ SetBack \/ UNCHANGED vars
               \/ \E w \in Workers : Call(w) \/ Acquire(w)
  PROVE  IInv'
<1> USE WorkersAssumption, LayoutAssumption, BoundsAssumption DEF IInv
<1> DEFINE Moved ==
      /\ UNCHANGED <<boots, generator, now, issued, past>>
      /\ clock' \in Nat /\ setBacks' \in 0..MaxSetBacks
      /\ \/ UNCHANGED <<mu, phase>>
         \/ \E w \in Workers :
              \/ /\ phase[w] = "idle" /\ UNCHANGED mu
                 /\ phase' = [phase EXCEPT ![w] = "lock"]
              \/ /\ phase[w] = "lock" /\ mu = NoWorker /\ mu' = w
                 /\ phase' = [phase EXCEPT ![w] = "read"]
<1>1. Moved
  <2>1. CASE Tick
    BY <2>1 DEF Tick, TypeOK
  <2>2. CASE SetBack
    BY <2>2 DEF SetBack, TypeOK
  <2>3. CASE UNCHANGED vars
    BY <2>3 DEF vars, TypeOK
  <2>4. ASSUME NEW w \in Workers, Call(w) PROVE Moved
    BY <2>4 DEF Call, TypeOK
  <2>5. ASSUME NEW w \in Workers, Acquire(w) PROVE Moved
    BY <2>5 DEF Acquire, TypeOK
  <2> QED
    BY <2>1, <2>2, <2>3, <2>4, <2>5
<1>2. TypeOK'
  BY <1>1 DEF TypeOK, generator
<1>3. MutexInv'
  BY <1>1 DEF MutexInv, TypeOK
<1>4. LayoutInv'
  BY <1>1 DEF LayoutInv, generator, Packed, Pack
<1>5. OrderInv'
  <2>1. \A w \in Workers : phase'[w] \in {"spin", "pack"} <=> phase[w] \in {"spin", "pack"}
    BY <1>1 DEF TypeOK
  <2>2. \A w \in Workers : phase'[w] \in {"spin", "pack"} => phase'[w] = phase[w]
    BY <1>1 DEF TypeOK
  <2> QED
    BY <1>1, <2>1, <2>2 DEF OrderInv, Increasing, Below, generator, Pack
<1> QED
  BY <1>2, <1>3, <1>4, <1>5

\* The clock is read with the mutex held.
LEMMA ReadStep ==
  ASSUME IInv, NEW w \in Workers, ReadClock(w)
  PROVE  IInv'
<1> USE WorkersAssumption, LayoutAssumption DEF IInv
<1> DEFINE n == NextNumber(sequence)
           same == Clamp = lastTime
<1>1. /\ phase[w] = "read" /\ mu = w
      /\ now' = Clamp
      /\ sequence' = IF same THEN n ELSE 0
      /\ phase' = [phase EXCEPT ![w] = IF same /\ n = 0 THEN "spin" ELSE "pack"]
      /\ UNCHANGED <<clock, setBacks, boots, machineID, lastTime, mu, issued, past>>
  BY DEF ReadClock, Spins, MutexInv
<1>2. /\ Clamp \in Nat /\ lastTime <= Clamp
      /\ n \in 0..MaxSequence
      /\ n # 0 => n = sequence + 1
  <2>1. Clamp \in Nat /\ lastTime <= Clamp
    BY DEF Clamp, TypeOK
  <2>2. sequence \in Nat /\ Numbers \in Nat \ {0} /\ sequence + 1 <= Numbers
    BY DEF TypeOK, MaxSequence
  <2>3. n = IF sequence + 1 = Numbers THEN 0 ELSE sequence + 1
    BY <2>2 DEF NextNumber
  <2> QED
    BY <2>1, <2>2, <2>3 DEF MaxSequence
<1> HIDE DEF n
<1>3. TypeOK'
  BY <1>1, <1>2 DEF TypeOK, MaxSequence
<1>4. MutexInv'
  BY <1>1 DEF MutexInv, TypeOK
<1>5. LayoutInv'
  BY <1>1 DEF LayoutInv, Packed, Pack
<1>6. OrderInv'
  <2>1. \A v \in Workers \ {w} : phase'[v] = phase[v] /\ phase[v] \notin {"spin", "pack"}
    BY <1>1 DEF TypeOK, MutexInv
  <2>2. \A i \in DOMAIN issued : issued[i] <= Pack(lastTime, machineID, sequence)
    BY <1>1, <2>1 DEF OrderInv
  <2>3. \A i \in DOMAIN issued : issued[i] \in Int
    BY DEF TypeOK
  <2>4. ASSUME NEW t \in Int, NEW s \in 0..MaxSequence,
               lastTime < t \/ (lastTime = t /\ sequence < s)
        PROVE  Below(t, s)
    <3>0. /\ lastTime \in Int /\ machineID \in MachineNumbers
          /\ sequence \in 0..MaxSequence
      BY DEF TypeOK
    <3>1. Pack(lastTime, machineID, sequence) < Pack(t, machineID, s)
      BY <2>4, <3>0, PackOrder
    <3>2. Pack(lastTime, machineID, sequence) \in Int /\ Pack(t, machineID, s) \in Int
      BY <3>0, PackOrder
    <3> QED
      BY <2>2, <2>3, <3>1, <3>2 DEF Below
  <2>5. 0 \in 0..MaxSequence
    BY DEF MaxSequence
  <2>6. CASE same /\ n = 0
    <3>1. lastTime \in Int /\ lastTime + 1 \in Int
      BY DEF TypeOK
    <3>2. Below(lastTime + 1, 0)
      BY <2>4, <2>5, <3>1
    <3>3. phase'[w] = "spin" /\ sequence' = 0
      BY <1>1, <2>6 DEF TypeOK
    <3> QED
      BY <1>1, <2>1, <3>2, <3>3 DEF OrderInv, Increasing, Below, Pack
  <2>7. CASE ~(same /\ n = 0)
    <3>1. Below(now', sequence')
      <4>1. lastTime < now' \/ (lastTime = now' /\ sequence < sequence')
        BY <1>1, <1>2, <2>7 DEF TypeOK
      <4>2. now' \in Int /\ sequence' \in 0..MaxSequence
        BY <1>3 DEF TypeOK
      <4> QED
        BY <2>4, <4>1, <4>2
    <3>2. phase'[w] = "pack"
      BY <1>1, <2>7 DEF TypeOK
    <3> QED
      BY <1>1, <2>1, <3>1, <3>2 DEF OrderInv, Increasing, Below, Pack
  <2> QED
    BY <2>6, <2>7
<1> QED
  BY <1>3, <1>4, <1>5, <1>6

LEMMA SpinStep ==
  ASSUME IInv, NEW w \in Workers, Spin(w)
  PROVE  IInv'
<1> USE WorkersAssumption, LayoutAssumption DEF IInv
<1>1. /\ phase[w] = "spin" /\ now' = clock
      /\ \/ clock <= lastTime /\ phase' = [phase EXCEPT ![w] = "spin"]
         \/ ~(clock <= lastTime) /\ phase' = [phase EXCEPT ![w] = "pack"]
      /\ UNCHANGED <<clock, setBacks, boots, generator, mu, issued, past>>
  BY DEF Spin
<1>2. TypeOK'
  BY <1>1 DEF TypeOK, generator
<1>3. MutexInv'
  BY <1>1 DEF MutexInv, TypeOK
<1>4. LayoutInv'
  BY <1>1 DEF LayoutInv, Packed, Pack, generator
<1>5. OrderInv'
  <2>1. \A v \in Workers \ {w} : phase'[v] = phase[v] /\ phase[v] \notin {"spin", "pack"}
    BY <1>1 DEF TypeOK, MutexInv
  <2>2. sequence = 0 /\ Below(lastTime + 1, 0)
    BY <1>1 DEF OrderInv
  <2>3. CASE clock <= lastTime
    BY <1>1, <2>1, <2>2, <2>3 DEF OrderInv, Increasing, Below, Pack, generator, TypeOK
  <2>4. CASE ~(clock <= lastTime)
    <3>1. lastTime + 1 \in Int /\ clock \in Int /\ lastTime + 1 <= clock
          /\ 0 \in 0..MaxSequence
      BY <2>4 DEF TypeOK, MaxSequence
    <3>2. Pack(lastTime + 1, machineID, 0) <= Pack(clock, machineID, 0)
      <4>1. CASE lastTime + 1 = clock
        BY <3>1, <4>1, PackOrder DEF TypeOK
      <4>2. CASE lastTime + 1 < clock
        BY <3>1, <4>2, PackOrder DEF TypeOK
      <4> QED
        BY <3>1, <4>1, <4>2
    <3>3. Below(clock, 0)
      <4>0. machineID \in MachineNumbers /\ \A i \in DOMAIN issued : issued[i] \in Int
        BY DEF TypeOK
      <4>1. /\ Pack(lastTime + 1, machineID, 0) \in Int
            /\ Pack(clock, machineID, 0) \in Int
            /\ \A i \in DOMAIN issued : issued[i] \in Int
        BY <3>1, <4>0, PackOrder
      <4> QED
        BY <2>2, <3>2, <4>1 DEF Below
    <3>4. phase'[w] = "pack"
      BY <1>1, <2>4 DEF TypeOK
    <3> QED
      BY <1>1, <2>1, <2>2, <3>3, <3>4 DEF OrderInv, Increasing, Below, Pack, generator
  <2> QED
    BY <2>3, <2>4
<1> QED
  BY <1>2, <1>3, <1>4, <1>5

LEMMA ReturnStep ==
  ASSUME IInv, NEW w \in Workers, Return(w)
  PROVE  IInv'
<1> USE WorkersAssumption, LayoutAssumption DEF IInv
<1> DEFINE x == Pack(now, machineID, sequence)
<1>1. /\ phase[w] = "pack" /\ mu = w
      /\ lastTime' = now /\ mu' = NoWorker
      /\ issued' = Append(issued, x)
      /\ phase' = [phase EXCEPT ![w] = "idle"]
      /\ UNCHANGED <<clock, setBacks, boots, machineID, sequence, now, past>>
  BY DEF Return, MutexInv
<1>2. x \in Int /\ now \in Int /\ sequence \in 0..MaxSequence
  BY PackOrder DEF TypeOK
<1>3. Packed(x, machineID)
  BY <1>2 DEF Packed
<1> HIDE DEF x
<1>4. /\ issued \in Seq(Int) /\ issued' \in Seq(Int)
      /\ Len(issued) \in Nat /\ DOMAIN issued = 1..Len(issued)
      /\ DOMAIN issued' = 1..(Len(issued) + 1)
      /\ \A i \in 1..Len(issued) : issued'[i] = issued[i]
      /\ issued'[Len(issued) + 1] = x
  <2>1. issued \in Seq(Int)
    BY DEF TypeOK
  <2>2. issued' \in Seq(Int) /\ Len(issued') = Len(issued) + 1
    BY <1>1, <1>2, <2>1, AppendProperties
  <2>3. \A i \in 1..Len(issued) : issued'[i] = issued[i]
    BY <1>1, <1>2, <2>1, AppendProperties
  <2>4. issued'[Len(issued) + 1] = x
    BY <1>1, <1>2, <2>1, AppendProperties
  <2> QED
    BY <2>1, <2>2, <2>3, <2>4, LenProperties
<1>5. TypeOK'
  BY <1>1, <1>4 DEF TypeOK
<1>6. MutexInv'
  BY <1>1 DEF MutexInv, TypeOK
<1>7. LayoutInv'
  <2>1. \A i \in DOMAIN issued' : Packed(issued'[i], machineID)
    BY <1>3, <1>4 DEF LayoutInv
  <2> QED
    BY <1>1, <2>1 DEF LayoutInv, Packed, Pack
<1>8. OrderInv'
  <2>1. \A v \in Workers : phase'[v] \notin {"spin", "pack"}
    BY <1>1 DEF TypeOK, MutexInv
  <2>2. \A i \in DOMAIN issued : issued[i] < x /\ issued[i] \in Int
    BY <1>1, <1>4 DEF OrderInv, Below, x
  <2>3. Increasing'
    <3>1. Increasing
      BY DEF OrderInv
    <3> SUFFICES ASSUME NEW i \in DOMAIN issued', NEW j \in DOMAIN issued', i < j
                 PROVE  issued'[i] < issued'[j]
      BY DEF Increasing
    <3>2. i \in DOMAIN issued
      BY <1>4
    <3>3. CASE j = Len(issued) + 1
      BY <1>4, <2>2, <3>2, <3>3
    <3>4. CASE j \in DOMAIN issued
      BY <1>4, <3>1, <3>2, <3>4 DEF Increasing
    <3> QED
      BY <1>4, <3>3, <3>4
  <2>4. \A i \in DOMAIN issued' : issued'[i] <= x
    BY <1>2, <1>4, <2>2
  <2>5. x = Pack(lastTime', machineID', sequence')
    BY <1>1 DEF x
  <2>6. \A i \in DOMAIN issued' : issued'[i] <= Pack(lastTime', machineID', sequence')
    BY <2>4, <2>5
  <2> QED
    BY <2>1, <2>3, <2>6 DEF OrderInv, Pack
<1> QED
  BY <1>5, <1>6, <1>7, <1>8

LEMMA RestartStep ==
  ASSUME IInv, Restart
  PROVE  IInv'
<1> USE WorkersAssumption, LayoutAssumption DEF IInv
<1> DEFINE kept == {[machine |-> machineID, id |-> issued[i]] : i \in DOMAIN issued}
<1>1. /\ boots' = boots + 1 /\ machineID' \in MachineNumbers
      /\ sequence' = 0 /\ lastTime' = -1 /\ mu' = NoWorker /\ now' = 0
      /\ phase' = [v \in Workers |-> "idle"] /\ issued' = << >>
      /\ past' = past \cup kept
      /\ UNCHANGED <<clock, setBacks>>
  BY DEF Restart
<1>2. TypeOK'
  BY <1>1 DEF TypeOK, MaxSequence
<1>3. MutexInv'
  BY <1>1 DEF MutexInv
<1>4. LayoutInv'
  <2>1. \A p \in kept : Packed(p.id, p.machine)
    BY DEF LayoutInv
  <2>2. \A p \in past' : Packed(p.id, p.machine)
    BY <1>1, <2>1 DEF LayoutInv
  <2>3. DOMAIN issued' = {}
    BY <1>1
  <2> QED
    BY <2>2, <2>3 DEF LayoutInv, Packed, Pack
<1>5. OrderInv'
  BY <1>1 DEF OrderInv, Increasing
<1> QED
  BY <1>2, <1>3, <1>4, <1>5

LEMMA NextIInv == IInv /\ [Next]_vars => IInv'
BY OutsideStep, ReadStep, SpinStep, ReturnStep, RestartStep DEF Next, Step

THEOREM Inductive == Spec => []IInv
BY InitIInv, NextIInv, PTL DEF Spec

-----------------------------------------------------------------------------
\* The generator's state, and what it returns, keep their types; the number
\* within the millisecond always fits its field.
THEOREM TypeCorrect == Spec => []TypeOK
<1>1. IInv => TypeOK
  BY DEF IInv
<1> QED
  BY Inductive, <1>1, PTL

\* The ids of one process strictly increase, for every clock and layout.
THEOREM IdsIncrease == Spec => []Increasing
<1>1. IInv => Increasing
  BY DEF IInv, OrderInv
<1> QED
  BY Inductive, <1>1, PTL

\* Machine numbers keep the ids of processes apart.
THEOREM MachinesNeverCollide == Spec => []MachinesApart
<1>1. IInv => MachinesApart
  <2> SUFFICES ASSUME IInv, NEW p \in past, NEW i \in DOMAIN issued,
                      p.id = issued[i]
               PROVE  p.machine = machineID
    BY DEF MachinesApart
  <2>1. p.machine \in MachineNumbers /\ machineID \in MachineNumbers
    BY DEF IInv, TypeOK
  <2>2. PICK t \in Int, r \in 0..MaxSequence : p.id = Pack(t, p.machine, r)
    BY DEF IInv, LayoutInv, Packed
  <2>3. PICK v \in Int, s \in 0..MaxSequence : issued[i] = Pack(v, machineID, s)
    BY DEF IInv, LayoutInv, Packed
  <2>4. Pack(t, p.machine, r) = Pack(v, machineID, s)
    BY <2>2, <2>3
  <2> QED
    BY <2>1, <2>4, PackMachine
<1> QED
  BY Inductive, <1>1, PTL

-----------------------------------------------------------------------------
(***************************************************************************)
(* The calls of the Go client: the inductive invariant.                    *)
(***************************************************************************)
\* They are about one thing.
SingleMethods ==
  {"FindOne", "UpdateWithOptions", "DeleteOne", "DownloadFile", "GetCollection",
   "UpdateCollection", "SyncCollection", "CreateCollection", "DropCollection",
   "DropCollectionCascade", "AddField", "UpdateField", "RemoveField", "CreateIndex",
   "DeleteIndex", "UpdateScript", "ToggleScript", "DisableScript", "DeleteScript"}

FoundMethods ==
  {"UpdateWithOptions", "GetCollection", "UpdateCollection", "SyncCollection", "ToggleScript"}

\* It names one thing.
One(q) == q.method \in SingleMethods => \E i \in Ids : q.ids = {i}

\* Before it is answered: nothing that is untrue is said; what was found was there; and
\* what may still be refused has done nothing.
SentInv(q) ==
  /\ \A i \in Ids : Tells(q.seen[i], q.rows[i])
  /\ q.did => q.method \in {"CreateMany", "ListFields"}

BegunInv(q, t) ==
  /\ q.method \in FoundMethods \cup {"List", "CreateMany", "DropCollection", "DropCollectionCascade"}
  /\ \A i \in Ids : Tells(q.seen[i], q.rows[i])
  /\ q.did => q.method \in {"CreateMany", "DropCollection", "DropCollectionCascade"}
  /\ q.method \in FoundMethods =>
       /\ \A i \in q.ids : q.found \in q.seen[i]
       /\ q.method # "UpdateWithOptions" => q.found # Absent
  /\ q.method = "UpdateCollection" =>
       \A i \in q.ids :
         Absent \in q.seen[i] \/ (t[i] # Absent /\ t[i].mark = q.found.mark)

ChangedInv(q) ==
  /\ q.method \in {"CreateCollection", "UpdateCollection", "AddField", "UpdateField"}
  /\ q.method \in {"CreateCollection", "UpdateCollection"} =>
       \A i \in q.ids : \/ q.found \in q.seen[i]
                        \/ q.method = "UpdateCollection" /\ Absent \in q.seen[i]
  /\ q.method \in Updating => UpdateTrue(q)

TrueOf(q, rows) ==
  /\ RowsTrue(q, rows)
  /\ q.method \in Numbering => NumberTrue(q)
  /\ q.method \in Updating => UpdateTrue(q)

Undone(q, code) == code \in Clear /\ q.did => q.method \in {"CreateMany", "ListFields"}

AnsweredInv(q) ==
  IF Failed(q) THEN Undone(q, ErrorCode(q)) ELSE TrueOf(q, Understood(q))

ReturnedInv(q) == IF q.ok THEN TrueOf(q, q.rows) ELSE Undone(q, q.code)

CallInv(q, t) ==
  /\ One(q)
  /\ q.stage \in Open => ~q.ok /\ \A i \in Ids : t[i] \in q.seen[i]
  /\ q.stage = "sent" => SentInv(q)
  /\ q.stage = "begun" => BegunInv(q, t)
  /\ q.stage = "changed" => ChangedInv(q)
  /\ q.stage = "answered" => AnsweredInv(q)
  /\ q.stage = "returned" => ReturnedInv(q)

ClientTypeOK ==
  /\ kind \in ClientKinds
  /\ things \in [Ids -> Values \cup {Absent}]
  /\ calls \in Seq(CallRecords)

ClientInv ==
  /\ ClientTypeOK
  /\ \A n \in DOMAIN calls : calls[n].method \in Methods /\ CallInv(calls[n], things)

\* Which kinds some of the methods are about.
LEMMA KindOfMethod ==
  ASSUME kind \in ClientKinds, NEW m \in Methods
  PROVE  /\ m = "UpdateCollection" => kind = "collections"
         /\ m \in {"UpdateScript", "DisableScript", "ToggleScript"} => kind = "scripts"
         /\ m \in {"UpdateWithOptions", "DownloadFile", "CreateMany", "List", "Count"} => ByCRUD
         /\ m \in {"UploadFile", "DownloadFile"} => kind = "files"
         /\ m \in {"UpdateField", "ListFields", "RemoveField"} => kind = "fields"
BY ClientAssumption DEF Methods, RecordMethods, FileMethods, LinkMethods, CollectionMethods,
  FieldMethods, IndexMethods, ScriptMethods, ByCRUD

-----------------------------------------------------------------------------
(***************************************************************************)
(* What has been seen only grows, and what was true of it stays true.      *)
(***************************************************************************)
States == [Ids -> Values \cup {Absent}]

\* A row that was true of some versions of a thing is true of more.
LEMMA TellsMore ==
  ASSUME NEW vs, NEW ws, vs \subseteq ws, NEW row, Tells(vs, row)
  PROVE  Tells(ws, row)
BY DEF Tells

\* A version that was seen is a true row.
LEMMA TellsSeen ==
  ASSUME NEW vs, NEW v \in vs
  PROVE  Tells(vs, v)
BY DEF Tells

\* Grown: the fields that a step of another call leaves alone, and what it adds.
Grown(q, w, t) ==
  /\ w \in CallRecords
  /\ w.method = q.method /\ w.ids = q.ids /\ w.value = q.value /\ w.stage = q.stage
  /\ w.found = q.found /\ w.rest = q.rest /\ w.rows = q.rows /\ w.number = q.number
  /\ w.status = q.status /\ w.code = q.code /\ w.ok = q.ok /\ w.did = q.did
  /\ \A i \in Ids : w.seen[i] = q.seen[i] \cup {t[i]}

LEMMA WatchedGrows ==
  ASSUME NEW q \in CallRecords, q.stage \in Open, NEW t \in States
  PROVE  Grown(q, Watched(q, t), t)
<1> DEFINE s == [i \in Ids |-> q.seen[i] \cup {t[i]}]
<1>1. s \in [Ids -> SUBSET (Values \cup {Absent})]
  BY DEF CallRecords, States
<1>2. Watched(q, t) = [q EXCEPT !.seen = s]
  BY DEF Watched
<1>3. \A i \in Ids : s[i] = q.seen[i] \cup {t[i]}
  OBVIOUS
<1> HIDE DEF s
<1> QED
  BY <1>1, <1>2, <1>3 DEF Grown, CallRecords

\* Numbers of records that were there stay within their bounds.
LEMMA NumberStays ==
  ASSUME NEW q \in CallRecords, NEW w \in CallRecords, NEW t, Grown(q, w, t), NumberTrue(q)
  PROVE  NumberTrue(w)
<1> DEFINE Always(r) == {i \in r.ids : Absent \notin r.seen[i]}
           Sometimes(r) == {i \in r.ids : ~ r.seen[i] \subseteq {Absent}}
<1>1. /\ Always(w) \subseteq Always(q) /\ Sometimes(q) \subseteq Sometimes(w)
      /\ Always(q) \subseteq Ids /\ Sometimes(w) \subseteq Ids
  BY DEF Grown, CallRecords
<1>2. /\ IsFiniteSet(Always(q)) /\ IsFiniteSet(Sometimes(w))
      /\ IsFiniteSet(Always(w)) /\ IsFiniteSet(Sometimes(q))
  <2>1. IsFiniteSet(Always(q)) /\ IsFiniteSet(Sometimes(w))
    BY <1>1, ClientAssumption, FS_Subset
  <2> QED
    BY <1>1, <2>1, FS_Subset
<1>3. /\ Cardinality(Always(w)) <= Cardinality(Always(q))
      /\ Cardinality(Sometimes(q)) <= Cardinality(Sometimes(w))
  <2>1. Cardinality(Always(w)) <= Cardinality(Always(q))
    BY <1>1, <1>2, FS_Subset
  <2>2. Cardinality(Sometimes(q)) <= Cardinality(Sometimes(w))
    BY <1>1, <1>2, FS_Subset
  <2> QED BY <2>1, <2>2
<1>4. /\ Cardinality(Always(w)) \in Nat /\ Cardinality(Always(q)) \in Nat
      /\ Cardinality(Sometimes(w)) \in Nat /\ Cardinality(Sometimes(q)) \in Nat
  BY <1>2, FS_CardinalityType
<1>5. Cardinality(Always(q)) <= q.number /\ q.number <= Cardinality(Sometimes(q))
  BY DEF NumberTrue
<1>6. w.number = q.number /\ q.number \in Nat
  BY DEF Grown, CallRecords
<1>7. Cardinality(Always(w)) <= w.number /\ w.number <= Cardinality(Sometimes(w))
  <2> HIDE DEF Always, Sometimes
  <2> QED BY <1>3, <1>4, <1>5, <1>6
<1> QED BY <1>7 DEF NumberTrue

\* What is true of an answer stays true.
LEMMA TrueStays ==
  ASSUME NEW q \in CallRecords, NEW w \in CallRecords, NEW t, Grown(q, w, t),
         NEW rows, TrueOf(q, rows)
  PROVE  TrueOf(w, rows)
<1>1. RowsTrue(w, rows)
  <2>1. SUFFICES ASSUME NEW i \in Ids
                 PROVE  \/ Tells(w.seen[i], rows[i])
                        \/ w.method \in Overlooking /\ Absent \in w.seen[i]
    BY DEF RowsTrue
  <2>2. q.seen[i] \subseteq w.seen[i] /\ w.method = q.method
    BY DEF Grown
  <2>3. CASE Tells(q.seen[i], rows[i])
    BY <2>2, <2>3, TellsMore
  <2>4. CASE q.method \in Overlooking /\ Absent \in q.seen[i]
    BY <2>2, <2>4
  <2> QED BY <2>3, <2>4 DEF TrueOf, RowsTrue
<1>2. w.method \in Numbering => NumberTrue(w)
  BY NumberStays DEF TrueOf, Grown
<1>3. w.method \in Updating => UpdateTrue(w)
  BY DEF TrueOf, Grown, UpdateTrue, CallRecords
<1> QED BY <1>1, <1>2, <1>3 DEF TrueOf

-----------------------------------------------------------------------------
(***************************************************************************)
(* A step of one call, and what it leaves of the others.                   *)
(***************************************************************************)
\* No collection becomes another one but by not being there in between.
MarksKept(s, t) == \A i \in Ids : s[i] = Absent \/ t[i] = Absent \/ t[i].mark = s[i].mark

\* A call that is served elsewhere, or is over, keeps its invariant.
LEMMA CallStays ==
  ASSUME NEW q \in CallRecords, NEW s \in States, NEW t \in States, CallInv(q, s),
         q.method = "UpdateCollection" => MarksKept(s, t)
  PROVE  /\ Watched(q, t) \in CallRecords
         /\ Watched(q, t).method = q.method
         /\ CallInv(Watched(q, t), t)
<1> DEFINE w == Watched(q, t)
<1>1. CASE q.stage \notin Open
  <2>1. w = q
    BY <1>1 DEF Watched
  <2>2. q.stage = "returned"
    BY <1>1 DEF CallRecords
  <2>3. CallInv(q, t)
    BY <2>2 DEF CallInv, Open
  <2> QED BY <2>1, <2>3
<1>2. CASE q.stage \in Open
  <2>1. Grown(q, w, t)
    BY <1>2, WatchedGrows
  <2>2. w \in CallRecords
    BY <2>1 DEF Grown
  <2> HIDE DEF w
  <2>3. One(w)
    BY <2>1 DEF One, Grown, CallInv
  <2>4. ~w.ok /\ \A i \in Ids : t[i] \in w.seen[i]
    BY <1>2, <2>1 DEF Grown, CallInv
  <2>5. \A i \in Ids : q.seen[i] \subseteq w.seen[i]
    BY <2>1 DEF Grown
  <2>6. w.stage = "sent" => SentInv(w)
    BY <2>1, <2>5, TellsMore DEF SentInv, Grown, CallInv
  <2>7. w.stage = "begun" => BegunInv(w, t)
    <3>1. SUFFICES ASSUME w.stage = "begun" PROVE BegunInv(w, t)
      OBVIOUS
    <3>2. BegunInv(q, s)
      BY <3>1, <2>1 DEF Grown, CallInv
    <3>3. \A i \in Ids : Tells(w.seen[i], w.rows[i])
      BY <3>2, <2>1, <2>5, TellsMore DEF BegunInv, Grown
    <3>4. q.method \in FoundMethods =>
            \A i \in q.ids : q.found \in w.seen[i]
      BY <3>2, <2>5 DEF BegunInv, CallRecords
    <3>5. q.method = "UpdateCollection" =>
            \A i \in q.ids :
              Absent \in w.seen[i] \/ (t[i] # Absent /\ t[i].mark = q.found.mark)
      <4>1. SUFFICES ASSUME q.method = "UpdateCollection", NEW i \in q.ids
                     PROVE  Absent \in w.seen[i] \/ (t[i] # Absent /\ t[i].mark = q.found.mark)
        OBVIOUS
      <4>2. i \in Ids
        BY DEF CallRecords
      <4>3. Absent \in q.seen[i] \/ (s[i] # Absent /\ s[i].mark = q.found.mark)
        BY <3>2, <4>1 DEF BegunInv
      <4>4. t[i] = Absent \/ s[i] = Absent \/ t[i].mark = s[i].mark
        BY <4>1, <4>2 DEF MarksKept
      <4>5. t[i] \in w.seen[i]
        BY <2>4, <4>2
      <4> QED BY <4>2, <4>3, <4>4, <4>5, <2>5
    <3> QED BY <2>1, <3>2, <3>3, <3>4, <3>5 DEF BegunInv, Grown
  <2>8. w.stage = "changed" => ChangedInv(w)
    <3>1. SUFFICES ASSUME w.stage = "changed" PROVE ChangedInv(w)
      OBVIOUS
    <3>2. ChangedInv(q)
      BY <3>1, <2>1 DEF Grown, CallInv
    <3> QED BY <2>1, <2>5, <3>2 DEF ChangedInv, Grown, UpdateTrue, CallRecords
  <2>9. w.stage = "answered" => AnsweredInv(w)
    <3>1. SUFFICES ASSUME w.stage = "answered" PROVE AnsweredInv(w)
      OBVIOUS
    <3>2. AnsweredInv(q)
      BY <3>1, <2>1 DEF Grown, CallInv
    <3>3. /\ Failed(w) <=> Failed(q)
          /\ ErrorCode(w) = ErrorCode(q)
      BY <2>1 DEF Grown, Failed, ErrorCode
    <3>4. Understood(w) = Understood(q)
      BY <2>1 DEF Grown, Understood, Confirmed
    <3>5. CASE Failed(q)
      BY <2>1, <3>2, <3>3, <3>5 DEF AnsweredInv, Undone, Grown
    <3>6. CASE ~Failed(q)
      BY <2>1, <2>2, <3>2, <3>3, <3>4, <3>6, TrueStays DEF AnsweredInv
    <3> QED BY <3>5, <3>6
  <2>10. w.stage # "returned"
    BY <1>2, <2>1 DEF Grown, Open
  <2> QED BY <2>1, <2>2, <2>3, <2>4, <2>6, <2>7, <2>8, <2>9, <2>10 DEF CallInv, Grown, w
<1> QED BY <1>1, <1>2

\* A step of call n that leaves t and makes it q.
LEMMA ServeStep ==
  ASSUME ClientInv, NEW n \in DOMAIN calls, NEW t \in States, NEW q \in CallRecords,
         Serve(n, t, q), q.stage \in Open, q.method \in Methods,
         kind = "collections" => MarksKept(things, t),
         CallInv(Watched(q, t), t)
  PROVE  ClientInv'
<1> DEFINE p == [m \in DOMAIN calls |-> Watched(IF m = n THEN q ELSE calls[m], t)]
<1>1. kind' = kind /\ things' = t /\ calls' = p
  BY DEF Serve
<1>2. calls \in Seq(CallRecords) /\ kind \in ClientKinds /\ things \in States
  BY DEF ClientInv, ClientTypeOK, States
<1>3. \A m \in DOMAIN calls :
        p[m] \in CallRecords /\ p[m].method \in Methods /\ CallInv(p[m], t)
  <2>1. SUFFICES ASSUME NEW m \in DOMAIN calls
                 PROVE  p[m] \in CallRecords /\ p[m].method \in Methods /\ CallInv(p[m], t)
    OBVIOUS
  <2>2. CASE m = n
    <3>1. p[m] = Watched(q, t)
      BY <2>2
    <3>2. Watched(q, t) \in CallRecords /\ Watched(q, t).method = q.method
      BY WatchedGrows DEF Grown
    <3> HIDE DEF p
    <3> QED BY <3>1, <3>2
  <2>3. CASE m # n
    <3>1. p[m] = Watched(calls[m], t)
      BY <2>3
    <3>2. calls[m] \in CallRecords /\ calls[m].method \in Methods /\ CallInv(calls[m], things)
      BY <1>2 DEF ClientInv
    <3>3. calls[m].method = "UpdateCollection" => MarksKept(things, t)
      BY <1>2, <3>2, KindOfMethod
    <3>4. /\ Watched(calls[m], t) \in CallRecords
          /\ Watched(calls[m], t).method = calls[m].method
          /\ CallInv(Watched(calls[m], t), t)
      BY <1>2, <3>2, <3>3, CallStays
    <3> HIDE DEF p
    <3> QED BY <3>1, <3>2, <3>4
  <2> QED BY <2>2, <2>3
<1>4. p \in Seq(CallRecords) /\ DOMAIN p = DOMAIN calls
  <2>1. DOMAIN p = DOMAIN calls
    OBVIOUS
  <2>2. DOMAIN calls = 1..Len(calls) /\ Len(calls) \in Nat
    BY <1>2
  <2> HIDE DEF p
  <2>3. p = [m \in 1..Len(calls) |-> p[m]]
    BY <2>1, <2>2 DEF p
  <2> QED BY <1>3, <2>1, <2>2, <2>3, SeqDef
<1> HIDE DEF p
<1>5. Methods' = Methods
  BY <1>1 DEF Methods
<1>6. ClientTypeOK'
  BY <1>1, <1>2, <1>4 DEF ClientTypeOK, States
<1>7. \A m \in DOMAIN calls' : calls'[m].method \in Methods' /\ CallInv(calls'[m], things')
  BY <1>1, <1>3, <1>4, <1>5
<1> QED BY <1>6, <1>7 DEF ClientInv

-----------------------------------------------------------------------------
(***************************************************************************)
(* Answers.                                                                *)
(***************************************************************************)
\* What a call says when it is answered is true, t being there then too.
Truthful(q, t) ==
  /\ One(q) /\ ~q.ok
  /\ \A i \in Ids : \/ Tells(q.seen[i] \cup {t[i]}, Understood(q)[i])
                    \/ q.method \in Overlooking /\ Absent \in q.seen[i] \cup {t[i]}
  /\ q.method \in Numbering => NumberTrue(q)
  /\ q.method \in Updating => q.did \/ \E i \in q.ids : Absent \in q.seen[i] \cup {t[i]}

Answers == [status : Nat, code : Nat]

\* An answer changes three fields of a call.
LEMMA AnsweredForm ==
  ASSUME NEW q \in CallRecords, NEW a \in Answers
  PROVE  LET r == Answered(q, a) IN
         /\ r \in CallRecords /\ r.stage = "answered" /\ r.status = a.status /\ r.code = a.code
         /\ r.method = q.method /\ r.ids = q.ids /\ r.rows = q.rows /\ r.number = q.number
         /\ r.ok = q.ok /\ r.did = q.did /\ r.seen = q.seen
BY DEF Answered, Answers, CallRecords, Open

\* An answer that says that all went well.
LEMMA AnswerStep ==
  ASSUME ClientInv, NEW n \in DOMAIN calls, NEW t \in States, NEW q \in CallRecords,
         q.method \in Methods, kind = "collections" => MarksKept(things, t),
         Truthful(q, t), Serve(n, t, Answered(q, writeOK))
  PROVE  ClientInv'
<1> DEFINE r == Answered(q, writeOK)
           w == Watched(r, t)
<1>1. /\ r \in CallRecords /\ r.stage = "answered" /\ r.status = 200 /\ r.code = 0
      /\ r.method = q.method /\ r.ids = q.ids /\ r.rows = q.rows /\ r.number = q.number
      /\ r.ok = q.ok /\ r.did = q.did /\ r.seen = q.seen
  <2>1. writeOK \in Answers /\ writeOK.status = 200 /\ writeOK.code = 0
    BY DEF writeOK, Answers
  <2> QED BY <2>1, AnsweredForm
<1>2. Serve(n, t, r)
  OBVIOUS
<1> HIDE DEF r
<1>3. Grown(r, w, t)
  BY <1>1, WatchedGrows DEF Open
<1>4. w \in CallRecords
  BY <1>3 DEF Grown
<1>5. ~Failed(w)
  BY <1>1, <1>3 DEF Grown, Failed
<1>6. Understood(w) = Understood(q)
  BY <1>1, <1>3 DEF Grown, Understood, Confirmed
<1>7. RowsTrue(w, Understood(w))
  BY <1>1, <1>3, <1>6 DEF RowsTrue, Truthful, Grown
<1>8. w.method \in Numbering => NumberTrue(w)
  <2>1. NumberTrue(q) => NumberTrue(r)
    BY <1>1 DEF NumberTrue
  <2> QED BY <1>1, <1>3, <1>4, <2>1, NumberStays DEF Truthful, Grown
<1>9. w.method \in Updating => UpdateTrue(w)
  BY <1>1, <1>3 DEF Truthful, Grown, UpdateTrue, CallRecords
<1>10. AnsweredInv(w)
  BY <1>5, <1>7, <1>8, <1>9 DEF AnsweredInv, TrueOf
<1>11. One(w) /\ ~w.ok /\ w.stage = "answered" /\ \A i \in Ids : t[i] \in w.seen[i]
  BY <1>1, <1>3 DEF Truthful, One, Grown
<1>12. CallInv(w, t)
  BY <1>10, <1>11 DEF CallInv
<1>13. r.stage \in Open /\ r.method \in Methods
  BY <1>1 DEF Open
<1> QED BY <1>1, <1>2, <1>12, <1>13, ServeStep

\* An answer that the client takes for an error.
IsError(q, a) ==
  a.status >= 400 \/ (a.code \notin {0, 200, 201} /\ q.method # "DownloadFile")

\* An error: a refusal of a call for which nothing was done, or none that is clear.
LEMMA RefuseStep ==
  ASSUME ClientInv, NEW n \in DOMAIN calls, NEW t \in States, NEW q \in CallRecords,
         q.method \in Methods, kind = "collections" => MarksKept(things, t),
         One(q), ~q.ok, NEW a \in Answers, IsError(q, a),
         q.did => q.method \in {"CreateMany", "ListFields"} \/ (a.status = 500 /\ a.code = 1),
         Serve(n, t, Refused(q, a))
  PROVE  ClientInv'
<1> DEFINE r == Refused(q, a)
           w == Watched(r, t)
<1>0. Silent \in [Ids -> Rows]
  BY DEF Silent, Rows
<1>1. /\ r \in CallRecords /\ r.stage = "answered" /\ r.status = a.status /\ r.code = a.code
      /\ r.method = q.method /\ r.ids = q.ids /\ r.ok = q.ok /\ r.did = q.did
  <2> HIDE DEF Silent
  <2> QED BY <1>0 DEF Refused, Answered, Answers, CallRecords, Open
<1>2. Serve(n, t, r)
  OBVIOUS
<1> HIDE DEF r
<1>3. Grown(r, w, t)
  BY <1>1, WatchedGrows DEF Open
<1>4. Failed(w)
  BY <1>1, <1>3 DEF Grown, Failed, IsError
<1>5. Undone(w, ErrorCode(w))
  BY <1>1, <1>3 DEF Grown, Undone, ErrorCode, Clear
<1>6. AnsweredInv(w)
  BY <1>4, <1>5 DEF AnsweredInv
<1>7. One(w) /\ ~w.ok /\ w.stage = "answered" /\ \A i \in Ids : t[i] \in w.seen[i]
  BY <1>1, <1>3 DEF One, Grown
<1>8. CallInv(w, t)
  BY <1>6, <1>7 DEF CallInv
<1>9. r.stage \in Open /\ r.method \in Methods
  BY <1>1 DEF Open
<1> QED BY <1>1, <1>2, <1>8, <1>9, ServeStep

\* The errors of the handlers are errors to the client.
LEMMA ErrorAnswers ==
  ASSUME kind \in ClientKinds, NEW q, q.method \in Methods,
         NEW a \in Refusals \cup {NotFound, AlreadyExists, SystemError, writeFail(401, 401)}
  PROVE  /\ a \in Answers /\ IsError(q, a)
         /\ a = SystemError => a.status = 500 /\ a.code = 1
<1>1. q.method = "DownloadFile" => ByCRUD
  BY KindOfMethod
<1>2. CASE ByCRUD
  BY <1>2 DEF Refusals, NotFound, AlreadyExists, SystemError, LogicError, writeFail, Answers, IsError
<1>3. CASE ~ByCRUD
  BY <1>1, <1>3 DEF Refusals, NotFound, AlreadyExists, SystemError, LogicError, HandlerResponse,
    writeFail, Answers, IsError
<1> QED BY <1>2, <1>3

\* The write, and then one answer or the other.
LEMMA ConcludeStep ==
  ASSUME ClientInv, NEW n \in DOMAIN calls, NEW t \in States, NEW q \in CallRecords,
         q.method \in Methods, kind = "collections" => MarksKept(things, t),
         Truthful(q, t), Concludes(n, t, q)
  PROVE  ClientInv'
<1>1. PICK a \in Outcomes(q) :
        Serve(n, t, IF a = writeOK THEN Answered(q, a) ELSE Refused(q, a))
  BY DEF Concludes
<1>2. CASE a = writeOK
  BY <1>1, <1>2, AnswerStep
<1>3. CASE a # writeOK
  <2>1. a = SystemError
    BY <1>3 DEF Outcomes
  <2>2. a \in Answers /\ IsError(q, a) /\ a.status = 500 /\ a.code = 1
    BY <2>1, ErrorAnswers DEF ClientInv, ClientTypeOK
  <2> QED BY <1>1, <1>3, <2>2, RefuseStep DEF Truthful
<1> QED BY <1>2, <1>3

-----------------------------------------------------------------------------
(***************************************************************************)
(* The parts of the actions.                                               *)
(***************************************************************************)
\* What the invariant says of a call.
LEMMA CallFacts ==
  ASSUME ClientInv, NEW n \in DOMAIN calls
  PROVE  /\ kind \in ClientKinds /\ things \in States /\ MarksKept(things, things)
         /\ calls[n] \in CallRecords /\ calls[n].method \in Methods
         /\ CallInv(calls[n], things) /\ One(calls[n])
BY DEF ClientInv, ClientTypeOK, States, MarksKept, CallInv

\* What it says of one that is under way.
LEMMA OpenFacts ==
  ASSUME ClientInv, NEW n \in DOMAIN calls, calls[n].stage \in Open
  PROVE  /\ ~calls[n].ok
         /\ \A i \in Ids : things[i] \in calls[n].seen[i]
         /\ calls[n].stage = "sent" => SentInv(calls[n])
         /\ calls[n].stage = "begun" => BegunInv(calls[n], things)
         /\ calls[n].stage = "changed" => ChangedInv(calls[n])
BY CallFacts DEF CallInv

\* A call for which something was written.
LEMMA DidForm ==
  ASSUME NEW q \in CallRecords
  PROVE  /\ Did(q) \in CallRecords /\ Did(q).did
         /\ Did(q).method = q.method /\ Did(q).ids = q.ids /\ Did(q).stage = q.stage
         /\ Did(q).found = q.found /\ Did(q).rest = q.rest /\ Did(q).rows = q.rows
         /\ Did(q).number = q.number /\ Did(q).ok = q.ok /\ Did(q).seen = q.seen
         /\ Did(q).value = q.value
BY DEF Did, CallRecords

LEMMA SaysForm ==
  ASSUME NEW q \in CallRecords, NEW i \in Ids, NEW row \in Rows
  PROVE  LET r == Says(q, i, row) IN
         /\ r \in CallRecords
         /\ r.method = q.method /\ r.ids = q.ids /\ r.ok = q.ok /\ r.did = q.did /\ r.seen = q.seen
         /\ r.rows[i] = row /\ \A j \in Ids \ {i} : r.rows[j] = Unsaid
<1> DEFINE f == [Silent EXCEPT ![i] = row]
<1>1. f \in [Ids -> Rows] /\ f[i] = row /\ \A j \in Ids \ {i} : f[j] = Unsaid
  BY DEF Silent, Rows
<1>2. Says(q, i, row) = [q EXCEPT !.rows = f]
  BY DEF Says
<1> HIDE DEF f
<1> QED BY <1>1, <1>2 DEF CallRecords

\* A call may say of one thing what is so.
LEMMA SaysTrue ==
  ASSUME NEW q \in CallRecords, One(q), ~q.ok, NEW t \in States, NEW i \in Ids, NEW row \in Rows,
         q.method \notin Confirming \cup Numbering,
         \/ Tells(q.seen[i] \cup {t[i]}, row)
         \/ q.method \in Overlooking /\ Absent \in q.seen[i] \cup {t[i]},
         q.method \in Updating => q.did \/ \E j \in q.ids : Absent \in q.seen[j] \cup {t[j]}
  PROVE  /\ Says(q, i, row) \in CallRecords /\ Says(q, i, row).method = q.method
         /\ Truthful(Says(q, i, row), t)
<1> DEFINE r == Says(q, i, row)
<1>1. /\ r \in CallRecords
      /\ r.method = q.method /\ r.ids = q.ids /\ r.ok = q.ok /\ r.did = q.did /\ r.seen = q.seen
      /\ r.rows[i] = row /\ \A j \in Ids \ {i} : r.rows[j] = Unsaid
  BY SaysForm
<1> HIDE DEF r
<1>2. One(r) /\ ~r.ok
  BY <1>1 DEF One
<1>3. Understood(r) = r.rows
  BY <1>1 DEF Understood
<1>4. ASSUME NEW j \in Ids
      PROVE  \/ Tells(r.seen[j] \cup {t[j]}, Understood(r)[j])
             \/ r.method \in Overlooking /\ Absent \in r.seen[j] \cup {t[j]}
  <2>1. CASE j = i
    BY <1>1, <1>3, <2>1
  <2>2. CASE j # i
    BY <1>1, <1>3, <2>2 DEF Tells
  <2> QED BY <2>1, <2>2
<1>5. Truthful(r, t)
  BY <1>1, <1>2, <1>4 DEF Truthful
<1> QED BY <1>1, <1>5 DEF r

\* A thing is written.
LEMMA WithForm ==
  ASSUME things \in States, NEW i \in Ids, NEW v \in Values \cup {Absent}
  PROVE  /\ With(i, v) \in States /\ With(i, v)[i] = v
         /\ \A j \in Ids \ {i} : With(i, v)[j] = things[j]
BY DEF With, States

LEMMA WithoutForm ==
  ASSUME things \in States, NEW s
  PROVE  /\ Without(s) \in States /\ MarksKept(things, Without(s))
         /\ \A i \in Ids : Without(s)[i] = IF i \in s THEN Absent ELSE things[i]
BY DEF Without, States, MarksKept

\* A new text keeps the mark of a value.
LEMMA ChangedForm ==
  ASSUME NEW v \in Values, NEW w \in Values
  PROVE  Changed(v, w) \in Values /\ Changed(v, w).mark = v.mark /\ Changed(v, w).text = w.text
BY DEF Changed, Values

\* How many of the things asked for are there.
LEMMA CountTrue ==
  ASSUME NEW q \in CallRecords, \A i \in Ids : things[i] \in q.seen[i],
         q.number = Cardinality(Present \cap q.ids)
  PROVE  NumberTrue(q)
<1> DEFINE Always == {i \in q.ids : Absent \notin q.seen[i]}
           Sometimes == {i \in q.ids : ~ q.seen[i] \subseteq {Absent}}
           Now == Present \cap q.ids
<1>1. Always \subseteq Now /\ Now \subseteq Sometimes /\ Sometimes \subseteq Ids
  BY DEF CallRecords, Present
<1>2. IsFiniteSet(Sometimes)
  BY <1>1, ClientAssumption, FS_Subset
<1>3. IsFiniteSet(Now) /\ Cardinality(Now) <= Cardinality(Sometimes)
  <2> HIDE DEF Now, Sometimes
  <2> QED BY <1>1, <1>2, FS_Subset
<1>4. Cardinality(Always) <= Cardinality(Now)
  <2> HIDE DEF Now, Always
  <2> QED BY <1>1, <1>3, FS_Subset
<1> QED BY <1>3, <1>4 DEF NumberTrue

LEMMA CountNat == \A s : Cardinality(Present \cap s) \in Nat
<1>1. \A s : IsFiniteSet(Present \cap s)
  BY ClientAssumption, FS_Subset DEF Present
<1> QED BY <1>1, FS_CardinalityType

-----------------------------------------------------------------------------
(***************************************************************************)
(* Refusing and reading.                                                   *)
(***************************************************************************)
LEMMA UnauthorizedStep ==
  ASSUME ClientInv, NEW n \in DOMAIN calls, Unauthorized(n) PROVE ClientInv'
<1>1. calls[n].stage = "sent" /\ Serve(n, things, Refused(calls[n], writeFail(401, 401)))
  BY DEF Unauthorized
<1>2. ~calls[n].ok /\ SentInv(calls[n])
  BY <1>1, OpenFacts DEF Open
<1>3. writeFail(401, 401) \in Answers /\ IsError(calls[n], writeFail(401, 401))
  BY CallFacts, ErrorAnswers
<1> QED BY <1>1, <1>2, <1>3, CallFacts, RefuseStep DEF SentInv

LEMMA RefusingStep ==
  ASSUME ClientInv, NEW n \in DOMAIN calls, Refuse(n) PROVE ClientInv'
<1>1. PICK a \in Refusals : Serve(n, things, Refused(calls[n], a))
  BY DEF Refuse
<1>2. calls[n].stage = "sent" \/ Goes(n, {"CreateMany", "UpdateWithOptions"})
  BY DEF Refuse
<1>3. ~calls[n].ok
  BY <1>2, OpenFacts DEF Open, Goes
<1>4. calls[n].did => calls[n].method \in {"CreateMany", "ListFields"}
  <2>1. CASE calls[n].stage = "sent"
    BY <2>1, OpenFacts DEF Open, SentInv
  <2>2. CASE Goes(n, {"CreateMany", "UpdateWithOptions"})
    BY <2>2, OpenFacts DEF Open, BegunInv, Goes
  <2> QED BY <1>2, <2>1, <2>2
<1>5. a \in Answers /\ IsError(calls[n], a)
  BY CallFacts, ErrorAnswers
<1> QED BY <1>1, <1>3, <1>4, <1>5, CallFacts, RefuseStep

LEMMA FailStep ==
  ASSUME ClientInv, NEW n \in DOMAIN calls, Fail(n) PROVE ClientInv'
<1>1. calls[n].stage \in Open /\ Serve(n, things, Refused(calls[n], SystemError))
  BY DEF Fail, Open
<1>2. ~calls[n].ok
  BY <1>1, OpenFacts
<1>3. /\ SystemError \in Answers /\ IsError(calls[n], SystemError)
      /\ SystemError.status = 500 /\ SystemError.code = 1
  BY CallFacts, ErrorAnswers
<1> QED BY <1>1, <1>2, <1>3, CallFacts, RefuseStep

LEMMA FindStep ==
  ASSUME ClientInv, NEW n \in DOMAIN calls, Find(n) PROVE ClientInv'
<1>1. /\ calls[n].stage = "sent" /\ calls[n].method \in {"FindOne", "DownloadFile"}
  BY DEF Find, Asks
<1>2. PICK i \in calls[n].ids :
        Serve(n, things, IF things[i] = Absent THEN Refused(calls[n], NotFound)
                         ELSE Answered(Says(calls[n], i, things[i]), writeOK))
  BY DEF Find
<1>3. i \in Ids /\ things[i] \in Rows
  BY CallFacts DEF CallRecords, States, Rows
<1>4. ~calls[n].ok /\ SentInv(calls[n]) /\ things[i] \in calls[n].seen[i]
  BY <1>1, <1>3, OpenFacts DEF Open
<1>5. CASE things[i] = Absent
  <2>1. NotFound \in Answers /\ IsError(calls[n], NotFound)
    BY CallFacts, ErrorAnswers
  <2>2. Serve(n, things, Refused(calls[n], NotFound))
    BY <1>2, <1>5
  <2> QED BY <1>4, <2>1, <2>2, CallFacts, RefuseStep DEF SentInv
<1>6. CASE things[i] # Absent
  <2> DEFINE q == Says(calls[n], i, things[i])
  <2>1. calls[n].method \notin Confirming \cup Numbering \cup Updating
    BY <1>1 DEF Confirming, Removing, Numbering, Updating
  <2>2. Tells(calls[n].seen[i] \cup {things[i]}, things[i])
    BY TellsSeen
  <2>3. q \in CallRecords /\ q.method = calls[n].method /\ Truthful(q, things)
    BY <1>3, <1>4, <2>1, <2>2, CallFacts, SaysTrue
  <2>4. Serve(n, things, Answered(q, writeOK))
    BY <1>2, <1>6
  <2> HIDE DEF q
  <2> QED BY <2>3, <2>4, CallFacts, AnswerStep
<1> QED BY <1>5, <1>6

\* A step that leaves a call under way.
LEMMA WayStep ==
  ASSUME ClientInv, NEW n \in DOMAIN calls, NEW t \in States, NEW q \in CallRecords,
         q.method \in Methods, kind = "collections" => MarksKept(things, t),
         One(q), ~q.ok, q.stage \in {"begun", "changed"},
         \A w \in CallRecords : Grown(q, w, t) =>
           /\ q.stage = "begun" => BegunInv(w, t)
           /\ q.stage = "changed" => ChangedInv(w),
         Serve(n, t, q)
  PROVE  ClientInv'
<1> DEFINE w == Watched(q, t)
<1>1. Grown(q, w, t) /\ w \in CallRecords
  BY WatchedGrows DEF Open, Grown
<1>2. CallInv(w, t)
  <2> HIDE DEF w
  <2>1. One(w) /\ ~w.ok /\ w.stage = q.stage /\ \A i \in Ids : t[i] \in w.seen[i]
    BY <1>1 DEF One, Grown
  <2> QED BY <1>1, <2>1 DEF CallInv
<1> QED BY <1>2, ServeStep DEF Open

LEMMA ListStep ==
  ASSUME ClientInv, NEW n \in DOMAIN calls, List(n) PROVE ClientInv'
<1> DEFINE c == calls[n]
<1>1. /\ c.stage = "sent"
      /\ c.method \in {"List", "ListAssociation", "ListCollections", "ListFields",
                       "ListIndexes", "ListScripts"}
  BY DEF List, Asks
<1>2. PICK s \in Pages :
        Serve(n, things, IF c.method = "List"
                         THEN [[c EXCEPT !.rows = Listing(s)] EXCEPT !.stage = "begun"]
                         ELSE Answered([c EXCEPT !.rows = Listing(s)], writeOK))
  BY DEF List
<1>3. /\ c \in CallRecords /\ c.method \in Methods /\ One(c) /\ ~c.ok /\ SentInv(c)
      /\ things \in States /\ MarksKept(things, things)
      /\ \A i \in Ids : things[i] \in c.seen[i]
  BY <1>1, CallFacts, OpenFacts DEF Open
<1> HIDE DEF c
<1> DEFINE l == Listing(s)
<1>4. l \in [Ids -> Rows]
  BY <1>3 DEF Listing, States, Rows
<1>5. \A i \in Ids : l[i] = things[i] \/ l[i] = Unsaid
  <2>1. s = Present \/ Full(s)
    BY ClientAssumption DEF Pages, Full
  <2> QED BY <2>1 DEF Listing, Present
<1> HIDE DEF l
<1> DEFINE q == [c EXCEPT !.rows = l]
<1>6. /\ q \in CallRecords /\ q.method = c.method /\ q.ids = c.ids /\ q.rows = l /\ q.ok = c.ok
      /\ q.seen = c.seen /\ q.did = c.did /\ q.stage = c.stage
  BY <1>3, <1>4 DEF CallRecords
<1>7. CASE c.method # "List"
  <2>1. Serve(n, things, Answered(q, writeOK))
    BY <1>2, <1>7 DEF l
  <2> HIDE DEF q
  <2>2. Understood(q) = l
    BY <1>1, <1>6 DEF Understood, Confirming, Removing
  <2>3. Truthful(q, things)
    BY <1>1, <1>3, <1>5, <1>6, <1>7, <2>2 DEF Truthful, One, Tells, Numbering, Updating
  <2> QED BY <1>3, <1>6, <2>1, <2>3, AnswerStep
<1>8. CASE c.method = "List"
  <2> DEFINE r == [q EXCEPT !.stage = "begun"]
  <2>1. Serve(n, things, r)
    BY <1>2, <1>8 DEF l
  <2> HIDE DEF q
  <2>2. /\ r \in CallRecords /\ r.method = q.method /\ r.ids = q.ids /\ r.rows = q.rows
        /\ r.ok = q.ok /\ r.seen = q.seen /\ r.did = q.did /\ r.stage = "begun"
    BY <1>6 DEF CallRecords, Open
  <2> HIDE DEF r
  <2>3. One(r)
    BY <1>3, <1>6, <2>2 DEF One
  <2>4. \A w \in CallRecords : Grown(r, w, things) => BegunInv(w, things)
    BY <1>3, <1>5, <1>6, <1>8, <2>2 DEF BegunInv, Grown, Tells, SentInv, FoundMethods
  <2> QED BY <1>3, <1>6, <2>1, <2>2, <2>3, <2>4, WayStep
<1> QED BY <1>7, <1>8

LEMMA CountStep ==
  ASSUME ClientInv, NEW n \in DOMAIN calls, Count(n) PROVE ClientInv'
<1> DEFINE c == calls[n]
           q == [c EXCEPT !.number = Cardinality(Present \cap c.ids)]
<1>1. /\ \/ c.stage = "sent" /\ c.method = "Count"
         \/ c.stage = "begun" /\ c.method = "List"
      /\ Serve(n, things, Answered(q, writeOK))
  BY DEF Count, Asks, Goes
<1>2. /\ c \in CallRecords /\ c.method \in Methods /\ One(c) /\ ~c.ok
      /\ things \in States /\ MarksKept(things, things)
      /\ \A i \in Ids : things[i] \in c.seen[i]
      /\ \A i \in Ids : Tells(c.seen[i], c.rows[i])
  BY <1>1, CallFacts, OpenFacts DEF Open, SentInv, BegunInv
<1> HIDE DEF c
<1>3. /\ q \in CallRecords /\ q.method = c.method /\ q.ids = c.ids /\ q.rows = c.rows
      /\ q.ok = c.ok /\ q.seen = c.seen /\ q.number = Cardinality(Present \cap q.ids)
  BY <1>2, CountNat DEF CallRecords
<1> HIDE DEF q
<1>4. NumberTrue(q)
  BY <1>2, <1>3, CountTrue
<1>5. Understood(q) = q.rows
  BY <1>1, <1>3 DEF Understood, Confirming, Removing
<1>6. \A i \in Ids : Tells(q.seen[i] \cup {things[i]}, Understood(q)[i])
  BY <1>2, <1>3, <1>5, TellsMore
<1>7. Truthful(q, things)
  BY <1>1, <1>2, <1>3, <1>4, <1>6 DEF Truthful, One, Updating
<1> QED BY <1>1, <1>2, <1>3, <1>7, AnswerStep

LEMMA ValidateStep ==
  ASSUME ClientInv, NEW n \in DOMAIN calls, Validate(n) PROVE ClientInv'
<1> DEFINE c == calls[n]
<1>1. /\ c.stage = "sent" /\ c.method = "ValidateScript"
      /\ Serve(n, things, Answered(c, writeOK))
  BY DEF Validate, Asks
<1>2. /\ c \in CallRecords /\ c.method \in Methods /\ One(c) /\ ~c.ok /\ SentInv(c)
      /\ things \in States /\ MarksKept(things, things)
  BY <1>1, CallFacts, OpenFacts DEF Open
<1> HIDE DEF c
<1>3. \A i \in Ids : Tells(c.seen[i] \cup {things[i]}, Understood(c)[i])
  BY <1>1, <1>2, TellsMore DEF SentInv, Understood, Confirming, Removing
<1>4. Truthful(c, things)
  BY <1>1, <1>2, <1>3 DEF Truthful, Numbering, Updating
<1> QED BY <1>1, <1>2, <1>4, AnswerStep DEF c

-----------------------------------------------------------------------------
(***************************************************************************)
(* Creating.                                                               *)
(***************************************************************************)
LEMMA CreateStep ==
  ASSUME ClientInv, NEW n \in DOMAIN calls, Create(n) PROVE ClientInv'
<1> DEFINE c == calls[n]
<1>1. c.stage = "sent" /\ c.method \in {"Create", "UploadFile", "CreateScript", "CreateIndex"}
  BY DEF Create, Asks
<1>2. PICK i \in NewIds(c) :
        IF things[i] # Absent THEN Serve(n, things, Refused(c, SystemError))
        ELSE Concludes(n, With(i, c.value), Says(Did(c), i, c.value))
  BY DEF Create
<1>3. /\ c \in CallRecords /\ c.method \in Methods /\ One(c) /\ ~c.ok /\ SentInv(c)
      /\ things \in States /\ MarksKept(things, things)
  BY <1>1, CallFacts, OpenFacts DEF Open
<1>4. i \in Ids /\ c.value \in Values /\ c.value \in Rows
  BY <1>3 DEF NewIds, CallRecords, Rows
<1>5. CASE things[i] # Absent
  <2>1. /\ SystemError \in Answers /\ IsError(c, SystemError)
        /\ SystemError.status = 500 /\ SystemError.code = 1
    BY CallFacts, ErrorAnswers
  <2>2. Serve(n, things, Refused(c, SystemError))
    BY <1>2, <1>5
  <2> HIDE DEF c
  <2> QED BY <1>3, <2>1, <2>2, RefuseStep
<1>6. CASE things[i] = Absent
  <2> DEFINE t == With(i, c.value)
             q == Says(Did(c), i, c.value)
  <2>1. Concludes(n, t, q)
    BY <1>2, <1>6
  <2>2. t \in States /\ t[i] = c.value /\ \A j \in Ids \ {i} : t[j] = things[j]
    BY <1>3, <1>4, WithForm
  <2> HIDE DEF t
  <2>3. MarksKept(things, t)
    BY <1>6, <2>2 DEF MarksKept
  <2>4. /\ Did(c) \in CallRecords /\ Did(c).method = c.method /\ ~Did(c).ok /\ Did(c).did
        /\ One(Did(c))
    BY <1>3, DidForm DEF One
  <2>5. Did(c).method \notin Confirming \cup Numbering
    BY <1>1, <2>4 DEF Confirming, Removing, Numbering
  <2>6. Tells(Did(c).seen[i] \cup {t[i]}, c.value)
    BY <2>2, TellsSeen
  <2>7. q \in CallRecords /\ q.method = c.method /\ Truthful(q, t)
    BY <1>4, <2>2, <2>4, <2>5, <2>6, SaysTrue
  <2> HIDE DEF q, c
  <2> QED BY <1>3, <2>1, <2>2, <2>3, <2>7, ConcludeStep
<1> QED BY <1>5, <1>6

LEMMA CreateSchemaStep ==
  ASSUME ClientInv, NEW n \in DOMAIN calls, CreateSchema(n) PROVE ClientInv'
<1> DEFINE c == calls[n]
<1>1. c.stage = "sent" /\ c.method \in {"CreateCollection", "AddField"}
  BY DEF CreateSchema, Asks
<1>2. PICK i \in c.ids :
        IF things[i] # Absent THEN Serve(n, things, Refused(c, AlreadyExists))
        ELSE Serve(n, With(i, c.value),
               [c EXCEPT !.stage = "changed", !.found = c.value, !.did = TRUE])
  BY DEF CreateSchema
<1>3. /\ c \in CallRecords /\ c.method \in Methods /\ One(c) /\ ~c.ok /\ SentInv(c)
      /\ things \in States /\ MarksKept(things, things)
  BY <1>1, CallFacts, OpenFacts DEF Open
<1>4. i \in Ids /\ c.value \in Values
  BY <1>3 DEF CallRecords
<1>5. CASE things[i] # Absent
  <2>1. AlreadyExists \in Answers /\ IsError(c, AlreadyExists)
    BY CallFacts, ErrorAnswers
  <2>2. Serve(n, things, Refused(c, AlreadyExists))
    BY <1>2, <1>5
  <2> HIDE DEF c
  <2> QED BY <1>3, <2>1, <2>2, RefuseStep DEF SentInv
<1>6. CASE things[i] = Absent
  <2> DEFINE t == With(i, c.value)
             q == [c EXCEPT !.stage = "changed", !.found = c.value, !.did = TRUE]
  <2>1. Serve(n, t, q)
    BY <1>2, <1>6
  <2>2. t \in States /\ t[i] = c.value /\ \A j \in Ids \ {i} : t[j] = things[j]
    BY <1>3, <1>4, WithForm
  <2> HIDE DEF t, c
  <2>3. MarksKept(things, t)
    BY <1>6, <2>2 DEF MarksKept
  <2>4. /\ q \in CallRecords /\ q.method = c.method /\ q.ids = c.ids /\ q.rows = c.rows
        /\ q.ok = c.ok /\ q.seen = c.seen /\ q.did /\ q.stage = "changed" /\ q.found = c.value
    BY <1>3, <1>4 DEF CallRecords, Open
  <2> HIDE DEF q
  <2>5. One(q) /\ q.ids = {i}
    BY <1>1, <1>3, <2>4 DEF One, SingleMethods
  <2>6. \A w \in CallRecords : Grown(q, w, t) => ChangedInv(w)
    BY <1>1, <1>3, <1>4, <2>2, <2>4, <2>5 DEF ChangedInv, Grown, SentInv, Updating
  <2> QED BY <1>3, <2>1, <2>2, <2>3, <2>4, <2>5, <2>6, WayStep
<1> QED BY <1>5, <1>6

LEMMA CreateNextStep ==
  ASSUME ClientInv, NEW n \in DOMAIN calls, CreateNext(n) PROVE ClientInv'
<1> DEFINE c == calls[n]
<1>1. c.stage \in {"sent", "begun"} /\ c.method = "CreateMany"
  BY DEF CreateNext, Asks, Goes
<1>2. PICK i \in c.rest :
        LET q == [c EXCEPT !.rest = c.rest \ {i}, !.stage = "begun",
                    !.rows = [c.rows EXCEPT ![i] = c.value]]
            t == With(i, c.value) IN
        /\ things[i] = Absent
        /\ IF c.rest = {i} THEN Concludes(n, t, Did(q)) ELSE Serve(n, t, Did(q))
  BY DEF CreateNext
<1>3. /\ c \in CallRecords /\ c.method \in Methods /\ One(c) /\ ~c.ok
      /\ things \in States
      /\ \A j \in Ids : Tells(c.seen[j], c.rows[j])
  BY <1>1, CallFacts, OpenFacts DEF Open, SentInv, BegunInv
<1>4. i \in Ids /\ c.value \in Values
  BY <1>3 DEF CallRecords
<1> DEFINE t == With(i, c.value)
           q == [c EXCEPT !.rest = c.rest \ {i}, !.stage = "begun",
                    !.rows = [c.rows EXCEPT ![i] = c.value]]
           r == Did(q)
<1>5. t \in States /\ t[i] = c.value /\ \A j \in Ids \ {i} : t[j] = things[j]
  BY <1>3, <1>4, WithForm
<1>6. things[i] = Absent /\ (Concludes(n, t, r) \/ Serve(n, t, r))
  BY <1>2
<1> HIDE DEF t, c
<1>7. MarksKept(things, t)
  BY <1>5, <1>6 DEF MarksKept
<1>8. /\ q \in CallRecords /\ q.method = c.method /\ q.ids = c.ids
      /\ q.rows = [c.rows EXCEPT ![i] = c.value]
      /\ q.ok = c.ok /\ q.seen = c.seen /\ q.stage = "begun"
  <2> DEFINE f == [c.rows EXCEPT ![i] = c.value]
  <2>1. f \in [Ids -> Rows]
    BY <1>3, <1>4 DEF CallRecords, Rows
  <2>2. q = [c EXCEPT !.rest = c.rest \ {i}, !.stage = "begun", !.rows = f]
    OBVIOUS
  <2> HIDE DEF f, q
  <2>3. /\ q \in CallRecords /\ q.method = c.method /\ q.ids = c.ids
        /\ q.rows = f /\ q.ok = c.ok /\ q.seen = c.seen /\ q.stage = "begun"
    BY <1>3, <2>1, <2>2 DEF CallRecords, Open
  <2> QED BY <2>3 DEF f
<1> HIDE DEF q
<1>9. /\ r \in CallRecords /\ r.method = c.method /\ r.ids = c.ids /\ r.rows = q.rows
      /\ r.ok = c.ok /\ r.seen = c.seen /\ r.stage = "begun" /\ One(r)
  BY <1>3, <1>8, DidForm DEF One
<1>10. \A j \in Ids : Tells(r.seen[j] \cup {t[j]}, r.rows[j])
  <2>1. SUFFICES ASSUME NEW j \in Ids PROVE Tells(r.seen[j] \cup {t[j]}, r.rows[j])
    OBVIOUS
  <2>2. CASE j = i
    <3>1. r.rows[j] = t[j]
      BY <1>3, <1>4, <1>5, <1>8, <1>9, <2>2 DEF CallRecords
    <3> QED BY <3>1, TellsSeen
  <2>3. CASE j # i
    <3>1. r.rows[j] = c.rows[j]
      BY <1>3, <1>8, <1>9, <2>3 DEF CallRecords
    <3> QED BY <1>3, <1>9, <3>1, TellsMore
  <2> QED BY <2>2, <2>3
<1> HIDE DEF r
<1>11. CASE Concludes(n, t, r)
  <2>1. Truthful(r, t)
    BY <1>1, <1>3, <1>9, <1>10
      DEF Truthful, Understood, Confirming, Removing, Numbering, Updating
  <2> QED BY <1>3, <1>5, <1>7, <1>9, <1>11, <2>1, ConcludeStep
<1>12. CASE Serve(n, t, r)
  <2>1. \A w \in CallRecords : Grown(r, w, t) => BegunInv(w, t)
    BY <1>1, <1>9, <1>10 DEF Grown, BegunInv, FoundMethods
  <2> QED BY <1>3, <1>5, <1>7, <1>9, <1>12, <2>1, WayStep
<1> QED BY <1>6, <1>11, <1>12

-----------------------------------------------------------------------------
(***************************************************************************)
(* Changing.                                                               *)
(***************************************************************************)
LEMMA LookStep ==
  ASSUME ClientInv, NEW n \in DOMAIN calls, Look(n) PROVE ClientInv'
<1> DEFINE c == calls[n]
<1>1. /\ c.stage = "sent"
      /\ c.method \in {"UpdateWithOptions", "GetCollection", "UpdateCollection",
                       "SyncCollection", "ToggleScript", "DropCollection",
                       "DropCollectionCascade"}
  BY DEF Look, Asks
<1>2. PICK i \in c.ids :
        IF things[i] = Absent /\ c.method # "UpdateWithOptions"
        THEN Serve(n, things, Refused(c, NotFound))
        ELSE \E d \in SUBSET (Present \ {i}) :
               Serve(n, things,
                 [[c EXCEPT !.stage = "begun", !.found = things[i]] EXCEPT !.rest = d])
  BY DEF Look
<1>3. /\ c \in CallRecords /\ c.method \in Methods /\ One(c) /\ ~c.ok /\ SentInv(c)
      /\ things \in States /\ MarksKept(things, things)
      /\ \A j \in Ids : things[j] \in c.seen[j]
  BY <1>1, CallFacts, OpenFacts DEF Open
<1>4. i \in Ids /\ things[i] \in Values \cup {Absent}
  BY <1>3 DEF CallRecords, States
<1>5. CASE things[i] = Absent /\ c.method # "UpdateWithOptions"
  <2>1. NotFound \in Answers /\ IsError(c, NotFound)
    BY CallFacts, ErrorAnswers
  <2>2. Serve(n, things, Refused(c, NotFound))
    BY <1>2, <1>5
  <2> HIDE DEF c
  <2> QED BY <1>3, <2>1, <2>2, RefuseStep DEF SentInv
<1>6. CASE ~(things[i] = Absent /\ c.method # "UpdateWithOptions")
  <2>1. PICK d \in SUBSET (Present \ {i}) :
          Serve(n, things,
            [[c EXCEPT !.stage = "begun", !.found = things[i]] EXCEPT !.rest = d])
    BY <1>2, <1>6
  <2> DEFINE q == [[c EXCEPT !.stage = "begun", !.found = things[i]] EXCEPT !.rest = d]
  <2> HIDE DEF c
  <2>2. d \in SUBSET Ids
    BY DEF Present
  <2>3. /\ q \in CallRecords /\ q.method = c.method /\ q.ids = c.ids /\ q.rows = c.rows
        /\ q.ok = c.ok /\ q.seen = c.seen /\ q.did = c.did /\ q.stage = "begun"
        /\ q.found = things[i]
    BY <1>3, <1>4, <2>2 DEF CallRecords, Open
  <2>4. Serve(n, things, q)
    BY <2>1
  <2> HIDE DEF q
  <2>5. One(q)
    BY <1>3, <2>3 DEF One
  <2>6. q.method \in FoundMethods => q.ids = {i}
    BY <1>3, <2>3 DEF One, FoundMethods, SingleMethods
  <2>7. \A w \in CallRecords : Grown(q, w, things) => BegunInv(w, things)
    <3>1. SUFFICES ASSUME NEW w \in CallRecords, Grown(q, w, things)
                   PROVE  BegunInv(w, things)
      OBVIOUS
    <3>2. \A j \in Ids : Tells(w.seen[j], w.rows[j])
      BY <1>3, <2>3, <3>1, TellsMore DEF SentInv, Grown
    <3>3. ~w.did
      BY <1>1, <1>3, <2>3, <3>1 DEF SentInv, Grown
    <3>4. w.method \in FoundMethods => w.ids = {i} /\ w.found = things[i] /\ things[i] \in w.seen[i]
      BY <1>3, <1>4, <2>3, <2>6, <3>1 DEF Grown
    <3>5. w.method \in FoundMethods \cup {"DropCollection", "DropCollectionCascade"}
      BY <1>1, <2>3, <3>1 DEF Grown, FoundMethods
    <3>6. things[i] = Absent => w.method = "UpdateWithOptions"
      BY <1>6, <2>3, <3>1 DEF Grown
    <3> QED BY <3>2, <3>3, <3>4, <3>5, <3>6 DEF BegunInv, FoundMethods
  <2> QED BY <1>3, <2>3, <2>4, <2>5, <2>7, WayStep
<1> QED BY <1>5, <1>6

LEMMA UpdateRecordStep ==
  ASSUME ClientInv, NEW n \in DOMAIN calls, UpdateRecord(n) PROVE ClientInv'
<1> DEFINE c == calls[n]
<1>1. c.stage = "begun" /\ c.method = "UpdateWithOptions"
  BY DEF UpdateRecord, Goes
<1>2. PICK i \in c.ids :
        LET v == Changed(things[i], c.value) IN
        \/ things[i] # Absent /\ Concludes(n, With(i, v), Says(Did(c), i, v))
        \/ things[i] = Absent /\ c.found # Absent
           /\ Concludes(n, things, Says(c, i, c.found))
        \/ things[i] = Absent /\ c.found = Absent
           /\ Serve(n, things, Refused(c, NotFound))
  BY DEF UpdateRecord
<1>3. /\ c \in CallRecords /\ c.method \in Methods /\ One(c) /\ ~c.ok /\ BegunInv(c, things)
      /\ things \in States /\ MarksKept(things, things)
      /\ \A j \in Ids : things[j] \in c.seen[j]
  BY <1>1, CallFacts, OpenFacts DEF Open
<1>4. i \in Ids /\ c.value \in Values /\ c.found \in Values \cup {Absent}
  BY <1>3 DEF CallRecords
<1>5. c.method \notin Confirming \cup Numbering
  BY <1>1 DEF Confirming, Removing, Numbering
<1> DEFINE v == Changed(things[i], c.value)
<1>6. CASE things[i] # Absent /\ Concludes(n, With(i, v), Says(Did(c), i, v))
  <2> DEFINE t == With(i, v)
             q == Says(Did(c), i, v)
  <2>1. v \in Values /\ v.mark = things[i].mark
    BY <1>3, <1>4, <1>6, ChangedForm DEF States
  <2>2. Concludes(n, t, q)
    BY <1>6
  <2> HIDE DEF v
  <2>3. t \in States /\ t[i] = v /\ \A j \in Ids \ {i} : t[j] = things[j]
    BY <1>3, <1>4, <2>1, WithForm
  <2> HIDE DEF t, c
  <2>4. MarksKept(things, t)
    BY <2>1, <2>3 DEF MarksKept
  <2>5. /\ Did(c) \in CallRecords /\ Did(c).method = c.method /\ ~Did(c).ok /\ Did(c).did
        /\ One(Did(c))
    BY <1>3, DidForm DEF One
  <2>6. Tells(Did(c).seen[i] \cup {t[i]}, v)
    BY <2>3, TellsSeen
  <2>7. q \in CallRecords /\ q.method = c.method /\ Truthful(q, t)
    BY <1>4, <1>5, <2>1, <2>3, <2>5, <2>6, SaysTrue DEF Rows
  <2> HIDE DEF q
  <2> QED BY <1>3, <2>2, <2>3, <2>4, <2>7, ConcludeStep
<1>7. CASE things[i] = Absent /\ c.found # Absent /\ Concludes(n, things, Says(c, i, c.found))
  <2> DEFINE q == Says(c, i, c.found)
  <2>1. c.found \in c.seen[i]
    BY <1>1, <1>3 DEF BegunInv, FoundMethods
  <2>2. Tells(c.seen[i] \cup {things[i]}, c.found)
    BY <2>1, TellsSeen
  <2>3. c.found \in Rows
    BY <1>4 DEF Rows
  <2> HIDE DEF c
  <2>4. q \in CallRecords /\ q.method = c.method /\ Truthful(q, things)
    BY <1>3, <1>4, <1>5, <1>7, <2>2, <2>3, SaysTrue
  <2> HIDE DEF q
  <2> QED BY <1>3, <1>7, <2>4, ConcludeStep DEF q
<1>8. CASE things[i] = Absent /\ c.found = Absent /\ Serve(n, things, Refused(c, NotFound))
  <2>1. NotFound \in Answers /\ IsError(c, NotFound)
    BY CallFacts, ErrorAnswers
  <2>2. ~c.did
    BY <1>1, <1>3 DEF BegunInv
  <2> HIDE DEF c
  <2> QED BY <1>3, <1>8, <2>1, <2>2, RefuseStep
<1> QED BY <1>2, <1>6, <1>7, <1>8

LEMMA UpdateFieldStep ==
  ASSUME ClientInv, NEW n \in DOMAIN calls, UpdateField(n) PROVE ClientInv'
<1> DEFINE c == calls[n]
<1>1. c.stage = "sent" /\ c.method = "UpdateField"
  BY DEF UpdateField, Asks
<1>2. PICK i \in c.ids :
        IF things[i] = Absent THEN Serve(n, things, Refused(c, NotFound))
        ELSE Serve(n, With(i, Changed(things[i], c.value)),
               [c EXCEPT !.stage = "changed", !.did = TRUE])
  BY DEF UpdateField
<1>3. /\ c \in CallRecords /\ c.method \in Methods /\ One(c) /\ ~c.ok /\ SentInv(c)
      /\ things \in States /\ MarksKept(things, things)
  BY <1>1, CallFacts, OpenFacts DEF Open
<1>4. i \in Ids /\ c.value \in Values
  BY <1>3 DEF CallRecords
<1>5. CASE things[i] = Absent
  <2>1. NotFound \in Answers /\ IsError(c, NotFound)
    BY CallFacts, ErrorAnswers
  <2>2. Serve(n, things, Refused(c, NotFound))
    BY <1>2, <1>5
  <2> HIDE DEF c
  <2> QED BY <1>3, <2>1, <2>2, RefuseStep DEF SentInv
<1>6. CASE things[i] # Absent
  <2> DEFINE v == Changed(things[i], c.value)
             t == With(i, v)
             q == [c EXCEPT !.stage = "changed", !.did = TRUE]
  <2>1. Serve(n, t, q)
    BY <1>2, <1>6
  <2>2. v \in Values /\ v.mark = things[i].mark
    BY <1>3, <1>4, <1>6, ChangedForm DEF States
  <2> HIDE DEF v
  <2>3. t \in States /\ t[i] = v /\ \A j \in Ids \ {i} : t[j] = things[j]
    BY <1>3, <1>4, <2>2, WithForm
  <2> HIDE DEF t, c
  <2>4. MarksKept(things, t)
    BY <2>2, <2>3 DEF MarksKept
  <2>5. /\ q \in CallRecords /\ q.method = c.method /\ q.ids = c.ids
        /\ q.ok = c.ok /\ q.did /\ q.stage = "changed"
    BY <1>3 DEF CallRecords, Open
  <2> HIDE DEF q
  <2>6. One(q)
    BY <1>3, <2>5 DEF One
  <2>7. \A w \in CallRecords : Grown(q, w, t) => ChangedInv(w)
    BY <1>1, <2>5 DEF ChangedInv, Grown, UpdateTrue
  <2> QED BY <1>3, <2>1, <2>3, <2>4, <2>5, <2>6, <2>7, WayStep
<1> QED BY <1>5, <1>6

LEMMA UpdateCollectionStep ==
  ASSUME ClientInv, NEW n \in DOMAIN calls, UpdateCollection(n) PROVE ClientInv'
<1> DEFINE c == calls[n]
<1>1. c.stage = "begun" /\ c.method = "UpdateCollection"
  BY DEF UpdateCollection, Goes
<1>2. PICK i \in c.ids :
        LET v == Changed(c.found, c.value) IN
        IF Same(c, i)
        THEN Serve(n, With(i, v), [c EXCEPT !.stage = "changed", !.found = v, !.did = TRUE])
        ELSE Serve(n, things, [c EXCEPT !.stage = "changed", !.found = v])
  BY DEF UpdateCollection
<1>3. /\ c \in CallRecords /\ c.method \in Methods /\ One(c) /\ ~c.ok /\ BegunInv(c, things)
      /\ things \in States /\ MarksKept(things, things)
  BY <1>1, CallFacts, OpenFacts DEF Open
<1>4. i \in Ids /\ c.value \in Values /\ c.found \in Values
  BY <1>1, <1>3 DEF CallRecords, BegunInv, FoundMethods
<1> DEFINE v == Changed(c.found, c.value)
<1>5. v \in Values /\ v.mark = c.found.mark
  BY <1>4, ChangedForm
<1>6. CASE Same(c, i)
  <2> DEFINE t == With(i, v)
             q == [c EXCEPT !.stage = "changed", !.found = v, !.did = TRUE]
  <2>1. Serve(n, t, q)
    BY <1>2, <1>6
  <2> HIDE DEF v
  <2>2. t \in States /\ t[i] = v /\ \A j \in Ids \ {i} : t[j] = things[j]
    BY <1>3, <1>4, <1>5, WithForm
  <2> HIDE DEF t, c
  <2>3. MarksKept(things, t)
    BY <1>5, <1>6, <2>2 DEF MarksKept, Same
  <2>4. /\ q \in CallRecords /\ q.method = c.method /\ q.ids = c.ids
        /\ q.ok = c.ok /\ q.seen = c.seen /\ q.did /\ q.stage = "changed" /\ q.found = v
    BY <1>3, <1>5 DEF CallRecords, Open
  <2> HIDE DEF q
  <2>5. One(q) /\ q.ids = {i}
    BY <1>1, <1>3, <2>4 DEF One, SingleMethods
  <2>6. \A w \in CallRecords : Grown(q, w, t) => ChangedInv(w)
    BY <1>1, <1>4, <2>2, <2>4, <2>5 DEF ChangedInv, Grown, UpdateTrue
  <2> QED BY <1>3, <2>1, <2>2, <2>3, <2>4, <2>5, <2>6, WayStep
<1>7. CASE ~Same(c, i)
  <2> DEFINE q == [c EXCEPT !.stage = "changed", !.found = v]
  <2>1. Serve(n, things, q)
    BY <1>2, <1>7
  <2>2. Absent \in c.seen[i]
    BY <1>1, <1>3, <1>7 DEF BegunInv, Same
  <2> HIDE DEF v, c
  <2>3. /\ q \in CallRecords /\ q.method = c.method /\ q.ids = c.ids
        /\ q.ok = c.ok /\ q.seen = c.seen /\ q.stage = "changed"
    BY <1>3, <1>5 DEF CallRecords, Open
  <2> HIDE DEF q
  <2>4. One(q) /\ q.ids = {i}
    BY <1>1, <1>3, <2>3 DEF One, SingleMethods
  <2>5. \A w \in CallRecords : Grown(q, w, things) => ChangedInv(w)
    BY <1>1, <1>4, <2>2, <2>3, <2>4 DEF ChangedInv, Grown, UpdateTrue
  <2> QED BY <1>3, <2>1, <2>3, <2>4, <2>5, WayStep
<1> QED BY <1>6, <1>7

LEMMA ShowCollectionStep ==
  ASSUME ClientInv, NEW n \in DOMAIN calls, ShowCollection(n) PROVE ClientInv'
<1> DEFINE c == calls[n]
<1>1. \/ c.stage = "changed" /\ c.method \in {"CreateCollection", "UpdateCollection"}
      \/ c.stage = "begun" /\ c.method \in {"GetCollection", "SyncCollection"}
  BY DEF ShowCollection, Goes
<1>2. PICK i \in c.ids :
        Serve(n, things,
          Answered(Says(c, i, IF Same(c, i) THEN things[i] ELSE c.found), writeOK))
  BY DEF ShowCollection
<1>3. /\ c \in CallRecords /\ c.method \in Methods /\ One(c) /\ ~c.ok
      /\ c.stage = "begun" => BegunInv(c, things)
      /\ c.stage = "changed" => ChangedInv(c)
      /\ things \in States /\ MarksKept(things, things)
  BY <1>1, CallFacts, OpenFacts DEF Open
<1>4. i \in Ids /\ c.found \in Values \cup {Absent}
  BY <1>3 DEF CallRecords
<1> DEFINE row == IF Same(c, i) THEN things[i] ELSE c.found
           q == Says(c, i, row)
<1>5. Serve(n, things, Answered(q, writeOK))
  BY <1>2
<1>6. row \in Rows
  BY <1>3, <1>4 DEF States, Rows
<1>7. c.method \notin Confirming \cup Numbering
  BY <1>1 DEF Confirming, Removing, Numbering
<1>8. \/ Tells(c.seen[i] \cup {things[i]}, row)
      \/ c.method \in Overlooking /\ Absent \in c.seen[i] \cup {things[i]}
  <2>1. \/ c.found \in c.seen[i]
        \/ c.method = "UpdateCollection" /\ Absent \in c.seen[i]
    BY <1>1, <1>3 DEF BegunInv, ChangedInv, FoundMethods
  <2>2. \/ row \in c.seen[i] \cup {things[i]}
        \/ c.method = "UpdateCollection" /\ Absent \in c.seen[i]
    BY <2>1
  <2> HIDE DEF row
  <2> QED BY <2>2, TellsSeen DEF Overlooking
<1>9. c.method \in Updating =>
        c.did \/ \E j \in c.ids : Absent \in c.seen[j] \cup {things[j]}
  BY <1>1, <1>3 DEF ChangedInv, Updating, UpdateTrue
<1> HIDE DEF row, c
<1>10. q \in CallRecords /\ q.method = c.method /\ Truthful(q, things)
  BY <1>3, <1>4, <1>6, <1>7, <1>8, <1>9, SaysTrue
<1> HIDE DEF q
<1> QED BY <1>3, <1>5, <1>10, AnswerStep

LEMMA ShowFieldsStep ==
  ASSUME ClientInv, NEW n \in DOMAIN calls, ShowFields(n) PROVE ClientInv'
<1> DEFINE c == calls[n]
           l == Listing(Present)
           q == [c EXCEPT !.rows = l]
<1>1. /\ c.stage = "changed" /\ c.method \in {"AddField", "UpdateField"}
      /\ Serve(n, things, Answered(q, writeOK))
  BY DEF ShowFields
<1>2. /\ c \in CallRecords /\ c.method \in Methods /\ One(c) /\ ~c.ok /\ ChangedInv(c)
      /\ things \in States /\ MarksKept(things, things)
  BY <1>1, CallFacts, OpenFacts DEF Open
<1> HIDE DEF c
<1>3. l \in [Ids -> Rows]
  BY <1>2 DEF Listing, States, Rows
<1>4. \A i \in Ids : l[i] = things[i] \/ l[i] = Unsaid
  BY DEF Listing, Present
<1> HIDE DEF l
<1>5. /\ q \in CallRecords /\ q.method = c.method /\ q.ids = c.ids /\ q.rows = l
      /\ q.ok = c.ok /\ q.seen = c.seen /\ q.did = c.did
  BY <1>2, <1>3 DEF CallRecords
<1> HIDE DEF q
<1>6. Understood(q) = l
  BY <1>1, <1>5 DEF Understood, Confirming, Removing
<1>7. \A i \in Ids : Tells(q.seen[i] \cup {things[i]}, Understood(q)[i])
  BY <1>4, <1>6 DEF Tells
<1>8. q.method \in Updating =>
        q.did \/ \E i \in q.ids : Absent \in q.seen[i] \cup {things[i]}
  BY <1>2, <1>5 DEF ChangedInv, UpdateTrue
<1>9. Truthful(q, things)
  BY <1>1, <1>2, <1>5, <1>7, <1>8 DEF Truthful, One, Numbering
<1> QED BY <1>1, <1>2, <1>5, <1>9, AnswerStep

LEMMA MarkedForm ==
  ASSUME NEW v \in Values, NEW e \in Int
  PROVE  Marked(v, e) \in Values /\ Marked(v, e).mark = e /\ Marked(v, e).text = v.text
BY DEF Marked, Values

LEMMA OverwrittenForm ==
  ASSUME things \in States, NEW i \in Ids, NEW v, things[i] # Absent => v \in Values
  PROVE  /\ Overwritten(i, v) \in States
         /\ Overwritten(i, v)[i] = IF things[i] = Absent THEN Absent ELSE v
BY WithForm DEF Overwritten

LEMMA OverwritingForm ==
  ASSUME NEW n, calls[n] \in CallRecords, NEW i
  PROVE  LET o == Overwriting(n, i)
             c == calls[n] IN
         /\ o \in CallRecords
         /\ things[i] # Absent => o.did
         /\ o.method = c.method /\ o.ids = c.ids /\ o.rows = c.rows /\ o.ok = c.ok
         /\ o.seen = c.seen
BY DidForm DEF Overwriting

LEMMA SaveScriptStep ==
  ASSUME ClientInv, NEW n \in DOMAIN calls, SaveScript(n) PROVE ClientInv'
<1> DEFINE c == calls[n]
<1>1. c.stage = "sent" /\ c.method \in {"UpdateScript", "DisableScript"}
  BY DEF SaveScript, Asks
<1>2. PICK i \in c.ids :
        IF c.method = "UpdateScript"
        THEN Concludes(n, Overwritten(i, c.value), Says(Overwriting(n, i), i, c.value))
        ELSE Concludes(n, Overwritten(i, Marked(things[i], 0)), Overwriting(n, i))
  BY DEF SaveScript
<1>3. /\ c \in CallRecords /\ c.method \in Methods /\ One(c) /\ ~c.ok
      /\ things \in States /\ kind \in ClientKinds
      /\ \A j \in Ids : things[j] \in c.seen[j]
  BY <1>1, CallFacts, OpenFacts DEF Open
<1>4. i \in Ids /\ c.value \in Values /\ c.ids = {i}
  BY <1>1, <1>3 DEF CallRecords, One, SingleMethods
<1>5. kind = "scripts"
  BY <1>1, <1>3, KindOfMethod
<1> DEFINE o == Overwriting(n, i)
<1>6. /\ o \in CallRecords
      /\ things[i] # Absent => o.did
      /\ o.method = c.method /\ o.ids = c.ids /\ o.rows = c.rows /\ o.ok = c.ok /\ o.seen = c.seen
  BY <1>3, OverwritingForm
<1>7. One(o)
  BY <1>3, <1>6 DEF One
<1>8. CASE c.method = "UpdateScript"
  <2> DEFINE t == Overwritten(i, c.value)
             q == Says(o, i, c.value)
  <2>1. Concludes(n, t, q)
    BY <1>2, <1>8
  <2>2. t \in States /\ t[i] = IF things[i] = Absent THEN Absent ELSE c.value
    BY <1>3, <1>4, OverwrittenForm
  <2> HIDE DEF t, o, c
  <2>3. \/ Tells(o.seen[i] \cup {t[i]}, c.value)
        \/ o.method \in Overlooking /\ Absent \in o.seen[i] \cup {t[i]}
    BY <1>6, <1>8, <2>2, TellsSeen DEF Overlooking
  <2>4. o.did \/ \E j \in o.ids : Absent \in o.seen[j] \cup {t[j]}
    BY <1>4, <1>6, <2>2
  <2>5. o.method \notin Confirming \cup Numbering
    BY <1>6, <1>8 DEF Confirming, Removing, Numbering
  <2>6. q \in CallRecords /\ q.method = o.method /\ Truthful(q, t)
    BY <1>3, <1>4, <1>6, <1>7, <2>2, <2>3, <2>4, <2>5, SaysTrue DEF Rows
  <2> HIDE DEF q
  <2> QED BY <1>3, <1>5, <1>6, <2>1, <2>2, <2>6, ConcludeStep
<1>9. CASE c.method = "DisableScript"
  <2> DEFINE v == Marked(things[i], 0)
             t == Overwritten(i, v)
  <2>1. Concludes(n, t, o)
    BY <1>2, <1>9
  <2>2. things[i] # Absent => v \in Values /\ v.mark = 0
    BY <1>3, <1>4, MarkedForm DEF States
  <2> HIDE DEF v
  <2>3. t \in States /\ t[i] = IF things[i] = Absent THEN Absent ELSE v
    BY <1>3, <1>4, <2>2, OverwrittenForm
  <2> HIDE DEF t, o, c
  <2>4. Understood(o) = Confirmed(o)
    BY <1>6, <1>9 DEF Understood, Confirming
  <2>5. /\ Confirmed(o)[i] = Marked(There, 0)
        /\ \A j \in Ids \ {i} : Confirmed(o)[j] = Unsaid
    <3>1. o.ids = {i} /\ o.method = "DisableScript"
      BY <1>4, <1>6, <1>9
    <3>2. o.method \notin Removing
      BY <3>1 DEF Removing
    <3> QED BY <1>4, <3>1, <3>2 DEF Confirmed
  <2>6. /\ Marked(There, 0) \in Values /\ Marked(There, 0).mark = 0
        /\ Marked(There, 0).text = Left
    <3>1. There \in Values /\ There.text = Left
      BY DEF There, Left, Values
    <3> QED BY <3>1, MarkedForm
  <2>7. \/ Tells(o.seen[i] \cup {t[i]}, Marked(There, 0))
        \/ o.method \in Overlooking /\ Absent \in o.seen[i] \cup {t[i]}
    <3>1. CASE things[i] = Absent
      BY <1>6, <1>9, <2>3, <3>1 DEF Overlooking
    <3>2. CASE things[i] # Absent
      <4>1. t[i] \in (o.seen[i] \cup {t[i]}) \ {Absent} /\ t[i].mark = 0
        BY <2>2, <2>3, <3>2, ClientAssumption
      <4> QED BY <2>6, <4>1, ClientAssumption DEF Tells
    <3> QED BY <3>1, <3>2
  <2>8. \A j \in Ids \ {i} : Tells(o.seen[j] \cup {t[j]}, Understood(o)[j])
    BY <2>4, <2>5 DEF Tells
  <2>9. \A j \in Ids : \/ Tells(o.seen[j] \cup {t[j]}, Understood(o)[j])
                       \/ o.method \in Overlooking /\ Absent \in o.seen[j] \cup {t[j]}
    BY <2>4, <2>5, <2>7, <2>8
  <2>10. Truthful(o, t)
    BY <1>3, <1>6, <1>7, <1>9, <2>9 DEF Truthful, Numbering, Updating
  <2> QED BY <1>3, <1>5, <1>6, <2>1, <2>3, <2>10, ConcludeStep
<1> QED BY <1>1, <1>8, <1>9

LEMMA ToggleScriptStep ==
  ASSUME ClientInv, NEW n \in DOMAIN calls, ToggleScript(n) PROVE ClientInv'
<1> DEFINE c == calls[n]
<1>1. c.stage = "begun" /\ c.method = "ToggleScript"
  BY DEF ToggleScript, Goes
<1>2. PICK i \in c.ids :
        LET v == Flipped(c.found) IN
        Concludes(n, Overwritten(i, Marked(things[i], v.mark)), Says(Overwriting(n, i), i, v))
  BY DEF ToggleScript
<1>3. /\ c \in CallRecords /\ c.method \in Methods /\ One(c) /\ ~c.ok /\ BegunInv(c, things)
      /\ things \in States /\ kind \in ClientKinds
      /\ \A j \in Ids : things[j] \in c.seen[j]
  BY <1>1, CallFacts, OpenFacts DEF Open
<1>4. i \in Ids /\ c.ids = {i} /\ c.found \in Values /\ c.found \in c.seen[i]
  BY <1>1, <1>3 DEF CallRecords, One, SingleMethods, BegunInv, FoundMethods
<1>5. kind = "scripts"
  BY <1>1, <1>3, KindOfMethod
<1> DEFINE o == Overwriting(n, i)
           v == Flipped(c.found)
           u == Marked(things[i], v.mark)
           t == Overwritten(i, u)
           q == Says(o, i, v)
<1>6. /\ o \in CallRecords
      /\ things[i] # Absent => o.did
      /\ o.method = c.method /\ o.ids = c.ids /\ o.rows = c.rows /\ o.ok = c.ok /\ o.seen = c.seen
  BY <1>3, OverwritingForm
<1>7. One(o)
  BY <1>3, <1>6 DEF One
<1>8. Concludes(n, t, q)
  BY <1>2
<1>9. v \in Values /\ v.text = c.found.text
  BY <1>4, MarkedForm DEF Flipped, Values
<1> HIDE DEF v
<1>10. v.mark \in Int
  BY <1>9 DEF Values
<1>11. things[i] # Absent => u \in Values /\ u.mark = v.mark
  BY <1>3, <1>4, <1>10, MarkedForm DEF States
<1> HIDE DEF u
<1>12. t \in States /\ t[i] = IF things[i] = Absent THEN Absent ELSE u
  BY <1>3, <1>4, <1>11, OverwrittenForm
<1> HIDE DEF t, o, c
<1>13. \/ Tells(o.seen[i] \cup {t[i]}, v)
       \/ o.method \in Overlooking /\ Absent \in o.seen[i] \cup {t[i]}
  <2>1. CASE things[i] = Absent
    BY <1>1, <1>6, <1>12, <2>1 DEF Overlooking
  <2>2. CASE things[i] # Absent
    <3>1. t[i] \in (o.seen[i] \cup {t[i]}) \ {Absent} /\ t[i].mark = v.mark
      BY <1>11, <1>12, <2>2, ClientAssumption
    <3>2. c.found \in (o.seen[i] \cup {t[i]}) \ {Absent}
      BY <1>4, <1>6, ClientAssumption
    <3> QED BY <1>9, <3>1, <3>2, ClientAssumption DEF Tells
  <2> QED BY <2>1, <2>2
<1>14. o.method \notin Confirming \cup Numbering \cup Updating
  BY <1>1, <1>6 DEF Confirming, Removing, Numbering, Updating
<1>15. q \in CallRecords /\ q.method = o.method /\ Truthful(q, t)
  BY <1>3, <1>4, <1>6, <1>7, <1>9, <1>12, <1>13, <1>14, SaysTrue DEF Rows
<1> HIDE DEF q
<1> QED BY <1>3, <1>5, <1>6, <1>8, <1>12, <1>15, ConcludeStep

-----------------------------------------------------------------------------
(***************************************************************************)
(* Removing and linking.                                                   *)
(***************************************************************************)
\* What was named is gone.
LEMMA RemovedTrue ==
  ASSUME NEW q \in CallRecords, One(q), ~q.ok, NEW t, q.method \in Removing,
         \A i \in q.ids : t[i] = Absent, q.method \in Numbering => NumberTrue(q)
  PROVE  Truthful(q, t)
<1>1. Understood(q) = Confirmed(q)
  BY DEF Understood, Confirming
<1>2. \A i \in Ids : Confirmed(q)[i] = IF i \in q.ids THEN Absent ELSE Unsaid
  <2>1. q.method \notin {"SetAssociation", "DisableScript"}
    BY DEF Removing
  <2> QED BY <2>1 DEF Confirmed
<1>3. \A i \in Ids : Tells(q.seen[i] \cup {t[i]}, Understood(q)[i])
  BY <1>1, <1>2 DEF Tells
<1>4. q.method \notin Updating
  BY DEF Removing, Updating
<1> QED BY <1>3, <1>4 DEF Truthful

LEMMA DeleteStep ==
  ASSUME ClientInv, NEW n \in DOMAIN calls, Delete(n) PROVE ClientInv'
<1> DEFINE c == calls[n]
           t == Without(c.ids)
           d == Did(c)
           q == [d EXCEPT !.number = Cardinality(Present \cap c.ids)]
<1>1. /\ c.stage = "sent"
      /\ c.method \in {"DeleteOne", "BulkDelete", "DeleteScript", "RemoveAssociation"}
      /\ Concludes(n, t, q)
  BY DEF Delete, Asks
<1>2. /\ c \in CallRecords /\ c.method \in Methods /\ One(c) /\ ~c.ok
      /\ things \in States /\ \A j \in Ids : things[j] \in c.seen[j]
  BY <1>1, CallFacts, OpenFacts DEF Open
<1>3. /\ t \in States /\ MarksKept(things, t)
      /\ \A i \in Ids : t[i] = IF i \in c.ids THEN Absent ELSE things[i]
  BY <1>2, WithoutForm
<1> HIDE DEF t, c
<1>4. d \in CallRecords /\ d.method = c.method /\ d.ids = c.ids /\ d.ok = c.ok /\ d.seen = c.seen
  BY <1>2, DidForm
<1> HIDE DEF d
<1>5. /\ q \in CallRecords /\ q.method = c.method /\ q.ids = c.ids /\ q.ok = c.ok
      /\ q.seen = c.seen /\ q.number = Cardinality(Present \cap q.ids)
  BY <1>4, CountNat DEF CallRecords
<1> HIDE DEF q
<1>6. NumberTrue(q)
  BY <1>2, <1>5, CountTrue
<1>7. \A i \in q.ids : t[i] = Absent
  BY <1>2, <1>3, <1>5 DEF CallRecords
<1>8. Truthful(q, t)
  BY <1>1, <1>2, <1>5, <1>6, <1>7, RemovedTrue DEF One, Removing
<1> QED BY <1>1, <1>2, <1>3, <1>5, <1>8, ConcludeStep

LEMMA DeleteSchemaStep ==
  ASSUME ClientInv, NEW n \in DOMAIN calls, DeleteSchema(n) PROVE ClientInv'
<1> DEFINE c == calls[n]
           t == Without(c.ids)
           q == Did(c)
<1>1. /\ c.stage = "sent" /\ c.method \in {"RemoveField", "DeleteIndex"}
      /\ Concludes(n, t, q) \/ Serve(n, things, Refused(c, NotFound))
  BY DEF DeleteSchema, Asks
<1>2. /\ c \in CallRecords /\ c.method \in Methods /\ One(c) /\ ~c.ok /\ SentInv(c)
      /\ things \in States /\ MarksKept(things, things)
  BY <1>1, CallFacts, OpenFacts DEF Open
<1>3. CASE Serve(n, things, Refused(c, NotFound))
  <2>1. NotFound \in Answers /\ IsError(c, NotFound)
    BY CallFacts, ErrorAnswers
  <2> HIDE DEF c
  <2> QED BY <1>2, <1>3, <2>1, RefuseStep DEF SentInv
<1>4. CASE Concludes(n, t, q)
  <2>1. /\ t \in States /\ MarksKept(things, t)
        /\ \A i \in Ids : t[i] = IF i \in c.ids THEN Absent ELSE things[i]
    BY <1>2, WithoutForm
  <2> HIDE DEF t, c
  <2>2. /\ q \in CallRecords /\ q.method = c.method /\ q.ids = c.ids /\ q.ok = c.ok
        /\ q.seen = c.seen /\ q.rows = c.rows
    BY <1>2, DidForm
  <2> HIDE DEF q
  <2>3. One(q)
    BY <1>2, <2>2 DEF One
  <2>4. CASE c.method = "DeleteIndex"
    <3>1. Truthful(q, t)
      BY <1>2, <2>1, <2>2, <2>3, <2>4, RemovedTrue DEF Removing, Numbering, CallRecords
    <3> QED BY <1>2, <1>4, <2>1, <2>2, <3>1, ConcludeStep
  <2>5. CASE c.method = "RemoveField"
    <3>1. Understood(q) = c.rows
      BY <2>2, <2>5 DEF Understood, Confirming, Removing
    <3>2. \A i \in Ids : Tells(q.seen[i] \cup {t[i]}, Understood(q)[i])
      BY <1>2, <2>2, <3>1, TellsMore DEF SentInv
    <3>3. Truthful(q, t)
      BY <1>2, <2>2, <2>3, <2>5, <3>2 DEF Truthful, Numbering, Updating
    <3> QED BY <1>2, <1>4, <2>1, <2>2, <3>3, ConcludeStep
  <2> QED BY <1>1, <2>4, <2>5
<1> QED BY <1>1, <1>3, <1>4

LEMMA DropNextStep ==
  ASSUME ClientInv, NEW n \in DOMAIN calls, DropNext(n) PROVE ClientInv'
<1> DEFINE c == calls[n]
           d == Did(c)
<1>1. c.stage = "begun" /\ c.method \in {"DropCollection", "DropCollectionCascade"}
  BY DEF DropNext, Goes
<1>2. \/ Serve(n, Without(c.ids), Answered(d, writeOK))
      \/ \E i \in c.rest : Serve(n, Without({i}), [d EXCEPT !.rest = c.rest \ {i}])
  BY DEF DropNext
<1>3. /\ c \in CallRecords /\ c.method \in Methods /\ One(c) /\ ~c.ok /\ BegunInv(c, things)
      /\ things \in States
  BY <1>1, CallFacts, OpenFacts DEF Open
<1> HIDE DEF c
<1>4. /\ d \in CallRecords /\ d.method = c.method /\ d.ids = c.ids /\ d.ok = c.ok
      /\ d.seen = c.seen /\ d.rows = c.rows /\ d.stage = "begun"
  BY <1>1, <1>3, DidForm
<1> HIDE DEF d
<1>5. One(d)
  BY <1>3, <1>4 DEF One
<1>6. CASE Serve(n, Without(c.ids), Answered(d, writeOK))
  <2> DEFINE t == Without(c.ids)
  <2>1. /\ t \in States /\ MarksKept(things, t)
        /\ \A i \in Ids : t[i] = IF i \in c.ids THEN Absent ELSE things[i]
    BY <1>3, WithoutForm
  <2> HIDE DEF t
  <2>2. Truthful(d, t)
    BY <1>1, <1>3, <1>4, <1>5, <2>1, RemovedTrue DEF Removing, Numbering, CallRecords
  <2> QED BY <1>3, <1>4, <1>6, <2>1, <2>2, AnswerStep DEF t
<1>7. CASE \E i \in c.rest : Serve(n, Without({i}), [d EXCEPT !.rest = c.rest \ {i}])
  <2>1. PICK i \in c.rest : Serve(n, Without({i}), [d EXCEPT !.rest = c.rest \ {i}])
    BY <1>7
  <2> DEFINE t == Without({i})
             q == [d EXCEPT !.rest = c.rest \ {i}]
  <2>2. t \in States /\ MarksKept(things, t)
    BY <1>3, WithoutForm
  <2>3. /\ q \in CallRecords /\ q.method = c.method /\ q.ids = c.ids /\ q.ok = c.ok
        /\ q.seen = c.seen /\ q.rows = c.rows /\ q.stage = "begun"
    BY <1>3, <1>4 DEF CallRecords
  <2> HIDE DEF t
  <2>4. Serve(n, t, q)
    BY <2>1 DEF t
  <2> HIDE DEF q
  <2>5. One(q)
    BY <1>3, <2>3 DEF One
  <2>6. \A w \in CallRecords : Grown(q, w, t) => BegunInv(w, t)
    BY <1>1, <1>3, <2>3, TellsMore DEF BegunInv, Grown, FoundMethods
  <2> QED BY <1>3, <2>2, <2>3, <2>4, <2>5, <2>6, WayStep
<1> QED BY <1>2, <1>6, <1>7

LEMMA LinkStep ==
  ASSUME ClientInv, NEW n \in DOMAIN calls, Link(n) PROVE ClientInv'
<1> DEFINE c == calls[n]
           q == Did(c)
           t == [i \in Ids |->
                   CASE i \in c.ids /\ things[i] = Absent -> c.value
                     [] i \notin c.ids /\ c.method = "SetAssociation" -> Absent
                     [] OTHER -> things[i]]
<1>1. /\ c.stage = "sent" /\ c.method \in {"AddAssociation", "SetAssociation"}
      /\ Concludes(n, t, q)
  BY DEF Link, Asks
<1>2. /\ c \in CallRecords /\ c.method \in Methods /\ One(c) /\ ~c.ok
      /\ things \in States
  BY <1>1, CallFacts, OpenFacts DEF Open
<1> HIDE DEF c
<1>3. c.value \in Values /\ c.value # Absent
  BY <1>2, ClientAssumption DEF CallRecords
<1>4. /\ t \in States
      /\ \A i \in Ids :
           /\ t[i] = Absent \/ things[i] = Absent \/ t[i] = things[i]
           /\ i \in c.ids => t[i] # Absent
           /\ i \notin c.ids /\ c.method = "SetAssociation" => t[i] = Absent
  BY <1>2, <1>3 DEF States
<1> HIDE DEF t
<1>5. MarksKept(things, t)
  BY <1>4 DEF MarksKept
<1>6. /\ q \in CallRecords /\ q.method = c.method /\ q.ids = c.ids /\ q.ok = c.ok
      /\ q.seen = c.seen
  BY <1>2, DidForm
<1> HIDE DEF q
<1>7. Understood(q) = Confirmed(q)
  BY <1>1, <1>6 DEF Understood, Confirming
<1>8. \A i \in Ids :
        \/ i \in c.ids /\ Confirmed(q)[i] = There
        \/ i \notin c.ids /\ c.method = "SetAssociation" /\ Confirmed(q)[i] = Absent
        \/ Confirmed(q)[i] = Unsaid
  BY <1>1, <1>6 DEF Confirmed, Removing
<1>9. There \in Values /\ There.text = Left /\ There.mark = Left
  BY DEF There, Left, Values
<1>10. \A i \in Ids : Tells(q.seen[i] \cup {t[i]}, Confirmed(q)[i])
  BY <1>4, <1>8, <1>9, ClientAssumption DEF Tells
<1>11. Truthful(q, t)
  BY <1>1, <1>2, <1>6, <1>7, <1>10 DEF Truthful, One, Numbering, Updating
<1> QED BY <1>1, <1>2, <1>4, <1>5, <1>6, <1>11, ConcludeStep

-----------------------------------------------------------------------------
(***************************************************************************)
(* The client.                                                             *)
(***************************************************************************)
LEMMA InvokeStep ==
  ASSUME ClientInv, Invoke PROVE ClientInv'
<1>1. PICK m \in Methods : \E s \in Subjects(m), v \in Sent(m, Len(calls) + 1) :
        calls' = Append(calls,
          [method |-> m, ids |-> s, value |-> v, stage |-> "sent", found |-> Absent,
           rest |-> IF m = "CreateMany" THEN s ELSE {}, rows |-> Silent, number |-> 0,
           status |-> 0, code |-> 0, ok |-> FALSE, did |-> FALSE,
           seen |-> [i \in Ids |-> {things[i]}]])
  BY DEF Invoke
<1>2. PICK s \in Subjects(m), v \in Sent(m, Len(calls) + 1) :
        calls' = Append(calls,
          [method |-> m, ids |-> s, value |-> v, stage |-> "sent", found |-> Absent,
           rest |-> IF m = "CreateMany" THEN s ELSE {}, rows |-> Silent, number |-> 0,
           status |-> 0, code |-> 0, ok |-> FALSE, did |-> FALSE,
           seen |-> [i \in Ids |-> {things[i]}]])
  BY <1>1
<1> DEFINE seen == [i \in Ids |-> {things[i]}]
           rest == IF m = "CreateMany" THEN s ELSE {}
           p == [method |-> m, ids |-> s, value |-> v, stage |-> "sent", found |-> Absent,
                 rest |-> rest, rows |-> Silent, number |-> 0,
                 status |-> 0, code |-> 0, ok |-> FALSE, did |-> FALSE, seen |-> seen]
<1>3. calls' = Append(calls, p) /\ kind' = kind /\ things' = things
  BY <1>2 DEF Invoke
<1>4. kind \in ClientKinds /\ things \in States /\ calls \in Seq(CallRecords)
  BY DEF ClientInv, ClientTypeOK, States
<1>5. s \in SUBSET Ids /\ rest \in SUBSET Ids
  BY DEF Subjects
<1>6. v \in Values
  <2>1. Len(calls) \in Nat
    BY <1>4
  <2> QED BY <2>1 DEF Sent, Values
<1>7. m \in AllMethods
  BY <1>4, ClientAssumption DEF Methods, AllMethods
<1>8. Silent \in [Ids -> Rows] /\ \A i \in Ids : Silent[i] = Unsaid
  BY DEF Silent, Rows
<1>9. /\ seen \in [Ids -> SUBSET (Values \cup {Absent})]
      /\ \A i \in Ids : things[i] \in seen[i]
  BY <1>4 DEF States
<1>10. m \in SingleMethods => \E i \in Ids : s = {i}
  BY DEF Subjects, SingleMethods, AboutNone, AboutMany
<1> HIDE DEF seen, rest
<1>11. p \in CallRecords
  <2> HIDE DEF Silent
  <2> QED BY <1>5, <1>6, <1>7, <1>8, <1>9 DEF CallRecords, Open
<1>12. CallInv(p, things)
  <2>1. \A i \in Ids : Tells(seen[i], Silent[i])
    BY <1>8 DEF Tells
  <2> HIDE DEF Silent
  <2> QED BY <1>9, <1>10, <2>1 DEF CallInv, One, SentInv
<1>13. p.method \in Methods
  OBVIOUS
<1> HIDE DEF p
<1>14. calls' \in Seq(CallRecords)
  BY <1>3, <1>4, <1>11
<1>15. Methods' = Methods
  BY <1>3 DEF Methods
<1>16. \A k \in DOMAIN calls' : calls'[k].method \in Methods' /\ CallInv(calls'[k], things')
  <2>1. SUFFICES ASSUME NEW k \in DOMAIN calls'
                 PROVE  calls'[k].method \in Methods /\ CallInv(calls'[k], things)
    BY <1>3, <1>15
  <2>2. \/ k \in DOMAIN calls /\ calls'[k] = calls[k]
        \/ calls'[k] = p
    BY <1>3, <1>4, <1>11
  <2>3. CASE k \in DOMAIN calls /\ calls'[k] = calls[k]
    BY <2>3 DEF ClientInv
  <2>4. CASE calls'[k] = p
    BY <1>12, <1>13, <2>4
  <2> QED BY <2>2, <2>3, <2>4
<1>17. ClientTypeOK'
  BY <1>3, <1>4, <1>14 DEF ClientTypeOK, States
<1> QED BY <1>16, <1>17 DEF ClientInv

LEMMA ReceiveStep ==
  ASSUME ClientInv, NEW n \in DOMAIN calls, Receive(n) PROVE ClientInv'
<1> DEFINE c == calls[n]
           q == IF c.method = "RemoveField" /\ ~Failed(c)
                THEN [c EXCEPT !.method = "ListFields", !.stage = "sent"]
                ELSE Returned(c)
<1>1. /\ c.stage = "answered" /\ calls' = [calls EXCEPT ![n] = q]
      /\ kind' = kind /\ things' = things
  BY DEF Receive
<1>2. /\ c \in CallRecords /\ c.method \in Methods /\ One(c) /\ AnsweredInv(c)
      /\ things \in States /\ kind \in ClientKinds /\ calls \in Seq(CallRecords)
      /\ ~c.ok /\ \A i \in Ids : things[i] \in c.seen[i]
  BY <1>1, CallFacts, OpenFacts DEF Open, CallInv, ClientInv, ClientTypeOK
<1>3. q \in CallRecords /\ q.method \in Methods /\ CallInv(q, things)
  <2>1. CASE c.method = "RemoveField" /\ ~Failed(c)
    <3>1. q = [c EXCEPT !.method = "ListFields", !.stage = "sent"]
      BY <2>1
    <3> HIDE DEF q, c
    <3>0. "ListFields" \in AllMethods
      BY DEF AllMethods, FieldMethods
    <3>2. /\ q \in CallRecords /\ q.method = "ListFields" /\ q.stage = "sent"
          /\ q.ids = c.ids /\ q.rows = c.rows /\ q.ok = c.ok /\ q.seen = c.seen
      BY <1>2, <3>0, <3>1 DEF CallRecords, Open
    <3>3. "ListFields" \in Methods
      BY <1>2, <2>1, KindOfMethod DEF Methods, FieldMethods
    <3>4. Understood(c) = c.rows /\ c.method \notin Overlooking
      BY <2>1 DEF Understood, Confirming, Removing, Overlooking
    <3>5. \A i \in Ids : Tells(q.seen[i], q.rows[i])
      BY <1>2, <2>1, <3>2, <3>4 DEF AnsweredInv, TrueOf, RowsTrue
    <3>6. CallInv(q, things)
      BY <1>2, <3>2, <3>5 DEF CallInv, One, SingleMethods, SentInv
    <3> QED BY <3>2, <3>3, <3>6
  <2>2. CASE ~(c.method = "RemoveField" /\ ~Failed(c)) /\ Failed(c)
    <3>1. q = [c EXCEPT !.stage = "returned", !.rows = Silent, !.code = ErrorCode(c)]
      BY <2>2 DEF Returned
    <3> HIDE DEF q, c
    <3>2. ErrorCode(c) \in Nat /\ Silent \in [Ids -> Rows]
      BY <1>2 DEF ErrorCode, CallRecords, Silent, Rows
    <3>3. /\ q \in CallRecords /\ q.method = c.method /\ q.stage = "returned"
          /\ q.ids = c.ids /\ q.ok = c.ok /\ q.did = c.did /\ q.code = ErrorCode(c)
      <4> HIDE DEF Silent
      <4> QED BY <1>2, <3>1, <3>2 DEF CallRecords, Open
    <3>4. Undone(c, ErrorCode(c))
      BY <1>2, <2>2 DEF AnsweredInv
    <3>5. ReturnedInv(q)
      BY <1>2, <3>3, <3>4 DEF ReturnedInv, Undone
    <3>6. One(q)
      BY <1>2, <3>3 DEF One
    <3>7. CallInv(q, things)
      BY <3>3, <3>5, <3>6 DEF CallInv, Open
    <3> QED BY <1>2, <3>3, <3>7
  <2>3. CASE ~(c.method = "RemoveField" /\ ~Failed(c)) /\ ~Failed(c)
    <3> DEFINE u == Understood(c)
    <3>1. q = [c EXCEPT !.stage = "returned", !.rows = u, !.ok = TRUE]
      BY <2>3 DEF Returned
    <3> HIDE DEF q, c
    <3>2. u \in [Ids -> Rows]
      <4>1. There \in Values /\ Marked(There, 0) \in Values
        <5>1. There \in Values
          BY DEF There, Left, Values
        <5> QED BY <5>1, MarkedForm
      <4>2. Confirmed(c) \in [Ids -> Rows]
        BY <4>1 DEF Confirmed, Rows
      <4> QED BY <1>2, <4>2 DEF Understood, CallRecords
    <3> HIDE DEF u
    <3>3. /\ q \in CallRecords /\ q.method = c.method /\ q.stage = "returned" /\ q.ok
          /\ q.ids = c.ids /\ q.did = c.did /\ q.rows = u /\ q.seen = c.seen
          /\ q.number = c.number
      BY <1>2, <3>1, <3>2 DEF CallRecords, Open
    <3>4. TrueOf(c, u)
      BY <1>2, <2>3 DEF AnsweredInv, u
    <3>5. TrueOf(q, q.rows)
      BY <3>3, <3>4 DEF TrueOf, RowsTrue, NumberTrue, UpdateTrue
    <3>6. One(q)
      BY <1>2, <3>3 DEF One
    <3>7. CallInv(q, things)
      BY <3>3, <3>5, <3>6 DEF CallInv, Open, ReturnedInv
    <3> QED BY <1>2, <3>3, <3>7
  <2> QED BY <2>1, <2>2, <2>3
<1> HIDE DEF q, c
<1>4. calls' \in Seq(CallRecords) /\ DOMAIN calls' = DOMAIN calls
  BY <1>1, <1>2, <1>3
<1>5. Methods' = Methods
  BY <1>1 DEF Methods
<1>6. \A k \in DOMAIN calls' : calls'[k].method \in Methods' /\ CallInv(calls'[k], things')
  <2>1. SUFFICES ASSUME NEW k \in DOMAIN calls
                 PROVE  calls'[k].method \in Methods /\ CallInv(calls'[k], things)
    BY <1>1, <1>4, <1>5
  <2>2. CASE k = n
    <3>1. calls'[k] = q
      BY <1>1, <2>2
    <3> QED BY <1>3, <3>1
  <2>3. CASE k # n
    <3>1. calls'[k] = calls[k]
      BY <1>1, <2>3
    <3> QED BY <3>1 DEF ClientInv
  <2> QED BY <2>2, <2>3
<1>7. ClientTypeOK'
  BY <1>1, <1>2, <1>4 DEF ClientTypeOK, States
<1> QED BY <1>6, <1>7 DEF ClientInv

LEMMA ClientInitInv == ClientInit => ClientInv
<1> SUFFICES ASSUME ClientInit PROVE ClientInv
  OBVIOUS
<1>1. kind \in ClientKinds /\ calls = <<>>
  BY DEF ClientInit
<1>2. things \in [Ids -> Values \cup {Absent}]
  <2>1. [text |-> 0, mark |-> 0] \in Values
    BY DEF Values
  <2> QED BY <2>1 DEF ClientInit
<1>3. calls \in Seq(CallRecords) /\ DOMAIN calls = {}
  BY <1>1
<1> QED BY <1>1, <1>2, <1>3 DEF ClientInv, ClientTypeOK

LEMMA ClientNextInv == ClientInv /\ [ClientNext]_clientVars => ClientInv'
<1> SUFFICES ASSUME ClientInv, [ClientNext]_clientVars PROVE ClientInv'
  OBVIOUS
<1>1. CASE UNCHANGED clientVars
  BY <1>1 DEF clientVars, ClientInv, ClientTypeOK, Methods, RecordMethods, FileMethods,
    LinkMethods, CollectionMethods, FieldMethods, IndexMethods, ScriptMethods
<1>2. CASE Invoke
  BY <1>2, InvokeStep
<1>3. ASSUME NEW n \in DOMAIN calls,
             \/ Receive(n) \/ Unauthorized(n) \/ Refuse(n) \/ Fail(n)
             \/ Find(n) \/ List(n) \/ Count(n) \/ Validate(n)
      PROVE  ClientInv'
  BY <1>3, ReceiveStep, UnauthorizedStep, RefusingStep, FailStep, FindStep, ListStep, CountStep,
    ValidateStep
<1>4. ASSUME NEW n \in DOMAIN calls,
             \/ Create(n) \/ CreateSchema(n) \/ CreateNext(n) \/ Look(n)
             \/ UpdateRecord(n) \/ UpdateField(n) \/ UpdateCollection(n)
             \/ ShowCollection(n) \/ ShowFields(n)
      PROVE  ClientInv'
  BY <1>4, CreateStep, CreateSchemaStep, CreateNextStep, LookStep, UpdateRecordStep,
    UpdateFieldStep, UpdateCollectionStep, ShowCollectionStep, ShowFieldsStep
<1>5. ASSUME NEW n \in DOMAIN calls,
             \/ SaveScript(n) \/ ToggleScript(n) \/ Delete(n) \/ DeleteSchema(n)
             \/ DropNext(n) \/ Link(n)
      PROVE  ClientInv'
  BY <1>5, SaveScriptStep, ToggleScriptStep, DeleteStep, DeleteSchemaStep, DropNextStep, LinkStep
<1> QED BY <1>1, <1>2, <1>3, <1>4, <1>5 DEF ClientNext

\* Whatever clients, things and calls there are, in any order: what the server has
\* answered to a call so far, or is about to, was so while the call was under way.
THEOREM AnswersKept == ClientSpec => []ClientInv
BY ClientInitInv, ClientNextInv, PTL DEF ClientSpec

\* What a method of the client returns can be relied on: rows that were there, numbers
\* of records that were there, updates that were made, and refusals that did nothing.
THEOREM ReturnsTrue == ClientSpec => []ReturnsHold
<1>1. ClientInv => ReturnsHold
  BY DEF ClientInv, ReturnsHold, CallInv, ReturnedInv, TrueOf, Undone
<1> QED BY <1>1, AnswersKept, PTL
=============================================================================
