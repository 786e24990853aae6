----------------------------- MODULE Snowflake -----------------------------
(***************************************************************************)
(* SnowflakeGenerator.NextID (pkg/utils/idgen.go), the primary keys of all *)
(* collections and the names of uploaded files.                            *)
(*                                                                         *)
(* The generator of a process is shared by its goroutines under a mutex.   *)
(* It reads a wall clock that may stand still for many calls, step back,   *)
(* or be read again and again while a goroutine waits for the next         *)
(* millisecond.  A restarted process starts with a new generator and a     *)
(* machine number drawn at random (SetMachineID(1) comes after init() has  *)
(* used up "once", and changes nothing).                                   *)
(***************************************************************************)
EXTENDS Integers, Sequences, FiniteSets

CONSTANTS
  Workers,      \* goroutines
  NoWorker,     \* the mutex is free
  Machines,     \* number of machine numbers (2^10)
  Numbers,      \* ids of one machine in one millisecond (2^12)
  Epoch,        \* snowflakeEpoch
  MaxIds,       \* bound on the ids asked for
  MaxAhead,     \* bound on how far the clock runs ahead of the last id
  MaxSetBacks,  \* bound on how often the clock is set back
  MaxBoots      \* bound on starts of the process

ASSUME WorkersAssumption == NoWorker \notin Workers
ASSUME LayoutAssumption ==
  Machines \in Nat \ {0} /\ Numbers \in Nat \ {0, 1} /\ Epoch \in Nat
ASSUME BoundsAssumption ==
  /\ MaxIds \in Nat /\ MaxAhead \in Nat \ {0}
  /\ MaxSetBacks \in Nat /\ MaxBoots \in Nat

VARIABLES
  clock,        \* time.Now().UnixMilli()
  setBacks,     \* how often it was set back
  boots,        \* starts of the process
  machineID,    \* g.machineID
  sequence,     \* g.sequence
  lastTime,     \* g.lastTime
  mu,           \* the holder of g.mu
  now,          \* the local of that holder
  phase,        \* phase[w]: where w stands in NextID
  issued,       \* ids this process has returned, in order
  past          \* ids of earlier processes, with their machine numbers

generator == <<machineID, sequence, lastTime>>
vars == <<clock, setBacks, boots, generator, mu, now, phase, issued, past>>

MachineNumbers == 0..(Machines - 1)
MaxSequence == Numbers - 1

TypeOK ==
  /\ clock \in Nat
  /\ setBacks \in 0..MaxSetBacks
  /\ boots \in Nat
  /\ machineID \in MachineNumbers
  /\ sequence \in 0..MaxSequence
  /\ lastTime \in Nat \cup {-1}
  /\ mu \in Workers \cup {NoWorker}
  /\ now \in Nat
  /\ phase \in [Workers -> {"idle", "lock", "read", "spin", "pack"}]
  /\ issued \in Seq(Int)
  /\ past \subseteq [machine: MachineNumbers, id: Int]

Init ==
  /\ clock = Epoch
  /\ setBacks = 0
  /\ boots = 1
  /\ machineID \in MachineNumbers
  /\ sequence = 0
  /\ lastTime = -1
  /\ mu = NoWorker
  /\ now = 0
  /\ phase = [w \in Workers |-> "idle"]
  /\ issued = << >>
  /\ past = {}

-----------------------------------------------------------------------------
(***************************************************************************)
(* The generator.                                                          *)
(***************************************************************************)

\* The shifts and ors of the code: the fields do not overlap.
Pack(t, m, s) == ((t - Epoch) * Machines + m) * Numbers + s

Running == {w \in Workers : phase[w] # "idle"}

\* MaxIds bounds the calls.
Call(w) ==
  /\ phase[w] = "idle"
  /\ Cardinality(Running) + Len(issued) + Cardinality(past) < MaxIds
  /\ phase' = [phase EXCEPT ![w] = "lock"]
  /\ UNCHANGED <<clock, setBacks, boots, generator, mu, now, issued, past>>

Acquire(w) ==
  /\ phase[w] = "lock" /\ mu = NoWorker
  /\ mu' = w
  /\ phase' = [phase EXCEPT ![w] = "read"]
  /\ UNCHANGED <<clock, setBacks, boots, generator, now, issued, past>>

\* (slip) A clock that was set back is believed.
ClampForgotten == clock

\* A time before the last one is taken for the last one.
Clamp == IF clock < lastTime THEN lastTime ELSE clock

\* (slip) The mask is one bit too wide.
NextNumberWide(s) == (s + 1) % (2 * Numbers)

NextNumber(s) == (s + 1) % Numbers

\* The numbers of the millisecond are used up.
Spins(s) == s = 0

\* The clock is read, and the number within the millisecond chosen.
ReadClock(w) ==
  /\ phase[w] = "read"
  /\ now' = Clamp
  /\ sequence' = IF Clamp = lastTime THEN NextNumber(sequence) ELSE 0
  /\ phase' = [phase EXCEPT ![w] =
                 IF Clamp = lastTime /\ Spins(NextNumber(sequence))
                 THEN "spin" ELSE "pack"]
  /\ UNCHANGED <<clock, setBacks, boots, machineID, lastTime, mu, issued, past>>

\* (slip) The loop compares the time that was read before it.
SpinStale(w) ==
  /\ phase[w] = "spin"
  /\ phase' = [phase EXCEPT ![w] = IF now <= lastTime THEN "spin" ELSE "pack"]
  /\ UNCHANGED <<clock, setBacks, boots, generator, mu, now, issued, past>>

\* The clock is read until it shows a later time, with the mutex held.
Spin(w) ==
  /\ phase[w] = "spin"
  /\ now' = clock
  /\ phase' = [phase EXCEPT ![w] = IF clock <= lastTime THEN "spin" ELSE "pack"]
  /\ UNCHANGED <<clock, setBacks, boots, generator, mu, issued, past>>

\* The id is returned and the mutex released.
Return(w) ==
  /\ phase[w] = "pack"
  /\ lastTime' = now
  /\ issued' = Append(issued, Pack(now, machineID, sequence))
  /\ mu' = NoWorker
  /\ phase' = [phase EXCEPT ![w] = "idle"]
  /\ UNCHANGED <<clock, setBacks, boots, machineID, sequence, now, past>>

-----------------------------------------------------------------------------
(***************************************************************************)
(* The world.                                                              *)
(***************************************************************************)

\* MaxAhead bounds the clock; the next id may always come later than the
\* last.
Tick ==
  /\ clock < Epoch + MaxAhead \/ clock < lastTime + MaxAhead
  /\ clock' = clock + 1
  /\ UNCHANGED <<setBacks, boots, generator, mu, now, phase, issued, past>>

\* The clock is adjusted, to no earlier than the epoch of the ids.
SetBack ==
  /\ setBacks < MaxSetBacks
  /\ setBacks' = setBacks + 1
  /\ clock' \in Epoch..(clock - 1)
  /\ UNCHANGED <<boots, generator, mu, now, phase, issued, past>>

Restart ==
  /\ boots < MaxBoots
  /\ boots' = boots + 1
  /\ machineID' \in MachineNumbers
  /\ sequence' = 0
  /\ lastTime' = -1
  /\ mu' = NoWorker
  /\ now' = 0
  /\ phase' = [w \in Workers |-> "idle"]
  /\ issued' = << >>
  /\ past' = past \cup
       {[machine |-> machineID, id |-> issued[i]] : i \in DOMAIN issued}
  /\ UNCHANGED <<clock, setBacks>>

Step(w) == ReadClock(w) \/ Spin(w) \/ Return(w)

Next ==
  \/ \E w \in Workers : Call(w) \/ Acquire(w) \/ Step(w)
  \/ Tick \/ SetBack \/ Restart

Spec == Init /\ [][Next]_vars

\* Goroutines run, sync.Mutex hands itself to the longest waiter once it is
\* starved, and time passes.  Adjustments and restarts are not assumed.
FairSpec ==
  /\ Spec
  /\ \A w \in Workers : WF_vars(Step(w)) /\ SF_vars(Acquire(w))
  /\ WF_vars(Tick)

-----------------------------------------------------------------------------
(***************************************************************************)
(* Properties.                                                             *)
(***************************************************************************)

\* The ids of a process strictly increase in the order in which they are
\* returned, whatever the clock does and however many goroutines ask.
Increasing ==
  \A i, j \in DOMAIN issued : i < j => issued[i] < issued[j]

\* Processes with different machine numbers never share an id, whatever
\* their clocks show: no field of the id runs into the next.
MachinesApart ==
  \A p \in past, i \in DOMAIN issued :
    p.machine # machineID => p.id # issued[i]

\* A goroutine that asks for an id is given one, unless the process ends.
EveryCallReturns ==
  \A w \in Workers : phase[w] = "lock" ~> phase[w] = "idle"
=============================================================================
