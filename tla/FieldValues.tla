---------------------------- MODULE FieldValues ----------------------------
(***************************************************************************)
(* The values that the repository gives and checks itself when records of  *)
(* a collection are created and updated: a sequence field ("number"), a    *)
(* sort field ("place") and a field declared unique ("code"), in           *)
(* applyAutoFields (service/metadata/repository_generic.go),               *)
(* nextSequenceValue (fields_phase5.go) and checkUnique (cel_validator.go).*)
(*                                                                         *)
(* A number is the counter's value: patterns, dates and padding are left   *)
(* out.  Callers do not give numbers and places.  Each request is one      *)
(* write transaction.                                                      *)
(***************************************************************************)
EXTENDS Integers, FiniteSets, FiniteSetsExt

CONSTANTS
  RecIds,              \* 1..n, in the order of creation
  Codes, NoCode,       \* values of the unique field; none is given
  NoRec,
  StartsAt, Step,      \* options of the sequence field
  Writers,             \* concurrent requests
  MaxValueCalls,       \* bound: requests
  MaxValueRestarts     \* bound: restarts

Recs == [number : Nat, place : Nat, code : Codes \cup {NoCode}]

ASSUME FieldValuesAssumption ==
  /\ RecIds \subseteq Nat \ {0} /\ NoCode \notin Codes /\ NoRec \notin Recs
  /\ StartsAt \in Nat \ {0} /\ Step \in Nat \ {0}
  /\ MaxValueCalls \in Nat /\ MaxValueRestarts \in Nat

VARIABLES
  recs,         \* the committed records
  lastRec,      \* the last id
  indexed,      \* the unique field has a unique index: where it was added later
                \* (AddField), and not where it came with CreateCollection
  counter,      \* sequenceCounters
  call,         \* each request: what it asks, where it is, its values, its rows
  valueCalls, valueRestarts,
  firstNumber,  \* history: the number that each record was created with
  givenIn,      \* history: how many restarts there had been when it was given
  givenWith,    \* history: the records that the request which last gave a
                \* record its number gave that number to
  loose,        \* history: records of requests that overlapped another one, or
                \* that one request gave the same values
  looseCodes    \* history: the same, of the requests that gave them their codes

givenValues == <<firstNumber, givenIn, givenWith, loose, looseCodes>>
valueVars == <<recs, lastRec, indexed, counter, call, valueCalls, valueRestarts, givenValues>>

NoValues == [number |-> 0, place |-> 0, code |-> NoCode]
NoCall == [op |-> "create", ids |-> {}, at |-> "idle", values |-> NoValues, alone |-> FALSE]

FieldValuesInit ==
  /\ recs = [i \in RecIds |-> NoRec] /\ lastRec = 0
  /\ indexed \in BOOLEAN
  /\ counter = 0
  /\ call = [c \in Writers |-> NoCall]
  /\ valueCalls = 0 /\ valueRestarts = 0
  /\ firstNumber = [i \in RecIds |-> 0] /\ givenIn = [i \in RecIds |-> 0]
  /\ givenWith = [i \in RecIds |-> {}]
  /\ loose = {} /\ looseCodes = {}

-----------------------------------------------------------------------------
On(c, label) == call[c].at = label
Live == {i \in RecIds : recs[i] # NoRec}

\* nextSequenceValue: the counter, moved up to where the numbers start.
NextNumber == IF counter + Step < StartsAt THEN StartsAt ELSE counter + Step

\* SELECT MAX, plus one.  (Of a table without records the code takes the time
\* of day instead: any number will do, and 1 is one.)
NextPlace == 1 + Max({recs[i].place : i \in Live} \cup {0})

NewCall(op, ids, code) ==
  [NoCall EXCEPT !.op = op, !.ids = ids, !.values = [NoValues EXCEPT !.code = code], !.at = "fill"]

Go(c, label) == call' = [call EXCEPT ![c] = [call[c] EXCEPT !.at = label]]

\* create; update of a record; update of those that a filter finds.
ValueRequests ==
  (IF lastRec + 1 \in RecIds THEN {NewCall("create", {}, k) : k \in Codes \cup {NoCode}} ELSE {})
  \cup {NewCall("update", {i}, k) : i \in Live, k \in Codes \cup {NoCode}}
  \cup {NewCall("updateMany", s, k) : s \in SUBSET Live, k \in Codes \cup {NoCode}}

Submit(c) ==
  /\ On(c, "idle") /\ valueCalls < MaxValueCalls
  /\ valueCalls' = valueCalls + 1
  /\ LET others == {b \in Writers : ~On(b, "idle")} IN
     \E q \in ValueRequests :
       call' = [b \in Writers |-> IF b = c THEN [q EXCEPT !.alone = others = {}]
                                  ELSE [call[b] EXCEPT !.alone = FALSE]]
  /\ UNCHANGED <<recs, lastRec, indexed, counter, valueRestarts, givenValues>>

Filled(c) == [number |-> NextNumber, place |-> NextPlace, code |-> call[c].values.code]

\* (slip) Without the mutex: whoever else is about to take a number reads the
\* counter before it is moved up.
FillUnlocked(c) ==
  /\ On(c, "fill")
  /\ counter' = NextNumber
  /\ call' = [b \in Writers |-> IF On(b, "fill") THEN [call[b] EXCEPT !.values = Filled(b), !.at = "check"]
                                ELSE call[b]]
  /\ UNCHANGED <<recs, lastRec, indexed, valueCalls, valueRestarts, givenValues>>

\* applyAutoFields: whatever the request does, the fields it does not carry
\* are given new values.  The number is taken, under a mutex of its own,
\* whether the request succeeds or not.
Fill(c) ==
  /\ On(c, "fill")
  /\ counter' = NextNumber
  /\ call' = [call EXCEPT ![c] = [call[c] EXCEPT !.values = Filled(c), !.at = "check"]]
  /\ UNCHANGED <<recs, lastRec, indexed, valueCalls, valueRestarts, givenValues>>

\* checkUnique asks on a connection of its own: it sees what is committed.  The
\* record that is updated is left out, where it is one.
Taken(c) ==
  LET own == IF call[c].op = "update" THEN call[c].ids ELSE {} IN
  \E i \in Live \ own : recs[i].code = call[c].values.code

Check(c) ==
  /\ On(c, "check")
  /\ call[c].values.code = NoCode \/ ~Taken(c)
  /\ Go(c, "store")
  /\ UNCHANGED <<recs, lastRec, indexed, counter, valueCalls, valueRestarts, givenValues>>

\* What the statement of a request leaves under an id.
Stored(c, i) ==
  LET v == call[c].values IN
  IF call[c].op = "create" \/ v.code # NoCode THEN v ELSE [v EXCEPT !.code = recs[i].code]

\* The statement waits for the requests that have written its rows, and where
\* there is an index for those that have written its code; it then fails on a
\* code that is taken.  "ids" are now the rows that it writes.
Store(c) ==
  LET ids == IF call[c].op = "create" THEN {lastRec + 1} ELSE call[c].ids \cap Live
      stored == {b \in Writers \ {c} : On(b, "commit")}
      code == call[c].values.code IN
  /\ On(c, "store")
  /\ call[c].op = "create" => lastRec + 1 \in RecIds  \* bound: the ids
  /\ \A b \in stored : call[b].ids \cap ids = {}
  /\ indexed /\ code # NoCode =>
       /\ \A b \in stored : call[b].values.code # code
       /\ \A i \in Live \ ids : recs[i].code # code
       /\ Cardinality(ids) < 2
  /\ lastRec' = IF call[c].op = "create" THEN lastRec + 1 ELSE lastRec
  /\ call' = [call EXCEPT ![c] = [call[c] EXCEPT !.ids = ids, !.at = "commit"]]
  /\ UNCHANGED <<recs, indexed, counter, valueCalls, valueRestarts, givenValues>>

Loosened(set, c) ==
  IF call[c].alone /\ Cardinality(call[c].ids) < 2 THEN set \ call[c].ids ELSE set \cup call[c].ids

CommitValues(c) ==
  LET ids == call[c].ids IN
  /\ On(c, "commit")
  /\ recs' = [i \in RecIds |-> IF i \in ids THEN Stored(c, i) ELSE recs[i]]
  /\ firstNumber' = [i \in RecIds |-> IF i \in ids /\ call[c].op = "create"
                                      THEN call[c].values.number ELSE firstNumber[i]]
  /\ givenIn' = [i \in RecIds |-> IF i \in ids THEN valueRestarts ELSE givenIn[i]]
  /\ givenWith' = [i \in RecIds |-> IF i \in ids THEN ids ELSE givenWith[i]]
  /\ loose' = Loosened(loose, c)
  /\ looseCodes' = IF call[c].values.code = NoCode THEN looseCodes ELSE Loosened(looseCodes, c)
  /\ call' = [call EXCEPT ![c] = NoCall]
  /\ UNCHANGED <<lastRec, indexed, counter, valueCalls, valueRestarts>>

\* A value that is taken, a rule, a hook, a duplicate key, a deadlock.
Refuse(c) ==
  /\ ~On(c, "idle")
  /\ call' = [call EXCEPT ![c] = NoCall]
  /\ UNCHANGED <<recs, lastRec, indexed, counter, valueCalls, valueRestarts, givenValues>>

\* No request on other records waits for a deletion by key.
Discard ==
  /\ valueCalls < MaxValueCalls
  /\ valueCalls' = valueCalls + 1
  /\ \E i \in Live :
       /\ \A c \in Writers : On(c, "commit") => i \notin call[c].ids
       /\ recs' = [recs EXCEPT ![i] = NoRec]
  /\ UNCHANGED <<lastRec, indexed, counter, call, valueRestarts, givenValues>>

\* The counters are in memory only.
RestartServer ==
  /\ valueRestarts < MaxValueRestarts
  /\ valueRestarts' = valueRestarts + 1
  /\ counter' = 0
  /\ call' = [c \in Writers |-> NoCall]
  /\ UNCHANGED <<recs, lastRec, indexed, valueCalls, givenValues>>

FieldValuesNext ==
  \/ \E c \in Writers :
       Submit(c) \/ Fill(c) \/ Check(c) \/ Store(c) \/ CommitValues(c) \/ Refuse(c)
  \/ Discard \/ RestartServer

FieldValuesSpec == FieldValuesInit /\ [][FieldValuesNext]_valueVars

-----------------------------------------------------------------------------
(***************************************************************************)
(* Properties.                                                             *)
(***************************************************************************)
ValuesTypeOK ==
  /\ recs \in [RecIds -> Recs \cup {NoRec}] /\ lastRec \in Nat /\ counter \in Nat
  /\ \A i \in Live : i <= lastRec
  /\ \A c \in Writers : call[c].ids \subseteq RecIds /\ call[c].values \in Recs

\* What is promised to be a record's own.  A number: no other record has it,
\* overlapping requests or not, but for those that one and the same updateMany
\* gave it to and those it was given to before a restart.  A place: but for
\* requests that overlapped, and updateMany.  A code: the same of the requests
\* that gave it, and where there is an index no exception.
NumbersApart(i, j) ==
  recs[i].number = recs[j].number /\ givenIn[i] = givenIn[j] =>
    i \in givenWith[j] /\ j \in givenWith[i]
PlacesApart(i, j) == recs[i].place = recs[j].place => {i, j} \cap loose # {}
CodesApart(i, j) ==
  recs[i].code = recs[j].code /\ recs[i].code # NoCode =>
    ~indexed /\ {i, j} \cap looseCodes # {}

ValuesApart ==
  \A i \in Live : \A j \in Live \ {i} :
    NumbersApart(i, j) /\ PlacesApart(i, j) /\ CodesApart(i, j)

\* docs/元数据/需求描述/字段/09-高级类型-05-自动序列.md:64: a number is given when
\* the record is created and may not be changed afterwards.
NumberKept == \A i \in Live : recs[i].number = firstNumber[i]
=============================================================================
