----------------------------- MODULE RoundTrip -----------------------------
(***************************************************************************)
(* The way of a value from a client into the database and back: the body   *)
(* and the filter of a request (controller/metadata/crud_controller.go,    *)
(* resource/metadata.go), computed fields and hooks and validation         *)
(* (repository_generic.go, cel_validator.go), ToStoreValue, MySQL's        *)
(* columns, FromStoreValue (field.go, fields_*.go) and the answer.         *)
(*                                                                         *)
(* A collection has a field of some type, a number "input" and a formula   *)
(* "total" of it.  Clients create, update, read and destroy records, and   *)
(* send back what they have read.  One request follows the other: what     *)
(* concurrent ones do to each other is in FieldValues and Access.          *)
(***************************************************************************)
EXTENDS Integers, FiniteSets

CONSTANTS
  Schemas,        \* what the collection may be like
  Words,          \* texts; the rules of the field refuse "bad"
  Inputs,         \* values of "input"; the rule of the table refuses those above Limit
  Limit,
  RecordIds,
  Exact,          \* up to here a float64 holds all integers (2^53), then the even ones
  Keys, FirstKey, \* metadata.encryptKey
  MaxTrips        \* bound: requests and restarts

\* Values in Go, in JSON and in columns.
Nil == <<"nil">>
Text(w) == <<"text", w>>
Number(n) == <<"number", n>>
Bool(b) == <<"bool", b>>
Object(o) == <<"object", o>>          \* a decoded JSON object or array
Digits(n) == <<"digits", n>>          \* the text of a number
Sum(v) == <<"sum", v>>                \* the text of what the formula gives
Hash(v) == <<"hash", v>>              \* SHA-256 in 64 hexadecimal digits
Cipher(k, v) == <<"cipher", k, v>>    \* AES-GCM under key k, in base64
Json(v) == <<"json", v>>              \* the text that encodes v
Base64(v) == <<"base64", v>>

\* There is no row, and nothing that it means.
NoValue == <<"none">>
NoRow == [field |-> NoValue, input |-> NoValue, total |-> NoValue]

Textual == {"text", "digits", "sum", "hash", "cipher", "json", "base64"}

Types == {"string", "choice", "url", "integer", "boolean", "password", "encrypted", "json",
          "multiSelect", "point", "time", "uuid"}

\* The options of the field, and what else of the collection bears on it.
FieldSchemas == [type : Types, required : BOOLEAN, formula : BOOLEAN,
                 tableRule : BOOLEAN, hook : {"none", "beforeValidate", "beforeSave"}]

ASSUME RoundTripAssumption ==
  /\ Schemas \subseteq FieldSchemas
  /\ "bad" \in Words /\ Inputs \subseteq Nat \ {0}
  /\ RecordIds \subseteq Nat \ {0} /\ Exact \in Nat \ {0} /\ Exact % 2 = 0
  /\ FirstKey \in Keys /\ MaxTrips \in Nat

VARIABLES
  schema,       \* what the process knows of the collection
  stored,       \* the rows of the table
  key,          \* the key that the process runs with
  copy,         \* what a client has read: an id and a record (and what was meant), or nothing
  trips,
  meant,        \* history: what clients have made of each record's field
  emptied,      \* history: records whose required field an update has emptied
  bypassed,     \* history: records with a text that was sent as a number
  sealed,       \* history: records whose ciphertext was taken for the text
  blurred       \* history: a number beyond Exact was sent as a JSON number

tripVars == <<schema, stored, key, copy, trips, meant, emptied, bypassed, sealed, blurred>>

NoCopy == [id |-> 0, record |-> NoRow, meant |-> NoValue]

RoundTripInit ==
  /\ schema \in Schemas
  /\ stored = [i \in RecordIds |-> NoRow]
  /\ key = FirstKey
  /\ copy = NoCopy /\ trips = 0
  /\ meant = [i \in RecordIds |-> NoValue]
  /\ emptied = {} /\ bypassed = {} /\ sealed = {} /\ blurred = FALSE

-----------------------------------------------------------------------------
(***************************************************************************)
(* A request.                                                              *)
(***************************************************************************)
\* A float64.  Half-way cases go to the even mantissa.
Rounded(n) ==
  IF n <= Exact \/ n % 2 = 0 THEN n
  ELSE IF (n \div 2) % 2 = 0 THEN n - 1 ELSE n + 1

\* json.Unmarshal makes every number a float64.
Decoded(v) == IF v[1] = "number" THEN Number(Rounded(v[2])) ELSE v

IsEmpty(v) == v \in {Nil, Text(""), Number(0)}

\* What clients send for the field; the web client sends large numbers as text.
Given ==
  CASE schema.type = "integer" -> {Nil, Number(0), Number(Exact + 1), Digits(Exact + 1)}
    [] schema.type = "boolean" -> {Nil, Bool(TRUE), Bool(FALSE)}
    [] schema.type = "json" -> {Nil, Object("shape"), Json(Object("shape")), Text("bad")}
    [] schema.type \in {"multiSelect", "point"} ->
         {Nil, Object("shape"), Object("other"), Json(Object("shape"))}
    [] schema.type = "string" -> {Nil, Text(""), Number(1)} \cup {Text(w) : w \in Words}
    [] OTHER -> {Nil, Text("")} \cup {Text(w) : w \in Words}

\* Any part of the record.
Bodies ==
  UNION {[{"field"} -> Given], {[f \in {"input"} |-> Number(n)] : n \in Inputs},
         {[f \in {"field", "input"} |-> IF f = "field" THEN v ELSE Number(n)] :
            v \in Given, n \in Inputs}}

With(values, f, v) == [g \in DOMAIN values \cup {f} |-> IF g = f THEN v ELSE values[g]]

\* Values that cannot be brought to what they should be make a request fail.
Failed == <<>>
Proper(values) == values # Failed

\* applyAutoFields.  A formula is evaluated over the values of the request: if
\* one that it reads is not there, or is no number, evaluation fails.
AutoFields(values) ==
  LET lacking == "field" \notin DOMAIN values \/ IsEmpty(values["field"])
      generated == IF schema.type = "uuid" /\ lacking
                   THEN With(values, "field", Text("new")) ELSE values IN
  IF ~schema.formula THEN generated
  ELSE IF "input" \in DOMAIN values /\ values["input"][1] = "number"
  THEN With(generated, "total", Sum(values["input"]))
  ELSE Failed

\* A script of the collection changes what it is given.
Hooked(values, place) ==
  IF schema.hook # place \/ values = Failed THEN values
  ELSE LET changed == With(values, "input", Number(Limit + 1)) IN
       IF schema.type = "string" THEN With(changed, "field", Text("bad")) ELSE changed

\* ValidateValue: patterns and lengths are asked of strings only.
FitsPattern(v) == v \notin {Text("bad"), Digits(1)}

\* Options, addresses and colours are asked of any value's text.
FitsChoice(v) == v[1] = "text" /\ v # Text("bad")
FitsAddress(v) == v[1] = "text" /\ v # Text("bad")

\* GeoJSON, as an object or as its text.
FitsShape(v) == v \in {Object("shape"), Json(Object("shape"))}

Fits(v) ==
  CASE schema.type = "string" -> FitsPattern(v)
    [] schema.type = "choice" -> FitsChoice(v)
    [] schema.type = "url" -> FitsAddress(v)
    [] schema.type = "point" -> FitsShape(v)
    [] OTHER -> TRUE

\* ValidateRecord: the rules of the fields that are carried and not empty, and
\* the rules of the table, over the values of the request.
Valid(values, isUpdate) ==
  /\ schema.required /\ ~isUpdate =>
       "field" \in DOMAIN values /\ ~IsEmpty(values["field"])
  /\ "field" \in DOMAIN values => IsEmpty(values["field"]) \/ Fits(values["field"])
  /\ schema.tableRule =>
       /\ "input" \in DOMAIN values
       /\ values["input"][1] = "number" /\ values["input"][2] <= Limit

-----------------------------------------------------------------------------
(***************************************************************************)
(* The field in the database.                                              *)
(***************************************************************************)
\* (slip) What is hashed is hashed again.
HashedNever(v) == FALSE

\* 64 hexadecimal digits are taken for a hash.
Hashed(v) == v[1] = "hash"

HashOf(v) == IF v = Text("") \/ Hashed(v) THEN v ELSE Hash(v)

\* EncryptAESGCM.
Sealed(v) == IF v = Text("") THEN v ELSE Cipher(key, v)

\* Text is stored as the JSON that it may be, anything else is encoded;
JsonText(v) == IF v[1] \in Textual THEN v ELSE Json(v)

\* lists and shapes are always encoded.
Encoded(v) == Json(v)

ToStore(v) ==
  IF v = Nil THEN Nil ELSE
  CASE schema.type = "password" -> HashOf(v)
    [] schema.type = "encrypted" -> Sealed(v)
    [] schema.type = "json" -> JsonText(v)
    [] schema.type \in {"multiSelect", "point"} -> Encoded(v)
    [] OTHER -> v

\* What MySQL, in strict mode, has in the column then: a JSON column takes only
\* JSON, a TIME only a time, a number only digits.  The driver takes no object.
Column(v) ==
  IF v = Nil THEN {Nil} ELSE
  CASE schema.type \in {"json", "multiSelect", "point"} -> IF v[1] = "json" THEN {v} ELSE {}
    [] schema.type = "integer" ->
         IF v[1] = "number" THEN {v} ELSE IF v[1] = "digits" THEN {Number(v[2])} ELSE {}
    [] schema.type = "boolean" -> IF v[1] = "bool" THEN {Number(IF v[2] THEN 1 ELSE 0)} ELSE {}
    [] schema.type = "time" -> IF v[1] = "text" /\ v[2] # "" THEN {v} ELSE {}
    [] OTHER -> IF v[1] = "number" THEN {Digits(v[2])} ELSE IF v[1] \in Textual THEN {v} ELSE {}

Unmarshalled(v) == v[2]

\* What cannot be decrypted is given as it is.
Opened(v) == IF v[1] = "cipher" /\ v[2] = key THEN v[3] ELSE v

\* Text and numbers; of a TIME the driver gives bytes, which stay bytes.
Plainly(v) ==
  CASE schema.type = "boolean" -> Bool(v[2] # 0)
    [] schema.type = "time" -> Base64(v)
    [] OTHER -> v

\* scanRows.
FromStore(v) ==
  IF v = Nil THEN Nil ELSE
  CASE schema.type = "encrypted" -> Opened(v)
    [] schema.type \in {"multiSelect", "point"} -> Unmarshalled(v)
    [] OTHER -> Plainly(v)

\* What stands in a column, whatever its form.
Meaning(v) ==
  IF v = Nil THEN Nil ELSE
  CASE schema.type = "boolean" -> Bool(v[2] # 0)
    [] v[1] \in {"hash", "json"} -> v[2]
    [] v[1] = "cipher" -> v[3]
    [] v[1] = "digits" -> Number(v[2])
    [] OTHER -> v

\* And what a client means by what it sends.
MeantBy(v) ==
  CASE v[1] = "digits" -> Number(v[2])
    [] schema.type = "json" /\ v[1] = "json" -> v[2]
    [] OTHER -> v

-----------------------------------------------------------------------------
(***************************************************************************)
(* Requests.  Each is one transaction.                                     *)
(***************************************************************************)
Saved == {i \in RecordIds : stored[i] # NoRow}
Blurs(v) == v[1] = "number" /\ v[2] > Exact
Plain(body) == [f \in DOMAIN body |-> Decoded(body[f])]

\* The values that are stored in the end.
Prepared(body, isUpdate) ==
  LET hooked == Hooked(AutoFields(body), "beforeValidate") IN
  IF Proper(hooked) /\ Valid(hooked, isUpdate) THEN Hooked(hooked, "beforeSave") ELSE Failed

Stays(i) == IF stored[i] = NoRow THEN [field |-> Nil, input |-> Nil, total |-> Nil] ELSE stored[i]

\* An id that the client gives is a float64, too; another one comes from NextID.
IdsFor(given) ==
  IF given = {} THEN RecordIds ELSE {Rounded(n) : n \in given} \cap RecordIds

\* A client may name the fields to be written (whitelist) or not to be written
\* (blacklist).
Listed(body, only) == [f \in DOMAIN body \cap only |-> body[f]]

\* The id of a filter has become a float64 (decodeInto); MySQL compares a BIGINT
\* with it as integers or as floats.
Found(i, floats) ==
  {j \in Saved : j = Rounded(i) \/ (floats /\ Rounded(j) = Rounded(i))}

\* The column of a number takes the text of one.
Numeral(v) == IF v[1] = "digits" THEN Number(v[2]) ELSE v

\* INSERT and UPDATE.
Put(i, values) ==
  \E c \in IF "field" \in DOMAIN values THEN Column(ToStore(values["field"]))
          ELSE {Stays(i).field} :
    stored' = [stored EXCEPT ![i] =
      [field |-> c,
       input |-> IF "input" \in DOMAIN values THEN Numeral(values["input"]) ELSE Stays(i).input,
       total |-> IF "total" \in DOMAIN values THEN values["total"] ELSE Stays(i).total]]

Count == trips < MaxTrips /\ trips' = trips + 1

\* History of a write that carries v for the field, or what the server made of it.
Notes(i, body, values) ==
  LET carried == "field" \in DOMAIN values
      own == "field" \in DOMAIN body /\ ~IsEmpty(body["field"])
      v == IF own /\ schema.hook = "none" THEN body["field"] ELSE values["field"] IN
  /\ meant' = [meant EXCEPT ![i] =
       IF carried THEN MeantBy(v) ELSE IF meant[i] = NoValue THEN Nil ELSE meant[i]]
  /\ bypassed' = IF carried THEN IF v[1] = "number" THEN bypassed \cup {i} ELSE bypassed \ {i}
                 ELSE bypassed
  /\ emptied' = IF carried /\ IsEmpty(v) THEN emptied \cup {i} ELSE emptied
  /\ sealed' = IF carried THEN sealed \ {i} ELSE sealed

Create ==
  /\ Count
  /\ \E body \in Bodies, given \in {{}} \cup {{n} : n \in RecordIds} :
       LET values == Prepared(Plain(body), FALSE) IN
       \E i \in IdsFor(given) :
         /\ stored[i] = NoRow /\ meant[i] = NoValue
         /\ Proper(values)
         /\ Put(i, values)
         /\ Notes(i, body, values)
         /\ blurred' = (blurred \/ (\E n \in given : n > Exact)
                        \/ \E f \in DOMAIN body : Blurs(body[f]))
  /\ UNCHANGED <<schema, key, copy>>

\* The id is in the path, and exact.
Modify ==
  /\ Count
  /\ \E i \in Saved, body \in Bodies, only \in {{"field", "input"}, {"field"}, {"input"}} :
       LET listed == Listed(body, only)
           values == Prepared(Plain(listed), TRUE) IN
       /\ Proper(values) /\ DOMAIN listed # {}
       /\ Put(i, values)
       /\ Notes(i, listed, values)
       /\ blurred' = (blurred \/ \E f \in DOMAIN listed : Blurs(listed[f]))
  /\ UNCHANGED <<schema, key, copy>>

\* Get, List.
Read ==
  /\ Count
  /\ \E i \in Saved :
       copy' = [id |-> i, meant |-> meant[i],
                record |-> [stored[i] EXCEPT !.field = FromStore(@)]]
  /\ UNCHANGED <<schema, stored, key, meant, emptied, bypassed, sealed, blurred>>

\* The web client makes texts of numbers that it cannot hold.
Sent(web, v) == IF web /\ Blurs(v) THEN Digits(v[2]) ELSE v

\* The client sends back what it has read.
SendBack ==
  /\ Count /\ copy.id \in Saved
  /\ \E web \in BOOLEAN :
       LET i == copy.id
           body == [f \in {"field", "input", "total"} |-> Sent(web, copy.record[f])]
           values == Prepared(Plain(body), TRUE) IN
       /\ Proper(values)
       /\ Put(i, values)
       /\ blurred' = (blurred \/ \E f \in DOMAIN body : Blurs(body[f]))
       /\ sealed' = IF schema.type = "encrypted" /\ body["field"][1] = "cipher"
                    THEN sealed \cup {i} ELSE sealed
       /\ meant' = [meant EXCEPT ![i] =
            IF schema.hook = "none" \/ schema.type # "string" THEN copy.meant
            ELSE MeantBy(values["field"])]
       /\ emptied' = IF IsEmpty(values["field"]) THEN emptied \cup {i} ELSE emptied
       /\ bypassed' = bypassed \ {i}
  /\ copy' = NoCopy
  /\ UNCHANGED <<schema, key>>

\* DELETE /:id, and DELETE with a filter of one id.
Destroy ==
  /\ Count
  /\ \E i \in Saved, bulk \in BOOLEAN, floats \in BOOLEAN :
       LET gone == IF bulk THEN Found(i, floats) ELSE {i} IN
       /\ stored' = [j \in RecordIds |-> IF j \in gone THEN NoRow ELSE stored[j]]
       /\ meant' = [meant EXCEPT ![i] = NoValue]
       /\ blurred' = (blurred \/ (bulk /\ i >= Exact))
       /\ emptied' = emptied \ gone /\ bypassed' = bypassed \ gone /\ sealed' = sealed \ gone
  /\ UNCHANGED <<schema, key, copy>>

\* The server is started again, perhaps with another key.  The options of the
\* field and the scripts have rows; the rules of the table were in memory only.
Restart ==
  /\ Count
  /\ key' \in Keys
  /\ schema' = [schema EXCEPT !.tableRule = FALSE]
  /\ UNCHANGED <<stored, copy, meant, emptied, bypassed, sealed, blurred>>

RoundTripNext == Create \/ Modify \/ Read \/ SendBack \/ Destroy \/ Restart

RoundTripSpec == RoundTripInit /\ [][RoundTripNext]_tripVars
-----------------------------------------------------------------------------
(***************************************************************************)
(* Properties.                                                             *)
(***************************************************************************)
RoundTripTypeOK ==
  /\ \A i \in Saved :
       stored[i].field \in Column(stored[i].field) \cup {Number(0), Number(1)}
  /\ copy.id \in RecordIds \cup {0} /\ key \in Keys
  /\ emptied \cup bypassed \cup sealed \subseteq RecordIds

\* Numbers that a float64 cannot hold are the exception, and ciphertext that was
\* read after the key was changed.
MeaningKept ==
  ~blurred =>
    \A i \in RecordIds :
      /\ meant[i] = NoValue <=> stored[i] = NoRow
      /\ i \in Saved \ sealed => Meaning(stored[i].field) = meant[i]

\* The formula is that of the stored number, unless a script changed the number
\* after it was computed.
RulesMet ==
  \A i \in Saved :
    LET row == stored[i]  v == FromStore(row.field) IN
    /\ schema.required /\ schema.hook # "beforeSave" => ~IsEmpty(v) \/ i \in emptied
    /\ schema.hook # "beforeSave" /\ i \notin bypassed => IsEmpty(v) \/ Fits(v)
    /\ schema.tableRule /\ schema.hook # "beforeSave" => row.input[2] <= Limit
    /\ schema.formula /\ schema.hook = "none" => row.total = Sum(row.input)

\* Whatever its form in the column, a field keeps what a client has made of it:
\* reading it, sending it back whole or in part, and what is done with other
\* fields and records change nothing, nor does a record go that nobody
\* destroys.  And a record meets the rules of its collection, whatever part of
\* it was written and whatever a script did before validation - those of the
\* table until a restart has lost them.
RecordsHold == MeaningKept /\ RulesMet
=============================================================================
