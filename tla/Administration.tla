--------------------------- MODULE Administration ---------------------------
(***************************************************************************)
(* The controllers of controller/metadata over three parts of a server:    *)
(* its scripts, the fields and indexes of a collection, and the values of  *)
(* the records of one.  Each has locks, rows and memory of its own, and    *)
(* the system takes their steps in any order.                              *)
(***************************************************************************)
EXTENDS ScriptRuntime, CollectionSchema, RoundTrip

adminVars == <<scriptVars, schemaVars, tripVars>>

AdminInit == ScriptInit /\ SchemaInit /\ RoundTripInit

ScriptsMove == ScriptNext /\ UNCHANGED <<schemaVars, tripVars>>
SchemaMoves == SchemaNext /\ UNCHANGED <<scriptVars, tripVars>>
ValuesMove == RoundTripNext /\ UNCHANGED <<scriptVars, schemaVars>>

AdminNext == ScriptsMove \/ SchemaMoves \/ ValuesMove

AdminSpec == AdminInit /\ [][AdminNext]_adminVars

\* The types of the three.
AdminTypeOK == ScriptTypeOK /\ SchemaTypeOK /\ RoundTripTypeOK
=============================================================================
