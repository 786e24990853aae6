------------------------------ MODULE MCAdmin ------------------------------
(***************************************************************************)
(* A small instance of Administration.  Its parts have no state in common, *)
(* so that it is enough to look at the behaviours in which one of them,    *)
(* the one in focus, takes all the steps.                                  *)
(***************************************************************************)
EXTENDS Administration, TLC

CONSTANTS p, r, first, second, route, broken, f1, f2, f3, k, i1, i2, l1, l2

VARIABLE focus

\* Two hooks at one place, in a fixed order, one script of the custom API,
\* and one that does not compile.
MCDefinitions == {first, second, route, broken}
MCSlot == (first :> p) @@ (second :> p) @@ (route :> r) @@ (broken :> p)
MCPriority == (first :> 1) @@ (second :> 2) @@ (route :> 0) @@ (broken :> 0)
MCCompiles == [d \in MCDefinitions |-> d # broken]

\* An index of one field, and one of two.
MCOn == (i1 :> {f1}) @@ (i2 :> {f1, f2})
MCOwn == (f1 :> i1) @@ (f2 :> NoField) @@ (k :> NoField)

\* Each type with a formula, and what each rule alone and each hook does.
Schema(t, r1, formula, rule, hook) ==
  [type |-> t, required |-> r1, formula |-> formula, tableRule |-> rule, hook |-> hook]
MCSchemas ==
  {Schema(t, FALSE, TRUE, FALSE, "none") : t \in Types}
  \cup {Schema(t, TRUE, x, ~x, "none") : t \in {"string", "choice", "integer"}, x \in BOOLEAN}
  \cup {Schema("string", TRUE, FALSE, TRUE, hook) : hook \in {"beforeValidate", "beforeSave"}}
  \cup {Schema("encrypted", FALSE, TRUE, TRUE, "none")}

\* (Labels are interchangeable.  What is not in focus has one initial state.)
MCInit ==
  /\ AdminInit /\ metaRow = l1
  /\ focus \in {"scripts", "schema", "trips"}
  /\ focus # "trips" => schema = Schema("string", FALSE, TRUE, FALSE, "none")

\* All requests have been made and answered, or Bootstrap has failed.  (A
\* request on records that is refused changes nothing.)
Done ==
  /\ \/ /\ focus = "scripts"
        /\ scriptCalls = MaxScriptCalls \/ server = "refused"
        /\ \A a \in ScriptAdmins : AdminAt(a, "idle")
        /\ \A c \in Callers : CallerAt(c, "idle")
     \/ /\ focus = "schema"
        /\ schemaCalls = MaxSchemaCalls
        /\ \A a \in SchemaAdmins : Doing(a, "idle")
     \/ focus = "trips"
  /\ UNCHANGED <<adminVars, focus>>

MCNext ==
  \/ focus = "scripts" /\ ScriptsMove /\ UNCHANGED focus
  \/ focus = "schema" /\ SchemaMoves /\ UNCHANGED focus
  \/ focus = "trips" /\ ValuesMove /\ UNCHANGED focus
  \/ Done

MCSpec == MCInit /\ [][MCNext]_<<adminVars, focus>>
Symmetry == Permutations(ScriptAdmins) \cup Permutations(SchemaAdmins)
=============================================================================
