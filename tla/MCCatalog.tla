----------------------------- MODULE MCCatalog -----------------------------
(***************************************************************************)
(* Small instances of Catalog and Authority.  They have no state in        *)
(* common, so it is enough to look at the behaviours in which one of them, *)
(* the one in focus, takes all the steps.                                  *)
(***************************************************************************)
EXTENDS Catalog, Authority, TLC

CONSTANTS
  p, q, f, g, w, x, y,
  Foci,
  MaxEvents  \* bound: requests and faults of Catalog, together

VARIABLE focus

\* Two collections, each of which may have a field that refers to the other,
\* and an index of each kind; and a field that one of them may get unasked.
MCNames == {p, q}
MCFields == {f, g, w}
MCIndexes == {x, y}
MCUnique == {y}
MCOn == (x :> f) @@ (y :> g)
MCTarget == (f :> p) @@ (g :> q) @@ (w :> None)
MCInputs == {{f, x}, {f, w, x}, {g, y}}

\* Names, and patterns of them; scripts that declare nothing, an action of their
\* own, and that of a built-in handler.
MCVocabulary ==
  {"orders", "list", "custom", "report", "count", "meta.fields", "create", "auth.users",
   "auth.roles", "assign", "acl.policies", "update", "destroy", "admin", "clerk"}
MCUnder == [n \in MCVocabulary \cup {"*"} |-> IF n = "*" THEN MCVocabulary ELSE {n}]
MCDeclared == ("plain" :> <<>>) @@ ("named" :> <<"orders", "report">>)
              @@ ("clash" :> <<"orders", "count">>)
MCOffers == {Policy("role", "clerk", "orders", "*", "none", TRUE),
             Policy("role", "clerk", "orders", "*", "unsupported", TRUE)}
MCTies == {<<2, 1>>, <<2, 2>>}
MCOrders == [owner : {1, Nobody}, role : {"admin", "clerk"}]

\* An empty database, and one with an administrator, a clerk, a policy for
\* everybody's own records and one for those of each role.
MCAccounts == {NoAccounts,
  [users |-> (1 :> [name |-> "root", enabled |-> TRUE]) @@ (2 :> [name |-> "ann", enabled |-> TRUE]),
   roles |-> (1 :> "admin") @@ (2 :> "clerk"), links |-> {<<1, 1>>, <<2, 2>>},
   rules |-> (1 :> AdminRule) @@ (2 :> Policy("public", "", "orders", "*", "own", TRUE))
             @@ (3 :> Policy("role", "*", "orders", "list", "roles", TRUE))]}

MCInit ==
  /\ Init /\ AuthorityInit /\ focus \in Foci
  /\ focus # "authority" => accounts = NoAccounts

\* Two instances of Catalog.  In "presets" the field comes unasked, and there are two
\* events fewer, for it multiplies the order of the statements.
InCatalog == focus \in {"catalog", "presets"}
EventsLeft == calls + faults < IF focus = "presets" THEN MaxEvents - 2 ELSE MaxEvents

\* What is asked for in either.
Asked ==
  \A a \in Admins : At(a, "create table") /\ f \in Top(a).want =>
    (w \in Top(a).want <=> focus = "presets")

Accounted == {u \in UserIds : accounts.users[u] # Absent}

\* All requests have been made and answered.
Done ==
  /\ \/ InCatalog /\ (calls = MaxCalls \/ ~EventsLeft) /\ \A a \in Admins : At(a, "idle")
     \/ /\ focus = "authority" /\ errands >= Cardinality(Accounted)
        /\ \A a \in Askers : Stage(a, "idle")
  /\ UNCHANGED <<vars, authorityVars, focus>>

\* Bounds: a request arrives when all processes are up and all users have
\* logged in who can, and there are no more requests than users.
AuthoritySteps ==
  /\ AuthorityNext
  /\ errands' > errands =>
       /\ \A n \in Processes : IsAt(n, "up")
       /\ \A u \in UserIds : ~MayLogin(u)
       /\ errands < Cardinality(Accounted)

MCNext ==
  \/ /\ InCatalog /\ Next /\ (EventsLeft \/ UNCHANGED <<calls, faults>>)
     /\ UNCHANGED <<authorityVars, focus>> /\ Asked'
  \/ focus = "authority" /\ AuthoritySteps /\ UNCHANGED <<vars, focus>>
  \/ Done

MCSpec == MCInit /\ [][MCNext]_<<vars, authorityVars, focus>>
Symmetry == Permutations(Admins)
=============================================================================
