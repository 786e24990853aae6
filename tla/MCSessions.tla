----------------------------- MODULE MCSessions -----------------------------
(***************************************************************************)
(* Small instances of Sessions, NestedWrites and Files.  They have no      *)
(* state in common, so a behaviour of them is any interleaving of one of   *)
(* each: it is enough to look at those in which one of them, the one in    *)
(* focus, takes all the steps.                                             *)
(***************************************************************************)
EXTENDS Sessions, NestedWrites, Files, TLC

CONSTANTS b, k, z, h, g, m, a, c, d, q, s1, s2, s3, t1, t2, t3, t4, t5, t6

VARIABLE focus

\* A belongsTo in its own column, one in another column, and one in none; a hasMany
\* and a hasOne with one foreign key; a through table, and an array.
MCKind == (b :> "belongsTo") @@ (k :> "belongsTo") @@ (z :> "belongsTo") @@ (h :> "hasMany")
  @@ (g :> "hasOne") @@ (m :> "belongsToMany") @@ (a :> "belongsToManyArray")
MCKeyGiven ==
  (b :> Unset) @@ (k :> c) @@ (z :> d) @@ (h :> q) @@ (g :> q) @@ (m :> Unset) @@ (a :> Unset)
MCLists == {<<{}, 0>>, <<{t1}, 0>>, <<{t1, t2}, 0>>, <<{t3}, 0>>, <<{}, 1>>, <<{t2}, 1>>}

\* As many links as a page holds, and more; and an array with an id that is not there.
MCFirstKept ==
  {[there |-> {s1, s2, t1, t2},
    links |-> {<<b, s1, t1>>, <<k, s1, t1>>, <<c, s1, t1>>, <<q, s1, t1>>, <<q, s1, t2>>,
               <<Place(m), s1, t1>>, <<Place(m), s2, t1>>, <<a, s1, t2>>, <<a, s1, t3>>}],
   [there |-> {s1, s2, t1, t2, t6},
    links |-> {<<q, s1, t1>>, <<q, s1, t2>>, <<q, s1, t6>>, <<Place(m), s1, t2>>, <<a, s2, t1>>}]}

\* (What is not in focus has one initial state.)
MCInit ==
  /\ Init /\ NestedInit /\ FilesInit
  /\ focus \in {"sessions", "nested", "files"}
  /\ focus # "nested" => kept.there = {s1, s2, t1, t2}

\* No token is left to draw and every request has been answered.
SessionsDone == \A x \in Clients : At(x, "idle")

MCNext ==
  \/ /\ focus = "sessions"
     /\ Next \/ (SessionsDone /\ UNCHANGED vars)
     /\ UNCHANGED <<nestedVars, fileVars, focus>>
  \/ /\ focus = "nested"
     /\ NestedNext \/ (write.at = "idle" /\ UNCHANGED nestedVars)
     /\ UNCHANGED <<vars, fileVars, focus>>
  \/ /\ focus = "files"
     /\ FilesNext
     /\ UNCHANGED <<vars, nestedVars, focus>>

mcVars == <<vars, nestedVars, fileVars, focus>>
MCServe(x) == focus = "sessions" /\ Serve(x) /\ UNCHANGED <<nestedVars, fileVars, focus>>
MCFairSpec == MCInit /\ [][MCNext]_mcVars /\ \A x \in Clients : SF_mcVars(MCServe(x))
=============================================================================
