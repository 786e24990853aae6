---------------------------- MODULE MCWriteUnit ----------------------------
(***************************************************************************)
(* Small instances of WriteUnit.  When every call has been used and every  *)
(* worker is idle the instance has nothing left to do; it is then allowed  *)
(* to stutter, so that TLC's deadlock check finds requests that wait on    *)
(* each other and nothing else.                                            *)
(***************************************************************************)
EXTENDS WriteUnit, TLC

Done ==
  /\ \A w \in Workers : cur[w] = NoCall
  /\ \A c \in Calls : pc[c] # "unused"
  /\ UNCHANGED vars

MCNext == Next \/ Done

MCSpec == Init /\ [][MCNext]_vars

\* The workers are interchangeable, a symmetry that a run with liveness cannot use:
\* there the first request is always the same worker's.
First == CHOOSE w \in Workers : TRUE
InTurn ==
  (\A c \in Calls : pc[c] = "unused") => \A w \in Workers \ {First} : cur'[w] = NoCall

FairNext ==
  \/ Next /\ InTurn
  \/ Done

MCFairSpec == Init /\ [][FairNext]_vars /\ \A w \in Workers : WF_vars(Proceed(w))

\* The workers are interchangeable.
WorkerSymmetry == Permutations(Workers)
=============================================================================
