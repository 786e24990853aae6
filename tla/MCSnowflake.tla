---------------------------- MODULE MCSnowflake ----------------------------
(***************************************************************************)
(* Small instances of Snowflake and TestClient.  They have no state in     *)
(* common: the one in focus takes all the steps.  The clock stops when all *)
(* the ids asked for have been given; the instance may then stutter.       *)
(***************************************************************************)
EXTENDS Snowflake, TestClient, TLC

VARIABLE focus  \* "keys" or "client"

mcVars == <<vars, clientVars, focus>>

\* (What is not in focus has one initial state.  The things of the client are alike:
\* one is there, or all are.)
MCInit ==
  /\ Init /\ ClientInit /\ focus \in {"keys", "client"}
  /\ focus = "keys" => kind = "records" /\ Present = {}
  /\ focus = "client" => machineID = 0 /\ Present \in {{CHOOSE i \in Ids : TRUE}, Ids}

Done == Running = {} /\ UNCHANGED vars

\* All calls have been made and answered.
ClientDone ==
  /\ Len(calls) = MaxCalls /\ \A n \in DOMAIN calls : calls[n].stage = "returned"
  /\ UNCHANGED clientVars

MCNext ==
  \/ focus = "keys" /\ (Next \/ Done) /\ UNCHANGED <<clientVars, focus>>
  \/ focus = "client" /\ (ClientNext \/ ClientDone) /\ UNCHANGED <<vars, focus>>

InFocus(A) == focus = "keys" /\ A /\ UNCHANGED <<clientVars, focus>>

MCSpec == MCInit /\ [][MCNext]_mcVars
MCFairSpec ==
  /\ MCSpec
  /\ \A w \in Workers : WF_mcVars(InFocus(Step(w))) /\ SF_mcVars(InFocus(Acquire(w)))
  /\ WF_mcVars(InFocus(Tick))
=============================================================================
