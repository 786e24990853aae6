--------------------------- MODULE OneTimeTokens ---------------------------
(***************************************************************************)
(* The contract of auth.Store (service/auth/types.go): a refresh token is  *)
(* good for one exchange, which consumes it and saves its replacement in   *)
(* one step, and a token that was consumed or revoked is never good again. *)
(* A login goes on through exchanges only, so it ends for good when its    *)
(* token is revoked.                                                       *)
(***************************************************************************)
CONSTANTS
  Tokens,
  None          \* the login of a token that was not issued

VARIABLES
  live,         \* tokens that can be exchanged
  spent,        \* tokens consumed or revoked
  family        \* the login a token belongs to, named after its first token

vars == <<live, spent, family>>

Init ==
  /\ live = {} /\ spent = {}
  /\ family = [t \in Tokens |-> None]

New(t) == t \notin live \cup spent

\* CreateRefreshSession
Issue(t) ==
  /\ New(t)
  /\ live' = live \cup {t}
  /\ family' = [family EXCEPT ![t] = t]
  /\ UNCHANGED spent

\* RotateRefreshSession
Exchange(t, n) ==
  /\ t \in live /\ New(n)
  /\ live' = (live \ {t}) \cup {n}
  /\ family' = [family EXCEPT ![n] = family[t]]
  /\ spent' = spent \cup {t}

\* RevokeRefreshSession
Revoke(t) ==
  /\ t \in live
  /\ live' = live \ {t}
  /\ spent' = spent \cup {t}
  /\ UNCHANGED family

Next ==
  \/ \E t \in Tokens : Issue(t) \/ Revoke(t)
  \/ \E t, n \in Tokens : Exchange(t, n)

Spec == Init /\ [][Next]_vars
=============================================================================
