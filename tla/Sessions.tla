------------------------------ MODULE Sessions ------------------------------
(***************************************************************************)
(* Refresh sessions: Login, Refresh and Logout of auth.Service on the      *)
(* MySQL store (service/auth/service.go, service/security/store.go).       *)
(*                                                                         *)
(* Clients are requests in flight; the tokens a browser was given are      *)
(* shared by its tabs, so any client may present any of them, at once and  *)
(* more than once.  A login begins a family of tokens, each exchanged for  *)
(* the next.  Requests of the same token meet at the lock that an UPDATE   *)
(* takes on its row until the transaction ends.                            *)
(***************************************************************************)
EXTENDS Naturals

CONSTANTS
  Clients,      \* requests in flight
  Tokens,       \* token ids, 1..n, in the order in which they are drawn
  None,         \* no token, no client
  Lifetime,     \* refreshTTL
  MaxTime,      \* bound on the clock
  MaxCrashes    \* bound on restarts of the process

ASSUME TokensAssumption == Tokens \subseteq Nat \ {0} /\ None \notin Tokens
ASSUME ClientsAssumption == None \notin Clients
ASSUME BoundsAssumption ==
  Lifetime \in Nat \ {0} /\ MaxTime \in Nat /\ MaxCrashes \in Nat

VARIABLES
  clock,        \* time, of the process and of MySQL
  crashes,      \* restarts so far
  drawn,        \* token ids drawn so far
  expires,      \* expires[t]: the expiry token t was issued with
  session,      \* session[t]: the state of the row of auth_sessions
  family,       \* family[t]: the token of the login t goes back to
  lock,         \* lock[t]: the transaction that has updated row t
  req,          \* req[c]: what client c is doing
  held,         \* tokens that browsers were given
  ended         \* tokens whose Logout was answered with success

vars == <<clock, crashes, drawn, expires, session, family, lock, req, held, ended>>

Idle == [at |-> "idle", tok |-> None, new |-> None]

TypeOK ==
  /\ clock \in 0..MaxTime
  /\ crashes \in 0..MaxCrashes
  /\ drawn \subseteq Tokens
  /\ expires \in [Tokens -> Nat]
  /\ session \in [Tokens -> {"none", "live", "revoked"}]
  /\ family \in [Tokens -> Tokens \cup {None}]
  /\ lock \in [Tokens -> Clients \cup {None}]
  /\ req \in [Clients ->
       [at: {"idle", "insert", "lookup", "update", "wait", "commit", "revoke"},
        tok: Tokens \cup {None}, new: Tokens \cup {None}]]
  /\ held \subseteq Tokens
  /\ ended \subseteq Tokens
  /\ \A t \in Tokens : lock[t] # None =>
       req[lock[t]].at = "commit" /\ req[lock[t]].tok = t

Init ==
  /\ clock = 0
  /\ crashes = 0
  /\ drawn = {}
  /\ expires = [t \in Tokens |-> 0]
  /\ session = [t \in Tokens |-> "none"]
  /\ family = [t \in Tokens |-> None]
  /\ lock = [t \in Tokens |-> None]
  /\ req = [c \in Clients |-> Idle]
  /\ held = {}
  /\ ended = {}

-----------------------------------------------------------------------------
At(c, label) == req[c].at = label
Move(c, label) == req' = [req EXCEPT ![c].at = label]
Answer(c) == req' = [req EXCEPT ![c] = Idle]

\* The answer carries a pair with token t, if it arrives: the connection to
\* MySQL or to the browser may break instead.
AnswerWith(c, t) ==
  /\ Answer(c)
  /\ held' \in {held, held \cup {t}}

\* issueTokenPair draws an id and fixes the expiry.
IssuePair(t) ==
  /\ t \in Tokens \ drawn
  /\ \A n \in Tokens \ drawn : t <= n
  /\ drawn' = drawn \cup {t}
  /\ expires' = [expires EXCEPT ![t] = clock + Lifetime]

Valid(t) == expires[t] > clock

-----------------------------------------------------------------------------
(***************************************************************************)
(* Login.                                                                  *)
(***************************************************************************)

\* The password is right and the user enabled: a pair is issued.  (Refused
\* logins touch nothing.)
Login(c) ==
  /\ At(c, "idle")
  /\ \E t \in Tokens :
       /\ IssuePair(t)
       /\ req' = [req EXCEPT ![c] = [at |-> "insert", tok |-> None, new |-> t]]
  /\ UNCHANGED <<clock, crashes, session, family, lock, held, ended>>

\* CreateRefreshSession: the row is inserted and the pair returned.
Insert(c) ==
  LET t == req[c].new IN
  /\ At(c, "insert")
  /\ session' = [session EXCEPT ![t] = "live"]
  /\ family' = [family EXCEPT ![t] = t]
  /\ AnswerWith(c, t)
  /\ UNCHANGED <<clock, crashes, drawn, expires, lock, ended>>

InsertFails(c) ==
  /\ At(c, "insert")
  /\ Answer(c)
  /\ UNCHANGED <<clock, crashes, drawn, expires, session, family, lock, held, ended>>

-----------------------------------------------------------------------------
(***************************************************************************)
(* Refresh.                                                                *)
(***************************************************************************)

\* The token is parsed: its own expiry is the row's.
Refresh(c) ==
  /\ At(c, "idle")
  /\ \E t \in held :
       /\ Valid(t)
       /\ req' = [req EXCEPT ![c] = [at |-> "lookup", tok |-> t, new |-> None]]
  /\ UNCHANGED <<clock, crashes, drawn, expires, session, family, lock, held, ended>>

\* The user is found, and a pair issued before the old token is consumed.
LookUp(c) ==
  /\ At(c, "lookup")
  /\ \/ \E n \in Tokens :
          /\ IssuePair(n)
          /\ req' = [req EXCEPT ![c] = [at |-> "update", tok |-> req[c].tok, new |-> n]]
     \/ Answer(c) /\ UNCHANGED <<drawn, expires>>
  /\ UNCHANGED <<clock, crashes, session, family, lock, held, ended>>

\* The UPDATE is sent.  Its NOW() is the time at which it starts, however
\* long it then waits for the row.
Ask(c) ==
  /\ At(c, "update")
  /\ IF Valid(req[c].tok) THEN Move(c, "wait") ELSE Answer(c)
  /\ UNCHANGED <<clock, crashes, drawn, expires, session, family, lock, held, ended>>

\* (slip) The condition "revoked_at IS NULL" is missing.
ConsumableAlways(t) == session[t] # "none"

\* The condition of the UPDATE on the row.
Consumable(t) == session[t] = "live"

\* (slip) The UPDATE is not part of the transaction.
UpdateAutocommit(c) ==
  LET t == req[c].tok IN
  /\ At(c, "wait")
  /\ lock[t] = None
  /\ IF Consumable(t)
     THEN /\ session' = [session EXCEPT ![t] = "revoked"]
          /\ Move(c, "commit")
     ELSE Answer(c) /\ UNCHANGED session
  /\ UNCHANGED <<clock, crashes, drawn, expires, family, lock, held, ended>>

\* The UPDATE waits for the row and marks it, in the transaction; no row
\* affected means ErrTokenRevoked.
Update(c) ==
  LET t == req[c].tok IN
  /\ At(c, "wait")
  /\ lock[t] = None
  /\ IF Consumable(t)
     THEN lock' = [lock EXCEPT ![t] = c] /\ Move(c, "commit")
     ELSE Answer(c) /\ UNCHANGED lock
  /\ UNCHANGED <<clock, crashes, drawn, expires, session, family, held, ended>>

Release(c) ==
  lock' = [t \in Tokens |-> IF lock[t] = c THEN None ELSE lock[t]]

\* (slip) The error of Commit is dropped.
RollBackUnnoticed(c) ==
  /\ At(c, "commit")
  /\ Release(c)
  /\ AnswerWith(c, req[c].new)
  /\ UNCHANGED <<clock, crashes, drawn, expires, session, family, ended>>

\* (slip) The transaction is not rolled back on the way out.
RollBackForgotten(c) ==
  /\ At(c, "commit")
  /\ Answer(c)
  /\ UNCHANGED <<clock, crashes, drawn, expires, session, family, lock, held, ended>>

\* The INSERT or the Commit fails, or the request is cancelled.
RollBack(c) ==
  /\ At(c, "commit")
  /\ Release(c)
  /\ Answer(c)
  /\ UNCHANGED <<clock, crashes, drawn, expires, session, family, held, ended>>

\* Old row and new are committed together.
Commit(c) ==
  LET t == req[c].tok
      n == req[c].new IN
  /\ At(c, "commit")
  /\ session' = [session EXCEPT ![t] = "revoked", ![n] = "live"]
  /\ family' = [family EXCEPT ![n] = family[t]]
  /\ Release(c)
  /\ AnswerWith(c, n)
  /\ UNCHANGED <<clock, crashes, drawn, expires, ended>>

-----------------------------------------------------------------------------
(***************************************************************************)
(* Logout.                                                                 *)
(***************************************************************************)
Logout(c) ==
  /\ At(c, "idle")
  /\ \E t \in held :
       /\ Valid(t)
       /\ req' = [req EXCEPT ![c] = [at |-> "revoke", tok |-> t, new |-> None]]
  /\ UNCHANGED <<clock, crashes, drawn, expires, session, family, lock, held, ended>>

\* (slip) A row that was revoked before is a success, as in MemoryStore.
RevokeTwice(c) ==
  LET t == req[c].tok IN
  /\ At(c, "revoke")
  /\ lock[t] = None
  /\ session' = [session EXCEPT ![t] = "revoked"]
  /\ ended' \in {ended, ended \cup {t}}
  /\ Answer(c)
  /\ UNCHANGED <<clock, crashes, drawn, expires, family, lock, held>>

\* RevokeRefreshSession waits for the row too; no row affected is an error,
\* and so is an acknowledgement that is lost.
Revoke(c) ==
  LET t == req[c].tok IN
  /\ At(c, "revoke")
  /\ lock[t] = None
  /\ IF session[t] = "live"
     THEN /\ session' = [session EXCEPT ![t] = "revoked"]
          /\ ended' \in {ended, ended \cup {t}}
     ELSE UNCHANGED <<session, ended>>
  /\ Answer(c)
  /\ UNCHANGED <<clock, crashes, drawn, expires, family, lock, held>>

RevokeFails(c) ==
  /\ At(c, "revoke")
  /\ Answer(c)
  /\ UNCHANGED <<clock, crashes, drawn, expires, session, family, lock, held, ended>>

-----------------------------------------------------------------------------
Tick ==
  /\ clock < MaxTime
  /\ clock' = clock + 1
  /\ UNCHANGED <<crashes, drawn, expires, session, family, lock, req, held, ended>>

\* The process stops; MySQL rolls its transactions back.
Crash ==
  /\ crashes < MaxCrashes
  /\ crashes' = crashes + 1
  /\ req' = [c \in Clients |-> Idle]
  /\ lock' = [t \in Tokens |-> None]
  /\ UNCHANGED <<clock, drawn, expires, session, family, held, ended>>

Serve(c) ==
  \/ Insert(c) \/ InsertFails(c)
  \/ LookUp(c) \/ Ask(c) \/ Update(c) \/ RollBack(c) \/ Commit(c)
  \/ Revoke(c) \/ RevokeFails(c)

Next ==
  \/ \E c \in Clients : Login(c) \/ Refresh(c) \/ Logout(c) \/ Serve(c)
  \/ Tick \/ Crash

Spec == Init /\ [][Next]_vars

\* A request that has arrived is worked on, and an UPDATE that waits is
\* served in its turn; nobody has to make a request, to crash or to wait.
FairSpec == Spec /\ \A c \in Clients : SF_vars(Serve(c))

-----------------------------------------------------------------------------
(***************************************************************************)
(* Properties.                                                             *)
(***************************************************************************)
LiveTokens == {t \in Tokens : session[t] = "live"}
SpentTokens == {t \in Tokens : session[t] = "revoked"}

\* However many tabs refresh at once, a login has at most one token that
\* can still be exchanged: no token is exchanged for two.
SingleLive ==
  \A t, n \in LiveTokens : family[t] = family[n] => t = n

\* A logout that was answered with success ended the login, refreshes that
\* were in flight with the same token included.
LogoutFinal ==
  \A t \in ended, n \in LiveTokens : family[n] # family[t]

\* A pair is handed out only when its session is saved: after a restart or
\* a failed commit no browser holds a token the store has never seen.
HeldSaved ==
  \A t \in held : session[t] # "none"

\* The MySQL store keeps the contract of auth.Store.
Contract == INSTANCE OneTimeTokens WITH live <- LiveTokens, spent <- SpentTokens

KeepsContract == Contract!Spec

\* A request is answered, whatever other requests hold its row.
EveryRequestAnswered ==
  \A c \in Clients : ~At(c, "idle") ~> At(c, "idle")
=============================================================================
