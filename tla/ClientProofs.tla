---------------------------- MODULE ClientProofs ----------------------------
(***************************************************************************)
(* What clients of the server rely on, for any number of them.             *)
(*                                                                         *)
(* Sessions: a login has one live token at most, a logout is final, and    *)
(* the MySQL store keeps the contract of auth.Store.  The invariant ties a *)
(* request to the rows it will write: the token it has drawn is in no row  *)
(* and in no other request, and the token it is about to consume is locked *)
(* and still live.                                                         *)
(*                                                                         *)
(* Console: a save sends what its drawer meant, and a list at rest shows   *)
(* what it was told of.  The first is known while the drawer is open, of   *)
(* every column of its form; the second of every answer on its way.        *)
(***************************************************************************)
EXTENDS Sessions, Console, SequenceTheorems, TLAPS

-----------------------------------------------------------------------------
(***************************************************************************)
(* Sessions.                                                               *)
(***************************************************************************)
\* Tokens drawn and not yet saved belong to one request each.
DrawnInv ==
  /\ \A t \in Tokens : session[t] # "none" => t \in drawn
  /\ \A c \in Clients : LET n == req[c].new IN
       n # None => n \in drawn /\ session[n] = "none"
  /\ \A c, d \in Clients : req[c].new # None /\ req[c].new = req[d].new => c = d
  /\ \A c \in Clients : req[c].at \in {"insert", "update", "wait", "commit"} => req[c].new # None

\* What is consumed at commit is locked and live.
LockInv ==
  /\ \A c \in Clients : req[c].at \in {"lookup", "update", "wait", "commit", "revoke"} =>
       req[c].tok # None
  /\ \A c \in Clients : req[c].at = "commit" =>
       lock[req[c].tok] = c /\ session[req[c].tok] = "live"

\* Families are named after a saved token, and only saved tokens are known
\* to anyone.
FamilyInv ==
  /\ \A t \in Tokens : session[t] # "none" =>
       family[t] \in Tokens /\ session[family[t]] # "none"
  /\ \A t \in ended : session[t] # "none"

IInv ==
  TypeOK /\ DrawnInv /\ LockInv /\ FamilyInv /\ SingleLive /\ LogoutFinal /\ HeldSaved

-----------------------------------------------------------------------------
LEMMA InitIInv == Init => IInv
BY TokensAssumption, ClientsAssumption, BoundsAssumption
DEF Init, IInv, TypeOK, DrawnInv, LockInv, FamilyInv, SingleLive, LogoutFinal,
    HeldSaved, LiveTokens, Idle

\* Steps that leave the rows alone and move one request at most.
LEMMA LoginStep ==
  ASSUME IInv, NEW c \in Clients, Login(c)
  PROVE  IInv'
<1> USE TokensAssumption, ClientsAssumption, BoundsAssumption DEF IInv, At
<1>1. PICK t \in Tokens \ drawn :
        /\ req[c].at = "idle"
        /\ drawn' = drawn \cup {t}
        /\ expires' = [expires EXCEPT ![t] = clock + Lifetime]
        /\ req' = [req EXCEPT ![c] = [at |-> "insert", tok |-> None, new |-> t]]
        /\ UNCHANGED <<clock, crashes, session, family, lock, held, ended>>
  BY DEF Login, IssuePair
<1>2. TypeOK'
  BY <1>1 DEF TypeOK
<1>3. DrawnInv'
  BY <1>1 DEF DrawnInv, TypeOK
<1>4. LockInv'
  BY <1>1 DEF LockInv, TypeOK
<1>5. FamilyInv' /\ SingleLive' /\ LogoutFinal' /\ HeldSaved'
  BY <1>1 DEF FamilyInv, SingleLive, LogoutFinal, HeldSaved, LiveTokens
<1> QED
  BY <1>2, <1>3, <1>4, <1>5

LEMMA ArrivalStep ==
  ASSUME IInv, NEW c \in Clients, Refresh(c) \/ Logout(c)
  PROVE  IInv'
<1> USE TokensAssumption, ClientsAssumption, BoundsAssumption DEF IInv, At
<1>1. PICK t \in held, label \in {"lookup", "revoke"} :
        /\ req[c].at = "idle"
        /\ req' = [req EXCEPT ![c] = [at |-> label, tok |-> t, new |-> None]]
        /\ UNCHANGED <<clock, crashes, drawn, expires, session, family, lock, held, ended>>
  BY DEF Refresh, Logout
<1>2. TypeOK'
  BY <1>1 DEF TypeOK
<1>3. DrawnInv'
  BY <1>1 DEF DrawnInv, TypeOK
<1>4. LockInv'
  BY <1>1 DEF LockInv, TypeOK
<1>5. FamilyInv' /\ SingleLive' /\ LogoutFinal' /\ HeldSaved'
  BY <1>1 DEF FamilyInv, SingleLive, LogoutFinal, HeldSaved, LiveTokens
<1> QED
  BY <1>2, <1>3, <1>4, <1>5

\* Requests that end without having changed a row.
LEMMA EndStep ==
  ASSUME IInv, NEW c \in Clients, req' = [req EXCEPT ![c] = Idle],
         \/ req[c].at # "commit" /\ UNCHANGED lock
         \/ lock' = [t \in Tokens |-> IF lock[t] = c THEN None ELSE lock[t]],
         UNCHANGED <<clock, crashes, drawn, expires, session, family, held, ended>>
  PROVE  IInv'
<1> USE TokensAssumption, ClientsAssumption, BoundsAssumption DEF IInv
<1>1. TypeOK'
  BY DEF TypeOK, Idle
<1>2. DrawnInv'
  BY DEF DrawnInv, TypeOK, Idle
<1>3. LockInv'
  <2>1. \A d \in Clients \ {c} : req'[d] = req[d]
    BY DEF TypeOK
  <2>2. req'[c].at = "idle"
    BY DEF TypeOK, Idle
  <2>3. \A d \in Clients \ {c} : req[d].at = "commit" =>
          /\ req[d].tok \in Tokens /\ lock'[req[d].tok] = d
          /\ session'[req[d].tok] = "live"
    <3> SUFFICES ASSUME NEW d \in Clients \ {c}, req[d].at = "commit"
                 PROVE  /\ req[d].tok \in Tokens /\ lock'[req[d].tok] = d
                        /\ session'[req[d].tok] = "live"
      OBVIOUS
    <3>1. req[d].tok \in Tokens /\ lock[req[d].tok] = d /\ session[req[d].tok] = "live"
      <4>1. req[d].tok \in Tokens \cup {None} /\ req[d].tok # None
        BY DEF LockInv, TypeOK
      <4> QED
        BY <4>1 DEF LockInv
    <3>2. lock'[req[d].tok] = d
      BY <3>1
    <3> QED
      BY <3>1, <3>2
  <2>4. \A d \in Clients : req'[d].at \in {"lookup", "update", "wait", "commit", "revoke"} =>
          req'[d].tok # None
    BY <2>1, <2>2 DEF LockInv
  <2>5. \A d \in Clients : req'[d].at = "commit" =>
          lock'[req'[d].tok] = d /\ session'[req'[d].tok] = "live"
    BY <2>1, <2>2, <2>3
  <2> QED
    BY <2>4, <2>5 DEF LockInv
<1>4. FamilyInv' /\ SingleLive' /\ LogoutFinal' /\ HeldSaved'
  BY DEF FamilyInv, SingleLive, LogoutFinal, HeldSaved, LiveTokens
<1> QED
  BY <1>1, <1>2, <1>3, <1>4

LEMMA LookUpStep ==
  ASSUME IInv, NEW c \in Clients, LookUp(c)
  PROVE  IInv'
<1> USE TokensAssumption, ClientsAssumption, BoundsAssumption DEF IInv, At
<1>1. /\ req[c].at = "lookup"
      /\ UNCHANGED <<clock, crashes, session, family, lock, held, ended>>
  BY DEF LookUp
<1>2. CASE req' = [req EXCEPT ![c] = Idle] /\ UNCHANGED <<drawn, expires>>
  BY <1>1, <1>2, EndStep
<1>3. ASSUME NEW n \in Tokens \ drawn,
             drawn' = drawn \cup {n},
             expires' = [expires EXCEPT ![n] = clock + Lifetime],
             req' = [req EXCEPT ![c] =
                      [at |-> "update", tok |-> req[c].tok, new |-> n]]
      PROVE  IInv'
  <2>1. /\ \A d \in Clients \ {c} : req'[d] = req[d]
        /\ req'[c] = [at |-> "update", tok |-> req[c].tok, new |-> n]
    BY <1>3 DEF TypeOK
  <2>2. TypeOK'
    <3>1. req' \in [Clients ->
           [at: {"idle", "insert", "lookup", "update", "wait", "commit", "revoke"},
            tok: Tokens \cup {None}, new: Tokens \cup {None}]]
      BY <1>3 DEF TypeOK
    <3>2. \A t \in Tokens : lock[t] # None => req'[lock[t]] = req[lock[t]]
      BY <1>1, <2>1 DEF TypeOK
    <3> QED
      BY <1>1, <1>3, <3>1, <3>2 DEF TypeOK
  <2>3. DrawnInv'
    <3>1. session[n] = "none" /\ \A d \in Clients : req[d].new # n
      BY DEF DrawnInv
    <3>2. drawn' = drawn \cup {n} /\ session' = session /\ n # None
      BY <1>1, <1>3
    <3> QED
      BY <2>1, <3>1, <3>2 DEF DrawnInv
  <2>4. LockInv'
    BY <1>1, <2>1 DEF LockInv
  <2>5. FamilyInv' /\ SingleLive' /\ LogoutFinal' /\ HeldSaved'
    BY <1>1 DEF FamilyInv, SingleLive, LogoutFinal, HeldSaved, LiveTokens
  <2> QED
    BY <2>2, <2>3, <2>4, <2>5
<1> QED
  BY <1>2, <1>3 DEF LookUp, IssuePair, Answer

LEMMA UpdateStep ==
  ASSUME IInv, NEW c \in Clients, Update(c)
  PROVE  IInv'
<1> USE TokensAssumption, ClientsAssumption, BoundsAssumption DEF IInv, At
<1>1. PICK t \in Tokens :
      /\ t = req[c].tok /\ req[c].at = "wait" /\ lock[t] = None
      /\ UNCHANGED <<clock, crashes, drawn, expires, session, family, held, ended>>
      /\ \/ /\ session[t] = "live"
            /\ lock' = [lock EXCEPT ![t] = c]
            /\ req' = [req EXCEPT ![c].at = "commit"]
         \/ req' = [req EXCEPT ![c] = Idle] /\ UNCHANGED lock
  BY DEF Update, Consumable, Move, Answer, LockInv, TypeOK
<1>2. CASE req' = [req EXCEPT ![c] = Idle] /\ UNCHANGED lock
  BY <1>1, <1>2, EndStep
<1>3. CASE /\ session[t] = "live"
           /\ lock' = [lock EXCEPT ![t] = c]
           /\ req' = [req EXCEPT ![c].at = "commit"]
  <2>1. /\ \A d \in Clients \ {c} : req'[d] = req[d]
        /\ req'[c] = [at |-> "commit", tok |-> t, new |-> req[c].new]
    BY <1>1, <1>3 DEF TypeOK
  <2>2. TypeOK'
    BY <1>1, <1>3 DEF TypeOK
  <2>3. DrawnInv'
    BY <1>1, <2>1 DEF DrawnInv
  <2>4. LockInv'
    BY <1>1, <1>3, <2>1 DEF LockInv, TypeOK
  <2>5. FamilyInv' /\ SingleLive' /\ LogoutFinal' /\ HeldSaved'
    BY <1>1 DEF FamilyInv, SingleLive, LogoutFinal, HeldSaved, LiveTokens
  <2> QED
    BY <2>2, <2>3, <2>4, <2>5
<1> QED
  BY <1>1, <1>2, <1>3

LEMMA AskStep ==
  ASSUME IInv, NEW c \in Clients, Ask(c)
  PROVE  IInv'
<1> USE TokensAssumption, ClientsAssumption, BoundsAssumption DEF IInv, At
<1>1. /\ req[c].at = "update"
      /\ UNCHANGED <<clock, crashes, drawn, expires, session, family, lock, held, ended>>
  BY DEF Ask
<1>2. CASE req' = [req EXCEPT ![c] = Idle]
  BY <1>1, <1>2, EndStep
<1>3. CASE req' = [req EXCEPT ![c].at = "wait"]
  <2>1. TypeOK'
    BY <1>1, <1>3 DEF TypeOK
  <2>2. DrawnInv'
    BY <1>1, <1>3 DEF DrawnInv, TypeOK
  <2>3. LockInv'
    BY <1>1, <1>3 DEF LockInv, TypeOK
  <2>4. FamilyInv' /\ SingleLive' /\ LogoutFinal' /\ HeldSaved'
    BY <1>1 DEF FamilyInv, SingleLive, LogoutFinal, HeldSaved, LiveTokens
  <2> QED
    BY <2>1, <2>2, <2>3, <2>4
<1> QED
  BY <1>2, <1>3 DEF Ask, Move, Answer

LEMMA FailStep ==
  ASSUME IInv, NEW c \in Clients,
         InsertFails(c) \/ RollBack(c) \/ RevokeFails(c)
  PROVE  IInv'
BY EndStep DEF InsertFails, RollBack, RevokeFails, Answer, Release, At

\* A login's row is saved: a new family.
LEMMA InsertStep ==
  ASSUME IInv, NEW c \in Clients, Insert(c)
  PROVE  IInv'
<1> USE TokensAssumption, ClientsAssumption, BoundsAssumption DEF IInv, At
<1>1. PICK t \in Tokens :
      /\ t = req[c].new /\ req[c].at = "insert" /\ session[t] = "none" /\ t \in drawn
      /\ session' = [session EXCEPT ![t] = "live"]
      /\ family' = [family EXCEPT ![t] = t]
      /\ req' = [req EXCEPT ![c] = Idle]
      /\ held' \in {held, held \cup {t}}
      /\ UNCHANGED <<clock, crashes, drawn, expires, lock, ended>>
  BY DEF Insert, AnswerWith, Answer, DrawnInv, TypeOK
<1>2. \A n \in Tokens : session[n] # "none" => n # t /\ family[n] # t
  BY <1>1 DEF FamilyInv
<1>3. TypeOK'
  BY <1>1 DEF TypeOK, Idle
<1>4. DrawnInv'
  BY <1>1 DEF DrawnInv, TypeOK, Idle
<1>5. LockInv'
  BY <1>1 DEF LockInv, TypeOK, Idle
<1>6. FamilyInv'
  BY <1>1 DEF FamilyInv, TypeOK
<1>7. SingleLive'
  BY <1>1, <1>2 DEF SingleLive, LiveTokens, TypeOK
<1>8. LogoutFinal'
  BY <1>1, <1>2 DEF LogoutFinal, LiveTokens, FamilyInv, TypeOK
<1>9. HeldSaved'
  BY <1>1 DEF HeldSaved, TypeOK
<1> QED
  BY <1>3, <1>4, <1>5, <1>6, <1>7, <1>8, <1>9

\* The exchange: the family moves on to its next token.
LEMMA CommitStep ==
  ASSUME IInv, NEW c \in Clients, Commit(c)
  PROVE  IInv'
<1> USE TokensAssumption, ClientsAssumption, BoundsAssumption DEF IInv, At
<1>1. PICK t \in Tokens, n \in Tokens :
      /\ t = req[c].tok /\ n = req[c].new
      /\ req[c].at = "commit" /\ n \in drawn
      /\ session[t] = "live" /\ session[n] = "none" /\ t # n
      /\ session' = [session EXCEPT ![t] = "revoked", ![n] = "live"]
      /\ family' = [family EXCEPT ![n] = family[t]]
      /\ lock' = [m \in Tokens |-> IF lock[m] = c THEN None ELSE lock[m]]
      /\ req' = [req EXCEPT ![c] = Idle]
      /\ held' \in {held, held \cup {n}}
      /\ UNCHANGED <<clock, crashes, drawn, expires, ended>>
  <2>1. /\ req[c].at = "commit" /\ req[c].tok \in Tokens
        /\ req[c].new \in Tokens /\ req[c].new \in drawn
        /\ session[req[c].tok] = "live" /\ session[req[c].new] = "none"
    BY DEF Commit, DrawnInv, LockInv, TypeOK
  <2> QED
    BY <2>1 DEF Commit, AnswerWith, Answer, Release
<1>2. \A d \in Clients \ {c} : req[d].at = "commit" => req[d].tok # t
  BY <1>1 DEF LockInv
<1>3. TypeOK'
  BY <1>1 DEF TypeOK, Idle
<1>11. /\ \A d \in Clients \ {c} : req'[d] = req[d] /\ req[d].new # n
       /\ req'[c].new = None /\ req'[c].at = "idle"
  BY <1>1 DEF DrawnInv, TypeOK, Idle
<1>12. \A m \in Tokens \ {t, n} : session'[m] = session[m]
  BY <1>1 DEF TypeOK
<1>4. DrawnInv'
  <2>1. \A m \in Tokens : session'[m] # "none" => m \in drawn'
    BY <1>1, <1>12 DEF DrawnInv
  <2>2. \A d \in Clients : req'[d].new # None =>
          req'[d].new \in drawn' /\ session'[req'[d].new] = "none"
    <3>1. \A d \in Clients \ {c} : req[d].new # None =>
            /\ req[d].new \in drawn /\ req[d].new \in Tokens \ {t, n}
            /\ session[req[d].new] = "none"
      BY <1>1, <1>11 DEF DrawnInv, TypeOK
    <3>2. drawn' = drawn
      BY <1>1
    <3> QED
      BY <1>11, <1>12, <3>1, <3>2
  <2>3. \A d, e \in Clients : req'[d].new # None /\ req'[d].new = req'[e].new => d = e
    BY <1>11 DEF DrawnInv
  <2>4. \A d \in Clients : req'[d].at \in {"insert", "update", "wait", "commit"} =>
          req'[d].new # None
    BY <1>11 DEF DrawnInv
  <2> QED
    BY <2>1, <2>2, <2>3, <2>4 DEF DrawnInv
<1>5. LockInv'
  <2>1. \A d \in Clients \ {c} : req[d].at = "commit" =>
          req[d].tok \in Tokens \ {t} /\ lock[req[d].tok] = d
          /\ session[req[d].tok] = "live"
    BY <1>2 DEF LockInv, TypeOK
  <2>2. \A d \in Clients \ {c} : req[d].at = "commit" =>
          lock'[req[d].tok] = d /\ session'[req[d].tok] = "live"
    BY <1>1, <1>12, <2>1
  <2> QED
    BY <1>11, <2>2 DEF LockInv
<1>6. FamilyInv'
  <2>1. /\ session'[n] = "live" /\ session'[t] = "revoked" /\ family'[n] = family[t]
        /\ \A x \in Tokens \ {n} : family'[x] = family[x]
    BY <1>1 DEF TypeOK
  <2>2. \A x \in Tokens : session[x] # "none" => session'[x] # "none"
    <3>1. \A x \in Tokens : x \in {t, n} \/ session'[x] = session[x]
      BY <1>12
    <3> QED
      BY <2>1, <3>1
  <2>3. \A x \in Tokens : session'[x] # "none" => x = n \/ session[x] # "none"
    BY <1>1, <1>12
  <2>4. family[t] \in Tokens /\ session[family[t]] # "none"
    BY <1>1 DEF FamilyInv
  <2>5. \A x \in Tokens \ {n} : session[x] # "none" =>
          /\ family'[x] \in Tokens /\ session[family'[x]] # "none"
    BY <2>1 DEF FamilyInv
  <2>6. \A x \in Tokens : session'[x] # "none" =>
          /\ family'[x] \in Tokens /\ session[family'[x]] # "none"
    BY <2>1, <2>3, <2>4, <2>5
  <2>7. \A x \in Tokens : session'[x] # "none" =>
          family'[x] \in Tokens /\ session'[family'[x]] # "none"
    BY <2>2, <2>6
  <2>8. ended' = ended /\ ended \subseteq Tokens
    BY <1>1 DEF TypeOK
  <2>9. \A x \in ended' : session'[x] # "none"
    BY <2>2, <2>8 DEF FamilyInv
  <2> QED
    BY <2>7, <2>9 DEF FamilyInv
<1>7. \A m \in LiveTokens' : m = n \/ (m \in LiveTokens /\ m # t)
  BY <1>1 DEF LiveTokens, TypeOK
<1>8. SingleLive'
  BY <1>1, <1>7 DEF SingleLive, LiveTokens, TypeOK
<1>9. LogoutFinal'
  BY <1>1, <1>7 DEF LogoutFinal, LiveTokens, FamilyInv, TypeOK
<1>10. HeldSaved'
  BY <1>1 DEF HeldSaved, TypeOK
<1> QED
  BY <1>3, <1>4, <1>5, <1>6, <1>8, <1>9, <1>10

\* A logout: the family ends.
LEMMA RevokeStep ==
  ASSUME IInv, NEW c \in Clients, Revoke(c)
  PROVE  IInv'
<1> USE TokensAssumption, ClientsAssumption, BoundsAssumption DEF IInv
<1>1. PICK t \in Tokens : t = req[c].tok
  <2>1. req[c] \in [at: {"idle", "insert", "lookup", "update", "wait", "commit", "revoke"},
                    tok: Tokens \cup {None}, new: Tokens \cup {None}]
    BY DEF TypeOK
  <2>2. req[c].tok # None
    BY DEF Revoke, At, LockInv
  <2> QED
    BY <2>1, <2>2
<1>2. /\ req[c].at = "revoke" /\ lock[t] = None
      /\ req' = [req EXCEPT ![c] = Idle]
      /\ UNCHANGED <<clock, crashes, drawn, expires, family, lock, held>>
  BY <1>1 DEF Revoke, Answer, At
<1>3. CASE session[t] # "live"
  BY <1>1, <1>2, <1>3, EndStep DEF Revoke
<1>4. CASE session[t] = "live"
  <2>1. /\ session' = [session EXCEPT ![t] = "revoked"]
        /\ ended' \in {ended, ended \cup {t}}
    BY <1>1, <1>4 DEF Revoke
  <2>2. \A m \in Tokens \ {t} : session'[m] = session[m]
    BY <2>1 DEF TypeOK
  <2>3. TypeOK'
    BY <1>2, <2>1 DEF TypeOK, Idle
  <2>4. DrawnInv'
    BY <1>2, <1>4, <2>1 DEF DrawnInv, TypeOK, Idle
  <2>5. LockInv'
    <3>1. /\ \A d \in Clients \ {c} : req'[d] = req[d]
          /\ req'[c].at = "idle"
      BY <1>2 DEF TypeOK, Idle
    <3>2. \A d \in Clients : req[d].at = "commit" =>
            /\ req[d].tok \in Tokens \ {t} /\ lock[req[d].tok] = d
            /\ session[req[d].tok] = "live"
      BY <1>2 DEF LockInv, TypeOK
    <3>3. \A d \in Clients : req'[d].at = "commit" =>
            lock'[req'[d].tok] = d /\ session'[req'[d].tok] = "live"
      <4>1. \A d \in Clients \ {c} : req[d].at = "commit" =>
              lock'[req[d].tok] = d /\ session'[req[d].tok] = "live"
        BY <1>2, <2>2, <3>2
      <4> QED
        BY <3>1, <4>1
    <3>4. \A d \in Clients : req'[d].at \in {"lookup", "update", "wait", "commit", "revoke"} =>
            req'[d].tok # None
      BY <3>1 DEF LockInv
    <3> QED
      BY <3>3, <3>4 DEF LockInv
  <2>6. FamilyInv'
    BY <1>2, <1>4, <2>1 DEF FamilyInv, TypeOK
  <2>7. \A m \in LiveTokens' : m \in LiveTokens /\ m # t
    BY <2>1 DEF LiveTokens, TypeOK
  <2>8. SingleLive'
    BY <1>2, <2>7 DEF SingleLive
  <2>9. LogoutFinal'
    <3>1. t \in LiveTokens
      BY <1>4 DEF LiveTokens
    <3>2. \A m \in LiveTokens' : family[m] # family[t]
      BY <2>7, <3>1 DEF SingleLive
    <3> QED
      BY <1>2, <2>1, <2>7, <3>2 DEF LogoutFinal
  <2>10. HeldSaved'
    BY <1>2, <2>1 DEF HeldSaved, TypeOK
  <2> QED
    BY <2>3, <2>4, <2>5, <2>6, <2>8, <2>9, <2>10
<1> QED
  BY <1>3, <1>4

\* Time passes, the process restarts, or nothing happens.
LEMMA WorldStep ==
  ASSUME IInv, Tick \/ Crash \/ UNCHANGED vars
  PROVE  IInv'
<1> USE TokensAssumption, ClientsAssumption, BoundsAssumption DEF IInv
<1>1. /\ clock' \in 0..MaxTime /\ crashes' \in 0..MaxCrashes
      /\ \/ UNCHANGED <<req, lock>>
         \/ /\ req' = [c \in Clients |-> Idle]
            /\ lock' = [t \in Tokens |-> None]
      /\ UNCHANGED <<drawn, expires, session, family, held, ended>>
  BY DEF Tick, Crash, vars, TypeOK
<1>2. TypeOK'
  BY <1>1 DEF TypeOK, Idle
<1>3. DrawnInv'
  BY <1>1 DEF DrawnInv, TypeOK, Idle
<1>4. LockInv'
  BY <1>1 DEF LockInv, TypeOK, Idle
<1>5. FamilyInv' /\ SingleLive' /\ LogoutFinal' /\ HeldSaved'
  BY <1>1 DEF FamilyInv, SingleLive, LogoutFinal, HeldSaved, LiveTokens
<1> QED
  BY <1>2, <1>3, <1>4, <1>5

LEMMA NextIInv == IInv /\ [Next]_vars => IInv'
BY LoginStep, ArrivalStep, LookUpStep, AskStep, UpdateStep, FailStep, InsertStep,
   CommitStep, RevokeStep, WorldStep DEF Next, Serve

THEOREM Inductive == Spec => []IInv
BY InitIInv, NextIInv, PTL DEF Spec

-----------------------------------------------------------------------------
\* The rows, locks and requests keep their types, and a row is locked only by
\* the request that is about to commit its exchange.
THEOREM TypeCorrect == Spec => []TypeOK
<1>1. IInv => TypeOK
  BY DEF IInv
<1> QED
  BY Inductive, <1>1, PTL

\* No token is exchanged for two, however many requests present it.
THEOREM OneLiveToken == Spec => []SingleLive
<1>1. IInv => SingleLive
  BY DEF IInv
<1> QED
  BY Inductive, <1>1, PTL

\* A browser that was not shut out holds a token whose row was committed.
THEOREM HeldTokensSaved == Spec => []HeldSaved
<1>1. IInv => HeldSaved
  BY DEF IInv
<1> QED
  BY Inductive, <1>1, PTL

\* A successful logout ends the login for good.
THEOREM LogoutEnds == Spec => []LogoutFinal
<1>1. IInv => LogoutFinal
  BY DEF IInv
<1> QED
  BY Inductive, <1>1, PTL

-----------------------------------------------------------------------------
(***************************************************************************)
(* The contract: only a login's insert, the commit of an exchange and a    *)
(* revocation change which tokens are live and which are spent.            *)
(***************************************************************************)
LEMMA InsertContract ==
  ASSUME IInv, NEW c \in Clients, Insert(c)
  PROVE  Contract!Next
<1> DEFINE t == req[c].new
<1>1. /\ t \in Tokens /\ session[t] = "none"
      /\ session' = [session EXCEPT ![t] = "live"]
      /\ family' = [family EXCEPT ![t] = t]
  BY DEF Insert, IInv, At, DrawnInv, TypeOK
<1>2. LiveTokens' = LiveTokens \cup {t} /\ UNCHANGED SpentTokens
  BY <1>1 DEF LiveTokens, SpentTokens, IInv, TypeOK
<1>3. Contract!Issue(t)
  BY <1>1, <1>2 DEF Contract!Issue, Contract!New, LiveTokens, SpentTokens
<1> QED
  BY <1>1, <1>3 DEF Contract!Next

LEMMA CommitContract ==
  ASSUME IInv, NEW c \in Clients, Commit(c)
  PROVE  Contract!Next
<1> DEFINE t == req[c].tok
           n == req[c].new
<1>1. /\ t \in Tokens /\ n \in Tokens /\ t # n
      /\ session[t] = "live" /\ session[n] = "none"
      /\ session' = [session EXCEPT ![t] = "revoked", ![n] = "live"]
      /\ family' = [family EXCEPT ![n] = family[t]]
  BY DEF Commit, IInv, At, DrawnInv, LockInv, TypeOK
<1>2. /\ LiveTokens' = (LiveTokens \ {t}) \cup {n}
      /\ SpentTokens' = SpentTokens \cup {t}
  BY <1>1 DEF LiveTokens, SpentTokens, IInv, TypeOK
<1>3. Contract!Exchange(t, n)
  BY <1>1, <1>2 DEF Contract!Exchange, Contract!New, LiveTokens, SpentTokens
<1> QED
  BY <1>1, <1>3 DEF Contract!Next

LEMMA RevokeContract ==
  ASSUME IInv, NEW c \in Clients, Revoke(c)
  PROVE  Contract!Next \/ UNCHANGED <<session, family>>
<1> DEFINE t == req[c].tok
<1>1. CASE session[t] = "live"
  <2>1. /\ t \in Tokens
        /\ session' = [session EXCEPT ![t] = "revoked"]
        /\ UNCHANGED family
    BY <1>1 DEF Revoke, IInv, At, LockInv, TypeOK
  <2>2. /\ LiveTokens' = LiveTokens \ {t}
        /\ SpentTokens' = SpentTokens \cup {t}
    BY <1>1, <2>1 DEF LiveTokens, SpentTokens, IInv, TypeOK
  <2>3. Contract!Revoke(t)
    BY <1>1, <2>1, <2>2 DEF Contract!Revoke, LiveTokens
  <2> QED
    BY <2>1, <2>3 DEF Contract!Next
<1>2. CASE session[t] # "live"
  BY <1>2 DEF Revoke
<1> QED
  BY <1>1, <1>2

LEMMA NextContract == IInv /\ [Next]_vars => [Contract!Next]_(Contract!vars)
<1> SUFFICES ASSUME IInv, [Next]_vars PROVE [Contract!Next]_(Contract!vars)
  OBVIOUS
<1>1. ASSUME UNCHANGED <<session, family>> PROVE UNCHANGED Contract!vars
  BY <1>1 DEF Contract!vars, LiveTokens, SpentTokens
<1>2. ASSUME NEW c \in Clients, Serve(c)
      PROVE  Contract!Next \/ UNCHANGED <<session, family>>
  BY <1>2, InsertContract, CommitContract, RevokeContract
  DEF Serve, InsertFails, LookUp, Ask, Update, RollBack, RevokeFails
<1>3. ASSUME NEW c \in Clients, Login(c) \/ Refresh(c) \/ Logout(c)
      PROVE  UNCHANGED <<session, family>>
  BY <1>3 DEF Login, Refresh, Logout
<1>4. ASSUME Tick \/ Crash \/ UNCHANGED vars PROVE UNCHANGED <<session, family>>
  BY <1>4 DEF Tick, Crash, vars
<1> QED
  BY <1>1, <1>2, <1>3, <1>4 DEF Next

\* The MySQL store is an implementation of the one-step contract that
\* auth.Store asks for.
THEOREM ContractKept == Spec => KeepsContract
<1>1. Init => Contract!Init
  BY DEF Init, Contract!Init, LiveTokens, SpentTokens
<1> QED
  BY Inductive, NextContract, <1>1, PTL DEF Spec, KeepsContract, Contract!Spec

-----------------------------------------------------------------------------
(***************************************************************************)
(* Console: values, rows, and the states of a page.                        *)
(***************************************************************************)
Cell == Int \cup {Blank}
Thing == [Columns -> Cell]
Meant == [id : Things \cup {Missing}, cols : Thing]

\* A row of a list, which leaves out some columns.
ListRow == {row \in Thing : \A c \in Columns : c \notin Listed => row[c] = Blank}
RowList == [Things -> ListRow \cup {Missing}]

ScreenType ==
  [mode : {"away", "browse", "create", "edit", "view"}, id : Things \cup {Missing}, form : Thing,
   tab : Columns, picked : SUBSET Things, meant : Meant]

CacheType ==
  [rows : RowList \cup {Missing}, at : Nat, stale : BOOLEAN, fetch : {"none", "asked", "read"},
   reading : RowList \cup {Missing}, readAt : Nat, failed : BOOLEAN]

CallType ==
  [op : {"save", "remove", "removeOpen", "removeMany", "enable", "disable"}, ids : SUBSET Things,
   cols : Thing, meant : Meant, mine : BOOLEAN, at : {"sent", "done", "refused", "adrift"}, made : Nat]

BaseInv ==
  /\ page \in Pages /\ things \in [Things -> Thing \cup {Missing}]
  /\ changes \in Nat /\ events \in Nat /\ due \in Nat /\ due <= changes

\* The drawer is open for what the user means, and its form has that, or what is
\* left over there.
ScreenInv ==
  /\ screen \in ScreenType
  /\ screen.mode \in {"edit", "view"} => screen.meant.id = screen.id /\ screen.id \in Things
  /\ screen.mode = "create" => screen.meant.id = Missing /\ page # "options"
  /\ screen.mode \in {"create", "edit"} =>
       \A c \in Columns :
         IF c \in InForm
         THEN screen.form[c] # screen.meant.cols[c] =>
                screen.meant.cols[c] = Blank /\ LeftOver(screen, c)
         ELSE screen.meant.cols[c] = Blank
  /\ screen.mode = "view" => page = "records" /\ screen.meant.cols \in ListRow

\* A tab of the options is there when the collection is.
OptionsInv ==
  page = "options" /\ screen.mode = "edit" => cached.rows \in RowList /\ cached.rows[1] \in ListRow

\* A list that is read or at rest is not older than what it has been told of.
CacheInv ==
  /\ cached \in CacheType
  /\ cached.fetch = "read" => cached.reading \in RowList /\ due <= cached.readAt
  /\ cached.fetch = "none" /\ ~cached.stale /\ cached.rows # Missing => due <= cached.at

\* A save sends what its drawer meant.
Right(r) ==
  r.op = "save" =>
    /\ r.ids = IF r.meant.id = Missing THEN {} ELSE {r.meant.id}
    /\ \A c \in Columns : r.cols[c] # r.meant.cols[c] => r.meant.cols[c] = Blank /\ LeftOver(r, c)

RightCall == {r \in CallType : Right(r)}

SentInv == sent \in Seq(RightCall) /\ \A n \in DOMAIN sent : sent[n].made <= changes

ConsoleInvar == BaseInv /\ ScreenInv /\ OptionsInv /\ CacheInv /\ SentInv

-----------------------------------------------------------------------------
\* The page of a behaviour is the same throughout, and with it what depends on it only.
LEMMA PageStays ==
  ASSUME ConsoleNext
  PROVE page' = page
<1>1. CASE \/ ServerReads \/ ListArrives \/ ListFails \/ ListAges \/ Reload
           \/ Enter \/ ShowOptions \/ SwitchTab \/ LeavePage \/ OpenCreate \/ EditViewed \/ CloseDrawer
           \/ Save \/ RemoveOpen \/ RemovePicked
  BY <1>1 DEF ServerReads, ListArrives, ListFails, ListAges, Reload, Enter, ShowOptions, SwitchTab,
     LeavePage, OpenCreate, EditViewed, CloseDrawer, Save, RemoveOpen, RemovePicked, Still, Idling, Send
<1>2. CASE \E c \in Columns : EnterValue(c)
  BY <1>2 DEF EnterValue
<1>3. CASE \E i \in Things : OpenEdit(i) \/ OpenView(i) \/ Pick(i) \/ Remove(i) \/ Enable(i) \/ Disable(i)
                       \/ OthersChange(i) \/ OthersRemove(i)
  BY <1>3 DEF OpenEdit, OpenView, Pick, Remove, Enable, Disable, OthersChange, OthersRemove, Idling, Send
<1>4. CASE \E n \in DOMAIN sent : Executes(n) \/ Refuses(n) \/ Breaks(n) \/ Succeeds(n) \/ Fails(n)
  BY <1>4 DEF Executes, Refuses, Breaks, Succeeds, Fails, Outside
<1> QED
  BY <1>1, <1>2, <1>3, <1>4 DEF ConsoleNext

\* That is what may be listed, and what may be sent.
LEMMA PageOnly ==
  ASSUME page' = page
  PROVE /\ Listed' = Listed /\ ListRow' = ListRow /\ RowList' = RowList
        /\ CacheType' = CacheType /\ RightCall' = RightCall
<1>1. Listed' = Listed
  BY DEF Listed
<1>2. ListRow' = ListRow
  BY <1>1 DEF ListRow
<1>3. RowList' = RowList
  BY <1>2 DEF RowList
<1>4. \A r : Right(r)' <=> Right(r)
  BY <1>1 DEF Right, LeftOver
<1> QED
  BY <1>1, <1>2, <1>3, <1>4 DEF CacheType, RightCall

\* What the list is read as.
LEMMA RowsTyped ==
  ASSUME BaseInv
  PROVE Rows \in RowList
<1> SUFFICES ASSUME NEW i \in Things, things[i] # Missing
             PROVE [c \in Columns |-> IF c \in Listed THEN things[i][c] ELSE Blank] \in ListRow
  BY DEF Rows, RowList
<1>1. things[i] \in Thing
  BY DEF BaseInv
<1>2. \A c \in Columns : things[i][c] \in Cell
  BY <1>1 DEF Thing
<1> QED
  BY <1>2 DEF ListRow, Thing, Cell

\* Nothing entered is well formed.
LEMMA BlanksTyped == Blanks \in ListRow /\ Blanks \in Thing /\ Nothing \in Meant
BY DEF Blanks, ListRow, Thing, Cell, Nothing, Meant

\* A column is set.
LEMMA SetTyped ==
  ASSUME NEW x \in Thing, NEW c \in Columns, NEW v \in Cell
  PROVE [x EXCEPT ![c] = v] \in Thing
BY DEF Thing

\* What can be seen is a row.
LEMMA VisibleRows ==
  ASSUME CacheInv, NEW i \in Visible
  PROVE i \in Things /\ cached.rows \in RowList /\ cached.rows[i] \in ListRow
<1>1. i \in Things /\ cached.rows # Missing /\ cached.rows[i] # Missing
  BY DEF Visible
<1>2. cached.rows \in RowList
  BY <1>1 DEF CacheInv, CacheType
<1> QED
  BY <1>1, <1>2 DEF RowList

\* A component that is mounted means nothing yet.
LEMMA MountedTyped ==
  ASSUME NEW mode \in {"away", "browse"}
  PROVE Mounted(mode) \in ScreenType /\ Mounted(mode).mode = mode
<1>1. "shown" \in Columns
  BY DEF Columns
<1> QED
  BY <1>1, BlanksTyped DEF Mounted, ScreenType

-----------------------------------------------------------------------------
(***************************************************************************)
(* The requests that are under way.                                        *)
(***************************************************************************)
\* Requests whose component is gone are the same requests.
LEMMA OrphanedIs ==
  ASSUME NEW q \in Seq(RightCall)
  PROVE /\ Orphaned(q) \in Seq(RightCall) /\ DOMAIN Orphaned(q) = DOMAIN q
        /\ \A n \in DOMAIN q : Orphaned(q)[n].made = q[n].made
<1>1. \A r \in RightCall : [r EXCEPT !.mine = FALSE] \in RightCall /\ [r EXCEPT !.mine = FALSE].made = r.made
  <2> SUFFICES ASSUME NEW r \in RightCall
               PROVE [r EXCEPT !.mine = FALSE] \in RightCall /\ [r EXCEPT !.mine = FALSE].made = r.made
    OBVIOUS
  <2>1. r \in CallType /\ Right(r)
    BY DEF RightCall
  <2> DEFINE o == [r EXCEPT !.mine = FALSE]
  <2>2. /\ o \in CallType /\ o.op = r.op /\ o.ids = r.ids /\ o.cols = r.cols /\ o.meant = r.meant
        /\ o.made = r.made
    BY <2>1 DEF CallType
  <2> HIDE DEF o
  <2>3. Right(o)
    BY <2>1, <2>2 DEF Right, LeftOver
  <2>4. o \in RightCall /\ o.made = r.made
    BY <2>2, <2>3 DEF RightCall
  <2> QED
    BY <2>4 DEF o
<1>2. \A n \in DOMAIN q : q[n] \in RightCall
  OBVIOUS
<1>3. DOMAIN q = 1..Len(q) /\ Len(q) \in Nat
  OBVIOUS
<1> DEFINE Orphan(r) == [r EXCEPT !.mine = FALSE]
<1>4. Orphaned(q) = [n \in 1..Len(q) |-> Orphan(q[n])]
  BY <1>3 DEF Orphaned
<1>5. \A n \in 1..Len(q) : Orphan(q[n]) \in RightCall /\ Orphan(q[n]).made = q[n].made
  BY <1>1, <1>2, <1>3
<1> HIDE DEF Orphan
<1> QED
  BY <1>3, <1>4, <1>5

\* The others stay when one has been answered.
LEMMA WithoutIs ==
  ASSUME sent \in Seq(RightCall), NEW n \in DOMAIN sent
  PROVE /\ Without(n) \in Seq(RightCall)
        /\ \A k \in DOMAIN Without(n) : \E m \in DOMAIN sent : Without(n)[k] = sent[m]
<1> DEFINE front == SubSeq(sent, 1, n - 1)
           back == SubSeq(sent, n + 1, Len(sent))
<1>1. n \in 1..Len(sent) /\ Len(sent) \in Nat /\ DOMAIN sent = 1..Len(sent)
  OBVIOUS
<1>2. \A m \in 1..Len(sent) : sent[m] \in RightCall
  OBVIOUS
<1>3. /\ front \in Seq(RightCall) /\ Len(front) = n - 1
      /\ \A k \in 1..(n - 1) : front[k] = sent[k]
  <2>1. 1 \in Int /\ n - 1 \in Int /\ \A k \in 1..(n - 1) : sent[k] \in RightCall
    BY <1>1, <1>2
  <2>2. /\ front \in Seq(RightCall) /\ Len(front) = (IF 1 <= n - 1 THEN (n - 1) - 1 + 1 ELSE 0)
        /\ \A k \in 1..((n - 1) - 1 + 1) : front[k] = sent[1 + k - 1]
    BY <2>1, SubSeqProperties
  <2> HIDE DEF front
  <2> QED
    BY <1>1, <2>2
<1>4. /\ back \in Seq(RightCall) /\ Len(back) = Len(sent) - n
      /\ \A k \in 1..(Len(sent) - n) : back[k] = sent[n + k]
  <2>1. n + 1 \in Int /\ Len(sent) \in Int /\ \A k \in (n + 1)..Len(sent) : sent[k] \in RightCall
    BY <1>1, <1>2
  <2>2. /\ back \in Seq(RightCall) /\ Len(back) = (IF n + 1 <= Len(sent) THEN Len(sent) - (n + 1) + 1 ELSE 0)
        /\ \A k \in 1..(Len(sent) - (n + 1) + 1) : back[k] = sent[(n + 1) + k - 1]
    BY <2>1, SubSeqProperties
  <2> HIDE DEF back
  <2>3. Len(back) = Len(sent) - n
    BY <1>1, <2>2
  <2>4. ASSUME NEW k \in 1..(Len(sent) - n) PROVE back[k] = sent[n + k]
    <3>1. k \in 1..(Len(sent) - (n + 1) + 1) /\ (n + 1) + k - 1 = n + k
      BY <1>1
    <3> QED
      BY <2>2, <3>1
  <2> QED
    BY <2>2, <2>3, <2>4
<1>5. Without(n) = front \o back
  BY DEF Without, Seqs!RemoveAt
<1> HIDE DEF front, back
<1>6. /\ front \o back \in Seq(RightCall) /\ Len(front \o back) = Len(front) + Len(back)
      /\ \A k \in 1..(Len(front) + Len(back)) :
           (front \o back)[k] = IF k <= Len(front) THEN front[k] ELSE back[k - Len(front)]
  BY <1>3, <1>4, ConcatProperties
<1>7. \A k \in 1..(Len(sent) - 1) : (front \o back)[k] = IF k < n THEN sent[k] ELSE sent[k + 1]
  <2> SUFFICES ASSUME NEW k \in 1..(Len(sent) - 1)
               PROVE (front \o back)[k] = IF k < n THEN sent[k] ELSE sent[k + 1]
    OBVIOUS
  <2>1. (front \o back)[k] = IF k <= n - 1 THEN front[k] ELSE back[k - (n - 1)]
    BY <1>1, <1>3, <1>4, <1>6
  <2>2. CASE k < n
    BY <1>1, <1>3, <2>1, <2>2
  <2>3. CASE ~(k < n)
    <3>1. k - (n - 1) \in 1..(Len(sent) - n) /\ n + (k - (n - 1)) = k + 1
      BY <1>1, <2>3
    <3>2. (front \o back)[k] = back[k - (n - 1)]
      BY <1>1, <2>1, <2>3
    <3>3. back[k - (n - 1)] = sent[n + (k - (n - 1))]
      BY <1>4, <3>1
    <3> QED
      BY <2>3, <3>1, <3>2, <3>3
  <2> QED
    BY <2>2, <2>3
<1>8. ASSUME NEW k \in DOMAIN Without(n) PROVE \E m \in DOMAIN sent : Without(n)[k] = sent[m]
  <2>1. k \in 1..(Len(sent) - 1)
    BY <1>1, <1>3, <1>4, <1>5, <1>6
  <2>2. Without(n)[k] = IF k < n THEN sent[k] ELSE sent[k + 1]
    BY <1>5, <1>7, <2>1
  <2>3. k \in DOMAIN sent /\ k + 1 \in DOMAIN sent
    BY <1>1, <2>1
  <2> QED
    BY <2>2, <2>3
<1> QED
  BY <1>5, <1>6, <1>8

\* An answer is noted: the request stays what it is.
LEMMA MarkedIs ==
  ASSUME sent \in Seq(RightCall), NEW n \in DOMAIN sent, NEW o \in CallType,
         o.op = sent[n].op, o.ids = sent[n].ids, o.cols = sent[n].cols, o.meant = sent[n].meant
  PROVE LET q == [sent EXCEPT ![n] = o] IN
        /\ q \in Seq(RightCall) /\ DOMAIN q = DOMAIN sent
        /\ \A k \in DOMAIN sent : q[k].made = IF k = n THEN o.made ELSE sent[k].made
<1>1. Right(sent[n])
  BY DEF RightCall
<1>2. Right(o)
  BY <1>1 DEF Right, LeftOver
<1>3. o \in RightCall
  BY <1>2 DEF RightCall
<1> QED
  BY <1>3

\* What is sent is what was meant, and the others stay as they are, but for how far
\* they have got.
LEMMA SentKeeps ==
  ASSUME ConsoleInvar, ConsoleNext
  PROVE SentInv'
<1>0. /\ page' = page /\ sent \in Seq(RightCall) /\ changes \in Nat
      /\ \A n \in DOMAIN sent : sent[n].made <= changes
  BY PageStays DEF ConsoleInvar, SentInv, BaseInv
<1>1. RightCall' = RightCall
  BY <1>0, PageOnly
<1>2. \A n \in DOMAIN sent : sent[n] \in CallType
  BY <1>0 DEF RightCall
<1>3. SUFFICES sent' \in Seq(RightCall) /\ \A n \in DOMAIN sent' : sent'[n].made <= changes'
  BY <1>1 DEF SentInv
<1>4. ASSUME sent' = sent, changes' = changes PROVE sent' \in Seq(RightCall) /\ \A n \in DOMAIN sent' : sent'[n].made <= changes'
  BY <1>0, <1>4
<1>5. ASSUME sent' = Orphaned(sent), changes' = changes
      PROVE sent' \in Seq(RightCall) /\ \A n \in DOMAIN sent' : sent'[n].made <= changes'
  BY <1>0, <1>5, OrphanedIs
<1>6. ASSUME NEW n \in DOMAIN sent, sent' = Without(n), changes' \in Nat, changes <= changes'
      PROVE sent' \in Seq(RightCall) /\ \A k \in DOMAIN sent' : sent'[k].made <= changes'
  <2>1. /\ Without(n) \in Seq(RightCall)
        /\ \A k \in DOMAIN Without(n) : \E m \in DOMAIN sent : Without(n)[k] = sent[m]
    BY <1>0, WithoutIs
  <2>2. ASSUME NEW k \in DOMAIN sent' PROVE sent'[k].made <= changes'
    <3>1. PICK m \in DOMAIN sent : sent'[k] = sent[m]
      BY <1>6, <2>1
    <3>2. sent[m].made \in Nat /\ sent[m].made <= changes
      BY <1>0, <1>2 DEF CallType
    <3> QED
      BY <1>0, <1>6, <3>1, <3>2
  <2> QED
    BY <1>6, <2>1, <2>2
<1>7. ASSUME NEW n \in DOMAIN sent, NEW o \in CallType, sent' = [sent EXCEPT ![n] = o],
             o.op = sent[n].op, o.ids = sent[n].ids, o.cols = sent[n].cols, o.meant = sent[n].meant,
             changes' \in Nat, changes <= changes', o.made <= changes'
      PROVE sent' \in Seq(RightCall) /\ \A k \in DOMAIN sent' : sent'[k].made <= changes'
  <2>1. /\ sent' \in Seq(RightCall) /\ DOMAIN sent' = DOMAIN sent
        /\ \A k \in DOMAIN sent : sent'[k].made = IF k = n THEN o.made ELSE sent[k].made
    BY <1>0, <1>7, MarkedIs
  <2>2. \A k \in DOMAIN sent : sent[k].made \in Nat
    BY <1>2 DEF CallType
  <2> QED
    BY <1>0, <1>7, <2>1, <2>2
<1>8. ASSUME NEW r \in RightCall, sent' = Append(sent, r), r.made = 0, changes' = changes
      PROVE sent' \in Seq(RightCall) /\ \A n \in DOMAIN sent' : sent'[n].made <= changes'
  <2>1. /\ sent' \in Seq(RightCall) /\ DOMAIN sent' = 1..(Len(sent) + 1) /\ DOMAIN sent = 1..Len(sent)
        /\ \A k \in 1..Len(sent) : sent'[k] = sent[k]
        /\ sent'[Len(sent) + 1] = r /\ Len(sent) \in Nat
    BY <1>0, <1>8
  <2> QED
    BY <1>0, <1>8, <2>1
<1>9. ASSUME NEW op \in {"save", "remove", "removeOpen", "removeMany", "enable", "disable"},
             NEW ids \in SUBSET Things, NEW cols \in Thing, NEW meant \in Meant
      PROVE Call(op, ids, cols, meant) \in CallType /\ Call(op, ids, cols, meant).made = 0
  BY DEF Call, CallType
<1>10. ASSUME NEW op \in {"remove", "removeOpen", "removeMany", "enable", "disable"},
              NEW ids \in SUBSET Things, NEW cols \in Thing, NEW meant \in Meant
       PROVE Call(op, ids, cols, meant) \in RightCall /\ Call(op, ids, cols, meant).made = 0
  <2>1. Call(op, ids, cols, meant) \in CallType /\ Call(op, ids, cols, meant).made = 0
    BY <1>9
  <2>2. Right(Call(op, ids, cols, meant))
    BY DEF Right, Call
  <2> QED
    BY <2>1, <2>2 DEF RightCall
<1>11. CASE ServerReads \/ ListAges \/ Reload \/ Enter \/ ShowOptions \/ EditViewed \/ CloseDrawer
  BY <1>4, <1>11 DEF ServerReads, ListAges, Reload, Enter, ShowOptions, EditViewed, CloseDrawer, Still, Idling
<1>12. CASE ListArrives \/ ListFails
  <2>1. (sent' = sent \/ sent' = Orphaned(sent)) /\ changes' = changes
    BY <1>12 DEF ListArrives, ListFails, Unmounts
  <2> QED
    BY <1>4, <1>5, <2>1
<1>13. CASE SwitchTab \/ LeavePage \/ OpenCreate
  <2>1. (sent' = sent \/ sent' = Orphaned(sent)) /\ changes' = changes
    BY <1>13 DEF SwitchTab, LeavePage, OpenCreate
  <2> QED
    BY <1>4, <1>5, <2>1
<1>14. CASE \E c \in Columns : EnterValue(c)
  BY <1>4, <1>14 DEF EnterValue
<1>15. CASE \E i \in Things : OpenEdit(i) \/ OpenView(i) \/ Pick(i) \/ OthersRemove(i)
  <2>1. sent' = sent /\ (changes' = changes \/ changes' = changes + 1)
    BY <1>15 DEF OpenEdit, OpenView, Pick, OthersRemove, Idling
  <2> QED
    BY <1>0, <1>2, <2>1 DEF CallType
<1>16. CASE \E i \in Things : OthersChange(i)
  <2>1. sent' = sent /\ changes' = changes + 1
    BY <1>16 DEF OthersChange
  <2> QED
    BY <1>0, <1>2, <2>1 DEF CallType
<1>17. CASE Save
  <2> DEFINE ids == IF screen.mode = "edit" THEN {screen.id} ELSE {}
             cols == IF page = "options" THEN OptionsPayload ELSE FormPayload
             r == Call("save", ids, cols, screen.meant)
  <2>1. /\ sent' = Append(sent, r) /\ changes' = changes /\ screen.mode \in {"create", "edit"}
    BY <1>17 DEF Save, Send
  <2>2. /\ screen.form \in Thing /\ screen.meant \in Meant
        /\ screen.mode = "edit" => screen.id \in Things /\ screen.meant.id = screen.id
        /\ screen.mode = "create" => screen.meant.id = Missing
        /\ \A c \in Columns :
             IF c \in InForm
             THEN screen.form[c] # screen.meant.cols[c] =>
                    screen.meant.cols[c] = Blank /\ LeftOver(screen, c)
             ELSE screen.meant.cols[c] = Blank
    BY <2>1 DEF ConsoleInvar, ScreenInv, ScreenType
  <2>3. ids = IF screen.meant.id = Missing THEN {} ELSE {screen.meant.id}
    BY <2>1, <2>2, ConsoleAssumption
  <2>4. ids \in SUBSET Things
    BY <2>2
  <2>5. page = "options" => screen.mode = "edit" /\ cached.rows[1] \in Thing
    <3>1. page = "options" /\ screen.mode = "edit" => cached.rows[1] \in Thing
      BY DEF ConsoleInvar, OptionsInv, ListRow
    <3> QED
      BY <2>1, <3>1 DEF ConsoleInvar, ScreenInv
  <2>6. cols \in Thing
    <3>1. \A c \in Columns : screen.form[c] \in Cell /\ Blank \in Cell
      BY <2>2 DEF Thing, Cell
    <3>2. page = "options" => \A c \in Columns : cached.rows[1][c] \in Cell
      BY <2>5 DEF Thing
    <3> QED
      BY <3>1, <3>2 DEF Thing, OptionsPayload, FormPayload
  <2>7. \A c \in Columns : cols[c] # screen.meant.cols[c] =>
          screen.meant.cols[c] = Blank /\ LeftOver(screen, c)
    <3> SUFFICES ASSUME NEW c \in Columns, cols[c] # screen.meant.cols[c]
                 PROVE screen.meant.cols[c] = Blank /\ LeftOver(screen, c)
      OBVIOUS
    <3>1. CASE c \in InForm
      <4>1. cols[c] = screen.form[c]
        BY <3>1 DEF OptionsPayload, FormPayload
      <4> QED
        BY <2>2, <3>1, <4>1
    <3>2. CASE c \notin InForm
      <4>1. screen.meant.cols[c] = Blank
        BY <2>2, <3>2
      <4>2. page # "options" => cols[c] = Blank
        BY <3>2 DEF FormPayload
      <4> QED
        BY <4>1, <4>2 DEF LeftOver
    <3> QED
      BY <3>1, <3>2
  <2> HIDE DEF ids, cols
  <2>8. r \in CallType /\ r.made = 0
    BY <1>9, <2>2, <2>4, <2>6
  <2>9. Right(r)
    <3>1. r.ids = ids /\ r.cols = cols /\ r.meant = screen.meant
      BY DEF Call
    <3> HIDE DEF r
    <3>2. \A c \in Columns : LeftOver(screen, c) <=> LeftOver(r, c)
      BY <3>1 DEF LeftOver
    <3> QED
      BY <2>3, <2>7, <3>1, <3>2 DEF Right
  <2>10. r \in RightCall
    BY <2>8, <2>9 DEF RightCall
  <2> HIDE DEF r
  <2> QED
    BY <1>8, <2>1, <2>8, <2>10
<1>18. CASE RemoveOpen \/ RemovePicked \/ \E i \in Things : Remove(i) \/ Enable(i) \/ Disable(i)
  <2>1. changes' = changes
    BY <1>18 DEF RemoveOpen, RemovePicked, Remove, Enable, Disable, Send
  <2>2. \E op \in {"remove", "removeOpen", "removeMany", "enable", "disable"}, ids \in SUBSET Things,
           cols \in Thing : sent' = Append(sent, Call(op, ids, cols, Nothing))
    <3>1. CASE RemoveOpen
      <4>1. sent' = Append(sent, Call("removeOpen", {1}, Blanks, Nothing))
        BY <3>1 DEF RemoveOpen, Send
      <4>2. {1} \in SUBSET Things
        BY ConsoleAssumption
      <4> QED
        BY <4>1, <4>2, BlanksTyped
    <3>2. CASE RemovePicked
      <4>1. sent' = Append(sent, Call("removeMany", screen.picked, Blanks, Nothing))
        BY <3>2 DEF RemovePicked, Send
      <4>2. screen.picked \in SUBSET Things
        BY DEF ConsoleInvar, ScreenInv, ScreenType
      <4> QED
        BY <4>1, <4>2, BlanksTyped
    <3>3. ASSUME NEW i \in Things, Remove(i)
          PROVE \E op \in {"remove", "removeOpen", "removeMany", "enable", "disable"}, ids \in SUBSET Things,
                   cols \in Thing : sent' = Append(sent, Call(op, ids, cols, Nothing))
      <4>1. sent' = Append(sent, Call("remove", {i}, Blanks, Nothing))
        BY <3>3 DEF Remove, Send
      <4>2. {i} \in SUBSET Things
        OBVIOUS
      <4> QED
        BY <4>1, <4>2, BlanksTyped
    <3>4. ASSUME NEW i \in Things, Enable(i)
          PROVE \E op \in {"remove", "removeOpen", "removeMany", "enable", "disable"}, ids \in SUBSET Things,
                   cols \in Thing : sent' = Append(sent, Call(op, ids, cols, Nothing))
      <4> DEFINE on == [cached.rows[i] EXCEPT !["kept"] = On]
      <4>1. sent' = Append(sent, Call("enable", {i}, on, Nothing)) /\ i \in Visible
        BY <3>4 DEF Enable, Send
      <4>2. cached.rows[i] \in Thing
        BY <4>1, VisibleRows DEF ConsoleInvar, ListRow
      <4>3. on \in Thing
        BY <4>2, SetTyped DEF Cell, On, Columns
      <4>4. {i} \in SUBSET Things
        OBVIOUS
      <4> HIDE DEF on
      <4> QED
        BY <4>1, <4>3, <4>4
    <3>5. ASSUME NEW i \in Things, Disable(i)
          PROVE \E op \in {"remove", "removeOpen", "removeMany", "enable", "disable"}, ids \in SUBSET Things,
                   cols \in Thing : sent' = Append(sent, Call(op, ids, cols, Nothing))
      <4> DEFINE off == [Blanks EXCEPT !["kept"] = Off]
      <4>1. sent' = Append(sent, Call("disable", {i}, off, Nothing))
        BY <3>5 DEF Disable, Send
      <4>2. off \in Thing
        BY BlanksTyped, SetTyped DEF Cell, Off, Columns
      <4>3. {i} \in SUBSET Things
        OBVIOUS
      <4> HIDE DEF off
      <4> QED
        BY <4>1, <4>2, <4>3
    <3> QED
      BY <1>18, <3>1, <3>2, <3>3, <3>4, <3>5
  <2>3. PICK op \in {"remove", "removeOpen", "removeMany", "enable", "disable"}, ids \in SUBSET Things,
             cols \in Thing : sent' = Append(sent, Call(op, ids, cols, Nothing))
    BY <2>2
  <2>4. Call(op, ids, cols, Nothing) \in RightCall /\ Call(op, ids, cols, Nothing).made = 0
    BY <1>10, BlanksTyped
  <2> QED
    BY <1>8, <2>1, <2>3, <2>4
<1>19. ASSUME NEW n \in DOMAIN sent, Executes(n)
       PROVE sent' \in Seq(RightCall) /\ \A k \in DOMAIN sent' : sent'[k].made <= changes'
  <2>1. changes' = changes + 1 /\ changes' \in Nat /\ changes <= changes'
    BY <1>0, <1>19 DEF Executes
  <2>2. CASE sent[n].at = "adrift"
    <3>1. sent' = Without(n)
      BY <1>19, <2>2 DEF Executes
    <3> QED
      BY <1>6, <2>1, <3>1
  <2>3. CASE sent[n].at # "adrift"
    <3> DEFINE o == [sent[n] EXCEPT !.at = "done", !.made = changes']
    <3>1. sent' = [sent EXCEPT ![n] = o]
      BY <1>19, <2>3 DEF Executes
    <3>2. /\ o \in CallType /\ o.op = sent[n].op /\ o.ids = sent[n].ids /\ o.cols = sent[n].cols
          /\ o.meant = sent[n].meant /\ o.made = changes'
      BY <1>2, <2>1 DEF CallType
    <3> HIDE DEF o
    <3>3. o.made <= changes'
      BY <2>1, <3>2
    <3> QED
      BY <1>7, <2>1, <3>1, <3>2, <3>3
  <2> QED
    BY <2>2, <2>3
<1>20. ASSUME NEW n \in DOMAIN sent, Refuses(n) \/ Breaks(n)
       PROVE sent' \in Seq(RightCall) /\ \A k \in DOMAIN sent' : sent'[k].made <= changes'
  <2>1. /\ changes' = changes
        /\ sent' = Without(n) \/ \E at \in {"refused", "adrift"} : sent' = Marked(n, at)
    BY <1>20 DEF Refuses, Breaks
  <2>2. CASE sent' = Without(n)
    BY <1>0, <1>6, <2>1, <2>2
  <2>3. CASE \E at \in {"refused", "adrift"} : sent' = Marked(n, at)
    <3>1. PICK at \in {"refused", "adrift"} : sent' = Marked(n, at)
      BY <2>3
    <3> DEFINE o == [sent[n] EXCEPT !.at = at]
    <3>2. sent' = [sent EXCEPT ![n] = o]
      BY <3>1 DEF Marked
    <3>3. /\ o \in CallType /\ o.op = sent[n].op /\ o.ids = sent[n].ids /\ o.cols = sent[n].cols
          /\ o.meant = sent[n].meant /\ o.made = sent[n].made
      BY <1>2 DEF CallType
    <3> HIDE DEF o
    <3>4. o.made <= changes' /\ changes <= changes' /\ changes' \in Nat
      BY <1>0, <2>1, <3>3
    <3> QED
      BY <1>7, <3>2, <3>3, <3>4
  <2> QED
    BY <2>1, <2>2, <2>3
<1>21. ASSUME NEW n \in DOMAIN sent, Succeeds(n)
       PROVE sent' \in Seq(RightCall) /\ \A k \in DOMAIN sent' : sent'[k].made <= changes'
  <2>1. changes' = changes /\ (sent' = Without(n) \/ sent' = Orphaned(Without(n)))
    BY <1>21 DEF Succeeds
  <2>2. CASE sent' = Without(n)
    BY <1>0, <1>6, <2>1, <2>2
  <2>3. CASE sent' = Orphaned(Without(n))
    <3>1. /\ Without(n) \in Seq(RightCall)
          /\ \A k \in DOMAIN Without(n) : \E m \in DOMAIN sent : Without(n)[k] = sent[m]
      BY <1>0, WithoutIs
    <3>2. /\ sent' \in Seq(RightCall) /\ DOMAIN sent' = DOMAIN Without(n)
          /\ \A k \in DOMAIN Without(n) : sent'[k].made = Without(n)[k].made
      BY <2>3, <3>1, OrphanedIs
    <3> QED
      BY <1>0, <2>1, <3>1, <3>2
  <2> QED
    BY <2>1, <2>2, <2>3
<1>22. ASSUME NEW n \in DOMAIN sent, Fails(n)
       PROVE sent' \in Seq(RightCall) /\ \A k \in DOMAIN sent' : sent'[k].made <= changes'
  <2>1. sent' = Without(n) /\ changes' = changes
    BY <1>22 DEF Fails
  <2> QED
    BY <1>0, <1>6, <2>1
<1> QED
  BY <1>11, <1>12, <1>13, <1>14, <1>15, <1>16, <1>17, <1>18, <1>19, <1>20, <1>21, <1>22 DEF ConsoleNext

-----------------------------------------------------------------------------
(***************************************************************************)
(* What the server has, and the list.                                      *)
(***************************************************************************)
\* The server has things, and no list has been told of a change that it has not made.
LEMMA BaseKeeps ==
  ASSUME ConsoleInvar, ConsoleNext
  PROVE BaseInv'
<1>0. /\ page' = page /\ page \in Pages /\ things \in [Things -> Thing \cup {Missing}]
      /\ changes \in Nat /\ events \in Nat /\ due \in Nat /\ due <= changes
      /\ sent \in Seq(RightCall)
  BY PageStays DEF ConsoleInvar, BaseInv, SentInv
<1>1. \A n \in DOMAIN sent : sent[n] \in CallType /\ sent[n].made <= changes
  BY <1>0 DEF ConsoleInvar, SentInv, RightCall
<1>2. CASE \/ ServerReads \/ ListArrives \/ ListFails \/ ListAges \/ Reload
           \/ Enter \/ ShowOptions \/ SwitchTab \/ LeavePage \/ OpenCreate \/ EditViewed \/ CloseDrawer
           \/ Save \/ RemoveOpen \/ RemovePicked
  <2>1. things' = things /\ changes' = changes /\ due' = due /\ (events' = events \/ events' = events + 1)
    BY <1>2 DEF ServerReads, ListArrives, ListFails, ListAges, Reload, Enter, ShowOptions, SwitchTab,
     LeavePage, OpenCreate, EditViewed, CloseDrawer, Save, RemoveOpen, RemovePicked, Still, Idling, Send,
     Happens, Disturbs, Counts, Unmounts
  <2> QED
    BY <1>0, <2>1 DEF BaseInv
<1>3. CASE \/ \E c \in Columns : EnterValue(c)
           \/ \E i \in Things : OpenEdit(i) \/ OpenView(i) \/ Pick(i) \/ Remove(i) \/ Enable(i) \/ Disable(i)
           \/ \E n \in DOMAIN sent : Refuses(n) \/ Breaks(n) \/ Fails(n)
  <2>1. things' = things /\ changes' = changes /\ due' = due /\ (events' = events \/ events' = events + 1)
    BY <1>3 DEF EnterValue, OpenEdit, OpenView, Pick, Remove, Enable, Disable, Refuses, Breaks, Fails,
     Idling, Send, Happens, Disturbs, Counts, Outside
  <2> QED
    BY <1>0, <2>1 DEF BaseInv
<1>4. ASSUME NEW i \in Things, OthersChange(i) PROVE BaseInv'
  <2>1. /\ things[i] # Missing /\ changes' = changes + 1 /\ events' = events + 1 /\ due' = due
        /\ \E c \in Columns : things' = [things EXCEPT ![i] = [things[i] EXCEPT ![c] = 20 + events']]
    BY <1>4 DEF OthersChange, Disturbs, Counts
  <2>2. \A c \in Columns : [things[i] EXCEPT ![c] = 20 + events'] \in Thing
    BY <1>0, <2>1 DEF Thing, Cell
  <2>3. things' \in [Things -> Thing \cup {Missing}]
    BY <1>0, <2>1, <2>2
  <2> QED
    BY <1>0, <2>1, <2>3 DEF BaseInv
<1>5. ASSUME NEW i \in Things, OthersRemove(i) PROVE BaseInv'
  <2>1. /\ changes' = changes + 1 /\ events' = events + 1 /\ due' = due
        /\ things' = [things EXCEPT ![i] = Missing]
    BY <1>5 DEF OthersRemove, Disturbs, Counts
  <2> QED
    BY <1>0, <2>1 DEF BaseInv
<1>6. ASSUME NEW n \in DOMAIN sent, Executes(n) PROVE BaseInv'
  <2>1. things' \in After(sent[n]) /\ changes' = changes + 1 /\ events' = events /\ due' = due
    BY <1>6 DEF Executes, Outside
  <2>2. sent[n].cols \in Thing
    BY <1>1 DEF CallType
  <2> DEFINE cols == sent[n].cols
             r == sent[n]
  <2>3. \A i \in Things : Created(i, cols) \in Thing
    BY <2>2 DEF Created, Thing, Cell
  <2>4. \A i \in Things : things[i] # Missing => Overlaid(i, cols) \in Thing
    <3> SUFFICES ASSUME NEW i \in Things, things[i] # Missing PROVE Overlaid(i, cols) \in Thing
      OBVIOUS
    <3>1. things[i] \in Thing
      BY <1>0
    <3>2. \A c \in Columns : things[i][c] \in Cell /\ cols[c] \in Cell
      BY <2>2, <3>1 DEF Thing
    <3> HIDE DEF cols
    <3> QED
      BY <3>2 DEF Overlaid, Thing
  <2> HIDE DEF cols
  <2>5. things' \in [Things -> Thing \cup {Missing}]
    <3>1. \/ \E i \in Things : things' = [things EXCEPT ![i] = Created(i, cols)]
          \/ \E i \in Things : things[i] # Missing /\ things' = [things EXCEPT ![i] = Overlaid(i, cols)]
          \/ things' = [i \in Things |-> IF i \in r.ids THEN Missing ELSE things[i]]
      <4>1. r.ids \in SUBSET Things
        BY <1>1 DEF CallType
      <4>2. CASE r.op = "save" /\ r.ids = {}
        <5>1. things' \in {[things EXCEPT ![i] = Created(i, r.cols)] :
            i \in {i \in Things : things[i] = Missing /\ \A j \in Things : j < i => things[j] # Missing}}
          BY <2>1, <4>2 DEF After
        <5> QED
          BY <5>1 DEF cols
      <4>3. CASE r.op \in {"save", "enable", "disable"} /\ r.ids # {}
        <5>1. things' \in {[things EXCEPT ![i] = Overlaid(i, r.cols)] : i \in {i \in r.ids : things[i] # Missing}}
          BY <2>1, <4>3 DEF After
        <5> QED
          BY <4>1, <5>1 DEF cols
      <4>4. CASE ~(r.op = "save" /\ r.ids = {}) /\ ~(r.op \in {"save", "enable", "disable"} /\ r.ids # {})
        <5>1. things' \in {[i \in Things |-> IF i \in r.ids THEN Missing ELSE things[i]]}
          BY <2>1, <4>4 DEF After
        <5> QED
          BY <5>1
      <4> QED
        BY <4>2, <4>3, <4>4
    <3> HIDE DEF r
    <3>2. CASE \E i \in Things : things' = [things EXCEPT ![i] = Created(i, cols)]
      BY <1>0, <2>3, <3>2
    <3>3. CASE \E i \in Things : things[i] # Missing /\ things' = [things EXCEPT ![i] = Overlaid(i, cols)]
      BY <1>0, <2>4, <3>3
    <3>4. CASE things' = [i \in Things |-> IF i \in r.ids THEN Missing ELSE things[i]]
      BY <1>0, <3>4
    <3> QED
      BY <3>1, <3>2, <3>3, <3>4
  <2> QED
    BY <1>0, <2>1, <2>5 DEF BaseInv
<1>7. ASSUME NEW n \in DOMAIN sent, Succeeds(n) PROVE BaseInv'
  <2>1. /\ things' = things /\ changes' = changes /\ events' = events
        /\ due' = due \/ due' = sent[n].made
    BY <1>7 DEF Succeeds
  <2>2. sent[n].made \in Nat /\ sent[n].made <= changes
    BY <1>1 DEF CallType
  <2> QED
    BY <1>0, <2>1, <2>2 DEF BaseInv
<1> QED
  BY <1>2, <1>3, <1>4, <1>5, <1>6, <1>7 DEF ConsoleNext

\* A query that asks again is no longer at rest, and one that is told is stale.
LEMMA AskedTyped ==
  ASSUME NEW q \in CacheType
  PROVE /\ Asked(q) \in CacheType /\ Asked(q).fetch = "asked" /\ Asked(q).rows = q.rows
        /\ [q EXCEPT !.stale = TRUE] \in CacheType /\ [q EXCEPT !.stale = TRUE].rows = q.rows
        /\ [q EXCEPT !.stale = TRUE].stale /\ [q EXCEPT !.stale = TRUE].fetch = q.fetch
        /\ [q EXCEPT !.stale = TRUE].reading = q.reading /\ [q EXCEPT !.stale = TRUE].readAt = q.readAt
BY DEF Asked, CacheType

\* What is told to nobody is due to nobody: a list that asks anew will read what is
\* there by then.
LEMMA CacheKeeps ==
  ASSUME ConsoleInvar, ConsoleNext
  PROVE CacheInv' /\ (~ListArrives => cached'.rows = cached.rows)
<1>0. /\ page' = page /\ BaseInv /\ CacheInv /\ cached \in CacheType
      /\ changes \in Nat /\ due \in Nat /\ due <= changes
  BY PageStays DEF ConsoleInvar, BaseInv, CacheInv
<1>1. CacheType' = CacheType /\ RowList' = RowList
  BY <1>0, PageOnly
<1>2. SUFFICES
        /\ cached' \in CacheType
        /\ cached'.fetch = "read" => cached'.reading \in RowList /\ due' <= cached'.readAt
        /\ cached'.fetch = "none" /\ ~cached'.stale /\ cached'.rows # Missing => due' <= cached'.at
        /\ ~ListArrives => cached'.rows = cached.rows
  BY <1>1 DEF CacheInv
<1>3. /\ cached.fetch = "read" => cached.reading \in RowList /\ due <= cached.readAt
      /\ cached.fetch = "none" /\ ~cached.stale /\ cached.rows # Missing => due <= cached.at
  BY <1>0 DEF CacheInv
<1>4. CASE cached' = cached /\ due' = due
  BY <1>0, <1>3, <1>4
<1>5. CASE cached' = Asked(cached)
  BY <1>0, <1>5, AskedTyped
<1>6. CASE ShowOptions \/ SwitchTab \/ LeavePage \/ OpenCreate \/ EditViewed \/ Save \/ RemoveOpen
           \/ RemovePicked
  BY <1>4, <1>6 DEF ShowOptions, SwitchTab, LeavePage, OpenCreate, EditViewed, Save, RemoveOpen,
     RemovePicked, Idling, Send
<1>7. CASE \/ \E c \in Columns : EnterValue(c)
           \/ \E i \in Things : OpenEdit(i) \/ OpenView(i) \/ Pick(i) \/ Remove(i) \/ Enable(i) \/ Disable(i)
                                \/ OthersChange(i) \/ OthersRemove(i)
           \/ \E n \in DOMAIN sent : Executes(n) \/ Refuses(n) \/ Breaks(n) \/ Fails(n)
  <2>1. cached' = cached /\ due' = due
    BY <1>7 DEF EnterValue, OpenEdit, OpenView, Pick, Remove, Enable, Disable, OthersChange, OthersRemove,
       Executes, Refuses, Breaks, Fails, Idling, Send, Outside
  <2> QED
    BY <1>4, <2>1
<1>8. CASE ServerReads
  <2>1. /\ cached' = [cached EXCEPT !.fetch = "read", !.reading = Rows, !.readAt = changes]
        /\ due' = due
    BY <1>8 DEF ServerReads, Still
  <2>2. Rows \in RowList
    BY <1>0, RowsTyped
  <2>3. /\ cached' \in CacheType /\ cached'.fetch = "read" /\ cached'.reading = Rows
        /\ cached'.readAt = changes /\ cached'.rows = cached.rows
    BY <1>0, <2>1, <2>2 DEF CacheType
  <2> QED
    BY <1>0, <2>1, <2>2, <2>3
<1>9. CASE ListArrives
  <2>1. /\ cached.fetch = "read" /\ due' = due
        /\ cached' = [cached EXCEPT !.rows = cached.reading, !.at = cached.readAt, !.stale = FALSE,
                              !.fetch = "none", !.reading = Missing, !.readAt = 0, !.failed = FALSE]
    BY <1>9 DEF ListArrives
  <2>2. cached' \in CacheType /\ cached'.fetch = "none" /\ cached'.at = cached.readAt
    BY <1>0, <2>1 DEF CacheType
  <2> QED
    BY <1>3, <1>9, <2>1, <2>2
<1>10. CASE ListFails
  <2>1. /\ cached' = [cached EXCEPT !.stale = TRUE, !.fetch = "none", !.reading = Missing, !.readAt = 0,
                              !.failed = (page = "options")]
    BY <1>10 DEF ListFails
  <2>2. (page = "options") \in BOOLEAN
    OBVIOUS
  <2>3. cached' \in CacheType /\ cached'.fetch = "none" /\ cached'.stale /\ cached'.rows = cached.rows
    BY <1>0, <2>1, <2>2 DEF CacheType
  <2> QED
    BY <2>3
<1>11. CASE ListAges
  <2>1. cached' = [cached EXCEPT !.stale = TRUE] /\ due' = due
    BY <1>11 DEF ListAges, Still
  <2> QED
    BY <1>0, <1>3, <2>1, AskedTyped
<1>12. CASE Reload
  BY <1>5, <1>12 DEF Reload
<1>13. CASE Enter \/ CloseDrawer
  <2>1. due' = due /\ (cached' = cached \/ cached' = Asked(cached))
    BY <1>13 DEF Enter, CloseDrawer, Idling, Subscribed
  <2> QED
    BY <1>4, <1>5, <2>1
<1>14. ASSUME NEW n \in DOMAIN sent, Succeeds(n)
       PROVE /\ cached' \in CacheType
             /\ cached'.fetch = "read" => cached'.reading \in RowList /\ due' <= cached'.readAt
             /\ cached'.fetch = "none" /\ ~cached'.stale /\ cached'.rows # Missing => due' <= cached'.at
             /\ cached'.rows = cached.rows
  <2> DEFINE r == sent[n]
             known == IF Invalidates(r) THEN Invalidated(cached, screen) ELSE cached
             marked == [cached EXCEPT !.stale = TRUE]
  <2>1. /\ cached' = known \/ cached' = Asked(known)
        /\ due' = IF Invalidates(r) /\ ~Overlooked(cached, screen) /\ r.made > due THEN r.made ELSE due
    BY <1>14 DEF Succeeds, Subscribed
  <2>2. marked \in CacheType /\ marked.rows = cached.rows /\ marked.stale /\ marked.fetch = cached.fetch
        /\ marked.reading = cached.reading /\ marked.readAt = cached.readAt
    BY <1>0, AskedTyped
  <2>3. known = cached \/ known = marked \/ known = Asked(marked)
    BY DEF Invalidated
  <2> HIDE DEF marked
  <2>4. Asked(marked) \in CacheType /\ Asked(marked).fetch = "asked" /\ Asked(marked).rows = cached.rows
    BY <2>2, AskedTyped
  <2>5. known \in CacheType /\ known.rows = cached.rows
    BY <1>0, <2>2, <2>3, <2>4
  <2>6. CASE cached' = Asked(known)
    <3> HIDE DEF known
    <3>1. cached' \in CacheType /\ cached'.fetch = "asked" /\ cached'.rows = cached.rows
      BY <2>5, <2>6, AskedTyped
    <3> QED
      BY <3>1
  <2>7. CASE cached' = known
    <3>1. CASE ~Invalidates(r)
      <4>1. cached' = cached /\ due' = due
        BY <2>1, <2>7, <3>1
      <4> QED
        BY <1>0, <1>3, <4>1
    <3>2. CASE Invalidates(r) /\ Refetches(cached, screen)
      <4>1. cached' = Asked(marked)
        BY <2>7, <3>2 DEF Invalidated, marked
      <4> QED
        BY <2>4, <4>1
    <3>3. CASE Invalidates(r) /\ ~Refetches(cached, screen)
      <4>1. cached' = marked
        BY <2>7, <3>3 DEF Invalidated, marked
      <4>2. cached.fetch = "read" => due' = due
        BY <2>1, <3>3 DEF Overlooked
      <4> QED
        BY <1>3, <2>2, <4>1, <4>2
    <3> QED
      BY <3>1, <3>2, <3>3
  <2> QED
    BY <2>1, <2>6, <2>7
<1> QED
  BY <1>6, <1>7, <1>8, <1>9, <1>10, <1>11, <1>12, <1>13, <1>14 DEF ConsoleNext

-----------------------------------------------------------------------------
(***************************************************************************)
(* The drawer and its form.                                                *)
(***************************************************************************)
\* A component that shows no drawer needs only to be one.
LEMMA NoDrawer ==
  ASSUME screen' \in ScreenType, screen'.mode \in {"away", "browse"}
  PROVE ScreenInv'
BY DEF ScreenInv

\* The drawer is opened for one thing, or for a new one, and closed with what was
\* meant; answers close it, or leave it alone.
LEMMA ScreenKeeps ==
  ASSUME ConsoleInvar, ConsoleNext
  PROVE ScreenInv'
<1>0. /\ page' = page /\ ScreenInv /\ CacheInv /\ screen \in ScreenType /\ page \in Pages
      /\ Listed' = Listed /\ ListRow' = ListRow
  BY PageStays, PageOnly DEF ConsoleInvar, ScreenInv, BaseInv
<1>1. CASE screen' = screen
  BY <1>0, <1>1 DEF ScreenInv, InForm, LeftOver
<1>2. CASE \/ ServerReads \/ ListAges \/ Reload \/ Save \/ RemoveOpen \/ RemovePicked
           \/ \E i \in Things : Remove(i) \/ Enable(i) \/ Disable(i) \/ OthersChange(i) \/ OthersRemove(i)
           \/ \E n \in DOMAIN sent : Executes(n) \/ Refuses(n) \/ Breaks(n) \/ Fails(n)
  <2>1. screen' = screen
    BY <1>2 DEF ServerReads, ListAges, Reload, Save, RemoveOpen, RemovePicked, Remove, Enable, Disable,
       OthersChange, OthersRemove, Executes, Refuses, Breaks, Fails, Still, Send, Outside
  <2> QED
    BY <1>1, <2>1
<1>3. CASE ListArrives \/ ListFails \/ Enter \/ LeavePage
  <2>1. screen' = screen \/ screen' = Mounted("browse") \/ screen' = Mounted("away")
    BY <1>3 DEF ListArrives, ListFails, Enter, LeavePage, Unmounts
  <2>2. CASE screen' = Mounted("browse") \/ screen' = Mounted("away")
    BY <2>2, MountedTyped, NoDrawer
  <2> QED
    BY <1>1, <2>1, <2>2
<1>4. ASSUME NEW s \in ScreenType, page = "options", screen' = Filled(s),
             cached.rows \in RowList, cached.rows[1] \in ListRow
      PROVE ScreenInv'
  <2> DEFINE row == cached.rows[1]
  <2>1. /\ s.tab \in Columns /\ s.form \in Thing /\ row \in Thing /\ row[s.tab] \in Cell
        /\ 1 \in Things /\ Blanks \in Thing
    BY <1>4, BlanksTyped, ConsoleAssumption DEF ScreenType, ListRow, Thing
  <2> DEFINE form == [s.form EXCEPT ![s.tab] = row[s.tab]]
             cols == [Blanks EXCEPT ![s.tab] = row[s.tab]]
  <2>2. form \in Thing /\ cols \in Thing
    BY <2>1, SetTyped
  <2>3. /\ \A c \in Columns : cols[c] = IF c = s.tab THEN row[s.tab] ELSE Blank
        /\ form[s.tab] = row[s.tab]
    BY <2>1 DEF Blanks, Thing
  <2> HIDE DEF row
  <2>4. screen' = [s EXCEPT !.mode = "edit", !.id = 1, !.form = form, !.meant = [id |-> 1, cols |-> cols]]
    BY <1>4 DEF Filled, row
  <2> HIDE DEF form, cols
  <2>5. [id |-> 1, cols |-> cols] \in Meant
    BY <2>1, <2>2 DEF Meant
  <2>6. /\ screen' \in ScreenType /\ screen'.mode = "edit" /\ screen'.id = 1 /\ screen'.form = form
        /\ screen'.tab = s.tab /\ screen'.meant = [id |-> 1, cols |-> cols]
    BY <2>1, <2>2, <2>4, <2>5 DEF ScreenType
  <2>7. InForm' = {s.tab}
    BY <1>0, <1>4, <2>6 DEF InForm
  <2>8. screen'.meant.id = 1 /\ screen'.meant.cols = cols
    BY <2>6
  <2>9. \A c \in Columns :
          IF c \in InForm'
          THEN screen'.form[c] = screen'.meant.cols[c]
          ELSE screen'.meant.cols[c] = Blank
    BY <2>3, <2>6, <2>7, <2>8
  <2> QED
    BY <2>1, <2>6, <2>8, <2>9 DEF ScreenInv
<1>5. CASE ShowOptions
  <2>1. page = "options" /\ 1 \in Visible /\ screen' = Filled(screen)
    BY <1>5 DEF ShowOptions
  <2> QED
    BY <1>0, <1>4, <2>1, VisibleRows
<1>6. CASE SwitchTab
  <2>1. page = "options" /\ screen.mode = "edit"
    BY <1>6 DEF SwitchTab
  <2>2. PICK t \in Columns : screen' = Filled([Mounted("edit") EXCEPT !.tab = t])
    BY <1>6 DEF SwitchTab
  <2>3. [Mounted("edit") EXCEPT !.tab = t] \in ScreenType
    BY BlanksTyped DEF Mounted, ScreenType
  <2>4. cached.rows \in RowList /\ cached.rows[1] \in ListRow
    BY <2>1 DEF ConsoleInvar, OptionsInv
  <2> QED
    BY <1>4, <2>1, <2>2, <2>3, <2>4
<1>7. CASE OpenCreate
  <2> DEFINE form == IF page = "indexes" THEN screen.form ELSE Blanks
  <2>1. /\ page # "options"
        /\ screen' = [screen EXCEPT !.mode = "create", !.id = Missing, !.meant = Nothing, !.form = form]
    BY <1>7 DEF OpenCreate
  <2>2. form \in Thing /\ Nothing \in Meant
    BY <1>0, BlanksTyped DEF ScreenType
  <2> HIDE DEF form
  <2>3. /\ screen' \in ScreenType /\ screen'.mode = "create" /\ screen'.form = form
        /\ screen'.meant = Nothing
    BY <1>0, <2>1, <2>2 DEF ScreenType
  <2>4. screen'.meant.id = Missing /\ \A c \in Columns : screen'.meant.cols[c] = Blank
    BY <2>3 DEF Nothing, Blanks
  <2>5. page # "indexes" => \A c \in Columns : screen'.form[c] = Blank
    BY <2>3 DEF form, Blanks
  <2>6. page = "indexes" => \A c \in Columns : LeftOver(screen, c)'
    BY <1>0 DEF LeftOver
  <2> QED
    BY <1>0, <2>1, <2>3, <2>4, <2>5, <2>6 DEF ScreenInv
<1>8. ASSUME NEW i \in Things, NEW row \in Thing, page \in {"records", "fields", "scripts"},
             \A c \in Columns : c \notin Listed => row[c] = Blank,
             NEW meant \in Meant, meant.id = i,
             \A c \in Columns : meant.cols[c] = IF c \in InForm THEN row[c] ELSE Blank,
             screen' = [Editing(screen, i, row) EXCEPT !.meant = meant]
      PROVE ScreenInv'
  <2> DEFINE form == [c \in Columns |-> IF c \in Listed THEN row[c] ELSE screen.form[c]]
  <2>1. form \in Thing
    BY <1>0, <1>8 DEF ScreenType, Thing
  <2>2. \A c \in Columns : c \in Listed => form[c] = row[c]
    OBVIOUS
  <2> HIDE DEF form
  <2>3. screen' = [screen EXCEPT !.mode = "edit", !.id = i, !.form = form, !.meant = meant]
    BY <1>0, <1>8 DEF Editing, form, ScreenType
  <2>4. /\ screen' \in ScreenType /\ screen'.mode = "edit" /\ screen'.id = i /\ screen'.form = form
        /\ screen'.meant = meant /\ screen'.tab = screen.tab
    BY <1>0, <2>1, <2>3 DEF ScreenType
  <2>5. InForm' = InForm
    BY <1>0, <2>4 DEF InForm
  <2>6. meant.id # Missing
    BY <1>8, ConsoleAssumption
  <2>7. \A c \in Columns : c \in InForm /\ c \notin Listed => LeftOver(screen, c)' /\ meant.cols[c] = Blank
    <3>1. \A c \in Columns : c \in InForm /\ c \notin Listed => page = "records"
      BY <1>8 DEF InForm, Listed, Columns
    <3> QED
      BY <1>0, <1>8, <2>4, <2>6, <3>1 DEF LeftOver
  <2>8. \A c \in Columns :
          IF c \in InForm'
          THEN screen'.form[c] # screen'.meant.cols[c] =>
                 screen'.meant.cols[c] = Blank /\ LeftOver(screen, c)'
          ELSE screen'.meant.cols[c] = Blank
    BY <1>8, <2>2, <2>4, <2>5, <2>7
  <2> QED
    BY <1>8, <2>4, <2>8 DEF ScreenInv
<1>9. ASSUME NEW i \in Visible
      PROVE /\ i \in Things /\ cached.rows[i] \in ListRow /\ cached.rows[i] \in Thing
            /\ \A c \in Columns : c \notin Listed => cached.rows[i][c] = Blank
            /\ MeansRow(i, cached.rows[i]) \in Meant /\ MeansRow(i, cached.rows[i]).id = i
            /\ \A c \in Columns : MeansRow(i, cached.rows[i]).cols[c] =
                 IF c \in InForm THEN cached.rows[i][c] ELSE Blank
  <2>1. i \in Things /\ cached.rows[i] \in ListRow
    BY <1>0, VisibleRows
  <2>2. cached.rows[i] \in Thing /\ \A c \in Columns : c \notin Listed => cached.rows[i][c] = Blank
    BY <2>1 DEF ListRow
  <2> DEFINE row == cached.rows[i]
             cols == [c \in Columns |-> IF c \in InForm THEN row[c] ELSE Blank]
  <2>3. cols \in Thing
    BY <2>2 DEF Thing, Cell
  <2>4. \A c \in Columns : cols[c] = IF c \in InForm THEN row[c] ELSE Blank
    OBVIOUS
  <2>5. MeansRow(i, cached.rows[i]) = [id |-> i, cols |-> cols]
    BY DEF MeansRow
  <2> HIDE DEF cols, row
  <2>6. [id |-> i, cols |-> cols] \in Meant
    BY <2>1, <2>3 DEF Meant
  <2> QED
    BY <2>1, <2>2, <2>4, <2>5, <2>6 DEF row
<1>10. ASSUME NEW i \in Things, OpenEdit(i) PROVE ScreenInv'
  <2> DEFINE row == cached.rows[i]
             meant == MeansRow(i, row)
  <2>1. /\ page \in {"records", "fields", "scripts"} /\ i \in Visible
        /\ screen' = [Editing(screen, i, row) EXCEPT !.meant = meant]
    BY <1>10 DEF OpenEdit
  <2>2. /\ row \in Thing /\ \A c \in Columns : c \notin Listed => row[c] = Blank
    BY <1>9, <2>1
  <2>3. /\ meant \in Meant /\ meant.id = i
        /\ \A c \in Columns : meant.cols[c] = IF c \in InForm THEN row[c] ELSE Blank
    BY <1>9, <2>1
  <2> HIDE DEF row, meant
  <2> QED
    BY <1>8, <2>1, <2>2, <2>3
<1>11. ASSUME NEW i \in Things, OpenView(i) PROVE ScreenInv'
  <2> DEFINE row == cached.rows[i]
             meant == MeansRow(i, row)
  <2>1. /\ page = "records" /\ i \in Visible
        /\ screen' = [screen EXCEPT !.mode = "view", !.id = i, !.meant = meant]
    BY <1>11 DEF OpenView
  <2>2. /\ row \in ListRow /\ meant \in Meant /\ meant.id = i
        /\ \A c \in Columns : meant.cols[c] = IF c \in InForm THEN row[c] ELSE Blank
    BY <1>9, <2>1
  <2>3. InForm = Columns
    BY <2>1 DEF InForm
  <2>4. meant.cols = row
    <3>1. meant.cols \in Thing /\ row \in Thing /\ \A c \in Columns : meant.cols[c] = row[c]
      BY <2>2, <2>3 DEF Meant, ListRow
    <3> HIDE DEF row, meant
    <3> QED
      BY <3>1 DEF Thing
  <2> HIDE DEF row, meant
  <2>5. /\ screen' \in ScreenType /\ screen'.mode = "view" /\ screen'.id = i /\ screen'.meant = meant
    BY <1>0, <2>1, <2>2 DEF ScreenType
  <2> QED
    BY <1>0, <2>1, <2>2, <2>4, <2>5 DEF ScreenInv
<1>12. CASE EditViewed
  <2> DEFINE row == screen.meant.cols
             i == screen.id
             meant == screen.meant
  <2>1. /\ screen.mode = "view" /\ screen' = Editing(screen, i, row)
    BY <1>12 DEF EditViewed
  <2>2. /\ page = "records" /\ row \in ListRow /\ meant.id = i /\ i \in Things /\ meant \in Meant
    BY <1>0, <2>1 DEF ScreenInv, ScreenType
  <2>3. row \in Thing /\ \A c \in Columns : c \notin Listed => row[c] = Blank
    BY <2>2 DEF ListRow
  <2>4. InForm = Columns
    BY <2>2 DEF InForm
  <2>5. screen' = [Editing(screen, i, row) EXCEPT !.meant = meant]
    BY <1>0, <2>1 DEF Editing, ScreenType
  <2>6. \A c \in Columns : meant.cols[c] = IF c \in InForm THEN row[c] ELSE Blank
    BY <2>4
  <2>7. page \in {"records", "fields", "scripts"}
    BY <2>2
  <2> HIDE DEF row, i, meant
  <2> QED
    BY <1>8, <2>2, <2>3, <2>5, <2>6, <2>7
<1>13. CASE CloseDrawer
  <2>1. screen' = [screen EXCEPT !.mode = "browse", !.meant = Nothing]
    BY <1>13 DEF CloseDrawer
  <2>2. screen' \in ScreenType /\ screen'.mode = "browse"
    BY <1>0, <2>1, BlanksTyped DEF ScreenType
  <2> QED
    BY <2>2, NoDrawer
<1>14. ASSUME NEW c \in Columns, EnterValue(c) PROVE ScreenInv'
  <2>1. events' \in Cell /\ events' \in Nat
    BY <1>14 DEF EnterValue, Happens, Counts, ConsoleInvar, BaseInv, Cell
  <2>2. PICK v \in Cell : v = events'
    BY <2>1
  <2> DEFINE form == [screen.form EXCEPT ![c] = v]
             cols == [screen.meant.cols EXCEPT ![c] = v]
             meant == [id |-> screen.meant.id, cols |-> cols]
  <2>3. /\ screen' = [screen EXCEPT !.form = form, !.meant = meant]
        /\ screen.mode \in {"create", "edit"} /\ c \in InForm
    BY <1>0, <1>14, <2>2 DEF EnterValue, ScreenType
  <2>4. /\ screen.form \in Thing /\ screen.meant.cols \in Thing /\ screen.meant.id \in Things \cup {Missing}
    BY <1>0 DEF ScreenType, Meant
  <2>5. form \in Thing /\ cols \in Thing
    BY <2>4, SetTyped
  <2>6. \A d \in Columns : /\ form[d] = IF d = c THEN v ELSE screen.form[d]
                           /\ cols[d] = IF d = c THEN v ELSE screen.meant.cols[d]
    BY <2>4 DEF Thing
  <2> HIDE DEF form, cols
  <2>7. meant \in Meant /\ meant.id = screen.meant.id /\ meant.cols = cols
    BY <2>4, <2>5 DEF Meant
  <2> HIDE DEF meant
  <2>8. /\ screen' \in ScreenType /\ screen'.mode = screen.mode /\ screen'.id = screen.id
        /\ screen'.form = form /\ screen'.meant = meant /\ screen'.tab = screen.tab
    BY <1>0, <2>3, <2>5, <2>7 DEF ScreenType
  <2>9. InForm' = InForm /\ \A d \in Columns : LeftOver(screen, d)' <=> LeftOver(screen, d)
    BY <1>0, <2>7, <2>8 DEF InForm, LeftOver
  <2>10. \A d \in Columns :
         IF d \in InForm
         THEN screen.form[d] # screen.meant.cols[d] =>
                screen.meant.cols[d] = Blank /\ LeftOver(screen, d)
         ELSE screen.meant.cols[d] = Blank
    BY <1>0, <2>3 DEF ScreenInv
  <2>11. \A d \in Columns :
         IF d \in InForm'
         THEN screen'.form[d] # screen'.meant.cols[d] =>
                screen'.meant.cols[d] = Blank /\ LeftOver(screen, d)'
         ELSE screen'.meant.cols[d] = Blank
    BY <2>3, <2>6, <2>7, <2>8, <2>9, <2>10
  <2>12. /\ screen.mode = "edit" => screen.meant.id = screen.id /\ screen.id \in Things
         /\ screen.mode = "create" => screen.meant.id = Missing /\ page # "options"
    BY <1>0 DEF ScreenInv
  <2> QED
    BY <1>0, <2>3, <2>7, <2>8, <2>11, <2>12 DEF ScreenInv
<1>15. ASSUME NEW i \in Things, Pick(i) PROVE ScreenInv'
  <2>1. screen.mode = "browse" /\ screen' = [screen EXCEPT !.picked = @ \cup {i}]
    BY <1>15 DEF Pick
  <2>2. screen' \in ScreenType /\ screen'.mode = "browse"
    BY <1>0, <2>1 DEF ScreenType
  <2> QED
    BY <2>2, NoDrawer
<1>16. ASSUME NEW n \in DOMAIN sent, Succeeds(n) PROVE ScreenInv'
  <2>1. screen' = AfterAnswer(sent[n])
    BY <1>16 DEF Succeeds
  <2>2. \/ screen' = screen \/ screen' = Mounted("away") \/ screen' = Mounted("browse")
        \/ screen' = [screen EXCEPT !.picked = {}]
        \/ screen' \in {RecordSaved(screen), FieldSaved(screen), ScriptSaved(screen), IndexSaved(screen)}
    BY <2>1 DEF AfterAnswer, Saved
  <2>3. CASE screen' = Mounted("away") \/ screen' = Mounted("browse")
    BY <2>3, MountedTyped, NoDrawer
  <2>4. CASE screen' = [screen EXCEPT !.picked = {}]
    <3>1. /\ screen' \in ScreenType /\ screen'.mode = screen.mode /\ screen'.id = screen.id
          /\ screen'.form = screen.form /\ screen'.meant = screen.meant /\ screen'.tab = screen.tab
      BY <1>0, <2>4 DEF ScreenType
    <3>2. InForm' = InForm /\ \A d \in Columns : LeftOver(screen, d)' <=> LeftOver(screen, d)
      BY <1>0, <3>1 DEF InForm, LeftOver
    <3> QED
      BY <1>0, <3>1, <3>2 DEF ScreenInv
  <2>5. CASE screen' \in {RecordSaved(screen), FieldSaved(screen), ScriptSaved(screen), IndexSaved(screen)}
    <3>1. Closed(screen) \in ScreenType /\ Closed(screen).mode = "browse"
      BY <1>0, BlanksTyped DEF Closed, ScreenType
    <3>2. /\ screen' \in ScreenType /\ screen'.mode = "browse"
      BY <2>5, <3>1, BlanksTyped DEF RecordSaved, FieldSaved, ScriptSaved, IndexSaved, ScreenType
    <3> QED
      BY <3>2, NoDrawer
  <2> QED
    BY <1>1, <2>2, <2>3, <2>4, <2>5
<1> QED
  BY <1>2, <1>3, <1>5, <1>6, <1>7, <1>10, <1>11, <1>12, <1>13, <1>14, <1>15, <1>16 DEF ConsoleNext

\* A tab of the options stays only while the collection does.
LEMMA OptionsKeep ==
  ASSUME ConsoleInvar, ConsoleNext
  PROVE OptionsInv'
<1>0. /\ page' = page /\ ListRow' = ListRow /\ RowList' = RowList
      /\ CacheInv /\ cached \in CacheType /\ screen \in ScreenType /\ ScreenInv
      /\ (~ListArrives => cached'.rows = cached.rows)
  BY PageStays, PageOnly, CacheKeeps DEF ConsoleInvar, CacheInv, ScreenInv
<1>1. SUFFICES ASSUME page = "options", screen'.mode = "edit"
               PROVE cached'.rows \in RowList /\ cached'.rows[1] \in ListRow
  BY <1>0 DEF OptionsInv
<1>2. ASSUME ~ListArrives, screen.mode = "edit"
      PROVE cached'.rows \in RowList /\ cached'.rows[1] \in ListRow
  BY <1>0, <1>1, <1>2 DEF ConsoleInvar, OptionsInv
<1>3. \A mode \in {"away", "browse"} : screen' # Mounted(mode)
  BY <1>1, MountedTyped
<1>4. CASE ListArrives
  <2>1. /\ cached.fetch = "read" /\ Unmounts(cached')
        /\ cached' = [cached EXCEPT !.rows = cached.reading, !.at = cached.readAt, !.stale = FALSE,
                              !.fetch = "none", !.reading = Missing, !.readAt = 0, !.failed = FALSE]
    BY <1>4 DEF ListArrives
  <2>2. cached'.rows = cached.reading /\ cached.reading \in RowList
    BY <1>0, <2>1 DEF CacheInv, CacheType
  <2>3. screen' = screen /\ cached'.rows[1] # Missing
    <3>1. ~(screen.mode = "edit" /\ (cached'.failed \/ cached'.rows[1] = Missing)) /\ screen' = screen
      BY <1>1, <1>3, <2>1 DEF Unmounts
    <3> QED
      BY <1>1, <3>1
  <2>4. cached.reading[1] \in ListRow \cup {Missing}
    BY <2>2, ConsoleAssumption DEF RowList
  <2> QED
    BY <2>2, <2>3, <2>4
<1>5. CASE \/ ServerReads \/ ListAges \/ Reload \/ Save \/ RemoveOpen \/ RemovePicked \/ ListFails
           \/ \E i \in Things : Remove(i) \/ Enable(i) \/ Disable(i) \/ OthersChange(i) \/ OthersRemove(i)
           \/ \E n \in DOMAIN sent : Executes(n) \/ Refuses(n) \/ Breaks(n) \/ Fails(n)
  <2>1. screen' = screen
    BY <1>3, <1>5 DEF ServerReads, ListAges, Reload, Save, RemoveOpen, RemovePicked, ListFails, Unmounts,
       Remove, Enable, Disable, OthersChange, OthersRemove, Executes, Refuses, Breaks, Fails, Still, Send,
       Outside
  <2>2. CASE ListArrives
    BY <1>4, <2>2
  <2> QED
    BY <1>1, <1>2, <2>1, <2>2
<1>6. CASE Enter \/ LeavePage
  BY <1>3, <1>6 DEF Enter, LeavePage
<1>7. CASE ShowOptions
  <2>1. 1 \in Visible /\ cached' = cached
    BY <1>7 DEF ShowOptions
  <2> QED
    BY <1>0, <2>1, VisibleRows
<1>8. CASE SwitchTab
  <2>1. screen.mode = "edit" /\ cached' = cached
    BY <1>8 DEF SwitchTab
  <2> QED
    BY <1>1, <2>1 DEF ConsoleInvar, OptionsInv
<1>9. CASE OpenCreate \/ CloseDrawer
  <2>1. screen'.mode \in {"create", "browse"}
    BY <1>0, <1>9 DEF OpenCreate, CloseDrawer, ScreenType
  <2> QED
    BY <1>1, <2>1
<1>10. CASE EditViewed \/ \E i \in Things : OpenEdit(i) \/ OpenView(i) \/ Pick(i)
  <2>1. page # "options"
    BY <1>0, <1>10 DEF EditViewed, OpenEdit, OpenView, Pick, ScreenInv
  <2> QED
    BY <1>1, <2>1
<1>11. CASE \E c \in Columns : EnterValue(c)
  <2>1. screen'.mode = screen.mode /\ cached' = cached
    BY <1>0, <1>11 DEF EnterValue, ScreenType
  <2> QED
    BY <1>1, <2>1 DEF ConsoleInvar, OptionsInv
<1>12. ASSUME NEW n \in DOMAIN sent, Succeeds(n)
       PROVE cached'.rows \in RowList /\ cached'.rows[1] \in ListRow
  <2>1. CASE ListArrives
    BY <1>4, <2>1
  <2>2. CASE ~ListArrives
    <3>1. screen' = AfterAnswer(sent[n])
      BY <1>12 DEF Succeeds
    <3>2. screen' = screen \/ screen' = [screen EXCEPT !.picked = {}]
      BY <1>1, <1>3, <3>1 DEF AfterAnswer, Saved
    <3>3. screen'.mode = screen.mode
      BY <1>0, <3>2 DEF ScreenType
    <3> QED
      BY <1>1, <1>2, <2>2, <3>3
  <2> QED
    BY <2>1, <2>2
<1> QED
  BY <1>4, <1>5, <1>6, <1>7, <1>8, <1>9, <1>10, <1>11, <1>12 DEF ConsoleNext

-----------------------------------------------------------------------------
\* The invariant holds at first.
LEMMA ConsoleFirst ==
  ASSUME ConsoleInit
  PROVE ConsoleInvar
<1>1. things \in [Things -> Thing \cup {Missing}]
  <2>1. PICK there \in SUBSET Things :
          things = [i \in Things |-> IF i \in there THEN [c \in Columns |-> 0 - i] ELSE Missing]
    BY DEF ConsoleInit
  <2>2. \A i \in Things : [c \in Columns |-> 0 - i] \in Thing
    BY ConsoleAssumption DEF Thing, Cell
  <2> QED
    BY <2>1, <2>2
<1>2. BaseInv
  BY <1>1 DEF ConsoleInit, BaseInv
<1>3. screen \in ScreenType /\ screen.mode = "away"
  BY MountedTyped DEF ConsoleInit
<1>4. ScreenInv /\ OptionsInv
  BY <1>3 DEF ScreenInv, OptionsInv
<1>5. CacheInv
  BY DEF ConsoleInit, CacheInv, CacheType
<1>6. SentInv
  BY DEF ConsoleInit, SentInv
<1> QED
  BY <1>2, <1>4, <1>5, <1>6 DEF ConsoleInvar

\* Every step keeps it.
LEMMA ConsoleStep ==
  ASSUME ConsoleInvar, [ConsoleNext]_consoleVars
  PROVE ConsoleInvar'
<1>1. CASE ConsoleNext
  BY <1>1, BaseKeeps, ScreenKeeps, OptionsKeep, CacheKeeps, SentKeeps DEF ConsoleInvar
<1>2. CASE UNCHANGED consoleVars
  <2>1. /\ page' = page /\ things' = things /\ changes' = changes /\ screen' = screen
        /\ cached' = cached /\ sent' = sent /\ events' = events /\ due' = due
    BY <1>2 DEF consoleVars
  <2>2. ListRow' = ListRow /\ RowList' = RowList /\ CacheType' = CacheType /\ RightCall' = RightCall
    BY <2>1, PageOnly
  <2>3. BaseInv' /\ ScreenInv'
    BY <2>1, <2>2 DEF ConsoleInvar, BaseInv, ScreenInv, InForm, LeftOver, Listed
  <2>4. OptionsInv' /\ CacheInv' /\ SentInv'
    BY <2>1, <2>2 DEF ConsoleInvar, OptionsInv, CacheInv, SentInv
  <2> QED
    BY <2>3, <2>4 DEF ConsoleInvar
<1> QED
  BY <1>1, <1>2

\* Whoever administers what, on whatever page: the drawer and its form, the list and
\* the requests under way are what the invariant says.
THEOREM ConsoleKept == ConsoleSpec => []ConsoleInvar
<1>1. ConsoleInit => ConsoleInvar
  BY ConsoleFirst
<1>2. ConsoleInvar /\ [ConsoleNext]_consoleVars => ConsoleInvar'
  BY ConsoleStep
<1> QED
  BY <1>1, <1>2, PTL DEF ConsoleSpec

\* A drawer saves what it was opened for, whatever answers come late and whatever the
\* user and others do meanwhile.
THEOREM SavesWhatWasMeant == ConsoleSpec => []SendsWhatWasMeant
<1>1. ConsoleInvar => SendsWhatWasMeant
  <2> SUFFICES ASSUME ConsoleInvar, NEW n \in DOMAIN sent, sent[n].op = "save"
               PROVE /\ sent[n].ids = IF sent[n].meant.id = Missing THEN {} ELSE {sent[n].meant.id}
                     /\ \A c \in Columns : sent[n].cols[c] # sent[n].meant.cols[c] =>
                          sent[n].meant.cols[c] = Blank /\ LeftOver(sent[n], c)
    BY DEF SendsWhatWasMeant
  <2>1. sent[n] \in RightCall
    BY DEF ConsoleInvar, SentInv
  <2> QED
    BY <2>1 DEF RightCall, Right
<1> QED
  BY <1>1, ConsoleKept, PTL

\* A list at rest shows what was changed with it and reported to it, in whatever order
\* the answers of lists and of requests arrive.
THEOREM ListsTold == ConsoleSpec => []ListsWhatItChanged
<1>1. ConsoleInvar => ListsWhatItChanged
  BY DEF ConsoleInvar, BaseInv, CacheInv, CacheType, ListsWhatItChanged
<1> QED
  BY <1>1, ConsoleKept, PTL

\* Saves do what was meant, and the lists show it.
THEOREM ConsoleTrue == ConsoleSpec => []ConsoleHolds
<1>1. SendsWhatWasMeant /\ ListsWhatItChanged => ConsoleHolds
  BY DEF ConsoleHolds
<1> QED
  BY <1>1, SavesWhatWasMeant, ListsTold, PTL
=============================================================================
