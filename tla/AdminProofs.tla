---------------------------- MODULE AdminProofs ----------------------------
(***************************************************************************)
(* What Authority guarantees for any number of users, roles, policies,     *)
(* requests, processes and failures.  The invariant: the tables stay whole *)
(* (Shapes), one process at most founds the first administrator while      *)
(* nobody is served (BootInv), until a request writes something policies   *)
(* in memory are those stored (FoundInv), and each request goes by roles   *)
(* and policies of its own time (AskInv).                                  *)
(***************************************************************************)
EXTENDS Authority, WellFoundedInduction, TLAPS

-----------------------------------------------------------------------------
(***************************************************************************)
(* The invariant.                                                          *)
(***************************************************************************)
BootLabels == {"down", "user", "role", "link", "rule", "commit", "load", "up", "refused"}
Founders == {"user", "role", "link", "rule", "commit"}
Whole == {"user", "role", "link", "rule"}
ErrandLabels == {"idle", "identify", "authorize", "act", "load", "publish", "done", "refused"}

\* What a process has inserted when it is at a label of EnsureBootstrapAdmin.
Drafts(label) ==
  {x \in Whole : \/ x = "user" /\ label \in {"role", "link", "rule", "commit"}
                 \/ x = "role" /\ label \in {"link", "rule", "commit"}
                 \/ x = "link" /\ label \in {"rule", "commit"}
                 \/ x = "rule" /\ label = "commit"}

Shapes ==
  /\ AccountsOK(accounts)
  /\ process \in [Processes -> BootLabels]
  /\ drafted = [p \in Processes |-> Drafts(process[p])]
  /\ rulesIn = [p \in Processes |-> rulesIn[p]]
  /\ token = [u \in UserIds |-> token[u]]
  /\ errand = [a \in Askers |-> errand[a]]
  /\ heldRoles = [a \in Askers |-> heldRoles[a]] /\ rulesSeen = [a \in Askers |-> rulesSeen[a]]

Empty(t) == \A u \in UserIds : t.users[u] = Absent
HasRoot(t) == \E u \in UserIds : t.users[u] # Absent /\ t.users[u].name = Root

\* As long as there is no user, nobody has written anything and nobody is
\* served; one process at most has inserted the first one.
BootInv ==
  /\ Empty(accounts) => accounts \in FirstAccounts /\ \A p \in Processes : process[p] \notin {"load", "up"}
  /\ \A p \in Processes : process[p] \in Founders => Empty(accounts) \/ HasRoot(accounts)
  /\ \A p \in Processes : "user" \in drafted[p] => Empty(accounts)
  /\ \A p \in Processes : "role" \in drafted[p] => \A i \in RoleIds : accounts.roles[i] # "admin"
  /\ \A p, q \in Processes : "user" \in drafted[p] /\ "user" \in drafted[q] => p = q
  /\ \A p \in Processes : process[p] # "refused"
  /\ \A u \in UserIds : token[u] # Absent => accounts.users[u] # Absent

\* Until a request changes something, processes go by what was there at first
\* or what one of them founded.
FoundInv ==
  untouched =>
    /\ \A p \in Processes : process[p] = "up" => rulesIn[p] = StoredRules(accounts)
    /\ \A a \in Askers : errand[a].at = "publish" => errand[a].rules = StoredRules(accounts)
    /\ \/ accounts \in FirstAccounts
       \/ \E t \in FirstAccounts : Empty(t) /\ accounts = Founded(t, Whole)

\* An errand, and what of it is fixed once it has been asked.
IsErrand(e) ==
  /\ e = [at |-> e.at, on |-> e.on, user |-> e.user, kind |-> e.kind, body |-> e.body,
          roles |-> e.roles, rows |-> e.rows, rules |-> e.rules, ran |-> e.ran]
  /\ e.at \in ErrandLabels /\ e.kind \in Kinds /\ e.body \in BodiesOf(e.kind)
  /\ e.user \in UserIds \cup {Nobody}

Asked(e) ==
  /\ e.at = "idle" => e = NoErrand
  /\ e.at # "idle" => e.on \in Processes /\ process[e.on] = "up"
  /\ e.at = "identify" => e.user # Nobody
  /\ e.user # Nobody => accounts.users[e.user] # Absent

\* Grants and Sees, of an errand.
GrantedTo(e, s, r) == \E p \in s : Applies(p, e.user, r, TargetOf(e))
SeenBy(e, s, r, w) ==
  \E p \in s : Applies(p, e.user, r, TargetOf(e)) /\ w \in Resolved(p.filter, e.user, r)
MayDo(e, s, r) == GrantedTo(e, s, r) /\ (Reserved(e) => "admin" \in r)

\* What an errand says, of roles and policies of its time (held, seen),
\* when the tables are t.
Justified(t, e, held, seen) ==
  /\ e.at \in {"authorize", "act"} => e.roles \in held
  /\ e.at = "act" => \E s \in seen : MayDo(e, s, e.roles)
  /\ e.at \in {"load", "publish", "done"} => \E s \in seen, r \in held : MayDo(e, s, r)
  /\ e.at \in {"load", "publish"} => e.kind \in PolicyKinds
  /\ e.at = "refused" => \/ \E s \in seen, r \in held : ~MayDo(e, s, r)
                         \/ e.user # Nobody /\ ~t.users[e.user].enabled
  /\ e.at = "done" /\ e.kind = "records" =>
       \A w \in Orders : IF w \in e.rows THEN \E s \in seen, r \in held : SeenBy(e, s, r, w)
                         ELSE \E s \in seen, r \in held : ~SeenBy(e, s, r, w)
  /\ e.at = "done" /\ e.kind = "records" => e.ran = "crud"
  /\ e.at = "done" /\ e.kind = "script" =>
       (e.ran = "script" <=> TargetOf(e)[2] \notin CrudActions \cup FileActions)

\* The roles and policies of this moment are among those.
Current(a) ==
  errand[a].at # "idle" => /\ RolesOf(accounts, errand[a].user) \in heldRoles[a]
                           /\ rulesIn[errand[a].on] \in rulesSeen[a]

AskFor(a) ==
  /\ IsErrand(errand[a]) /\ Asked(errand[a]) /\ Current(a)
  /\ Justified(accounts, errand[a], heldRoles[a], rulesSeen[a])

AskInv == \A a \in Askers : AskFor(a)

AInvar == Shapes /\ BootInv /\ FoundInv /\ AskInv

-----------------------------------------------------------------------------
(***************************************************************************)
(* Ids.                                                                    *)
(***************************************************************************)
\* A set of numbers has a least element.
LEMMA Least ==
  ASSUME NEW S, S \subseteq Nat, S # {}
  PROVE \E i \in S : \A j \in S : i <= j
<1> DEFINE R == {s \in Nat \X Nat : s[1] < s[2]}
<1>1. IsWellFoundedOn(R, Nat)
  BY NatLessThanWellFounded DEF OpToRel
<1>2. \A x, y \in Nat : <<y, x>> \in R <=> y < x
  OBVIOUS
<1> HIDE DEF R
<1>3. \E x \in S : \A y \in S : ~(<<y, x>> \in R)
  BY <1>1, WFMin, Zenon
<1>4. PICK x \in S : \A y \in S : ~(<<y, x>> \in R)
  BY <1>3
<1>5. \A y \in S : x <= y
  <2> SUFFICES ASSUME NEW y \in S PROVE x <= y
    OBVIOUS
  <2>1. x \in Nat /\ y \in Nat
    OBVIOUS
  <2>2. ~(y < x)
    BY <1>2, <1>4, <2>1
  <2> QED
    BY <2>1, <2>2
<1> QED
  BY <1>5

\* The next id is a free one; 0 is none.
LEMMA NextIdFree ==
  ASSUME NEW ids, ids \subseteq Nat \ {0}, NEW rows, NEW n, n = NextId(rows, ids)
  PROVE /\ n \in ids => rows[n] = Absent
        /\ (\E i \in ids : rows[i] = Absent) => n \in ids
        /\ (\A i \in ids : rows[i] # Absent) => n \notin ids
<1>1. CASE \E i \in ids : rows[i] = Absent
  <2> DEFINE S == {i \in ids : rows[i] = Absent}
  <2>1. S # {} /\ S \subseteq Nat
    BY <1>1
  <2>2. PICK i \in S : \A j \in S : i <= j
    BY <2>1, Least
  <2>3. \E k \in ids : rows[k] = Absent /\ \A j \in ids : rows[j] = Absent => k <= j
    BY <2>2
  <2>4. n \in ids /\ rows[n] = Absent
    BY <1>1, <2>3 DEF NextId
  <2> QED
    BY <1>1, <2>4
<1>2. CASE ~\E i \in ids : rows[i] = Absent
  BY <1>2 DEF NextId
<1> QED
  BY <1>1, <1>2

-----------------------------------------------------------------------------
(***************************************************************************)
(* The tables.                                                             *)
(***************************************************************************)
\* What of a table of users cannot be taken back.
UsersKept(t, s) ==
  \A u \in UserIds : t.users[u] # Absent => s.users[u] = t.users[u]

\* Without an identity there are no roles.
LEMMA RolesOfNobody ==
  ASSUME NEW t, t.links \subseteq UserIds \X RoleIds
  PROVE RolesOf(t, Nobody) = {}
<1>1. \A j \in RoleIds : <<Nobody, j>> \notin t.links
  BY AuthorityAssumption
<1> QED
  BY <1>1 DEF RolesOf

\* CreateUser keeps names unique.
LEMMA UserAddedOK ==
  ASSUME NEW t, AccountsOK(t), NEW name \in UserNames, NEW enabled \in BOOLEAN,
         NEW s, s = UserAdded(t, name, enabled)
  PROVE AccountsOK(s) /\ UsersKept(t, s)
<1> DEFINE n == NextId(t.users, UserIds)
           w == [t.users EXCEPT ![n] = User(name, enabled)]
<1>1. CASE \E v \in UserIds : t.users[v] # Absent /\ t.users[v].name = name
  BY <1>1 DEF UserAdded, UsersKept
<1>2. CASE ~\E v \in UserIds : t.users[v] # Absent /\ t.users[v].name = name
  <2>1. s = [t EXCEPT !.users = w]
    BY <1>2 DEF UserAdded
  <2>2. t = [users |-> t.users, roles |-> t.roles, links |-> t.links, rules |-> t.rules]
    BY DEF AccountsOK
  <2>3. /\ s.users = w /\ s.roles = t.roles /\ s.links = t.links /\ s.rules = t.rules
        /\ s = [users |-> s.users, roles |-> s.roles, links |-> s.links, rules |-> s.rules]
    <3> HIDE DEF w
    <3> QED
      BY <2>1, <2>2
  <2>4. n \in UserIds => t.users[n] = Absent
    BY NextIdFree, AuthorityAssumption
  <2>5. User(name, enabled) \in Users /\ User(name, enabled) # Absent /\ User(name, enabled).name = name
    BY AuthorityAssumption DEF Users, User
  <2>6. t.users \in [UserIds -> Users \cup {Absent}]
    BY DEF AccountsOK
  <2>7. w \in [UserIds -> Users \cup {Absent}]
    BY <2>5, <2>6
  <2>8. \A u \in UserIds : w[u] = IF u = n THEN User(name, enabled) ELSE t.users[u]
    BY <2>6
  <2>9. \A u, v \in UserIds : w[u] # Absent /\ w[v] # Absent /\ w[u].name = w[v].name => u = v
    <3> HIDE DEF w, n
    <3>1. \A u, v \in UserIds :
            t.users[u] # Absent /\ t.users[v] # Absent /\ t.users[u].name = t.users[v].name => u = v
      BY DEF AccountsOK
    <3> QED
      BY <1>2, <2>5, <2>8, <3>1
  <2>10. UsersKept(t, s)
    BY <2>3, <2>4, <2>8 DEF UsersKept
  <2>11. AccountsOK(s)
    <3> HIDE DEF w
    <3> QED
      BY <2>3, <2>7, <2>9 DEF AccountsOK
  <2> QED
    BY <2>10, <2>11
<1> QED
  BY <1>1, <1>2

\* CreateRole keeps names unique.
LEMMA RoleAddedOK ==
  ASSUME NEW t, AccountsOK(t), NEW name \in RoleNames, NEW s, s = RoleAdded(t, name)
  PROVE AccountsOK(s) /\ UsersKept(t, s)
<1> DEFINE n == NextId(t.roles, RoleIds)
           w == [t.roles EXCEPT ![n] = name]
<1>1. CASE \E i \in RoleIds : t.roles[i] = name
  BY <1>1 DEF RoleAdded, UsersKept
<1>2. CASE ~\E i \in RoleIds : t.roles[i] = name
  <2>1. s = [t EXCEPT !.roles = w]
    BY <1>2 DEF RoleAdded
  <2>2. t = [users |-> t.users, roles |-> t.roles, links |-> t.links, rules |-> t.rules]
    BY DEF AccountsOK
  <2>3. /\ s.roles = w /\ s.users = t.users /\ s.links = t.links /\ s.rules = t.rules
        /\ s = [users |-> s.users, roles |-> s.roles, links |-> s.links, rules |-> s.rules]
    <3> HIDE DEF w
    <3> QED
      BY <2>1, <2>2
  <2>6. t.roles \in [RoleIds -> RoleNames \cup {Absent}]
    BY DEF AccountsOK
  <2>7. w \in [RoleIds -> RoleNames \cup {Absent}]
    BY <2>6
  <2>8. \A i \in RoleIds : w[i] = IF i = n THEN name ELSE t.roles[i]
    BY <2>6
  <2>9. \A i, j \in RoleIds : w[i] # Absent /\ w[i] = w[j] => i = j
    <3> HIDE DEF w, n
    <3>1. \A i, j \in RoleIds : t.roles[i] # Absent /\ t.roles[i] = t.roles[j] => i = j
      BY DEF AccountsOK
    <3> QED
      BY <1>2, <2>8, <3>1
  <2>10. UsersKept(t, s)
    BY <2>3 DEF UsersKept
  <2>11. AccountsOK(s)
    <3> HIDE DEF w
    <3> QED
      BY <2>3, <2>7, <2>9 DEF AccountsOK
  <2> QED
    BY <2>10, <2>11
<1> QED
  BY <1>1, <1>2

\* INSERT IGNORE and DELETE of a link.
LEMMA LinksOK ==
  ASSUME NEW t, AccountsOK(t), NEW b, <<b.user, b.role>> \in UserIds \X RoleIds,
         NEW s, s \in {Linked(t, b), Unlinked(t, b)}
  PROVE AccountsOK(s) /\ UsersKept(t, s)
<1> DEFINE l == {<<b.user, b.role>>}
<1>1. s = [t EXCEPT !.links = t.links \cup l] \/ s = [t EXCEPT !.links = t.links \ l]
  BY DEF Linked, Unlinked
<1>2. /\ t = [users |-> t.users, roles |-> t.roles, links |-> t.links, rules |-> t.rules]
      /\ t.links \subseteq UserIds \X RoleIds
  BY DEF AccountsOK
<1>3. l \subseteq UserIds \X RoleIds
  OBVIOUS
<1> HIDE DEF l
<1>4. /\ s.roles = t.roles /\ s.users = t.users /\ s.links \in {t.links \cup l, t.links \ l}
      /\ s.rules = t.rules
      /\ s = [users |-> s.users, roles |-> s.roles, links |-> s.links, rules |-> s.rules]
  BY <1>1, <1>2
<1>5. s.links \subseteq UserIds \X RoleIds
  BY <1>2, <1>3, <1>4
<1> QED
  BY <1>4, <1>5 DEF AccountsOK, UsersKept

\* The table of policies holds what ReplacePolicies takes.
LEMMA RulesOK ==
  ASSUME NEW t, AccountsOK(t), NEW k, NEW p, p = Absent \/ ValidPolicy(p),
         NEW s, s = [t EXCEPT !.rules = [t.rules EXCEPT ![k] = p]]
  PROVE AccountsOK(s) /\ UsersKept(t, s)
<1> DEFINE w == [t.rules EXCEPT ![k] = p]
<1>1. /\ t = [users |-> t.users, roles |-> t.roles, links |-> t.links, rules |-> t.rules]
      /\ t.rules = [i \in RuleIds |-> t.rules[i]]
      /\ \A i \in RuleIds : t.rules[i] = Absent \/ ValidPolicy(t.rules[i])
  BY DEF AccountsOK
<1>2. w = [i \in RuleIds |-> w[i]] /\ \A i \in RuleIds : w[i] = p \/ w[i] = t.rules[i]
  BY <1>1
<1>3. \A i \in RuleIds : w[i] = Absent \/ ValidPolicy(w[i])
  <2> SUFFICES ASSUME NEW i \in RuleIds PROVE w[i] = Absent \/ ValidPolicy(w[i])
    OBVIOUS
  <2>1. CASE w[i] = p
    BY <2>1, Zenon
  <2>2. CASE w[i] = t.rules[i]
    BY <2>2, <1>1, Zenon
  <2> QED
    BY <1>2, <2>1, <2>2
<1>4. s = [t EXCEPT !.rules = w]
  OBVIOUS
<1> HIDE DEF w
<1>5. /\ s.roles = t.roles /\ s.users = t.users /\ s.links = t.links /\ s.rules = w
      /\ s = [users |-> s.users, roles |-> s.roles, links |-> s.links, rules |-> s.rules]
  BY <1>1, <1>4
<1>6. \A i \in RuleIds : s.rules[i] = Absent \/ ValidPolicy(s.rules[i])
  BY <1>3, <1>5, Zenon
<1>7. /\ s.users \in [UserIds -> Users \cup {Absent}] /\ s.roles \in [RoleIds -> RoleNames \cup {Absent}]
      /\ s.links \subseteq UserIds \X RoleIds
      /\ \A u, v \in UserIds :
           s.users[u] # Absent /\ s.users[v] # Absent /\ s.users[u].name = s.users[v].name => u = v
      /\ \A i, j \in RoleIds : s.roles[i] # Absent /\ s.roles[i] = s.roles[j] => i = j
  BY <1>5, Zenon DEF AccountsOK
<1>8. s.rules = [i \in RuleIds |-> s.rules[i]]
  BY <1>2, <1>5
<1>9. AccountsOK(s)
  BY <1>5, <1>6, <1>7, <1>8, Zenon DEF AccountsOK
<1> QED
  BY <1>5, <1>9 DEF UsersKept

\* The first administrator, with role, link and policy.
LEMMA FoundedOK ==
  ASSUME NEW t, AccountsOK(t), IdsLeft(t), Empty(t), NEW s, s = Founded(t, Whole)
  PROVE /\ (\A i \in RoleIds : t.roles[i] # "admin") => AccountsOK(s)
        /\ UsersKept(t, s) /\ HasRoot(s)
        /\ \E u \in UserIds, i \in RoleIds, k \in RuleIds :
             /\ \A v \in UserIds : s.users[v] # Absent <=> v = u
             /\ <<u, i>> \in s.links /\ s.roles[i] = "admin" /\ s.rules[k] = AdminRule
<1> DEFINE u == NextId(t.users, UserIds)
           i == NextId(t.roles, RoleIds)
           k == NextId(t.rules, RuleIds)
           us == [t.users EXCEPT ![u] = User(Root, TRUE)]
           rs == [t.roles EXCEPT ![i] = "admin"]
           ks == [t.rules EXCEPT ![k] = AdminRule]
<1>1. /\ t.users \in [UserIds -> Users \cup {Absent}] /\ t.roles \in [RoleIds -> RoleNames \cup {Absent}]
      /\ t.links \subseteq UserIds \X RoleIds /\ t.rules = [j \in RuleIds |-> t.rules[j]]
      /\ \A j \in RuleIds : t.rules[j] = Absent \/ ValidPolicy(t.rules[j])
      /\ \A m, j \in RoleIds : t.roles[m] # Absent /\ t.roles[m] = t.roles[j] => m = j
  BY DEF AccountsOK
<1>2. t.users = NoAccounts.users
  BY <1>1 DEF Empty, NoAccounts
<1>3. u \in UserIds
  <2>1. \E v \in UserIds : t.users[v] = Absent
    BY AuthorityAssumption DEF Empty
  <2> QED
    BY <2>1, NextIdFree, AuthorityAssumption
<1>4. i \in RoleIds /\ t.roles[i] = Absent
  <2>1. \E j \in RoleIds : t.roles[j] = Absent
    BY <1>2 DEF IdsLeft
  <2>2. RoleIds \subseteq Nat \ {0}
    BY AuthorityAssumption
  <2>3. i \in RoleIds
    BY <2>1, <2>2, NextIdFree
  <2> QED
    BY <2>2, <2>3, NextIdFree
<1>5. k \in RuleIds
  <2>1. \E j \in RuleIds : t.rules[j] = Absent
    BY <1>2 DEF IdsLeft
  <2> QED
    BY <2>1, NextIdFree, AuthorityAssumption
<1>6. s = [users |-> us, roles |-> rs, links |-> t.links \cup {<<u, i>>}, rules |-> ks]
  BY DEF Founded, Whole
<1>7. /\ s.users = us /\ s.roles = rs /\ s.links = t.links \cup {<<u, i>>} /\ s.rules = ks
      /\ s = [users |-> s.users, roles |-> s.roles, links |-> s.links, rules |-> s.rules]
  <2> HIDE DEF us, rs, ks, u, i
  <2> QED
    BY <1>6
<1>8. User(Root, TRUE) \in Users /\ User(Root, TRUE) # Absent /\ User(Root, TRUE).name = Root
  <2>1. Root \in UserNames /\ Absent \notin Users
    BY AuthorityAssumption
  <2>2. \A n \in UserNames, e \in BOOLEAN : User(n, e) \in Users /\ User(n, e).name = n
    BY DEF Users, User
  <2>3. User(Root, TRUE) \in Users /\ User(Root, TRUE).name = Root
    BY <2>1, <2>2, Zenon
  <2> QED
    BY <2>1, <2>3, Zenon
<1>9. us \in [UserIds -> Users \cup {Absent}] /\ \A v \in UserIds : us[v] # Absent <=> v = u
  <2> HIDE DEF u
  <2> QED
    BY <1>1, <1>3, <1>8 DEF Empty
<1>10. us[u] = User(Root, TRUE)
  <2> HIDE DEF u
  <2> QED
    BY <1>1, <1>3
<1>11. /\ rs \in [RoleIds -> RoleNames \cup {Absent}] /\ rs[i] = "admin"
       /\ (\A j \in RoleIds : t.roles[j] # "admin") =>
            \A m, j \in RoleIds : rs[m] # Absent /\ rs[m] = rs[j] => m = j
  <2> HIDE DEF i
  <2>1. "admin" \in RoleNames
    BY AuthorityAssumption
  <2> QED
    BY <1>1, <1>4, <2>1
<1>12. ValidPolicy(AdminRule)
  BY DEF ValidPolicy, AdminRule, Policy, SubjectTypes
<1>13. /\ ks = [j \in RuleIds |-> ks[j]] /\ ks[k] = AdminRule
       /\ \A j \in RuleIds : ks[j] = AdminRule \/ ks[j] = t.rules[j]
  <2> HIDE DEF k
  <2> QED
    BY <1>1, <1>5
<1>14. \A j \in RuleIds : ks[j] = Absent \/ ValidPolicy(ks[j])
  <2> SUFFICES ASSUME NEW j \in RuleIds PROVE ks[j] = Absent \/ ValidPolicy(ks[j])
    OBVIOUS
  <2> HIDE DEF ks
  <2>1. CASE ks[j] = AdminRule
    BY <2>1, <1>12, Zenon
  <2>2. CASE ks[j] = t.rules[j]
    BY <2>2, <1>1, Zenon
  <2> QED
    BY <1>13, <2>1, <2>2
<1>15. t.links \cup {<<u, i>>} \subseteq UserIds \X RoleIds
  <2> HIDE DEF u, i
  <2> QED
    BY <1>1, <1>3, <1>4
<1> HIDE DEF us, rs, ks, u, i, k
<1>16. \A v, w \in UserIds :
         s.users[v] # Absent /\ s.users[w] # Absent /\ s.users[v].name = s.users[w].name => v = w
  BY <1>7, <1>9
<1>17. (\A j \in RoleIds : t.roles[j] # "admin") =>
         \A m, j \in RoleIds : s.roles[m] # Absent /\ s.roles[m] = s.roles[j] => m = j
  BY <1>7, <1>11
<1>18. \A j \in RuleIds : s.rules[j] = Absent \/ ValidPolicy(s.rules[j])
  BY <1>7, <1>14, Zenon
<1>19. /\ s.users \in [UserIds -> Users \cup {Absent}] /\ s.roles \in [RoleIds -> RoleNames \cup {Absent}]
       /\ s.links \subseteq UserIds \X RoleIds /\ s.rules = [j \in RuleIds |-> s.rules[j]]
  BY <1>7, <1>9, <1>11, <1>13, <1>15
<1>20. (\A j \in RoleIds : t.roles[j] # "admin") => AccountsOK(s)
  BY <1>7, <1>16, <1>17, <1>18, <1>19, Zenon DEF AccountsOK
<1>21. HasRoot(s)
  BY <1>3, <1>7, <1>8, <1>10 DEF HasRoot
<1>22. UsersKept(t, s)
  BY DEF UsersKept, Empty
<1>23. <<u, i>> \in s.links /\ s.roles[i] = "admin" /\ s.rules[k] = AdminRule
  BY <1>7, <1>11, <1>13
<1>24. \A v \in UserIds : s.users[v] # Absent <=> v = u
  BY <1>7, <1>9
<1> QED
  BY <1>3, <1>4, <1>5, <1>20, <1>21, <1>22, <1>23, <1>24

\* A policy stored is a policy loaded.
LEMMA LoadsThese ==
  ASSUME NEW t, AccountsOK(t)
  PROVE Loads(t)
<1>1. \A p \in StoredRules(t) : \E k \in RuleIds : p = t.rules[k] /\ p # Absent
  BY DEF StoredRules
<1>2. \A k \in RuleIds : t.rules[k] = Absent \/ ValidPolicy(t.rules[k])
  BY DEF AccountsOK
<1>3. ASSUME NEW p \in StoredRules(t) PROVE ValidPolicy(p)
  <2>1. PICK k \in RuleIds : p = t.rules[k] /\ p # Absent
    BY <1>1
  <2> QED
    BY <1>2, <2>1, Zenon
<1> QED
  BY <1>3 DEF Loads

-----------------------------------------------------------------------------
(***************************************************************************)
(* Dispatch.                                                               *)
(***************************************************************************)
\* A built-in action reaches its own handler, any other one the scripts'.
LEMMA Dispatched ==
  ASSUME NEW x, NEW h, h = Lookup(x)
  PROVE /\ x \in CrudActions => h = "crud"
        /\ h = "script" <=> x \notin CrudActions \cup FileActions
<1> DEFINE matching == {g \in Registered : g.action = "*" \/ g.action = x}
           best == {g \in matching : \A f \in matching : Specificity(g) >= Specificity(f)}
           star == Registration("*", "script", 3)
           pick == CHOOSE g \in best : \A f \in best : g.sequence >= f.sequence
<1>0. h = pick.handler
  BY DEF Lookup
<1>1. \A g \in Registered : \/ g.action \in CrudActions /\ g = Registration(g.action, "crud", 1)
                            \/ g.action \in FileActions /\ g = Registration(g.action, "file", 2)
                            \/ g.action = "*" /\ g = star
  BY DEF Registered, Registration
<1>2. star \in Registered /\ \A n \in CrudActions : Registration(n, "crud", 1) \in Registered
  BY DEF Registered
<1>3. \A n \in FileActions : Registration(n, "file", 2) \in Registered
  BY DEF Registered
<1>4. "*" \notin CrudActions /\ "*" \notin FileActions /\ CrudActions \cap FileActions = {}
  BY DEF CrudActions, FileActions
<1>5. \A n, c, q : /\ Registration(n, c, q).action = n /\ Registration(n, c, q).handler = c
                   /\ Registration(n, c, q).sequence = q
  BY DEF Registration
<1>6. \A g : Specificity(g) = IF g.action = "*" THEN 0 ELSE 1
  BY DEF Specificity
<1> star.action = "*" /\ star.handler = "script" /\ star.sequence = 3
  BY <1>5
<1>11. \A f \in Registered : f.action = "*" => f = star
  BY <1>1, <1>4
<1> HIDE DEF star
<1>7. ASSUME NEW g \in Registered, g.action = x, x # "*", \A f \in Registered : f.action = x => f = g
      PROVE h = g.handler
  <2>1. matching = {g, star}
    BY <1>2, <1>7, <1>11
  <2>2. Specificity(g) = 1 /\ Specificity(star) = 0
    BY <1>5, <1>6, <1>7
  <2> HIDE DEF matching
  <2>3. best = {g}
    BY <2>1, <2>2
  <2> HIDE DEF best
  <2>4. g.sequence >= g.sequence
    BY <1>1, <1>5, <1>7
  <2>5. pick = g
    BY <2>3, <2>4
  <2> QED
    BY <1>0, <2>5
<1>8. CASE x \in CrudActions
  <2> DEFINE g == Registration(x, "crud", 1)
  <2>1. g \in Registered /\ g.action = x /\ x # "*" /\ g.handler = "crud"
    BY <1>2, <1>4, <1>5, <1>8
  <2>2. \A f \in Registered : f.action = x => f = g
    BY <1>1, <1>4, <1>8
  <2> HIDE DEF g
  <2>3. h = "crud"
    BY <1>7, <2>1, <2>2
  <2> QED
    BY <1>8, <2>3
<1>9. CASE x \in FileActions
  <2> DEFINE g == Registration(x, "file", 2)
  <2>1. g \in Registered /\ g.action = x /\ x # "*" /\ g.handler = "file"
    BY <1>3, <1>4, <1>5, <1>9
  <2>2. \A f \in Registered : f.action = x => f = g
    BY <1>1, <1>4, <1>9
  <2> HIDE DEF g
  <2>3. h = "file"
    BY <1>7, <2>1, <2>2
  <2> QED
    BY <1>4, <1>9, <2>3
<1>10. CASE x \notin CrudActions \cup FileActions
  <2>1. \A f \in Registered : f.action = x => f = star
    BY <1>1, <1>10, <1>11
  <2>3. matching = {star}
    BY <1>2, <1>11, <2>1
  <2> HIDE DEF matching
  <2>2. best = {star}
    BY <1>6, <2>3
  <2> HIDE DEF best
  <2>5. pick = star
    <3>1. star.sequence >= star.sequence
      BY <1>5
    <3> QED
      BY <2>2, <3>1
  <2>4. h = "script"
    BY <1>0, <2>5
  <2> QED
    BY <1>10, <2>4
<1> QED
  BY <1>8, <1>9, <1>10

-----------------------------------------------------------------------------
(***************************************************************************)
(* Errands.                                                                *)
(***************************************************************************)
\* Who asks, and for what.
SameBusiness(e, f) == f.kind = e.kind /\ f.body = e.body /\ f.user = e.user

\* What may be done does not depend on how far a request has got.
LEMMA BusinessLasts ==
  ASSUME NEW e, NEW f, SameBusiness(e, f)
  PROVE /\ TargetOf(f) = TargetOf(e) /\ (Reserved(f) <=> Reserved(e))
        /\ \A s, r : MayDo(f, s, r) <=> MayDo(e, s, r)
        /\ \A s, r, w : SeenBy(f, s, r, w) <=> SeenBy(e, s, r, w)
<1>1. TargetOf(f) = TargetOf(e) /\ (Reserved(f) <=> Reserved(e))
  BY DEF SameBusiness, TargetOf, Reserved
<1>2. f.user = e.user
  BY DEF SameBusiness
<1>3. \A s, r : GrantedTo(f, s, r) <=> GrantedTo(e, s, r)
  BY <1>1, <1>2 DEF GrantedTo
<1>4. \A s, r, w : SeenBy(f, s, r, w) <=> SeenBy(e, s, r, w)
  BY <1>1, <1>2 DEF SeenBy
<1>5. \A s, r : MayDo(f, s, r) <=> MayDo(e, s, r)
  BY <1>1, <1>3, Zenon DEF MayDo
<1> QED
  BY <1>1, <1>4, <1>5

\* A move to another label.
LEMMA Moved ==
  ASSUME NEW e, IsErrand(e), NEW l \in ErrandLabels, NEW f, f = [e EXCEPT !.at = l]
  PROVE /\ IsErrand(f) /\ SameBusiness(e, f) /\ f.at = l /\ f.on = e.on
        /\ f.roles = e.roles /\ f.rows = e.rows /\ f.rules = e.rules /\ f.ran = e.ran
<1>1. e = [at |-> e.at, on |-> e.on, user |-> e.user, kind |-> e.kind, body |-> e.body,
           roles |-> e.roles, rows |-> e.rows, rules |-> e.rules, ran |-> e.ran]
  BY DEF IsErrand
<1>2. /\ f.at = l /\ f.on = e.on /\ f.user = e.user /\ f.kind = e.kind /\ f.body = e.body
      /\ f.roles = e.roles /\ f.rows = e.rows /\ f.rules = e.rules /\ f.ran = e.ran
      /\ f = [at |-> f.at, on |-> f.on, user |-> f.user, kind |-> f.kind, body |-> f.body,
              roles |-> f.roles, rows |-> f.rows, rules |-> f.rules, ran |-> f.ran]
  BY <1>1
<1> QED
  BY <1>2 DEF IsErrand, SameBusiness

\* No errand.
LEMMA NoneAsked ==
  /\ IsErrand(NoErrand) /\ NoErrand.at = "idle" /\ NoErrand.user = Nobody /\ NoErrand.on = Absent
  /\ \A t, held, seen : Justified(t, NoErrand, held, seen)
<1>1. /\ NoErrand.at = "idle" /\ NoErrand.user = Nobody /\ NoErrand.on = Absent
      /\ NoErrand.kind = "records" /\ NoErrand.body = NoBody
      /\ NoErrand = [at |-> NoErrand.at, on |-> NoErrand.on, user |-> NoErrand.user,
                     kind |-> NoErrand.kind, body |-> NoErrand.body, roles |-> NoErrand.roles,
                     rows |-> NoErrand.rows, rules |-> NoErrand.rules, ran |-> NoErrand.ran]
  BY DEF NoErrand
<1>2. NoBody \in BodiesOf("records")
  BY DEF BodiesOf
<1>3. IsErrand(NoErrand)
  BY <1>1, <1>2 DEF IsErrand, ErrandLabels, Kinds
<1>4. \A t, held, seen : Justified(t, NoErrand, held, seen)
  BY <1>1 DEF Justified
<1> QED
  BY <1>1, <1>3, <1>4

\* What justifies an answer is not lost while others go on.
LEMMA JustifiedLasts ==
  ASSUME NEW e, NEW t, NEW s, NEW held, NEW held2, NEW seen, NEW seen2,
         Justified(t, e, held, seen), held \subseteq held2, seen \subseteq seen2,
         UsersKept(t, s), e.user # Nobody => e.user \in UserIds /\ t.users[e.user] # Absent
  PROVE Justified(s, e, held2, seen2)
<1>1. e.user # Nobody => t.users[e.user] = s.users[e.user]
  BY DEF UsersKept
<1> QED
  BY <1>1 DEF Justified

\* An asker whose request stays where it is.
LEMMA Stands ==
  ASSUME AskInv, NEW b \in Askers, errand'[b] = errand[b], UsersKept(accounts, accounts'),
         errand[b].at # "idle" =>
           /\ heldRoles[b] \subseteq heldRoles'[b] /\ rulesSeen[b] \subseteq rulesSeen'[b]
           /\ process'[errand[b].on] = "up"
           /\ RolesOf(accounts', errand[b].user) \in heldRoles'[b]
           /\ rulesIn'[errand[b].on] \in rulesSeen'[b]
  PROVE AskFor(b)'
<1>0. IsErrand(errand[b]) /\ Asked(errand[b]) /\ Justified(accounts, errand[b], heldRoles[b], rulesSeen[b])
  BY DEF AskInv, AskFor
<1>1. IsErrand(errand[b])'
  BY <1>0 DEF IsErrand
<1>2. errand[b].user # Nobody => /\ errand[b].user \in UserIds /\ accounts.users[errand[b].user] # Absent
                                 /\ accounts'.users[errand[b].user] = accounts.users[errand[b].user]
  BY <1>0 DEF IsErrand, Asked, UsersKept
<1>3. Asked(errand[b])'
  BY <1>0, <1>2 DEF Asked
<1>4. Current(b)'
  BY DEF Current
<1>5. Justified(accounts, errand[b], heldRoles[b], rulesSeen[b])'
  <2>1. CASE errand[b].at = "idle"
    BY <1>0, <2>1, NoneAsked DEF Asked
  <2>2. CASE errand[b].at # "idle"
    BY <1>0, <1>2, <2>2, JustifiedLasts
  <2> QED
    BY <2>1, <2>2
<1> QED
  BY <1>1, <1>3, <1>4, <1>5 DEF AskFor

\* An asker that takes a step of its own, with nothing else changed.
LEMMA Steps ==
  ASSUME Shapes, AskInv, NEW a \in Askers, errand[a].at # "idle", NEW f, Becomes(a, f),
         IsErrand(f), SameBusiness(errand[a], f), f.on = errand[a].on, f.at \notin {"idle", "identify"},
         Justified(accounts, f, heldRoles[a], rulesSeen[a]),
         UNCHANGED <<accounts, process, rulesIn, heldRoles, rulesSeen>>
  PROVE AskInv'
<1>1. errand'[a] = f /\ \A b \in Askers : b # a => errand'[b] = errand[b]
  BY DEF Shapes, Becomes
<1>2. AskFor(a)'
  <2>1. IsErrand(errand[a]) /\ Asked(errand[a]) /\ Current(a)
    BY DEF AskInv, AskFor
  <2>2. f.user = errand[a].user
    BY DEF SameBusiness
  <2>3. IsErrand(errand[a])'
    BY <1>1 DEF IsErrand
  <2>4. Asked(errand[a])'
    BY <1>1, <2>1, <2>2 DEF Asked
  <2>5. Current(a)'
    BY <1>1, <2>1, <2>2 DEF Current
  <2>6. Justified(accounts, errand[a], heldRoles[a], rulesSeen[a])'
    BY <1>1
  <2> QED
    BY <2>3, <2>4, <2>5, <2>6 DEF AskFor
<1>3. ASSUME NEW b \in Askers, b # a PROVE AskFor(b)'
  <2>1. AskFor(b)
    BY DEF AskInv
  <2>2. UsersKept(accounts, accounts')
    BY DEF UsersKept
  <2>3. errand[b].at # "idle" =>
           /\ process'[errand[b].on] = "up"
           /\ RolesOf(accounts', errand[b].user) \in heldRoles'[b]
           /\ rulesIn'[errand[b].on] \in rulesSeen'[b]
    BY <2>1 DEF AskFor, Current, Asked
  <2> QED
    BY <1>1, <1>3, <2>2, <2>3, Stands
<1> QED
  BY <1>2, <1>3 DEF AskInv

\* Witnessed: those under way have the roles and policies of this moment, too.
LEMMA WitnessedGrows ==
  ASSUME Shapes, NEW t, NEW r, Witnessed(t, r), NEW b \in Askers, errand[b].at # "idle"
  PROVE /\ heldRoles[b] \subseteq heldRoles'[b] /\ rulesSeen[b] \subseteq rulesSeen'[b]
        /\ RolesOf(t, errand[b].user) \in heldRoles'[b] /\ r[errand[b].on] \in rulesSeen'[b]
<1>1. heldRoles'[b] = heldRoles[b] \cup {RolesOf(t, errand[b].user)}
  BY DEF Witnessed
<1>2. rulesSeen'[b] = rulesSeen[b] \cup {r[errand[b].on]}
  BY DEF Witnessed
<1> QED
  BY <1>1, <1>2

\* What is known of a request when it takes a step.
LEMMA Known ==
  ASSUME Shapes, AskInv, NEW a \in Askers, NEW e, e = errand[a], e.at # "idle"
  PROVE /\ IsErrand(e) /\ e.on \in Processes /\ process[e.on] = "up"
        /\ Justified(accounts, e, heldRoles[a], rulesSeen[a])
        /\ RolesOf(accounts, e.user) \in heldRoles[a] /\ rulesIn[e.on] \in rulesSeen[a]
        /\ e.user # Nobody => e.user \in UserIds /\ accounts.users[e.user] # Absent
        /\ e.at = "identify" => e.user # Nobody
<1>1. AskFor(a)
  BY DEF AskInv
<1> QED
  BY <1>1 DEF AskFor, Asked, Current, IsErrand

\* Authenticate
LEMMA IdentifyStep ==
  ASSUME Shapes, AskInv, NEW a \in Askers, Identify(a)
  PROVE AskInv'
<1>1. PICK e : e = errand[a]
  OBVIOUS
<1>2. PICK f : f = [e EXCEPT !.at = IF accounts.users[e.user].enabled THEN "authorize" ELSE "refused",
                             !.roles = Roles(e.user)]
  OBVIOUS
<1>3. e.at = "identify" /\ Becomes(a, f)
      /\ UNCHANGED <<accounts, process, rulesIn, heldRoles, rulesSeen>>
  BY <1>1, <1>2 DEF Identify, Stage, Apart, NoHistory
<1>4. /\ IsErrand(e) /\ e.user # Nobody
      /\ RolesOf(accounts, e.user) \in heldRoles[a]
  BY <1>1, <1>3, Known
<1>5. e = [at |-> e.at, on |-> e.on, user |-> e.user, kind |-> e.kind, body |-> e.body,
           roles |-> e.roles, rows |-> e.rows, rules |-> e.rules, ran |-> e.ran]
  BY <1>4 DEF IsErrand
<1>6. /\ f.at = (IF accounts.users[e.user].enabled THEN "authorize" ELSE "refused")
      /\ f.on = e.on /\ f.user = e.user /\ f.kind = e.kind /\ f.body = e.body
      /\ f.roles = Roles(e.user)
      /\ f = [at |-> f.at, on |-> f.on, user |-> f.user, kind |-> f.kind, body |-> f.body,
              roles |-> f.roles, rows |-> f.rows, rules |-> f.rules, ran |-> f.ran]
  BY <1>2, <1>5
<1>7. IsErrand(f) /\ SameBusiness(e, f)
  BY <1>4, <1>6 DEF IsErrand, SameBusiness, ErrandLabels
<1>8. Justified(accounts, f, heldRoles[a], rulesSeen[a])
  <2>1. CASE accounts.users[e.user].enabled
    BY <1>4, <1>6, <2>1 DEF Justified, Roles
  <2>2. CASE ~accounts.users[e.user].enabled
    BY <1>4, <1>6, <2>2 DEF Justified
  <2> QED
    BY <2>1, <2>2
<1>9. f.at \notin {"idle", "identify"} /\ f.on = errand[a].on /\ SameBusiness(errand[a], f) /\ errand[a].at # "idle"
  BY <1>1, <1>3, <1>6, <1>7
<1> QED
  BY <1>3, <1>7, <1>8, <1>9, Steps

\* The decision is whether a policy grants it.
LEMMA DecisionIs ==
  ASSUME NEW a \in Askers, NEW e, e = errand[a], NEW d, d = Decision(a), NEW s, s = rulesIn[e.on]
  PROVE /\ d.allowed <=> GrantedTo(e, s, e.roles)
        /\ \A w \in Orders : w \in d.rows <=> SeenBy(e, s, e.roles, w)
<1> DEFINE m == {p \in s : Applies(p, e.user, e.roles, TargetOf(e))}
<1>2. \A p \in m : p.filter = "none" => Resolved(p.filter, e.user, e.roles) = Orders
  BY DEF Resolved
<1>3. d.allowed <=> m # {}
  <2>1. d.allowed = (m # {})
    BY DEF Decision, Evaluate
  <2> QED
    BY <2>1
<1>4. d.rows = IF \E p \in m : p.filter = "none" THEN Orders
               ELSE UNION {Resolved(p.filter, e.user, e.roles) : p \in m}
  BY DEF Decision, Evaluate
<1>5. GrantedTo(e, s, e.roles) <=> m # {}
  BY DEF GrantedTo
<1>6. \A w : SeenBy(e, s, e.roles, w) <=> \E p \in m : w \in Resolved(p.filter, e.user, e.roles)
  BY DEF SeenBy
<1> HIDE DEF m
<1>7. \A w \in Orders : w \in d.rows <=> \E p \in m : w \in Resolved(p.filter, e.user, e.roles)
  <2>1. CASE \E p \in m : p.filter = "none"
    BY <1>2, <1>4, <2>1
  <2>2. CASE ~\E p \in m : p.filter = "none"
    BY <1>4, <2>2
  <2> QED
    BY <2>1, <2>2
<1> QED
  BY <1>3, <1>5, <1>6, <1>7

\* MetaHTTPMiddleware, Manager.Dispatch and the controllers' authorize
LEMMA AuthorizedStep ==
  ASSUME Shapes, AskInv, NEW a \in Askers, Authorized(a)
  PROVE AskInv'
<1>1. PICK e : e = errand[a]
  OBVIOUS
<1>2. PICK l : l = IF Decision(a).allowed /\ (Reserved(e) => "admin" \in e.roles) THEN "act" ELSE "refused"
  OBVIOUS
<1>3. PICK f : f = [e EXCEPT !.at = l]
  OBVIOUS
<1>4. /\ e.at = "authorize" /\ Becomes(a, f)
      /\ UNCHANGED <<accounts, process, rulesIn, heldRoles, rulesSeen>>
  BY <1>1, <1>2, <1>3 DEF Authorized, Stage, Move, Apart, NoHistory
<1>5. /\ IsErrand(e) /\ e.on \in Processes /\ rulesIn[e.on] \in rulesSeen[a]
      /\ Justified(accounts, e, heldRoles[a], rulesSeen[a])
  BY <1>1, <1>4, Known
<1>6. e.roles \in heldRoles[a]
  BY <1>4, <1>5 DEF Justified
<1>7. l \in {"act", "refused"} /\ l \in ErrandLabels
  BY <1>2 DEF ErrandLabels
<1>8. /\ IsErrand(f) /\ SameBusiness(e, f) /\ f.at = l /\ f.on = e.on /\ f.roles = e.roles
  BY <1>3, <1>5, <1>7, Moved
<1>9. l = "act" <=> MayDo(e, rulesIn[e.on], e.roles)
  <2>1. Decision(a).allowed <=> GrantedTo(e, rulesIn[e.on], e.roles)
    BY <1>1, DecisionIs
  <2> QED
    BY <1>2, <2>1 DEF MayDo
<1>10. MayDo(f, rulesIn[e.on], e.roles) <=> MayDo(e, rulesIn[e.on], e.roles)
  BY <1>8, BusinessLasts
<1>11. Justified(accounts, f, heldRoles[a], rulesSeen[a])
  <2>1. CASE l = "act"
    BY <1>5, <1>6, <1>8, <1>9, <1>10, <2>1 DEF Justified
  <2>2. CASE l = "refused"
    BY <1>5, <1>6, <1>8, <1>9, <1>10, <2>2 DEF Justified
  <2> QED
    BY <1>7, <2>1, <2>2
<1> QED
  BY <1>1, <1>4, <1>7, <1>8, <1>11, Steps

\* What may be done now could be done at roles and policies of the request's time.
LEMMA Acting ==
  ASSUME NEW e, NEW t, NEW held, NEW seen, Justified(t, e, held, seen), e.at = "act"
  PROVE e.roles \in held /\ \E s \in seen : MayDo(e, s, e.roles)
BY DEF Justified

\* GenericRepository.Find, with the rows that it may see
LEMMA ListStep ==
  ASSUME Shapes, AskInv, NEW a \in Askers, ListRecords(a)
  PROVE AskInv'
<1>1. PICK e : e = errand[a]
  OBVIOUS
<1>2. PICK d : d = Decision(a)
  OBVIOUS
<1>3. PICK f : f = [e EXCEPT !.at = IF d.allowed THEN "done" ELSE "refused", !.rows = d.rows,
                             !.ran = Reached(a)]
  OBVIOUS
<1>4. /\ e.at = "act" /\ e.kind = "records" /\ Becomes(a, f)
      /\ UNCHANGED <<accounts, process, rulesIn, heldRoles, rulesSeen>>
  BY <1>1, <1>2, <1>3 DEF ListRecords, Performs, Stage, Apart, NoHistory
<1>5. /\ IsErrand(e) /\ e.on \in Processes /\ rulesIn[e.on] \in rulesSeen[a]
      /\ Justified(accounts, e, heldRoles[a], rulesSeen[a])
  BY <1>1, <1>4, Known
<1>6. e.roles \in heldRoles[a] /\ \E s \in rulesSeen[a] : MayDo(e, s, e.roles)
  BY <1>4, <1>5, Acting
<1>7. e = [at |-> e.at, on |-> e.on, user |-> e.user, kind |-> e.kind, body |-> e.body,
           roles |-> e.roles, rows |-> e.rows, rules |-> e.rules, ran |-> e.ran]
  BY <1>5 DEF IsErrand
<1>8. /\ f.at = (IF d.allowed THEN "done" ELSE "refused")
      /\ f.on = e.on /\ f.user = e.user /\ f.kind = e.kind /\ f.body = e.body
      /\ f.rows = d.rows /\ f.ran = Reached(a)
      /\ f = [at |-> f.at, on |-> f.on, user |-> f.user, kind |-> f.kind, body |-> f.body,
              roles |-> f.roles, rows |-> f.rows, rules |-> f.rules, ran |-> f.ran]
  BY <1>3, <1>7
<1>9. IsErrand(f) /\ SameBusiness(e, f)
  BY <1>5, <1>8 DEF IsErrand, SameBusiness, ErrandLabels
<1>10. f.ran = "crud"
  <2>1. TargetOf(e)[2] = "list" /\ "list" \in CrudActions
    BY <1>4 DEF TargetOf, CrudActions
  <2>2. Reached(a) = Lookup("list")
    BY <1>1, <2>1 DEF Reached
  <2> QED
    BY <1>8, <2>1, <2>2, Dispatched
<1>11. /\ d.allowed <=> GrantedTo(e, rulesIn[e.on], e.roles)
       /\ \A w \in Orders : w \in d.rows <=> SeenBy(e, rulesIn[e.on], e.roles, w)
  BY <1>1, <1>2, DecisionIs
<1>12. /\ \A s, r : MayDo(f, s, r) <=> MayDo(e, s, r)
       /\ \A s, r, w : SeenBy(f, s, r, w) <=> SeenBy(e, s, r, w)
  BY <1>9, BusinessLasts
<1>13. Justified(accounts, f, heldRoles[a], rulesSeen[a])
  <2>1. CASE d.allowed
    <3>1. f.at = "done" /\ f.kind = "records"
      BY <1>4, <1>8, <2>1
    <3>2. \E s \in rulesSeen[a], r \in heldRoles[a] : MayDo(f, s, r)
      BY <1>6, <1>12
    <3>3. ASSUME NEW w \in Orders
          PROVE IF w \in f.rows THEN \E s \in rulesSeen[a], r \in heldRoles[a] : SeenBy(f, s, r, w)
                ELSE \E s \in rulesSeen[a], r \in heldRoles[a] : ~SeenBy(f, s, r, w)
      BY <1>5, <1>6, <1>8, <1>11, <1>12
    <3> QED
      BY <1>10, <3>1, <3>2, <3>3 DEF Justified
  <2>2. CASE ~d.allowed
    <3>1. f.at = "refused"
      BY <1>8, <2>2
    <3>2. ~MayDo(f, rulesIn[e.on], e.roles)
      BY <1>11, <1>12, <2>2 DEF MayDo
    <3>3. \E s \in rulesSeen[a], r \in heldRoles[a] : ~MayDo(f, s, r)
      BY <1>5, <1>6, <3>2
    <3> QED
      BY <3>1, <3>3 DEF Justified
  <2> QED
    BY <2>1, <2>2
<1>14. f.at \notin {"idle", "identify"}
  BY <1>8
<1> QED
  BY <1>1, <1>4, <1>8, <1>9, <1>13, <1>14, Steps

\* The handler of "*", or the one of the built-in action that a script has declared
LEMMA ScriptStep ==
  ASSUME Shapes, AskInv, NEW a \in Askers, RunScript(a)
  PROVE AskInv'
<1>1. PICK e : e = errand[a]
  OBVIOUS
<1>3. PICK f : f = [e EXCEPT !.at = "done", !.ran = Reached(a)]
  OBVIOUS
<1>4. /\ e.at = "act" /\ e.kind = "script" /\ Becomes(a, f)
      /\ UNCHANGED <<accounts, process, rulesIn, heldRoles, rulesSeen>>
  BY <1>1, <1>3 DEF RunScript, Performs, Stage, Apart, NoHistory
<1>5. /\ IsErrand(e) /\ Justified(accounts, e, heldRoles[a], rulesSeen[a])
  BY <1>1, <1>4, Known
<1>6. e.roles \in heldRoles[a] /\ \E s \in rulesSeen[a] : MayDo(e, s, e.roles)
  BY <1>4, <1>5, Acting
<1>7. e = [at |-> e.at, on |-> e.on, user |-> e.user, kind |-> e.kind, body |-> e.body,
           roles |-> e.roles, rows |-> e.rows, rules |-> e.rules, ran |-> e.ran]
  BY <1>5 DEF IsErrand
<1>8. /\ f.at = "done"
      /\ f.on = e.on /\ f.user = e.user /\ f.kind = e.kind /\ f.body = e.body
      /\ f.ran = Reached(a)
      /\ f = [at |-> f.at, on |-> f.on, user |-> f.user, kind |-> f.kind, body |-> f.body,
              roles |-> f.roles, rows |-> f.rows, rules |-> f.rules, ran |-> f.ran]
  BY <1>3, <1>7
<1>9. IsErrand(f) /\ SameBusiness(e, f)
  BY <1>5, <1>8 DEF IsErrand, SameBusiness, ErrandLabels
<1>10. TargetOf(f) = TargetOf(e) /\ \A s, r : MayDo(f, s, r) <=> MayDo(e, s, r)
  BY <1>9, BusinessLasts
<1>11. f.ran = "script" <=> TargetOf(f)[2] \notin CrudActions \cup FileActions
  <2>1. PICK x : x = TargetOf(e)[2]
    OBVIOUS
  <2>2. f.ran = Lookup(x)
    BY <1>1, <1>8, <2>1 DEF Reached
  <2> QED
    BY <1>10, <2>1, <2>2, Dispatched
<1>12. \E s \in rulesSeen[a], r \in heldRoles[a] : MayDo(f, s, r)
  BY <1>6, <1>10
<1>13. Justified(accounts, f, heldRoles[a], rulesSeen[a])
  BY <1>4, <1>8, <1>11, <1>12 DEF Justified
<1> QED
  BY <1>1, <1>4, <1>8, <1>9, <1>13, Steps

\* A request that has been granted and goes on.
LEMMA GoesOn ==
  ASSUME NEW e, NEW f, NEW t, NEW held, NEW seen, Justified(t, e, held, seen), SameBusiness(e, f),
         e.at \in {"act", "load", "publish"}, e.kind \notin {"records", "script"},
         f.at \in {"load", "publish", "done"}, f.at # "done" => e.kind \in PolicyKinds
  PROVE Justified(t, f, held, seen)
<1>1. \E s \in seen, r \in held : MayDo(e, s, r)
  BY DEF Justified
<1>2. \E s \in seen, r \in held : MayDo(f, s, r)
  BY <1>1, BusinessLasts
<1>3. f.kind = e.kind
  BY DEF SameBusiness
<1> QED
  BY <1>2, <1>3 DEF Justified

\* A change of the schema.
LEMMA SchemaStep ==
  ASSUME Shapes, AskInv, NEW a \in Askers, ChangeSchema(a)
  PROVE AskInv'
<1>1. PICK e : e = errand[a]
  OBVIOUS
<1>2. PICK f : f = [e EXCEPT !.at = "done"]
  OBVIOUS
<1>3. /\ e.at = "act" /\ e.kind = "schema" /\ Becomes(a, f)
      /\ UNCHANGED <<accounts, process, rulesIn, heldRoles, rulesSeen>>
  BY <1>1, <1>2 DEF ChangeSchema, Performs, Stage, Move, Apart, NoHistory
<1>4. IsErrand(e) /\ Justified(accounts, e, heldRoles[a], rulesSeen[a])
  BY <1>1, <1>3, Known
<1>5. "done" \in ErrandLabels
  BY DEF ErrandLabels
<1>6. IsErrand(f) /\ SameBusiness(e, f) /\ f.at = "done" /\ f.on = e.on
  BY <1>2, <1>4, <1>5, Moved
<1>7. Justified(accounts, f, heldRoles[a], rulesSeen[a])
  BY <1>3, <1>4, <1>6, GoesOn
<1> QED
  BY <1>1, <1>3, <1>6, <1>7, Steps

\* LoadPolicies
LEMMA ReadStep ==
  ASSUME Shapes, AskInv, NEW a \in Askers, ReadRules(a)
  PROVE AskInv'
<1>1. PICK e : e = errand[a]
  OBVIOUS
<1>2. PICK f : f = [e EXCEPT !.at = "publish", !.rules = StoredRules(accounts)]
  OBVIOUS
<1>3. /\ e.at = "load" /\ Becomes(a, f)
      /\ UNCHANGED <<accounts, process, rulesIn, heldRoles, rulesSeen>>
  BY <1>1, <1>2 DEF ReadRules, Stage, Apart, NoHistory
<1>4. IsErrand(e) /\ Justified(accounts, e, heldRoles[a], rulesSeen[a])
  BY <1>1, <1>3, Known
<1>5. e = [at |-> e.at, on |-> e.on, user |-> e.user, kind |-> e.kind, body |-> e.body,
           roles |-> e.roles, rows |-> e.rows, rules |-> e.rules, ran |-> e.ran]
  BY <1>4 DEF IsErrand
<1>6. /\ f.at = "publish" /\ f.on = e.on /\ f.user = e.user /\ f.kind = e.kind /\ f.body = e.body
      /\ f = [at |-> f.at, on |-> f.on, user |-> f.user, kind |-> f.kind, body |-> f.body,
              roles |-> f.roles, rows |-> f.rows, rules |-> f.rules, ran |-> f.ran]
  BY <1>2, <1>5
<1>7. IsErrand(f) /\ SameBusiness(e, f)
  BY <1>4, <1>6 DEF IsErrand, SameBusiness, ErrandLabels
<1>8. e.kind \in PolicyKinds /\ e.kind \notin {"records", "script"}
  BY <1>3, <1>4 DEF Justified, PolicyKinds
<1>9. Justified(accounts, f, heldRoles[a], rulesSeen[a])
  BY <1>3, <1>4, <1>6, <1>7, <1>8, GoesOn
<1> QED
  BY <1>1, <1>3, <1>6, <1>7, <1>9, Steps

\* A request whose own step changes the tables, or the policies in memory: those
\* under way have the roles and policies of the new moment, too.
LEMMA Changes ==
  ASSUME Shapes, AskInv, NEW a \in Askers, NEW e, e = errand[a], NEW f, Becomes(a, f),
         UNCHANGED process, Witnessed(accounts', rulesIn'), UsersKept(accounts, accounts'),
         e.at \in {"act", "publish"}, e.kind \notin {"records", "script"},
         IsErrand(f), SameBusiness(e, f), f.on = e.on,
         f.at \in {"load", "done"}, f.at # "done" => e.kind \in PolicyKinds
  PROVE AskInv'
<1>1. errand'[a] = f /\ \A b \in Askers : b # a => errand'[b] = errand[b]
  BY DEF Shapes, Becomes
<1>2. /\ e.on \in Processes /\ process[e.on] = "up"
      /\ Justified(accounts, e, heldRoles[a], rulesSeen[a])
      /\ e.user # Nobody => e.user \in UserIds /\ accounts.users[e.user] # Absent
  BY Known
<1>3. AskFor(a)'
  <2>1. /\ heldRoles[a] \subseteq heldRoles'[a] /\ rulesSeen[a] \subseteq rulesSeen'[a]
        /\ RolesOf(accounts', e.user) \in heldRoles'[a] /\ rulesIn'[e.on] \in rulesSeen'[a]
    BY WitnessedGrows
  <2>2. f.user = e.user
    BY DEF SameBusiness
  <2>3. IsErrand(errand[a])'
    BY <1>1 DEF IsErrand
  <2>4. Asked(errand[a])'
    BY <1>1, <1>2, <2>2 DEF Asked, UsersKept
  <2>5. Current(a)'
    BY <1>1, <2>1, <2>2 DEF Current
  <2>6. Justified(accounts, f, heldRoles[a], rulesSeen[a])
    BY <1>2, GoesOn
  <2>7. Justified(accounts', f, heldRoles'[a], rulesSeen'[a])
    BY <1>2, <2>1, <2>2, <2>6, JustifiedLasts
  <2>8. Justified(accounts, errand[a], heldRoles[a], rulesSeen[a])'
    BY <1>1, <2>7
  <2> QED
    BY <2>3, <2>4, <2>5, <2>8 DEF AskFor
<1>4. ASSUME NEW b \in Askers, b # a PROVE AskFor(b)'
  <2>1. errand[b].at # "idle" =>
           /\ heldRoles[b] \subseteq heldRoles'[b] /\ rulesSeen[b] \subseteq rulesSeen'[b]
           /\ RolesOf(accounts', errand[b].user) \in heldRoles'[b]
           /\ rulesIn'[errand[b].on] \in rulesSeen'[b]
    BY WitnessedGrows
  <2>2. errand[b].at # "idle" => process'[errand[b].on] = "up"
    BY DEF AskInv, AskFor, Asked
  <2> QED
    BY <1>1, <1>4, <2>1, <2>2, Stands
<1> QED
  BY <1>3, <1>4 DEF AskInv

\* A statement on the tables.
LEMMA Executed ==
  ASSUME Shapes, AskInv, NEW a \in Askers, NEW t, NEW to \in {"load", "done"}, Execute(a, t, to),
         UsersKept(accounts, t), errand[a].at = "act", errand[a].kind \notin {"records", "script"},
         to = "load" => errand[a].kind \in PolicyKinds
  PROVE AskInv'
<1>1. PICK e : e = errand[a]
  OBVIOUS
<1>2. PICK f : f = [e EXCEPT !.at = to]
  OBVIOUS
<1>3. /\ accounts' = t /\ rulesIn' = rulesIn /\ process' = process /\ Becomes(a, f)
      /\ Witnessed(t, rulesIn)
  BY <1>1, <1>2 DEF Execute, Move, Apart
<1>4. IsErrand(e)
  BY <1>1, Known
<1>5. to \in ErrandLabels
  BY DEF ErrandLabels
<1>6. IsErrand(f) /\ SameBusiness(e, f) /\ f.at = to /\ f.on = e.on
  BY <1>2, <1>4, <1>5, Moved
<1>7. Witnessed(accounts', rulesIn')
  BY <1>3
<1> QED
  BY <1>1, <1>3, <1>6, <1>7, Changes

\* ReplacePolicies
LEMMA PublishStep ==
  ASSUME Shapes, AskInv, NEW a \in Askers, PublishRules(a)
  PROVE AskInv'
<1>1. PICK e : e = errand[a]
  OBVIOUS
<1>2. PICK f : f = [e EXCEPT !.at = "done", !.rules = {}]
  OBVIOUS
<1>3. /\ e.at = "publish" /\ Becomes(a, f) /\ Witnessed(accounts', rulesIn')
      /\ UNCHANGED <<accounts, process>>
  BY <1>1, <1>2 DEF PublishRules, Stage
<1>4. IsErrand(e) /\ Justified(accounts, e, heldRoles[a], rulesSeen[a])
  BY <1>1, <1>3, Known
<1>5. e = [at |-> e.at, on |-> e.on, user |-> e.user, kind |-> e.kind, body |-> e.body,
           roles |-> e.roles, rows |-> e.rows, rules |-> e.rules, ran |-> e.ran]
  BY <1>4 DEF IsErrand
<1>6. /\ f.at = "done" /\ f.on = e.on /\ f.user = e.user /\ f.kind = e.kind /\ f.body = e.body
      /\ f = [at |-> f.at, on |-> f.on, user |-> f.user, kind |-> f.kind, body |-> f.body,
              roles |-> f.roles, rows |-> f.rows, rules |-> f.rules, ran |-> f.ran]
  BY <1>2, <1>5
<1>7. IsErrand(f) /\ SameBusiness(e, f)
  BY <1>4, <1>6 DEF IsErrand, SameBusiness, ErrandLabels
<1>8. e.kind \notin {"records", "script"}
  BY <1>3, <1>4 DEF Justified, PolicyKinds
<1>9. UsersKept(accounts, accounts')
  BY <1>3 DEF UsersKept
<1> QED
  BY <1>1, <1>3, <1>6, <1>7, <1>8, <1>9, Changes

\* Those whose request ends, with or without an answer.
LEMMA Ends ==
  ASSUME AskInv, Shapes, NEW S, S \subseteq Askers,
         errand' = [a \in Askers |-> IF a \in S THEN NoErrand ELSE errand[a]],
         \A a \in Askers \ S : heldRoles'[a] = heldRoles[a] /\ rulesSeen'[a] = rulesSeen[a],
         UNCHANGED accounts,
         \A a \in Askers \ S : errand[a].at # "idle" =>
           /\ process'[errand[a].on] = process[errand[a].on]
           /\ rulesIn'[errand[a].on] = rulesIn[errand[a].on]
  PROVE AskInv'
<1>1. ASSUME NEW a \in S PROVE AskFor(a)'
  <2>1. errand'[a] = NoErrand /\ a \in Askers
    BY <1>1
  <2>2. IsErrand(errand[a])'
    BY <2>1, NoneAsked DEF IsErrand
  <2>3. Asked(errand[a])'
    BY <2>1, NoneAsked DEF Asked
  <2>4. Current(a)'
    BY <2>1, NoneAsked DEF Current
  <2>5. Justified(accounts, errand[a], heldRoles[a], rulesSeen[a])'
    BY <2>1, NoneAsked
  <2> QED
    BY <2>2, <2>3, <2>4, <2>5 DEF AskFor
<1>2. ASSUME NEW b \in Askers, b \notin S PROVE AskFor(b)'
  <2>1. AskFor(b)
    BY DEF AskInv
  <2>2. UsersKept(accounts, accounts')
    BY DEF UsersKept
  <2>3. errand[b].at # "idle" =>
           /\ process'[errand[b].on] = "up"
           /\ RolesOf(accounts', errand[b].user) \in heldRoles'[b]
           /\ rulesIn'[errand[b].on] \in rulesSeen'[b]
    BY <1>2, <2>1 DEF AskFor, Current, Asked
  <2>4. errand'[b] = errand[b] /\ heldRoles'[b] = heldRoles[b] /\ rulesSeen'[b] = rulesSeen[b]
    BY <1>2
  <2> QED
    BY <2>2, <2>3, <2>4, Stands
<1> QED
  BY <1>1, <1>2 DEF AskInv

\* An answer, or a statement that fails.
LEMMA EndsOne ==
  ASSUME AskInv, Shapes, NEW a \in Askers, Return(a) \/ ErrandFails(a)
  PROVE AskInv'
<1>1. /\ errand' = [errand EXCEPT ![a] = NoErrand]
      /\ heldRoles' = [heldRoles EXCEPT ![a] = {}] /\ rulesSeen' = [rulesSeen EXCEPT ![a] = {}]
      /\ UNCHANGED <<accounts, process, rulesIn>>
  BY DEF Return, ErrandFails, Becomes, Apart
<1>2. errand' = [b \in Askers |-> IF b \in {a} THEN NoErrand ELSE errand[b]]
  BY <1>1 DEF Shapes
<1>3. \A b \in Askers \ {a} : heldRoles'[b] = heldRoles[b] /\ rulesSeen'[b] = rulesSeen[b]
  BY <1>1 DEF Shapes
<1> QED
  BY <1>1, <1>2, <1>3, Ends

\* A crash of a process ends the requests that it serves.
LEMMA ProcessEndsAsk ==
  ASSUME AskInv, Shapes, NEW p \in Processes, ProcessEnds(p)
  PROVE AskInv'
<1> DEFINE lost == {a \in Askers : errand[a].on = p}
<1>1. /\ errand' = [a \in Askers |-> IF a \in lost THEN NoErrand ELSE errand[a]]
      /\ heldRoles' = [a \in Askers |-> IF a \in lost THEN {} ELSE heldRoles[a]]
      /\ rulesSeen' = [a \in Askers |-> IF a \in lost THEN {} ELSE rulesSeen[a]]
      /\ process' = [process EXCEPT ![p] = "down"] /\ rulesIn' = [rulesIn EXCEPT ![p] = {}]
      /\ accounts' = accounts
  BY DEF ProcessEnds, MoveTo, BootstrapUndone
<1>2. \A a \in Askers \ lost : errand[a].on # p
  OBVIOUS
<1>3. \A a \in Askers \ lost : heldRoles'[a] = heldRoles[a] /\ rulesSeen'[a] = rulesSeen[a]
  BY <1>1
<1>4. lost \subseteq Askers
  OBVIOUS
<1> HIDE DEF lost
<1>5. \A a \in Askers \ lost : errand[a].at # "idle" =>
        /\ process'[errand[a].on] = process[errand[a].on]
        /\ rulesIn'[errand[a].on] = rulesIn[errand[a].on]
  BY <1>1, <1>2 DEF AskInv, AskFor, Asked, Shapes
<1> QED
  BY <1>1, <1>3, <1>4, <1>5, Ends

\* Authenticate is yet to come; without a token there is nobody to identify.
LEMMA RequestStep ==
  ASSUME Shapes, AskInv, BootInv, NEW a \in Askers, Request(a)
  PROVE AskInv'
<1>1. PICK p \in Processes, u \in {Nobody} \cup {v \in UserIds : token[v] # Absent}, k \in Kinds :
        \E b \in BodiesOf(k) :
          /\ process[p] = "up"
          /\ Becomes(a, [NoErrand EXCEPT !.at = IF u = Nobody THEN "authorize" ELSE "identify",
                                         !.on = p, !.user = u, !.kind = k, !.body = b])
          /\ heldRoles' = [heldRoles EXCEPT ![a] = {RolesOf(accounts, u)}]
          /\ rulesSeen' = [rulesSeen EXCEPT ![a] = {rulesIn[p]}]
  BY DEF Request, IsAt
<1>2. PICK b \in BodiesOf(k) :
          /\ process[p] = "up"
          /\ Becomes(a, [NoErrand EXCEPT !.at = IF u = Nobody THEN "authorize" ELSE "identify",
                                         !.on = p, !.user = u, !.kind = k, !.body = b])
          /\ heldRoles' = [heldRoles EXCEPT ![a] = {RolesOf(accounts, u)}]
          /\ rulesSeen' = [rulesSeen EXCEPT ![a] = {rulesIn[p]}]
  BY <1>1
<1>3. PICK f : f = [NoErrand EXCEPT !.at = IF u = Nobody THEN "authorize" ELSE "identify",
                                    !.on = p, !.user = u, !.kind = k, !.body = b]
  OBVIOUS
<1>4. /\ f.at = (IF u = Nobody THEN "authorize" ELSE "identify") /\ f.on = p /\ f.user = u
      /\ f.kind = k /\ f.body = b /\ f.roles = {}
      /\ f = [at |-> f.at, on |-> f.on, user |-> f.user, kind |-> f.kind, body |-> f.body,
              roles |-> f.roles, rows |-> f.rows, rules |-> f.rules, ran |-> f.ran]
  BY <1>3 DEF NoErrand
<1>5. UNCHANGED <<accounts, process, rulesIn>> /\ Stage(a, "idle")
  BY DEF Request
<1>6. u # Nobody => u \in UserIds /\ accounts.users[u] # Absent
  BY DEF BootInv
<1>7. IsErrand(f)
  BY <1>4, <1>6 DEF IsErrand, ErrandLabels
<1>8. u = Nobody => RolesOf(accounts, u) = {}
  BY RolesOfNobody DEF Shapes, AccountsOK
<1>9. Justified(accounts, f, {RolesOf(accounts, u)}, {rulesIn[p]})
  BY <1>4, <1>8 DEF Justified
<1>10. errand'[a] = f /\ heldRoles'[a] = {RolesOf(accounts, u)} /\ rulesSeen'[a] = {rulesIn[p]}
  BY <1>2, <1>3 DEF Shapes, Becomes
<1>11. AskFor(a)'
  <2>1. IsErrand(errand[a])'
    BY <1>7, <1>10 DEF IsErrand
  <2>2. Asked(errand[a])'
    BY <1>2, <1>4, <1>5, <1>6, <1>10 DEF Asked
  <2>3. Current(a)'
    BY <1>4, <1>5, <1>10 DEF Current
  <2>4. Justified(accounts, errand[a], heldRoles[a], rulesSeen[a])'
    BY <1>5, <1>9, <1>10
  <2> QED
    BY <2>1, <2>2, <2>3, <2>4 DEF AskFor
<1>12. ASSUME NEW c \in Askers, c # a PROVE AskFor(c)'
  <2>1. AskFor(c)
    BY DEF AskInv
  <2>2. UsersKept(accounts, accounts')
    BY <1>5 DEF UsersKept
  <2>4. errand'[c] = errand[c] /\ heldRoles'[c] = heldRoles[c] /\ rulesSeen'[c] = rulesSeen[c]
    BY <1>2, <1>12 DEF Shapes, Becomes
  <2>3. errand[c].at # "idle" =>
           /\ process'[errand[c].on] = "up"
           /\ RolesOf(accounts', errand[c].user) \in heldRoles'[c]
           /\ rulesIn'[errand[c].on] \in rulesSeen'[c]
    BY <1>5, <2>1, <2>4 DEF AskFor, Current, Asked
  <2> QED
    BY <2>2, <2>3, <2>4, Stands
<1> QED
  BY <1>11, <1>12 DEF AskInv

\* Nothing of the requests changes.
LEMMA AskStands ==
  ASSUME AskInv, Shapes, UNCHANGED <<accounts, errand, heldRoles, rulesSeen>>,
         \A q \in Processes : process[q] = "up" => process'[q] = "up" /\ rulesIn'[q] = rulesIn[q]
  PROVE AskInv'
<1>1. ASSUME NEW a \in Askers, errand[a].at # "idle"
      PROVE /\ process'[errand[a].on] = process[errand[a].on]
            /\ rulesIn'[errand[a].on] = rulesIn[errand[a].on]
  BY <1>1 DEF AskInv, AskFor, Asked
<1>2. PICK S : S = {}
  OBVIOUS
<1>3. S \subseteq Askers /\ errand' = [a \in Askers |-> IF a \in S THEN NoErrand ELSE errand[a]]
  BY <1>2 DEF Shapes
<1>4. \A a \in Askers \ S : heldRoles'[a] = heldRoles[a] /\ rulesSeen'[a] = rulesSeen[a]
  OBVIOUS
<1>5. \A a \in Askers \ S : errand[a].at # "idle" =>
        /\ process'[errand[a].on] = process[errand[a].on]
        /\ rulesIn'[errand[a].on] = rulesIn[errand[a].on]
  BY <1>1
<1> QED
  BY <1>3, <1>4, <1>5, Ends

\* The steps of EnsureBootstrapAdmin before its commit, and NewEnforcer.
LEMMA BootQuietAsk ==
  ASSUME AskInv, Shapes, NEW p \in Processes,
         \/ CountUsers(p) \/ InsertAdmin(p) \/ InsertRole(p) \/ InsertLink(p) \/ InsertRule(p)
         \/ LoadRules(p)
  PROVE AskInv'
<1>1. UNCHANGED <<accounts, errand, heldRoles, rulesSeen>> /\ process[p] # "up"
  BY DEF CountUsers, InsertAdmin, InsertRole, InsertLink, InsertRule, Inserts, LoadRules, Unchanging, IsAt
<1>2. \A q \in Processes \ {p} : process'[q] = process[q]
  BY DEF CountUsers, InsertAdmin, InsertRole, InsertLink, InsertRule, Inserts, LoadRules, MoveTo, Shapes
<1>3. \A q \in Processes \ {p} : rulesIn'[q] = rulesIn[q]
  BY DEF CountUsers, InsertAdmin, InsertRole, InsertLink, InsertRule, Inserts, LoadRules, Shapes
<1> QED
  BY <1>1, <1>2, <1>3, AskStands

\* The first administrator is committed.
LEMMA CommitAsk ==
  ASSUME AskInv, Shapes, NEW p \in Processes, CommitAdmin(p), UsersKept(accounts, accounts')
  PROVE AskInv'
<1>1. /\ UNCHANGED <<errand, rulesIn>> /\ Witnessed(accounts', rulesIn) /\ process[p] = "commit"
      /\ process' = [process EXCEPT ![p] = "load"]
  BY DEF CommitAdmin, IsAt, MoveTo
<1>2. ASSUME NEW b \in Askers PROVE AskFor(b)'
  <2>1. errand[b].at # "idle" =>
           /\ heldRoles[b] \subseteq heldRoles'[b] /\ rulesSeen[b] \subseteq rulesSeen'[b]
           /\ RolesOf(accounts', errand[b].user) \in heldRoles'[b]
           /\ rulesIn'[errand[b].on] \in rulesSeen'[b]
    BY <1>1, WitnessedGrows
  <2>2. errand[b].at # "idle" => process'[errand[b].on] = "up"
    BY <1>1 DEF AskInv, AskFor, Asked, Shapes
  <2> QED
    BY <1>1, <2>1, <2>2, Stands
<1> QED
  BY <1>2 DEF AskInv

-----------------------------------------------------------------------------
(***************************************************************************)
(* The tables stay whole, and the first administrator is alone.            *)
(***************************************************************************)
\* Every first state.
LEMMA InitAll == AuthorityInit => AInvar
<1> SUFFICES ASSUME AuthorityInit PROVE AInvar
  OBVIOUS
<1>1. accounts \in FirstAccounts /\ AccountsOK(accounts)
  BY AuthorityAssumption DEF AuthorityInit
<1>2. Drafts("down") = {}
  BY DEF Drafts
<1>3. Shapes
  BY <1>1, <1>2 DEF AuthorityInit, Shapes, BootLabels
<1>4. \A p \in Processes : process[p] = "down" /\ drafted[p] = {}
  BY DEF AuthorityInit
<1>5. \A a \in Askers : errand[a] = NoErrand
  BY DEF AuthorityInit
<1>6. BootInv
  BY <1>1, <1>4 DEF AuthorityInit, BootInv, Founders
<1>7. FoundInv
  BY <1>1, <1>4, <1>5, NoneAsked DEF FoundInv
<1>8. AskInv
  BY <1>5, NoneAsked DEF AskInv, AskFor, Asked, Current
<1> QED
  BY <1>3, <1>6, <1>7, <1>8 DEF AInvar

\* While the first user is inserted there is none, and nobody is served.
LEMMA Alone ==
  ASSUME Shapes, BootInv, NEW p \in Processes, process[p] \in {"role", "link", "rule", "commit"}
  PROVE /\ Empty(accounts) /\ accounts \in FirstAccounts
        /\ \A q \in Processes : process[q] \notin {"load", "up"}
        /\ \A q \in Processes \ {p} : process[q] \notin {"role", "link", "rule", "commit"}
<1>1. \A q \in Processes : process[q] \in {"role", "link", "rule", "commit"} => "user" \in drafted[q]
  BY DEF Shapes, Drafts, Whole
<1> QED
  BY <1>1 DEF BootInv

\* What has been inserted at each label.
LEMMA DraftsAre ==
  /\ Drafts("down") = {} /\ Drafts("user") = {} /\ Drafts("load") = {} /\ Drafts("up") = {}
  /\ Drafts("refused") = {}
  /\ Drafts("role") = Drafts("user") \cup {"user"} /\ Drafts("link") = Drafts("role") \cup {"role"}
  /\ Drafts("rule") = Drafts("link") \cup {"link"} /\ Drafts("commit") = Drafts("rule") \cup {"rule"}
  /\ Drafts("commit") = Whole
BY DEF Drafts, Whole

\* No users, in two words.
LEMMA EmptyIs ==
  ASSUME NEW t, AccountsOK(t)
  PROVE t.users = NoAccounts.users <=> Empty(t)
BY DEF AccountsOK, Empty, NoAccounts

\* A step of a process in Bootstrap that leaves the tables alone.
LEMMA BootMove ==
  ASSUME Shapes, BootInv, NEW p \in Processes, NEW l \in BootLabels,
         process' = [process EXCEPT ![p] = l], drafted' = [drafted EXCEPT ![p] = Drafts(l)],
         UNCHANGED <<accounts, token>>, l # "refused",
         l \in {"load", "up"} => ~Empty(accounts),
         l \in Founders => Empty(accounts) \/ HasRoot(accounts),
         l \in {"role", "link", "rule", "commit"} =>
           Empty(accounts) /\ \A q \in Processes \ {p} : "user" \notin drafted[q],
         l \in {"link", "rule", "commit"} => \A i \in RoleIds : accounts.roles[i] # "admin"
  PROVE /\ process' \in [Processes -> BootLabels]
        /\ drafted' = [q \in Processes |-> Drafts(process'[q])]
        /\ BootInv'
<1>1. /\ process' \in [Processes -> BootLabels]
      /\ drafted' = [q \in Processes |-> Drafts(process'[q])]
  BY DEF Shapes
<1>2. process'[p] = l /\ drafted'[p] = Drafts(l)
  BY DEF Shapes
<1>3. \A q \in Processes \ {p} : process'[q] = process[q] /\ drafted'[q] = drafted[q]
  BY DEF Shapes
<1>4. /\ "user" \in Drafts(l) => l \in {"role", "link", "rule", "commit"}
      /\ "role" \in Drafts(l) => l \in {"link", "rule", "commit"}
  BY DEF Drafts
<1>5. (Empty(accounts) => accounts \in FirstAccounts /\ \A q \in Processes : process[q] \notin {"load", "up"})'
  <2>1. Empty(accounts)' => Empty(accounts)
    BY DEF Empty
  <2> QED
    BY <1>2, <1>3, <2>1 DEF BootInv
<1>6. (\A q \in Processes : process[q] \in Founders => Empty(accounts) \/ HasRoot(accounts))'
  <2>1. (Empty(accounts) \/ HasRoot(accounts)) => (Empty(accounts) \/ HasRoot(accounts))'
    BY DEF Empty, HasRoot
  <2> QED
    BY <1>2, <1>3, <2>1 DEF BootInv
<1>7. (\A q \in Processes : "user" \in drafted[q] => Empty(accounts))'
  <2>1. Empty(accounts) => Empty(accounts)'
    BY DEF Empty
  <2> QED
    BY <1>2, <1>3, <1>4, <2>1 DEF BootInv
<1>8. (\A q \in Processes : "role" \in drafted[q] => \A i \in RoleIds : accounts.roles[i] # "admin")'
  BY <1>2, <1>3, <1>4 DEF BootInv
<1>9. (\A q, r \in Processes : "user" \in drafted[q] /\ "user" \in drafted[r] => q = r)'
  BY <1>2, <1>3, <1>4 DEF BootInv
<1>10. (\A q \in Processes : process[q] # "refused")'
  BY <1>2, <1>3 DEF BootInv
<1>11. (\A u \in UserIds : token[u] # Absent => accounts.users[u] # Absent)'
  BY DEF BootInv
<1> QED
  BY <1>1, <1>5, <1>6, <1>7, <1>8, <1>9, <1>10, <1>11 DEF BootInv

\* Nothing that FoundInv looks at changes.
LEMMA FoundStands ==
  ASSUME FoundInv, UNCHANGED <<accounts, errand, untouched>>, NEW p \in Processes,
         \A q \in Processes : process'[q] = "up" =>
           \/ process[q] = "up" /\ rulesIn'[q] = rulesIn[q]
           \/ rulesIn'[q] = StoredRules(accounts)
  PROVE FoundInv'
<1> SUFFICES ASSUME untouched' PROVE FoundInv'
  BY DEF FoundInv
<1>1. /\ \A q \in Processes : process[q] = "up" => rulesIn[q] = StoredRules(accounts)
      /\ \A a \in Askers : errand[a].at = "publish" => errand[a].rules = StoredRules(accounts)
      /\ \/ accounts \in FirstAccounts
         \/ \E t \in FirstAccounts : Empty(t) /\ accounts = Founded(t, Whole)
  BY DEF FoundInv
<1>2. StoredRules(accounts)' = StoredRules(accounts)
  BY DEF StoredRules
<1>3. (\A q \in Processes : process[q] = "up" => rulesIn[q] = StoredRules(accounts))'
  BY <1>1, <1>2
<1>4. (\A a \in Askers : errand[a].at = "publish" => errand[a].rules = StoredRules(accounts))'
  BY <1>1, <1>2
<1>5. (\/ accounts \in FirstAccounts
       \/ \E t \in FirstAccounts : Empty(t) /\ accounts = Founded(t, Whole))'
  BY <1>1 DEF Empty, Founded
<1> QED
  BY <1>3, <1>4, <1>5 DEF FoundInv

\* Shapes, when only processes move.
LEMMA ShapesMove ==
  ASSUME Shapes, UNCHANGED <<accounts, token, errand, heldRoles, rulesSeen>>,
         process' \in [Processes -> BootLabels], drafted' = [q \in Processes |-> Drafts(process'[q])],
         rulesIn' = [q \in Processes |-> rulesIn'[q]]
  PROVE Shapes'
<1>1. AccountsOK(accounts)'
  BY DEF Shapes, AccountsOK
<1> QED
  BY <1>1 DEF Shapes

\* EnsureBootstrapAdmin counts the users.
LEMMA CountStep ==
  ASSUME Shapes, BootInv, FoundInv, NEW p \in Processes, CountUsers(p)
  PROVE Shapes' /\ BootInv' /\ FoundInv'
<1>1. PICK l : l = IF accounts.users = NoAccounts.users THEN "user" ELSE "load"
  OBVIOUS
<1>2. /\ process[p] = "down" /\ process' = [process EXCEPT ![p] = l]
      /\ UNCHANGED <<accounts, token, errand, heldRoles, rulesSeen, untouched, drafted, rulesIn>>
  BY <1>1 DEF CountUsers, IsAt, MoveTo, Unchanging
<1>3. l = (IF Empty(accounts) THEN "user" ELSE "load") /\ l \in BootLabels
  BY <1>1, EmptyIs DEF Shapes, BootLabels
<1>4. drafted' = [drafted EXCEPT ![p] = Drafts(l)]
  <2>1. drafted[p] = Drafts(l)
    BY <1>2, <1>3, DraftsAre DEF Shapes
  <2> QED
    BY <1>2, <2>1 DEF Shapes
<1>5. /\ process' \in [Processes -> BootLabels] /\ drafted' = [q \in Processes |-> Drafts(process'[q])]
      /\ BootInv'
  <2>1. /\ l # "refused" /\ l \notin {"role", "link", "rule", "commit"}
        /\ l \in {"load", "up"} => ~Empty(accounts)
    BY <1>3
  <2>2. l \in Founders => Empty(accounts) \/ HasRoot(accounts)
    BY <1>3 DEF Founders
  <2> QED
    BY <1>2, <1>3, <1>4, <2>1, <2>2, BootMove
<1>6. Shapes'
  BY <1>2, <1>5, ShapesMove DEF Shapes
<1>7. FoundInv'
  BY <1>2, <1>3, FoundStands DEF Shapes
<1> QED
  BY <1>5, <1>6, <1>7

\* An INSERT of EnsureBootstrapAdmin.
LEMMA InsertStep ==
  ASSUME Shapes, BootInv, FoundInv, NEW p \in Processes, NEW from \in {"user", "role", "link", "rule"},
         NEW taken \in BOOLEAN, NEW to \in {"role", "link", "rule", "commit"},
         Inserts(p, from, from, taken, to), Drafts(to) = Drafts(from) \cup {from},
         from = "user" => to = "role" /\ (~taken => ~HasRoot(accounts)),
         from = "role" => (~taken => \A i \in RoleIds : accounts.roles[i] # "admin"),
         from \in {"user", "role"} <=> to \in {"role", "link"},
         from = "role" <=> to = "link"
  PROVE Shapes' /\ BootInv' /\ FoundInv'
<1>1. /\ process[p] = from /\ drafted[p] = Drafts(from)
      /\ UNCHANGED <<accounts, token, errand, heldRoles, rulesSeen, untouched, rulesIn>>
  BY DEF Inserts, IsAt, Unchanging, Shapes
<1>2. CASE taken
  <2>1. /\ process' = [process EXCEPT ![p] = "down"] /\ drafted' = [drafted EXCEPT ![p] = Drafts("down")]
    BY <1>2, DraftsAre DEF Inserts, MoveTo
  <2>2. /\ process' \in [Processes -> BootLabels] /\ drafted' = [q \in Processes |-> Drafts(process'[q])]
        /\ BootInv'
    BY <1>1, <2>1, BootMove DEF BootLabels, Founders
  <2>3. Shapes'
    BY <1>1, <2>2, ShapesMove DEF Shapes
  <2>4. FoundInv'
    BY <1>1, <2>1, FoundStands DEF Shapes
  <2> QED
    BY <2>2, <2>3, <2>4
<1>3. CASE ~taken
  <2>1. /\ process' = [process EXCEPT ![p] = to] /\ drafted' = [drafted EXCEPT ![p] = Drafts(to)]
    <3>1. process' = [process EXCEPT ![p] = to] /\ drafted' = [drafted EXCEPT ![p] = @ \cup {from}]
      BY <1>3 DEF Inserts, MoveTo
    <3> QED
      BY <1>1, <3>1 DEF Shapes
  <2>2. Empty(accounts)
    <3>1. CASE from = "user"
      BY <1>1, <1>3, <3>1 DEF BootInv, Founders
    <3>2. CASE from # "user"
      BY <1>1, <3>2, Alone
    <3> QED
      BY <3>1, <3>2
  <2>3. \A q \in Processes \ {p} : "user" \notin drafted[q]
    <3>1. CASE from = "user"
      BY <3>1 DEF Inserts
    <3>2. CASE from # "user"
      <4>1. "user" \in drafted[p]
        BY <1>1, <3>2 DEF Drafts, Whole
      <4> QED
        BY <4>1 DEF BootInv
    <3> QED
      BY <3>1, <3>2
  <2>4. to \in {"link", "rule", "commit"} => \A i \in RoleIds : accounts.roles[i] # "admin"
    <3>1. CASE from = "role"
      BY <1>3, <3>1
    <3>2. CASE from \in {"link", "rule"}
      <4>1. "role" \in drafted[p]
        BY <1>1, <3>2 DEF Drafts, Whole
      <4> QED
        BY <4>1 DEF BootInv
    <3> QED
      BY <3>1, <3>2
  <2>5. to \in BootLabels /\ to # "refused" /\ to \notin {"load", "up"}
    BY DEF BootLabels
  <2>6. /\ process' \in [Processes -> BootLabels] /\ drafted' = [q \in Processes |-> Drafts(process'[q])]
        /\ BootInv'
    BY <1>1, <2>1, <2>2, <2>3, <2>4, <2>5, BootMove
  <2>7. Shapes'
    BY <1>1, <2>6, ShapesMove DEF Shapes
  <2>8. FoundInv'
    BY <1>1, <2>1, FoundStands DEF Shapes
  <2> QED
    BY <2>6, <2>7, <2>8
<1> QED
  BY <1>2, <1>3

\* The four of them.
LEMMA InsertSteps ==
  ASSUME Shapes, BootInv, FoundInv, NEW p \in Processes,
         InsertAdmin(p) \/ InsertRole(p) \/ InsertLink(p) \/ InsertRule(p)
  PROVE Shapes' /\ BootInv' /\ FoundInv'
<1>1. CASE InsertAdmin(p)
  <2>1. PICK taken \in BOOLEAN :
          taken = \E u \in UserIds : accounts.users[u] # Absent /\ accounts.users[u].name = Root
    OBVIOUS
  <2>2. Inserts(p, "user", "user", taken, "role") /\ (~taken => ~HasRoot(accounts))
    BY <1>1, <2>1 DEF InsertAdmin, HasRoot
  <2> QED
    BY <2>2, InsertStep, DraftsAre
<1>2. CASE InsertRole(p)
  <2>1. PICK taken \in BOOLEAN : taken = \E i \in RoleIds : accounts.roles[i] = "admin"
    OBVIOUS
  <2>2. Inserts(p, "role", "role", taken, "link") /\ (~taken => \A i \in RoleIds : accounts.roles[i] # "admin")
    BY <1>2, <2>1 DEF InsertRole
  <2> QED
    BY <2>2, InsertStep, DraftsAre
<1>3. CASE InsertLink(p)
  BY <1>3, InsertStep, DraftsAre DEF InsertLink
<1>4. CASE InsertRule(p)
  BY <1>4, InsertStep, DraftsAre DEF InsertRule
<1> QED
  BY <1>1, <1>2, <1>3, <1>4

\* NewEnforcer takes what is stored.
LEMMA LoadStep ==
  ASSUME Shapes, BootInv, FoundInv, NEW p \in Processes, LoadRules(p)
  PROVE Shapes' /\ BootInv' /\ FoundInv'
<1>1. /\ process[p] = "load" /\ process' = [process EXCEPT ![p] = "up"]
      /\ rulesIn' = [rulesIn EXCEPT ![p] = StoredRules(accounts)]
      /\ UNCHANGED <<accounts, token, errand, heldRoles, rulesSeen, untouched, drafted>>
  BY LoadsThese DEF LoadRules, IsAt, MoveTo, Unchanging, Shapes
<1>2. drafted' = [drafted EXCEPT ![p] = Drafts("up")]
  <2>1. drafted[p] = Drafts("up")
    BY <1>1, DraftsAre DEF Shapes
  <2> QED
    BY <1>1, <2>1 DEF Shapes
<1>3. ~Empty(accounts)
  BY <1>1 DEF BootInv
<1>4. /\ process' \in [Processes -> BootLabels] /\ drafted' = [q \in Processes |-> Drafts(process'[q])]
      /\ BootInv'
  BY <1>1, <1>2, <1>3, BootMove DEF BootLabels, Founders
<1>5. rulesIn' = [q \in Processes |-> rulesIn'[q]]
  BY <1>1 DEF Shapes
<1>6. Shapes'
  BY <1>1, <1>4, <1>5, ShapesMove
<1>7. \A q \in Processes : IF q = p THEN rulesIn'[q] = StoredRules(accounts)
                           ELSE rulesIn'[q] = rulesIn[q] /\ process'[q] = process[q]
  BY <1>1 DEF Shapes
<1>8. FoundInv'
  BY <1>1, <1>7, FoundStands
<1> QED
  BY <1>4, <1>6, <1>8

\* What is committed is one administrator, whole.
LEMMA CommitStep ==
  ASSUME Shapes, BootInv, FoundInv, AskInv, NEW p \in Processes, CommitAdmin(p)
  PROVE Shapes' /\ BootInv' /\ FoundInv' /\ AskInv'
<1>1. /\ process[p] = "commit" /\ drafted[p] = Whole
      /\ process' = [process EXCEPT ![p] = "load"] /\ drafted' = [drafted EXCEPT ![p] = {}]
      /\ accounts' = Founded(accounts, Whole)
      /\ UNCHANGED <<token, errand, untouched, rulesIn>> /\ Witnessed(accounts', rulesIn)
  BY DraftsAre DEF CommitAdmin, IsAt, MoveTo, Shapes
<1>2. /\ Empty(accounts) /\ accounts \in FirstAccounts
      /\ \A q \in Processes : process[q] \notin {"load", "up"}
      /\ \A q \in Processes \ {p} : process[q] \notin {"role", "link", "rule", "commit"}
  BY <1>1, Alone
<1>3. \A i \in RoleIds : accounts.roles[i] # "admin"
  <2>1. "role" \in drafted[p]
    BY <1>1 DEF Whole
  <2> QED
    BY <2>1 DEF BootInv
<1>4. AccountsOK(accounts) /\ IdsLeft(accounts)
  BY <1>2, AuthorityAssumption
<1>5. AccountsOK(accounts') /\ UsersKept(accounts, accounts') /\ HasRoot(accounts')
  BY <1>1, <1>2, <1>3, <1>4, FoundedOK
<1>6. AskInv'
  BY <1>5, CommitAsk
<1>7. /\ heldRoles' = [a \in Askers |-> heldRoles'[a]] /\ rulesSeen' = [a \in Askers |-> rulesSeen'[a]]
  BY <1>1 DEF Witnessed
<1>8. /\ process' \in [Processes -> BootLabels] /\ process'[p] = "load" /\ drafted'[p] = {}
      /\ \A q \in Processes \ {p} : process'[q] = process[q] /\ drafted'[q] = drafted[q]
      /\ drafted' = [q \in Processes |-> drafted'[q]]
  BY <1>1 DEF Shapes, BootLabels
<1>9. drafted' = [q \in Processes |-> Drafts(process'[q])]
  <2>1. ASSUME NEW q \in Processes PROVE drafted'[q] = Drafts(process'[q])
    BY <1>8, DraftsAre DEF Shapes
  <2> QED
    BY <1>8, <2>1
<1>10. AccountsOK(accounts)' /\ HasRoot(accounts)'
  BY <1>5 DEF AccountsOK, HasRoot
<1>11. Shapes'
  BY <1>1, <1>7, <1>8, <1>9, <1>10 DEF Shapes
<1>12. \A q \in Processes : "user" \notin drafted'[q] /\ "role" \notin drafted'[q]
  <2>1. ASSUME NEW q \in Processes PROVE process'[q] \notin {"role", "link", "rule", "commit"}
    BY <1>2, <1>8
  <2> QED
    BY <1>9, <2>1 DEF Drafts
<1>13. ~Empty(accounts)'
  BY <1>10 DEF Empty, HasRoot
<1>14. BootInv'
  <2>1. \A u \in UserIds : token[u] = Absent
    BY <1>2 DEF BootInv, Empty
  <2> QED
    BY <1>1, <1>8, <1>10, <1>12, <1>13, <2>1 DEF BootInv
<1>15. FoundInv'
  <2>1. \A q \in Processes : process'[q] # "up"
    BY <1>2, <1>8
  <2>2. \A a \in Askers : errand[a].at = "idle"
    BY <1>2 DEF AskInv, AskFor, Asked
  <2>3. accounts' = Founded(accounts, Whole) /\ Empty(accounts) /\ accounts \in FirstAccounts
    BY <1>1, <1>2
  <2>4. (\E t \in FirstAccounts : Empty(t) /\ accounts = Founded(t, Whole))'
    <3>1. PICK t : t = accounts
      OBVIOUS
    <3>2. t \in FirstAccounts /\ Empty(t) /\ accounts' = Founded(t, Whole)
      BY <2>3, <3>1
    <3> QED
      BY <3>2 DEF Empty, Founded
  <2>5. (\A a \in Askers : errand[a].at = "publish" => errand[a].rules = StoredRules(accounts))'
    BY <1>1, <2>2
  <2>6. (\A q \in Processes : process[q] = "up" => rulesIn[q] = StoredRules(accounts))'
    BY <2>1
  <2> QED
    BY <2>4, <2>5, <2>6 DEF FoundInv
<1> QED
  BY <1>6, <1>11, <1>14, <1>15

\* A process ends.
LEMMA EndStep ==
  ASSUME Shapes, BootInv, FoundInv, AskInv, NEW p \in Processes, ProcessEnds(p)
  PROVE Shapes' /\ BootInv' /\ FoundInv' /\ AskInv'
<1> DEFINE lost == {a \in Askers : errand[a].on = p}
<1>1. /\ errand' = [a \in Askers |-> IF a \in lost THEN NoErrand ELSE errand[a]]
      /\ heldRoles' = [a \in Askers |-> IF a \in lost THEN {} ELSE heldRoles[a]]
      /\ rulesSeen' = [a \in Askers |-> IF a \in lost THEN {} ELSE rulesSeen[a]]
      /\ process' = [process EXCEPT ![p] = "down"] /\ rulesIn' = [rulesIn EXCEPT ![p] = {}]
      /\ drafted' = [drafted EXCEPT ![p] = {}]
      /\ UNCHANGED <<accounts, token, untouched>>
  BY DEF ProcessEnds, MoveTo, BootstrapUndone
<1> HIDE DEF lost
<1>2. drafted' = [drafted EXCEPT ![p] = Drafts("down")]
  BY <1>1, DraftsAre
<1>3. /\ process' \in [Processes -> BootLabels] /\ drafted' = [q \in Processes |-> Drafts(process'[q])]
      /\ BootInv'
  BY <1>1, <1>2, BootMove DEF BootLabels, Founders
<1>4. AccountsOK(accounts)'
  BY <1>1 DEF Shapes, AccountsOK
<1>5. Shapes'
  BY <1>1, <1>3, <1>4 DEF Shapes
<1>6. FoundInv'
  <2> SUFFICES ASSUME untouched' PROVE FoundInv'
    BY DEF FoundInv
  <2>1. /\ \A q \in Processes : process[q] = "up" => rulesIn[q] = StoredRules(accounts)
        /\ \A a \in Askers : errand[a].at = "publish" => errand[a].rules = StoredRules(accounts)
        /\ \/ accounts \in FirstAccounts
           \/ \E t \in FirstAccounts : Empty(t) /\ accounts = Founded(t, Whole)
    BY <1>1 DEF FoundInv
  <2>2. StoredRules(accounts)' = StoredRules(accounts)
    BY <1>1 DEF StoredRules
  <2>3. (\A q \in Processes : process[q] = "up" => rulesIn[q] = StoredRules(accounts))'
    BY <1>1, <2>1, <2>2 DEF Shapes
  <2>4. (\A a \in Askers : errand[a].at = "publish" => errand[a].rules = StoredRules(accounts))'
    BY <1>1, <2>1, <2>2, NoneAsked
  <2>5. (\/ accounts \in FirstAccounts
         \/ \E t \in FirstAccounts : Empty(t) /\ accounts = Founded(t, Whole))'
    BY <1>1, <2>1 DEF Empty, Founded
  <2> QED
    BY <2>3, <2>4, <2>5 DEF FoundInv
<1> QED
  BY <1>3, <1>5, <1>6, ProcessEndsAsk

\* Bootstrap
LEMMA BootstrapStep ==
  ASSUME AInvar, NEW p \in Processes, Bootstrap(p)
  PROVE AInvar'
<1>1. Shapes /\ BootInv /\ FoundInv /\ AskInv
  BY DEF AInvar
<1>2. CASE CountUsers(p)
  BY <1>1, <1>2, CountStep, BootQuietAsk DEF AInvar
<1>3. CASE InsertAdmin(p) \/ InsertRole(p) \/ InsertLink(p) \/ InsertRule(p)
  BY <1>1, <1>3, InsertSteps, BootQuietAsk DEF AInvar
<1>4. CASE LoadRules(p)
  BY <1>1, <1>4, LoadStep, BootQuietAsk DEF AInvar
<1>5. CASE CommitAdmin(p)
  BY <1>1, <1>5, CommitStep DEF AInvar
<1>6. CASE ProcessEnds(p)
  BY <1>1, <1>6, EndStep DEF AInvar
<1> QED
  BY <1>2, <1>3, <1>4, <1>5, <1>6 DEF Bootstrap

-----------------------------------------------------------------------------
(***************************************************************************)
(* What requests leave of it.                                              *)
(***************************************************************************)
\* Requests are served where there are users already.
LEMMA ServedBoot ==
  ASSUME Shapes, BootInv, UNCHANGED <<process, drafted>>, UsersKept(accounts, accounts'),
         accounts' = accounts \/ \E q \in Processes : process[q] = "up",
         \A u \in UserIds : token'[u] # Absent => accounts'.users[u] # Absent
  PROVE BootInv'
<1>1. CASE accounts' = accounts
  <2>1. Empty(accounts)' <=> Empty(accounts)
    BY <1>1 DEF Empty
  <2>2. HasRoot(accounts)' <=> HasRoot(accounts)
    BY <1>1 DEF HasRoot
  <2> QED
    BY <1>1, <2>1, <2>2 DEF BootInv
<1>2. CASE \E q \in Processes : process[q] = "up"
  <2>1. ~Empty(accounts)
    BY <1>2 DEF BootInv
  <2>2. ~Empty(accounts)' /\ (HasRoot(accounts) => HasRoot(accounts)')
    BY <2>1 DEF Empty, HasRoot, UsersKept
  <2>3. \A q \in Processes : "user" \notin drafted[q]
    BY <2>1 DEF BootInv
  <2>4. \A q \in Processes : "role" \notin drafted[q]
    BY <2>3 DEF Shapes, Drafts, Whole
  <2> QED
    BY <2>1, <2>2, <2>3, <2>4 DEF BootInv
<1> QED
  BY <1>1, <1>2

\* A step of a request that leaves the tables and the policies in memory alone.
LEMMA QuietStep ==
  ASSUME Shapes, BootInv, FoundInv, NEW a \in Askers, NEW f, Becomes(a, f),
         f.at = "publish" => f.rules = StoredRules(accounts),
         UNCHANGED <<accounts, process, drafted, rulesIn, token, untouched>>,
         /\ heldRoles' = [b \in Askers |-> heldRoles'[b]]
         /\ rulesSeen' = [b \in Askers |-> rulesSeen'[b]]
  PROVE Shapes' /\ BootInv' /\ FoundInv'
<1>1. AccountsOK(accounts)' /\ errand' = [b \in Askers |-> errand'[b]]
  BY DEF Shapes, AccountsOK, Becomes
<1>2. Shapes'
  BY <1>1 DEF Shapes
<1>3. BootInv'
  <2>1. UsersKept(accounts, accounts')
    BY DEF UsersKept
  <2> QED
    BY <2>1, ServedBoot DEF BootInv
<1>4. FoundInv'
  <2> SUFFICES ASSUME untouched' PROVE FoundInv'
    BY DEF FoundInv
  <2>1. /\ \A q \in Processes : process[q] = "up" => rulesIn[q] = StoredRules(accounts)
        /\ \A b \in Askers : errand[b].at = "publish" => errand[b].rules = StoredRules(accounts)
        /\ \/ accounts \in FirstAccounts
           \/ \E t \in FirstAccounts : Empty(t) /\ accounts = Founded(t, Whole)
    BY DEF FoundInv
  <2>2. StoredRules(accounts)' = StoredRules(accounts)
    BY DEF StoredRules
  <2>3. (\A q \in Processes : process[q] = "up" => rulesIn[q] = StoredRules(accounts))'
    BY <2>1, <2>2
  <2>4. (\A b \in Askers : errand[b].at = "publish" => errand[b].rules = StoredRules(accounts))'
    BY <2>1, <2>2 DEF Becomes, Shapes
  <2>5. (\/ accounts \in FirstAccounts
         \/ \E t \in FirstAccounts : Empty(t) /\ accounts = Founded(t, Whole))'
    BY <2>1 DEF Empty, Founded
  <2> QED
    BY <2>3, <2>4, <2>5 DEF FoundInv
<1> QED
  BY <1>2, <1>3, <1>4

\* A statement on the tables: what it leaves is whole.
LEMMA ExecuteStep ==
  ASSUME AInvar, NEW a \in Askers, NEW t, NEW to \in {"load", "done"}, Execute(a, t, to),
         AccountsOK(t), UsersKept(accounts, t),
         errand[a].at = "act", errand[a].kind \notin {"records", "script"},
         to = "load" => errand[a].kind \in PolicyKinds
  PROVE AInvar'
<1>0. Shapes /\ BootInv /\ FoundInv /\ AskInv
  BY DEF AInvar
<1>1. PICK e : e = errand[a]
  OBVIOUS
<1>2. PICK f : f = [e EXCEPT !.at = to]
  OBVIOUS
<1>3. /\ accounts' = t /\ untouched' = (untouched /\ t = accounts)
      /\ UNCHANGED <<process, drafted, rulesIn, token, errands, outages>> /\ Becomes(a, f)
      /\ Witnessed(t, rulesIn)
  BY <1>1, <1>2 DEF Execute, Move, Apart
<1>4. IsErrand(e) /\ e.on \in Processes /\ process[e.on] = "up"
  BY <1>0, <1>1, Known
<1>5. f.at = to
  <2>1. to \in ErrandLabels
    BY DEF ErrandLabels
  <2> QED
    BY <1>2, <1>4, <2>1, Moved
<1>6. AskInv'
  BY <1>0, Executed
<1>7. Shapes'
  <2>1. AccountsOK(accounts)'
    BY <1>3 DEF AccountsOK
  <2>2. heldRoles' = [b \in Askers |-> heldRoles'[b]] /\ rulesSeen' = [b \in Askers |-> rulesSeen'[b]]
    BY <1>3 DEF Witnessed
  <2>3. errand' = [b \in Askers |-> errand'[b]]
    BY <1>0, <1>3 DEF Becomes, Shapes
  <2> QED
    BY <1>0, <1>3, <2>1, <2>2, <2>3 DEF Shapes
<1>8. BootInv'
  <2>1. UsersKept(accounts, accounts')
    BY <1>3 DEF UsersKept
  <2>2. \A u \in UserIds : token'[u] # Absent => accounts'.users[u] # Absent
    BY <1>0, <1>3, <2>1 DEF BootInv, UsersKept
  <2> QED
    BY <1>0, <1>3, <1>4, <2>1, <2>2, ServedBoot
<1>9. FoundInv'
  <2>1. CASE t = accounts
    <3>1. untouched' = untouched
      <4>1. untouched' <=> untouched
        BY <1>3, <2>1
      <4>2. CASE untouched
        BY <1>3, <2>1, <4>2
      <4> QED
        BY <4>1
    <3>2. FoundInv'
      <4> SUFFICES ASSUME untouched' PROVE FoundInv'
        BY DEF FoundInv
      <4>1. /\ \A q \in Processes : process[q] = "up" => rulesIn[q] = StoredRules(accounts)
            /\ \A b \in Askers : errand[b].at = "publish" => errand[b].rules = StoredRules(accounts)
            /\ \/ accounts \in FirstAccounts
               \/ \E s \in FirstAccounts : Empty(s) /\ accounts = Founded(s, Whole)
        BY <1>0, <1>3 DEF FoundInv
      <4>2. StoredRules(accounts)' = StoredRules(accounts)
        BY <1>3, <2>1 DEF StoredRules
      <4>3. (\A q \in Processes : process[q] = "up" => rulesIn[q] = StoredRules(accounts))'
        BY <1>3, <4>1, <4>2
      <4>4. (\A b \in Askers : errand[b].at = "publish" => errand[b].rules = StoredRules(accounts))'
        BY <1>0, <1>3, <1>5, <4>1, <4>2 DEF Becomes, Shapes
      <4>5. (\/ accounts \in FirstAccounts
             \/ \E s \in FirstAccounts : Empty(s) /\ accounts = Founded(s, Whole))'
        BY <1>3, <2>1, <4>1 DEF Empty, Founded
      <4> QED
        BY <4>3, <4>4, <4>5 DEF FoundInv
    <3> QED
      BY <3>2
  <2>2. CASE t # accounts
    <3>1. ~untouched'
      BY <1>3, <2>2
    <3> QED
      BY <3>1 DEF FoundInv
  <2> QED
    BY <2>1, <2>2
<1> QED
  BY <1>6, <1>7, <1>8, <1>9 DEF AInvar

\* What the requests on accounts, roles and policies name.
LEMMA Bodies ==
  ASSUME NEW k, NEW b \in BodiesOf(k)
  PROVE /\ k = "userCreate" => b.name \in UserNames /\ b.enabled \in BOOLEAN
        /\ k = "roleCreate" => b.name \in RoleNames
        /\ k \in {"roleAssign", "roleUnassign"} => <<b.user, b.role>> \in UserIds \X RoleIds
        /\ k \in {"policyCreate", "policyUpdate"} => b.policy \in Offers
<1>1. CASE k = "userCreate"
  <2>1. b \in NewUsers
    BY <1>1 DEF BodiesOf
  <2>2. PICK u \in Users : b = [NoBody EXCEPT !.name = u.name, !.enabled = u.enabled]
    BY <2>1 DEF NewUsers
  <2>3. b.name = u.name /\ b.enabled = u.enabled
    BY <2>2 DEF NoBody
  <2>4. u.name \in UserNames /\ u.enabled \in BOOLEAN
    BY DEF Users, User
  <2> QED
    BY <1>1, <2>3, <2>4
<1>2. CASE k = "roleCreate"
  BY <1>2 DEF BodiesOf, NoBody
<1>3. CASE k \in {"roleAssign", "roleUnassign"}
  <2>1. b \in Tied
    BY <1>3 DEF BodiesOf
  <2>2. PICK l \in Ties : b = [NoBody EXCEPT !.user = l[1], !.role = l[2]]
    BY <2>1 DEF Tied
  <2>3. b.user = l[1] /\ b.role = l[2]
    BY <2>2 DEF NoBody
  <2>4. l \in UserIds \X RoleIds
    BY AuthorityAssumption
  <2> QED
    BY <1>3, <2>3, <2>4
<1>4. CASE k = "policyCreate"
  BY <1>4 DEF BodiesOf, NoBody
<1>5. CASE k = "policyUpdate"
  <2>1. b \in Replacements
    BY <1>5 DEF BodiesOf
  <2>2. PICK i \in RuleIds \X Offers : b = [NoBody EXCEPT !.rule = i[1], !.policy = i[2]]
    BY <2>1 DEF Replacements
  <2>3. b.policy = i[2]
    BY <2>2 DEF NoBody
  <2> QED
    BY <1>5, <2>3
<1> QED
  BY <1>1, <1>2, <1>3, <1>4, <1>5

\* The requests on users and roles.
LEMMA AccountStep ==
  ASSUME AInvar, NEW a \in Askers,
         UserCreate(a) \/ RoleCreate(a) \/ RoleAssign(a) \/ RoleUnassign(a)
  PROVE AInvar'
<1>0. Shapes /\ AskInv /\ AccountsOK(accounts)
  BY DEF AInvar, Shapes
<1>1. PICK b : b = errand[a].body
  OBVIOUS
<1>2. PICK k : k = errand[a].kind
  OBVIOUS
<1>3. errand[a].at = "act" /\ k \in {"userCreate", "roleCreate", "roleAssign", "roleUnassign"}
  BY <1>2 DEF UserCreate, RoleCreate, RoleAssign, RoleUnassign, Performs, Stage
<1>4. b \in BodiesOf(k)
  BY <1>0, <1>1, <1>2, <1>3, Known DEF IsErrand
<1>5. \E t : Execute(a, t, "done") /\ AccountsOK(t) /\ UsersKept(accounts, t)
  <2>1. CASE UserCreate(a)
    <3>1. k = "userCreate" /\ Execute(a, UserAdded(accounts, b.name, b.enabled), "done")
      BY <1>1, <1>2, <2>1 DEF UserCreate, Performs
    <3>2. b.name \in UserNames /\ b.enabled \in BOOLEAN
      BY <1>4, <3>1, Bodies
    <3> QED
      BY <1>0, <3>1, <3>2, UserAddedOK
  <2>2. CASE RoleCreate(a)
    <3>1. k = "roleCreate" /\ Execute(a, RoleAdded(accounts, b.name), "done")
      BY <1>1, <1>2, <2>2 DEF RoleCreate, Performs
    <3>2. b.name \in RoleNames
      BY <1>4, <3>1, Bodies
    <3> QED
      BY <1>0, <3>1, <3>2, RoleAddedOK
  <2>3. CASE RoleAssign(a)
    <3>1. k = "roleAssign" /\ Execute(a, Linked(accounts, b), "done")
      BY <1>1, <1>2, <2>3 DEF RoleAssign, Performs
    <3>2. <<b.user, b.role>> \in UserIds \X RoleIds
      BY <1>4, <3>1, Bodies
    <3> QED
      BY <1>0, <3>1, <3>2, LinksOK
  <2>4. CASE RoleUnassign(a)
    <3>1. k = "roleUnassign" /\ Execute(a, Unlinked(accounts, b), "done")
      BY <1>1, <1>2, <2>4 DEF RoleUnassign, Performs
    <3>2. <<b.user, b.role>> \in UserIds \X RoleIds
      BY <1>4, <3>1, Bodies
    <3> QED
      BY <1>0, <3>1, <3>2, LinksOK
  <2> QED
    BY <2>1, <2>2, <2>3, <2>4
<1>6. PICK t : Execute(a, t, "done") /\ AccountsOK(t) /\ UsersKept(accounts, t)
  BY <1>5
<1> QED
  BY <1>2, <1>3, <1>6, ExecuteStep

\* The requests on policies.
LEMMA PolicyStep ==
  ASSUME AInvar, NEW a \in Askers, PolicyCreated(a) \/ PolicyUpdated(a) \/ PolicyDeleted(a)
  PROVE AInvar'
<1>0. Shapes /\ AskInv /\ AccountsOK(accounts)
  BY DEF AInvar, Shapes
<1>1. PICK b : b = errand[a].body
  OBVIOUS
<1>2. PICK k : k = errand[a].kind
  OBVIOUS
<1>3. errand[a].at = "act" /\ k \in PolicyKinds
  BY <1>2 DEF PolicyCreated, PolicyUpdated, PolicyDeleted, Performs, Stage, PolicyKinds
<1>4. b \in BodiesOf(k)
  BY <1>0, <1>1, <1>2, <1>3, Known DEF IsErrand
<1>5. UsersKept(accounts, accounts)
  BY DEF UsersKept
<1>6. \E t, to : /\ to \in {"load", "done"} /\ Execute(a, t, to)
                 /\ AccountsOK(t) /\ UsersKept(accounts, t)
  <2>1. CASE PolicyCreated(a)
    <3>1. PICK o : o = b.policy
      OBVIOUS
    <3>2. PICK n : n = [o EXCEPT !.enabled = TRUE]
      OBVIOUS
    <3>3. /\ k = "policyCreate"
          /\ \/ Accepts(o) /\ Execute(a, Added(accounts, n), "load")
             \/ Execute(a, accounts, "done")
      BY <1>1, <1>2, <2>1, <3>1, <3>2 DEF PolicyCreated, Performs
    <3>4. o \in Offers
      BY <1>4, <3>1, <3>3, Bodies
    <3>5. o = Policy(o.type, o.subject, o.resource, o.action, o.filter, o.enabled)
      BY <3>4, AuthorityAssumption
    <3>6. Accepts(o) => ValidPolicy(n)
      <4>1. n.type = o.type /\ n.resource = o.resource /\ n.action = o.action /\ n.filter = o.filter
        BY <3>2, <3>5 DEF Policy
      <4> QED
        BY <4>1 DEF Accepts, ValidPolicy
    <3>7. Accepts(o) => AccountsOK(Added(accounts, n)) /\ UsersKept(accounts, Added(accounts, n))
      BY <1>0, <3>6, RulesOK DEF Added
    <3> QED
      BY <1>0, <1>5, <3>3, <3>7
  <2>2. CASE PolicyUpdated(a)
    <3>1. PICK o : o = b.policy
      OBVIOUS
    <3>2. PICK i : i = b.rule
      OBVIOUS
    <3>3. \/ Accepts(o) /\ Execute(a, Kept(accounts, i, o), "load")
          \/ Execute(a, accounts, "done")
      BY <1>1, <2>2, <3>1, <3>2 DEF PolicyUpdated
    <3>4. Accepts(o) => AccountsOK(Kept(accounts, i, o)) /\ UsersKept(accounts, Kept(accounts, i, o))
      <4>1. CASE accounts.rules[i] = Absent
        BY <1>0, <1>5, <4>1 DEF Kept
      <4>2. CASE accounts.rules[i] # Absent
        BY <1>0, <4>2, RulesOK DEF Kept, Accepts
      <4> QED
        BY <4>1, <4>2
    <3> QED
      BY <1>0, <1>5, <3>3, <3>4
  <2>3. CASE PolicyDeleted(a)
    <3>1. Execute(a, Erased(accounts, b.rule), "load")
      BY <1>1, <2>3 DEF PolicyDeleted
    <3>2. AccountsOK(Erased(accounts, b.rule)) /\ UsersKept(accounts, Erased(accounts, b.rule))
      BY <1>0, RulesOK DEF Erased
    <3> QED
      BY <3>1, <3>2
  <2> QED
    BY <2>1, <2>2, <2>3
<1>7. PICK t, to : /\ to \in {"load", "done"} /\ Execute(a, t, to)
                   /\ AccountsOK(t) /\ UsersKept(accounts, t)
  BY <1>6
<1>8. k \notin {"records", "script"}
  BY <1>3 DEF PolicyKinds
<1> QED
  BY <1>2, <1>3, <1>7, <1>8, ExecuteStep

\* ReplacePolicies publishes what is stored, as long as nobody has changed it.
LEMMA PublishAll ==
  ASSUME AInvar, NEW a \in Askers, PublishRules(a)
  PROVE AInvar'
<1>0. Shapes /\ BootInv /\ FoundInv /\ AskInv
  BY DEF AInvar
<1>1. PICK e : e = errand[a]
  OBVIOUS
<1>2. PICK f : f = [e EXCEPT !.at = "done", !.rules = {}]
  OBVIOUS
<1>3. /\ e.at = "publish" /\ Becomes(a, f) /\ Witnessed(accounts, rulesIn')
      /\ UNCHANGED <<accounts, process, drafted, token, untouched>>
      /\ rulesIn' = IF \A p \in e.rules : ValidPolicy(p) THEN [rulesIn EXCEPT ![e.on] = e.rules] ELSE rulesIn
  BY <1>1, <1>2 DEF PublishRules, Stage
<1>4. IsErrand(e)
  BY <1>0, <1>1, <1>3, Known
<1>5. f.at = "done"
  <2>1. e = [at |-> e.at, on |-> e.on, user |-> e.user, kind |-> e.kind, body |-> e.body,
             roles |-> e.roles, rows |-> e.rows, rules |-> e.rules, ran |-> e.ran]
    BY <1>4 DEF IsErrand
  <2> QED
    BY <1>2, <2>1
<1>6. AskInv'
  BY <1>0, PublishStep
<1>7. /\ rulesIn' = [q \in Processes |-> rulesIn'[q]]
      /\ \A q \in Processes : rulesIn'[q] = rulesIn[q] \/ rulesIn'[q] = e.rules
  BY <1>0, <1>3 DEF Shapes
<1>8. AccountsOK(accounts)'
  BY <1>0, <1>3 DEF Shapes, AccountsOK
<1>9. Shapes'
  <2>1. /\ heldRoles' = [b \in Askers |-> heldRoles'[b]] /\ rulesSeen' = [b \in Askers |-> rulesSeen'[b]]
    BY <1>3 DEF Witnessed
  <2>2. errand' = [b \in Askers |-> errand'[b]]
    BY <1>0, <1>3 DEF Becomes, Shapes
  <2> QED
    BY <1>0, <1>3, <1>7, <1>8, <2>1, <2>2 DEF Shapes
<1>10. BootInv'
  <2>1. UsersKept(accounts, accounts')
    BY <1>3 DEF UsersKept
  <2>2. \A u \in UserIds : token'[u] # Absent => accounts'.users[u] # Absent
    BY <1>0, <1>3 DEF BootInv
  <2> QED
    BY <1>0, <1>3, <2>1, <2>2, ServedBoot
<1>11. FoundInv'
  <2> SUFFICES ASSUME untouched' PROVE FoundInv'
    BY DEF FoundInv
  <2>1. /\ \A q \in Processes : process[q] = "up" => rulesIn[q] = StoredRules(accounts)
        /\ \A b \in Askers : errand[b].at = "publish" => errand[b].rules = StoredRules(accounts)
        /\ \/ accounts \in FirstAccounts
           \/ \E s \in FirstAccounts : Empty(s) /\ accounts = Founded(s, Whole)
    BY <1>0, <1>3 DEF FoundInv
  <2>2. StoredRules(accounts)' = StoredRules(accounts)
    BY <1>3 DEF StoredRules
  <2>3. (\A q \in Processes : process[q] = "up" => rulesIn[q] = StoredRules(accounts))'
    BY <1>1, <1>3, <1>7, <2>1, <2>2
  <2>4. (\A b \in Askers : errand[b].at = "publish" => errand[b].rules = StoredRules(accounts))'
    BY <1>0, <1>3, <1>5, <2>1, <2>2 DEF Becomes, Shapes
  <2>5. (\/ accounts \in FirstAccounts
         \/ \E s \in FirstAccounts : Empty(s) /\ accounts = Founded(s, Whole))'
    BY <1>3, <2>1 DEF Empty, Founded
  <2> QED
    BY <2>3, <2>4, <2>5 DEF FoundInv
<1> QED
  BY <1>6, <1>9, <1>10, <1>11 DEF AInvar

\* What the other steps of a request leave alone.
LEMMA Others ==
  ASSUME AInvar, NEW a \in Askers,
         \/ Request(a) \/ Identify(a) \/ Authorized(a) \/ ListRecords(a) \/ RunScript(a)
         \/ ChangeSchema(a) \/ ReadRules(a) \/ Return(a) \/ ErrandFails(a)
  PROVE Shapes' /\ BootInv' /\ FoundInv'
<1>0. Shapes /\ BootInv /\ FoundInv /\ AskInv
  BY DEF AInvar
<1>1. PICK e : e = errand[a]
  OBVIOUS
<1>2. UNCHANGED <<accounts, process, drafted, rulesIn, token, untouched>>
  BY DEF Request, Identify, Authorized, ListRecords, RunScript, ChangeSchema, ReadRules, Return,
         ErrandFails, Apart
<1>3. heldRoles' = [b \in Askers |-> heldRoles'[b]] /\ rulesSeen' = [b \in Askers |-> rulesSeen'[b]]
  <2>1. CASE UNCHANGED <<heldRoles, rulesSeen>>
    BY <1>0, <2>1 DEF Shapes
  <2>2. CASE \E r, s : heldRoles' = [heldRoles EXCEPT ![a] = r] /\ rulesSeen' = [rulesSeen EXCEPT ![a] = s]
    BY <1>0, <2>2 DEF Shapes
  <2>3. CASE Request(a)
    <3>1. \E r, s : heldRoles' = [heldRoles EXCEPT ![a] = r] /\ rulesSeen' = [rulesSeen EXCEPT ![a] = s]
      BY <2>3 DEF Request
    <3> QED
      BY <2>2, <3>1
  <2>4. CASE Return(a) \/ ErrandFails(a)
    BY <2>2, <2>4 DEF Return, ErrandFails
  <2> QED
    BY <2>1, <2>3, <2>4 DEF Identify, Authorized, ListRecords, RunScript, ChangeSchema, ReadRules, NoHistory
<1>4. \E f : Becomes(a, f) /\ (f.at = "publish" => f.rules = StoredRules(accounts))
  <2>1. CASE Request(a)
    <3>1. PICK p \in Processes, u \in {Nobody} \cup {v \in UserIds : token[v] # Absent}, k \in Kinds :
            \E b \in BodiesOf(k) :
              Becomes(a, [NoErrand EXCEPT !.at = IF u = Nobody THEN "authorize" ELSE "identify",
                                          !.on = p, !.user = u, !.kind = k, !.body = b])
      BY <2>1 DEF Request
    <3>2. PICK b :
              Becomes(a, [NoErrand EXCEPT !.at = IF u = Nobody THEN "authorize" ELSE "identify",
                                          !.on = p, !.user = u, !.kind = k, !.body = b])
      BY <3>1
    <3>3. PICK f : f = [NoErrand EXCEPT !.at = IF u = Nobody THEN "authorize" ELSE "identify",
                                        !.on = p, !.user = u, !.kind = k, !.body = b]
      OBVIOUS
    <3>4. f.at # "publish"
      BY <3>3 DEF NoErrand
    <3> QED
      BY <3>2, <3>3, <3>4
  <2>2. CASE Return(a) \/ ErrandFails(a)
    BY <2>2, NoneAsked DEF Return, ErrandFails
  <2>3. CASE Identify(a) \/ Authorized(a) \/ ListRecords(a) \/ RunScript(a) \/ ChangeSchema(a) \/ ReadRules(a)
    <3>1. e.at # "idle"
      BY <1>1, <2>3 DEF Identify, Authorized, ListRecords, RunScript, ChangeSchema, ReadRules, Performs, Stage
    <3>2. e = [at |-> e.at, on |-> e.on, user |-> e.user, kind |-> e.kind, body |-> e.body,
               roles |-> e.roles, rows |-> e.rows, rules |-> e.rules, ran |-> e.ran]
      BY <1>0, <1>1, <3>1, Known DEF IsErrand
    <3>3. CASE Identify(a)
      <4>1. PICK l : l = IF accounts.users[e.user].enabled THEN "authorize" ELSE "refused"
        OBVIOUS
      <4>2. PICK f : f = [e EXCEPT !.at = l, !.roles = Roles(e.user)]
        OBVIOUS
      <4>3. Becomes(a, f)
        BY <1>1, <3>3, <4>1, <4>2 DEF Identify
      <4>4. f.at = l /\ l # "publish"
        BY <3>2, <4>1, <4>2
      <4> QED
        BY <4>3, <4>4
    <3>4. CASE Authorized(a)
      <4>1. PICK l : l = IF Decision(a).allowed /\ (Reserved(e) => "admin" \in e.roles) THEN "act" ELSE "refused"
        OBVIOUS
      <4>2. PICK f : f = [e EXCEPT !.at = l]
        OBVIOUS
      <4>3. Becomes(a, f)
        BY <1>1, <3>4, <4>1, <4>2 DEF Authorized, Move
      <4>4. f.at = l /\ l # "publish"
        BY <3>2, <4>1, <4>2
      <4> QED
        BY <4>3, <4>4
    <3>8. CASE ChangeSchema(a)
      <4>1. PICK f : f = [e EXCEPT !.at = "done"]
        OBVIOUS
      <4>2. Becomes(a, f)
        BY <1>1, <3>8, <4>1 DEF ChangeSchema, Move
      <4>3. f.at = "done"
        BY <3>2, <4>1
      <4> QED
        BY <4>2, <4>3
    <3>5. CASE ListRecords(a)
      <4>1. PICK l : l = IF Decision(a).allowed THEN "done" ELSE "refused"
        OBVIOUS
      <4>2. PICK f : f = [e EXCEPT !.at = l, !.rows = Decision(a).rows, !.ran = Reached(a)]
        OBVIOUS
      <4>3. Becomes(a, f)
        BY <1>1, <3>5, <4>1, <4>2 DEF ListRecords
      <4>4. f.at = l /\ l # "publish"
        BY <3>2, <4>1, <4>2
      <4> QED
        BY <4>3, <4>4
    <3>6. CASE RunScript(a)
      <4>1. PICK r : /\ Becomes(a, [e EXCEPT !.at = "done", !.ran = r])
        BY <1>1, <3>6 DEF RunScript
      <4>2. [e EXCEPT !.at = "done", !.ran = r].at = "done"
        BY <3>2
      <4> QED
        BY <4>1, <4>2
    <3>7. CASE ReadRules(a)
      <4>1. PICK r : r = StoredRules(accounts) /\ Becomes(a, [e EXCEPT !.at = "publish", !.rules = r])
        BY <1>1, <3>7 DEF ReadRules
      <4>2. [e EXCEPT !.at = "publish", !.rules = r].rules = r
        BY <3>2
      <4> QED
        BY <4>1, <4>2
    <3> QED
      BY <2>3, <3>3, <3>4, <3>5, <3>6, <3>7, <3>8
  <2> QED
    BY <2>1, <2>2, <2>3
<1>5. PICK f : Becomes(a, f) /\ (f.at = "publish" => f.rules = StoredRules(accounts))
  BY <1>4
<1> QED
  BY <1>0, <1>2, <1>3, <1>5, QuietStep

\* A login.
LEMMA LoginStep ==
  ASSUME AInvar, NEW u \in UserIds, Login(u)
  PROVE AInvar'
<1>0. Shapes /\ BootInv /\ FoundInv /\ AskInv
  BY DEF AInvar
<1>1. /\ UNCHANGED <<accounts, process, drafted, rulesIn, errand, heldRoles, rulesSeen, untouched>>
      /\ token' = [token EXCEPT ![u] = RolesOf(accounts, u)] /\ accounts.users[u] # Absent
  BY DEF Login, MayLogin, NoHistory
<1>2. AskInv'
  BY <1>0, <1>1, AskStands
<1>3. AccountsOK(accounts)'
  BY <1>0, <1>1 DEF Shapes, AccountsOK
<1>4. Shapes'
  BY <1>0, <1>1, <1>3 DEF Shapes
<1>5. BootInv'
  <2>1. UsersKept(accounts, accounts')
    BY <1>1 DEF UsersKept
  <2>2. \A v \in UserIds : token'[v] # Absent => accounts'.users[v] # Absent
    BY <1>0, <1>1 DEF BootInv, Shapes
  <2> QED
    BY <1>0, <1>1, <2>1, <2>2, ServedBoot
<1>6. FoundInv'
  <2>1. CASE Processes = {}
    <3>1. StoredRules(accounts)' = StoredRules(accounts)
      BY <1>1 DEF StoredRules
    <3> QED
      BY <1>0, <1>1, <2>1, <3>1 DEF FoundInv, Empty, Founded
  <2>2. CASE Processes # {}
    BY <1>0, <1>1, <2>2, FoundStands
  <2> QED
    BY <2>1, <2>2
<1> QED
  BY <1>2, <1>4, <1>5, <1>6 DEF AInvar

\* Every step.
LEMMA NextAll == AInvar /\ [AuthorityNext]_authorityVars => AInvar'
<1> SUFFICES ASSUME AInvar, [AuthorityNext]_authorityVars PROVE AInvar'
  OBVIOUS
<1>0. Shapes /\ BootInv /\ FoundInv /\ AskInv
  BY DEF AInvar
<1>1. ASSUME NEW p \in Processes, Bootstrap(p) PROVE AInvar'
  BY <1>1, BootstrapStep
<1>2. ASSUME NEW u \in UserIds, Login(u) PROVE AInvar'
  BY <1>2, LoginStep
<1>3. ASSUME NEW a \in Askers,
             Request(a) \/ Identify(a) \/ Authorized(a) \/ Perform(a) \/ Return(a) \/ ErrandFails(a)
      PROVE AInvar'
  <2>1. CASE UserCreate(a) \/ RoleCreate(a) \/ RoleAssign(a) \/ RoleUnassign(a)
    BY <2>1, AccountStep
  <2>2. CASE PolicyCreated(a) \/ PolicyUpdated(a) \/ PolicyDeleted(a)
    BY <2>2, PolicyStep
  <2>3. CASE PublishRules(a)
    BY <2>3, PublishAll
  <2>4. CASE \/ Request(a) \/ Identify(a) \/ Authorized(a) \/ ListRecords(a) \/ RunScript(a)
             \/ ChangeSchema(a) \/ ReadRules(a) \/ Return(a) \/ ErrandFails(a)
    <3>1. Shapes' /\ BootInv' /\ FoundInv'
      BY <2>4, Others
    <3>2. AskInv'
      BY <1>0, <2>4, RequestStep, IdentifyStep, AuthorizedStep, ListStep, ScriptStep, SchemaStep,
         ReadStep, EndsOne
    <3> QED
      BY <3>1, <3>2 DEF AInvar
  <2> QED
    BY <1>3, <2>1, <2>2, <2>3, <2>4 DEF Perform
<1>4. CASE UNCHANGED authorityVars
  <2>1. UNCHANGED <<accounts, process, drafted, rulesIn, token, errand, heldRoles, rulesSeen, untouched>>
    BY <1>4 DEF authorityVars
  <2>2. AskInv'
    BY <1>0, <2>1, AskStands
  <2>3. AccountsOK(accounts)'
    BY <1>0, <2>1 DEF Shapes, AccountsOK
  <2>4. Shapes'
    BY <1>0, <2>1, <2>3 DEF Shapes
  <2>5. BootInv'
    <3>1. UsersKept(accounts, accounts')
      BY <2>1 DEF UsersKept
    <3> QED
      BY <1>0, <2>1, <3>1, ServedBoot DEF BootInv
  <2>6. FoundInv'
    <3>1. StoredRules(accounts)' = StoredRules(accounts)
      BY <2>1 DEF StoredRules
    <3> QED
      BY <1>0, <2>1, <3>1 DEF FoundInv, Empty, Founded
  <2> QED
    BY <2>2, <2>4, <2>5, <2>6 DEF AInvar
<1> QED
  BY <1>1, <1>2, <1>3, <1>4 DEF AuthorityNext

\* Where what the program went by was founded by itself, its first user may do
\* everything that the program itself asks for.
LEMMA RootMay ==
  ASSUME Shapes, FoundInv, untouched, NEW t \in FirstAccounts, Empty(t), accounts = Founded(t, Whole),
         NEW q \in Processes, process[q] = "up", NEW k \in Kinds \ {"script"},
         NEW root, root = CHOOSE u \in UserIds : accounts.users[u] # Absent
  PROVE Evaluate(rulesIn[q], root, RolesOf(accounts, root), TargetOf([NoErrand EXCEPT !.kind = k])).allowed
<1>1. AccountsOK(t) /\ IdsLeft(t)
  BY AuthorityAssumption
<1>2. PICK u \in UserIds, i \in RoleIds, m \in RuleIds :
        /\ \A v \in UserIds : accounts.users[v] # Absent <=> v = u
        /\ <<u, i>> \in accounts.links /\ accounts.roles[i] = "admin" /\ accounts.rules[m] = AdminRule
  BY <1>1, FoundedOK
<1>3. root = u
  BY <1>2
<1>4. PICK roles : roles = RolesOf(accounts, root)
  OBVIOUS
<1>5. "admin" \in roles
  <2>1. "admin" # Absent
    BY AuthorityAssumption
  <2> QED
    BY <1>2, <1>3, <1>4, <2>1 DEF RolesOf
<1>6. AdminRule \in rulesIn[q]
  <2>1. AdminRule # Absent
    BY AuthorityAssumption
  <2>2. AdminRule \in StoredRules(accounts)
    BY <1>2, <2>1 DEF StoredRules
  <2> QED
    BY <2>2 DEF FoundInv
<1>7. PICK target : target = TargetOf([NoErrand EXCEPT !.kind = k])
  OBVIOUS
<1>8. target[1] \in BuiltIn /\ target[2] \in BuiltIn
  <2>1. PICK e : e = [NoErrand EXCEPT !.kind = k]
    OBVIOUS
  <2>2. e.kind = k /\ target = TargetOf(e)
    BY <1>7, <2>1 DEF NoErrand
  <2> QED
    BY <2>2 DEF TargetOf, BuiltIn, Kinds
<1>9. target[1] \in Under["*"] /\ target[2] \in Under["*"] /\ "admin" \in Under["admin"]
  BY <1>8, AuthorityAssumption
<1>10. root # Nobody
  BY <1>3, AuthorityAssumption
<1>11. /\ AdminRule.type = "role" /\ AdminRule.subject = "admin" /\ AdminRule.resource = "*"
       /\ AdminRule.action = "*" /\ AdminRule.enabled
  BY DEF AdminRule, Policy
<1>12. Applies(AdminRule, root, roles, target)
  BY <1>5, <1>9, <1>10, <1>11 DEF Applies, MatchesSubject, WildcardMatch
<1>13. PICK s : s = rulesIn[q]
  OBVIOUS
<1>14. Evaluate(s, root, roles, target).allowed = ({p \in s : Applies(p, root, roles, target)} # {})
  BY DEF Evaluate
<1>15. {p \in s : Applies(p, root, roles, target)} # {}
  BY <1>6, <1>12, <1>13
<1> QED
  BY <1>4, <1>7, <1>13, <1>14, <1>15

\* The invariant.
THEOREM Governed == AuthoritySpec => []AInvar
BY InitAll, NextAll, PTL DEF AuthoritySpec

\* Names of users and of roles are unique, although EnsureBootstrapAdmin, in several
\* processes at once, and CreateUser and CreateRole insert them.
THEOREM NamesUnique == AuthoritySpec => []AuthorityTypeOK
<1>1. AInvar => AuthorityTypeOK
  <2> SUFFICES ASSUME AInvar PROVE AuthorityTypeOK
    OBVIOUS
  <2>1. Shapes /\ AskInv
    BY DEF AInvar
  <2>2. /\ \A u, v \in UserIds :
             accounts.users[u] # Absent /\ accounts.users[v] # Absent
             /\ accounts.users[u].name = accounts.users[v].name => u = v
        /\ \A i, j \in RoleIds : accounts.roles[i] # Absent /\ accounts.roles[i] = accounts.roles[j] => i = j
        /\ accounts.links \subseteq UserIds \X RoleIds
    BY <2>1 DEF Shapes, AccountsOK
  <2>3. process \in [Processes -> {"down", "user", "role", "link", "rule", "commit", "load", "up",
                                   "refused"}]
    BY <2>1 DEF Shapes, BootLabels
  <2>4. \A p \in Processes : drafted[p] # {} => process[p] \in {"role", "link", "rule", "commit"}
    BY <2>1, DraftsAre DEF Shapes, BootLabels
  <2>5. ASSUME NEW a \in Askers
        PROVE /\ errand[a].at \in {"idle", "identify", "authorize", "act", "load", "publish", "done", "refused"}
              /\ errand[a].at # "idle" => errand[a].kind \in Kinds /\ process[errand[a].on] = "up"
    <3>1. IsErrand(errand[a]) /\ Asked(errand[a])
      BY <2>1 DEF AskInv, AskFor
    <3> QED
      BY <3>1 DEF IsErrand, Asked, ErrandLabels
  <2> QED
    BY <2>2, <2>3, <2>4, <2>5 DEF AuthorityTypeOK
<1> QED
  BY <1>1, Governed, PTL

\* Whoever is answered, or refused, could have been at the policies of its process and
\* the roles of its user at some moment of the request; what it is shown and what runs
\* is what these say (Authenticate, Authorize, Dispatch, Find, and everything that
\* changes roles and policies meanwhile).
THEOREM GrantsBind == AuthoritySpec => []ActsAsGranted
<1>1. AInvar => ActsAsGranted
  <2> SUFFICES ASSUME AInvar PROVE ActsAsGranted
    OBVIOUS
  <2>1. \A a \in Askers : Justified(accounts, errand[a], heldRoles[a], rulesSeen[a])
    BY DEF AInvar, AskInv, AskFor
  <2>2. RunsWhatItNames
    BY <2>1 DEF RunsWhatItNames, Justified
  <2>3. ASSUME NEW a \in Askers, NEW s, NEW r
        PROVE /\ GrantedTo(errand[a], s, r) <=> Grants(a, s, r)
              /\ MayDo(errand[a], s, r) <=> Grants(a, s, r) /\ (Reserved(errand[a]) => "admin" \in r)
              /\ \A w : SeenBy(errand[a], s, r, w) <=> Sees(a, s, r, w)
    BY DEF GrantedTo, Grants, SeenBy, Sees, MayDo
  <2>4. ASSUME NEW a \in Askers, errand[a].at \in {"load", "publish", "done"}
        PROVE \E s \in rulesSeen[a], r \in heldRoles[a] :
                Grants(a, s, r) /\ (Reserved(errand[a]) => "admin" \in r)
    BY <2>1, <2>3, <2>4 DEF Justified
  <2>5. ASSUME NEW a \in Askers, errand[a].at = "refused"
        PROVE \/ \E s \in rulesSeen[a], r \in heldRoles[a] :
                   ~Grants(a, s, r) \/ (Reserved(errand[a]) /\ "admin" \notin r)
              \/ errand[a].user # Nobody /\ ~accounts.users[errand[a].user].enabled
    BY <2>1, <2>3, <2>5 DEF Justified
  <2>6. ASSUME NEW a \in Askers, errand[a].at = "done", errand[a].kind = "records", NEW w \in Orders
        PROVE IF w \in errand[a].rows
              THEN \E s \in rulesSeen[a], r \in heldRoles[a] : Sees(a, s, r, w)
              ELSE \E s \in rulesSeen[a], r \in heldRoles[a] : ~Sees(a, s, r, w)
    BY <2>1, <2>3, <2>6 DEF Justified
  <2> QED
    BY <2>2, <2>4, <2>5, <2>6 DEF ActsAsGranted
<1> QED
  BY <1>1, Governed, PTL

\* However many processes start, and stop, on an empty database, there is one
\* administrator, whole, or none, until a request changes something; it may do everything.
\* And whatever requests do to policies, the next start finds them valid.
THEOREM StartsClean == AuthoritySpec => []StartsWhole
<1>1. AInvar => StartsWhole
  <2> SUFFICES ASSUME AInvar PROVE StartsWhole
    OBVIOUS
  <2>1. Shapes /\ BootInv /\ FoundInv
    BY DEF AInvar
  <2>2. \A p \in Processes : process[p] # "refused"
    BY <2>1 DEF BootInv
  <2>3. CASE untouched /\ accounts \in FirstAccounts
    <3>1. accounts.users = NoAccounts.users => \A p \in Processes : process[p] # "up"
      BY <2>1, EmptyIs DEF BootInv, Shapes
    <3> QED
      BY <2>2, <2>3, <3>1 DEF StartsWhole
  <2>4. CASE untouched /\ \E t \in FirstAccounts : Empty(t) /\ accounts = Founded(t, Whole)
    <3>1. PICK t \in FirstAccounts : Empty(t) /\ accounts = Founded(t, Whole)
      BY <2>4
    <3>2. t.users = NoAccounts.users
      BY <3>1, EmptyIs, AuthorityAssumption
    <3>3. accounts = Founded(t, {"user", "role", "link", "rule"})
      BY <3>1 DEF Whole
    <3>4. \A q \in Processes, k \in Kinds \ {"script"} : process[q] = "up" =>
            LET root == CHOOSE u \in UserIds : accounts.users[u] # Absent IN
            Evaluate(rulesIn[q], root, RolesOf(accounts, root),
                     TargetOf([NoErrand EXCEPT !.kind = k])).allowed
      <4> SUFFICES ASSUME NEW q \in Processes, NEW k \in Kinds \ {"script"}, process[q] = "up",
                          NEW root, root = CHOOSE u \in UserIds : accounts.users[u] # Absent
                   PROVE Evaluate(rulesIn[q], root, RolesOf(accounts, root),
                                  TargetOf([NoErrand EXCEPT !.kind = k])).allowed
        OBVIOUS
      <4> QED
        BY <2>1, <2>4, <3>1, RootMay
    <3> QED
      BY <2>2, <3>2, <3>3, <3>4 DEF StartsWhole
  <2>5. CASE ~untouched
    BY <2>2, <2>5 DEF StartsWhole
  <2> QED
    BY <2>1, <2>3, <2>4, <2>5 DEF FoundInv
<1> QED
  BY <1>1, Governed, PTL
=============================================================================
