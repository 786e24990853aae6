----------------------------- MODULE Authority -----------------------------
(***************************************************************************)
(* Who may do what, from the token to the handler: accounts, roles and     *)
(* policies in the database (service/security/store.go), the first         *)
(* administrator (EnsureBootstrapAdmin), the identity of a request         *)
(* (middleware/auth.go, auth/service.go), the decision (acl/enforcer.go),  *)
(* the requests that change accounts, roles and policies                   *)
(* (controller/security/security.go), those on the schema                  *)
(* (MetaHTTPMiddleware), on records, and those that a script answers       *)
(* (middleware/metadata.go, resource/manager.go).                          *)
(*                                                                         *)
(* Several processes share the database, each with its own policies in     *)
(* memory.  Each is configured with a password for the first administrator *)
(* (one without founds nobody).  Columns, hooks and the writing of records *)
(* are in Access, the scripts themselves in ScriptRuntime, logins in       *)
(* Sessions.                                                               *)
(***************************************************************************)
EXTENDS Integers, FiniteSets

CONSTANTS
  UserIds, RoleIds,  \* 1..n, handed out in this order
  Root,              \* the name that the first administrator gets
  UserNames, RoleNames,
  RuleIds,
  Offers,            \* the policies that requests send, those that do not pass included
  Under,             \* Under[w] are the names that the pattern w stands for
  Vocabulary,        \* of resources, actions and roles
  Scripts,           \* scripts of the custom API
  Declared,          \* Declared[s] are its resource and action, <<>> if it says none
  Ties,              \* the users and roles that requests tie and untie
  Orders,            \* records: an owner, and a role that they belong to
  FirstAccounts,     \* what the database may hold at first
  Processes, Askers, \* Askers: concurrent requests
  Nobody, Absent,
  MaxErrands,        \* bound: requests
  MaxOutages         \* bound: statements that fail, and crashes

\* A row of acl_policies; its filter: none, the user's own rows, those of the user's
\* roles, or one with a variable that there is not.
SubjectTypes == {"role", "loggedIn", "public"}

Policy(type, subject, resource, action, filter, enabled) ==
  [type |-> type, subject |-> subject, resource |-> resource, action |-> action,
   filter |-> filter, enabled |-> enabled]

AdminRule == Policy("role", "admin", "*", "*", "none", TRUE)

\* validatePolicy
ValidPolicy(p) ==
  /\ p.type \in SubjectTypes /\ p.resource # "" /\ p.action # ""
  /\ p.filter # "unsupported"

\* An empty database.
NoAccounts == [users |-> [u \in UserIds |-> Absent], roles |-> [i \in RoleIds |-> Absent],
               links |-> {}, rules |-> [i \in RuleIds |-> Absent]]

User(name, enabled) == [name |-> name, enabled |-> enabled]
Users == {User(n, e) : n \in UserNames, e \in BOOLEAN}

\* The tables as the code leaves them: names are unique, and no stored policy
\* is one that keeps a process from starting.
AccountsOK(t) ==
  /\ t = [users |-> t.users, roles |-> t.roles, links |-> t.links, rules |-> t.rules]
  /\ t.users \in [UserIds -> Users \cup {Absent}]
  /\ t.roles \in [RoleIds -> RoleNames \cup {Absent}]
  /\ t.links \subseteq UserIds \X RoleIds
  /\ t.rules = [k \in RuleIds |-> t.rules[k]]
  /\ \A k \in RuleIds : t.rules[k] = Absent \/ ValidPolicy(t.rules[k])
  /\ \A u, v \in UserIds :
       t.users[u] # Absent /\ t.users[v] # Absent /\ t.users[u].name = t.users[v].name => u = v
  /\ \A i, j \in RoleIds : t.roles[i] # Absent /\ t.roles[i] = t.roles[j] => i = j

\* Bound: a database without users has ids left for the first administrator.
IdsLeft(t) ==
  t.users = NoAccounts.users => (\E i \in RoleIds : t.roles[i] = Absent)
                                /\ \E k \in RuleIds : t.rules[k] = Absent

\* What the requests and the scripts of the program itself go by.
BuiltIn == {"orders", "list", "meta.fields", "create", "auth.users", "auth.roles", "assign",
            "acl.policies", "update", "destroy"}

ASSUME AuthorityAssumption ==
  /\ UserIds \subseteq Nat \ {0} /\ RoleIds \subseteq Nat \ {0} /\ RuleIds \subseteq Nat \ {0}
  /\ UserIds # {} /\ Root \in UserNames /\ "admin" \in RoleNames
  /\ BuiltIn \cup RoleNames \subseteq Vocabulary
  /\ \A n \in Vocabulary : n \in Under[n] /\ n \in Under["*"]
  /\ \A t \in FirstAccounts : AccountsOK(t) /\ IdsLeft(t)
  /\ \A o \in Offers : o = Policy(o.type, o.subject, o.resource, o.action, o.filter, o.enabled)
  /\ \A w \in Orders : w.owner \in UserIds \cup {Nobody} /\ w.role \in RoleNames
  /\ Nobody \notin UserIds /\ Absent \notin Processes
  /\ Absent \notin Offers \cup {AdminRule} /\ Absent \notin Users /\ Absent \notin RoleNames
  /\ Ties \subseteq UserIds \X RoleIds /\ MaxErrands \in Nat /\ MaxOutages \in Nat

VARIABLES
  accounts,     \* auth_users, auth_roles, auth_user_roles, acl_policies
  process,      \* where each process is: down, in Bootstrap, or up
  drafted,      \* what its transaction in EnsureBootstrapAdmin has inserted
  rulesIn,      \* Enforcer.snapshot of each process
  token,        \* the roles in the claims of the token that a user holds, or Absent
  errand,       \* what each request is doing
  errands, outages,
  untouched,    \* history: no request has changed the tables yet
  heldRoles,    \* history: the roles that its user had while a request ran,
  rulesSeen     \* history: and the policies that there were in its process

authorityVars == <<accounts, process, drafted, rulesIn, token, errand, errands, outages,
                   untouched, heldRoles, rulesSeen>>

\* What a request names: a script, a new name, a user, a role, a policy's id, a policy.
NoBody == [script |-> "none", name |-> "none", enabled |-> TRUE, user |-> 0, role |-> 0,
           rule |-> 0, policy |-> AdminRule]

NoErrand == [at |-> "idle", on |-> Absent, user |-> Nobody, kind |-> "records",
             body |-> NoBody, roles |-> {}, rows |-> {}, rules |-> {}, ran |-> "nothing"]

AuthorityInit ==
  /\ accounts \in FirstAccounts
  /\ process = [p \in Processes |-> "down"] /\ drafted = [p \in Processes |-> {}]
  /\ rulesIn = [p \in Processes |-> {}]
  /\ token = [u \in UserIds |-> Absent]
  /\ errand = [a \in Askers |-> NoErrand]
  /\ errands = 0 /\ outages = 0 /\ untouched = TRUE
  /\ heldRoles = [a \in Askers |-> {}] /\ rulesSeen = [a \in Askers |-> {}]

-----------------------------------------------------------------------------
(***************************************************************************)
(* Enforcer                                                                *)
(***************************************************************************)
\* What rolesForUser joins: a link may name a role that there is not.
RolesOf(t, u) == {t.roles[i] : i \in {j \in RoleIds : <<u, j>> \in t.links}} \ {Absent}

WildcardMatch(pattern, name) == name \in Under[pattern]

\* Without an identity no role matches, and no pattern of ids does.
MatchesSubject(p, user, roles) ==
  \/ p.type = "public"
  \/ p.type = "loggedIn" /\ user # Nobody /\ (p.subject = "" \/ p.subject = "*")
  \/ p.type = "role" /\ user # Nobody /\ \E n \in roles : WildcardMatch(p.subject, n)

Applies(p, user, roles, target) ==
  /\ p.enabled /\ WildcardMatch(p.resource, target[1]) /\ WildcardMatch(p.action, target[2])
  /\ MatchesSubject(p, user, roles)

\* resolveFilter, and the rows that are left.  "$currentUser.id" is nil where
\* there is no identity, which asks for rows without an owner.
Resolved(filter, user, roles) ==
  CASE filter = "none" -> Orders
    [] filter = "own" -> {w \in Orders : w.owner = user}
    [] OTHER -> {w \in Orders : w.role \in roles}

\* Whether any policy applies; the rows are the union of what each leaves,
\* and all of them where one policy has no filter.
Evaluate(rules, user, roles, target) ==
  LET matching == {p \in rules : Applies(p, user, roles, target)} IN
  [allowed |-> matching # {},
   rows |-> IF \E p \in matching : p.filter = "none" THEN Orders
            ELSE UNION {Resolved(p.filter, user, roles) : p \in matching}]

\* Stored rules.  ReplacePolicies refuses all of them if one is not valid.
StoredRules(t) == {t.rules[i] : i \in RuleIds} \ {Absent}
Loads(t) == \A p \in StoredRules(t) : ValidPolicy(p)

-----------------------------------------------------------------------------
(***************************************************************************)
(* resource.Manager: which handler an action reaches.                      *)
(***************************************************************************)
CrudActions == {"list", "get", "count", "create", "createMany", "update", "updateMany",
                "destroy", "destroyMany", "association:list", "association:add",
                "association:set", "association:remove"}
FileActions == {"upload", "file:get"}

Registration(action, handler, sequence) ==
  [action |-> action, handler |-> handler, sequence |-> sequence]

\* What Bootstrap registers, for every resource.
Registered ==
  {Registration(n, "crud", 1) : n \in CrudActions}
  \cup {Registration(n, "file", 2) : n \in FileActions}
  \cup {Registration("*", "script", 3)}

\* patternSpecificity, as far as these patterns go
Specificity(h) == IF h.action = "*" THEN 0 ELSE 1

\* The most specific one, and the latest of these.
Lookup(action) ==
  LET matching == {h \in Registered : h.action = "*" \/ h.action = action}
      best == {h \in matching : \A g \in matching : Specificity(h) >= Specificity(g)} IN
  (CHOOSE h \in best : \A g \in best : h.sequence >= g.sequence).handler

-----------------------------------------------------------------------------
(***************************************************************************)
(* Bootstrap                                                               *)
(***************************************************************************)
\* The history of the requests under way, after the tables are t and the
\* policies in memory r.
Witnessed(t, r) ==
  /\ heldRoles' = [a \in Askers |->
       IF errand[a].at = "idle" THEN {}
       ELSE heldRoles[a] \cup {RolesOf(t, errand[a].user)}]
  /\ rulesSeen' = [a \in Askers |->
       IF errand[a].at = "idle" THEN {} ELSE rulesSeen[a] \cup {r[errand[a].on]}]

Unchanging == UNCHANGED <<token, errand, errands, heldRoles, rulesSeen>>

IsAt(p, label) == process[p] = label
MoveTo(p, label) == process' = [process EXCEPT ![p] = label]

\* EnsureBootstrapAdmin counts the users before it begins its transaction.
CountUsers(p) ==
  /\ IsAt(p, "down")
  /\ MoveTo(p, IF accounts.users = NoAccounts.users THEN "user" ELSE "load")
  /\ UNCHANGED <<accounts, drafted, rulesIn, outages, untouched>> /\ Unchanging

\* An INSERT waits for another transaction that has inserted the same name, and
\* fails once there is such a row.
Inserts(p, from, what, taken, to) ==
  /\ IsAt(p, from)
  /\ what \in {"user", "role"} => \A q \in Processes \ {p} : what \notin drafted[q]
  /\ IF taken THEN MoveTo(p, "down") /\ drafted' = [drafted EXCEPT ![p] = {}]
     ELSE MoveTo(p, to) /\ drafted' = [drafted EXCEPT ![p] = @ \cup {what}]
  /\ UNCHANGED <<accounts, rulesIn, outages, untouched>> /\ Unchanging

InsertAdmin(p) ==
  Inserts(p, "user", "user", \E u \in UserIds : accounts.users[u] # Absent /\ accounts.users[u].name = Root,
          "role")
InsertRole(p) ==
  Inserts(p, "role", "role", \E i \in RoleIds : accounts.roles[i] = "admin", "link")
InsertLink(p) == Inserts(p, "link", "link", FALSE, "rule")
InsertRule(p) == Inserts(p, "rule", "rule", FALSE, "commit")

NextId(rows, ids) == IF \E i \in ids : rows[i] = Absent
                     THEN CHOOSE i \in ids : rows[i] = Absent /\ \A j \in ids : rows[j] = Absent => i <= j
                     ELSE 0

\* The accounts once the administrator, role, link and policy in what are there.
Founded(t, what) ==
  LET u == NextId(t.users, UserIds)
      i == NextId(t.roles, RoleIds)
      k == NextId(t.rules, RuleIds) IN
  [users |-> IF "user" \in what
             THEN [t.users EXCEPT ![u] = User(Root, TRUE)] ELSE t.users,
   roles |-> IF "role" \in what THEN [t.roles EXCEPT ![i] = "admin"] ELSE t.roles,
   links |-> IF "link" \in what THEN t.links \cup {<<u, i>>} ELSE t.links,
   rules |-> IF "rule" \in what THEN [t.rules EXCEPT ![k] = AdminRule] ELSE t.rules]

CommitAdmin(p) ==
  /\ IsAt(p, "commit")
  /\ accounts' = Founded(accounts, drafted[p])
  /\ drafted' = [drafted EXCEPT ![p] = {}]
  /\ MoveTo(p, "load")
  /\ Witnessed(accounts', rulesIn)
  /\ UNCHANGED <<rulesIn, token, errand, errands, outages, untouched>>

\* NewEnforcer; a policy that is not valid keeps the process from starting.
LoadRules(p) ==
  /\ IsAt(p, "load")
  /\ IF Loads(accounts)
     THEN MoveTo(p, "up") /\ rulesIn' = [rulesIn EXCEPT ![p] = StoredRules(accounts)]
     ELSE MoveTo(p, "refused") /\ UNCHANGED rulesIn
  /\ UNCHANGED <<accounts, drafted, outages, untouched>> /\ Unchanging

\* (slip) What was inserted stays.
BootstrapKept(what) == Founded(accounts, what)

\* The transaction of a process that ends is rolled back.
BootstrapUndone(what) == accounts

\* A crash, or a statement of Bootstrap fails; the requests are lost.
ProcessEnds(p) ==
  /\ process[p] \notin {"down", "refused"} /\ outages < MaxOutages
  /\ outages' = outages + 1
  /\ accounts' = BootstrapUndone(drafted[p])
  /\ MoveTo(p, "down") /\ drafted' = [drafted EXCEPT ![p] = {}]
  /\ rulesIn' = [rulesIn EXCEPT ![p] = {}]
  /\ LET lost == {a \in Askers : errand[a].on = p} IN
     /\ errand' = [a \in Askers |-> IF a \in lost THEN NoErrand ELSE errand[a]]
     /\ heldRoles' = [a \in Askers |-> IF a \in lost THEN {} ELSE heldRoles[a]]
     /\ rulesSeen' = [a \in Askers |-> IF a \in lost THEN {} ELSE rulesSeen[a]]
  /\ UNCHANGED <<token, errands, untouched>>

Bootstrap(p) ==
  \/ CountUsers(p) \/ InsertAdmin(p) \/ InsertRole(p) \/ InsertLink(p) \/ InsertRule(p)
  \/ CommitAdmin(p) \/ LoadRules(p) \/ ProcessEnds(p)

-----------------------------------------------------------------------------
(***************************************************************************)
(* Requests: identity, authorization.                                      *)
(***************************************************************************)
NewUsers == {[NoBody EXCEPT !.name = u.name, !.enabled = u.enabled] : u \in Users}
Tied == {[NoBody EXCEPT !.user = l[1], !.role = l[2]] : l \in Ties}
Replacements == {[NoBody EXCEPT !.rule = k[1], !.policy = k[2]] : k \in RuleIds \X Offers}

BodiesOf(kind) ==
  CASE kind = "script" -> {[NoBody EXCEPT !.script = s] : s \in Scripts}
    [] kind = "userCreate" -> NewUsers
    [] kind = "roleCreate" -> {[NoBody EXCEPT !.name = n] : n \in RoleNames}
    [] kind \in {"roleAssign", "roleUnassign"} -> Tied
    [] kind = "policyCreate" -> {[NoBody EXCEPT !.policy = p] : p \in Offers}
    [] kind = "policyUpdate" -> Replacements
    [] kind = "policyDelete" -> {[NoBody EXCEPT !.rule = k] : k \in RuleIds}
    [] OTHER -> {NoBody}

Kinds == {"records", "schema", "script", "userCreate", "roleCreate", "roleAssign",
          "roleUnassign", "policyCreate", "policyUpdate", "policyDelete"}
PolicyKinds == {"policyCreate", "policyUpdate", "policyDelete"}

\* customActionIdentity: what a script that says nothing goes by
ScriptTarget(s) == IF Declared[s] = <<>> THEN <<"orders", "custom">> ELSE Declared[s]

\* The resource and the action that a request is authorized for.
TargetOf(e) ==
  CASE e.kind = "records" -> <<"orders", "list">>
    [] e.kind = "schema" -> <<"meta.fields", "create">>
    [] e.kind = "script" -> ScriptTarget(e.body.script)
    [] e.kind = "userCreate" -> <<"auth.users", "create">>
    [] e.kind = "roleCreate" -> <<"auth.roles", "create">>
    [] e.kind \in {"roleAssign", "roleUnassign"} -> <<"auth.roles", "assign">>
    [] e.kind = "policyCreate" -> <<"acl.policies", "create">>
    [] e.kind = "policyUpdate" -> <<"acl.policies", "update">>
    [] OTHER -> <<"acl.policies", "destroy">>

Stage(a, label) == errand[a].at = label
Becomes(a, e) == errand' = [errand EXCEPT ![a] = e]
Move(a, label) == Becomes(a, [errand[a] EXCEPT !.at = label])
NoHistory == UNCHANGED <<heldRoles, rulesSeen>>
Apart == UNCHANGED <<process, drafted, rulesIn, token, errands, outages>>

MayLogin(u) == token[u] = Absent /\ accounts.users[u] # Absent /\ accounts.users[u].enabled

\* issueTokenPair puts the roles of this moment into the token.  (Bound: once.)
Login(u) ==
  /\ MayLogin(u) /\ \E p \in Processes : IsAt(p, "up")
  /\ token' = [token EXCEPT ![u] = RolesOf(accounts, u)]
  /\ UNCHANGED <<accounts, process, drafted, rulesIn, errand, errands, outages, untouched>>
  /\ NoHistory

\* Bound: as many creations are under way as there are ids left.
Room(kind) ==
  LET free == CASE kind = "userCreate" -> {u \in UserIds : accounts.users[u] = Absent}
                [] kind = "roleCreate" -> {i \in RoleIds : accounts.roles[i] = Absent}
                [] OTHER -> {k \in RuleIds : accounts.rules[k] = Absent} IN
  kind \in {"userCreate", "roleCreate", "policyCreate"} =>
    Cardinality(free) > Cardinality({a \in Askers : errand[a].kind = kind})

\* A request, with a token or without; the latter has no identity to look up.
Request(a) ==
  /\ Stage(a, "idle") /\ errands < MaxErrands
  /\ errands' = errands + 1
  /\ \E p \in Processes, u \in {Nobody} \cup {v \in UserIds : token[v] # Absent}, k \in Kinds :
     \E b \in BodiesOf(k) :
       /\ IsAt(p, "up") /\ Room(k)
       /\ Becomes(a, [NoErrand EXCEPT !.at = IF u = Nobody THEN "authorize" ELSE "identify",
                                      !.on = p, !.user = u, !.kind = k, !.body = b])
       /\ heldRoles' = [heldRoles EXCEPT ![a] = {RolesOf(accounts, u)}]
       /\ rulesSeen' = [rulesSeen EXCEPT ![a] = {rulesIn[p]}]
  /\ UNCHANGED <<accounts, process, drafted, rulesIn, token, outages, untouched>>

\* (slip) The roles are those in the token.
RolesClaimed(u) == token[u]

\* Authenticate reads the account and its roles again.
Roles(u) == RolesOf(accounts, u)

Identify(a) ==
  LET e == errand[a] IN
  /\ Stage(a, "identify")
  /\ Becomes(a, [e EXCEPT !.at = IF accounts.users[e.user].enabled THEN "authorize" ELSE "refused",
                          !.roles = Roles(e.user)])
  /\ UNCHANGED <<accounts, untouched>> /\ NoHistory /\ Apart

Decision(a) == Evaluate(rulesIn[errand[a].on], errand[a].user, errand[a].roles, TargetOf(errand[a]))

\* A script that declares no resource and action is for administrators.
Reserved(e) == e.kind = "script" /\ Declared[e.body.script] = <<>>

\* The middleware of the manager or of the schema, or the controller's authorize
Authorized(a) ==
  LET e == errand[a] IN
  /\ Stage(a, "authorize")
  /\ Move(a, IF Decision(a).allowed /\ (Reserved(e) => "admin" \in e.roles) THEN "act" ELSE "refused")
  /\ UNCHANGED <<accounts, untouched>> /\ NoHistory /\ Apart

-----------------------------------------------------------------------------
(***************************************************************************)
(* What the requests do.                                                   *)
(***************************************************************************)
Performs(a, kind) == Stage(a, "act") /\ errand[a].kind = kind

\* Dispatch
Reached(a) == Lookup(TargetOf(errand[a])[2])

\* The repository authorizes a list again and asks for the rows that it may see.
ListRecords(a) ==
  LET d == Decision(a) IN
  /\ Performs(a, "records")
  /\ Becomes(a, [errand[a] EXCEPT !.at = IF d.allowed THEN "done" ELSE "refused",
                                  !.rows = d.rows, !.ran = Reached(a)])
  /\ UNCHANGED <<accounts, untouched>> /\ NoHistory /\ Apart

\* The handler of "*" runs the script, the others do not.
RunScript(a) ==
  /\ Performs(a, "script")
  /\ Becomes(a, [errand[a] EXCEPT !.at = "done", !.ran = Reached(a)])
  /\ UNCHANGED <<accounts, untouched>> /\ NoHistory /\ Apart

\* A change of the schema is in CollectionSchema.
ChangeSchema(a) ==
  /\ Performs(a, "schema")
  /\ Move(a, "done")
  /\ UNCHANGED <<accounts, untouched>> /\ NoHistory /\ Apart

\* A statement on the tables of accounts, roles and policies: no lock outlasts it.
Execute(a, t, to) ==
  /\ accounts' = t /\ untouched' = (untouched /\ t = accounts)
  /\ Witnessed(t, rulesIn)
  /\ Move(a, to)
  /\ Apart

\* CreateUser: the name is unique
UserAdded(t, name, enabled) ==
  IF \E v \in UserIds : t.users[v] # Absent /\ t.users[v].name = name THEN t
  ELSE [t EXCEPT !.users = [@ EXCEPT ![NextId(t.users, UserIds)] = User(name, enabled)]]

UserCreate(a) ==
  LET b == errand[a].body IN
  /\ Performs(a, "userCreate")
  /\ b.name = Root => \A p \in Processes : "user" \notin drafted[p]
  /\ Execute(a, UserAdded(accounts, b.name, b.enabled), "done")

\* (slip) A name may come twice.
RoleAddedTwice(t, name) ==
  [t EXCEPT !.roles = [@ EXCEPT ![NextId(t.roles, RoleIds)] = name]]

\* CreateRole: so is this one
RoleAdded(t, name) ==
  IF \E i \in RoleIds : t.roles[i] = name THEN t
  ELSE [t EXCEPT !.roles = [@ EXCEPT ![NextId(t.roles, RoleIds)] = name]]

RoleCreate(a) ==
  LET n == errand[a].body.name IN
  /\ Performs(a, "roleCreate")
  /\ n = "admin" => \A p \in Processes : "role" \notin drafted[p]
  /\ Execute(a, RoleAdded(accounts, n), "done")

\* INSERT IGNORE; nothing asks whether there are such a user and such a role.
Linked(t, b) == [t EXCEPT !.links = @ \cup {<<b.user, b.role>>}]
Unlinked(t, b) == [t EXCEPT !.links = @ \ {<<b.user, b.role>>}]

RoleAssign(a) ==
  Performs(a, "roleAssign") /\ Execute(a, Linked(accounts, errand[a].body), "done")

RoleUnassign(a) ==
  Performs(a, "roleUnassign") /\ Execute(a, Unlinked(accounts, errand[a].body), "done")

\* NewEnforcer tries the policy before it is stored.
Accepts(p) == ValidPolicy(p)

\* SavePolicy: an UPDATE that finds no row is no error.
Kept(t, k, p) == IF t.rules[k] = Absent THEN t ELSE [t EXCEPT !.rules = [@ EXCEPT ![k] = p]]
Added(t, p) == [t EXCEPT !.rules = [@ EXCEPT ![NextId(t.rules, RuleIds)] = p]]

Erased(t, k) == [t EXCEPT !.rules = [@ EXCEPT ![k] = Absent]]

\* PolicyCreate enables what it stores.
PolicyCreated(a) ==
  LET offer == errand[a].body.policy IN
  /\ Performs(a, "policyCreate")
  /\ IF Accepts(offer) THEN Execute(a, Added(accounts, [offer EXCEPT !.enabled = TRUE]), "load")
     ELSE Execute(a, accounts, "done")

PolicyUpdated(a) ==
  LET b == errand[a].body IN
  /\ Performs(a, "policyUpdate")
  /\ IF Accepts(b.policy) THEN Execute(a, Kept(accounts, b.rule, b.policy), "load")
     ELSE Execute(a, accounts, "done")

PolicyDeleted(a) ==
  /\ Performs(a, "policyDelete")
  /\ Execute(a, Erased(accounts, errand[a].body.rule), "load")

\* reloadPolicies, in the process of the request only: what LoadPolicies read ...
ReadRules(a) ==
  /\ Stage(a, "load")
  /\ Becomes(a, [errand[a] EXCEPT !.at = "publish", !.rules = StoredRules(accounts)])
  /\ UNCHANGED <<accounts, untouched>> /\ NoHistory /\ Apart

\* ... is what ReplacePolicies publishes, if all of it is valid.
PublishRules(a) ==
  LET e == errand[a] IN
  /\ Stage(a, "publish")
  /\ rulesIn' = IF \A p \in e.rules : ValidPolicy(p)
                THEN [rulesIn EXCEPT ![e.on] = e.rules] ELSE rulesIn
  /\ Becomes(a, [e EXCEPT !.at = "done", !.rules = {}])
  /\ Witnessed(accounts, rulesIn')
  /\ UNCHANGED <<accounts, process, drafted, token, errands, outages, untouched>>

Return(a) ==
  /\ errand[a].at \in {"done", "refused"}
  /\ Becomes(a, NoErrand)
  /\ heldRoles' = [heldRoles EXCEPT ![a] = {}] /\ rulesSeen' = [rulesSeen EXCEPT ![a] = {}]
  /\ UNCHANGED <<accounts, untouched>> /\ Apart

\* A statement of a request fails.
ErrandFails(a) ==
  /\ errand[a].at \in {"identify", "act", "load"} /\ outages < MaxOutages
  /\ outages' = outages + 1
  /\ Becomes(a, NoErrand)
  /\ heldRoles' = [heldRoles EXCEPT ![a] = {}] /\ rulesSeen' = [rulesSeen EXCEPT ![a] = {}]
  /\ UNCHANGED <<accounts, process, drafted, rulesIn, token, errands, untouched>>

Perform(a) ==
  \/ ListRecords(a) \/ RunScript(a) \/ ChangeSchema(a) \/ UserCreate(a) \/ RoleCreate(a)
  \/ RoleAssign(a) \/ RoleUnassign(a) \/ PolicyCreated(a) \/ PolicyUpdated(a)
  \/ PolicyDeleted(a) \/ ReadRules(a) \/ PublishRules(a)

AuthorityNext ==
  \/ \E p \in Processes : Bootstrap(p)
  \/ \E u \in UserIds : Login(u)
  \/ \E a \in Askers : Request(a) \/ Identify(a) \/ Authorized(a) \/ Perform(a)
                       \/ Return(a) \/ ErrandFails(a)

AuthoritySpec == AuthorityInit /\ [][AuthorityNext]_authorityVars

-----------------------------------------------------------------------------
(***************************************************************************)
(* Properties.                                                             *)
(***************************************************************************)
\* The type of the state; no two users have one name, nor two roles.
AuthorityTypeOK ==
  /\ \A u, v \in UserIds :
       accounts.users[u] # Absent /\ accounts.users[v] # Absent /\ accounts.users[u].name = accounts.users[v].name
         => u = v
  /\ \A i, j \in RoleIds : accounts.roles[i] # Absent /\ accounts.roles[i] = accounts.roles[j] => i = j
  /\ accounts.links \subseteq UserIds \X RoleIds
  /\ process \in [Processes -> {"down", "user", "role", "link", "rule", "commit", "load", "up",
                                "refused"}]
  /\ \A p \in Processes : drafted[p] # {} => process[p] \in {"role", "link", "rule", "commit"}
  /\ \A a \in Askers :
       /\ errand[a].at \in {"idle", "identify", "authorize", "act", "load", "publish", "done", "refused"}
       /\ errand[a].at # "idle" => errand[a].kind \in Kinds /\ process[errand[a].on] = "up"

\* What the policies of a moment and the roles of a moment, both within the
\* time that the request took, say of it.
Grants(a, rules, roles) ==
  \E p \in rules : Applies(p, errand[a].user, roles, TargetOf(errand[a]))
Sees(a, rules, roles, w) ==
  \E p \in rules : /\ Applies(p, errand[a].user, roles, TargetOf(errand[a]))
                   /\ w \in Resolved(p.filter, errand[a].user, roles)

\* A list reaches the handler of lists, and a request for a script its script,
\* unless the script declares the name of a built-in action: then that
\* action's handler is called in its place, and the script never runs.
RunsWhatItNames ==
  \A a \in Askers : errand[a].at = "done" =>
    /\ errand[a].kind = "records" => errand[a].ran = "crud"
    /\ errand[a].kind = "script" =>
         (errand[a].ran = "script"
            <=> TargetOf(errand[a])[2] \notin CrudActions \cup FileActions)

\* However requests that change roles and policies interleave with one another,
\* with restarts and between processes: a request that does something could
\* have done it at some policies that its process had and some roles that its
\* user had meanwhile, and one that is refused could have been refused.  Each
\* record that it is answered is in sight at such policies and roles, and each
\* one that it is not is out of sight at such.  What runs is what the request
\* names.
ActsAsGranted ==
  /\ RunsWhatItNames
  /\ \A a \in Askers :
    LET Some(Test(_, _)) == \E s \in rulesSeen[a], r \in heldRoles[a] : Test(s, r)
        Granted(s, r) == Grants(a, s, r) /\ (Reserved(errand[a]) => "admin" \in r)
        Denied(s, r) == ~Grants(a, s, r) \/ (Reserved(errand[a]) /\ "admin" \notin r) IN
    /\ errand[a].at \in {"load", "publish", "done"} => Some(Granted)
    /\ errand[a].at = "refused" =>
         \/ Some(Denied)
         \/ errand[a].user # Nobody /\ ~accounts.users[errand[a].user].enabled
    /\ errand[a].at = "done" /\ errand[a].kind = "records" =>
         \A w \in Orders :
           LET Shown(s, r) == Sees(a, s, r, w)
               Hidden(s, r) == ~Sees(a, s, r, w) IN
           IF w \in errand[a].rows THEN Some(Shown) ELSE Some(Hidden)

\* Whatever crashes and however many processes start on an empty database: as
\* long as no request has changed anything there is nothing, or exactly one
\* administrator, whole; a process that is up then lets that user do
\* everything.  And no request leaves a policy behind with which the next start
\* would fail.
StartsWhole ==
  /\ \A p \in Processes : process[p] # "refused"
  /\ untouched =>
       \/ accounts \in FirstAccounts /\ (accounts.users = NoAccounts.users => \A p \in Processes : process[p] # "up")
       \/ \E t \in FirstAccounts :
            /\ t.users = NoAccounts.users
            /\ accounts = Founded(t, {"user", "role", "link", "rule"})
            /\ \A q \in Processes, k \in Kinds \ {"script"} : process[q] = "up" =>
                 LET root == CHOOSE u \in UserIds : accounts.users[u] # Absent IN
                 Evaluate(rulesIn[q], root, RolesOf(accounts, root),
                          TargetOf([NoErrand EXCEPT !.kind = k])).allowed
=============================================================================
