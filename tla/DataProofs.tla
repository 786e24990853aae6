----------------------------- MODULE DataProofs -----------------------------
(***************************************************************************)
(* What is proved of Access, of Relations and of FieldValues, which share  *)
(* no state.                                                               *)
(*                                                                         *)
(* Access, for any number of requests, administrators, policies, records   *)
(* and columns.  Four invariants, each resting on those before it: what is *)
(* published (PublishInv), the types and who holds the lock on a row       *)
(* (Safe), that what a request goes by and what it got at is within the    *)
(* policies in force while it ran (WithinInv), and what an update that     *)
(* changed nothing knows of its row (UpdateInv).                           *)
(*                                                                         *)
(* Relations, for any number of records, links and requests, any page and  *)
(* whatever is done on deletion: RelationsInvar.                           *)
(*                                                                         *)
(* FieldValues, for any number of records and requests: ValuesInvar.       *)
(***************************************************************************)
EXTENDS Access, Relations, FieldValues, FiniteSetTheorems, WellFoundedInduction, TLAPS

PublicationTypes ==
  [at : {"idle", "load", "publish"}, alone : BOOLEAN, loaded : [PolicyIds -> Rules]]

\* The tables of policies, and who is on its way from one to another.
PolicyTypes ==
  /\ policyRows \in [PolicyIds -> Rules]
  /\ snapshot \in [PolicyIds -> Rules]
  /\ publisher \in [PolicyAdmins -> PublicationTypes]
  /\ published \in BOOLEAN

\* Where no change is pending the snapshot is the table, and nobody is under
\* way; whoever overlapped with nobody publishes the table as it is.
PublishInv ==
  /\ published => /\ snapshot = policyRows
                  /\ \A a \in PolicyAdmins : publisher[a].at = "idle"
  /\ \A a \in PolicyAdmins : publisher[a].alone =>
       /\ \A b \in PolicyAdmins : b # a => publisher[b].at = "idle"
       /\ publisher[a].at = "publish" => publisher[a].loaded = policyRows

AskType == [action : Actions, id : RowIds \cup {0}, filter : FilterType,
            fields : SUBSET Columns, names : SUBSET Columns, owner : Contents \cup {NoOne}]
GrantType == [filter : FilterType, fields : SUBSET Columns, strict : BOOLEAN]

\* The types of what a request keeps.
RequestTypes ==
  /\ hookAdds \subseteq Columns
  /\ table \subseteq Rows /\ lastRow \in Nat
  /\ stage \in [Clients -> Stages] /\ ask \in [Clients -> AskType]
  /\ grant \in [Clients -> GrantType]
  /\ readView \in [Clients -> (SUBSET Rows) \cup {NoOne}]
  /\ locked \in [Clients -> SUBSET RowIds] /\ changed \in [Clients -> SUBSET RowIds]
  /\ draft \in [Clients -> SUBSET Rows] /\ touched \in [Clients -> SUBSET Rows]
  /\ shown \in [Clients -> SUBSET Columns] /\ written \in [Clients -> SUBSET Columns]
  /\ inForce \in [Clients -> SUBSET SUBSET Rules]

\* What a request on one record asks for, and what it may get at: that record.
AskedFor(c) ==
  stage[c] # "idle" =>
    /\ ask[c].action \in {"get", "update", "destroy"} =>
         ask[c].id \in RowIds /\ ask[c].filter = OnKey(ask[c].id)
    /\ Owner \in ask[c].names => ask[c].owner \in Contents
    /\ ask[c].action = "create" => Owner \in ask[c].names
    /\ ask[c].action \in {"update", "destroy"} /\ stage[c] \notin {"authorize", "commit"} =>
         grant[c].filter.keep \subseteq OnKey(ask[c].id).keep
AskedInv == \A c \in Clients : AskedFor(c)

UniqueIds(rows) == \A r, s \in rows : r.id = s.id => r = s

\* Who holds the lock on a row, and what it wrote there.
LockInv ==
  /\ UniqueIds(table)
  /\ \A c \in Clients :
       /\ (locked[c] # {}) <=> stage[c] \in {"reread", "reselect", "commit"}
       /\ \A b \in Clients \ {c} : locked[b] \cap locked[c] = {}
       /\ changed[c] \subseteq locked[c]
       /\ IdsOf(draft[c]) \subseteq changed[c]
       /\ UniqueIds(draft[c])

\* The policies that decide now are among those in force while a request ran.
NowFor(c) ==
  stage[c] # "idle" => PoliciesIn(snapshot) \in inForce[c] /\ IsFiniteSet(inForce[c])

\* What the policies in force grant.
RowsInForce(c) == UNION {p.filter.keep : p \in InForceFor(c)}
ReadInForce(c) == UNION {p.read : p \in InForceFor(c)}
WriteInForce(c) == UNION {p.write : p \in InForceFor(c)}

\* The decision that a request goes by, and what it got at.
GrantFor(c) ==
  /\ stage[c] \notin {"idle", "authorize"} =>
       /\ grant[c].filter.keep \subseteq RowsInForce(c)
       /\ grant[c].fields \subseteq ReadInForce(c)
       /\ ~grant[c].strict => Columns \subseteq ReadInForce(c)
  /\ stage[c] = "write" => ask[c].names \subseteq WriteInForce(c)
ReachFor(c) ==
  /\ touched[c] \subseteq RowsInForce(c)
  /\ shown[c] \subseteq ReadInForce(c)
  /\ written[c] \subseteq WriteInForce(c)
  /\ stage[c] = "idle" => touched[c] = {} /\ shown[c] = {} /\ written[c] = {}
WithinFor(c) == NowFor(c) /\ GrantFor(c) /\ ReachFor(c)
WithinInv == \A c \in Clients : WithinFor(c)

Same(c) == inForce[c] = {PoliciesIn(snapshot)}
UpdateFor(c) ==
  ask[c].action = "update" =>
    /\ stage[c] \notin {"collect", "delete"}
    /\ stage[c] \in {"old", "hook", "authorizeValues", "write"} /\ Same(c) =>
         grant[c].filter.keep = RowsOf("update").keep \cap OnKey(ask[c].id).keep
    /\ stage[c] \in {"reread", "reselect", "commit"} => locked[c] = {ask[c].id}
    /\ stage[c] \in {"reread", "reselect"} /\ Same(c) /\ ask[c].id \notin changed[c] =>
         \A r \in table : r.id = ask[c].id => r \notin RowsOf("update").keep
    /\ stage[c] = "reselect" /\ Same(c) => grant[c].filter.keep \subseteq RowsOf("update").keep
    /\ stage[c] = "commit" =>
         \/ ask[c].id \in changed[c]
         \/ ~Same(c)
         \/ readView[c] # NoOne /\ \E r \in readView[c] \ table : r.id = ask[c].id
UpdateInv == \A c \in Clients : UpdateFor(c)

-----------------------------------------------------------------------------
(***************************************************************************)
(* What is published.                                                      *)
(***************************************************************************)
LEMMA PublicationType ==
  \A at \in {"idle", "load", "publish"}, loaded \in [PolicyIds -> Rules], alone \in BOOLEAN :
    /\ Publication(at, loaded, alone) \in PublicationTypes
    /\ Publication(at, loaded, alone).at = at
    /\ Publication(at, loaded, alone).loaded = loaded
    /\ Publication(at, loaded, alone).alone = alone
BY DEF Publication, PublicationTypes

LEMMA UnpublishedType ==
  /\ Unpublished \in PublicationTypes
  /\ Unpublished.at = "idle" /\ Unpublished.alone = FALSE
<1>1. Nothing \in [PolicyIds -> Rules]
  BY DEF Nothing, Rules
<1> QED
  BY <1>1 DEF Unpublished, Publication, PublicationTypes

LEMMA RowsChange ==
  ASSUME PolicyTypes, NEW a \in PolicyAdmins,
         PolicyCreate(a) \/ PolicyUpdate(a) \/ PolicyDelete(a)
  PROVE  policyRows' \in [PolicyIds -> Rules] /\ Record(a)
<1>1. CASE PolicyCreate(a)
  <2>1. PICK i \in PolicyIds, p \in Policies :
          policyRows' = [policyRows EXCEPT ![i] = [p EXCEPT !.enabled = TRUE]]
    BY <1>1 DEF PolicyCreate
  <2>2. [p EXCEPT !.enabled = TRUE] \in Rules
    BY DEF Rules
  <2> QED
    BY <1>1, <2>1, <2>2 DEF PolicyCreate, PolicyTypes
<1>2. CASE PolicyUpdate(a)
  <2>1. PICK i \in PolicyIds, p \in Policies :
          policyRows' = IF policyRows[i] = NoPolicy THEN policyRows
                        ELSE [policyRows EXCEPT ![i] = p]
    BY <1>2 DEF PolicyUpdate
  <2>2. p \in Rules
    BY DEF Rules
  <2> QED
    BY <1>2, <2>1, <2>2 DEF PolicyUpdate, PolicyTypes
<1>3. CASE PolicyDelete(a)
  <2>1. PICK i \in PolicyIds : policyRows' = [policyRows EXCEPT ![i] = NoPolicy]
    BY <1>3 DEF PolicyDelete
  <2>2. NoPolicy \in Rules
    BY DEF Rules
  <2> QED
    BY <1>3, <2>1, <2>2 DEF PolicyDelete, PolicyTypes
<1> QED
  BY <1>1, <1>2, <1>3

LEMMA RecordKeeps ==
  ASSUME PolicyTypes, PublishInv, NEW a \in PolicyAdmins, Record(a),
         policyRows' \in [PolicyIds -> Rules]
  PROVE  PolicyTypes' /\ PublishInv'
<1> DEFINE alone == {b \in PolicyAdmins \ {a} : publisher[b].at # "idle"} = {}
           Next(b) == IF b = a THEN Publication("load", Nothing, alone)
                      ELSE Publication(publisher[b].at, publisher[b].loaded, FALSE)
<1>1. /\ publisher' = [b \in PolicyAdmins |-> Next(b)]
      /\ published' = FALSE /\ snapshot' = snapshot
      /\ publisher[a].at = "idle"
  BY DEF Record, Publishing
<1>2. Nothing \in [PolicyIds -> Rules]
  BY DEF Nothing, Rules
<1>3. \A b \in PolicyAdmins :
        /\ Next(b) \in PublicationTypes
        /\ b # a => Next(b).alone = FALSE /\ Next(b).at = publisher[b].at
        /\ b = a => Next(b).alone = alone /\ Next(b).at = "load"
  <2> TAKE b \in PolicyAdmins
  <2>1. /\ publisher[b].at \in {"idle", "load", "publish"}
        /\ publisher[b].loaded \in [PolicyIds -> Rules]
    BY DEF PolicyTypes, PublicationTypes
  <2>2. alone \in BOOLEAN /\ FALSE \in BOOLEAN /\ "load" \in {"idle", "load", "publish"}
    OBVIOUS
  <2> HIDE DEF alone
  <2>3. CASE b = a
    BY <1>2, <2>2, <2>3, PublicationType
  <2>4. CASE b # a
    BY <2>1, <2>4 DEF Publication, PublicationTypes
  <2> QED
    BY <2>3, <2>4
<1>4. PolicyTypes'
  BY <1>1, <1>3 DEF PolicyTypes
<1>5. \A b \in PolicyAdmins : publisher'[b] = Next(b)
  BY <1>1
<1> HIDE DEF Next
<1> QED
  BY <1>1, <1>3, <1>4, <1>5 DEF PublishInv

LEMMA PolicyStateFrame ==
  ASSUME PolicyTypes, PublishInv, UNCHANGED policyState
  PROVE  PolicyTypes' /\ PublishInv'
BY DEF PolicyTypes, PublishInv, policyState

LEMMA AdministerKeeps ==
  ASSUME PolicyTypes, PublishInv, NEW a \in PolicyAdmins, Administer(a)
  PROVE  PolicyTypes' /\ PublishInv'
<1>1. CASE PolicyCreate(a) \/ PolicyUpdate(a) \/ PolicyDelete(a)
  BY <1>1, RowsChange, RecordKeeps
<1>2. CASE LoadPolicies(a)
  <2> DEFINE p == Publication("publish", policyRows, publisher[a].alone)
  <2>1. /\ publisher' = [publisher EXCEPT ![a] = p]
        /\ publisher[a].at = "load"
        /\ UNCHANGED <<policyRows, snapshot, published>>
    BY <1>2 DEF LoadPolicies, Publishing
  <2>2. /\ p \in PublicationTypes
        /\ p.at = "publish" /\ p.loaded = policyRows /\ p.alone = publisher[a].alone
    BY PublicationType DEF PolicyTypes, PublicationTypes
  <2> HIDE DEF p
  <2>3. PolicyTypes'
    BY <2>1, <2>2 DEF PolicyTypes
  <2>4. \A b \in PolicyAdmins : publisher'[b] = IF b = a THEN p ELSE publisher[b]
    BY <2>1 DEF PolicyTypes
  <2> QED
    BY <2>1, <2>2, <2>3, <2>4 DEF PublishInv
<1>3. CASE LoadFails(a) \/ Publish(a)
  <2>1. /\ publisher' = [publisher EXCEPT ![a] = Unpublished]
        /\ UNCHANGED policyRows /\ publisher[a].at # "idle"
        /\ \/ UNCHANGED <<snapshot, published>>
           \/ /\ publisher[a].at = "publish" /\ snapshot' = publisher[a].loaded
              /\ published' = (published \/ publisher[a].alone)
    BY <1>3 DEF LoadFails, Publish, Publishing, ReplacePolicies
  <2>2. publisher' \in [PolicyAdmins -> PublicationTypes]
    BY <2>1, UnpublishedType DEF PolicyTypes
  <2>3. published' \in BOOLEAN
    BY <2>1 DEF PolicyTypes, PublicationTypes
  <2>4. snapshot' \in [PolicyIds -> Rules]
    BY <2>1 DEF PolicyTypes, PublicationTypes
  <2>5. PolicyTypes'
    BY <2>1, <2>2, <2>3, <2>4 DEF PolicyTypes
  <2>6. \A b \in PolicyAdmins : publisher'[b] = IF b = a THEN Unpublished ELSE publisher[b]
    BY <2>1 DEF PolicyTypes
  <2>7. published' => snapshot' = policyRows' /\ \A b \in PolicyAdmins : publisher'[b].at = "idle"
    <3>1. CASE ~publisher[a].alone
      <4>1. ~published
        BY <2>1 DEF PublishInv
      <4> QED
        BY <2>1, <3>1, <4>1
    <3>2. CASE publisher[a].alone /\ published' = published
      BY <2>1, <3>2 DEF PublishInv
    <3>3. CASE publisher[a].alone /\ snapshot' = publisher[a].loaded /\ publisher[a].at = "publish"
      <4>1. snapshot' = policyRows'
        BY <2>1, <3>3 DEF PublishInv
      <4>2. \A b \in PolicyAdmins : publisher'[b].at = "idle"
        BY <2>6, <3>3, UnpublishedType DEF PublishInv
      <4> QED
        BY <4>1, <4>2
    <3> QED
      BY <2>1, <3>1, <3>2, <3>3
  <2>8. \A b \in PolicyAdmins : publisher'[b].alone => publisher[b].alone /\ b # a
    BY <2>6, UnpublishedType
  <2> QED
    BY <2>1, <2>5, <2>6, <2>7, <2>8, UnpublishedType DEF PublishInv
<1> QED
  BY <1>1, <1>2, <1>3 DEF Administer

LEMMA PolicyStep ==
  ASSUME PolicyTypes, PublishInv, [AccessNext]_accessVars
  PROVE  PolicyTypes' /\ PublishInv'
<1>1. ASSUME NEW c \in Clients, Serve(c) PROVE UNCHANGED policyState
  BY <1>1 DEF Serve, Arrive, Authorize, Select, Count, Answer, Old, Hook, AuthorizeValues,
       Insert, UpdateRows, Reread, Reselect, Collect, DeleteRows, Commit, RequestFails,
       Authorization
<1>2. CASE Restart
  <2>1. /\ snapshot' = policyRows /\ policyRows' = policyRows /\ published' = TRUE
        /\ publisher' = [a \in PolicyAdmins |-> Unpublished]
    BY <1>2 DEF Restart
  <2>2. PolicyTypes'
    BY <2>1, UnpublishedType DEF PolicyTypes
  <2>3. \A b \in PolicyAdmins : publisher'[b] = Unpublished
    BY <2>1
  <2> QED
    BY <2>1, <2>2, <2>3, UnpublishedType DEF PublishInv
<1>3. CASE UNCHANGED accessVars
  BY <1>3, PolicyStateFrame DEF accessVars
<1> QED
  BY <1>1, <1>2, <1>3, AdministerKeeps, PolicyStateFrame DEF AccessNext

LEMMA PolicyStart == AccessInit => PolicyTypes /\ PublishInv
<1> SUFFICES ASSUME AccessInit PROVE PolicyTypes /\ PublishInv
  OBVIOUS
<1>1. [PolicyIds -> Policies \cup {NoPolicy}] \subseteq [PolicyIds -> Rules]
  BY DEF Rules
<1>2. \A a \in PolicyAdmins : publisher[a] = Unpublished
  BY DEF AccessInit
<1>3. PolicyTypes
  BY <1>1, UnpublishedType, AccessAssumption DEF AccessInit, PolicyTypes
<1> QED
  BY <1>2, <1>3, UnpublishedType DEF AccessInit, PublishInv

\* Once a change of policies has been answered with success and none overlapped
\* it, what Enforcer.Evaluate decides by is what acl_policies says.
THEOREM PoliciesDecide == AccessSpec => []PoliciesPublished
<1>1. PublishInv => PoliciesPublished
  BY DEF PublishInv, PoliciesPublished
<1> QED
  BY <1>1, PolicyStart, PolicyStep, PTL DEF AccessSpec

-----------------------------------------------------------------------------
(***************************************************************************)
(* The operators that decide.                                              *)
(***************************************************************************)
PolicyType == [enabled : BOOLEAN, actions : SUBSET Actions, filter : FilterType,
               read : SUBSET Columns, write : SUBSET Columns]

LEMMA RulesType == \A p \in Rules : p # NoPolicy => p \in PolicyType
<1> SUFFICES ASSUME NEW p \in Rules, p # NoPolicy PROVE p \in PolicyType
  OBVIOUS
<1>1. \A o \in Policies : o \in PolicyType
  BY AccessAssumption DEF PolicyType
<1>2. CASE p \in Policies
  BY <1>1, <1>2
<1>3. ASSUME NEW o \in Policies, p = [o EXCEPT !.enabled = TRUE] PROVE p \in PolicyType
  BY <1>1, <1>3 DEF PolicyType
<1> QED
  BY <1>2, <1>3 DEF Rules

\* The policies that decide on an action.
LEMMA MatchingType ==
  ASSUME PolicyTypes, NEW action
  PROVE  /\ Matching(action) \subseteq PoliciesIn(snapshot)
         /\ Matching(action) \subseteq PolicyType
         /\ \A p \in Matching(action) : p.enabled /\ action \in p.actions
         /\ PoliciesIn(snapshot) \subseteq Rules
<1>1. \A p \in PoliciesIn(snapshot) : p \in Rules /\ p # NoPolicy
  BY DEF PoliciesIn, PolicyTypes
<1> QED
  BY <1>1, RulesType DEF Matching

LEMMA FilterFacts ==
  /\ NoFilter \in FilterType /\ NoFilter.keep = Rows
  /\ \A i \in RowIds \cup {0} :
       OnKey(i) \in FilterType /\ OnKey(i).keep = {r \in Rows : r.id = i}
  /\ \A f, g \in FilterType : And(f, g) \in FilterType /\ And(f, g).keep = f.keep \cap g.keep
BY AccessAssumption DEF NoFilter, FilterType, OnKey, And

LEMMA RowsOfType ==
  ASSUME PolicyTypes, NEW action
  PROVE  /\ RowsOf(action) \in FilterType
         /\ Matching(action) # {} =>
              RowsOf(action).keep \subseteq UNION {p.filter.keep : p \in Matching(action)}
<1> DEFINE m == Matching(action)
           names == UNION {p.filter.names : p \in m}
           keep == UNION {p.filter.keep : p \in m}
<1>1. m \subseteq PolicyType
  BY MatchingType
<1>2. \A p \in m : p.filter \in FilterType /\ p.filter.names \subseteq Columns /\ p.filter.keep \subseteq Rows
  BY <1>1 DEF PolicyType, FilterType
<1>3. names \subseteq Columns /\ keep \subseteq Rows
  BY <1>2
<1>4. CASE \E p \in m : p.filter = NoFilter
  <2>1. RowsOf(action) = NoFilter
    BY <1>4 DEF RowsOf
  <2>2. PICK p \in m : p.filter.keep = Rows
    BY <1>4, FilterFacts
  <2> QED
    BY <2>1, <2>2, FilterFacts
<1>5. CASE ~\E p \in m : p.filter = NoFilter
  <2> HIDE DEF names, keep
  <2>1. RowsOf(action) = [names |-> names, keep |-> keep]
    BY <1>5 DEF RowsOf, names, keep
  <2>2. RowsOf(action) \in FilterType /\ RowsOf(action).keep = keep
    BY <2>1, <1>3 DEF FilterType
  <2> QED
    BY <2>2 DEF keep
<1> QED
  BY <1>4, <1>5

LEMMA ReadableType ==
  ASSUME PolicyTypes, NEW action
  PROVE  Readable(action) \subseteq Columns
BY MatchingType DEF Readable, PolicyType

\* A decision narrows the caller's filter to the rows of the policies.
LEMMA GrantedRows ==
  ASSUME PolicyTypes, NEW action, NEW fields, NEW f \in FilterType
  PROVE  Granted(action, fields, f).filter.keep = RowsOf(action).keep \cap f.keep
<1>1. Granted(action, fields, f).filter = Effective(action, f)
  BY DEF Granted
<1>2. Effective(action, f).keep = RowsOf(action).keep \cap f.keep
  BY RowsOfType, FilterFacts DEF Effective
<1> QED
  BY <1>1, <1>2

\* What a decision grants is within the policies that decide.
LEMMA GrantedType ==
  ASSUME PolicyTypes, NEW action, NEW fields \in SUBSET Columns, NEW f \in FilterType,
         NEW names, Permits(action, fields, f, names)
  PROVE  /\ Granted(action, fields, f) \in GrantType
         /\ Granted(action, fields, f).filter.keep = RowsOf(action).keep \cap f.keep
         /\ Granted(action, fields, f).fields \subseteq Readable(action)
         /\ ~Granted(action, fields, f).strict => Readable(action) = Columns
         /\ RowsOf(action).keep \subseteq UNION {p.filter.keep : p \in Matching(action)}
         /\ names \subseteq Writable(action)
<1> DEFINE e == Effective(action, f)
           s == Selected(action, fields)
           r == Readable(action)
<1>1. e \in FilterType /\ e.keep = RowsOf(action).keep \cap f.keep
  BY RowsOfType, FilterFacts DEF Effective
<1>2. r \subseteq Columns
  BY ReadableType
<1>3. fields \subseteq r
  BY DEF Permits, MayRead
<1>4. s \subseteq r
  BY <1>2, <1>3, AccessAssumption DEF Selected
<1>5. Matching(action) # {} /\ names \subseteq Writable(action)
  BY DEF Permits
<1> HIDE DEF e, s, r
<1>6. Granted(action, fields, f) = [filter |-> e, fields |-> s, strict |-> r # Columns]
  BY DEF Granted, e, s, r
<1>7. /\ Granted(action, fields, f) \in GrantType
      /\ Granted(action, fields, f).filter = e /\ Granted(action, fields, f).fields = s
      /\ Granted(action, fields, f).strict = (r # Columns)
  BY <1>1, <1>2, <1>4, <1>6 DEF GrantType
<1>8. RowsOf(action).keep \subseteq UNION {p.filter.keep : p \in Matching(action)}
  BY <1>5, RowsOfType
<1> QED
  BY <1>1, <1>4, <1>5, <1>7, <1>8 DEF r

LEMMA InitialTypes ==
  /\ Unasked \in AskType /\ NoGrant \in GrantType
  /\ NoGrant.filter = NoFilter
<1>1. NoFilter \in FilterType
  BY FilterFacts
<1>2. "list" \in Actions
  BY DEF Actions
<1> HIDE DEF NoFilter
<1> QED
  BY <1>1, <1>2 DEF Unasked, NoGrant, AskType, GrantType

LEMMA RequestType ==
  ASSUME NEW a \in Actions, NEW i \in RowIds \cup {0}, NEW f \in FilterType,
         NEW s \in SUBSET Columns, NEW n \in SUBSET Columns, NEW o \in Contents \cup {NoOne},
         NEW q, q = Request(a, i, f, s, n, o)
  PROVE  /\ q \in AskType /\ q.action = a /\ q.id = i /\ q.filter = f
         /\ q.fields = s /\ q.names = n /\ q.owner = o
BY DEF Request, AskType

LEMMA AskedType ==
  ASSUME NEW q \in Asked
  PROVE  /\ q \in AskType
         /\ q.action \in {"get", "update", "destroy"} => q.id \in RowIds /\ q.filter = OnKey(q.id)
         /\ Owner \in q.names => q.owner \in Contents
         /\ q.action = "create" => Owner \in q.names
<1>1. IsRequest(q)
  BY AccessAssumption
<1>2. /\ q.action \in Actions /\ q.filter \in FilterType /\ q.fields \cup q.names \subseteq Columns
      /\ q.action \in {"get", "update", "destroy"} => q.id \in RowIds /\ q.filter = OnKey(q.id)
      /\ q.action \notin {"get", "update", "destroy"} => q.id = 0
  BY <1>1 DEF IsRequest
<1>3. IF Owner \in q.names THEN q.owner \in Contents ELSE q.owner = NoOne
  BY <1>1 DEF IsRequest
<1>4. q.action = "create" => Owner \in q.names
  BY <1>1 DEF IsRequest
<1>5. q = Request(q.action, q.id, q.filter, q.fields, q.names, q.owner)
  BY <1>1 DEF IsRequest
<1>6. /\ q.id \in RowIds \cup {0} /\ q.owner \in Contents \cup {NoOne}
      /\ q.fields \in SUBSET Columns /\ q.names \in SUBSET Columns
  BY <1>2, <1>3
<1>7. q \in AskType
  <2> DEFINE a == q.action i == q.id f == q.filter s == q.fields n == q.names o == q.owner
  <2>1. /\ a \in Actions /\ i \in RowIds \cup {0} /\ f \in FilterType
        /\ s \in SUBSET Columns /\ n \in SUBSET Columns /\ o \in Contents \cup {NoOne}
        /\ q = Request(a, i, f, s, n, o)
    BY <1>2, <1>5, <1>6
  <2> HIDE DEF a, i, f, s, n, o
  <2> QED
    BY <2>1 DEF Request, AskType
<1> QED
  BY <1>2, <1>3, <1>4, <1>7

-----------------------------------------------------------------------------
(***************************************************************************)
(* Types and locks.                                                        *)
(***************************************************************************)
Safe == PolicyTypes /\ RequestTypes /\ AskedInv /\ LockInv

LEMMA SafeStart == AccessInit => RequestTypes /\ AskedInv /\ LockInv
<1> SUFFICES ASSUME AccessInit PROVE RequestTypes /\ AskedInv /\ LockInv
  OBVIOUS
<1>1. RequestTypes
  BY InitialTypes, AccessAssumption DEF AccessInit, RequestTypes, Stages
<1>2. \A c \in Clients : stage[c] = "idle" /\ locked[c] = {} /\ changed[c] = {} /\ draft[c] = {}
  BY DEF AccessInit
<1>3. UniqueIds(table)
  BY AccessAssumption DEF AccessInit, UniqueIds
<1> QED
  BY <1>1, <1>2, <1>3 DEF AskedInv, AskedFor, LockInv, UniqueIds, IdsOf

\* The end of requests, whatever becomes of the table.
LEMMA EndFacts ==
  ASSUME NEW cs \in SUBSET Clients, EndAll(cs), NEW b \in Clients
  PROVE  /\ stage'[b] = IF b \in cs THEN "idle" ELSE stage[b]
         /\ ask'[b] = IF b \in cs THEN Unasked ELSE ask[b]
         /\ grant'[b] = IF b \in cs THEN NoGrant ELSE grant[b]
         /\ readView'[b] = IF b \in cs THEN NoOne ELSE readView[b]
         /\ locked'[b] = IF b \in cs THEN {} ELSE locked[b]
         /\ changed'[b] = IF b \in cs THEN {} ELSE changed[b]
         /\ draft'[b] = IF b \in cs THEN {} ELSE draft[b]
         /\ inForce'[b] = IF b \in cs THEN {} ELSE inForce[b]
         /\ touched'[b] = IF b \in cs THEN {} ELSE touched[b]
         /\ shown'[b] = IF b \in cs THEN {} ELSE shown[b]
         /\ written'[b] = IF b \in cs THEN {} ELSE written[b]
BY DEF EndAll

LEMMA EndTypes ==
  ASSUME RequestTypes, NEW cs \in SUBSET Clients, EndAll(cs), UNCHANGED <<hookAdds, lastRow>>,
         table' \subseteq Rows
  PROVE  RequestTypes'
<1>1. stage' \in [Clients -> Stages]
  BY DEF EndAll, RequestTypes, Stages
<1>2. ask' \in [Clients -> AskType] /\ grant' \in [Clients -> GrantType]
  BY InitialTypes DEF EndAll, RequestTypes
<1>3. readView' \in [Clients -> (SUBSET Rows) \cup {NoOne}]
  BY DEF EndAll, RequestTypes
<1>4. /\ locked' \in [Clients -> SUBSET RowIds] /\ changed' \in [Clients -> SUBSET RowIds]
      /\ draft' \in [Clients -> SUBSET Rows] /\ touched' \in [Clients -> SUBSET Rows]
  BY DEF EndAll, RequestTypes
<1>5. /\ shown' \in [Clients -> SUBSET Columns] /\ written' \in [Clients -> SUBSET Columns]
      /\ inForce' \in [Clients -> SUBSET SUBSET Rules]
  BY DEF EndAll, RequestTypes
<1> QED
  BY <1>1, <1>2, <1>3, <1>4, <1>5 DEF RequestTypes

LEMMA EndKeepsSafe ==
  ASSUME Safe, NEW cs \in SUBSET Clients, EndAll(cs), UNCHANGED <<hookAdds, lastRow>>,
         table' \subseteq Rows, UniqueIds(table')
  PROVE  RequestTypes' /\ AskedInv' /\ LockInv'
<1>1. RequestTypes'
  BY EndTypes DEF Safe
<1>2. AskedInv'
  <2> SUFFICES ASSUME NEW b \in Clients, stage'[b] # "idle"
               PROVE  /\ b \notin cs /\ stage'[b] = stage[b] /\ ask'[b] = ask[b]
                      /\ grant'[b] = grant[b]
    BY DEF Safe, AskedInv, AskedFor, OnKey
  <2> QED
    BY EndFacts
<1>3. LockInv'
  <2> USE DEF LockInv
  <2>1. \A b \in Clients : (locked'[b] # {}) <=> stage'[b] \in {"reread", "reselect", "commit"}
    BY EndFacts DEF Safe
  <2>2. \A c \in Clients : \A b \in Clients \ {c} : locked'[b] \cap locked'[c] = {}
    BY EndFacts DEF Safe
  <2>3. \A c \in Clients :
          changed'[c] \subseteq locked'[c] /\ IdsOf(draft'[c]) \subseteq changed'[c] /\ UniqueIds(draft'[c])
    BY EndFacts DEF Safe, IdsOf, UniqueIds
  <2> QED
    BY <2>1, <2>2, <2>3 DEF UniqueIds, IdsOf
<1> QED
  BY <1>1, <1>2, <1>3

LEMMA CommitTable ==
  ASSUME Safe, NEW c \in Clients,
         NEW t, t = {r \in table : r.id \notin changed[c]} \cup draft[c]
  PROVE  /\ t \subseteq Rows /\ UniqueIds(t)
         /\ \A r \in t : r.id \in locked[c] \/ r \in table
         /\ \A r \in table : r.id \in locked[c] \/ r \in t
<1>1. \A r \in draft[c] : r.id \in changed[c] /\ r \in Rows
  BY DEF Safe, LockInv, IdsOf, RequestTypes
<1>2. changed[c] \subseteq locked[c] /\ table \subseteq Rows
  BY DEF Safe, LockInv, RequestTypes
<1>3. UniqueIds(t)
  BY <1>1 DEF Safe, LockInv, UniqueIds
<1> QED
  BY <1>1, <1>2, <1>3

Locking == {"reread", "reselect", "commit"}

LEMMA AskedStep ==
  ASSUME Safe, NEW c \in Clients, AskedFor(c)',
         \A b \in Clients \ {c} : stage'[b] = stage[b] /\ ask'[b] = ask[b] /\ grant'[b] = grant[b]
  PROVE  AskedInv'
<1> SUFFICES ASSUME NEW b \in Clients, b # c PROVE AskedFor(b)'
  BY DEF AskedInv
<1>1. stage'[b] = stage[b] /\ ask'[b] = ask[b] /\ grant'[b] = grant[b]
  OBVIOUS
<1>2. AskedFor(b)
  BY DEF Safe, AskedInv
<1> QED
  BY <1>1, <1>2 DEF AskedFor, OnKey

LEMMA LockStep ==
  ASSUME Safe, UNCHANGED <<table, transactions>>, NEW c \in Clients,
         \A b \in Clients \ {c} : stage'[b] = stage[b],
         stage'[c] \in Locking <=> stage[c] \in Locking
  PROVE  LockInv'
BY DEF Safe, LockInv, Locking, transactions, UniqueIds, IdsOf

LEMMA GotoFacts ==
  ASSUME RequestTypes, NEW c \in Clients, NEW to \in Stages, Goto(c, to)
  PROVE  /\ stage' \in [Clients -> Stages] /\ stage'[c] = to
         /\ \A b \in Clients \ {c} : stage'[b] = stage[b]
BY DEF Goto, RequestTypes

\* A step that advances a request to a stage without touching the table or locks.
LEMMA AdvanceSafe ==
  ASSUME Safe, NEW c \in Clients, NEW to \in Stages \ {"idle"}, Goto(c, to),
         stage[c] \in Locking <=> to \in Locking,
         UNCHANGED <<table, transactions>>, RequestTypes',
         \A b \in Clients \ {c} : ask'[b] = ask[b] /\ grant'[b] = grant[b],
         AskedFor(c)'
  PROVE  AskedInv' /\ LockInv'
<1>1. stage'[c] = to /\ \A b \in Clients \ {c} : stage'[b] = stage[b]
  BY GotoFacts DEF Safe
<1>2. AskedInv'
  BY <1>1, AskedStep
<1>3. LockInv'
  BY <1>1, LockStep
<1> QED
  BY <1>2, <1>3

LEMMA EndSafe ==
  ASSUME Safe, NEW c \in Clients, End(c), UNCHANGED <<hookAdds, table, lastRow>>
  PROVE  RequestTypes' /\ AskedInv' /\ LockInv'
<1>1. {c} \in SUBSET Clients /\ EndAll({c})
  BY DEF End
<1>2. table' \subseteq Rows /\ UniqueIds(table')
  BY DEF Safe, RequestTypes, LockInv
<1> QED
  BY <1>1, <1>2, EndKeepsSafe

LEMMA AuthorizationSafe ==
  ASSUME Safe, NEW c \in Clients, NEW from \in Stages \ {"idle"}, NEW to \in Stages \ {"idle"},
         NEW fields \in SUBSET Columns, NEW f \in FilterType, NEW names, NEW keep \in BOOLEAN,
         Authorization(c, from, fields, f, names, keep, to), hookAdds' = hookAdds,
         from \in Locking <=> to \in Locking, from # "commit",
         from = "authorize" => keep,
         keep /\ ask[c].action \in {"update", "destroy"} => f.keep \subseteq OnKey(ask[c].id).keep
  PROVE  RequestTypes' /\ AskedInv' /\ LockInv'
<1>1. stage[c] = from /\ UNCHANGED <<table, lastRow>>
  BY DEF Authorization, At
<1>2. CASE End(c)
  BY <1>1, <1>2, EndSafe
<1>3. CASE ~End(c)
  <2>1. /\ Permits(ask[c].action, fields, f, names) /\ Goto(c, to)
        /\ grant' = IF keep THEN [grant EXCEPT ![c] = Granted(ask[c].action, fields, f)]
                    ELSE grant
        /\ UNCHANGED <<ask, readView, transactions, inForce, witness>>
    BY <1>3 DEF Authorization
  <2> DEFINE g == Granted(ask[c].action, fields, f)
  <2>2. g \in GrantType /\ g.filter.keep \subseteq f.keep
    <3> DEFINE a == ask[c].action
    <3>1. Permits(a, fields, f, names) /\ PolicyTypes
      BY <2>1 DEF Safe
    <3>2. g.filter.keep = RowsOf(a).keep \cap f.keep
      BY <3>1, GrantedRows
    <3>3. Granted(a, fields, f) \in GrantType
      <4> HIDE DEF a
      <4> QED
        BY <3>1, GrantedType
    <3> QED
      BY <3>2, <3>3
  <2> HIDE DEF g
  <2>3. /\ grant' \in [Clients -> GrantType]
        /\ \A b \in Clients \ {c} : grant'[b] = grant[b]
        /\ grant'[c] = IF keep THEN g ELSE grant[c]
    BY <2>1, <2>2 DEF Safe, RequestTypes, g
  <2>4. stage' \in [Clients -> Stages] /\ stage'[c] = to
    BY <2>1, GotoFacts DEF Safe
  <2>5. RequestTypes'
    BY <1>1, <2>1, <2>3, <2>4 DEF Safe, RequestTypes, transactions, witness
  <2>6. AskedFor(c)
    BY DEF Safe, AskedInv
  <2>7. AskedFor(c)'
    <3>1. /\ ask[c].action \in {"get", "update", "destroy"} =>
                ask[c].id \in RowIds /\ ask[c].filter = OnKey(ask[c].id)
          /\ Owner \in ask[c].names => ask[c].owner \in Contents
          /\ ask[c].action = "create" => Owner \in ask[c].names
          /\ ask[c].action \in {"update", "destroy"} /\ from # "authorize" =>
               grant[c].filter.keep \subseteq OnKey(ask[c].id).keep
      BY <1>1, <2>6 DEF AskedFor
    <3>2. ask[c].action \in {"update", "destroy"} => grant'[c].filter.keep \subseteq OnKey(ask[c].id).keep
      BY <2>2, <2>3, <3>1
    <3>3. ask'[c] = ask[c]
      BY <2>1
    <3> QED
      BY <3>1, <3>2, <3>3 DEF AskedFor, OnKey
  <2> QED
    BY <1>1, <2>1, <2>3, <2>5, <2>7, AdvanceSafe
<1> QED
  BY <1>2, <1>3

LEMMA StageFacts ==
  ASSUME Safe, NEW c \in Clients, stage[c] # "idle"
  PROVE  /\ ask[c] \in AskType /\ grant[c] \in GrantType /\ AskedFor(c)
         /\ grant[c].filter \in FilterType /\ grant[c].filter.keep \subseteq Rows
         /\ grant[c].fields \subseteq Columns
         /\ ask[c].filter \in FilterType /\ ask[c].fields \in SUBSET Columns
         /\ ask[c].names \in SUBSET Columns /\ ask[c].id \in RowIds \cup {0}
         /\ ask[c].action \in Actions /\ ask[c].owner \in Contents \cup {NoOne}
BY DEF Safe, AskedInv, RequestTypes, AskType, GrantType, FilterType

LEMMA AuthorizesSafe ==
  ASSUME Safe, NEW c \in Clients, hookAdds' = hookAdds,
         Authorize(c) \/ Count(c) \/ AuthorizeValues(c) \/ Reread(c)
  PROVE  RequestTypes' /\ AskedInv' /\ LockInv'
<1>1. stage[c] # "idle"
  BY DEF Authorize, Count, AuthorizeValues, Reread, Authorization, At
<1>2. CASE Authorize(c)
  <2> DEFINE to == AfterAuthorize(ask[c].action)
  <2>1. to \in Stages \ {"idle"} /\ to \notin Locking
    BY DEF AfterAuthorize, Stages, Locking
  <2> HIDE DEF to
  <2>2. stage[c] = "authorize"
    BY <1>2 DEF Authorize, Authorization, At
  <2>3. ask[c].action \in {"update", "destroy"} => ask[c].filter.keep \subseteq OnKey(ask[c].id).keep
    BY <1>1, StageFacts DEF AskedFor
  <2>4. Authorization(c, "authorize", ask[c].fields, ask[c].filter, ask[c].names, TRUE, to)
    BY <1>2 DEF Authorize, to
  <2>5. "authorize" \in Stages \ {"idle"} /\ "authorize" \notin Locking /\ TRUE \in BOOLEAN
    BY DEF Stages, Locking
  <2> QED
    BY <1>1, <2>1, <2>3, <2>4, <2>5, StageFacts, AuthorizationSafe
<1>3. CASE Count(c)
  <2>1. /\ "count" \in Stages \ {"idle"} /\ "answer" \in Stages \ {"idle"}
        /\ "count" \notin Locking /\ "answer" \notin Locking /\ {} \in SUBSET Columns
    BY DEF Stages, Locking
  <2> QED
    BY <1>1, <1>3, <2>1, StageFacts, AuthorizationSafe DEF Count
<1>4. CASE AuthorizeValues(c)
  <2>1. /\ "authorizeValues" \in Stages \ {"idle"} /\ "write" \in Stages \ {"idle"}
        /\ "authorizeValues" \notin Locking /\ "write" \notin Locking /\ {} \in SUBSET Columns
    BY DEF Stages, Locking
  <2> QED
    BY <1>1, <1>4, <2>1, FilterFacts, AuthorizationSafe DEF AuthorizeValues
<1>5. CASE Reread(c)
  <2>1. /\ "reread" \in Stages \ {"idle"} /\ "reselect" \in Stages \ {"idle"}
        /\ "reread" \in Locking /\ "reselect" \in Locking /\ {} \in SUBSET Columns
    BY DEF Stages, Locking
  <2>2. OnKey(ask[c].id) \in FilterType
    BY <1>1, StageFacts, FilterFacts
  <2> QED
    BY <1>1, <1>5, <2>1, <2>2, AuthorizationSafe DEF Reread
<1> QED
  BY <1>2, <1>3, <1>4, <1>5

LEMMA ArriveSafe ==
  ASSUME Safe, NEW c \in Clients, hookAdds' = hookAdds, Arrive(c)
  PROVE  RequestTypes' /\ AskedInv' /\ LockInv'
<1>1. PICK q \in Asked : ask' = [ask EXCEPT ![c] = q]
  BY DEF Arrive
<1>2. /\ stage[c] = "idle" /\ Goto(c, "authorize")
      /\ inForce' = [inForce EXCEPT ![c] = {PoliciesIn(snapshot)}]
      /\ UNCHANGED <<records, witness, grant, readView>>
  BY DEF Arrive, At, Goto
<1>3. /\ q \in AskType
      /\ q.action \in {"get", "update", "destroy"} => q.id \in RowIds /\ q.filter = OnKey(q.id)
      /\ Owner \in q.names => q.owner \in Contents
      /\ q.action = "create" => Owner \in q.names
  BY AskedType
<1>4. /\ ask' \in [Clients -> AskType] /\ ask'[c] = q
      /\ \A b \in Clients \ {c} : ask'[b] = ask[b]
  BY <1>1, <1>3 DEF Safe, RequestTypes
<1>5. inForce' \in [Clients -> SUBSET SUBSET Rules]
  BY <1>2, MatchingType DEF Safe, RequestTypes
<1>6. "authorize" \in Stages \ {"idle"} /\ "authorize" \notin Locking
  BY DEF Stages, Locking
<1>7. stage' \in [Clients -> Stages] /\ stage'[c] = "authorize"
  BY <1>2, <1>6, GotoFacts DEF Safe
<1>8. RequestTypes'
  BY <1>2, <1>4, <1>5, <1>7 DEF Safe, RequestTypes, records, transactions, witness
<1>9. AskedFor(c)'
  BY <1>3, <1>4, <1>7 DEF AskedFor, OnKey
<1>10. stage[c] \notin Locking
  BY <1>2 DEF Locking
<1> QED
  BY <1>2, <1>4, <1>6, <1>8, <1>9, <1>10, AdvanceSafe DEF records

LEMMA FoundTypes ==
  ASSUME Safe, NEW c \in Clients, stage[c] # "idle", NEW rows \in SUBSET Rows, Found(c, rows)
  PROVE  touched' \in [Clients -> SUBSET Rows] /\ shown' \in [Clients -> SUBSET Columns]
<1>1. Pruned(c, grant[c].fields \cup hookAdds) \subseteq Columns
  BY StageFacts DEF Pruned, Safe, RequestTypes
<1> QED
  BY <1>1 DEF Found, Safe, RequestTypes

LEMMA SelectSafe ==
  ASSUME Safe, NEW c \in Clients, hookAdds' = hookAdds, Select(c)
  PROVE  RequestTypes' /\ AskedInv' /\ LockInv'
<1> DEFINE rows == table \cap grant[c].filter.keep
<1>1. stage[c] = "select" /\ UNCHANGED <<table, lastRow>>
  BY DEF Select, At
<1>2. CASE End(c)
  BY <1>1, <1>2, EndSafe
<1>3. ASSUME NEW to \in {"count", "answer"}, Goto(c, to), NEW page \in SUBSET rows, Found(c, page),
             UNCHANGED <<ask, grant, readView, transactions, inForce, written>>
      PROVE  RequestTypes' /\ AskedInv' /\ LockInv'
  <2>1. page \in SUBSET Rows
    BY <1>1, StageFacts
  <2>2. touched' \in [Clients -> SUBSET Rows] /\ shown' \in [Clients -> SUBSET Columns]
    BY <1>1, <1>3, <2>1, FoundTypes
  <2>3. to \in Stages \ {"idle"} /\ to \notin Locking /\ stage[c] \notin Locking
    BY <1>1 DEF Stages, Locking
  <2>4. stage' \in [Clients -> Stages] /\ stage'[c] = to
    BY <1>3, <2>3, GotoFacts DEF Safe
  <2>5. RequestTypes'
    BY <1>1, <1>3, <2>2, <2>4 DEF Safe, RequestTypes, transactions
  <2>6. AskedFor(c)'
    BY <1>1, <1>3, <2>4, StageFacts DEF AskedFor, OnKey
  <2> QED
    BY <1>1, <1>3, <2>3, <2>5, <2>6, AdvanceSafe
<1>4. rows \in SUBSET rows
  OBVIOUS
<1> HIDE DEF rows
<1> QED
  BY <1>2, <1>3, <1>4 DEF Select, rows

LEMMA OldSafe ==
  ASSUME Safe, NEW c \in Clients, hookAdds' = hookAdds, Old(c)
  PROVE  RequestTypes' /\ AskedInv' /\ LockInv'
<1>1. /\ stage[c] = "old" /\ Goto(c, "hook")
      /\ UNCHANGED <<records, ask, grant, inForce, witness>>
      /\ readView' = [readView EXCEPT ![c] = table] \/ readView' = readView
  BY DEF Old, At
<1>2. "hook" \in Stages \ {"idle"} /\ "hook" \notin Locking /\ stage[c] \notin Locking
  BY <1>1 DEF Stages, Locking
<1>3. stage' \in [Clients -> Stages] /\ stage'[c] = "hook"
  BY <1>1, <1>2, GotoFacts DEF Safe
<1>4. RequestTypes'
  BY <1>1, <1>3 DEF Safe, RequestTypes, records, transactions, witness
<1>5. AskedFor(c)'
  BY <1>1, <1>3, StageFacts DEF AskedFor, OnKey
<1> QED
  BY <1>1, <1>2, <1>4, <1>5, AdvanceSafe DEF records

LEMMA HookFacts ==
  ASSUME Safe, NEW c \in Clients, Hook(c)
  PROVE  /\ stage[c] = "hook" /\ Goto(c, "authorizeValues")
         /\ UNCHANGED <<policyState, records, grant, readView, inForce, witness>>
         /\ ask' \in [Clients -> AskType]
         /\ \A b \in Clients \ {c} : ask'[b] = ask[b]
         /\ ask'[c].action = ask[c].action /\ ask'[c].id = ask[c].id
         /\ ask'[c].filter = ask[c].filter
         /\ Owner \in ask'[c].names => ask'[c].owner \in Contents
         /\ ask[c].names \subseteq ask'[c].names
<1> DEFINE names == ask[c].names \cup hookAdds \cup
                      (IF ask[c].action = "create" THEN {Key} \cup Stamps ELSE {})
<1>1. PICK o \in IF Owner \in hookAdds THEN Contents ELSE {ask[c].owner} :
        ask' = [ask EXCEPT ![c] =
                 Request(ask[c].action, ask[c].id, ask[c].filter, ask[c].fields, names, o)]
  BY DEF Hook
<1>2. /\ stage[c] = "hook" /\ Goto(c, "authorizeValues")
      /\ UNCHANGED <<policyState, records, grant, readView, inForce, witness>>
  BY DEF Hook, At
<1>3. ask[c].names \subseteq names /\ names \in SUBSET Columns
  BY <1>2, StageFacts, AccessAssumption DEF Safe, RequestTypes
<1>4. o \in Contents \cup {NoOne}
  BY <1>1, <1>2, StageFacts
<1> DEFINE q == Request(ask[c].action, ask[c].id, ask[c].filter, ask[c].fields, names, o)
<1>5. Owner \in names => o \in Contents
  <2> USE <1>1
  <2>1. CASE Owner \in hookAdds
    BY <2>1
  <2>2. CASE Owner \in ask[c].names /\ Owner \notin hookAdds
    BY <1>2, <2>2, StageFacts DEF AskedFor
  <2>3. CASE Owner \notin ask[c].names \cup hookAdds /\ Owner \in names
    <3>1. ask[c].action = "create"
      BY <2>3
    <3> QED
      BY <1>2, <2>3, <3>1, StageFacts DEF AskedFor
  <2> QED
    BY <2>1, <2>2, <2>3
<1> HIDE DEF names
<1>6. /\ q \in AskType /\ q.action = ask[c].action /\ q.id = ask[c].id
      /\ q.filter = ask[c].filter /\ q.names = names /\ q.owner = o
  BY <1>2, <1>3, <1>4, StageFacts, RequestType
<1> HIDE DEF q
<1>7. ask' = [ask EXCEPT ![c] = q]
  BY <1>1 DEF q
<1> QED
  BY <1>2, <1>3, <1>5, <1>6, <1>7 DEF Safe, RequestTypes

LEMMA HookSafe ==
  ASSUME Safe, NEW c \in Clients, hookAdds' = hookAdds, Hook(c)
  PROVE  RequestTypes' /\ AskedInv' /\ LockInv'
<1>1. stage[c] = "hook" /\ Goto(c, "authorizeValues")
  BY HookFacts
<1>2. /\ "authorizeValues" \in Stages \ {"idle"} /\ "authorizeValues" \notin Locking
      /\ stage[c] \notin Locking
  BY <1>1 DEF Stages, Locking
<1>3. stage' \in [Clients -> Stages] /\ stage'[c] = "authorizeValues"
  BY <1>1, <1>2, GotoFacts DEF Safe
<1>4. RequestTypes'
  BY <1>3, HookFacts DEF Safe, RequestTypes, records, transactions, witness
<1>5. AskedFor(c)'
  <2>1. AskedFor(c)
    BY DEF Safe, AskedInv
  <2>2. grant' = grant
    BY HookFacts
  <2>3. /\ ask'[c].action = ask[c].action /\ ask'[c].id = ask[c].id
        /\ ask'[c].filter = ask[c].filter /\ ask[c].names \subseteq ask'[c].names
        /\ Owner \in ask'[c].names => ask'[c].owner \in Contents
    BY HookFacts
  <2> QED
    BY <1>1, <1>3, <2>1, <2>2, <2>3 DEF AskedFor, OnKey
<1>6. /\ UNCHANGED <<table, transactions>>
      /\ \A b \in Clients \ {c} : ask'[b] = ask[b] /\ grant'[b] = grant[b]
  BY HookFacts DEF records
<1> QED
  BY <1>1, <1>2, <1>4, <1>5, <1>6, AdvanceSafe

LEMMA WritesSafe ==
  ASSUME Safe, NEW c \in Clients, NEW from, NEW to \in Locking,
         from \notin Locking, NEW ids \in SUBSET RowIds, ids # {},
         NEW changedIds \in SUBSET ids, NEW rows \in SUBSET Rows,
         IdsOf(rows) \subseteq changedIds, UniqueIds(rows),
         Writes(c, from, ids, changedIds, rows), Goto(c, to), table' = table
  PROVE  /\ LockInv'
         /\ locked' \in [Clients -> SUBSET RowIds] /\ changed' \in [Clients -> SUBSET RowIds]
         /\ draft' \in [Clients -> SUBSET Rows]
         /\ stage' \in [Clients -> Stages] /\ stage'[c] = to
<1>1. to \in Stages
  BY DEF Locking, Stages
<1>2. /\ stage' \in [Clients -> Stages] /\ stage'[c] = to
      /\ \A b \in Clients \ {c} : stage'[b] = stage[b]
  BY <1>1, GotoFacts DEF Safe
<1>3. /\ locked' \in [Clients -> SUBSET RowIds] /\ changed' \in [Clients -> SUBSET RowIds]
      /\ draft' \in [Clients -> SUBSET Rows]
  BY DEF Writes, Safe, RequestTypes
<1>4. /\ locked'[c] = ids /\ changed'[c] = changedIds /\ draft'[c] = rows
      /\ \A b \in Clients \ {c} :
           /\ locked'[b] = locked[b] /\ changed'[b] = changed[b] /\ draft'[b] = draft[b]
           /\ ids \cap locked[b] = {}
  BY DEF Writes, Safe, RequestTypes
<1>5. \A b \in Clients : (locked'[b] # {}) <=> stage'[b] \in Locking
  BY <1>2, <1>4 DEF Safe, LockInv, Locking
<1>6. \A d \in Clients : \A b \in Clients \ {d} : locked'[b] \cap locked'[d] = {}
  <2> SUFFICES ASSUME NEW d \in Clients, NEW b \in Clients \ {d} PROVE locked'[b] \cap locked'[d] = {}
    OBVIOUS
  <2>1. locked[b] \cap locked[d] = {}
    BY DEF Safe, LockInv
  <2>2. CASE b # c /\ d # c
    BY <1>4, <2>1, <2>2
  <2>3. CASE b = c
    BY <1>4, <2>3
  <2>4. CASE d = c
    BY <1>4, <2>4
  <2> QED
    BY <2>2, <2>3, <2>4
<1>7. \A b \in Clients : /\ changed'[b] \subseteq locked'[b] /\ IdsOf(draft'[b]) \subseteq changed'[b]
                         /\ UniqueIds(draft'[b])
  BY <1>4 DEF Safe, LockInv
<1>8. UniqueIds(table')
  BY DEF Safe, LockInv
<1>9. LockInv'
  BY <1>5, <1>6, <1>7, <1>8 DEF LockInv, Locking, IdsOf, UniqueIds
<1> QED
  BY <1>2, <1>3, <1>9

LEMMA StatementType ==
  ASSUME Safe, NEW c \in Clients, stage[c] # "idle"
  PROVE  /\ Statement(c) \in SUBSET RowIds /\ Statement(c) # {}
         /\ stage[c] \in {"write", "delete"} =>
              IdsOf(table \cap grant[c].filter.keep) \in SUBSET Statement(c)
         /\ table \cap grant[c].filter.keep \in SUBSET Rows
         /\ UniqueIds(table \cap grant[c].filter.keep)
<1> DEFINE rows == table \cap grant[c].filter.keep
<1>1. AskedFor(c) /\ rows \in SUBSET Rows
  BY StageFacts DEF Safe, AskedInv
<1>2. Statement(c) \in SUBSET RowIds /\ Statement(c) # {}
  BY <1>1, AccessAssumption DEF Statement, AskedFor
<1>3. ASSUME stage[c] \in {"write", "delete"} PROVE IdsOf(rows) \in SUBSET Statement(c)
  <2>1. CASE ask[c].action \in {"update", "destroy"}
    <3>1. \A r \in rows : r \in OnKey(ask[c].id).keep
      BY <1>1, <1>3, <2>1 DEF AskedFor
    <3>2. \A r \in rows : r.id = ask[c].id
      BY <3>1 DEF OnKey
    <3> QED
      BY <2>1, <3>2 DEF Statement, IdsOf
  <2>2. CASE ask[c].action \notin {"update", "destroy"}
    BY <1>1, <2>2 DEF Statement, IdsOf, Rows
  <2> QED
    BY <2>1, <2>2
<1>4. UniqueIds(rows)
  BY DEF Safe, LockInv, UniqueIds
<1> QED
  BY <1>1, <1>2, <1>3, <1>4

LEMMA InsertSafe ==
  ASSUME Safe, NEW c \in Clients, hookAdds' = hookAdds, Insert(c)
  PROVE  RequestTypes' /\ AskedInv' /\ LockInv'
<1> DEFINE row == [id |-> lastRow + 1, content |-> ask[c].owner]
           q == Request(ask[c].action, lastRow + 1, ask[c].filter, ask[c].fields,
                        ask[c].names, ask[c].owner)
<1>1. /\ ask[c].action = "create" /\ lastRow + 1 \in RowIds /\ lastRow' = lastRow + 1
      /\ Writes(c, "write", {row.id}, {row.id}, {row})
      /\ ask' = [ask EXCEPT ![c] = q] /\ written' = [written EXCEPT ![c] = ask[c].names]
      /\ Goto(c, "reread")
      /\ UNCHANGED <<table, grant, readView, inForce, touched, shown>>
  BY DEF Insert
<1>2. stage[c] = "write"
  BY <1>1 DEF Writes, At
<1>3. /\ Owner \in ask[c].names /\ ask[c].owner \in Contents
      /\ ask[c].names \in SUBSET Columns
  BY <1>1, <1>2, StageFacts DEF AskedFor
<1>4. row \in Rows /\ row.id = lastRow + 1
  BY <1>1, <1>3 DEF Rows
<1>5. /\ q \in AskType /\ q.action = "create" /\ q.names = ask[c].names /\ q.owner = ask[c].owner
  BY <1>1, <1>2, StageFacts, RequestType
<1> HIDE DEF row, q
<1>6. IdsOf({row}) \subseteq {row.id} /\ UniqueIds({row}) /\ {row} \in SUBSET Rows
      /\ {row.id} \in SUBSET RowIds
  BY <1>1, <1>4 DEF IdsOf, UniqueIds
<1>7. "reread" \in Locking /\ "write" \notin Locking
  BY DEF Locking
<1>8. /\ LockInv'
      /\ locked' \in [Clients -> SUBSET RowIds] /\ changed' \in [Clients -> SUBSET RowIds]
      /\ draft' \in [Clients -> SUBSET Rows]
      /\ stage' \in [Clients -> Stages] /\ stage'[c] = "reread"
  BY <1>1, <1>6, <1>7, WritesSafe
<1>9. RequestTypes'
  BY <1>1, <1>3, <1>5, <1>8, AccessAssumption DEF Safe, RequestTypes
<1>10. ask'[c] = q /\ \A b \in Clients \ {c} : ask'[b] = ask[b]
  BY <1>1, <1>5 DEF Safe, RequestTypes
<1>11. AskedFor(c)'
  BY <1>3, <1>5, <1>8, <1>10 DEF AskedFor
<1>12. \A b \in Clients \ {c} : stage'[b] = stage[b]
  BY <1>1, GotoFacts DEF Safe, Stages
<1>13. AskedInv'
  BY <1>1, <1>10, <1>11, <1>12, AskedStep
<1> QED
  BY <1>8, <1>9, <1>13

\* A statement that has its rows from the table, and what it leaves in them.
LEMMA StatementSafe ==
  ASSUME Safe, NEW c \in Clients, NEW from \in {"write", "delete"}, NEW to \in {"reread", "commit"},
         NEW after \in SUBSET Rows,
         NEW ids, ids = IdsOf(table \cap grant[c].filter.keep),
         IdsOf(after) \subseteq ids, UniqueIds(after),
         Writes(c, from, Statement(c), ids, after), Goto(c, to),
         touched' \in [Clients -> SUBSET Rows], written' \in [Clients -> SUBSET Columns],
         UNCHANGED <<hookAdds, table, lastRow, ask, grant, readView, inForce, shown>>
  PROVE  RequestTypes' /\ AskedInv' /\ LockInv'
<1>1. stage[c] = from /\ from # "idle" /\ from \notin Locking /\ to \in Locking /\ to \in Stages
  BY DEF Writes, At, Locking, Stages
<1>2. ids \in SUBSET Statement(c) /\ Statement(c) \in SUBSET RowIds /\ Statement(c) # {}
  BY <1>1, StatementType
<1>3. /\ LockInv'
      /\ locked' \in [Clients -> SUBSET RowIds] /\ changed' \in [Clients -> SUBSET RowIds]
      /\ draft' \in [Clients -> SUBSET Rows]
      /\ stage' \in [Clients -> Stages] /\ stage'[c] = to
  BY <1>1, <1>2, WritesSafe
<1>4. RequestTypes'
  BY <1>3 DEF Safe, RequestTypes
<1>5. AskedFor(c)'
  BY <1>1, <1>3, StageFacts DEF AskedFor, OnKey
<1>6. \A b \in Clients \ {c} : stage'[b] = stage[b]
  BY <1>1, GotoFacts DEF Safe
<1>7. AskedInv'
  BY <1>5, <1>6, AskedStep
<1> QED
  BY <1>3, <1>4, <1>7

\* What UPDATE leaves in the rows it finds has their ids.
LEMMA AfterRows ==
  ASSUME NEW rows \in SUBSET Rows, UniqueIds(rows), NEW o \in Contents,
         NEW after, after = {[id |-> r.id, content |-> o] : r \in rows}
  PROVE  after \in SUBSET Rows /\ IdsOf(after) \subseteq IdsOf(rows) /\ UniqueIds(after)
<1>1. \A r \in rows : /\ [id |-> r.id, content |-> o] \in Rows
                      /\ [id |-> r.id, content |-> o].id = r.id
                      /\ [id |-> r.id, content |-> o].content = o
  BY DEF Rows
<1>2. \A s \in after : s \in Rows /\ s.content = o /\ \E r \in rows : s.id = r.id
  BY <1>1
<1>3. \A s, t \in after : s.id = t.id => s = t
  BY DEF Rows
<1> QED
  BY <1>2, <1>3 DEF IdsOf, UniqueIds

LEMMA UpdateRowsSafe ==
  ASSUME Safe, NEW c \in Clients, hookAdds' = hookAdds, UpdateRows(c)
  PROVE  RequestTypes' /\ AskedInv' /\ LockInv'
<1> DEFINE rows == table \cap grant[c].filter.keep
           after == IF Owner \in ask[c].names
                    THEN {[id |-> r.id, content |-> ask[c].owner] : r \in rows} ELSE rows
           to == IF ask[c].action = "update" THEN "reread" ELSE "commit"
<1>1. /\ Writes(c, "write", Statement(c), IdsOf(rows), after) /\ Goto(c, to)
      /\ touched' = [touched EXCEPT ![c] = @ \cup rows]
      /\ written' = [written EXCEPT ![c] = ask[c].names]
      /\ UNCHANGED <<hookAdds, table, lastRow, ask, grant, readView, inForce, shown>>
  BY DEF UpdateRows
<1>2. stage[c] = "write"
  BY <1>1 DEF Writes, At
<1>3. rows \in SUBSET Rows /\ UniqueIds(rows)
  BY <1>2, StatementType
<1>4. /\ ask[c].names \in SUBSET Columns
      /\ Owner \in ask[c].names => ask[c].owner \in Contents
  BY <1>2, StageFacts DEF AskedFor
<1> HIDE DEF rows
<1>5. after \in SUBSET Rows /\ IdsOf(after) \subseteq IdsOf(rows) /\ UniqueIds(after)
  <2>1. CASE Owner \in ask[c].names
    BY <1>3, <1>4, <2>1, AfterRows
  <2>2. CASE Owner \notin ask[c].names
    BY <1>3, <2>2
  <2> QED
    BY <2>1, <2>2
<1>6. touched' \in [Clients -> SUBSET Rows] /\ written' \in [Clients -> SUBSET Columns]
  BY <1>1, <1>3, <1>4 DEF Safe, RequestTypes
<1>7. to \in {"reread", "commit"} /\ "write" \in {"write", "delete"}
  OBVIOUS
<1> DEFINE ids == IdsOf(rows)
<1>8. ids = IdsOf(table \cap grant[c].filter.keep)
  BY DEF rows
<1> HIDE DEF after, to, ids
<1>9. Writes(c, "write", Statement(c), ids, after) /\ IdsOf(after) \subseteq ids
  BY <1>1, <1>5 DEF ids
<1> QED
  BY <1>1, <1>5, <1>6, <1>7, <1>8, <1>9, StatementSafe

LEMMA DeleteRowsSafe ==
  ASSUME Safe, NEW c \in Clients, hookAdds' = hookAdds, DeleteRows(c)
  PROVE  RequestTypes' /\ AskedInv' /\ LockInv'
<1> DEFINE rows == table \cap grant[c].filter.keep
           ids == IdsOf(rows)
<1>1. /\ Writes(c, "delete", Statement(c), ids, {}) /\ Goto(c, "commit")
      /\ touched' = [touched EXCEPT ![c] = rows]
      /\ UNCHANGED <<hookAdds, table, lastRow, ask, grant, readView, inForce, shown, written>>
  BY DEF DeleteRows
<1>2. stage[c] = "delete"
  BY <1>1 DEF Writes, At
<1>3. rows \in SUBSET Rows
  BY <1>2, StatementType
<1>4. touched' \in [Clients -> SUBSET Rows] /\ written' \in [Clients -> SUBSET Columns]
  BY <1>1, <1>3 DEF Safe, RequestTypes
<1>5. {} \in SUBSET Rows /\ IdsOf({}) \subseteq ids /\ UniqueIds({})
  BY DEF IdsOf, UniqueIds
<1>6. ids = IdsOf(table \cap grant[c].filter.keep)
  OBVIOUS
<1> HIDE DEF rows, ids
<1> QED
  BY <1>1, <1>4, <1>5, <1>6, StatementSafe

LEMMA ReselectSafe ==
  ASSUME Safe, NEW c \in Clients, hookAdds' = hookAdds, Reselect(c)
  PROVE  RequestTypes' /\ AskedInv' /\ LockInv'
<1> DEFINE rows == SeenBy(c) \cap grant[c].filter.keep
<1>1. stage[c] = "reselect" /\ UNCHANGED <<table, lastRow>>
  BY DEF Reselect, At
<1>2. CASE End(c)
  BY <1>1, <1>2, EndSafe
<1>3. CASE ~End(c)
  <2>1. /\ Found(c, rows) /\ Goto(c, "commit")
        /\ UNCHANGED <<ask, grant, readView, transactions, inForce, written>>
    BY <1>3 DEF Reselect
  <2>2. rows \in SUBSET Rows
    BY <1>1, StageFacts
  <2>3. touched' \in [Clients -> SUBSET Rows] /\ shown' \in [Clients -> SUBSET Columns]
    BY <1>1, <2>1, <2>2, FoundTypes
  <2>4. "commit" \in Stages \ {"idle"} /\ "commit" \in Locking /\ stage[c] \in Locking
    BY <1>1 DEF Stages, Locking
  <2>5. stage' \in [Clients -> Stages] /\ stage'[c] = "commit"
    BY <2>1, <2>4, GotoFacts DEF Safe
  <2>6. RequestTypes'
    BY <1>1, <2>1, <2>3, <2>5 DEF Safe, RequestTypes, transactions
  <2>7. AskedFor(c)'
    BY <1>1, <2>1, <2>5, StageFacts DEF AskedFor, OnKey
  <2> QED
    BY <1>1, <2>1, <2>4, <2>6, <2>7, AdvanceSafe
<1> QED
  BY <1>2, <1>3

LEMMA CollectSafe ==
  ASSUME Safe, NEW c \in Clients, hookAdds' = hookAdds, Collect(c)
  PROVE  RequestTypes' /\ AskedInv' /\ LockInv'
<1>1. /\ "collect" \in Stages \ {"idle"} /\ "delete" \in Stages \ {"idle"}
      /\ "collect" \notin Locking /\ "delete" \notin Locking
      /\ {Key} \in SUBSET Columns
  BY AccessAssumption DEF Stages, Locking
<1>2. stage[c] = "collect"
  BY DEF Collect, Authorization, At
<1>3. CASE Authorization(c, "collect", {Key}, grant[c].filter, {}, FALSE, "delete")
  BY <1>1, <1>2, <1>3, StageFacts, AuthorizationSafe
<1>4. CASE /\ Goto(c, "delete")
           /\ UNCHANGED <<policyState, records, ask, grant, readView, accessBounds, inForce,
                          witness>>
  <2>1. stage' \in [Clients -> Stages] /\ stage'[c] = "delete"
    BY <1>1, <1>4, GotoFacts DEF Safe
  <2>2. RequestTypes'
    BY <1>4, <2>1 DEF Safe, RequestTypes, records, transactions, witness
  <2>3. AskedFor(c)'
    BY <1>2, <1>4, <2>1, StageFacts DEF AskedFor, OnKey
  <2> QED
    BY <1>1, <1>2, <1>4, <2>2, <2>3, AdvanceSafe DEF records
<1> QED
  BY <1>3, <1>4 DEF Collect

LEMMA EndsSafe ==
  ASSUME Safe, NEW c \in Clients, hookAdds' = hookAdds,
         Answer(c) \/ Commit(c) \/ RequestFails(c)
  PROVE  RequestTypes' /\ AskedInv' /\ LockInv'
<1>1. CASE Answer(c) \/ RequestFails(c)
  <2>1. End(c) /\ UNCHANGED <<hookAdds, table, lastRow>>
    BY <1>1 DEF Answer, RequestFails
  <2> QED
    BY <2>1, EndSafe
<1>2. CASE Commit(c)
  <2>1. /\ End(c) /\ UNCHANGED <<hookAdds, lastRow>>
        /\ table' = {r \in table : r.id \notin changed[c]} \cup draft[c]
    BY <1>2 DEF Commit
  <2>2. table' \subseteq Rows /\ UniqueIds(table')
    BY <2>1, CommitTable DEF UniqueIds
  <2>3. {c} \in SUBSET Clients /\ EndAll({c})
    BY <2>1 DEF End
  <2> QED
    BY <2>1, <2>2, <2>3, EndKeepsSafe
<1> QED
  BY <1>1, <1>2

LEMMA ServeSafe ==
  ASSUME Safe, NEW c \in Clients, hookAdds' = hookAdds, Serve(c)
  PROVE  RequestTypes' /\ AskedInv' /\ LockInv'
BY ArriveSafe, AuthorizesSafe, SelectSafe, OldSafe, HookSafe, InsertSafe, UpdateRowsSafe,
   ReselectSafe, CollectSafe, DeleteRowsSafe, EndsSafe DEF Serve

\* A change of policies leaves the requests alone; a publication is noted.
LEMMA AdministerFrame ==
  ASSUME NEW a \in PolicyAdmins, Administer(a)
  PROVE  /\ UNCHANGED <<records, request, witness>>
         /\ \/ UNCHANGED <<snapshot, inForce>>
            \/ inForce' = [c \in Clients |->
                 IF stage[c] = "idle" THEN inForce[c]
                 ELSE inForce[c] \cup {PoliciesIn(snapshot')}]
<1>1. CASE Record(a) \/ LoadPolicies(a) \/ LoadFails(a)
  BY <1>1 DEF Record, LoadPolicies, LoadFails
<1>2. CASE Publish(a)
  BY <1>2 DEF Publish
<1> QED
  BY <1>1, <1>2 DEF Administer, PolicyCreate, PolicyUpdate, PolicyDelete

LEMMA AdministerSafe ==
  ASSUME Safe, PolicyTypes', NEW a \in PolicyAdmins, hookAdds' = hookAdds, Administer(a)
  PROVE  RequestTypes' /\ AskedInv' /\ LockInv'
<1>1. UNCHANGED <<records, request, witness>>
  BY AdministerFrame
<1>2. PoliciesIn(snapshot') \in SUBSET Rules
  BY DEF PoliciesIn, PolicyTypes
<1>3. inForce' \in [Clients -> SUBSET SUBSET Rules]
  BY <1>2, AdministerFrame DEF Safe, RequestTypes
<1>4. RequestTypes'
  BY <1>1, <1>3 DEF Safe, RequestTypes, records, request, witness, transactions
<1>5. AskedInv'
  BY <1>1 DEF Safe, AskedInv, AskedFor, OnKey, request
<1>6. LockInv'
  BY <1>1 DEF Safe, LockInv, records, request, transactions, UniqueIds, IdsOf
<1> QED
  BY <1>4, <1>5, <1>6

LEMMA SafeStep ==
  ASSUME Safe, PublishInv, [AccessNext]_accessVars
  PROVE  Safe'
<1>1. PolicyTypes'
  BY PolicyStep DEF Safe
<1>2. ASSUME NEW c \in Clients, Serve(c), hookAdds' = hookAdds PROVE Safe'
  BY <1>1, <1>2, ServeSafe DEF Safe
<1>3. ASSUME NEW a \in PolicyAdmins, Administer(a), hookAdds' = hookAdds PROVE Safe'
  BY <1>1, <1>3, AdministerSafe DEF Safe
<1>4. CASE Restart /\ hookAdds' = hookAdds
  <2>1. Clients \in SUBSET Clients /\ EndAll(Clients) /\ UNCHANGED <<hookAdds, table, lastRow>>
    BY <1>4 DEF Restart
  <2>2. table' \subseteq Rows /\ UniqueIds(table')
    BY <2>1 DEF Safe, RequestTypes, LockInv
  <2> QED
    BY <1>1, <2>1, <2>2, EndKeepsSafe DEF Safe
<1>5. CASE UNCHANGED accessVars
  <2>1. UNCHANGED <<hookAdds, records, request, inForce, witness>>
    BY <1>5 DEF accessVars
  <2>2. RequestTypes'
    BY <2>1 DEF Safe, RequestTypes, records, request, witness, transactions
  <2>3. AskedInv'
    BY <2>1 DEF Safe, AskedInv, AskedFor, OnKey, request
  <2>4. LockInv'
    BY <2>1 DEF Safe, LockInv, records, request, transactions, UniqueIds, IdsOf
  <2> QED
    BY <1>1, <2>2, <2>3, <2>4 DEF Safe
<1> QED
  BY <1>2, <1>3, <1>4, <1>5 DEF AccessNext

\* The state has its type; a transaction holds the locks on its rows from its
\* statement to its end, no two hold one on the same row, and it has written
\* nothing it has not locked.
THEOREM LocksAndTypes == AccessSpec => []AccessTypeOK
<1>1. Safe => AccessTypeOK
  <2> SUFFICES ASSUME Safe PROVE AccessTypeOK
    OBVIOUS
  <2>1. \A c \in Clients :
          /\ grant[c].filter \in FilterType /\ grant[c].fields \subseteq Columns
          /\ readView[c] = NoOne \/ readView[c] \subseteq Rows
          /\ ask[c].action \in Actions /\ ask[c].names \subseteq Columns
          /\ draft[c] \subseteq Rows
    BY DEF Safe, RequestTypes, GrantType, AskType
  <2>2. \A c \in Clients :
          /\ (locked[c] # {}) <=> stage[c] \in {"reread", "reselect", "commit"}
          /\ \A b \in Clients \ {c} : locked[b] \cap locked[c] = {}
          /\ IdsOf(draft[c]) \subseteq changed[c] /\ changed[c] \subseteq locked[c]
    BY DEF Safe, LockInv
  <2>3. /\ table \subseteq Rows /\ lastRow \in Nat /\ stage \in [Clients -> Stages]
        /\ \A r, s \in table : r.id = s.id => r = s
    BY DEF Safe, LockInv, UniqueIds, RequestTypes
  <2>4. /\ policyRows \in [PolicyIds -> Rules] /\ snapshot \in [PolicyIds -> Rules]
        /\ published \in BOOLEAN
        /\ publisher \in [PolicyAdmins ->
             [at : {"idle", "load", "publish"}, alone : BOOLEAN,
              loaded : [PolicyIds -> Rules]]]
    BY DEF Safe, PolicyTypes, PublicationTypes
  <2> QED
    BY <2>1, <2>2, <2>3, <2>4 DEF AccessTypeOK
<1>2. AccessInit => Safe /\ PublishInv
  BY SafeStart, PolicyStart DEF Safe
<1>3. Safe /\ PublishInv /\ [AccessNext]_accessVars => Safe' /\ PublishInv'
  BY SafeStep, PolicyStep DEF Safe
<1> QED
  BY <1>1, <1>2, <1>3, PTL DEF AccessSpec

-----------------------------------------------------------------------------
(***************************************************************************)
(* What a request gets at.                                                 *)
(***************************************************************************)
Untouched(b) ==
  /\ stage'[b] = stage[b] /\ ask'[b] = ask[b] /\ grant'[b] = grant[b]
  /\ readView'[b] = readView[b] /\ locked'[b] = locked[b] /\ changed'[b] = changed[b]
  /\ draft'[b] = draft[b] /\ inForce'[b] = inForce[b] /\ touched'[b] = touched[b]
  /\ shown'[b] = shown[b] /\ written'[b] = written[b]

LEMMA EndOthers ==
  ASSUME NEW c \in Clients, NEW b \in Clients \ {c}, End(c)
  PROVE  Untouched(b)
<1>1. {c} \in SUBSET Clients /\ EndAll({c}) /\ b \in Clients /\ b \notin {c}
  BY DEF End
<1> QED
  BY <1>1, EndFacts DEF Untouched

LEMMA AuthorizationOthers ==
  ASSUME Safe, NEW c \in Clients, NEW b \in Clients \ {c}, NEW from, NEW fields, NEW f,
         NEW names, NEW keep \in BOOLEAN, NEW to, Authorization(c, from, fields, f, names, keep, to)
  PROVE  Untouched(b)
<1>1. CASE End(c)
  BY <1>1, EndOthers
<1>2. CASE ~End(c)
  <2>1. /\ Goto(c, to)
        /\ \/ grant' = [grant EXCEPT ![c] = Granted(ask[c].action, fields, f)]
           \/ grant' = grant
        /\ UNCHANGED <<ask, readView, transactions, inForce, witness>>
    BY <1>2 DEF Authorization
  <2>2. grant'[b] = grant[b] /\ stage'[b] = stage[b]
    BY <2>1 DEF Safe, RequestTypes, Goto
  <2> QED
    BY <2>1, <2>2 DEF Untouched, transactions, witness
<1> QED
  BY <1>1, <1>2

LEMMA OthersFrame ==
  ASSUME Safe, NEW c \in Clients, NEW b \in Clients \ {c}, Serve(c)
  PROVE  Untouched(b)
<1> USE DEF Safe, RequestTypes, Goto, records, transactions, witness
<1>1. CASE Arrive(c)
  BY <1>1 DEF Arrive, Untouched
<1>2. CASE Authorize(c)
  BY <1>2, AuthorizationOthers DEF Authorize
<1>3. CASE Count(c)
  BY <1>3, AuthorizationOthers DEF Count
<1>4. CASE AuthorizeValues(c)
  BY <1>4, AuthorizationOthers DEF AuthorizeValues
<1>5. CASE Reread(c)
  BY <1>5, AuthorizationOthers DEF Reread
<1>6. CASE Answer(c) \/ Commit(c) \/ RequestFails(c)
  BY <1>6, EndOthers DEF Answer, Commit, RequestFails
<1>7. CASE Select(c)
  <2>1. CASE End(c)
    BY <2>1, EndOthers
  <2>2. CASE ~End(c)
    BY <1>7, <2>2 DEF Select, Found, Untouched
  <2> QED
    BY <2>1, <2>2
<1>8. CASE Old(c)
  BY <1>8 DEF Old, Untouched
<1>9. CASE Hook(c)
  BY <1>9, HookFacts DEF Untouched
<1>10. CASE Insert(c)
  BY <1>10 DEF Insert, Writes, Untouched
<1>11. CASE UpdateRows(c)
  BY <1>11 DEF UpdateRows, Writes, Untouched
<1>12. CASE Reselect(c)
  <2>1. CASE End(c)
    BY <2>1, EndOthers
  <2>2. CASE ~End(c)
    BY <1>12, <2>2 DEF Reselect, Found, Untouched
  <2> QED
    BY <2>1, <2>2
<1>13. CASE Collect(c)
  <2>1. CASE Authorization(c, "collect", {Key}, grant[c].filter, {}, FALSE, "delete")
    BY <2>1, AuthorizationOthers
  <2>2. CASE /\ Goto(c, "delete")
             /\ UNCHANGED <<policyState, records, ask, grant, readView, accessBounds, inForce,
                            witness>>
    BY <2>2 DEF Untouched
  <2> QED
    BY <1>13, <2>1, <2>2 DEF Collect
<1>14. CASE DeleteRows(c)
  BY <1>14 DEF DeleteRows, Writes, Untouched
<1> QED
  BY <1>1, <1>2, <1>3, <1>4, <1>5, <1>6, <1>7, <1>8, <1>9, <1>10, <1>11, <1>12, <1>13, <1>14
     DEF Serve

LEMMA ServeKeepsPolicies ==
  ASSUME NEW c \in Clients, Serve(c)
  PROVE  UNCHANGED policyState
BY DEF Serve, Arrive, Authorize, Select, Count, Answer, Old, Hook, AuthorizeValues,
   Insert, UpdateRows, Reread, Reselect, Collect, DeleteRows, Commit, RequestFails,
   Authorization

LEMMA Widens ==
  ASSUME NEW b, inForce[b] \subseteq inForce'[b], ask'[b].action = ask[b].action
  PROVE  /\ RowsInForce(b) \subseteq RowsInForce(b)' /\ ReadInForce(b) \subseteq ReadInForce(b)'
         /\ WriteInForce(b) \subseteq WriteInForce(b)'
<1>1. InForceFor(b) \subseteq InForceFor(b)'
  BY DEF InForceFor
<1> QED
  BY <1>1 DEF RowsInForce, ReadInForce, WriteInForce

LEMMA WithinFrame ==
  ASSUME NEW b \in Clients, WithinFor(b), Untouched(b), UNCHANGED snapshot
  PROVE  WithinFor(b)'
<1>1. /\ RowsInForce(b) \subseteq RowsInForce(b)' /\ ReadInForce(b) \subseteq ReadInForce(b)'
      /\ WriteInForce(b) \subseteq WriteInForce(b)'
  BY Widens DEF Untouched
<1>2. NowFor(b)'
  BY DEF NowFor, WithinFor, Untouched, PoliciesIn
<1>3. GrantFor(b)'
  BY <1>1 DEF GrantFor, WithinFor, Untouched
<1>4. ReachFor(b)'
  BY <1>1 DEF ReachFor, WithinFor, Untouched
<1> QED
  BY <1>2, <1>3, <1>4 DEF WithinFor

LEMMA EndWithin ==
  ASSUME NEW cs \in SUBSET Clients, NEW c \in cs, EndAll(cs)
  PROVE  WithinFor(c)'
<1>1. stage'[c] = "idle" /\ touched'[c] = {} /\ shown'[c] = {} /\ written'[c] = {}
  BY EndFacts
<1> QED
  BY <1>1 DEF WithinFor, NowFor, GrantFor, ReachFor

\* The policies that decide now are in force.
LEMMA DecidesNow ==
  ASSUME NEW c \in Clients, NowFor(c), stage[c] # "idle", PolicyTypes
  PROVE  /\ UNION {p.filter.keep : p \in Matching(ask[c].action)} \subseteq RowsInForce(c)
         /\ Readable(ask[c].action) \subseteq ReadInForce(c)
         /\ Writable(ask[c].action) \subseteq WriteInForce(c)
<1>1. Matching(ask[c].action) \subseteq InForceFor(c)
  BY DEF Matching, InForceFor, NowFor
<1> QED
  BY <1>1 DEF Readable, Writable, RowsInForce, ReadInForce, WriteInForce

LEMMA AuthorizationWithin ==
  ASSUME Safe, NEW c \in Clients, WithinFor(c), NEW from, NEW to \in Stages \ {"idle", "authorize"},
         NEW fields \in SUBSET Columns, NEW f \in FilterType, NEW names, NEW keep \in BOOLEAN,
         Authorization(c, from, fields, f, names, keep, to), UNCHANGED snapshot,
         from # "idle", from = "authorize" => keep, to = "write" => names = ask[c].names
  PROVE  WithinFor(c)'
<1>1. CASE End(c)
  <2>1. {c} \in SUBSET Clients /\ c \in {c} /\ EndAll({c})
    BY <1>1 DEF End
  <2> QED
    BY <2>1, EndWithin
<1>2. CASE ~End(c)
  <2> DEFINE a == ask[c].action
             g == Granted(a, fields, f)
  <2>1. /\ stage[c] = from /\ Permits(a, fields, f, names) /\ Goto(c, to)
        /\ grant' = IF keep THEN [grant EXCEPT ![c] = g] ELSE grant
        /\ UNCHANGED <<ask, readView, transactions, inForce, witness>>
    BY <1>2 DEF Authorization, At
  <2>2. stage'[c] = to
    BY <2>1, GotoFacts DEF Safe
  <2>3. /\ UNION {p.filter.keep : p \in Matching(a)} \subseteq RowsInForce(c)
        /\ Readable(a) \subseteq ReadInForce(c) /\ Writable(a) \subseteq WriteInForce(c)
    BY <2>1, DecidesNow DEF WithinFor, Safe
  <2> HIDE DEF a
  <2>4. /\ g.filter.keep = RowsOf(a).keep \cap f.keep
        /\ g.fields \subseteq Readable(a)
        /\ ~g.strict => Readable(a) = Columns
        /\ RowsOf(a).keep \subseteq UNION {p.filter.keep : p \in Matching(a)}
        /\ names \subseteq Writable(a)
    BY <2>1, GrantedType DEF Safe
  <2> HIDE DEF g
  <2>5. grant'[c] = IF keep THEN g ELSE grant[c]
    BY <2>1 DEF Safe, RequestTypes
  <2>6. /\ RowsInForce(c) \subseteq RowsInForce(c)' /\ ReadInForce(c) \subseteq ReadInForce(c)'
        /\ WriteInForce(c) \subseteq WriteInForce(c)'
    BY <2>1, Widens
  <2>7. NowFor(c)'
    BY <2>1 DEF NowFor, WithinFor, PoliciesIn
  <2>8. CASE keep
    <3>1. GrantFor(c)'
      BY <2>1, <2>2, <2>3, <2>4, <2>5, <2>6, <2>8 DEF GrantFor
    <3> QED
      BY <2>1, <2>2, <2>6, <2>7, <3>1 DEF ReachFor, WithinFor, witness
  <2>9. CASE ~keep
    <3>1. GrantFor(c)'
      BY <2>1, <2>2, <2>3, <2>4, <2>5, <2>6, <2>9 DEF GrantFor, WithinFor
    <3> QED
      BY <2>1, <2>2, <2>6, <2>7, <3>1 DEF ReachFor, WithinFor, witness
  <2> QED
    BY <2>8, <2>9
<1> QED
  BY <1>1, <1>2

\* A step that goes by the decision there is.
LEMMA GoesByGrant ==
  ASSUME Safe, NEW c \in Clients, WithinFor(c), UNCHANGED snapshot,
         stage[c] \notin {"idle", "authorize"}, stage'[c] \notin {"idle", "authorize", "write"},
         inForce'[c] = inForce[c], ask'[c].action = ask[c].action, grant'[c] = grant[c],
         touched'[c] \subseteq touched[c] \cup grant[c].filter.keep,
         \/ shown'[c] = shown[c]
         \/ shown'[c] = shown[c] \cup Pruned(c, grant[c].fields \cup hookAdds),
         \/ written'[c] = written[c]
         \/ stage[c] = "write" /\ written'[c] = ask[c].names
  PROVE  WithinFor(c)'
<1>1. /\ RowsInForce(c) \subseteq RowsInForce(c)' /\ ReadInForce(c) \subseteq ReadInForce(c)'
      /\ WriteInForce(c) \subseteq WriteInForce(c)'
  BY Widens
<1>2. NowFor(c)'
  BY DEF NowFor, WithinFor, PoliciesIn
<1>3. GrantFor(c)'
  BY <1>1 DEF GrantFor, WithinFor
<1>4. Pruned(c, grant[c].fields \cup hookAdds) \subseteq ReadInForce(c)
  <2>1. grant[c].fields \cup hookAdds \subseteq Columns
    BY StageFacts DEF Safe, RequestTypes
  <2> QED
    BY <2>1 DEF Pruned, WithinFor, GrantFor
<1>5. touched'[c] \subseteq RowsInForce(c)'
  BY <1>1 DEF WithinFor, GrantFor, ReachFor
<1>6. shown'[c] \subseteq ReadInForce(c)'
  BY <1>1, <1>4 DEF WithinFor, ReachFor
<1>7. written'[c] \subseteq WriteInForce(c)'
  BY <1>1 DEF WithinFor, GrantFor, ReachFor
<1> QED
  BY <1>2, <1>3, <1>5, <1>6, <1>7 DEF WithinFor, ReachFor

LEMMA ServeWithin ==
  ASSUME Safe, NEW c \in Clients, WithinFor(c), Serve(c)
  PROVE  WithinFor(c)'
<1> DEFINE rows == table \cap grant[c].filter.keep
<1>0. UNCHANGED snapshot
  BY ServeKeepsPolicies DEF policyState
<1>1. CASE Arrive(c)
  <2>1. /\ stage[c] = "idle" /\ Goto(c, "authorize") /\ "authorize" \in Stages
        /\ inForce' = [inForce EXCEPT ![c] = {PoliciesIn(snapshot)}]
        /\ UNCHANGED witness
    BY <1>1 DEF Arrive, At, Goto, Stages
  <2>2. stage'[c] = "authorize" /\ inForce'[c] = {PoliciesIn(snapshot)}
    BY <2>1, GotoFacts DEF Safe, RequestTypes
  <2>3. IsFiniteSet(inForce'[c])
    BY <2>2, FS_Singleton
  <2>4. NowFor(c)'
    BY <1>0, <2>2, <2>3 DEF NowFor, PoliciesIn
  <2> QED
    BY <2>1, <2>2, <2>4 DEF WithinFor, GrantFor, ReachFor, witness
<1>2. CASE Authorize(c)
  <2> DEFINE to == AfterAuthorize(ask[c].action)
  <2>1. to \in Stages \ {"idle", "authorize"} /\ to # "write"
    BY DEF AfterAuthorize, Stages
  <2> HIDE DEF to
  <2>2. Authorization(c, "authorize", ask[c].fields, ask[c].filter, ask[c].names, TRUE, to)
    BY <1>2 DEF Authorize, to
  <2>3. stage[c] # "idle" /\ TRUE \in BOOLEAN
    BY <2>2 DEF Authorization, At
  <2> QED
    BY <1>0, <2>1, <2>2, <2>3, StageFacts, AuthorizationWithin
<1>3. CASE Count(c)
  <2>1. Authorization(c, "count", {}, grant[c].filter, {}, FALSE, "answer")
    BY <1>3 DEF Count
  <2>2. "answer" \in Stages \ {"idle", "authorize"} /\ {} \in SUBSET Columns /\ stage[c] # "idle"
    BY <2>1 DEF Stages, Authorization, At
  <2>3. grant[c].filter \in FilterType /\ FALSE \in BOOLEAN
    BY <2>2, StageFacts
  <2>4. /\ "count" # "idle" /\ "count" # "authorize" /\ "answer" # "write"
    OBVIOUS
  <2> QED
    BY <1>0, <2>1, <2>2, <2>3, <2>4, AuthorizationWithin, Zenon
<1>4. CASE AuthorizeValues(c)
  <2>1. Authorization(c, "authorizeValues", {}, NoFilter, ask[c].names, FALSE, "write")
    BY <1>4 DEF AuthorizeValues
  <2>2. "write" \in Stages \ {"idle", "authorize"} /\ {} \in SUBSET Columns
    BY DEF Stages
  <2>3. NoFilter \in FilterType /\ FALSE \in BOOLEAN
    BY FilterFacts
  <2>4. /\ "authorizeValues" # "idle" /\ "authorizeValues" # "authorize"
    OBVIOUS
  <2> QED
    BY <1>0, <2>1, <2>2, <2>3, <2>4, AuthorizationWithin, Zenon
<1>5. CASE Reread(c)
  <2>1. Authorization(c, "reread", {}, OnKey(ask[c].id), {}, TRUE, "reselect")
    BY <1>5 DEF Reread
  <2>2. "reselect" \in Stages \ {"idle", "authorize"} /\ {} \in SUBSET Columns /\ stage[c] # "idle"
    BY <2>1 DEF Stages, Authorization, At
  <2>3. OnKey(ask[c].id) \in FilterType
    BY <2>2, StageFacts, FilterFacts
  <2> QED
    BY <1>0, <2>1, <2>2, <2>3, AuthorizationWithin
<1>6. ASSUME End(c) PROVE WithinFor(c)'
  <2>1. {c} \in SUBSET Clients /\ c \in {c} /\ EndAll({c})
    BY <1>6 DEF End
  <2> QED
    BY <2>1, EndWithin
<1>7. CASE Answer(c) \/ Commit(c) \/ RequestFails(c)
  BY <1>6, <1>7 DEF Answer, Commit, RequestFails
<1>8. CASE Select(c) /\ ~End(c)
  <2>1. /\ stage[c] = "select"
        /\ \E to \in {"count", "answer"}, page \in SUBSET rows : Goto(c, to) /\ Found(c, page)
        /\ UNCHANGED <<ask, grant, readView, transactions, inForce, written>>
    BY <1>8 DEF Select, At
  <2>2. PICK to \in {"count", "answer"}, page \in SUBSET rows : Goto(c, to) /\ Found(c, page)
    BY <2>1
  <2>3. stage'[c] = to
    BY <2>2, GotoFacts DEF Stages, Safe
  <2>4. touched'[c] = touched[c] \cup page
    BY <2>2 DEF Found, Safe, RequestTypes
  <2>5. shown'[c] = shown[c] \cup Pruned(c, grant[c].fields \cup hookAdds)
    BY <2>2 DEF Found, Safe, RequestTypes
  <2>6. touched'[c] \subseteq touched[c] \cup grant[c].filter.keep
    BY <2>4
  <2> QED
    BY <1>0, <2>1, <2>3, <2>5, <2>6, GoesByGrant
<1>9. CASE Old(c)
  <2>1. /\ stage[c] = "old" /\ Goto(c, "hook") /\ "hook" \in Stages
        /\ UNCHANGED <<ask, grant, inForce, witness>>
    BY <1>9 DEF Old, At, Stages
  <2>2. stage'[c] = "hook"
    BY <2>1, GotoFacts DEF Safe
  <2> QED
    BY <1>0, <2>1, <2>2, GoesByGrant DEF witness
<1>10. CASE Hook(c)
  <2>1. /\ stage[c] = "hook" /\ Goto(c, "authorizeValues") /\ "authorizeValues" \in Stages
        /\ UNCHANGED <<grant, inForce, witness>> /\ ask'[c].action = ask[c].action
    BY <1>10, HookFacts DEF Stages
  <2>2. stage'[c] = "authorizeValues"
    BY <2>1, GotoFacts DEF Safe
  <2> QED
    BY <1>0, <2>1, <2>2, GoesByGrant DEF witness
<1>11. CASE Insert(c)
  <2> DEFINE q == Request(ask[c].action, lastRow + 1, ask[c].filter, ask[c].fields,
                          ask[c].names, ask[c].owner)
  <2>1. /\ stage[c] = "write" /\ Goto(c, "reread") /\ "reread" \in Stages
        /\ UNCHANGED <<grant, inForce, touched, shown>>
        /\ written' = [written EXCEPT ![c] = ask[c].names]
        /\ ask' = [ask EXCEPT ![c] = q] /\ lastRow + 1 \in RowIds
    BY <1>11 DEF Insert, Writes, At, Stages
  <2>2. stage'[c] = "reread" /\ written'[c] = ask[c].names /\ ask'[c] = q
    BY <2>1, GotoFacts DEF Safe, RequestTypes
  <2>3. q.action = ask[c].action
    BY DEF Request
  <2> HIDE DEF q
  <2> QED
    BY <1>0, <2>1, <2>2, <2>3, GoesByGrant
<1>12. CASE UpdateRows(c)
  <2> DEFINE to == IF ask[c].action = "update" THEN "reread" ELSE "commit"
  <2>1. /\ stage[c] = "write" /\ Goto(c, to) /\ to \in Stages /\ to \in {"reread", "commit"}
        /\ UNCHANGED <<ask, grant, inForce, shown>>
        /\ touched' = [touched EXCEPT ![c] = @ \cup rows]
        /\ written' = [written EXCEPT ![c] = ask[c].names]
    BY <1>12 DEF UpdateRows, Writes, At, Stages
  <2> HIDE DEF to
  <2>2. stage'[c] = to
    BY <2>1, GotoFacts DEF Safe
  <2>3. touched'[c] = touched[c] \cup rows /\ written'[c] = ask[c].names
    BY <2>1 DEF Safe, RequestTypes
  <2> QED
    BY <1>0, <2>1, <2>2, <2>3, GoesByGrant
<1>13. CASE Reselect(c) /\ ~End(c)
  <2> DEFINE seen == SeenBy(c) \cap grant[c].filter.keep
  <2>1. /\ stage[c] = "reselect" /\ Goto(c, "commit") /\ "commit" \in Stages
        /\ Found(c, seen)
        /\ UNCHANGED <<ask, grant, readView, transactions, inForce, written>>
    BY <1>13 DEF Reselect, At, Stages
  <2>2. stage'[c] = "commit"
    BY <2>1, GotoFacts DEF Safe
  <2>3. /\ touched'[c] = touched[c] \cup seen
        /\ shown'[c] = shown[c] \cup Pruned(c, grant[c].fields \cup hookAdds)
    BY <2>1 DEF Found, Safe, RequestTypes
  <2> QED
    BY <1>0, <2>1, <2>2, <2>3, GoesByGrant
<1>14. CASE Collect(c)
  <2>1. "delete" \in Stages \ {"idle", "authorize"} /\ {Key} \in SUBSET Columns
    BY AccessAssumption DEF Stages
  <2>2. stage[c] = "collect"
    BY <1>14 DEF Collect, Authorization, At
  <2>3. CASE Authorization(c, "collect", {Key}, grant[c].filter, {}, FALSE, "delete")
    BY <1>0, <2>1, <2>2, <2>3, StageFacts, AuthorizationWithin
  <2>4. CASE Goto(c, "delete") /\ UNCHANGED <<ask, grant, inForce, witness>>
    <3>1. stage'[c] = "delete"
      BY <2>1, <2>4, GotoFacts DEF Safe
    <3> QED
      BY <1>0, <2>2, <2>4, <3>1, GoesByGrant DEF witness
  <2> QED
    BY <1>14, <2>3, <2>4 DEF Collect
<1>15. CASE DeleteRows(c)
  <2>1. /\ stage[c] = "delete" /\ Goto(c, "commit") /\ "commit" \in Stages
        /\ UNCHANGED <<ask, grant, inForce, shown, written>>
        /\ touched' = [touched EXCEPT ![c] = rows]
    BY <1>15 DEF DeleteRows, Writes, At, Stages
  <2>2. stage'[c] = "commit"
    BY <2>1, GotoFacts DEF Safe
  <2>3. touched'[c] = rows
    BY <2>1 DEF Safe, RequestTypes
  <2> QED
    BY <1>0, <2>1, <2>2, <2>3, GoesByGrant
<1> QED
  BY <1>1, <1>2, <1>3, <1>4, <1>5, <1>6, <1>7, <1>8, <1>9, <1>10, <1>11, <1>12, <1>13, <1>14,
     <1>15 DEF Serve

LEMMA AdministerWithin ==
  ASSUME Safe, NEW a \in PolicyAdmins, Administer(a), NEW c \in Clients, WithinFor(c)
  PROVE  WithinFor(c)'
<1>1. UNCHANGED <<records, request, witness>>
  BY AdministerFrame
<1>2. inForce[c] \subseteq inForce'[c]
  BY AdministerFrame DEF Safe, RequestTypes
<1>3. /\ RowsInForce(c) \subseteq RowsInForce(c)' /\ ReadInForce(c) \subseteq ReadInForce(c)'
      /\ WriteInForce(c) \subseteq WriteInForce(c)'
  BY <1>1, <1>2, Widens DEF request
<1>4. NowFor(c)'
  <2>1. CASE UNCHANGED <<snapshot, inForce>>
    BY <1>1, <2>1 DEF WithinFor, NowFor, PoliciesIn, request
  <2>2. CASE inForce' = [d \in Clients |->
                 IF stage[d] = "idle" THEN inForce[d]
                 ELSE inForce[d] \cup {PoliciesIn(snapshot')}]
    <3>1. ASSUME stage[c] # "idle" PROVE IsFiniteSet(inForce'[c])
      <4>1. IsFiniteSet(inForce[c]) /\ IsFiniteSet({PoliciesIn(snapshot')})
        BY <3>1, FS_Singleton DEF WithinFor, NowFor
      <4>2. inForce'[c] = inForce[c] \cup {PoliciesIn(snapshot')}
        BY <2>2, <3>1
      <4> QED
        BY <4>1, <4>2, FS_Union
    <3>2. stage[c] # "idle" => PoliciesIn(snapshot') \in inForce'[c]
      BY <2>2
    <3>3. stage'[c] = stage[c] /\ PoliciesIn(snapshot)' = PoliciesIn(snapshot')
      BY <1>1 DEF request, PoliciesIn
    <3> QED
      BY <3>1, <3>2, <3>3 DEF NowFor
  <2> QED
    BY <2>1, <2>2, AdministerFrame
<1>5. GrantFor(c)'
  BY <1>1, <1>3 DEF WithinFor, GrantFor, request
<1>6. ReachFor(c)'
  BY <1>1, <1>3 DEF WithinFor, ReachFor, request, witness
<1> QED
  BY <1>4, <1>5, <1>6 DEF WithinFor

LEMMA WithinStep ==
  ASSUME Safe, WithinInv, [AccessNext]_accessVars
  PROVE  WithinInv'
<1> SUFFICES ASSUME NEW b \in Clients PROVE WithinFor(b)'
  BY DEF WithinInv
<1>1. WithinFor(b)
  BY DEF WithinInv
<1>2. ASSUME NEW c \in Clients, Serve(c) PROVE WithinFor(b)'
  <2>1. UNCHANGED snapshot
    BY <1>2, ServeKeepsPolicies DEF policyState
  <2>2. CASE b = c
    BY <1>1, <1>2, <2>2, ServeWithin
  <2>3. CASE b # c
    BY <1>1, <1>2, <2>1, <2>3, OthersFrame, WithinFrame
  <2> QED
    BY <2>2, <2>3
<1>3. ASSUME NEW a \in PolicyAdmins, Administer(a) PROVE WithinFor(b)'
  BY <1>1, <1>3, AdministerWithin
<1>4. CASE Restart
  <2>1. EndAll(Clients) /\ Clients \in SUBSET Clients
    BY <1>4 DEF Restart
  <2> QED
    BY <2>1, EndWithin
<1>5. CASE UNCHANGED accessVars
  <2>1. Untouched(b) /\ UNCHANGED snapshot
    BY <1>5 DEF accessVars, Untouched, request, records, transactions, witness, policyState
  <2> QED
    BY <1>1, <2>1, WithinFrame
<1> QED
  BY <1>2, <1>3, <1>4, <1>5 DEF AccessNext

\* No request that the resource manager serves is answered, changes or destroys
\* rows, or shows or writes columns, that no policy in force while it ran grants
\* it: not with a filter of its own, and not through what hooks add.
THEOREM WithheldStaysWithheld == AccessSpec => []NothingBeyond
<1>1. WithinInv => NothingBeyond
  BY DEF WithinInv, WithinFor, ReachFor, NothingBeyond, RowsGranted, FieldsGranted,
         RowsInForce, ReadInForce, WriteInForce
<1>2. AccessInit => Safe /\ PublishInv /\ WithinInv
  <2> SUFFICES ASSUME AccessInit PROVE Safe /\ PublishInv /\ WithinInv
    OBVIOUS
  <2>1. \A c \in Clients :
          stage[c] = "idle" /\ touched[c] = {} /\ shown[c] = {} /\ written[c] = {}
    BY DEF AccessInit
  <2>2. WithinInv
    BY <2>1 DEF WithinInv, WithinFor, NowFor, GrantFor, ReachFor
  <2> QED
    BY <2>2, SafeStart, PolicyStart DEF Safe
<1>3. Safe /\ PublishInv /\ WithinInv /\ [AccessNext]_accessVars
        => Safe' /\ PublishInv' /\ WithinInv'
  BY SafeStep, PolicyStep, WithinStep DEF Safe
<1> QED
  BY <1>1, <1>2, <1>3, PTL DEF AccessSpec

-----------------------------------------------------------------------------
(***************************************************************************)
(* What an update answers.                                                 *)
(***************************************************************************)
\* The same policies decide as before.
SamePolicies == PoliciesIn(snapshot') = PoliciesIn(snapshot)

LEMMA SameRows ==
  ASSUME SamePolicies
  PROVE  RowsOf("update")' = RowsOf("update")
<1>1. Matching("update")' = Matching("update")
  BY DEF Matching, SamePolicies, PoliciesIn
<1>2. RowsOf("update")' = IF \E p \in Matching("update")' : p.filter = NoFilter THEN NoFilter
                         ELSE [names |-> UNION {p.filter.names : p \in Matching("update")'},
                               keep |-> UNION {p.filter.keep : p \in Matching("update")'}]
  BY DEF RowsOf, NoFilter, Rows
<1> QED
  BY <1>1, <1>2 DEF RowsOf

\* Of a row that another request has locked the table keeps what it has.
TableKeeps(b) == \A r \in table' : r.id \in locked[b] => r \in table

LEMMA UpdateFrame ==
  ASSUME NEW b \in Clients, UpdateFor(b),
         stage'[b] = stage[b], ask'[b] = ask[b], grant'[b] = grant[b],
         readView'[b] = readView[b], locked'[b] = locked[b], changed'[b] = changed[b],
         stage[b] # "idle" /\ Same(b)' => Same(b) /\ SamePolicies,
         TableKeeps(b)
  PROVE  UpdateFor(b)'
<1> SUFFICES ASSUME ask[b].action = "update" PROVE UpdateFor(b)'
  BY DEF UpdateFor
<1>1. stage[b] # "idle" /\ Same(b)' => Same(b) /\ RowsOf("update")' = RowsOf("update")
  BY SameRows
<1>2. OnKey(ask[b].id)' = OnKey(ask[b].id)
  BY DEF OnKey, Rows
<1>3. /\ stage[b] \notin {"collect", "delete"}
      /\ stage[b] \in {"reread", "reselect", "commit"} => locked[b] = {ask[b].id}
  BY DEF UpdateFor
<1>4. stage[b] \in {"old", "hook", "authorizeValues", "write"} /\ Same(b)' =>
        grant[b].filter.keep = RowsOf("update")'.keep \cap OnKey(ask[b].id).keep
  BY <1>1 DEF UpdateFor
<1>5. stage[b] \in {"reread", "reselect"} /\ Same(b)' /\ ask[b].id \notin changed[b] =>
        \A r \in table' : r.id = ask[b].id => r \notin RowsOf("update")'.keep
  BY <1>1, <1>3 DEF UpdateFor, TableKeeps
<1>6. stage[b] = "reselect" /\ Same(b)' => grant[b].filter.keep \subseteq RowsOf("update")'.keep
  BY <1>1 DEF UpdateFor
<1>7. stage[b] = "commit" =>
        \/ ask[b].id \in changed[b]
        \/ ~Same(b)'
        \/ readView[b] # NoOne /\ \E r \in readView[b] \ table' : r.id = ask[b].id
  <2> SUFFICES ASSUME stage[b] = "commit", ask[b].id \notin changed[b], Same(b)'
               PROVE  readView[b] # NoOne /\ \E r \in readView[b] \ table' : r.id = ask[b].id
    OBVIOUS
  <2>1. Same(b)
    BY <1>1
  <2>2. readView[b] # NoOne /\ \E r \in readView[b] \ table : r.id = ask[b].id
    BY <2>1 DEF UpdateFor
  <2>3. PICK r \in readView[b] \ table : r.id = ask[b].id
    BY <2>2
  <2>4. r \notin table'
    BY <1>3, <2>3 DEF TableKeeps
  <2> QED
    BY <2>2, <2>3, <2>4
<1> DEFINE S == Same(b)'
           R == RowsOf("update")'
<1> HIDE DEF S, R
<1>8. UpdateFor(b)' <=>
        (ask'[b].action = "update" =>
          /\ stage'[b] \notin {"collect", "delete"}
          /\ stage'[b] \in {"old", "hook", "authorizeValues", "write"} /\ S =>
               grant'[b].filter.keep = R.keep \cap OnKey(ask'[b].id).keep
          /\ stage'[b] \in {"reread", "reselect", "commit"} => locked'[b] = {ask'[b].id}
          /\ stage'[b] \in {"reread", "reselect"} /\ S /\ ask'[b].id \notin changed'[b] =>
               \A r \in table' : r.id = ask'[b].id => r \notin R.keep
          /\ stage'[b] = "reselect" /\ S => grant'[b].filter.keep \subseteq R.keep
          /\ stage'[b] = "commit" =>
               \/ ask'[b].id \in changed'[b]
               \/ ~S
               \/ readView'[b] # NoOne /\ \E r \in readView'[b] \ table' : r.id = ask'[b].id)
  BY DEF UpdateFor, S, R, OnKey, Rows
<1>9. /\ stage[b] \in {"old", "hook", "authorizeValues", "write"} /\ S =>
           grant[b].filter.keep = R.keep \cap OnKey(ask[b].id).keep
      /\ stage[b] \in {"reread", "reselect"} /\ S /\ ask[b].id \notin changed[b] =>
           \A r \in table' : r.id = ask[b].id => r \notin R.keep
      /\ stage[b] = "reselect" /\ S => grant[b].filter.keep \subseteq R.keep
      /\ stage[b] = "commit" =>
           \/ ask[b].id \in changed[b]
           \/ ~S
           \/ readView[b] # NoOne /\ \E r \in readView[b] \ table' : r.id = ask[b].id
  BY <1>4, <1>5, <1>6, <1>7 DEF S, R
<1> QED
  BY <1>3, <1>8, <1>9

LEMMA SameStays ==
  ASSUME NEW b \in Clients, inForce'[b] = inForce[b], UNCHANGED snapshot
  PROVE  (Same(b)' <=> Same(b)) /\ SamePolicies
BY DEF Same, SamePolicies, PoliciesIn

LEMMA TableStays ==
  ASSUME Safe, NEW c \in Clients, NEW b \in Clients \ {c}, Serve(c)
  PROVE  TableKeeps(b)
<1>1. CASE Commit(c)
  <2>1. table' = {r \in table : r.id \notin changed[c]} \cup draft[c]
    BY <1>1 DEF Commit
  <2>2. \A r \in table' : r.id \in locked[c] \/ r \in table
    BY <2>1, CommitTable
  <2>3. locked[b] \cap locked[c] = {}
    BY DEF Safe, LockInv
  <2> QED
    BY <2>2, <2>3 DEF TableKeeps
<1>2. CASE ~Commit(c)
  <2>1. table' = table
    BY <1>2 DEF Serve, Arrive, Authorize, Select, Count, Answer, Old, Hook, AuthorizeValues,
       Insert, UpdateRows, Reread, Reselect, Collect, DeleteRows, RequestFails,
       Authorization, records
  <2> QED
    BY <2>1 DEF TableKeeps
<1> QED
  BY <1>1, <1>2

LEMMA EndUpdate ==
  ASSUME NEW cs \in SUBSET Clients, NEW c \in cs, EndAll(cs)
  PROVE  UpdateFor(c)'
<1>1. ask'[c].action = "list"
  BY EndFacts DEF Unasked
<1> QED
  BY <1>1 DEF UpdateFor

LEMMA EndOneUpdate ==
  ASSUME NEW c \in Clients, End(c)
  PROVE  UpdateFor(c)'
<1>1. {c} \in SUBSET Clients /\ c \in {c} /\ EndAll({c})
  BY DEF End
<1> QED
  BY <1>1, EndUpdate

\* Up to the statement the decision is the one that was made at first.
LEMMA BeforeStatement ==
  ASSUME NEW c \in Clients, UpdateFor(c), stage[c] \in {"old", "hook", "authorizeValues"},
         stage'[c] \in {"hook", "authorizeValues", "write"},
         ask'[c].action = ask[c].action, ask'[c].id = ask[c].id, grant'[c] = grant[c],
         inForce'[c] = inForce[c], UNCHANGED snapshot
  PROVE  UpdateFor(c)'
<1> SUFFICES ASSUME ask[c].action = "update" PROVE UpdateFor(c)'
  BY DEF UpdateFor
<1>1. Same(c)' => Same(c) /\ RowsOf("update")' = RowsOf("update")
  BY SameStays, SameRows
<1>2. Same(c)' => grant[c].filter.keep = RowsOf("update")'.keep \cap OnKey(ask[c].id).keep
  BY <1>1 DEF UpdateFor
<1> DEFINE S == Same(c)'
           R == RowsOf("update")'
<1>3. S => grant[c].filter.keep = R.keep \cap OnKey(ask[c].id).keep
  BY <1>2
<1> HIDE DEF S, R
<1>4. (/\ stage'[c] \notin {"collect", "delete", "reread", "reselect", "commit"}
       /\ S => grant'[c].filter.keep = R.keep \cap OnKey(ask'[c].id).keep)
      => UpdateFor(c)'
  BY DEF UpdateFor, S, R, OnKey, Rows
<1> QED
  BY <1>3, <1>4

\* A stage of which UpdateFor says nothing.
LEMMA NoUpdate ==
  ASSUME NEW c \in Clients, stage'[c] \in {"idle", "authorize", "select", "count", "answer"}
  PROVE  UpdateFor(c)'
BY DEF UpdateFor

LEMMA NotAnUpdate ==
  ASSUME NEW c \in Clients, ask'[c].action # "update"
  PROVE  UpdateFor(c)'
BY DEF UpdateFor

LEMMA AuthorizeUpdate ==
  ASSUME Safe, NEW c \in Clients, Authorize(c)
  PROVE  UpdateFor(c)'
<1> DEFINE a == ask[c].action
           to == AfterAuthorize(a)
           g == Granted(a, ask[c].fields, ask[c].filter)
<1>1. CASE End(c)
  BY <1>1, EndOneUpdate
<1>2. CASE a # "update" /\ ~End(c)
  <2>1. ask'[c] = ask[c]
    BY <1>2 DEF Authorize, Authorization
  <2> QED
    BY <1>2, <2>1, NotAnUpdate
<1>3. CASE a = "update" /\ ~End(c)
  <2>1. /\ stage[c] = "authorize" /\ Permits(a, ask[c].fields, ask[c].filter, ask[c].names)
        /\ Goto(c, to) /\ grant' = [grant EXCEPT ![c] = g]
        /\ UNCHANGED <<ask, snapshot>>
    BY <1>3 DEF Authorize, Authorization, At, policyState
  <2>2. to = "old" /\ to \in Stages
    BY <1>3 DEF AfterAuthorize, Stages
  <2>3. g.filter.keep = RowsOf(a).keep \cap ask[c].filter.keep
    <3>1. /\ ask[c].fields \in SUBSET Columns /\ ask[c].filter \in FilterType
      BY <2>1, StageFacts
    <3> QED
      BY <3>1, GrantedRows DEF Safe
  <2>4. ask[c].filter = OnKey(ask[c].id)
    BY <1>3, <2>1, StageFacts DEF AskedFor
  <2>5. g.filter.keep = RowsOf("update").keep \cap OnKey(ask[c].id).keep
    BY <1>3, <2>3, <2>4
  <2> HIDE DEF g, to
  <2>6. grant'[c] = g /\ stage'[c] = "old"
    BY <2>1, <2>2, GotoFacts DEF Safe, RequestTypes
  <2>7. SamePolicies /\ RowsOf("update")' = RowsOf("update")
    BY <2>1, SameRows DEF SamePolicies, PoliciesIn
  <2> DEFINE R == RowsOf("update")'
  <2>8. grant'[c].filter.keep = R.keep \cap OnKey(ask'[c].id).keep
    BY <2>1, <2>5, <2>6, <2>7
  <2> HIDE DEF R
  <2> QED
    BY <2>6, <2>8 DEF UpdateFor, R, OnKey, Rows
<1> QED
  BY <1>1, <1>2, <1>3

LEMMA StatementUpdate ==
  ASSUME Safe, NEW c \in Clients, UpdateFor(c), UpdateRows(c)
  PROVE  UpdateFor(c)'
<1> DEFINE rows == table \cap grant[c].filter.keep
           to == IF ask[c].action = "update" THEN "reread" ELSE "commit"
<1>1. /\ stage[c] = "write" /\ Goto(c, to)
      /\ locked' = [locked EXCEPT ![c] = Statement(c)]
      /\ changed' = [changed EXCEPT ![c] = IdsOf(rows)]
      /\ UNCHANGED <<table, ask, grant, inForce, snapshot>>
  BY DEF UpdateRows, Writes, At, policyState
<1>2. CASE ask[c].action # "update"
  BY <1>1, <1>2, NotAnUpdate
<1>3. CASE ask[c].action = "update"
  <2>1. to = "reread" /\ to \in Stages
    BY <1>3 DEF Stages
  <2>2. /\ stage'[c] = "reread" /\ locked'[c] = Statement(c) /\ changed'[c] = IdsOf(rows)
    BY <1>1, <2>1, GotoFacts DEF Safe, RequestTypes
  <2>3. locked'[c] = {ask'[c].id}
    BY <1>1, <1>3, <2>2 DEF Statement
  <2>4. (Same(c)' <=> Same(c)) /\ RowsOf("update")' = RowsOf("update")
    BY <1>1, SameStays, SameRows
  <2>5. ASSUME Same(c), ask[c].id \notin IdsOf(rows), NEW r \in table, r.id = ask[c].id
        PROVE  r \notin RowsOf("update").keep
    <3>1. grant[c].filter.keep = RowsOf("update").keep \cap OnKey(ask[c].id).keep
      BY <1>1, <1>3, <2>5 DEF UpdateFor
    <3>2. r \in OnKey(ask[c].id).keep
      BY <2>5 DEF OnKey, Safe, RequestTypes
    <3>3. r \notin rows
      BY <2>5 DEF IdsOf
    <3> QED
      BY <3>1, <3>2, <3>3
  <2> DEFINE S == Same(c)'
             R == RowsOf("update")'
  <2>6. S /\ ask'[c].id \notin changed'[c] => \A r \in table' : r.id = ask'[c].id => r \notin R.keep
    BY <1>1, <2>2, <2>4, <2>5
  <2> HIDE DEF S, R
  <2> QED
    BY <2>2, <2>3, <2>6 DEF UpdateFor, S, R
<1> QED
  BY <1>2, <1>3

LEMMA RereadUpdate ==
  ASSUME Safe, NEW c \in Clients, UpdateFor(c), Reread(c)
  PROVE  UpdateFor(c)'
<1> DEFINE a == ask[c].action
           g == Granted(a, {}, OnKey(ask[c].id))
<1>1. CASE End(c)
  BY <1>1, EndOneUpdate
<1>2. CASE a # "update" /\ ~End(c)
  <2>1. ask'[c] = ask[c]
    BY <1>2 DEF Reread, Authorization
  <2> QED
    BY <1>2, <2>1, NotAnUpdate
<1>3. CASE a = "update" /\ ~End(c)
  <2>1. /\ stage[c] = "reread" /\ Permits(a, {}, OnKey(ask[c].id), {})
        /\ Goto(c, "reselect") /\ grant' = [grant EXCEPT ![c] = g]
        /\ UNCHANGED <<ask, snapshot, table, transactions, inForce>>
    BY <1>3 DEF Reread, Authorization, At, policyState
  <2>2. "reselect" \in Stages
    BY DEF Stages
  <2>3. g.filter.keep \subseteq RowsOf("update").keep
    <3>1. OnKey(ask[c].id) \in FilterType /\ {} \in SUBSET Columns
      BY <2>1, StageFacts, FilterFacts
    <3>2. g.filter.keep = RowsOf(a).keep \cap OnKey(ask[c].id).keep
      BY <3>1, GrantedRows DEF Safe
    <3> QED
      BY <1>3, <3>2
  <2> HIDE DEF g
  <2>4. grant'[c] = g /\ stage'[c] = "reselect"
    BY <2>1, <2>2, GotoFacts DEF Safe, RequestTypes
  <2>5. (Same(c)' <=> Same(c)) /\ RowsOf("update")' = RowsOf("update")
    BY <2>1, SameStays, SameRows
  <2>6. locked'[c] = locked[c] /\ changed'[c] = changed[c] /\ ask'[c] = ask[c] /\ table' = table
    BY <2>1 DEF transactions
  <2> DEFINE S == Same(c)'
             R == RowsOf("update")'
  <2>7. S => grant'[c].filter.keep \subseteq R.keep
    BY <2>3, <2>4, <2>5
  <2>8. locked'[c] = {ask'[c].id}
    BY <1>3, <2>1, <2>6 DEF UpdateFor
  <2>9. S /\ ask'[c].id \notin changed'[c] => \A r \in table' : r.id = ask'[c].id => r \notin R.keep
    <3>1. Same(c) /\ ask[c].id \notin changed[c] =>
            \A r \in table : r.id = ask[c].id => r \notin RowsOf("update").keep
      BY <1>3, <2>1 DEF UpdateFor
    <3> QED
      BY <2>5, <2>6, <3>1
  <2> HIDE DEF S, R
  <2> QED
    BY <2>4, <2>7, <2>8, <2>9 DEF UpdateFor, S, R
<1> QED
  BY <1>1, <1>2, <1>3

LEMMA ReselectUpdate ==
  ASSUME Safe, NEW c \in Clients, UpdateFor(c), Reselect(c)
  PROVE  UpdateFor(c)'
<1> DEFINE rows == SeenBy(c) \cap grant[c].filter.keep
<1>1. CASE End(c)
  BY <1>1, EndOneUpdate
<1>2. CASE ask[c].action # "update" /\ ~End(c)
  <2>1. ask'[c] = ask[c]
    BY <1>2 DEF Reselect
  <2> QED
    BY <1>2, <2>1, NotAnUpdate
<1>3. CASE ask[c].action = "update" /\ ~End(c)
  <2>1. /\ stage[c] = "reselect" /\ rows # {} /\ Goto(c, "commit")
        /\ UNCHANGED <<ask, grant, readView, transactions, inForce, table, snapshot>>
    BY <1>3 DEF Reselect, At, policyState
  <2>2. stage'[c] = "commit"
    BY <2>1, GotoFacts DEF Stages, Safe
  <2>3. Same(c)' <=> Same(c)
    BY <2>1, SameStays
  <2>4. locked'[c] = locked[c] /\ changed'[c] = changed[c]
    BY <2>1 DEF transactions
  <2>5. locked[c] = {ask[c].id}
    BY <1>3, <2>1 DEF UpdateFor
  <2>6. ASSUME ask[c].id \notin changed[c], Same(c)
        PROVE  readView[c] # NoOne /\ \E r \in readView[c] \ table : r.id = ask[c].id
    <3>1. PICK r \in rows : TRUE
      BY <2>1
    <3>2. r \in SeenBy(c) /\ r \in grant[c].filter.keep
      BY <3>1
    <3>3. r.id = ask[c].id
      BY <1>3, <2>1, <3>2, StageFacts DEF AskedFor, OnKey
    <3>4. r \notin draft[c]
      BY <2>6, <3>3 DEF Safe, LockInv, IdsOf
    <3>5. r \in RowsOf("update").keep
      BY <1>3, <2>1, <2>6, <3>2 DEF UpdateFor
    <3>6. r \notin table
      BY <1>3, <2>1, <2>6, <3>3, <3>5 DEF UpdateFor
    <3>7. r \in IF readView[c] = NoOne THEN table ELSE readView[c]
      BY <3>2, <3>4 DEF SeenBy
    <3> QED
      BY <3>3, <3>6, <3>7
  <2> DEFINE S == Same(c)'
  <2>7. \/ ask'[c].id \in changed'[c]
        \/ ~S
        \/ readView'[c] # NoOne /\ \E r \in readView'[c] \ table' : r.id = ask'[c].id
    BY <2>1, <2>3, <2>4, <2>6
  <2>8. locked'[c] = {ask'[c].id}
    BY <2>1, <2>4, <2>5
  <2> HIDE DEF S
  <2> QED
    BY <2>2, <2>7, <2>8 DEF UpdateFor, S
<1> QED
  BY <1>1, <1>2, <1>3

LEMMA ServeUpdate ==
  ASSUME Safe, NEW c \in Clients, UpdateFor(c), Serve(c)
  PROVE  UpdateFor(c)'
<1>0. UNCHANGED snapshot
  BY ServeKeepsPolicies DEF policyState
<1>1. CASE Arrive(c)
  <2>1. stage'[c] = "authorize"
    BY <1>1, GotoFacts DEF Arrive, Goto, Safe, Stages
  <2> QED
    BY <2>1, NoUpdate
<1>2. CASE Authorize(c)
  BY <1>2, AuthorizeUpdate
<1>3. CASE End(c)
  BY <1>3, EndOneUpdate
<1>4. CASE Answer(c) \/ Commit(c) \/ RequestFails(c)
  BY <1>4, EndOneUpdate DEF Answer, Commit, RequestFails
<1>5. CASE (Select(c) \/ Count(c)) /\ ~End(c)
  <2>1. Goto(c, "count") \/ Goto(c, "answer")
    BY <1>5 DEF Select, Count, Authorization
  <2>2. stage'[c] \in {"count", "answer"}
    BY <2>1, GotoFacts DEF Safe, Stages
  <2> QED
    BY <2>2, NoUpdate
<1>6. CASE Old(c)
  <2>1. stage[c] = "old" /\ Goto(c, "hook") /\ UNCHANGED <<ask, grant, inForce>>
    BY <1>6 DEF Old, At
  <2>2. stage'[c] = "hook"
    BY <2>1, GotoFacts DEF Safe, Stages
  <2> QED
    BY <1>0, <2>1, <2>2, BeforeStatement
<1>7. CASE Hook(c)
  <2>1. stage'[c] = "authorizeValues"
    BY <1>7, HookFacts, GotoFacts DEF Safe, Stages
  <2>2. /\ stage[c] = "hook" /\ UNCHANGED <<grant, inForce>>
        /\ ask'[c].action = ask[c].action /\ ask'[c].id = ask[c].id
    BY <1>7, HookFacts
  <2> QED
    BY <1>0, <2>1, <2>2, BeforeStatement
<1>8. CASE AuthorizeValues(c) /\ ~End(c)
  <2>1. stage[c] = "authorizeValues" /\ Goto(c, "write") /\ UNCHANGED <<ask, grant, inForce>>
    BY <1>8 DEF AuthorizeValues, Authorization, At
  <2>2. stage'[c] = "write"
    BY <2>1, GotoFacts DEF Safe, Stages
  <2> QED
    BY <1>0, <2>1, <2>2, BeforeStatement
<1>9. CASE Insert(c)
  <2> DEFINE q == Request(ask[c].action, lastRow + 1, ask[c].filter, ask[c].fields,
                          ask[c].names, ask[c].owner)
  <2>1. ask[c].action = "create" /\ ask' = [ask EXCEPT ![c] = q]
    BY <1>9 DEF Insert
  <2>2. q.action = "create"
    BY <2>1 DEF Request
  <2> HIDE DEF q
  <2>3. ask'[c].action = "create"
    BY <2>1, <2>2 DEF Safe, RequestTypes
  <2> QED
    BY <2>3, NotAnUpdate
<1>10. CASE UpdateRows(c)
  BY <1>10, StatementUpdate
<1>11. CASE Reread(c)
  BY <1>11, RereadUpdate
<1>12. CASE Reselect(c)
  BY <1>12, ReselectUpdate
<1>13. CASE (Collect(c) \/ DeleteRows(c)) /\ ~End(c)
  <2>1. stage[c] \in {"collect", "delete"} /\ ask'[c] = ask[c]
    BY <1>13 DEF Collect, DeleteRows, Authorization, Writes, At
  <2>2. ask[c].action # "update"
    BY <2>1 DEF UpdateFor
  <2> QED
    BY <2>1, <2>2, NotAnUpdate
<1> QED
  BY <1>1, <1>2, <1>3, <1>4, <1>5, <1>6, <1>7, <1>8, <1>9, <1>10, <1>11, <1>12, <1>13 DEF Serve

\* The same policies have been in force all along only if nothing else was published.
LEMMA SameAllAlong ==
  ASSUME NEW a \in PolicyAdmins, Administer(a), NEW b \in Clients, NowFor(b), Safe,
         stage[b] # "idle", Same(b)'
  PROVE  Same(b) /\ SamePolicies
<1> DEFINE now == PoliciesIn(snapshot)
           next == PoliciesIn(snapshot')
<1>1. now \in inForce[b]
  BY DEF NowFor
<1>2. inForce'[b] = {next}
  BY DEF Same, PoliciesIn
<1>3. CASE UNCHANGED <<snapshot, inForce>>
  BY <1>2, <1>3 DEF Same, SamePolicies
<1>4. CASE inForce' = [d \in Clients |->
                 IF stage[d] = "idle" THEN inForce[d]
                 ELSE inForce[d] \cup {PoliciesIn(snapshot')}]
  <2>1. inForce'[b] = inForce[b] \cup {next}
    BY <1>4
  <2> HIDE DEF now, next
  <2>2. now = next /\ inForce[b] = {now}
    BY <1>1, <1>2, <2>1
  <2> QED
    BY <2>2 DEF Same, SamePolicies, now, next
<1> QED
  BY <1>3, <1>4, AdministerFrame

LEMMA UpdateStep ==
  ASSUME Safe, WithinInv, UpdateInv, [AccessNext]_accessVars
  PROVE  UpdateInv'
<1> SUFFICES ASSUME NEW b \in Clients PROVE UpdateFor(b)'
  BY DEF UpdateInv
<1>1. UpdateFor(b) /\ NowFor(b)
  BY DEF UpdateInv, WithinInv, WithinFor
<1>2. ASSUME NEW c \in Clients, Serve(c) PROVE UpdateFor(b)'
  <2>1. CASE b = c
    BY <1>1, <1>2, <2>1, ServeUpdate
  <2>2. CASE b # c
    <3>1. Untouched(b) /\ TableKeeps(b)
      BY <1>2, <2>2, OthersFrame, TableStays
    <3>2. UNCHANGED snapshot
      BY <1>2, ServeKeepsPolicies DEF policyState
    <3>3. Same(b)' => Same(b) /\ SamePolicies
      BY <3>1, <3>2, SameStays DEF Untouched
    <3> QED
      BY <1>1, <3>1, <3>3, UpdateFrame DEF Untouched
  <2> QED
    BY <2>1, <2>2
<1>3. ASSUME NEW a \in PolicyAdmins, Administer(a) PROVE UpdateFor(b)'
  <2>1. UNCHANGED <<records, request, witness>>
    BY <1>3, AdministerFrame
  <2>2. TableKeeps(b)
    BY <2>1 DEF TableKeeps, records
  <2>3. stage[b] # "idle" /\ Same(b)' => Same(b) /\ SamePolicies
    BY <1>1, <1>3, SameAllAlong
  <2> QED
    BY <1>1, <2>1, <2>2, <2>3, UpdateFrame DEF records, request, transactions
<1>4. CASE Restart
  <2>1. EndAll(Clients) /\ Clients \in SUBSET Clients
    BY <1>4 DEF Restart
  <2> QED
    BY <2>1, EndUpdate
<1>5. CASE UNCHANGED accessVars
  <2>1. Untouched(b) /\ UNCHANGED <<snapshot, table>>
    BY <1>5 DEF accessVars, Untouched, request, records, transactions, witness, policyState
  <2>2. TableKeeps(b)
    BY <2>1 DEF TableKeeps
  <2>3. Same(b)' => Same(b) /\ SamePolicies
    BY <2>1, SameStays DEF Untouched
  <2> QED
    BY <1>1, <2>1, <2>2, <2>3, UpdateFrame DEF Untouched
<1> QED
  BY <1>2, <1>3, <1>4, <1>5 DEF AccessNext

\* More than one set of policies, where it is not only the one of now.
LEMMA Several ==
  ASSUME NEW S, IsFiniteSet(S), NEW x \in S, S # {x}
  PROVE  Cardinality(S) > 1
<1>1. PICK y \in S : y # x
  OBVIOUS
<1>2. Cardinality({x}) = 1 /\ IsFiniteSet({x})
  BY FS_Singleton
<1>3. Cardinality({x} \cup {y}) = Cardinality({x}) + 1
  BY <1>1, <1>2, FS_AddElement
<1>4. {x} \cup {y} \subseteq S
  BY <1>1
<1>5. Cardinality({x} \cup {y}) <= Cardinality(S)
  BY <1>4, FS_Subset
<1>6. Cardinality(S) \in Nat
  BY FS_CardinalityType
<1> QED
  BY <1>2, <1>3, <1>5, <1>6

\* GenericRepository.Update answers "affected = 1" only for a row that it wrote,
\* unless the policies changed meanwhile or its transaction reads the row as it
\* was before somebody else destroyed or changed it.
THEOREM UpdatesTruthful == AccessSpec => []UpdateDone
<1>1. WithinInv /\ UpdateInv => UpdateDone
  <2> SUFFICES ASSUME WithinInv, UpdateInv, NEW c \in Clients,
                      stage[c] = "commit", ask[c].action = "update"
               PROVE  \/ ask[c].id \in changed[c]
                      \/ Cardinality(inForce[c]) > 1
                      \/ readView[c] # NoOne /\ \E r \in readView[c] \ table : r.id = ask[c].id
    BY DEF UpdateDone, At
  <2>1. \/ ask[c].id \in changed[c]
        \/ ~Same(c)
        \/ readView[c] # NoOne /\ \E r \in readView[c] \ table : r.id = ask[c].id
    BY DEF UpdateInv, UpdateFor
  <2>2. PoliciesIn(snapshot) \in inForce[c] /\ IsFiniteSet(inForce[c])
    BY DEF WithinInv, WithinFor, NowFor
  <2>3. ~Same(c) => Cardinality(inForce[c]) > 1
    BY <2>2, Several DEF Same
  <2> QED
    BY <2>1, <2>3
<1>2. AccessInit => Safe /\ PublishInv /\ WithinInv /\ UpdateInv
  <2> SUFFICES ASSUME AccessInit PROVE Safe /\ PublishInv /\ WithinInv /\ UpdateInv
    OBVIOUS
  <2>1. \A c \in Clients :
          /\ stage[c] = "idle" /\ touched[c] = {} /\ shown[c] = {} /\ written[c] = {}
          /\ ask[c].action = "list"
    BY DEF AccessInit, Unasked
  <2>2. WithinInv /\ UpdateInv
    BY <2>1 DEF WithinInv, WithinFor, NowFor, GrantFor, ReachFor, UpdateInv, UpdateFor
  <2> QED
    BY <2>2, SafeStart, PolicyStart DEF Safe
<1>3. Safe /\ PublishInv /\ WithinInv /\ UpdateInv /\ [AccessNext]_accessVars
        => Safe' /\ PublishInv' /\ WithinInv' /\ UpdateInv'
  BY SafeStep, PolicyStep, WithinStep, UpdateStep DEF Safe
<1> QED
  BY <1>1, <1>2, <1>3, PTL DEF AccessSpec

-----------------------------------------------------------------------------
(***************************************************************************)
(* Relations: the invariant.                                               *)
(***************************************************************************)
LinkStages == {"idle", "check", "read", "unlink", "cascade", "clear", "link", "delete", "commit"}

LinkJob ==
  [op : {"none", "add", "set", "remove", "destroy", "destroyTarget", "truncate"},
   field : {"hasMany", "belongsToMany"}, source : Sources \cup {Null},
   want : SUBSET Targets, at : LinkStages, link : SUBSET Targets, unlink : SUBSET Targets,
   alone : BOOLEAN, whole : BOOLEAN]

\* A request unlinks all that there is.
UnlinksAll(q) == q.op = "set" \/ (q.op = "remove" /\ q.want = {})

\* Where a request may be, and what it has left to do there.
StageInv(q) ==
  /\ q.at # "idle" => /\ q.op # "none"
                      /\ q.source = Null <=> q.op \in {"destroyTarget", "truncate"}
  /\ q.at \in LinkStages \ {"idle", "check", "commit"} => q.source # Null
  /\ q.at = "read" => q.field = "hasMany" /\ (UnlinksAll(q) \/ q.op = "destroy")
  /\ q.at = "unlink" => q.op # "add" /\ (UnlinksAll(q) => q.field = "hasMany")
  /\ q.at \in {"cascade", "delete"} => q.op = "destroy"
  /\ q.at = "clear" => q.op = "destroy" \/ (q.field = "belongsToMany" /\ UnlinksAll(q))
  /\ q.at = "link" => q.op # "destroy"
  /\ q.op = "destroy" => q.field = "hasMany"
  /\ q.link \subseteq q.want /\ (q.op \notin {"add", "set"} => q.link = {})
  /\ q.op \in {"add", "set"} /\ q.at \in {"read", "unlink", "clear"} => q.link = q.want
  /\ q.at = "commit" => q.link = {}
  /\ q.op = "remove" /\ q.at \in {"clear", "link", "commit"} => q.unlink = {}
  /\ q.at = "idle" => q.alone = FALSE

\* What a request has written, and what it holds.
WroteInv(c) ==
  LET q == job[c] IN
  /\ wrote[c] \subseteq Keys /\ wrote[c] = held[c]
  /\ q.at \in {"idle", "check", "read"} => wrote[c] = {} /\ gaps[c] = {}
  /\ gaps[c] \subseteq {q.source} \cap Sources
  /\ \A s \in Sources : s \in wrote[c] =>
       view[c][s] = Gone /\ (q.op = "truncate" \/ (q.op = "destroy" /\ s = q.source))
  /\ \A t \in Targets : t \in wrote[c] =>
       /\ view[c][t] \in Sources => view[c][t] = q.source /\ q.op \in {"add", "set"}
       /\ view[c][t] # Gone => rels[t] # Gone
  /\ \A s \in Sources, t \in Targets : <<s, t>> \in wrote[c] /\ view[c][<<s, t>>] = Here =>
       s = q.source /\ q.op \in {"add", "set"}

\* Who overlaps whom.
MetInv(c) ==
  LET q == job[c] IN
  q.at # "idle" =>
    /\ q.op = "truncate" => Sources \subseteq excused
    /\ q.alone => \A b \in Workers \ {c} : job[b].at = "idle"
    /\ q.at # "check" /\ q.source \in Sources \ excused => rels[q.source] = Here
    /\ q.op = "destroy" =>
         \A b \in Workers \ {c} : job[b].at # "idle" /\ job[b].source = q.source =>
           q.source \in excused

\* As long as a request is alone, its snapshot is what there is.
AloneInv(c) ==
  LET q == job[c] IN
  q.at \notin {"idle", "check"} /\ q.source # Null /\ q.alone =>
    \A k \in Keys \ wrote[c] : view[c][k] = rels[k]

\* The locks on ranges.
GapInv(c) ==
  \A s \in gaps[c], t \in Targets, b \in Workers \ {c} :
    <<s, t>> \in wrote[b] => view[b][<<s, t>>] = Gone

Exact(q) == q.field = "belongsToMany" \/ (q.alone /\ q.whole)

\* The row that a link is in.
LinkKey(q, t) == IF q.field = "hasMany" THEN t ELSE <<q.source, t>>

\* How far a request has got with what it was asked for.
SoFarInv(c) ==
  LET q == job[c] IN
  /\ q.op \in {"add", "set"} /\ q.at \in {"link", "commit"} =>
       \A t \in q.want \ q.link :
         (LinkKey(q, t) \in wrote[c] /\ t \in LinksOf(c)) \/ Newest(c, t) = Gone
  /\ q.op = "remove" /\ q.at \in {"unlink", "link", "commit"} =>
       \A t \in q.want \ q.unlink :
         /\ t \notin LinksOf(c)
         /\ LinkKey(q, t) \in wrote[c] \/ (q.field = "hasMany" /\ Newest(c, t) = Gone)
  /\ UnlinksAll(q) /\ Exact(q) /\ q.at = "unlink" =>
       \A t \in Targets : Newest(c, t) = q.source => t \in q.unlink
  /\ UnlinksAll(q) /\ Exact(q) /\ q.at \in {"link", "commit"} => LinksOf(c) \subseteq q.want
  /\ UnlinksAll(q) /\ q.field = "belongsToMany" /\ q.at \in {"link", "commit"} =>
       q.source \in gaps[c]

\* How far a destruction has got with the links of the record.
DestroyInv(c) ==
  LET q == job[c]  s == q.source IN
  q.op = "destroy" /\ s \notin excused =>
    /\ q.at = "read" => \A t \in Targets : rels[t] = s => view[c][t] = s
    /\ q.at \in {"unlink", "cascade"} => \A t \in Targets : Newest(c, t) = s => t \in q.unlink
    /\ q.at \in {"clear", "delete", "commit"} => \A t \in Targets : Newest(c, t) # s
    /\ q.at \in {"delete", "commit"} => \A t \in Targets : Newest(c, <<s, t>>) = Gone

TypesInv ==
  /\ IsLinkRows(rels) /\ \A c \in Workers : IsLinkRows(view[c])
  /\ view \in [Workers -> [Keys -> Sources \cup {Null, Here, Gone}]]
  /\ wrote \in [Workers -> SUBSET Keys] /\ held \in [Workers -> SUBSET Keys]
  /\ gaps \in [Workers -> SUBSET Sources]
  /\ job \in [Workers -> LinkJob]
  /\ excused \subseteq Sources
  /\ onDelete \in {"SET NULL", "CASCADE", "RESTRICT"} /\ linkCalls \in Nat

LocksInv == \A b, c \in Workers : b # c => held[b] \cap held[c] = {}

RelationsInvar ==
  /\ TypesInv /\ LocksInv /\ NoDangling
  /\ \A c \in Workers : /\ StageInv(job[c]) /\ WroteInv(c) /\ MetInv(c) /\ AloneInv(c)
                        /\ GapInv(c) /\ SoFarInv(c) /\ DestroyInv(c)

-----------------------------------------------------------------------------
(***************************************************************************)
(* How the state is made up, and the steps that any action consists of.    *)
(***************************************************************************)
\* Pairs are rows, and of their own kind.
LEMMA PairIn == \A s \in Sources, t \in Targets :
  /\ <<s, t>> \in Keys /\ <<s, t>> \in Pairs
  /\ <<s, t>> \notin Sources /\ <<s, t>> \notin Targets
BY RelationsAssumption DEF Keys, Pairs

\* So are sources and targets.
LEMMA KeyKinds ==
  /\ \A s \in Sources : s \in Keys /\ s \notin Targets /\ s \notin Pairs
  /\ \A t \in Targets : t \in Keys /\ t \notin Sources /\ t \notin Pairs
BY RelationsAssumption DEF Keys

\* What one request has at a step.
Mine(c, q, v, w, g) ==
  /\ job' = [job EXCEPT ![c] = q] /\ view' = [view EXCEPT ![c] = v]
  /\ wrote' = [wrote EXCEPT ![c] = w] /\ held' = [held EXCEPT ![c] = w]
  /\ gaps' = [gaps EXCEPT ![c] = g]

OwnInv(c) ==
  /\ StageInv(job[c]) /\ WroteInv(c) /\ AloneInv(c) /\ GapInv(c) /\ SoFarInv(c) /\ DestroyInv(c)

\* What that says, request by request.
LEMMA MineFacts ==
  ASSUME TypesInv, NEW c \in Workers, NEW q, NEW v, NEW w, NEW g, Mine(c, q, v, w, g)
  PROVE  /\ job'[c] = q /\ view'[c] = v /\ wrote'[c] = w /\ held'[c] = w /\ gaps'[c] = g
         /\ \A b \in Workers \ {c} :
              /\ job'[b] = job[b] /\ view'[b] = view[b] /\ wrote'[b] = wrote[b]
              /\ held'[b] = held[b] /\ gaps'[b] = gaps[b]
BY DEF Mine, TypesInv

\* What is known of a request whose own part of the state stays.
LEMMA OthersStay ==
  ASSUME RelationsInvar, NEW b \in Workers,
         job'[b] = job[b], view'[b] = view[b], wrote'[b] = wrote[b], held'[b] = held[b],
         gaps'[b] = gaps[b], rels' = rels, excused \subseteq excused'
  PROVE  (StageInv(job[b]) /\ WroteInv(b) /\ AloneInv(b) /\ SoFarInv(b) /\ DestroyInv(b))'
<1>0. StageInv(job[b]) /\ WroteInv(b) /\ AloneInv(b) /\ SoFarInv(b) /\ DestroyInv(b)
  BY DEF RelationsInvar
<1>1. StageInv(job[b])'
  BY <1>0 DEF StageInv, UnlinksAll
<1>2. WroteInv(b)'
  BY <1>0 DEF WroteInv
<1>3. AloneInv(b)'
  BY <1>0 DEF AloneInv
<1>5. LinksOf(b)' = LinksOf(b)
  BY DEF LinksOf, Newest
<1>6. SoFarInv(b)'
  BY <1>0, <1>5 DEF SoFarInv, LinkKey, UnlinksAll, Exact, Newest
<1>7. DestroyInv(b)'
  BY <1>0 DEF DestroyInv, Newest
<1> QED
  BY <1>1, <1>2, <1>3, <1>6, <1>7

\* A step that changes what one request has.
LEMMA MineKeeps ==
  ASSUME RelationsInvar, NEW c \in Workers, ~Doing(c, "idle"),
         NEW q \in LinkJob, NEW v \in [Keys -> Sources \cup {Null, Here, Gone}], IsLinkRows(v),
         NEW w \in SUBSET Keys, NEW g \in SUBSET Sources, Mine(c, q, v, w, g),
         UNCHANGED <<rels, onDelete, linkCalls>>, excused \subseteq excused', excused' \subseteq Sources,
         \A b \in Workers \ {c} : w \cap held[b] = {},
         q.at = "idle" \/ (/\ q.op = job[c].op /\ q.source = job[c].source
                           /\ q.alone = job[c].alone),
         q.at \notin {"idle", "check"} /\ q.source \in Sources \ excused' => rels[q.source] = Here,
         \A b \in Workers \ {c}, t \in Targets : \A s \in gaps[b] :
           <<s, t>> \in w => v[<<s, t>>] = Gone,
         OwnInv(c)'
  PROVE  RelationsInvar'
<1>1. /\ job'[c] = q /\ view'[c] = v /\ wrote'[c] = w /\ held'[c] = w /\ gaps'[c] = g
      /\ \A b \in Workers \ {c} :
           /\ job'[b] = job[b] /\ view'[b] = view[b] /\ wrote'[b] = wrote[b]
           /\ held'[b] = held[b] /\ gaps'[b] = gaps[b]
  BY MineFacts DEF RelationsInvar
<1>2. TypesInv'
  BY DEF RelationsInvar, TypesInv, Mine
<1>3. LocksInv'
  BY <1>1 DEF RelationsInvar, LocksInv
<1>4. NoDangling'
  BY DEF RelationsInvar, NoDangling
<1>5. ASSUME NEW b \in Workers \ {c}
      PROVE  (StageInv(job[b]) /\ WroteInv(b) /\ AloneInv(b) /\ SoFarInv(b) /\ DestroyInv(b))'
  BY <1>1, OthersStay
<1>6. ASSUME NEW b \in Workers \ {c} PROVE GapInv(b)'
  <2>1. GapInv(b)
    BY DEF RelationsInvar
  <2> QED
    BY <1>1, <2>1 DEF GapInv
<1>7. ASSUME NEW b \in Workers PROVE MetInv(b)'
  <2>1. MetInv(b) /\ MetInv(c)
    BY DEF RelationsInvar
  <2>2. CASE b = c
    BY <1>1, <2>1, <2>2 DEF MetInv, Doing
  <2>3. CASE b # c
    BY <1>1, <2>1, <2>3 DEF MetInv, Doing
  <2> QED
    BY <2>2, <2>3
<1> QED
  BY <1>2, <1>3, <1>4, <1>5, <1>6, <1>7 DEF RelationsInvar, OwnInv

\* No view is a view as well.
LEMMA RowsAway == NoView \in [Keys -> Sources \cup {Null, Here, Gone}] /\ IsLinkRows(NoView)
BY KeyKinds DEF NoView, IsLinkRows, Keys

\* A request that leaves.
LEMMA LeaveKeeps ==
  ASSUME RelationsInvar, NEW c \in Workers, ~Doing(c, "idle"), Leave(c),
         UNCHANGED <<rels, onDelete, linkCalls>>, excused \subseteq excused', excused' \subseteq Sources
  PROVE  RelationsInvar'
<1>1. NoJob \in LinkJob
  BY DEF NoJob, LinkJob, LinkStages
<1>2. Mine(c, NoJob, NoView, {}, {})
  BY DEF Leave, Mine
<1>3. /\ job'[c] = NoJob /\ view'[c] = NoView /\ wrote'[c] = {} /\ held'[c] = {} /\ gaps'[c] = {}
  BY <1>2, MineFacts DEF RelationsInvar
<1>4. OwnInv(c)'
  BY <1>3 DEF OwnInv, StageInv, UnlinksAll, WroteInv, AloneInv, GapInv, SoFarInv, DestroyInv, NoJob, LinkStages
<1>5. NoJob.at = "idle"
  BY DEF NoJob
<1>6. \A b \in Workers \ {c} : {} \cap held[b] = {}
  OBVIOUS
<1> DEFINE w == {}
<1>7. w \in SUBSET Keys /\ w \in SUBSET Sources /\ w = {}
  OBVIOUS
<1> HIDE DEF w
<1> QED
  BY <1>1, <1>2, <1>4, <1>5, <1>6, <1>7, RowsAway, MineKeeps

LEMMA FailKeeps ==
  ASSUME RelationsInvar, NEW c \in Workers, LinkFails(c)
  PROVE  RelationsInvar'
BY LeaveKeeps DEF LinkFails, RelationsInvar, TypesInv

\* What a statement leaves.
LEMMA LeavesFacts ==
  ASSUME RelationsInvar, NEW c \in Workers, NEW keys \in SUBSET Keys, NEW v, Leaves(c, keys, v),
         v = Gone \/ (v = Here /\ keys \subseteq Pairs) \/ (v \in Sources \cup {Null} /\ keys \subseteq Targets)
  PROVE  \E nv \in [Keys -> Sources \cup {Null, Here, Gone}] :
           /\ IsLinkRows(nv)
           /\ view' = [view EXCEPT ![c] = nv]
           /\ wrote' = [wrote EXCEPT ![c] = wrote[c] \cup keys]
           /\ held' = [held EXCEPT ![c] = wrote[c] \cup keys]
           /\ \A k \in Keys : nv[k] = IF k \in keys THEN v ELSE view[c][k]
           /\ \A b \in Workers \ {c} : (wrote[c] \cup keys) \cap held[b] = {}
<1> DEFINE nv == [k \in Keys |-> IF k \in keys THEN v ELSE view[c][k]]
<1>1. /\ view' = [view EXCEPT ![c] = nv]
      /\ wrote' = [wrote EXCEPT ![c] = wrote[c] \cup keys]
      /\ held' = [held EXCEPT ![c] = held[c] \cup keys]
      /\ \A b \in Workers \ {c} : keys \cap held[b] = {}
  BY DEF Leaves
<1>2. \A k \in Keys : nv[k] = IF k \in keys THEN v ELSE view[c][k]
  OBVIOUS
<1>3. view[c] \in [Keys -> Sources \cup {Null, Here, Gone}] /\ IsLinkRows(view[c])
  BY DEF RelationsInvar, TypesInv
<1>4. nv \in [Keys -> Sources \cup {Null, Here, Gone}]
  BY <1>3
<1> HIDE DEF nv
<1>5. IsLinkRows(nv)
  <2>1. ASSUME NEW k \in Sources \cup Pairs PROVE nv[k] \in {Here, Gone}
    BY <1>2, <1>3, KeyKinds, RelationsAssumption DEF IsLinkRows, Keys
  <2>2. ASSUME NEW t \in Targets PROVE nv[t] \in Sources \cup {Null, Gone}
    BY <1>2, <1>3, KeyKinds DEF IsLinkRows
  <2> QED
    BY <1>4, <2>1, <2>2 DEF IsLinkRows
<1>6. held[c] = wrote[c]
  BY DEF RelationsInvar, WroteInv
<1>7. \A b \in Workers \ {c} : wrote[c] \cap held[b] = {}
  BY <1>6 DEF RelationsInvar, LocksInv
<1> QED
  BY <1>1, <1>2, <1>4, <1>5, <1>6, <1>7

\* A statement keeps the invariant if it links to the request's own source only, and
\* only what is there.
LEMMA StatementKeeps ==
  ASSUME RelationsInvar, NEW c \in Workers, job[c].at \notin {"idle"},
         NEW q \in LinkJob, NEW keys \in SUBSET Keys, NEW v, NEW g \in SUBSET Sources,
         Leaves(c, keys, v), job' = [job EXCEPT ![c] = q], gaps' = [gaps EXCEPT ![c] = g],
         UNCHANGED <<rels, onDelete, linkCalls, excused>>,
         v = Gone \/ (v = Here /\ keys \subseteq Pairs) \/ (v \in Sources \cup {Null} /\ keys \subseteq Targets),
         q.op = job[c].op, q.source = job[c].source, q.alone = job[c].alone,
         q.at \notin {"idle", "check", "read"}, StageInv(q),
         job[c].at # "check" \/ q.source = Null,
         g = gaps[c] \/ g = gaps[c] \cup ({q.source} \cap Sources),
         v \in Sources => v = q.source /\ q.op \in {"add", "set"},
         v \in Sources \cup {Null} => \A t \in keys : Newest(c, t) # Gone,
         v = Here => /\ q.op \in {"add", "set"}
                     /\ \E t \in Targets : keys = {<<q.source, t>>}
                     /\ \A b \in Workers \ {c} : q.source \notin gaps[b],
         \A s \in Sources : s \in keys => q.op = "truncate" \/ (q.op = "destroy" /\ s = q.source),
         GapInv(c)', SoFarInv(c)', DestroyInv(c)'
  PROVE  RelationsInvar'
<1>1. PICK nv \in [Keys -> Sources \cup {Null, Here, Gone}] :
        /\ IsLinkRows(nv)
        /\ view' = [view EXCEPT ![c] = nv]
        /\ wrote' = [wrote EXCEPT ![c] = wrote[c] \cup keys]
        /\ held' = [held EXCEPT ![c] = wrote[c] \cup keys]
        /\ \A k \in Keys : nv[k] = IF k \in keys THEN v ELSE view[c][k]
        /\ \A b \in Workers \ {c} : (wrote[c] \cup keys) \cap held[b] = {}
  BY LeavesFacts
<1> DEFINE w == wrote[c] \cup keys
<1>2. Mine(c, q, nv, w, g)
  BY <1>1 DEF Mine
<1>3. WroteInv(c) /\ AloneInv(c) /\ MetInv(c)
  BY DEF RelationsInvar
<1>4. wrote[c] \subseteq Keys
  BY <1>3 DEF WroteInv
<1>5. w \in SUBSET Keys
  BY <1>4
<1>6. \A k \in w : k \in wrote[c] \/ k \in keys
  OBVIOUS
<1>7. \A b \in Workers \ {c} : w \cap held[b] = {}
  BY <1>1
<1>w. wrote[c] \subseteq w /\ keys \subseteq w
  OBVIOUS
<1> HIDE DEF w
<1>8. /\ job'[c] = q /\ view'[c] = nv /\ wrote'[c] = w /\ held'[c] = w /\ gaps'[c] = g
  BY <1>2, MineFacts DEF RelationsInvar
<1>9. IsLinkRows(view[c])
  BY DEF RelationsInvar, TypesInv
<1>10. WroteInv(c)'
  <2>1. ASSUME NEW s \in Sources, s \in w
        PROVE  nv[s] = Gone /\ (q.op = "truncate" \/ (q.op = "destroy" /\ s = q.source))
    <3>1. CASE s \in keys
      <4>1. v = Gone
        BY <3>1, KeyKinds
      <4> QED
        BY <1>1, <3>1, <4>1, KeyKinds
    <3>2. CASE s \notin keys
      <4>1. s \in wrote[c] /\ nv[s] = view[c][s]
        BY <1>1, <1>6, <2>1, <3>2, KeyKinds
      <4> QED
        BY <1>3, <4>1 DEF WroteInv
    <3> QED
      BY <3>1, <3>2
  <2>2. ASSUME NEW t \in Targets, t \in w
        PROVE  /\ nv[t] \in Sources => nv[t] = q.source /\ q.op \in {"add", "set"}
               /\ nv[t] # Gone => rels[t] # Gone
    <3>1. CASE t \in keys
      <4>1. nv[t] = v
        BY <1>1, <3>1, KeyKinds
      <4>2. v # Gone => Newest(c, t) # Gone
        BY <3>1, KeyKinds
      <4>3. Newest(c, t) # Gone => rels[t] # Gone
        BY <1>3 DEF Newest, WroteInv
      <4> QED
        BY <4>1, <4>2, <4>3
    <3>2. CASE t \notin keys
      BY <1>1, <1>3, <1>6, <2>2, <3>2, KeyKinds DEF WroteInv
    <3> QED
      BY <3>1, <3>2
  <2>3. ASSUME NEW s \in Sources, NEW t \in Targets, <<s, t>> \in w, nv[<<s, t>>] = Here
        PROVE  s = q.source /\ q.op \in {"add", "set"}
    <3>1. CASE <<s, t>> \in keys
      <4>1. v = Here
        BY <1>1, <2>3, <3>1, PairIn
      <4> QED
        BY <3>1, <4>1
    <3>2. CASE <<s, t>> \notin keys
      BY <1>1, <1>3, <1>6, <2>3, <3>2, PairIn DEF WroteInv
    <3> QED
      BY <3>1, <3>2
  <2>4. g \subseteq {q.source} \cap Sources
    BY <1>3 DEF WroteInv
  <2> QED
    BY <1>5, <1>8, <2>1, <2>2, <2>3, <2>4 DEF WroteInv
<1>11. AloneInv(c)'
  <2> SUFFICES ASSUME q.source # Null, q.alone, NEW k \in Keys \ w PROVE nv[k] = rels[k]
    BY <1>8 DEF AloneInv
  <2>1. k \notin wrote[c] /\ k \notin keys
    BY <1>w
  <2>2. view[c][k] = rels[k]
    BY <1>3, <2>1 DEF AloneInv
  <2> QED
    BY <1>1, <2>1, <2>2
<1>12. \A b \in Workers \ {c}, t \in Targets : \A s \in gaps[b] :
         <<s, t>> \in w => nv[<<s, t>>] = Gone
  <2> SUFFICES ASSUME NEW b \in Workers \ {c}, NEW t \in Targets, NEW s \in gaps[b], <<s, t>> \in w
               PROVE  nv[<<s, t>>] = Gone
    OBVIOUS
  <2>1. s \in Sources /\ GapInv(b)
    BY DEF RelationsInvar, TypesInv
  <2>2. CASE <<s, t>> \in keys
    <3>1. nv[<<s, t>>] = v
      BY <1>1, <2>1, <2>2, PairIn
    <3>2. v # Here
      BY <2>2
    <3> QED
      BY <2>1, <2>2, <3>1, <3>2, PairIn
  <2>3. CASE <<s, t>> \notin keys
    BY <1>1, <1>6, <2>1, <2>3, PairIn DEF GapInv
  <2> QED
    BY <2>2, <2>3
<1>13. q.source \in Sources \ excused' => rels[q.source] = Here
  BY <1>3, RelationsAssumption DEF MetInv
<1>14. OwnInv(c)'
  BY <1>8, <1>10, <1>11 DEF OwnInv
<1>15. excused' \subseteq Sources /\ excused \subseteq excused'
  BY DEF RelationsInvar, TypesInv
<1> QED
  BY <1>1, <1>2, <1>5, <1>7, <1>12, <1>13, <1>14, <1>15, MineKeeps DEF Doing

\* A step that only turns to another stage.
LEMMA TurnKeeps ==
  ASSUME RelationsInvar, NEW c \in Workers, job[c].at \notin {"idle", "check"},
         NEW q \in LinkJob, job' = [job EXCEPT ![c] = q],
         UNCHANGED <<rels, onDelete, linkCalls, transaction>>,
         excused \subseteq excused', excused' \subseteq Sources,
         q.op = job[c].op, q.source = job[c].source, q.alone = job[c].alone,
         q.at \notin {"idle", "check", "read"}, StageInv(q), SoFarInv(c)', DestroyInv(c)'
  PROVE  RelationsInvar'
<1>1. view[c] \in [Keys -> Sources \cup {Null, Here, Gone}] /\ IsLinkRows(view[c])
      /\ wrote[c] \in SUBSET Keys /\ gaps[c] \in SUBSET Sources /\ held[c] = wrote[c]
  BY DEF RelationsInvar, TypesInv, WroteInv
<1>2. Mine(c, q, view[c], wrote[c], gaps[c])
  BY <1>1 DEF Mine, RelationsInvar, TypesInv, transaction
<1>3. WroteInv(c) /\ AloneInv(c) /\ MetInv(c) /\ GapInv(c)
  BY DEF RelationsInvar
<1>4. job'[c] = q
  BY DEF RelationsInvar, TypesInv
<1>5. WroteInv(c)'
  BY <1>3, <1>4 DEF WroteInv, transaction
<1>6. AloneInv(c)'
  BY <1>3, <1>4 DEF AloneInv, transaction
<1>7. GapInv(c)'
  BY <1>3, <1>4 DEF GapInv, transaction
<1>8. OwnInv(c)'
  BY <1>4, <1>5, <1>6, <1>7 DEF OwnInv
<1>9. \A b \in Workers \ {c} : wrote[c] \cap held[b] = {}
  BY <1>1 DEF RelationsInvar, LocksInv
<1>10. q.source \in Sources \ excused' => rels[q.source] = Here
  BY <1>3 DEF MetInv
<1>11. \A b \in Workers \ {c}, t \in Targets : \A s \in gaps[b] :
         <<s, t>> \in wrote[c] => view[c][<<s, t>>] = Gone
  BY DEF RelationsInvar, GapInv
<1> QED
  BY <1>1, <1>2, <1>8, <1>9, <1>10, <1>11, MineKeeps DEF Doing

-----------------------------------------------------------------------------
(***************************************************************************)
(* The steps.                                                              *)
(***************************************************************************)
\* One lemma for each step.
LEMMA CheckKeeps ==
  ASSUME RelationsInvar, NEW c \in Workers, CheckSource(c)
  PROVE  RelationsInvar'
<1> DEFINE j == job[c]
           q == [j EXCEPT !.at = StageAfterCheck(j),
                          !.link = IF j.op \in {"add", "set"} THEN j.want ELSE {},
                          !.unlink = IF j.op = "remove" THEN j.want ELSE {}]
<1>0. /\ j \in LinkJob /\ j.at = "check" /\ j.source # Null /\ j.source \in Sources
      /\ UNCHANGED <<rels, onDelete, linkCalls, excused>> /\ excused \subseteq Sources
  BY DEF CheckSource, Doing, RelationsInvar, TypesInv, LinkJob
<1>1. CASE Leave(c)
  BY <1>0, <1>1, LeaveKeeps DEF Doing
<1>2. CASE /\ rels[j.source] = Here /\ view' = [view EXCEPT ![c] = rels]
           /\ job' = [job EXCEPT ![c] = q] /\ UNCHANGED <<wrote, held, gaps>>
  <2>1. StageInv(j) /\ WroteInv(c)
    BY DEF RelationsInvar
  <2>2. wrote[c] = {} /\ held[c] = {} /\ gaps[c] = {}
    BY <1>0, <2>1 DEF WroteInv
  <2>3. Mine(c, q, rels, {}, {})
    BY <1>2, <2>2 DEF Mine, RelationsInvar, TypesInv
  <2>4. j.op \in {"add", "set", "remove", "destroy"}
    BY <1>0, <2>1 DEF StageInv, LinkJob
  <2>5. q \in LinkJob /\ q.op = j.op /\ q.source = j.source /\ q.alone = j.alone /\ q.want = j.want
        /\ q.field = j.field /\ q.at = StageAfterCheck(j)
        /\ q.link = (IF j.op \in {"add", "set"} THEN j.want ELSE {})
        /\ q.unlink = (IF j.op = "remove" THEN j.want ELSE {})
    BY <1>0, <2>4 DEF LinkJob, StageAfterCheck, LinkStages
  <2>6. q.at \in {"read", "unlink", "clear", "link"}
    BY <2>5 DEF StageAfterCheck
  <2> HIDE DEF q
  <2>7. /\ job'[c] = q /\ view'[c] = rels /\ wrote'[c] = {} /\ held'[c] = {} /\ gaps'[c] = {}
        /\ rels' = rels
    BY <1>0, <2>3, MineFacts DEF RelationsInvar
  <2>8. StageInv(q)
    <3>1. j.field \in {"hasMany", "belongsToMany"} /\ (j.op = "destroy" => j.field = "hasMany")
      BY <1>0, <2>1 DEF StageInv, LinkJob
    <3>2. CASE j.op = "add"
      BY <1>0, <2>5, <3>1, <3>2 DEF StageInv, StageAfterCheck, UnlinksAll
    <3>3. CASE j.op = "set"
      BY <1>0, <2>5, <3>1, <3>3 DEF StageInv, StageAfterCheck, UnlinksAll
    <3>4. CASE j.op = "remove"
      BY <1>0, <2>5, <3>1, <3>4 DEF StageInv, StageAfterCheck, UnlinksAll
    <3>5. CASE j.op = "destroy"
      BY <1>0, <2>5, <3>1, <3>5 DEF StageInv, StageAfterCheck, UnlinksAll
    <3> QED
      BY <2>4, <3>2, <3>3, <3>4, <3>5
  <2>9. WroteInv(c)' /\ AloneInv(c)' /\ GapInv(c)'
    BY <2>7 DEF WroteInv, AloneInv, GapInv
  <2>10. SoFarInv(c)'
    <3>1. q.op \in {"add", "set"} /\ q.at \in {"link", "commit"} => q.want \ q.link = {}
      BY <2>5
    <3>2. q.op = "remove" /\ q.at \in {"unlink", "link", "commit"} => q.want \ q.unlink = {}
      BY <2>5
    <3>3. UnlinksAll(q) => q.at \in {"read", "clear"}
      BY <2>4, <2>5 DEF UnlinksAll, StageAfterCheck
    <3> QED
      BY <2>7, <3>1, <3>2, <3>3 DEF SoFarInv, LinkKey
  <2>11. q.op = "destroy" => q.at = "read"
    BY <2>5 DEF StageAfterCheck
  <2>12. DestroyInv(c)'
    BY <2>7, <2>11 DEF DestroyInv
  <2>13. OwnInv(c)'
    BY <2>7, <2>8, <2>9, <2>10, <2>12 DEF OwnInv
  <2>14. rels \in [Keys -> Sources \cup {Null, Here, Gone}] /\ IsLinkRows(rels)
    BY DEF RelationsInvar, TypesInv, IsLinkRows
  <2> DEFINE w == {}
  <2>15. w \in SUBSET Keys /\ w \in SUBSET Sources /\ w = {} /\ \A b \in Workers : w \cap held[b] = {}
    OBVIOUS
  <2> HIDE DEF w
  <2> QED
    BY <1>0, <1>2, <2>3, <2>5, <2>7, <2>13, <2>14, <2>15, MineKeeps DEF Doing
<1> QED
  BY <1>1, <1>2 DEF CheckSource

LEMMA ReadKeeps ==
  ASSUME RelationsInvar, NEW c \in Workers, ReadLinked(c)
  PROVE  RelationsInvar'
<1> DEFINE j == job[c]
           s == j.source
           linked == LinkedIn(view[c], s)
           size == IF Cardinality(linked) < MaxPage THEN Cardinality(linked) ELSE MaxPage
           destroys == j.op = "destroy"
<1>0. /\ j \in LinkJob /\ j.at = "read" /\ UNCHANGED <<rels, onDelete, linkCalls>>
      /\ excused \subseteq Sources /\ StageInv(j) /\ WroteInv(c) /\ AloneInv(c) /\ DestroyInv(c)
  BY DEF ReadLinked, Doing, RelationsInvar, TypesInv
<1>1. CASE Leave(c) /\ UNCHANGED excused
  BY <1>0, <1>1, LeaveKeeps DEF Doing
<1>2. CASE /\ \E page \in {p \in SUBSET linked : Cardinality(p) = size} :
                job' = [job EXCEPT ![c] =
                  [job[c] EXCEPT !.unlink = page, !.whole = page = linked,
                     !.at = IF destroys /\ onDelete = "CASCADE" THEN "cascade" ELSE "unlink"]]
           /\ excused' = IF destroys /\ size < Cardinality(linked) THEN excused \cup {s} ELSE excused
           /\ UNCHANGED transaction
  <2>1. PICK page \in SUBSET linked :
          /\ Cardinality(page) = size
          /\ job' = [job EXCEPT ![c] =
               [job[c] EXCEPT !.unlink = page, !.whole = page = linked,
                  !.at = IF destroys /\ onDelete = "CASCADE" THEN "cascade" ELSE "unlink"]]
    BY <1>2
  <2> DEFINE q == [job[c] EXCEPT !.unlink = page, !.whole = page = linked,
                     !.at = IF destroys /\ onDelete = "CASCADE" THEN "cascade" ELSE "unlink"]
  <2>2. linked \subseteq Targets /\ \A t \in Targets : t \in linked <=> view[c][t] = s
    BY DEF LinkedIn
  <2>3. IsFiniteSet(linked) /\ Cardinality(linked) \in Nat
    <3>1. linked \in SUBSET Targets /\ IsFiniteSet(Targets)
      BY <2>2, RelationsAssumption
    <3>2. IsFiniteSet(linked)
      BY <3>1, FS_Subset
    <3> QED
      BY <3>2, FS_CardinalityType
  <2>4. Cardinality(page) = Cardinality(linked) => page = linked
    BY <2>1, <2>3, FS_Subset
  <2>5. ~(size < Cardinality(linked)) => page = linked
    <3> DEFINE n == Cardinality(linked)
    <3>1. n \in Nat /\ MaxPage \in Nat /\ Cardinality(page) = IF n < MaxPage THEN n ELSE MaxPage
      BY <2>1, <2>3, RelationsAssumption
    <3>2. ~((IF n < MaxPage THEN n ELSE MaxPage) < n) => page = linked
      <4> SUFFICES ASSUME ~((IF n < MaxPage THEN n ELSE MaxPage) < n) PROVE Cardinality(page) = n
        BY <2>4
      <4> HIDE DEF n
      <4> QED
        BY <3>1
    <3> QED
      BY <3>2
  <2>6. /\ q \in LinkJob /\ q.op = j.op /\ q.source = s /\ q.alone = j.alone /\ q.want = j.want
        /\ q.field = j.field /\ q.link = j.link /\ q.unlink = page /\ q.whole = (page = linked)
        /\ q.at = IF destroys /\ onDelete = "CASCADE" THEN "cascade" ELSE "unlink"
    BY <1>0, <2>2 DEF LinkJob, LinkStages
  <2>7. job' = [job EXCEPT ![c] = q]
    BY <2>1
  <2>8. s \in Sources
    BY <1>0 DEF StageInv, LinkJob, LinkStages
  <2>9. excused \subseteq excused' /\ excused' \subseteq Sources
    BY <1>0, <1>2, <2>8
  <2>10. destroys /\ s \notin excused' => page = linked
    BY <1>2, <2>5
  <2> HIDE DEF q, linked, size
  <2>11. q.at \in {"unlink", "cascade"} /\ (q.at = "cascade" => j.op = "destroy")
    BY <2>6
  <2>12. StageInv(q)
    BY <1>0, <2>6, <2>11 DEF StageInv, UnlinksAll, LinkJob, LinkStages
  <2>13. job'[c] = q /\ UNCHANGED <<view, wrote, held, gaps>>
    BY <1>2, <2>7 DEF RelationsInvar, TypesInv, transaction
  <2>14. wrote[c] = {}
    BY <1>0 DEF WroteInv
  <2>15. SoFarInv(c)'
    <3>1. j.op # "remove" \/ j.want = {}
      BY <1>0 DEF StageInv, UnlinksAll
    <3>2. ASSUME UnlinksAll(q), Exact(q), NEW t \in Targets, rels[t] = s PROVE t \in page
      <4>1. j.alone /\ page = linked
        BY <1>0, <2>6, <3>2 DEF Exact, StageInv
      <4>2. view[c][t] = rels[t]
        BY <1>0, <2>8, <2>14, <4>1, KeyKinds, RelationsAssumption DEF AloneInv
      <4> QED
        BY <2>2, <3>2, <4>1, <4>2
    <3> QED
      BY <1>0, <2>6, <2>11, <2>13, <2>14, <3>1, <3>2 DEF SoFarInv, LinkKey, Newest
  <2>16. DestroyInv(c)'
    BY <1>0, <2>2, <2>6, <2>9, <2>10, <2>11, <2>13, <2>14 DEF DestroyInv, Newest
  <2> QED
    BY <1>0, <1>2, <2>6, <2>7, <2>9, <2>11, <2>12, <2>15, <2>16, TurnKeeps
<1> QED
  BY <1>1, <1>2 DEF ReadLinked

LEMMA AfterUnlinkKeeps ==
  ASSUME RelationsInvar, NEW c \in Workers, AfterUnlink(c)
  PROVE  RelationsInvar'
<1> DEFINE j == job[c]
           q == [j EXCEPT !.at = IF j.op = "destroy" THEN "clear" ELSE "link"]
<1>0. /\ j \in LinkJob /\ j.at = "unlink" /\ j.unlink = {}
      /\ UNCHANGED <<rels, onDelete, transaction, linkCalls, excused>>
      /\ excused \subseteq Sources /\ StageInv(j) /\ SoFarInv(c) /\ DestroyInv(c)
      /\ job' = [job EXCEPT ![c] = q]
  BY DEF AfterUnlink, Turn, Doing, RelationsInvar, TypesInv
<1>1. /\ q \in LinkJob /\ q.op = j.op /\ q.source = j.source /\ q.alone = j.alone /\ q.want = j.want
      /\ q.field = j.field /\ q.link = j.link /\ q.unlink = {} /\ q.whole = j.whole
      /\ q.at = IF j.op = "destroy" THEN "clear" ELSE "link"
  BY <1>0 DEF LinkJob, LinkStages
<1> HIDE DEF q
<1>2. job'[c] = q /\ UNCHANGED <<view, wrote, held, gaps>>
  BY <1>0 DEF RelationsInvar, TypesInv, transaction
<1>3. StageInv(q)
  BY <1>0, <1>1 DEF StageInv, UnlinksAll, LinkJob, LinkStages
<1>4. ASSUME UnlinksAll(q), Exact(q), NEW t \in Targets PROVE t \notin LinksOf(c)'
  BY <1>0, <1>1, <1>2, <1>4 DEF SoFarInv, LinkKey, UnlinksAll, Exact, StageInv, LinksOf, Newest
<1>5. SoFarInv(c)'
  <2>1. LinksOf(c)' = LinksOf(c)
    BY <1>0, <1>1, <1>2 DEF LinksOf, Newest
  <2>2. q.op \in {"add", "set"} => q.want \ q.link = {}
    BY <1>0, <1>1 DEF StageInv
  <2>3. LinksOf(c)' \subseteq Targets
    BY DEF LinksOf
  <2>4. UnlinksAll(q) => q.field = "hasMany" /\ q.at # "unlink"
    BY <1>0, <1>1 DEF StageInv, UnlinksAll
  <2>5. ASSUME q.op = "remove", NEW t \in q.want
        PROVE  /\ t \notin LinksOf(c)'
               /\ LinkKey(q, t) \in wrote[c] \/ (q.field = "hasMany" /\ Newest(c, t)' = Gone)
    BY <1>0, <1>1, <1>2, <2>1, <2>5 DEF SoFarInv, LinkKey, Newest
  <2> QED
    BY <1>1, <1>2, <1>4, <2>2, <2>3, <2>4, <2>5 DEF SoFarInv
<1>6. DestroyInv(c)'
  BY <1>0, <1>1, <1>2 DEF DestroyInv, Newest
<1> QED
  BY <1>0, <1>1, <1>3, <1>5, <1>6, TurnKeeps

LEMMA AfterLinkKeeps ==
  ASSUME RelationsInvar, NEW c \in Workers, AfterLink(c)
  PROVE  RelationsInvar'
<1> DEFINE j == job[c]
           q == [j EXCEPT !.at = "commit"]
<1>0. /\ j \in LinkJob /\ j.at = "link" /\ j.link = {}
      /\ UNCHANGED <<rels, onDelete, transaction, linkCalls, excused>>
      /\ excused \subseteq Sources /\ StageInv(j) /\ SoFarInv(c) /\ DestroyInv(c)
      /\ job' = [job EXCEPT ![c] = q]
  BY DEF AfterLink, Turn, Doing, RelationsInvar, TypesInv
<1>1. /\ q \in LinkJob /\ q.op = j.op /\ q.source = j.source /\ q.alone = j.alone /\ q.want = j.want
      /\ q.field = j.field /\ q.link = {} /\ q.unlink = j.unlink /\ q.whole = j.whole
      /\ q.at = "commit"
  BY <1>0 DEF LinkJob, LinkStages
<1> HIDE DEF q
<1>2. job'[c] = q /\ UNCHANGED <<view, wrote, held, gaps>>
  BY <1>0 DEF RelationsInvar, TypesInv, transaction
<1>3. StageInv(q)
  BY <1>0, <1>1 DEF StageInv, UnlinksAll, LinkJob, LinkStages
<1>4. LinksOf(c)' = LinksOf(c)
  BY <1>0, <1>1, <1>2 DEF LinksOf, Newest
<1>5. SoFarInv(c)'
  BY <1>0, <1>1, <1>2, <1>4 DEF SoFarInv, LinkKey, UnlinksAll, Exact, Newest
<1>6. DestroyInv(c)'
  BY <1>0, <1>1, <1>2 DEF DestroyInv, StageInv
<1> QED
  BY <1>0, <1>1, <1>3, <1>5, <1>6, TurnKeeps

\* What the request finds after its statement.
LEMMA NewestAfter ==
  ASSUME RelationsInvar, NEW c \in Workers, NEW keys \in SUBSET Keys, NEW v, Leaves(c, keys, v),
         rels' = rels
  PROVE  /\ \A k \in Keys : Newest(c, k)' = IF k \in keys THEN v ELSE Newest(c, k)
         /\ wrote'[c] = wrote[c] \cup keys
         /\ \A b \in Workers \ {c} : wrote'[b] = wrote[b] /\ view'[b] = view[b] /\ held'[b] = held[b]
BY DEF Leaves, Newest, RelationsInvar, TypesInv

\* The links of a request after one that it has made or cut.
LEMMA LinksAfter ==
  ASSUME RelationsInvar, NEW c \in Workers, NEW t \in Targets, NEW v,
         job[c].source \in Sources, Leaves(c, {LinkKey(job[c], t)}, v), rels' = rels,
         job'[c].field = job[c].field, job'[c].source = job[c].source
  PROVE  /\ LinkKey(job[c], t) \in Keys
         /\ \A x \in Targets : x # t => (x \in LinksOf(c)' <=> x \in LinksOf(c))
         /\ t \in LinksOf(c)' <=> v = IF job[c].field = "hasMany" THEN job[c].source ELSE Here
         /\ LinksOf(c)' \subseteq Targets
<1> DEFINE q == job[c]
<1>1. LinkKey(q, t) \in Keys
  BY PairIn, KeyKinds DEF LinkKey
<1>2. \A k \in Keys : Newest(c, k)' = IF k = LinkKey(q, t) THEN v ELSE Newest(c, k)
  BY <1>1, NewestAfter
<1>3. CASE q.field = "hasMany"
  BY <1>2, <1>3, KeyKinds DEF LinkKey, LinksOf
<1>4. CASE q.field # "hasMany"
  BY <1>2, <1>4, PairIn DEF LinkKey, LinksOf
<1> QED
  BY <1>1, <1>3, <1>4

\* The locks on ranges hold whatever else a request writes.
LEMMA GapStays ==
  ASSUME RelationsInvar, NEW c \in Workers, NEW keys \in SUBSET Keys, NEW v, Leaves(c, keys, v),
         rels' = rels, gaps'[c] = gaps[c]
  PROVE  GapInv(c)'
<1>1. GapInv(c)
  BY DEF RelationsInvar
<1> QED
  BY <1>1, NewestAfter DEF GapInv

LEMMA UnlinkKeeps ==
  ASSUME RelationsInvar, NEW c \in Workers, UnlinkOne(c)
  PROVE  RelationsInvar'
<1> DEFINE j == job[c]
<1>1. PICK t \in j.unlink :
        /\ IF j.field = "hasMany" THEN UpdateTarget(c, t, Null)
           ELSE Leaves(c, {<<j.source, t>>}, Gone) /\ UNCHANGED gaps
        /\ job' = [job EXCEPT ![c] = [j EXCEPT !.unlink = j.unlink \ {t}]]
  BY DEF UnlinkOne
<1> DEFINE q == [j EXCEPT !.unlink = j.unlink \ {t}]
<1>2. /\ j \in LinkJob /\ j.at = "unlink" /\ t \in Targets /\ j.unlink \subseteq Targets
      /\ UNCHANGED <<rels, onDelete, linkCalls, excused>>
      /\ excused \subseteq Sources /\ StageInv(j) /\ SoFarInv(c) /\ DestroyInv(c)
      /\ gaps[c] \in SUBSET Sources
  BY <1>1 DEF UnlinkOne, Doing, RelationsInvar, TypesInv, LinkJob
<1>3. /\ q \in LinkJob /\ q.op = j.op /\ q.source = j.source /\ q.alone = j.alone /\ q.want = j.want
      /\ q.field = j.field /\ q.link = j.link /\ q.unlink = j.unlink \ {t} /\ q.whole = j.whole
      /\ q.at = "unlink" /\ job' = [job EXCEPT ![c] = q]
  BY <1>1, <1>2 DEF LinkJob, LinkStages
<1>4. /\ j.source \in Sources /\ j.op # "add" /\ j.field \in {"hasMany", "belongsToMany"}
      /\ j.source # Null /\ j.source # Gone /\ Null # Gone /\ Gone # Here
  BY <1>2, RelationsAssumption DEF StageInv, LinkJob, LinkStages
<1> HIDE DEF q
<1>5. job'[c] = q
  BY <1>3 DEF RelationsInvar, TypesInv
<1>6. StageInv(q)
  BY <1>2, <1>3 DEF StageInv, UnlinksAll, LinkJob, LinkStages
<1>7. CASE Leaves(c, {LinkKey(j, t)}, IF j.field = "hasMany" THEN Null ELSE Gone) /\ UNCHANGED gaps
           /\ (j.field = "hasMany" => Newest(c, t) # Gone)
  <2> DEFINE v == IF j.field = "hasMany" THEN Null ELSE Gone
             keys == {LinkKey(j, t)}
  <2>1. keys \in SUBSET Keys /\ (j.field = "hasMany" => keys = {t}) /\ (j.field # "hasMany" => keys = {<<j.source, t>>})
    BY <1>4, PairIn, KeyKinds, <1>2 DEF LinkKey
  <2>0. /\ keys = {LinkKey(j, t)} /\ (j.field = "hasMany" => v = Null) /\ (j.field # "hasMany" => v = Gone)
        /\ Leaves(c, keys, v) /\ v # IF j.field = "hasMany" THEN j.source ELSE Here
    BY <1>4, <1>7
  <2> HIDE DEF v, keys
  <2>2. /\ \A k \in Keys : Newest(c, k)' = IF k \in keys THEN v ELSE Newest(c, k)
        /\ wrote'[c] = wrote[c] \cup keys
    <3>1. keys \in SUBSET Keys /\ Leaves(c, keys, v) /\ rels' = rels
      BY <1>2, <2>0, <2>1
    <3> QED
      BY <3>1, NewestAfter
  <2>3. wrote'[c] = wrote[c] \cup keys
    BY <2>2
  <2>4. /\ \A x \in Targets : x # t => (x \in LinksOf(c)' <=> x \in LinksOf(c))
        /\ t \notin LinksOf(c)' /\ LinksOf(c)' \subseteq Targets
    <3>1. Leaves(c, {LinkKey(job[c], t)}, v)
      BY <2>0
    <3> QED
      BY <1>2, <1>3, <1>4, <1>5, <2>0, <3>1, LinksAfter
  <2>5. SoFarInv(c)'
    <3>1. ASSUME q.op = "remove", NEW x \in q.want \ q.unlink
          PROVE  /\ x \notin LinksOf(c)'
                 /\ LinkKey(q, x) \in wrote'[c] \/ (q.field = "hasMany" /\ Newest(c, x)' = Gone)
      <4>1. CASE x = t
        <5>1. LinkKey(q, x) = LinkKey(j, t)
          BY <1>3, <4>1 DEF LinkKey
        <5> QED
          BY <2>0, <2>3, <2>4, <4>1, <5>1
      <4>2. CASE x # t
        <5>1. x \in Targets /\ x \in j.want \ j.unlink
          BY <1>2, <1>3, <3>1, <4>2 DEF LinkJob
        <5>2. x \notin LinksOf(c) /\ (LinkKey(j, x) \in wrote[c] \/ (j.field = "hasMany" /\ Newest(c, x) = Gone))
          BY <1>2, <1>3, <3>1, <5>1 DEF SoFarInv
        <5>3. j.field = "hasMany" => Newest(c, x)' = Newest(c, x)
          BY <2>1, <2>2, <4>2, <5>1, KeyKinds
        <5>4. LinkKey(q, x) = LinkKey(j, x)
          BY <1>3 DEF LinkKey
        <5> QED
          BY <1>3, <2>3, <2>4, <4>2, <5>1, <5>2, <5>3, <5>4
      <4> QED
        BY <4>1, <4>2
    <3>2. ASSUME UnlinksAll(q), Exact(q), NEW x \in Targets, Newest(c, x)' = q.source PROVE x \in q.unlink
      <4>1. UnlinksAll(j) /\ Exact(j) /\ j.field = "hasMany"
        BY <1>2, <1>3, <3>2 DEF UnlinksAll, Exact, StageInv
      <4>2. x # t
        BY <1>3, <1>4, <2>0, <2>1, <2>2, <3>2, <4>1, KeyKinds
      <4>3. Newest(c, x) = j.source
        BY <1>3, <2>1, <2>2, <3>2, <4>1, <4>2, KeyKinds
      <4> QED
        BY <1>2, <1>3, <4>1, <4>2, <4>3 DEF SoFarInv
    <3> QED
      BY <1>3, <1>5, <3>1, <3>2, <1>4 DEF SoFarInv
  <2>6. DestroyInv(c)'
    <3> SUFFICES ASSUME q.op = "destroy", q.source \notin excused, NEW x \in Targets, Newest(c, x)' = q.source
                 PROVE  x \in q.unlink
      BY <1>2, <1>3, <1>5 DEF DestroyInv
    <3>1. j.field = "hasMany"
      BY <1>2, <1>3 DEF StageInv
    <3>2. x # t
      BY <1>3, <1>4, <2>0, <2>1, <2>2, <3>1, KeyKinds
    <3>3. Newest(c, x) = j.source
      BY <1>3, <2>1, <2>2, <3>1, <3>2, KeyKinds
    <3> QED
      BY <1>2, <1>3, <3>2, <3>3 DEF DestroyInv
  <2>7. GapInv(c)' /\ gaps' = [gaps EXCEPT ![c] = gaps[c]]
    BY <1>2, <1>7, <2>0, <2>1, GapStays DEF RelationsInvar, TypesInv
  <2>8. v = Gone \/ (v \in Sources \cup {Null} /\ keys \subseteq Targets)
    BY <2>0, <2>1, <1>2
  <2>9. v \in Sources \cup {Null} => \A x \in keys : Newest(c, x) # Gone
    BY <1>7, <2>0, <2>1, RelationsAssumption
  <2>10. v \notin Sources /\ v # Here /\ \A s \in Sources : s \notin keys
    <3>1. v \notin Sources /\ v # Here
      BY <2>0, RelationsAssumption
    <3>2. \A s \in Sources : s \notin keys
      BY <1>2, <1>4, <2>1, KeyKinds, PairIn
    <3> QED
      BY <3>1, <3>2
  <2>12. /\ job[c].at \notin {"idle", "check"} /\ q \in LinkJob /\ q.at \notin {"idle", "check", "read"}
         /\ q.op = job[c].op /\ q.source = job[c].source /\ q.alone = job[c].alone
         /\ job' = [job EXCEPT ![c] = q] /\ UNCHANGED <<rels, onDelete, linkCalls, excused>>
    BY <1>2, <1>3
  <2>13. gaps[c] \in SUBSET Sources
    BY <1>2
  <2> QED
    BY <1>6, <2>0, <2>1, <2>5, <2>6, <2>7, <2>8, <2>9, <2>10, <2>12, <2>13, StatementKeeps
<1>8. CASE Newest(c, t) = Gone /\ UNCHANGED transaction /\ j.field = "hasMany"
  <2>1. UNCHANGED <<view, wrote, held, gaps>>
    BY <1>8 DEF transaction
  <2>2. LinksOf(c)' = LinksOf(c) /\ t \notin LinksOf(c)
    <3>1. LinksOf(c) = {x \in Targets : Newest(c, x) = j.source}
      BY <1>8 DEF LinksOf
    <3>2. LinksOf(c)' = {x \in Targets : Newest(c, x)' = j.source}
      BY <1>3, <1>5, <1>8 DEF LinksOf
    <3>3. \A x \in Targets : Newest(c, x)' = Newest(c, x)
      BY <1>2, <2>1 DEF Newest
    <3>4. LinksOf(c)' = LinksOf(c)
      BY <3>1, <3>2, <3>3
    <3> QED
      BY <1>4, <1>8, <3>1, <3>4
  <2>3. SoFarInv(c)'
    <3>1. ASSUME q.op = "remove", NEW x \in q.want \ q.unlink
          PROVE  /\ x \notin LinksOf(c)'
                 /\ LinkKey(q, x) \in wrote'[c] \/ (q.field = "hasMany" /\ Newest(c, x)' = Gone)
      <4>1. CASE x = t
        BY <1>2, <1>3, <1>8, <2>1, <2>2, <4>1 DEF Newest
      <4>2. CASE x # t
        BY <1>2, <1>3, <2>1, <2>2, <3>1, <4>2 DEF SoFarInv, LinkKey, Newest
      <4> QED
        BY <4>1, <4>2
    <3>2. ASSUME UnlinksAll(q), Exact(q), NEW x \in Targets, Newest(c, x)' = q.source PROVE x \in q.unlink
      <4>1. Newest(c, x) = j.source /\ x # t /\ UnlinksAll(j) /\ Exact(j)
        <5>1. Newest(c, x)' = Newest(c, x)
          BY <1>2, <2>1 DEF Newest
        <5>2. UnlinksAll(j) /\ Exact(j)
          BY <1>3, <3>2 DEF UnlinksAll, Exact
        <5> QED
          BY <1>3, <1>4, <1>8, <3>2, <5>1, <5>2
      <4> QED
        BY <1>2, <1>3, <4>1 DEF SoFarInv
    <3> QED
      BY <1>3, <1>5, <3>1, <3>2 DEF SoFarInv
  <2>4. DestroyInv(c)'
    <3>1. \A x \in Keys : Newest(c, x)' = Newest(c, x)
      BY <1>2, <2>1 DEF Newest
    <3> QED
      BY <1>2, <1>3, <1>4, <1>5, <1>8, <3>1, KeyKinds DEF DestroyInv
  <2>5. UNCHANGED <<rels, onDelete, linkCalls, transaction>> /\ excused \subseteq excused' /\ excused' \subseteq Sources
    BY <1>2, <1>8
  <2> QED
    BY <1>2, <1>3, <1>6, <2>3, <2>4, <2>5, TurnKeeps
<1> QED
  <2>1. CASE j.field = "hasMany"
    BY <1>1, <1>7, <1>8, <2>1 DEF UpdateTarget, LinkKey
  <2>2. CASE j.field # "hasMany"
    BY <1>1, <1>7, <2>2 DEF LinkKey
  <2> QED
    BY <2>1, <2>2

LEMMA LinkKeeps ==
  ASSUME RelationsInvar, NEW c \in Workers, LinkOne(c)
  PROVE  RelationsInvar'
<1> DEFINE j == job[c]
<1>1. PICK t \in j.link :
        /\ IF j.field = "hasMany" THEN UpdateTarget(c, t, j.source) ELSE InsertPair(c, t)
        /\ job' = [job EXCEPT ![c] = [j EXCEPT !.link = j.link \ {t}]]
  BY DEF LinkOne
<1> DEFINE q == [j EXCEPT !.link = j.link \ {t}]
<1>2. /\ j \in LinkJob /\ j.at = "link" /\ t \in Targets /\ j.link \subseteq Targets
      /\ UNCHANGED <<rels, onDelete, linkCalls, excused>>
      /\ excused \subseteq Sources /\ StageInv(j) /\ SoFarInv(c)
      /\ gaps[c] \in SUBSET Sources
  BY <1>1 DEF LinkOne, Doing, RelationsInvar, TypesInv, LinkJob
<1>3. /\ q \in LinkJob /\ q.op = j.op /\ q.source = j.source /\ q.alone = j.alone /\ q.want = j.want
      /\ q.field = j.field /\ q.link = j.link \ {t} /\ q.unlink = j.unlink /\ q.whole = j.whole
      /\ q.at = "link" /\ job' = [job EXCEPT ![c] = q]
  BY <1>1, <1>2 DEF LinkJob, LinkStages
<1>4. /\ j.source \in Sources /\ j.op \in {"add", "set"} /\ j.field \in {"hasMany", "belongsToMany"}
      /\ j.source # Null /\ j.source # Gone /\ Here # Gone /\ t \in j.want
  BY <1>1, <1>2, RelationsAssumption DEF StageInv, LinkJob, LinkStages
<1> HIDE DEF q
<1>5. job'[c] = q
  BY <1>3 DEF RelationsInvar, TypesInv
<1>6. StageInv(q)
  BY <1>2, <1>3 DEF StageInv, UnlinksAll, LinkJob, LinkStages
<1>7. DestroyInv(c)'
  BY <1>3, <1>4, <1>5 DEF DestroyInv
<1>8. CASE /\ Leaves(c, {LinkKey(j, t)}, IF j.field = "hasMany" THEN j.source ELSE Here)
           /\ UNCHANGED gaps
           /\ j.field = "hasMany" => Newest(c, t) # Gone
           /\ j.field # "hasMany" => \A b \in Workers \ {c} : j.source \notin gaps[b]
  <2> DEFINE v == IF j.field = "hasMany" THEN j.source ELSE Here
             keys == {LinkKey(j, t)}
  <2>1. keys \in SUBSET Keys /\ (j.field = "hasMany" => keys = {t}) /\ (j.field # "hasMany" => keys = {<<j.source, t>>})
    BY <1>4, PairIn, KeyKinds, <1>2 DEF LinkKey
  <2>0. /\ keys = {LinkKey(j, t)} /\ v = IF j.field = "hasMany" THEN j.source ELSE Here
        /\ Leaves(c, keys, v)
    BY <1>4, <1>8
  <2> HIDE DEF v, keys
  <2>2. /\ \A k \in Keys : Newest(c, k)' = IF k \in keys THEN v ELSE Newest(c, k)
        /\ wrote'[c] = wrote[c] \cup keys
    <3>1. keys \in SUBSET Keys /\ Leaves(c, keys, v) /\ rels' = rels
      BY <1>2, <2>0, <2>1
    <3> QED
      BY <3>1, NewestAfter
  <2>3. wrote'[c] = wrote[c] \cup keys
    BY <2>2
  <2>4. /\ \A x \in Targets : x # t => (x \in LinksOf(c)' <=> x \in LinksOf(c))
        /\ t \in LinksOf(c)' /\ LinksOf(c)' \subseteq Targets
    <3>1. Leaves(c, {LinkKey(job[c], t)}, v)
      BY <2>0
    <3> QED
      BY <1>2, <1>3, <1>4, <1>5, <2>0, <3>1, LinksAfter
  <2>5. SoFarInv(c)'
    <3>1. ASSUME NEW x \in q.want \ q.link
          PROVE  (LinkKey(q, x) \in wrote'[c] /\ x \in LinksOf(c)') \/ Newest(c, x)' = Gone
      <4>1. CASE x = t
        <5>1. LinkKey(q, x) = LinkKey(j, t)
          BY <1>3, <4>1 DEF LinkKey
        <5> QED
          BY <2>0, <2>3, <2>4, <4>1, <5>1
      <4>2. CASE x # t
        <5>1. x \in Targets /\ x \in j.want \ j.link
          BY <1>2, <1>3, <3>1, <4>2 DEF LinkJob
        <5>2. (LinkKey(j, x) \in wrote[c] /\ x \in LinksOf(c)) \/ Newest(c, x) = Gone
          BY <1>2, <1>4, <5>1 DEF SoFarInv
        <5>3. Newest(c, x)' = Newest(c, x)
          BY <1>4, <2>1, <2>2, <4>2, <5>1, KeyKinds, PairIn, <1>2
        <5>4. LinkKey(q, x) = LinkKey(j, x)
          BY <1>3 DEF LinkKey
        <5> QED
          BY <2>3, <2>4, <4>2, <5>1, <5>2, <5>3, <5>4
      <4> QED
        BY <4>1, <4>2
    <3>2. ASSUME UnlinksAll(q), Exact(q) PROVE LinksOf(c)' \subseteq q.want
      <4>1. UnlinksAll(j) /\ Exact(j)
        BY <1>3, <3>2 DEF UnlinksAll, Exact
      <4>2. LinksOf(c) \subseteq j.want
        BY <1>2, <4>1 DEF SoFarInv
      <4> QED
        BY <1>3, <1>4, <2>4, <4>2
    <3>3. ASSUME UnlinksAll(q), q.field = "belongsToMany" PROVE q.source \in gaps'[c]
      <4>1. UnlinksAll(j)
        BY <1>3, <3>3 DEF UnlinksAll
      <4> QED
        BY <1>2, <1>3, <1>8, <3>3, <4>1 DEF SoFarInv
    <3> QED
      BY <1>3, <1>5, <3>1, <3>2, <3>3, <1>4 DEF SoFarInv
  <2>6. GapInv(c)' /\ gaps' = [gaps EXCEPT ![c] = gaps[c]]
    BY <1>2, <1>8, <2>0, <2>1, GapStays DEF RelationsInvar, TypesInv
  <2>7. (v = Here /\ keys \subseteq Pairs) \/ (v \in Sources \cup {Null} /\ keys \subseteq Targets)
    BY <2>0, <2>1, <1>2, <1>4, PairIn
  <2>8. v \in Sources \cup {Null} => \A x \in keys : Newest(c, x) # Gone
    BY <1>8, <2>0, <2>1, RelationsAssumption
  <2>9. v \in Sources => v = q.source
    BY <1>3, <2>0, RelationsAssumption
  <2>10. v = Here => /\ \E x \in Targets : keys = {<<q.source, x>>}
                     /\ \A b \in Workers \ {c} : q.source \notin gaps[b]
    <3>1. j.source # Here
      BY <1>4, RelationsAssumption
    <3> QED
      BY <1>2, <1>3, <1>8, <2>0, <2>1, <3>1
  <2>11. \A s \in Sources : s \notin keys
    BY <1>2, <1>4, <2>1, KeyKinds, PairIn
  <2>12. /\ job[c].at \notin {"idle", "check"} /\ q \in LinkJob /\ q.at \notin {"idle", "check", "read"}
         /\ q.op = job[c].op /\ q.source = job[c].source /\ q.alone = job[c].alone
         /\ job' = [job EXCEPT ![c] = q] /\ UNCHANGED <<rels, onDelete, linkCalls, excused>>
         /\ q.op \in {"add", "set"}
    BY <1>2, <1>3, <1>4
  <2>13. gaps[c] \in SUBSET Sources
    BY <1>2
  <2> QED
    BY <1>6, <1>7, <2>0, <2>1, <2>5, <2>6, <2>7, <2>8, <2>9, <2>10, <2>11, <2>12, <2>13, StatementKeeps
<1>9. CASE Newest(c, t) = Gone /\ UNCHANGED transaction /\ j.field = "hasMany"
  <2>1. UNCHANGED <<view, wrote, held, gaps>>
    BY <1>9 DEF transaction
  <2>2. \A x \in Keys : Newest(c, x)' = Newest(c, x)
    BY <1>2, <2>1 DEF Newest
  <2>3. LinksOf(c)' = LinksOf(c)
    <3>1. LinksOf(c) = {x \in Targets : Newest(c, x) = j.source}
      BY <1>9 DEF LinksOf
    <3>2. LinksOf(c)' = {x \in Targets : Newest(c, x)' = j.source}
      BY <1>3, <1>5, <1>9 DEF LinksOf
    <3> QED
      BY <2>2, <3>1, <3>2, KeyKinds
  <2>4. SoFarInv(c)'
    <3>1. ASSUME NEW x \in q.want \ q.link
          PROVE  (LinkKey(q, x) \in wrote'[c] /\ x \in LinksOf(c)') \/ Newest(c, x)' = Gone
      <4>1. CASE x = t
        BY <1>2, <1>9, <2>2, <4>1, KeyKinds
      <4>2. CASE x # t
        <5>1. x \in Targets /\ x \in j.want \ j.link
          BY <1>2, <1>3, <3>1, <4>2 DEF LinkJob
        <5>2. (LinkKey(j, x) \in wrote[c] /\ x \in LinksOf(c)) \/ Newest(c, x) = Gone
          BY <1>2, <1>4, <5>1 DEF SoFarInv
        <5>3. LinkKey(q, x) = LinkKey(j, x)
          BY <1>3 DEF LinkKey
        <5> QED
          BY <2>1, <2>2, <2>3, <5>1, <5>2, <5>3, KeyKinds
      <4> QED
        BY <4>1, <4>2
    <3>2. ASSUME UnlinksAll(q), Exact(q) PROVE LinksOf(c)' \subseteq q.want
      <4>1. UnlinksAll(j) /\ Exact(j)
        BY <1>3, <3>2 DEF UnlinksAll, Exact
      <4>2. LinksOf(c) \subseteq j.want
        BY <1>2, <4>1 DEF SoFarInv
      <4> QED
        BY <1>3, <2>3, <4>2
    <3> QED
      BY <1>3, <1>5, <1>9, <3>1, <3>2, <1>4 DEF SoFarInv
  <2>5. UNCHANGED <<rels, onDelete, linkCalls, transaction>> /\ excused \subseteq excused' /\ excused' \subseteq Sources
    BY <1>2, <1>9
  <2> QED
    BY <1>2, <1>3, <1>6, <1>7, <2>4, <2>5, TurnKeeps
<1> QED
  <2>1. CASE j.field = "hasMany"
    BY <1>1, <1>8, <1>9, <2>1 DEF UpdateTarget, LinkKey
  <2>2. CASE j.field # "hasMany"
    BY <1>1, <1>8, <2>2 DEF InsertPair, LinkKey
  <2> QED
    BY <2>1, <2>2

\* The rows that the newest view has are of the kinds that the tables have.
LEMMA NewestIs ==
  ASSUME RelationsInvar, NEW c \in Workers
  PROVE  /\ \A t \in Targets : Newest(c, t) \in Sources \cup {Null, Gone}
         /\ \A k \in Sources \cup Pairs : Newest(c, k) \in {Here, Gone}
         /\ \A k \in Keys : Newest(c, k) \in Sources \cup {Null, Here, Gone}
<1>1. IsLinkRows(rels) /\ IsLinkRows(view[c])
  BY DEF RelationsInvar, TypesInv
<1> QED
  BY <1>1 DEF IsLinkRows, Newest

LEMMA CascadeKeeps ==
  ASSUME RelationsInvar, NEW c \in Workers, DestroyLinked(c)
  PROVE  RelationsInvar'
<1> DEFINE j == job[c]
           q == [j EXCEPT !.at = "clear"]
<1>1. /\ j \in LinkJob /\ j.at = "cascade" /\ j.unlink \subseteq Targets
      /\ UNCHANGED <<rels, onDelete, gaps, linkCalls, excused>> /\ Leaves(c, j.unlink, Gone)
      /\ job' = [job EXCEPT ![c] = q]
      /\ StageInv(j) /\ DestroyInv(c) /\ gaps[c] \in SUBSET Sources /\ gaps' = [gaps EXCEPT ![c] = gaps[c]]
  BY DEF DestroyLinked, Doing, Turn, RelationsInvar, TypesInv, LinkJob
<1>2. /\ q \in LinkJob /\ q.op = j.op /\ q.source = j.source /\ q.alone = j.alone /\ q.at = "clear"
      /\ q.want = j.want /\ q.field = j.field /\ q.link = j.link /\ q.unlink = j.unlink
      /\ j.op = "destroy"
  BY <1>1 DEF LinkJob, LinkStages, StageInv
<1> HIDE DEF q
<1>3. job'[c] = q
  BY <1>1 DEF RelationsInvar, TypesInv
<1> DEFINE keys == j.unlink
<1>4. keys \in SUBSET Keys /\ (\A s \in Sources : s \notin keys) /\ Leaves(c, keys, Gone)
  BY <1>1, KeyKinds
<1>5. StageInv(q)
  BY <1>1, <1>2 DEF StageInv, UnlinksAll, LinkStages
<1>6. SoFarInv(c)'
  BY <1>2, <1>3 DEF SoFarInv, UnlinksAll
<1>7. GapInv(c)'
  BY <1>1, <1>4, GapStays
<1>8. DestroyInv(c)'
  <2>1. \A k \in Keys : Newest(c, k)' = IF k \in keys THEN Gone ELSE Newest(c, k)
    BY <1>1, <1>4, NewestAfter
  <2>2. ASSUME q.source \notin excused, NEW t \in Targets PROVE Newest(c, t)' # q.source
    <3>1. t \in Keys /\ q.source # Gone
      BY <1>1, <1>2, KeyKinds, RelationsAssumption DEF LinkJob
    <3>2. Newest(c, t) = j.source => t \in keys
      BY <1>1, <1>2, <2>2 DEF DestroyInv
    <3> QED
      BY <1>2, <2>1, <3>1, <3>2
  <2> QED
    BY <1>1, <1>2, <1>3, <2>2 DEF DestroyInv
<1> HIDE DEF keys
<1> QED
  <2>1. Gone \notin Sources \cup {Null} /\ Gone # Here
    BY RelationsAssumption
  <2> QED
    BY <1>1, <1>2, <1>4, <1>5, <1>6, <1>7, <1>8, <2>1, StatementKeeps

LEMMA DeleteKeeps ==
  ASSUME RelationsInvar, NEW c \in Workers, DeleteSource(c)
  PROVE  RelationsInvar'
<1> DEFINE j == job[c]
           q == [j EXCEPT !.at = "commit"]
           keys == {j.source}
<1>1. /\ j \in LinkJob /\ j.at = "delete"
      /\ UNCHANGED <<rels, onDelete, gaps, linkCalls, excused>> /\ Leaves(c, keys, Gone)
      /\ job' = [job EXCEPT ![c] = q]
      /\ StageInv(j) /\ DestroyInv(c) /\ gaps[c] \in SUBSET Sources /\ gaps' = [gaps EXCEPT ![c] = gaps[c]]
  BY DEF DeleteSource, Doing, Turn, RelationsInvar, TypesInv, LinkJob
<1>2. /\ q \in LinkJob /\ q.op = j.op /\ q.source = j.source /\ q.alone = j.alone /\ q.at = "commit"
      /\ q.want = j.want /\ q.field = j.field /\ q.link = j.link /\ q.unlink = j.unlink
      /\ j.op = "destroy" /\ j.source \in Sources
  BY <1>1 DEF LinkJob, LinkStages, StageInv
<1> HIDE DEF q
<1>9. PICK s \in Sources : s = j.source
  BY <1>2
<1>3. job'[c] = q
  BY <1>1 DEF RelationsInvar, TypesInv
<1>4. /\ keys \in SUBSET Keys /\ Leaves(c, keys, Gone) /\ rels' = rels
      /\ \A r \in Sources : r \in keys => r = q.source
      /\ \A t \in Targets : t \notin keys /\ <<j.source, t>> \notin keys
  BY <1>1, <1>2, KeyKinds, PairIn
<1> HIDE DEF keys
<1>5. StageInv(q)
  BY <1>1, <1>2 DEF StageInv, UnlinksAll, LinkStages
<1>6. SoFarInv(c)'
  BY <1>2, <1>3 DEF SoFarInv, UnlinksAll
<1>7. GapInv(c)'
  BY <1>1, <1>4, GapStays
<1>8. DestroyInv(c)'
  <2>1. \A k \in Keys : Newest(c, k)' = IF k \in keys THEN Gone ELSE Newest(c, k)
    BY <1>4, NewestAfter
  <2>2. ASSUME s \notin excused, NEW t \in Targets
        PROVE  Newest(c, t)' # s /\ Newest(c, <<s, t>>)' = Gone
    <3>1. t \in Keys /\ <<s, t>> \in Keys /\ t \notin keys /\ <<s, t>> \notin keys
      BY <1>4, <1>9, KeyKinds, PairIn
    <3>2. Newest(c, t) # s /\ Newest(c, <<s, t>>) = Gone
      BY <1>1, <1>2, <1>9, <2>2 DEF DestroyInv
    <3> QED
      BY <2>1, <3>1, <3>2
  <2>3. job'[c].source = s /\ job'[c].at = "commit"
    BY <1>2, <1>3, <1>9
  <2> QED
    BY <1>1, <2>2, <2>3 DEF DestroyInv
<1> QED
  <2>1. Gone \notin Sources \cup {Null} /\ Gone # Here
    BY RelationsAssumption
  <2> QED
    BY <1>1, <1>2, <1>4, <1>5, <1>6, <1>7, <1>8, <2>1, StatementKeeps

LEMMA OthersKeeps ==
  ASSUME RelationsInvar, NEW c \in Workers, DestroyOthers(c)
  PROVE  RelationsInvar'
<1> DEFINE j == job[c]
           q == [j EXCEPT !.at = "commit"]
           keys == IF j.op = "truncate" THEN Sources ELSE j.want
<1>1. /\ j \in LinkJob /\ j.at = "check" /\ j.source = Null
      /\ UNCHANGED <<rels, onDelete, gaps, linkCalls, excused>> /\ Leaves(c, keys, Gone)
      /\ job' = [job EXCEPT ![c] = q]
      /\ StageInv(j) /\ gaps[c] \in SUBSET Sources /\ gaps' = [gaps EXCEPT ![c] = gaps[c]]
  BY DEF DestroyOthers, Doing, Turn, RelationsInvar, TypesInv, LinkJob
<1>2. /\ q \in LinkJob /\ q.op = j.op /\ q.source = j.source /\ q.alone = j.alone /\ q.at = "commit"
      /\ q.want = j.want /\ q.field = j.field /\ q.link = j.link /\ q.unlink = j.unlink
      /\ j.op \in {"destroyTarget", "truncate"} /\ j.want \subseteq Targets
  BY <1>1 DEF LinkJob, LinkStages, StageInv
<1> HIDE DEF q
<1>3. job'[c] = q
  BY <1>1 DEF RelationsInvar, TypesInv
<1>4. keys \in SUBSET Keys /\ (\A s \in Sources : s \in keys => q.op = "truncate")
  BY <1>2, KeyKinds
<1>5. StageInv(q)
  BY <1>1, <1>2 DEF StageInv, UnlinksAll, LinkStages
<1>6. SoFarInv(c)'
  BY <1>2, <1>3 DEF SoFarInv, UnlinksAll
<1>7. GapInv(c)'
  BY <1>1, <1>4, GapStays
<1>8. DestroyInv(c)'
  BY <1>2, <1>3 DEF DestroyInv
<1> HIDE DEF keys
<1> QED
  <2>1. Gone \notin Sources \cup {Null} /\ Gone # Here
    BY RelationsAssumption
  <2> QED
    BY <1>1, <1>2, <1>4, <1>5, <1>6, <1>7, <1>8, <2>1, StatementKeeps

LEMMA ClearKeeps ==
  ASSUME RelationsInvar, NEW c \in Workers, ClearThrough(c)
  PROVE  RelationsInvar'
<1> DEFINE j == job[c]
           q == [j EXCEPT !.at = IF j.op = "destroy" THEN "delete" ELSE "link"]
<1>0. PICK s \in Sources : s = j.source
  <2>1. j.source \in Sources
    BY DEF ClearThrough, Doing, RelationsInvar, TypesInv, LinkJob, StageInv, LinkStages
  <2> QED
    BY <2>1
<1> DEFINE
           keys == RangeOf(c, s)
           g == gaps[c] \cup {s}
<1>1. /\ j \in LinkJob /\ j.at = "clear"
      /\ UNCHANGED <<rels, onDelete, linkCalls, excused>> /\ Leaves(c, keys, Gone)
      /\ job' = [job EXCEPT ![c] = q]
      /\ StageInv(j) /\ DestroyInv(c) /\ GapInv(c) /\ gaps[c] \in SUBSET Sources /\ gaps' = [gaps EXCEPT ![c] = g]
  BY <1>0 DEF ClearThrough, Doing, Turn, RelationsInvar, TypesInv, LinkJob
<1>2. /\ q \in LinkJob /\ q.op = j.op /\ q.source = s /\ q.alone = j.alone
      /\ q.at = IF j.op = "destroy" THEN "delete" ELSE "link"
      /\ q.want = j.want /\ q.field = j.field /\ q.link = j.link /\ q.unlink = j.unlink
      /\ s \in Sources /\ (j.op # "destroy" => j.field = "belongsToMany" /\ UnlinksAll(j))
  BY <1>0, <1>1 DEF LinkJob, LinkStages, StageInv
<1> HIDE DEF q
<1>3. job'[c] = q /\ gaps'[c] = g /\ g \in SUBSET Sources /\ g = gaps[c] \cup ({q.source} \cap Sources)
  BY <1>1, <1>2 DEF RelationsInvar, TypesInv
<1>4. keys \subseteq {s} \X Targets
  BY DEF RangeOf
<1>5. keys \in SUBSET Keys /\ (\A x \in Sources \cup Targets : x \notin keys)
  BY <1>2, <1>4, PairIn
<1>6. \A t \in Targets : <<s, t>> \notin keys =>
        Newest(c, <<s, t>>) = Gone /\ \A b \in Workers : <<s, t>> \notin held[b]
  <2>1. \A t \in Targets : Newest(c, <<s, t>>) \in {Here, Gone}
    BY <1>2, NewestIs, PairIn
  <2> QED
    BY <2>1 DEF RangeOf
<1>7. \A b \in Workers \ {c} : \A k \in keys : k \notin held[b]
  BY <1>1 DEF Leaves
<1> HIDE DEF keys
<1>8. /\ \A k \in Keys : Newest(c, k)' = IF k \in keys THEN Gone ELSE Newest(c, k)
      /\ \A b \in Workers \ {c} : wrote'[b] = wrote[b] /\ view'[b] = view[b]
  BY <1>1, <1>5, NewestAfter
<1>9. \A t \in Targets : Newest(c, <<s, t>>)' = Gone
  <2> TAKE t \in Targets
  <2>1. <<s, t>> \in Keys
    BY <1>2, PairIn
  <2>2. Newest(c, <<s, t>>)' = IF <<s, t>> \in keys THEN Gone ELSE Newest(c, <<s, t>>)
    BY <1>8, <2>1
  <2> QED
    BY <1>6, <2>2
<1>10. \A t \in Targets : Newest(c, t)' = Newest(c, t)
  BY <1>5, <1>8, KeyKinds
<1>11. StageInv(q)
  <2>1. CASE j.op = "destroy"
    BY <1>0, <1>1, <1>2, <2>1 DEF StageInv, UnlinksAll, LinkStages
  <2>2. CASE j.op # "destroy"
    BY <1>0, <1>1, <1>2, <2>2 DEF StageInv, UnlinksAll, LinkStages
  <2> QED
    BY <2>1, <2>2
<1>12. SoFarInv(c)'
  <2>1. CASE j.op = "destroy"
    BY <1>2, <1>3, <2>1 DEF SoFarInv, UnlinksAll
  <2>2. CASE j.op # "destroy"
    <3>1. UnlinksAll(j) /\ j.field = "belongsToMany" /\ (j.op \in {"add", "set"} => j.link = j.want)
      BY <1>1, <1>2, <2>2 DEF StageInv
    <3>2. LinksOf(c)' = {}
      <4>1. Here # Gone
        BY RelationsAssumption
      <4> QED
        BY <1>2, <1>3, <1>9, <3>1, <4>1 DEF LinksOf
    <3>3. q.source \in gaps'[c]
      BY <1>2, <1>3
    <3>4. q.op = "remove" => q.want = {}
      BY <1>2, <3>1 DEF UnlinksAll
    <3>5. q.op \in {"add", "set"} => q.want \ q.link = {}
      BY <1>2, <3>1
    <3> QED
      BY <1>2, <1>3, <2>2, <3>2, <3>3, <3>4, <3>5 DEF SoFarInv
  <2> QED
    BY <2>1, <2>2
<1>13. GapInv(c)'
  <2> SUFFICES ASSUME NEW x \in gaps'[c], NEW t \in Targets, NEW b \in Workers \ {c}, <<x, t>> \in wrote'[b]
               PROVE  view'[b][<<x, t>>] = Gone
    BY DEF GapInv
  <2>1. CASE x = s
    <3>1. wrote[b] = held[b]
      BY DEF RelationsInvar, WroteInv
    <3> QED
      BY <1>6, <1>7, <1>8, <2>1, <3>1
  <2>2. CASE x # s
    BY <1>1, <1>3, <1>8, <2>2 DEF GapInv
  <2> QED
    BY <2>1, <2>2
<1>14. DestroyInv(c)'
  <2>1. ASSUME q.op = "destroy", s \notin excused, NEW t \in Targets PROVE Newest(c, t)' # s
    BY <1>0, <1>1, <1>2, <1>10, <2>1 DEF DestroyInv
  <2> QED
    BY <1>1, <1>2, <1>3, <1>9, <2>1 DEF DestroyInv
<1> HIDE DEF g
<1> QED
  <2>1. Gone \notin Sources \cup {Null} /\ Gone # Here
    BY RelationsAssumption
  <2> QED
    BY <1>0, <1>1, <1>2, <1>3, <1>5, <1>11, <1>12, <1>13, <1>14, <2>1, StatementKeeps

\* What another request finds after a commit.
LEMMA CommitSeen ==
  ASSUME RelationsInvar, NEW c \in Workers, Doing(c, "commit"),
         rels' = [k \in Keys |-> Newest(c, k)]
  PROVE  /\ \A k \in Keys \ wrote[c] : rels'[k] = rels[k]
         /\ \A k \in wrote[c] : rels'[k] = view[c][k]
         /\ \A t \in Targets : rels[t] = Gone => rels'[t] = Gone
         /\ \A s \in Sources, t \in Targets : rels'[t] = s =>
              rels[t] = s \/ (s = job[c].source /\ job[c].op \in {"add", "set"})
         /\ \A s \in Sources, t \in Targets : rels'[<<s, t>>] = Here =>
              rels[<<s, t>>] = Here \/ (s = job[c].source /\ job[c].op \in {"add", "set"})
         /\ \A s \in Sources : rels'[s] # rels[s] =>
              job[c].op = "truncate" \/ (job[c].op = "destroy" /\ s = job[c].source)
<1>1. wrote[c] \subseteq Keys /\ WroteInv(c)
  BY DEF RelationsInvar, WroteInv
<1>2. /\ \A k \in Keys \ wrote[c] : rels'[k] = rels[k]
      /\ \A k \in wrote[c] : rels'[k] = view[c][k]
  BY <1>1 DEF Newest
<1>3. \A t \in Targets : rels[t] = Gone => rels'[t] = Gone
  BY <1>1, <1>2, KeyKinds DEF WroteInv
<1>4. ASSUME NEW s \in Sources, NEW t \in Targets, rels'[t] = s
      PROVE  rels[t] = s \/ (s = job[c].source /\ job[c].op \in {"add", "set"})
  BY <1>1, <1>2, <1>4, KeyKinds DEF WroteInv
<1>5. ASSUME NEW s \in Sources, NEW t \in Targets, rels'[<<s, t>>] = Here
      PROVE  rels[<<s, t>>] = Here \/ (s = job[c].source /\ job[c].op \in {"add", "set"})
  <2>1. <<s, t>> \in Keys
    BY PairIn
  <2> QED
    BY <1>1, <1>2, <1>5, <2>1 DEF WroteInv
<1>6. ASSUME NEW s \in Sources, rels'[s] # rels[s]
      PROVE  job[c].op = "truncate" \/ (job[c].op = "destroy" /\ s = job[c].source)
  BY <1>1, <1>2, <1>6, KeyKinds DEF WroteInv
<1> QED
  BY <1>2, <1>3, <1>4, <1>5, <1>6

LEMMA CommitEnds ==
  ASSUME RelationsInvar, NEW c \in Workers, Doing(c, "commit"),
         rels' = [k \in Keys |-> Newest(c, k)], UNCHANGED excused
  PROVE  NoDangling'
<1> DEFINE j == job[c]
<1> SUFFICES ASSUME NEW s \in Sources, s \notin excused, rels'[s] = Gone, NEW t \in Targets
             PROVE  rels'[t] # s /\ rels'[<<s, t>>] = Gone
  BY DEF NoDangling, Ended
<1>1. MetInv(c) /\ DestroyInv(c) /\ WroteInv(c) /\ StageInv(j)
  BY DEF RelationsInvar
<1>2. t \in Keys /\ s \in Keys /\ <<s, t>> \in Keys /\ <<s, t>> \in Pairs
  BY PairIn, KeyKinds
<1>3. rels'[t] = Newest(c, t) /\ rels'[<<s, t>>] = Newest(c, <<s, t>>)
  BY <1>2
<1>4. rels'[<<s, t>>] \in {Here, Gone}
  BY <1>2, <1>3, NewestIs
<1>5. CASE rels[s] # Gone
  <2>1. j.op = "truncate" \/ (j.op = "destroy" /\ s = j.source)
    BY <1>5, CommitSeen
  <2>2. j.op # "truncate"
    BY <1>1 DEF MetInv, Doing
  <2> QED
    BY <1>1, <1>3, <2>1, <2>2 DEF DestroyInv, Doing
<1>6. CASE rels[s] = Gone
  <2>1. rels[t] # s /\ rels[<<s, t>>] = Gone
    BY <1>6 DEF RelationsInvar, NoDangling, Ended
  <2>2. s # j.source
    <3>1. Here # Gone
      BY RelationsAssumption
    <3> QED
      BY <1>1, <1>6, <3>1 DEF MetInv, Doing
  <2>3. rels'[t] # s
    BY <2>1, <2>2, CommitSeen
  <2>4. rels'[<<s, t>>] # Here
    <3>1. Here # Gone
      BY RelationsAssumption
    <3> QED
      BY <2>1, <2>2, <3>1, CommitSeen
  <2> QED
    BY <1>4, <2>3, <2>4
<1> QED
  BY <1>5, <1>6

LEMMA CommitOthers ==
  ASSUME RelationsInvar, NEW c \in Workers, Doing(c, "commit"),
         rels' = [k \in Keys |-> Newest(c, k)], Leave(c), UNCHANGED excused,
         NEW b \in Workers \ {c}
  PROVE  (StageInv(job[b]) /\ WroteInv(b) /\ MetInv(b) /\ AloneInv(b)
            /\ GapInv(b) /\ SoFarInv(b) /\ DestroyInv(b))'
<1>1. /\ job'[c] = NoJob /\ wrote'[c] = {}
      /\ \A a \in Workers \ {c} :
           /\ job'[a] = job[a] /\ view'[a] = view[a] /\ wrote'[a] = wrote[a]
           /\ held'[a] = held[a] /\ gaps'[a] = gaps[a]
  BY DEF Leave, RelationsInvar, TypesInv
<1>2. /\ StageInv(job[b]) /\ WroteInv(b) /\ MetInv(b) /\ AloneInv(b)
      /\ GapInv(b) /\ SoFarInv(b) /\ DestroyInv(b)
      /\ WroteInv(c) /\ MetInv(c) /\ StageInv(job[c])
      /\ job[b] \in LinkJob /\ IsLinkRows(view[c])
  BY DEF RelationsInvar, TypesInv
<1>3. wrote[b] \subseteq Keys /\ wrote[c] \subseteq Keys /\ wrote[b] \cap wrote[c] = {}
  <2>1. held[b] \cap held[c] = {}
    BY DEF RelationsInvar, LocksInv
  <2> QED
    BY <1>2, <2>1 DEF WroteInv
<1>4. \A k \in wrote[b] : rels'[k] = rels[k]
  BY <1>3, CommitSeen
<1>5. \A k \in wrote[b] : Newest(b, k)' = Newest(b, k)
  BY <1>1 DEF Newest
<1>6. \A k \in Keys : k \notin wrote[b] => Newest(b, k)' = rels'[k] /\ Newest(b, k) = rels[k]
  BY <1>1 DEF Newest
<1>7. job[b].at # "idle" => ~job[b].alone
  BY <1>2 DEF MetInv, Doing
<1>8. StageInv(job[b])'
  BY <1>1, <1>2 DEF StageInv, UnlinksAll
<1>9. WroteInv(b)'
  BY <1>1, <1>2, <1>4 DEF WroteInv
<1>10. AloneInv(b)'
  BY <1>1, <1>7 DEF AloneInv
<1>11. GapInv(b)'
  BY <1>1, <1>2 DEF GapInv
<1>12. \A t \in Targets : Newest(b, t) = Gone => Newest(b, t)' = Gone
  BY <1>5, <1>6, CommitSeen, KeyKinds
<1>13. MetInv(b)'
  <2> SUFFICES ASSUME job[b].at # "idle" PROVE MetInv(b)'
    BY <1>1 DEF MetInv
  <2>1. ASSUME job[b].at # "check", job[b].source \in Sources \ excused
        PROVE  rels'[job[b].source] = Here
    <3>1. rels[job[b].source] = Here
      BY <1>2, <2>1 DEF MetInv
    <3>2. job[c].op # "truncate"
      BY <1>2, <2>1 DEF MetInv, Doing
    <3>3. ~(job[c].op = "destroy" /\ job[b].source = job[c].source)
      BY <1>2, <2>1 DEF MetInv, Doing
    <3> QED
      BY <2>1, <3>1, <3>2, <3>3, CommitSeen
  <2>2. NoJob.at = "idle"
    BY DEF NoJob
  <2> QED
    BY <1>1, <1>2, <1>7, <2>1, <2>2 DEF MetInv
<1>14. SoFarInv(b)'
  <2>1. ASSUME NEW t \in Targets, LinkKey(job[b], t) \in wrote[b]
        PROVE  t \in LinksOf(b)' <=> t \in LinksOf(b)
    BY <1>1, <1>5, <2>1 DEF LinksOf, LinkKey
  <2>2. ASSUME job[b].op \in {"add", "set"}, job[b].at \in {"link", "commit"},
               NEW t \in job[b].want \ job[b].link
        PROVE  (LinkKey(job[b], t) \in wrote[b] /\ t \in LinksOf(b)') \/ Newest(b, t)' = Gone
    <3>1. t \in Targets
      BY <1>2, <2>2 DEF LinkJob
    <3> QED
      BY <1>2, <1>12, <2>1, <2>2, <3>1 DEF SoFarInv
  <2>3. ASSUME job[b].op = "remove", job[b].at \in {"unlink", "link", "commit"},
               NEW t \in job[b].want \ job[b].unlink
        PROVE  /\ t \notin LinksOf(b)'
               /\ LinkKey(job[b], t) \in wrote[b] \/ (job[b].field = "hasMany" /\ Newest(b, t)' = Gone)
    <3>1. t \in Targets
      BY <1>2, <2>3 DEF LinkJob
    <3>2. t \notin LinksOf(b) /\ (LinkKey(job[b], t) \in wrote[b] \/ (job[b].field = "hasMany" /\ Newest(b, t) = Gone))
      BY <1>2, <2>3 DEF SoFarInv
    <3>3. ASSUME job[b].field = "hasMany", Newest(b, t)' = Gone PROVE t \notin LinksOf(b)'
      <4>1. job[b].source # Gone
        BY <1>2, RelationsAssumption DEF LinkJob
      <4> QED
        BY <1>1, <3>3, <4>1 DEF LinksOf
    <3> QED
      BY <1>12, <2>1, <3>1, <3>2, <3>3
  <2>4. ASSUME UnlinksAll(job[b]), Exact(job[b]), job[b].at = "unlink" PROVE FALSE
    BY <1>2, <1>7, <2>4 DEF StageInv, Exact
  <2>5. ASSUME UnlinksAll(job[b]), Exact(job[b]), job[b].at \in {"link", "commit"}
        PROVE  LinksOf(b)' \subseteq job[b].want
    <3>1. job[b].field = "belongsToMany" /\ job[b].field # "hasMany"
      BY <1>7, <2>5 DEF Exact
    <3>2. PICK s \in Sources : s = job[b].source
      BY <1>2, <2>5 DEF StageInv, LinkJob, UnlinksAll
    <3>3. s \in gaps[b] /\ LinksOf(b) \subseteq job[b].want
      BY <1>2, <2>5, <3>1, <3>2 DEF SoFarInv
    <3> SUFFICES ASSUME NEW t \in Targets, Newest(b, <<s, t>>)' = Here PROVE t \in job[b].want
      BY <1>1, <3>1, <3>2 DEF LinksOf
    <3>4. <<s, t>> \in Keys
      BY PairIn
    <3>5. CASE <<s, t>> \in wrote[b]
      BY <1>5, <3>1, <3>2, <3>3, <3>5 DEF LinksOf
    <3>6. CASE <<s, t>> \notin wrote[b] /\ <<s, t>> \notin wrote[c]
      <4>1. rels[<<s, t>>] = Here
        BY <1>6, <3>4, <3>6, CommitSeen
      <4> QED
        BY <1>6, <3>1, <3>2, <3>3, <3>4, <3>6, <4>1 DEF LinksOf
    <3>7. CASE <<s, t>> \notin wrote[b] /\ <<s, t>> \in wrote[c]
      <4>1. view[c][<<s, t>>] = Gone
        BY <1>2, <3>3, <3>7 DEF GapInv
      <4>2. view[c][<<s, t>>] = Here
        BY <1>6, <3>4, <3>7, CommitSeen
      <4> QED
        BY <4>1, <4>2, RelationsAssumption
    <3> QED
      BY <3>5, <3>6, <3>7
  <2> QED
    BY <1>1, <1>2, <2>2, <2>3, <2>4, <2>5 DEF SoFarInv, UnlinksAll, Exact, LinkKey
<1>15. DestroyInv(b)'
  <2> SUFFICES ASSUME job[b].op = "destroy", job[b].source \notin excused, job[b].at # "idle"
               PROVE  DestroyInv(b)'
    BY <1>1 DEF DestroyInv
  <2>1. PICK s \in Sources : s = job[b].source
    BY <1>2 DEF StageInv, LinkJob
  <2>2. s # job[c].source
    BY <1>2, <2>1 DEF MetInv, Doing
  <2>3. \A t \in Targets : rels'[t] = s => rels[t] = s
    BY <2>2, CommitSeen
  <2>4. \A t \in Targets : Newest(b, t)' = s => Newest(b, t) = s
    BY <1>5, <1>6, <2>3, KeyKinds
  <2>5. ASSUME NEW t \in Targets, Newest(b, <<s, t>>) = Gone PROVE Newest(b, <<s, t>>)' = Gone
    <3>1. <<s, t>> \in Keys /\ <<s, t>> \in Pairs
      BY PairIn
    <3>2. CASE <<s, t>> \in wrote[b]
      BY <1>5, <2>5, <3>2
    <3>3. CASE <<s, t>> \notin wrote[b]
      <4>1. rels[<<s, t>>] = Gone /\ Newest(b, <<s, t>>)' = rels'[<<s, t>>]
        BY <1>6, <2>5, <3>1, <3>3
      <4>2. rels'[<<s, t>>] = Newest(c, <<s, t>>)
        BY <3>1
      <4>3. Newest(c, <<s, t>>) \in {Here, Gone} /\ Here # Gone
        BY <3>1, NewestIs, RelationsAssumption
      <4>4. rels'[<<s, t>>] # Here
        BY <2>2, <4>1, <4>3, CommitSeen
      <4> QED
        BY <4>1, <4>2, <4>3, <4>4
    <3> QED
      BY <3>2, <3>3
  <2> QED
    BY <1>1, <1>2, <2>1, <2>3, <2>4, <2>5 DEF DestroyInv
<1> QED
  BY <1>8, <1>9, <1>10, <1>11, <1>13, <1>14, <1>15

LEMMA CommitKeeps ==
  ASSUME RelationsInvar, NEW c \in Workers, CommitLinks(c)
  PROVE  RelationsInvar'
<1>1. /\ Doing(c, "commit") /\ rels' = [k \in Keys |-> Newest(c, k)]
      /\ Leave(c) /\ UNCHANGED <<onDelete, linkCalls, excused>>
  BY DEF CommitLinks
<1>2. /\ job'[c] = NoJob /\ view'[c] = NoView /\ wrote'[c] = {} /\ held'[c] = {} /\ gaps'[c] = {}
      /\ \A a \in Workers \ {c} : held'[a] = held[a]
  BY <1>1 DEF Leave, RelationsInvar, TypesInv
<1>3. OwnInv(c)' /\ MetInv(c)'
  BY <1>2 DEF OwnInv, StageInv, UnlinksAll, WroteInv, AloneInv, GapInv, SoFarInv, DestroyInv, NoJob, LinkStages, MetInv
<1>4. IsLinkRows(rels')
  <2>1. rels' \in [Keys -> Sources \cup {Null, Here, Gone}]
    BY <1>1, NewestIs
  <2>2. \A k \in Sources \cup Pairs : rels'[k] \in {Here, Gone}
    BY <1>1, NewestIs DEF Keys
  <2>3. \A t \in Targets : rels'[t] \in Sources \cup {Null, Gone}
    BY <1>1, NewestIs DEF Keys
  <2> QED
    BY <2>1, <2>2, <2>3 DEF IsLinkRows
<1>5. TypesInv'
  <2>1. NoJob \in LinkJob
    BY DEF NoJob, LinkJob, LinkStages
  <2>2. \A a \in Workers : IsLinkRows(view'[a])
    BY <1>1, RowsAway DEF Leave, RelationsInvar, TypesInv
  <2>3. view' \in [Workers -> [Keys -> Sources \cup {Null, Here, Gone}]]
    BY <1>1, RowsAway DEF Leave, RelationsInvar, TypesInv
  <2>4. /\ wrote' \in [Workers -> SUBSET Keys] /\ held' \in [Workers -> SUBSET Keys]
        /\ gaps' \in [Workers -> SUBSET Sources] /\ job' \in [Workers -> LinkJob]
    BY <1>1, <2>1 DEF Leave, RelationsInvar, TypesInv
  <2> QED
    BY <1>1, <1>4, <2>2, <2>3, <2>4 DEF RelationsInvar, TypesInv
<1>6. LocksInv'
  BY <1>2 DEF RelationsInvar, LocksInv
<1>7. NoDangling'
  BY <1>1, CommitEnds
<1>8. ASSUME NEW b \in Workers \ {c}
      PROVE  (StageInv(job[b]) /\ WroteInv(b) /\ MetInv(b) /\ AloneInv(b)
                /\ GapInv(b) /\ SoFarInv(b) /\ DestroyInv(b))'
  BY <1>1, CommitOthers
<1> QED
  BY <1>3, <1>5, <1>6, <1>7, <1>8 DEF RelationsInvar, OwnInv

\* What a request is asked for.
LEMMA RequestIs ==
  ASSUME NEW r \in LinkRequests
  PROVE  /\ r \in LinkJob /\ r.link = {} /\ r.unlink = {} /\ r.op # "none"
         /\ r.source = Null <=> r.op \in {"destroyTarget", "truncate"}
         /\ r.op = "destroy" => r.field = "hasMany"
<1>1. ASSUME NEW op \in {"add", "set", "remove", "destroy", "destroyTarget", "truncate"},
             NEW f \in {"hasMany", "belongsToMany"}, NEW s \in Sources \cup {Null},
             NEW ids \in SUBSET Targets, r = Ask(op, f, s, ids),
             s = Null <=> op \in {"destroyTarget", "truncate"},
             op = "destroy" => f = "hasMany"
      PROVE  /\ r \in LinkJob /\ r.link = {} /\ r.unlink = {} /\ r.op # "none"
             /\ r.source = Null <=> r.op \in {"destroyTarget", "truncate"}
             /\ r.op = "destroy" => r.field = "hasMany"
  <2>1. /\ NoJob \in LinkJob /\ NoJob.link = {} /\ NoJob.unlink = {}
    BY DEF NoJob, LinkJob, LinkStages
  <2>2. /\ r \in LinkJob /\ r.op = op /\ r.field = f /\ r.source = s
        /\ r.link = {} /\ r.unlink = {}
    BY <1>1, <2>1 DEF Ask, LinkJob
  <2> QED
    BY <1>1, <2>2
<1>2. Null \notin Sources /\ LinkIds \subseteq SUBSET Targets
  BY RelationsAssumption
<1>3. CASE r \in {Ask(op, f, s, ids) : op \in {"add", "set", "remove"}, f \in {"hasMany", "belongsToMany"},
                             s \in Sources, ids \in LinkIds}
  <2>1. PICK op \in {"add", "set", "remove"}, f \in {"hasMany", "belongsToMany"},
             s \in Sources, ids \in LinkIds : r = Ask(op, f, s, ids)
    BY <1>3
  <2> QED
    BY <1>1, <1>2, <2>1
<1>4. CASE r \in {Ask("destroy", "hasMany", s, {}) : s \in Sources}
  <2>1. PICK s \in Sources : r = Ask("destroy", "hasMany", s, {})
    BY <1>4
  <2> QED
    BY <1>1, <1>2, <2>1
<1>5. CASE r \in {Ask("destroyTarget", "hasMany", Null, {t}) : t \in Targets}
  <2>1. PICK t \in Targets : r = Ask("destroyTarget", "hasMany", Null, {t})
    BY <1>5
  <2>2. {t} \in SUBSET Targets
    OBVIOUS
  <2> QED
    BY <1>1, <1>2, <2>1, <2>2
<1>6. CASE r \in {Ask("truncate", "hasMany", Null, {})}
  <2>1. r = Ask("truncate", "hasMany", Null, {})
    BY <1>6
  <2> QED
    BY <1>1, <1>2, <2>1
<1> QED
  BY <1>3, <1>4, <1>5, <1>6 DEF LinkRequests

LEMMA StartKeeps ==
  ASSUME RelationsInvar, NEW c \in Workers, StartRequest(c)
  PROVE  RelationsInvar'
<1>1. PICK r \in LinkRequests :
        /\ job' = [b \in Workers |->
             IF b = c THEN [r EXCEPT !.at = "check", !.alone = UnderWay = {}]
             ELSE [job[b] EXCEPT !.alone = FALSE]]
        /\ excused' = excused \cup MetBy(r) \cup (IF r.op = "truncate" THEN Sources ELSE {})
  BY DEF StartRequest
<1> DEFINE q == [r EXCEPT !.at = "check", !.alone = UnderWay = {}]
<1>2. /\ job[c].at = "idle" /\ linkCalls' = linkCalls + 1
      /\ UNCHANGED <<rels, onDelete, view, wrote, held, gaps>>
  BY DEF StartRequest, Doing, transaction
<1>3. /\ q \in LinkJob /\ q.at = "check" /\ q.link = {} /\ q.unlink = {} /\ q.op # "none"
      /\ q.source = Null <=> q.op \in {"destroyTarget", "truncate"}
      /\ q.op = "destroy" => q.field = "hasMany"
      /\ q.op = r.op /\ q.source = r.source /\ (q.alone => UnderWay = {}) /\ q.link \subseteq q.want
  <2> DEFINE lone == UnderWay = {}
  <2>1. lone \in BOOLEAN /\ (lone => UnderWay = {}) /\ q = [r EXCEPT !.at = "check", !.alone = lone]
    OBVIOUS
  <2> HIDE DEF lone, q
  <2>2. /\ r \in LinkJob /\ r.link = {} /\ r.unlink = {} /\ r.op # "none"
        /\ r.source = Null <=> r.op \in {"destroyTarget", "truncate"}
        /\ r.op = "destroy" => r.field = "hasMany"
    BY RequestIs
  <2> QED
    BY <2>1, <2>2 DEF LinkJob, LinkStages
<1>4. /\ job'[c] = q
      /\ \A b \in Workers \ {c} : job'[b] = [job[b] EXCEPT !.alone = FALSE]
  BY <1>1
<1>5. excused \subseteq excused' /\ (r.op = "truncate" => Sources \subseteq excused')
  BY <1>1
<1>6. ASSUME NEW b \in Workers, job[b].at # "idle", r.source = job[b].source,
             r.op = "destroy" \/ job[b].op = "destroy"
      PROVE  r.source \in excused'
  <2>1. r.source \in Meet(r, job[b]) /\ b \in UnderWay
    BY <1>6 DEF Meet, Doing, UnderWay
  <2>2. r.source \in MetBy(r)
    BY <2>1 DEF MetBy
  <2> QED
    BY <1>1, <2>2
<1>7. excused' \subseteq Sources
  <2>1. ASSUME NEW b \in UnderWay PROVE Meet(r, job[b]) \subseteq Sources
    <3>1. StageInv(job[b]) /\ job[b] \in LinkJob /\ job[b].at # "idle"
      BY <2>1 DEF RelationsInvar, TypesInv, Doing, UnderWay
    <3>2. r.op = "destroy" => r.source \in Sources
      BY <1>3 DEF LinkJob
    <3>3. job[b].op = "destroy" => job[b].source \in Sources
      BY <3>1 DEF StageInv, LinkJob
    <3> QED
      BY <3>2, <3>3 DEF Meet
  <2>2. MetBy(r) \subseteq Sources
    BY <2>1 DEF MetBy
  <2> QED
    BY <1>1, <2>2 DEF RelationsInvar, TypesInv
<1>8. q.alone => \A b \in Workers \ {c} : job[b].at = "idle"
  BY <1>3 DEF Doing, UnderWay
<1> HIDE DEF q
<1>9. ASSUME NEW b \in Workers \ {c}
      PROVE  /\ job[b] \in LinkJob /\ job'[b] \in LinkJob /\ job'[b].alone = FALSE
             /\ job'[b].op = job[b].op /\ job'[b].field = job[b].field
             /\ job'[b].source = job[b].source /\ job'[b].want = job[b].want
             /\ job'[b].at = job[b].at /\ job'[b].link = job[b].link
             /\ job'[b].unlink = job[b].unlink /\ job'[b].whole = job[b].whole
  <2>1. job[b] \in LinkJob /\ job'[b] = [job[b] EXCEPT !.alone = FALSE]
    BY <1>4 DEF RelationsInvar, TypesInv
  <2> QED
    BY <2>1 DEF LinkJob
<1>10. TypesInv'
  <2>1. job' \in [Workers -> LinkJob]
    <3>1. \A b \in Workers : job'[b] \in LinkJob
      BY <1>3, <1>4, <1>9
    <3>2. job' = [b \in Workers |-> job'[b]]
      BY <1>1
    <3> QED
      BY <3>1, <3>2
  <2>2. linkCalls' \in Nat
    <3>1. linkCalls \in Nat
      BY DEF RelationsInvar, TypesInv
    <3> QED
      BY <1>2, <3>1
  <2>3. TypesInv
    BY DEF RelationsInvar
  <2> QED
    BY <1>2, <1>7, <2>1, <2>2, <2>3 DEF TypesInv
<1>11. LocksInv' /\ NoDangling'
  BY <1>2, <1>5 DEF RelationsInvar, LocksInv, NoDangling, Ended
<1>12. (StageInv(job[c]) /\ WroteInv(c) /\ AloneInv(c) /\ GapInv(c) /\ SoFarInv(c) /\ DestroyInv(c))'
  <2>1. WroteInv(c)
    BY DEF RelationsInvar
  <2>2. wrote'[c] = {} /\ gaps'[c] = {} /\ held'[c] = {}
    BY <1>2, <2>1 DEF WroteInv
  <2>3. StageInv(q)
    BY <1>3 DEF StageInv, LinkStages
  <2>4. WroteInv(c)'
    BY <2>2 DEF WroteInv
  <2>5. (AloneInv(c) /\ GapInv(c) /\ SoFarInv(c) /\ DestroyInv(c))'
    BY <1>3, <1>4, <2>2 DEF AloneInv, GapInv, SoFarInv, DestroyInv
  <2> QED
    BY <1>4, <2>3, <2>4, <2>5 DEF StageInv, UnlinksAll
<1>13. MetInv(c)'
  <2>1. \A b \in Workers \ {c} : job'[b].at = job[b].at /\ job'[b].source = job[b].source
    BY <1>9
  <2> QED
    BY <1>3, <1>4, <1>5, <1>6, <1>8, <2>1 DEF MetInv
<1>14. ASSUME NEW b \in Workers \ {c}
       PROVE  (StageInv(job[b]) /\ WroteInv(b) /\ MetInv(b) /\ AloneInv(b)
                 /\ GapInv(b) /\ SoFarInv(b) /\ DestroyInv(b))'
  <2>1. StageInv(job[b]) /\ WroteInv(b) /\ MetInv(b) /\ AloneInv(b) /\ GapInv(b) /\ SoFarInv(b) /\ DestroyInv(b)
    BY DEF RelationsInvar
  <2>2. StageInv(job[b])'
    BY <1>9, <2>1 DEF StageInv, UnlinksAll
  <2>3. WroteInv(b)'
    BY <1>2, <1>9, <2>1 DEF WroteInv
  <2>4. AloneInv(b)' /\ GapInv(b)'
    BY <1>2, <1>9, <2>1 DEF AloneInv, GapInv
  <2>5. SoFarInv(b)'
    <3>1. \A k \in Keys : Newest(b, k)' = Newest(b, k)
      BY <1>2 DEF Newest
    <3>2. LinksOf(b)' = LinksOf(b)
      <4>0. job'[b].field = job[b].field /\ job'[b].source = job[b].source
        BY <1>9
      <4>1. CASE job[b].field = "hasMany"
        <5>1. LinksOf(b) = {x \in Targets : Newest(b, x) = job[b].source}
          BY <4>1 DEF LinksOf
        <5>2. LinksOf(b)' = {x \in Targets : Newest(b, x)' = job[b].source}
          BY <4>0, <4>1 DEF LinksOf
        <5> QED
          BY <3>1, <5>1, <5>2, KeyKinds
      <4>2. CASE job[b].field # "hasMany"
        <5>1. LinksOf(b) = {x \in Targets : Newest(b, <<job[b].source, x>>) = Here}
          BY <4>2 DEF LinksOf
        <5>2. \A k : Newest(b, k)' = Newest(b, k)
          BY <1>2 DEF Newest
        <5>3. LinksOf(b)' = {x \in Targets : Newest(b, <<job[b].source, x>>) = Here}
          BY <4>0, <4>2, <5>2 DEF LinksOf
        <5> QED
          BY <5>1, <5>3
      <4> QED
        BY <4>1, <4>2
    <3>7. wrote'[b] = wrote[b] /\ gaps'[b] = gaps[b]
      BY <1>2
    <3>3. \A t \in Targets : LinkKey(job'[b], t) = LinkKey(job[b], t)
      BY <1>9 DEF LinkKey
    <3>4. UnlinksAll(job'[b]) <=> UnlinksAll(job[b])
      BY <1>9 DEF UnlinksAll
    <3>5. Exact(job'[b]) => Exact(job[b])
      BY <1>9 DEF Exact
    <3>6. job[b].want \subseteq Targets
      BY <1>9 DEF LinkJob
    <3>8. \A t \in Targets : Newest(b, t)' = Newest(b, t)
      BY <3>1, KeyKinds
    <3>9. job'[b].op = job[b].op /\ job'[b].at = job[b].at /\ job'[b].field = job[b].field
      BY <1>9
    <3>10. /\ job'[b].want = job[b].want /\ job'[b].link = job[b].link
           /\ job'[b].unlink = job[b].unlink /\ job'[b].source = job[b].source
      BY <1>9
    <3>11. ASSUME job[b].op \in {"add", "set"}, job[b].at \in {"link", "commit"},
                  NEW t \in job[b].want \ job[b].link
           PROVE  (LinkKey(job'[b], t) \in wrote'[b] /\ t \in LinksOf(b)') \/ Newest(b, t)' = Gone
      BY <2>1, <3>2, <3>3, <3>6, <3>7, <3>8, <3>11 DEF SoFarInv
    <3>12. ASSUME job[b].op = "remove", job[b].at \in {"unlink", "link", "commit"},
                  NEW t \in job[b].want \ job[b].unlink
           PROVE  /\ t \notin LinksOf(b)'
                  /\ LinkKey(job'[b], t) \in wrote'[b] \/ (job[b].field = "hasMany" /\ Newest(b, t)' = Gone)
      BY <2>1, <3>2, <3>3, <3>6, <3>7, <3>8, <3>12 DEF SoFarInv
    <3>13. ASSUME UnlinksAll(job'[b]), Exact(job'[b]), job[b].at = "unlink",
                  NEW t \in Targets, Newest(b, t)' = job[b].source
           PROVE  t \in job[b].unlink
      BY <2>1, <3>4, <3>5, <3>8, <3>13 DEF SoFarInv
    <3>14. ASSUME UnlinksAll(job'[b]), Exact(job'[b]), job[b].at \in {"link", "commit"}
           PROVE  LinksOf(b)' \subseteq job[b].want
      BY <2>1, <3>2, <3>4, <3>5, <3>14 DEF SoFarInv
    <3>15. ASSUME UnlinksAll(job'[b]), job[b].field = "belongsToMany", job[b].at \in {"link", "commit"}
           PROVE  job[b].source \in gaps'[b]
      BY <2>1, <3>4, <3>7, <3>15 DEF SoFarInv
    <3> QED
      BY <3>9, <3>10, <3>11, <3>12, <3>13, <3>14, <3>15 DEF SoFarInv
  <2>6. DestroyInv(b)'
    <3> SUFFICES ASSUME job[b].op = "destroy", job[b].source \notin excused PROVE DestroyInv(b)'
      BY <1>5, <1>9 DEF DestroyInv
    <3>1. PICK s : s = job[b].source
      OBVIOUS
    <3>2. job'[b].source = s /\ job'[b].at = job[b].at /\ job'[b].unlink = job[b].unlink
      BY <1>9, <3>1
    <3>3. view'[b] = view[b] /\ rels' = rels /\ wrote'[b] = wrote[b]
      BY <1>2
    <3>4. \A k : Newest(b, k)' = Newest(b, k)
      BY <3>3 DEF Newest
    <3> QED
      BY <2>1, <3>1, <3>2, <3>3, <3>4 DEF DestroyInv
  <2>7. MetInv(b)'
    <3>1. ASSUME job[b].at # "idle", job[b].op = "destroy", NEW a \in Workers \ {b},
                 job'[a].at # "idle", job'[a].source = job[b].source
          PROVE  job[b].source \in excused'
      <4>1. CASE a = c
        BY <1>3, <1>4, <1>6, <3>1, <4>1
      <4>2. CASE a # c
        BY <1>5, <1>9, <2>1, <3>1, <4>2 DEF MetInv
      <4> QED
        BY <4>1, <4>2
    <3> QED
      BY <1>2, <1>5, <1>9, <2>1, <3>1 DEF MetInv
  <2> QED
    BY <2>2, <2>3, <2>4, <2>5, <2>6, <2>7
<1> QED
  BY <1>10, <1>11, <1>12, <1>13, <1>14 DEF RelationsInvar

LEMMA RelationsInitHolds == RelationsInit => RelationsInvar
<1> SUFFICES ASSUME RelationsInit PROVE RelationsInvar
  OBVIOUS
<1>1. IsLinkRows(rels) /\ \A s \in Sources : Ended(rels, s)
  BY RelationsAssumption DEF RelationsInit
<1>2. NoJob \in LinkJob /\ NoJob.at = "idle"
  BY DEF NoJob, LinkJob, LinkStages
<1>3. TypesInv
  BY <1>1, <1>2, RowsAway, RelationsAssumption DEF RelationsInit, TypesInv
<1>4. LocksInv /\ NoDangling
  BY <1>1 DEF RelationsInit, LocksInv, NoDangling
<1>5. ASSUME NEW c \in Workers
      PROVE  /\ StageInv(job[c]) /\ WroteInv(c) /\ MetInv(c) /\ AloneInv(c)
             /\ GapInv(c) /\ SoFarInv(c) /\ DestroyInv(c)
  <2>1. job[c] = NoJob /\ wrote[c] = {} /\ held[c] = {} /\ gaps[c] = {}
    BY DEF RelationsInit
  <2> QED
    BY <2>1 DEF StageInv, UnlinksAll, WroteInv, MetInv, AloneInv, GapInv, SoFarInv, DestroyInv, NoJob, LinkStages
<1> QED
  BY <1>3, <1>4, <1>5 DEF RelationsInvar

LEMMA RelationsStays ==
  ASSUME RelationsInvar, UNCHANGED relationVars
  PROVE  RelationsInvar'
<1> USE DEF relationVars, transaction
<1>1. TypesInv' /\ LocksInv' /\ NoDangling'
  BY DEF RelationsInvar, TypesInv, LocksInv, NoDangling, Ended
<1>2. ASSUME NEW c \in Workers
      PROVE  (StageInv(job[c]) /\ WroteInv(c) /\ AloneInv(c) /\ SoFarInv(c) /\ DestroyInv(c))'
  BY OthersStay
<1>3. ASSUME NEW c \in Workers PROVE (MetInv(c) /\ GapInv(c))'
  BY DEF RelationsInvar, MetInv, GapInv
<1> QED
  BY <1>1, <1>2, <1>3 DEF RelationsInvar

LEMMA RelationsStep == RelationsInvar /\ [RelationsNext]_relationVars => RelationsInvar'
<1>1. ASSUME RelationsInvar, NEW c \in Workers, Work(c) PROVE RelationsInvar'
  BY <1>1, StartKeeps, CheckKeeps, ReadKeeps, UnlinkKeeps, AfterUnlinkKeeps, CascadeKeeps,
     ClearKeeps, LinkKeeps, AfterLinkKeeps, DeleteKeeps, OthersKeeps, CommitKeeps, FailKeeps
     DEF Work
<1>2. ASSUME RelationsInvar, UNCHANGED relationVars PROVE RelationsInvar'
  BY <1>2, RelationsStays
<1> QED
  BY <1>1, <1>2 DEF RelationsNext

\* The invariant.
THEOREM LinksKept == RelationsSpec => []RelationsInvar
BY RelationsInitHolds, RelationsStep, PTL DEF RelationsSpec

\* What a request on associations is about to commit is what it was asked for, and no
\* link outlives its record, except as LinksHold says (AddAssociation, SetAssociation,
\* RemoveAssociation, handleOnDelete), for any sources, targets, page and requests.
THEOREM LinksTrue == RelationsSpec => []LinksHold
<1>1. RelationsInvar => LinksHold
  <2> SUFFICES ASSUME RelationsInvar, NEW c \in Workers, job[c].at = "commit"
               PROVE  LET q == job[c]
                          exact == q.field = "belongsToMany" \/ (q.alone /\ q.whole) IN
                      /\ q.op \in {"add", "set"} =>
                           \A t \in q.want : t \in LinksOf(c) \/ Newest(c, t) = Gone
                      /\ q.op = "set" /\ exact => LinksOf(c) \subseteq q.want
                      /\ q.op = "remove" => q.want \cap LinksOf(c) = {}
                      /\ q.op = "remove" /\ q.want = {} /\ exact => LinksOf(c) = {}
    BY DEF LinksHold, LinksAsAsked, RelationsInvar, Doing
  <2>1. StageInv(job[c]) /\ SoFarInv(c)
    BY DEF RelationsInvar
  <2>2. job[c].link = {} /\ (job[c].op = "remove" => job[c].unlink = {})
    BY <2>1 DEF StageInv
  <2> QED
    BY <2>1, <2>2 DEF SoFarInv, UnlinksAll, Exact
<1> QED
  BY <1>1, LinksKept, PTL

-----------------------------------------------------------------------------
(***************************************************************************)
(* FieldValues: the invariant.                                             *)
(***************************************************************************)
CallTypes ==
  [op : {"create", "update", "updateMany"}, ids : SUBSET RecIds,
   at : {"idle", "fill", "check", "store", "commit"}, values : Recs, alone : BOOLEAN]

ValueTypes ==
  /\ recs \in [RecIds -> Recs \cup {NoRec}] /\ lastRec \in Nat /\ counter \in Nat
  /\ call \in [Writers -> CallTypes]
  /\ valueCalls \in Nat /\ valueRestarts \in Nat
  /\ firstNumber \in [RecIds -> Nat] /\ givenIn \in [RecIds -> Nat]
  /\ givenWith \in [RecIds -> SUBSET RecIds]
  /\ loose \subseteq RecIds /\ looseCodes \subseteq RecIds

\* The rows that a request has written are its own: a new one, or ones that are there.
RowsInv(c) ==
  /\ call[c].ids \subseteq 1..lastRec
  /\ call[c].op = "create" => \E k \in RecIds \ Live : call[c].ids = {k}
  /\ call[c].op # "create" => call[c].ids \subseteq Live
  /\ \A b \in Writers \ {c} : On(b, "commit") => call[b].ids \cap call[c].ids = {}

\* A number is the request's own since the last restart, the highest place is bounded.
HasValues(c) == call[c].at \in {"check", "store", "commit"}

NumberInv(c) ==
  /\ call[c].values.number <= counter
  /\ \A b \in Writers \ {c} : HasValues(b) => call[b].values.number # call[c].values.number
  /\ \A i \in Live : givenIn[i] = valueRestarts => recs[i].number # call[c].values.number

GivenInv ==
  \A i \in Live : /\ i <= lastRec /\ givenIn[i] <= valueRestarts
                  /\ givenIn[i] = valueRestarts => recs[i].number <= counter

PlaceInv == \E m \in Nat : \A i \in Live : recs[i].place <= m

\* Whoever is alone goes by what there is.
Named(c) == IF call[c].op = "update" THEN call[c].ids ELSE {}
OnlyInv(c) ==
  /\ ~On(c, "idle") /\ \A b \in Writers \ {c} : On(b, "idle")
  /\ HasValues(c) => \A i \in Live : recs[i].place < call[c].values.place
  /\ call[c].at \in {"store", "commit"} /\ call[c].values.code # NoCode =>
       \A i \in Live \ Named(c) : recs[i].code # call[c].values.code

\* Where there is an index it is of what is stored.
IndexInv(c) ==
  call[c].values.code # NoCode =>
    /\ \A i, j \in call[c].ids : i = j
    /\ \A i \in Live \ call[c].ids : recs[i].code # call[c].values.code
    /\ \A b \in Writers \ {c} : On(b, "commit") => call[b].values.code # call[c].values.code

\* The parts of the invariant, of one request.
CallInv(c) ==
  /\ On(c, "commit") => RowsInv(c)
  /\ HasValues(c) => NumberInv(c)
  /\ call[c].alone => OnlyInv(c)
  /\ indexed /\ On(c, "commit") => IndexInv(c)

\* What a request has written, the numbers under way, and who is alone.
ValuesInvar == ValueTypes /\ GivenInv /\ PlaceInv /\ ValuesApart /\ \A c \in Writers : CallInv(c)

-----------------------------------------------------------------------------
(***************************************************************************)
(* FieldValues: numbers and sets.                                          *)
(***************************************************************************)
\* A set of numbers has a least element.
LEMMA Least ==
  ASSUME NEW S, S \subseteq Nat, S # {}
  PROVE \E i \in S : \A j \in S : i <= j
<1> DEFINE R == {s \in Nat \X Nat : s[1] < s[2]}
<1>1. IsWellFoundedOn(R, Nat)
  BY NatLessThanWellFounded DEF OpToRel
<1>2. \A x, y \in Nat : <<y, x>> \in R <=> y < x
  OBVIOUS
<1> HIDE DEF R
<1>3. \E x \in S : \A y \in S : ~(<<y, x>> \in R)
  BY <1>1, WFMin, Zenon
<1>4. PICK x \in S : \A y \in S : ~(<<y, x>> \in R)
  BY <1>3
<1>5. \A y \in S : x <= y
  <2> SUFFICES ASSUME NEW y \in S PROVE x <= y
    OBVIOUS
  <2>1. x \in Nat /\ y \in Nat
    OBVIOUS
  <2>2. ~(y < x)
    BY <1>2, <1>4, <2>1
  <2> QED
    BY <2>1, <2>2
<1> QED
  BY <1>5

\* Numbers that are bounded have a greatest one.
LEMMA MaxIs ==
  ASSUME NEW S, S \subseteq Nat, 0 \in S, NEW m \in Nat, \A x \in S : x <= m
  PROVE Max(S) \in Nat /\ \A x \in S : x <= Max(S)
<1> DEFINE U == {u \in Nat : \A x \in S : x <= u}
<1>1. U \subseteq Nat /\ U # {}
  BY DEF U
<1>2. PICK u \in U : \A v \in U : u <= v
  BY <1>1, Least
<1>3. u \in Nat /\ \A x \in S : x <= u
  BY <1>2
<1>4. u \in S
  <2> SUFFICES ASSUME u \notin S PROVE FALSE
    OBVIOUS
  <2>1. \A x \in S : x \in Nat /\ x < u
    BY <1>3
  <2>2. u # 0 /\ u - 1 \in Nat
    BY <2>1, <1>3
  <2>3. u - 1 \in U
    BY <2>1, <2>2, <1>3
  <2>4. u <= u - 1
    BY <2>3, <1>2
  <2> QED
    BY <2>4, <1>3
<1>5. \E x \in S : \A y \in S : x >= y
  BY <1>3, <1>4
<1>6. Max(S) \in S /\ \A y \in S : Max(S) >= y
  BY <1>5 DEF Max
<1> QED
  BY <1>6

\* Of fewer than two there are no two.
LEMMA FewerThanTwo ==
  ASSUME NEW n \in Nat, NEW S, S \subseteq 1..n, NEW i \in S, NEW j \in S, i # j
  PROVE ~(Cardinality(S) < 2)
<1>1. IsFiniteSet(1..n)
  BY FS_Interval
<1>2. IsFiniteSet(S)
  BY <1>1, FS_Subset
<1>3. IsFiniteSet({i}) /\ Cardinality({i}) = 1
  BY FS_Singleton
<1>4. IsFiniteSet({i, j}) /\ Cardinality({i, j}) = 2
  <2>1. {i, j} = {i} \cup {j} /\ j \notin {i}
    OBVIOUS
  <2>2. IsFiniteSet({i} \cup {j}) /\ Cardinality({i} \cup {j}) = Cardinality({i}) + 1
    BY <1>3, <2>1, FS_AddElement
  <2> QED
    BY <1>3, <2>1, <2>2
<1>5. {i, j} \subseteq S
  OBVIOUS
<1>6. Cardinality({i, j}) <= Cardinality(S) /\ Cardinality(S) \in Nat
  BY <1>2, <1>5, FS_Subset, FS_CardinalityType
<1> QED
  BY <1>4, <1>6

-----------------------------------------------------------------------------
(***************************************************************************)
(* FieldValues: types, and what a step leaves alone.                       *)
(***************************************************************************)
\* The types that the assumption gives.
LEMMA ValueConstants ==
  /\ RecIds \subseteq Nat \ {0} /\ NoCode \notin Codes /\ NoRec \notin Recs
  /\ StartsAt \in Nat \ {0} /\ Step \in Nat \ {0}
BY FieldValuesAssumption

\* What a record is.
LEMMA RecType ==
  ASSUME NEW r \in Recs
  PROVE r.number \in Nat /\ r.place \in Nat /\ r.code \in Codes \cup {NoCode}
BY DEF Recs

\* Nobody asks.
LEMMA NoCallType == NoCall \in CallTypes
<1>1. NoValues \in Recs
  BY DEF NoValues, Recs
<1> QED
  BY <1>1 DEF NoCall, CallTypes

\* The types of one request.
LEMMA CallFacts ==
  ASSUME ValueTypes, NEW c \in Writers
  PROVE /\ call[c] \in CallTypes /\ call[c].values \in Recs
        /\ call[c].values.number \in Nat /\ call[c].values.place \in Nat
        /\ call[c].values.code \in Codes \cup {NoCode}
        /\ call[c].ids \subseteq RecIds /\ call[c].alone \in BOOLEAN
<1>1. call[c] \in CallTypes
  BY DEF ValueTypes
<1>2. call[c].values \in Recs /\ call[c].ids \subseteq RecIds /\ call[c].alone \in BOOLEAN
  BY <1>1 DEF CallTypes
<1> QED
  BY <1>1, <1>2, RecType

\* Records that are there are records.
LEMMA LiveFacts ==
  ASSUME ValueTypes, NEW i \in Live
  PROVE i \in RecIds /\ i \in Nat /\ recs[i] \in Recs /\ recs[i].number \in Nat /\ recs[i].place \in Nat
<1>1. i \in RecIds /\ recs[i] # NoRec
  BY DEF Live
<1>2. recs[i] \in Recs
  BY <1>1 DEF ValueTypes
<1> QED
  BY <1>1, <1>2, RecType, ValueConstants

\* A step that leaves the records, the histories and all calls but one alone keeps
\* what holds of the others, if that one has no new number and has written no rows.
LEMMA OtherCalls ==
  ASSUME ValueTypes, NEW c \in Writers, NEW b \in Writers, b # c,
         NEW q, call' = [call EXCEPT ![c] = q],
         UNCHANGED <<recs, lastRec, indexed, valueRestarts, givenValues>>,
         counter \in Nat, counter' \in Nat, counter <= counter',
         q.at \in {"check", "store", "commit"} /\ HasValues(b) =>
           call[b].values.number # q.values.number,
         q.at # "commit",
         call[c].at = "idle" => q.at = "idle",
         CallInv(b)
  PROVE CallInv(b)'
<1>1. call'[b] = call[b] /\ call'[c] = q /\ \A a \in Writers \ {c} : call'[a] = call[a]
  BY DEF ValueTypes
<1>2. Live' = Live
  BY DEF Live
<1>3. On(b, "commit")' => RowsInv(b)'
  BY <1>1, <1>2 DEF CallInv, RowsInv, On, givenValues
<1>4. HasValues(b)' => NumberInv(b)'
  <2> SUFFICES ASSUME HasValues(b)' PROVE NumberInv(b)'
    OBVIOUS
  <2>1. HasValues(b) /\ NumberInv(b)
    BY <1>1 DEF CallInv, HasValues
  <2>2. call[b].values.number \in Nat
    BY CallFacts
  <2>3. call[b].values.number <= counter'
    BY <2>1, <2>2 DEF NumberInv
  <2>4. \A a \in Writers \ {b} : HasValues(a)' => call'[a].values.number # call'[b].values.number
    BY <1>1, <2>1 DEF NumberInv, HasValues
  <2>5. \A i \in Live' : givenIn'[i] = valueRestarts' => recs'[i].number # call[b].values.number
    BY <1>2, <2>1 DEF NumberInv, givenValues
  <2> QED
    BY <1>1, <2>3, <2>4, <2>5 DEF NumberInv
<1>5. call'[b].alone => OnlyInv(b)'
  <2> SUFFICES ASSUME call'[b].alone PROVE OnlyInv(b)'
    OBVIOUS
  <2>1. OnlyInv(b)
    BY <1>1 DEF CallInv
  <2>2. On(c, "idle") /\ On(c, "idle")'
    BY <1>1, <2>1 DEF OnlyInv, On
  <2>3. Named(b)' = Named(b) /\ HasValues(b)' = HasValues(b)
    BY <1>1 DEF Named, HasValues
  <2> QED
    BY <1>1, <1>2, <2>1, <2>2, <2>3 DEF OnlyInv, On
<1>6. indexed' /\ On(b, "commit")' => IndexInv(b)'
  BY <1>1, <1>2 DEF CallInv, IndexInv, On
<1> QED
  BY <1>3, <1>4, <1>5, <1>6 DEF CallInv

\* What speaks of the records only.
LEMMA RecordFrame ==
  ASSUME ValuesInvar, UNCHANGED <<recs, lastRec, indexed, valueRestarts, givenValues>>,
         counter \in Nat, counter' \in Nat, counter <= counter'
  PROVE GivenInv' /\ PlaceInv' /\ ValuesApart'
<1>1. Live' = Live
  BY DEF Live
<1>2. GivenInv'
  <2> SUFFICES ASSUME NEW i \in Live
               PROVE i <= lastRec /\ givenIn[i] <= valueRestarts
                     /\ (givenIn[i] = valueRestarts => recs[i].number <= counter')
    BY <1>1 DEF GivenInv, givenValues
  <2>1. recs[i].number \in Nat
    BY LiveFacts DEF ValuesInvar
  <2> QED
    BY <2>1 DEF ValuesInvar, GivenInv
<1>3. PlaceInv'
  BY <1>1 DEF ValuesInvar, PlaceInv
<1>4. ValuesApart'
  BY <1>1 DEF ValuesInvar, ValuesApart, NumbersApart, PlacesApart, CodesApart, givenValues
<1> QED
  BY <1>2, <1>3, <1>4

\* A request that ends without a trace.
LEMMA RefuseValuesKeeps ==
  ASSUME ValuesInvar, NEW c \in Writers, Refuse(c)
  PROVE ValuesInvar'
<1>0. ValueTypes
  BY DEF ValuesInvar
<1>1. ValueTypes'
  BY <1>0, NoCallType DEF Refuse, ValueTypes, givenValues
<1>2. counter \in Nat /\ counter' = counter
  BY <1>0 DEF Refuse, ValueTypes
<1>3. UNCHANGED <<recs, lastRec, indexed, valueRestarts, givenValues>>
  BY DEF Refuse
<1>4. GivenInv' /\ PlaceInv' /\ ValuesApart'
  BY <1>2, <1>3, RecordFrame
<1>5. call' = [call EXCEPT ![c] = NoCall] /\ NoCall.at = "idle" /\ NoCall.alone = FALSE
  BY DEF Refuse, NoCall
<1>6. \A b \in Writers \ {c} : CallInv(b)'
  <2> SUFFICES ASSUME NEW b \in Writers \ {c} PROVE CallInv(b)'
    OBVIOUS
  <2>1. CallInv(b)
    BY DEF ValuesInvar
  <2>2. counter \in Nat /\ counter' \in Nat /\ counter <= counter'
    BY <1>2
  <2>3. /\ NoCall.at \notin {"check", "store", "commit"} /\ NoCall.at # "commit"
        /\ call[c].at = "idle" => NoCall.at = "idle"
    BY <1>5
  <2>4. call' = [call EXCEPT ![c] = NoCall] /\ b # c /\ b \in Writers
    BY <1>5
  <2> QED
    BY <1>0, <1>3, <2>1, <2>2, <2>3, <2>4, OtherCalls
<1>7. CallInv(c)'
  <2>1. call'[c].at = "idle" /\ call'[c].alone = FALSE
    BY <1>0, <1>5 DEF ValueTypes
  <2> QED
    BY <2>1 DEF CallInv, On, HasValues
<1> QED
  BY <1>1, <1>4, <1>6, <1>7 DEF ValuesInvar

-----------------------------------------------------------------------------
(***************************************************************************)
(* FieldValues: each action.                                               *)
(***************************************************************************)
\* What a request may ask for.
LEMMA RequestFacts ==
  ASSUME ValuesInvar, NEW q \in ValueRequests
  PROVE q \in CallTypes /\ q.at = "fill"
<1>1. \A op \in {"create", "update", "updateMany"}, ids \in SUBSET RecIds, k \in Codes \cup {NoCode} :
        NewCall(op, ids, k) \in CallTypes /\ NewCall(op, ids, k).at = "fill"
  <2> SUFFICES ASSUME NEW op \in {"create", "update", "updateMany"}, NEW ids \in SUBSET RecIds,
                      NEW k \in Codes \cup {NoCode}
               PROVE NewCall(op, ids, k) \in CallTypes /\ NewCall(op, ids, k).at = "fill"
    OBVIOUS
  <2>1. [NoValues EXCEPT !.code = k] \in Recs
    BY DEF NoValues, Recs
  <2> QED
    BY <2>1 DEF NewCall, NoCall, CallTypes
<1>2. Live \subseteq RecIds
  BY DEF Live
<1>3. \E op \in {"create", "update", "updateMany"}, ids \in SUBSET RecIds, k \in Codes \cup {NoCode} :
        q = NewCall(op, ids, k)
  <2>1. CASE \E k \in Codes \cup {NoCode} : q = NewCall("create", {}, k)
    <3> {} \in SUBSET RecIds
      OBVIOUS
    <3> QED
      BY <2>1
  <2>2. CASE \E i \in Live, k \in Codes \cup {NoCode} : q = NewCall("update", {i}, k)
    <3>1. PICK i \in Live, k \in Codes \cup {NoCode} : q = NewCall("update", {i}, k)
      BY <2>2
    <3>2. {i} \in SUBSET RecIds
      BY <1>2
    <3> QED
      BY <3>1, <3>2
  <2>3. CASE \E s \in SUBSET Live, k \in Codes \cup {NoCode} : q = NewCall("updateMany", s, k)
    <3>1. PICK s \in SUBSET Live, k \in Codes \cup {NoCode} : q = NewCall("updateMany", s, k)
      BY <2>3
    <3>2. s \in SUBSET RecIds
      BY <1>2
    <3> QED
      BY <3>1, <3>2
  <2>4. (\E k \in Codes \cup {NoCode} : q = NewCall("create", {}, k))
        \/ (\E i \in Live, k \in Codes \cup {NoCode} : q = NewCall("update", {i}, k))
        \/ (\E s \in SUBSET Live, k \in Codes \cup {NoCode} : q = NewCall("updateMany", s, k))
    <3> DEFINE Update(i, k) == NewCall("update", {i}, k)
               Creates == {NewCall("create", {}, k) : k \in Codes \cup {NoCode}}
               Updates == {Update(i, k) : i \in Live, k \in Codes \cup {NoCode}}
               Batches == {NewCall("updateMany", s, k) : s \in SUBSET Live, k \in Codes \cup {NoCode}}
    <3>1. ValueRequests = (IF lastRec + 1 \in RecIds THEN Creates ELSE {}) \cup Updates \cup Batches
      BY DEF ValueRequests
    <3>2. q \in Creates => \E k \in Codes \cup {NoCode} : q = NewCall("create", {}, k)
      OBVIOUS
    <3>3. q \in Updates => \E i \in Live, k \in Codes \cup {NoCode} : q = Update(i, k)
      <4> HIDE DEF Update
      <4> QED
        BY SMTT(30)
    <3>4. q \in Batches => \E s \in SUBSET Live, k \in Codes \cup {NoCode} : q = NewCall("updateMany", s, k)
      BY SMTT(30)
    <3> HIDE DEF Creates, Updates, Batches
    <3>5. q \in Creates \/ q \in Updates \/ q \in Batches
      BY <3>1
    <3> QED
      BY <3>2, <3>3, <3>4, <3>5
  <2> QED
    BY <2>1, <2>2, <2>3, <2>4
<1> QED
  BY <1>1, <1>3

\* A request arrives: nobody else is alone any more.
LEMMA SubmitKeeps ==
  ASSUME ValuesInvar, NEW c \in Writers, Submit(c)
  PROVE ValuesInvar'
<1>0. ValueTypes
  BY DEF ValuesInvar
<1> DEFINE others == {b \in Writers : ~On(b, "idle")}
<1>1. PICK q \in ValueRequests :
        call' = [b \in Writers |-> IF b = c THEN [q EXCEPT !.alone = others = {}]
                                   ELSE [call[b] EXCEPT !.alone = FALSE]]
  BY DEF Submit
<1>2. q \in CallTypes /\ q.at = "fill"
  BY RequestFacts
<1> DEFINE p == [q EXCEPT !.alone = others = {}]
<1>3. (others = {}) \in BOOLEAN
  OBVIOUS
<1>4. p \in CallTypes /\ p.at = "fill" /\ p.alone = (others = {})
  <2> HIDE DEF others
  <2> QED
    BY <1>2, <1>3 DEF CallTypes
<1>5. call'[c] = p /\ \A b \in Writers \ {c} : call'[b] = [call[b] EXCEPT !.alone = FALSE]
  BY <1>1
<1>6. UNCHANGED <<recs, lastRec, indexed, counter, valueRestarts, givenValues>>
  BY DEF Submit
<1>7. Live' = Live
  BY <1>6 DEF Live
<1> HIDE DEF p
<1>8. \A b \in Writers \ {c} : [call[b] EXCEPT !.alone = FALSE] \in CallTypes
  BY <1>0 DEF ValueTypes, CallTypes
<1>9. call' \in [Writers -> CallTypes]
  BY <1>1, <1>4, <1>8 DEF p
<1>10. ValueTypes'
  BY <1>0, <1>6, <1>9 DEF Submit, ValueTypes, givenValues
<1>11. counter \in Nat /\ counter' = counter
  BY <1>0, <1>6 DEF ValueTypes
<1>12. GivenInv' /\ PlaceInv' /\ ValuesApart'
  BY <1>6, <1>11, RecordFrame
<1>13. ~HasValues(c)' /\ ~On(c, "commit")' /\ ~On(c, "idle")'
  BY <1>4, <1>5 DEF HasValues, On
<1>14. \A b \in Writers \ {c} :
         /\ call'[b].ids = call[b].ids /\ call'[b].values = call[b].values
         /\ call'[b].op = call[b].op /\ call'[b].at = call[b].at /\ call'[b].alone = FALSE
  <2> SUFFICES ASSUME NEW b \in Writers \ {c}
               PROVE /\ call'[b].ids = call[b].ids /\ call'[b].values = call[b].values
                     /\ call'[b].op = call[b].op /\ call'[b].at = call[b].at /\ call'[b].alone = FALSE
    OBVIOUS
  <2>1. call[b] \in CallTypes
    BY <1>0 DEF ValueTypes
  <2>2. call'[b] = [call[b] EXCEPT !.alone = FALSE]
    BY <1>5
  <2> QED
    BY <2>1, <2>2 DEF CallTypes
<1>15. \A b \in Writers \ {c} : CallInv(b)'
  <2> SUFFICES ASSUME NEW b \in Writers \ {c} PROVE CallInv(b)'
    OBVIOUS
  <2>0. CallInv(b)
    BY DEF ValuesInvar
  <2>1. On(b, "commit")' => RowsInv(b)'
    BY <1>6, <1>7, <1>13, <1>14, <2>0 DEF CallInv, RowsInv, On, givenValues
  <2>2. HasValues(b)' => NumberInv(b)'
    BY <1>6, <1>7, <1>13, <1>14, <2>0 DEF CallInv, NumberInv, HasValues, givenValues
  <2>3. indexed' /\ On(b, "commit")' => IndexInv(b)'
    BY <1>6, <1>7, <1>13, <1>14, <2>0 DEF CallInv, IndexInv, On
  <2> QED
    BY <1>14, <2>1, <2>2, <2>3 DEF CallInv
<1>16. CallInv(c)'
  <2>1. ASSUME call'[c].alone PROVE OnlyInv(c)'
    <3>1. others = {}
      BY <1>4, <1>5, <2>1
    <3>2. \A b \in Writers \ {c} : On(b, "idle")'
      BY <1>14, <3>1 DEF On
    <3> QED
      BY <1>4, <1>5, <1>13, <3>2 DEF OnlyInv, On
  <2> QED
    BY <1>13, <2>1 DEF CallInv
<1> QED
  BY <1>10, <1>12, <1>15, <1>16 DEF ValuesInvar

\* The next number and the next place are beyond those given.
LEMMA NextIsNew ==
  ASSUME ValuesInvar
  PROVE /\ NextNumber \in Nat /\ NextNumber > counter
        /\ NextPlace \in Nat /\ \A i \in Live : recs[i].place < NextPlace
<1>0. ValueTypes /\ counter \in Nat
  BY DEF ValuesInvar, ValueTypes
<1>1. NextNumber \in Nat /\ NextNumber > counter
  BY <1>0, ValueConstants DEF NextNumber
<1> DEFINE S == {recs[i].place : i \in Live} \cup {0}
<1>2. PICK m \in Nat : \A i \in Live : recs[i].place <= m
  BY DEF ValuesInvar, PlaceInv
<1>3. S \subseteq Nat /\ 0 \in S
  BY <1>0, LiveFacts
<1>4. \A x \in S : x <= m
  BY <1>2
<1>5. \A i \in Live : recs[i].place \in S
  OBVIOUS
<1>6. NextPlace = 1 + Max(S)
  BY DEF NextPlace
<1> HIDE DEF S
<1>7. Max(S) \in Nat /\ \A x \in S : x <= Max(S)
  BY <1>3, <1>4, MaxIs
<1>8. \A i \in Live : recs[i].place < NextPlace
  <2> SUFFICES ASSUME NEW i \in Live PROVE recs[i].place < NextPlace
    OBVIOUS
  <2>1. recs[i].place \in Nat
    BY <1>0, LiveFacts
  <2>2. recs[i].place <= Max(S)
    BY <1>5, <1>7
  <2> QED
    BY <1>6, <1>7, <2>1, <2>2
<1>9. NextPlace \in Nat
  BY <1>6, <1>7
<1> QED
  BY <1>1, <1>8, <1>9

\* It is given a number and a place that nobody has.
LEMMA FillKeeps ==
  ASSUME ValuesInvar, NEW c \in Writers, Fill(c)
  PROVE ValuesInvar'
<1>0. ValueTypes /\ counter \in Nat
  BY DEF ValuesInvar, ValueTypes
<1> DEFINE q == [call[c] EXCEPT !.values = Filled(c), !.at = "check"]
<1>1. call' = [call EXCEPT ![c] = q]
  BY DEF Fill
<1>2. counter' = NextNumber /\ On(c, "fill")
  BY DEF Fill
<1>3. UNCHANGED <<recs, lastRec, indexed, valueRestarts, givenValues, valueCalls>>
  BY DEF Fill
<1>4. /\ NextNumber \in Nat /\ NextNumber > counter
      /\ NextPlace \in Nat /\ \A i \in Live : recs[i].place < NextPlace
  BY NextIsNew
<1>5. Filled(c) \in Recs /\ Filled(c).number = NextNumber /\ Filled(c).place = NextPlace
  BY <1>0, <1>4, CallFacts DEF Filled, Recs
<1>6. q \in CallTypes /\ q.values = Filled(c) /\ q.at = "check" /\ q.alone = call[c].alone
  BY <1>0, <1>5, CallFacts DEF CallTypes
<1> HIDE DEF q
<1>7. call'[c] = q /\ \A b \in Writers \ {c} : call'[b] = call[b]
  BY <1>0, <1>1 DEF ValueTypes
<1>8. call' \in [Writers -> CallTypes]
  BY <1>0, <1>1, <1>6 DEF ValueTypes
<1>9. ValueTypes'
  BY <1>0, <1>2, <1>3, <1>4, <1>8 DEF ValueTypes, givenValues
<1>10. counter' \in Nat /\ counter <= counter'
  BY <1>0, <1>2, <1>4
<1>11. GivenInv' /\ PlaceInv' /\ ValuesApart'
  BY <1>0, <1>3, <1>10, RecordFrame
<1>12. Live' = Live
  BY <1>3 DEF Live
<1>13. \A b \in Writers : HasValues(b) => call[b].values.number < NextNumber
  <2> SUFFICES ASSUME NEW b \in Writers, HasValues(b) PROVE call[b].values.number < NextNumber
    OBVIOUS
  <2>1. call[b].values.number <= counter
    BY DEF ValuesInvar, CallInv, NumberInv
  <2>2. call[b].values.number \in Nat
    BY <1>0, CallFacts
  <2> QED
    BY <1>0, <1>4, <2>1, <2>2
<1>14. \A b \in Writers : HasValues(b) => call[b].values.number # NextNumber
  <2> SUFFICES ASSUME NEW b \in Writers, HasValues(b) PROVE call[b].values.number # NextNumber
    OBVIOUS
  <2>1. call[b].values.number \in Nat
    BY <1>0, CallFacts
  <2> QED
    BY <1>4, <1>13, <2>1
<1>15. \A b \in Writers \ {c} : CallInv(b)'
  <2> SUFFICES ASSUME NEW b \in Writers \ {c} PROVE CallInv(b)'
    OBVIOUS
  <2>1. CallInv(b)
    BY DEF ValuesInvar
  <2>2. HasValues(b) => call[b].values.number # q.values.number
    BY <1>5, <1>6, <1>14
  <2>3. q.at # "commit" /\ (call[c].at = "idle" => q.at = "idle")
    BY <1>2, <1>6 DEF On
  <2>4. b # c /\ b \in Writers
    OBVIOUS
  <2> QED
    BY <1>0, <1>1, <1>3, <1>10, <2>1, <2>2, <2>3, <2>4, OtherCalls
<1>16. NumberInv(c)'
  <2>1. call'[c].values.number = NextNumber
    BY <1>5, <1>6, <1>7
  <2>2. NextNumber <= counter'
    BY <1>2, <1>4
  <2>3. \A b \in Writers \ {c} : HasValues(b)' => call'[b].values.number # NextNumber
    BY <1>7, <1>14 DEF HasValues
  <2>4. \A i \in Live : givenIn[i] = valueRestarts => recs[i].number # NextNumber
    <3> SUFFICES ASSUME NEW i \in Live, givenIn[i] = valueRestarts PROVE recs[i].number # NextNumber
      OBVIOUS
    <3>1. recs[i].number <= counter
      BY DEF ValuesInvar, GivenInv
    <3>2. recs[i].number \in Nat
      BY <1>0, LiveFacts
    <3> QED
      BY <1>0, <1>4, <3>1, <3>2
  <2>5. \A i \in Live' : givenIn'[i] = valueRestarts' => recs'[i].number # NextNumber
    BY <1>3, <1>12, <2>4 DEF givenValues
  <2> QED
    BY <2>1, <2>2, <2>3, <2>5 DEF NumberInv
<1>17. ASSUME call'[c].alone PROVE OnlyInv(c)'
  <2>1. OnlyInv(c)
    BY <1>6, <1>7, <1>17 DEF ValuesInvar, CallInv
  <2>2. \A b \in Writers \ {c} : On(b, "idle")'
    BY <1>7, <2>1 DEF OnlyInv, On
  <2>3. call'[c].at = "check"
    BY <1>6, <1>7
  <2>4. \A i \in Live' : recs'[i].place < call'[c].values.place
    BY <1>3, <1>4, <1>5, <1>6, <1>7, <1>12
  <2> QED
    BY <2>2, <2>3, <2>4 DEF OnlyInv, On
<1>18. CallInv(c)'
  <2>1. ~On(c, "commit")'
    BY <1>6, <1>7 DEF On
  <2> QED
    BY <1>16, <1>17, <2>1 DEF CallInv
<1> QED
  BY <1>9, <1>11, <1>15, <1>18 DEF ValuesInvar

\* It goes by the codes that are committed.
LEMMA CheckValuesKeeps ==
  ASSUME ValuesInvar, NEW c \in Writers, Check(c)
  PROVE ValuesInvar'
<1>0. ValueTypes /\ counter \in Nat
  BY DEF ValuesInvar, ValueTypes
<1> DEFINE q == [call[c] EXCEPT !.at = "store"]
<1>1. call' = [call EXCEPT ![c] = q]
  BY DEF Check, Go
<1>2. UNCHANGED <<recs, lastRec, indexed, counter, valueCalls, valueRestarts, givenValues>>
  BY DEF Check
<1>3. On(c, "check") /\ (call[c].values.code = NoCode \/ ~Taken(c))
  BY DEF Check
<1>4. /\ q \in CallTypes /\ q.values = call[c].values /\ q.at = "store"
      /\ q.alone = call[c].alone /\ q.op = call[c].op /\ q.ids = call[c].ids
  BY <1>0, CallFacts DEF CallTypes
<1> HIDE DEF q
<1>5. call'[c] = q /\ \A b \in Writers \ {c} : call'[b] = call[b]
  BY <1>0, <1>1 DEF ValueTypes
<1>6. call' \in [Writers -> CallTypes]
  BY <1>0, <1>1, <1>4 DEF ValueTypes
<1>7. ValueTypes'
  BY <1>0, <1>2, <1>6 DEF ValueTypes, givenValues
<1>8. counter' \in Nat /\ counter <= counter'
  BY <1>0, <1>2
<1>9. GivenInv' /\ PlaceInv' /\ ValuesApart'
  BY <1>0, <1>2, <1>8, RecordFrame
<1>10. Live' = Live
  BY <1>2 DEF Live
<1>11. HasValues(c) /\ NumberInv(c)
  BY <1>3 DEF ValuesInvar, CallInv, HasValues, On
<1>12. \A b \in Writers \ {c} : CallInv(b)'
  <2> SUFFICES ASSUME NEW b \in Writers \ {c} PROVE CallInv(b)'
    OBVIOUS
  <2>1. CallInv(b)
    BY DEF ValuesInvar
  <2>2. HasValues(b) => call[b].values.number # q.values.number
    BY <1>4, <1>11 DEF NumberInv
  <2>3. q.at # "commit" /\ (call[c].at = "idle" => q.at = "idle")
    BY <1>3, <1>4 DEF On
  <2>4. b # c /\ b \in Writers
    OBVIOUS
  <2> QED
    BY <1>0, <1>1, <1>2, <1>8, <2>1, <2>2, <2>3, <2>4, OtherCalls
<1>13. NumberInv(c)'
  <2>1. call'[c].values = call[c].values
    BY <1>4, <1>5
  <2> QED
    BY <1>2, <1>5, <1>10, <1>11, <2>1 DEF NumberInv, HasValues, givenValues
<1>14. ASSUME call'[c].alone PROVE OnlyInv(c)'
  <2>1. OnlyInv(c)
    BY <1>4, <1>5, <1>14 DEF ValuesInvar, CallInv
  <2>2. \A b \in Writers \ {c} : On(b, "idle")'
    BY <1>5, <2>1 DEF OnlyInv, On
  <2>3. \A i \in Live' : recs'[i].place < call'[c].values.place
    BY <1>2, <1>4, <1>5, <1>10, <1>11, <2>1 DEF OnlyInv
  <2>4. Named(c)' = Named(c)
    BY <1>4, <1>5 DEF Named
  <2>5. call'[c].values.code # NoCode => \A i \in Live' \ Named(c)' : recs'[i].code # call'[c].values.code
    BY <1>2, <1>3, <1>4, <1>5, <1>10, <2>4 DEF Taken, Named
  <2> QED
    BY <1>4, <1>5, <2>2, <2>3, <2>5 DEF OnlyInv, On
<1>15. CallInv(c)'
  <2>1. ~On(c, "commit")'
    BY <1>4, <1>5 DEF On
  <2> QED
    BY <1>13, <1>14, <2>1 DEF CallInv
<1> QED
  BY <1>7, <1>9, <1>12, <1>15 DEF ValuesInvar

\* The records with fewer of them, none of those that a request has written.
LEMMA DiscardKeeps ==
  ASSUME ValuesInvar, Discard
  PROVE ValuesInvar'
<1>0. ValueTypes /\ counter \in Nat
  BY DEF ValuesInvar, ValueTypes
<1>1. PICK i \in Live : /\ \A c \in Writers : On(c, "commit") => i \notin call[c].ids
                        /\ recs' = [recs EXCEPT ![i] = NoRec]
  BY DEF Discard
<1>2. UNCHANGED <<lastRec, indexed, counter, call, valueRestarts, givenValues>>
  BY DEF Discard
<1>3. /\ i \in RecIds /\ recs'[i] = NoRec
      /\ \A j \in RecIds \ {i} : recs'[j] = recs[j]
      /\ recs' \in [RecIds -> Recs \cup {NoRec}]
  BY <1>0, <1>1, LiveFacts DEF ValueTypes
<1>4. Live' = Live \ {i}
  BY <1>3 DEF Live
<1>5. \A j \in Live' : j \in Live /\ recs'[j] = recs[j]
  BY <1>3, <1>4 DEF Live
<1>6. valueCalls \in Nat /\ valueCalls' = valueCalls + 1
  BY <1>0 DEF ValueTypes, Discard
<1>7. ValueTypes'
  BY <1>0, <1>2, <1>3, <1>6 DEF ValueTypes, givenValues
<1>8. GivenInv' /\ PlaceInv'
  BY <1>2, <1>5 DEF ValuesInvar, GivenInv, PlaceInv, givenValues
<1>9. ValuesApart'
  BY <1>2, <1>5 DEF ValuesInvar, ValuesApart, NumbersApart, PlacesApart, CodesApart, givenValues
<1>10. ASSUME NEW c \in Writers PROVE CallInv(c)'
  <2>0. CallInv(c)
    BY DEF ValuesInvar
  <2>1. On(c, "commit")' => RowsInv(c)'
    <3> SUFFICES ASSUME On(c, "commit") PROVE RowsInv(c)'
      BY <1>2 DEF On
    <3>1. RowsInv(c) /\ i \notin call[c].ids
      BY <1>1, <2>0 DEF CallInv
    <3> QED
      BY <1>2, <1>4, <3>1 DEF RowsInv, On
  <2>2. HasValues(c)' => NumberInv(c)'
    BY <1>2, <1>5, <2>0 DEF CallInv, NumberInv, HasValues, givenValues
  <2>3. call'[c].alone => OnlyInv(c)'
    BY <1>2, <1>5, <2>0 DEF CallInv, OnlyInv, On, HasValues, Named
  <2>4. indexed' /\ On(c, "commit")' => IndexInv(c)'
    BY <1>2, <1>5, <2>0 DEF CallInv, IndexInv, On
  <2> QED
    BY <2>1, <2>2, <2>3, <2>4 DEF CallInv
<1> QED
  BY <1>7, <1>8, <1>9, <1>10 DEF ValuesInvar

\* A restart forgets the requests and the counter.
LEMMA RestartKeepsValues ==
  ASSUME ValuesInvar, RestartServer
  PROVE ValuesInvar'
<1>0. ValueTypes /\ valueRestarts \in Nat
  BY DEF ValuesInvar, ValueTypes
<1>1. UNCHANGED <<recs, lastRec, indexed, givenValues, valueCalls>>
  BY DEF RestartServer
<1>2. valueRestarts' = valueRestarts + 1 /\ counter' = 0 /\ call' = [c \in Writers |-> NoCall]
  BY DEF RestartServer
<1>3. ValueTypes'
  BY <1>0, <1>1, <1>2, NoCallType DEF ValueTypes, givenValues
<1>4. Live' = Live
  BY <1>1 DEF Live
<1>5. GivenInv'
  <2> SUFFICES ASSUME NEW i \in Live
               PROVE i <= lastRec /\ givenIn[i] <= valueRestarts' /\ givenIn[i] # valueRestarts'
    BY <1>1, <1>4 DEF GivenInv, givenValues
  <2>1. givenIn[i] \in Nat
    BY <1>0, LiveFacts DEF ValueTypes
  <2>2. i <= lastRec /\ givenIn[i] <= valueRestarts
    BY DEF ValuesInvar, GivenInv
  <2>3. givenIn[i] <= valueRestarts + 1 /\ givenIn[i] # valueRestarts + 1
    BY <1>0, <2>1, <2>2
  <2> QED
    BY <1>2, <2>2, <2>3
<1>6. PlaceInv' /\ ValuesApart'
  BY <1>1, <1>4 DEF ValuesInvar, PlaceInv, ValuesApart, NumbersApart, PlacesApart, CodesApart, givenValues
<1>7. \A c \in Writers : CallInv(c)'
  BY <1>2 DEF CallInv, On, HasValues, NoCall
<1> QED
  BY <1>3, <1>5, <1>6, <1>7 DEF ValuesInvar

\* There are no records yet.
LEMMA ValuesStart ==
  ASSUME FieldValuesInit
  PROVE ValuesInvar
<1>1. Live = {}
  BY DEF Live, FieldValuesInit
<1>2. ValueTypes
  BY NoCallType DEF ValueTypes, FieldValuesInit
<1>3. GivenInv /\ PlaceInv /\ ValuesApart
  BY <1>1 DEF GivenInv, PlaceInv, ValuesApart
<1>4. \A c \in Writers : CallInv(c)
  BY DEF CallInv, On, HasValues, NoCall, FieldValuesInit
<1> QED
  BY <1>2, <1>3, <1>4 DEF ValuesInvar

\* It writes rows that no other request has written.
LEMMA StoreKeeps ==
  ASSUME ValuesInvar, NEW c \in Writers, Store(c)
  PROVE ValuesInvar'
<1>0. ValueTypes /\ counter \in Nat /\ lastRec \in Nat
  BY DEF ValuesInvar, ValueTypes
<1> DEFINE ids == IF call[c].op = "create" THEN {lastRec + 1} ELSE call[c].ids \cap Live
           code == call[c].values.code
           q == [call[c] EXCEPT !.ids = ids, !.at = "commit"]
<1>1. call' = [call EXCEPT ![c] = q]
  BY DEF Store
<1>2. UNCHANGED <<recs, indexed, counter, valueCalls, valueRestarts, givenValues>>
  BY DEF Store
<1>3. On(c, "store") /\ (call[c].op = "create" => lastRec + 1 \in RecIds)
  BY DEF Store
<1>4. \A b \in Writers \ {c} : On(b, "commit") => call[b].ids \cap ids = {}
  BY DEF Store
<1>5. indexed /\ code # NoCode =>
        /\ \A b \in Writers \ {c} : On(b, "commit") => call[b].values.code # code
        /\ \A i \in Live \ ids : recs[i].code # code
        /\ Cardinality(ids) < 2
  BY DEF Store
<1>6. lastRec' = IF call[c].op = "create" THEN lastRec + 1 ELSE lastRec
  BY DEF Store
<1>7. Live' = Live /\ Live \subseteq RecIds
  BY <1>2 DEF Live
<1>8. \A i \in Live : i \in 1..lastRec
  <2> SUFFICES ASSUME NEW i \in Live PROVE i \in 1..lastRec
    OBVIOUS
  <2>1. i \in RecIds /\ i \in Nat
    BY <1>0, LiveFacts
  <2>2. i \in Nat \ {0}
    BY <2>1, ValueConstants
  <2>3. i <= lastRec
    BY DEF ValuesInvar, GivenInv
  <2> QED
    BY <1>0, <2>2, <2>3
<1>9. lastRec' \in Nat /\ lastRec <= lastRec' /\ \A S : S \subseteq 1..lastRec => S \subseteq 1..lastRec'
  BY <1>0, <1>6
<1>10. /\ ids \subseteq RecIds /\ ids \subseteq 1..lastRec'
       /\ call[c].op = "create" => \E k \in RecIds \ Live : ids = {k}
       /\ call[c].op # "create" => ids = call[c].ids \cap Live
  <2>1. CASE call[c].op = "create"
    <3>1. ids = {lastRec + 1} /\ lastRec + 1 \in RecIds /\ lastRec' = lastRec + 1
      BY <1>3, <1>6, <2>1
    <3>2. lastRec + 1 \notin Live /\ lastRec + 1 \in 1..(lastRec + 1)
      BY <1>0, <1>8
    <3> HIDE DEF ids
    <3> QED
      BY <2>1, <3>1, <3>2
  <2>2. CASE call[c].op # "create"
    <3>1. ids = call[c].ids \cap Live
      BY <2>2
    <3>2. Live \subseteq 1..lastRec'
      BY <1>8, <1>9
    <3> HIDE DEF ids
    <3> QED
      BY <1>7, <2>2, <3>1, <3>2
  <2> QED
    BY <2>1, <2>2
<1> HIDE DEF ids
<1>11. /\ q \in CallTypes /\ q.values = call[c].values /\ q.at = "commit"
       /\ q.alone = call[c].alone /\ q.op = call[c].op /\ q.ids = ids
  BY <1>0, <1>10, CallFacts DEF CallTypes
<1> HIDE DEF q
<1>12. call'[c] = q /\ \A b \in Writers \ {c} : call'[b] = call[b]
  BY <1>0, <1>1 DEF ValueTypes
<1>13. call' \in [Writers -> CallTypes]
  BY <1>0, <1>1, <1>11 DEF ValueTypes
<1>14. ValueTypes'
  BY <1>0, <1>2, <1>9, <1>13 DEF ValueTypes, givenValues
<1>15. GivenInv'
  <2> SUFFICES ASSUME NEW i \in Live PROVE i <= lastRec'
    BY <1>2, <1>7 DEF ValuesInvar, GivenInv, givenValues
  <2>1. i \in 1..lastRec'
    BY <1>8, <1>9
  <2> QED
    BY <2>1
<1>16. PlaceInv' /\ ValuesApart'
  BY <1>2, <1>7 DEF ValuesInvar, PlaceInv, ValuesApart, NumbersApart, PlacesApart, CodesApart, givenValues
<1>17. HasValues(c) /\ NumberInv(c)
  BY <1>3 DEF ValuesInvar, CallInv, HasValues, On
<1>18. \A b \in Writers \ {c} : CallInv(b)'
  <2> SUFFICES ASSUME NEW b \in Writers \ {c} PROVE CallInv(b)'
    OBVIOUS
  <2>0. CallInv(b) /\ call'[b] = call[b]
    BY <1>12 DEF ValuesInvar
  <2>1. On(b, "commit")' => RowsInv(b)'
    <3> SUFFICES ASSUME On(b, "commit") PROVE RowsInv(b)'
      BY <2>0 DEF On
    <3>1. RowsInv(b) /\ call[b].ids \subseteq 1..lastRec
      BY <2>0 DEF CallInv, RowsInv
    <3>2. call[b].ids \subseteq 1..lastRec'
      BY <1>9, <3>1
    <3>3. \A a \in Writers \ {b} : On(a, "commit")' => call'[a].ids \cap call'[b].ids = {}
      BY <1>4, <1>11, <1>12, <3>1 DEF RowsInv, On
    <3> QED
      BY <1>7, <2>0, <3>1, <3>2, <3>3 DEF RowsInv
  <2>2. HasValues(b)' => NumberInv(b)'
    <3> SUFFICES ASSUME HasValues(b) PROVE NumberInv(b)'
      BY <2>0 DEF HasValues
    <3>1. NumberInv(b)
      BY <2>0 DEF CallInv
    <3>2. \A a \in Writers \ {b} : HasValues(a)' => call'[a].values.number # call'[b].values.number
      BY <1>11, <1>12, <1>17, <3>1 DEF NumberInv, HasValues
    <3> QED
      BY <1>2, <1>7, <2>0, <3>1, <3>2 DEF NumberInv, givenValues
  <2>3. ~call'[b].alone
    BY <1>3, <2>0 DEF CallInv, OnlyInv, On
  <2>4. indexed' /\ On(b, "commit")' => IndexInv(b)'
    <3> SUFFICES ASSUME indexed, On(b, "commit"), call[b].values.code # NoCode PROVE IndexInv(b)'
      BY <1>2, <2>0 DEF On, IndexInv
    <3>1. IndexInv(b)
      BY <2>0 DEF CallInv
    <3>2. \A a \in Writers \ {b} : On(a, "commit")' => call'[a].values.code # call[b].values.code
      BY <1>5, <1>11, <1>12, <3>1 DEF IndexInv, On
    <3> QED
      BY <1>2, <1>7, <2>0, <3>1, <3>2 DEF IndexInv
  <2> QED
    BY <2>1, <2>2, <2>3, <2>4 DEF CallInv
<1>19. RowsInv(c)'
  <2>1. call'[c].ids = ids /\ call'[c].op = call[c].op
    BY <1>11, <1>12
  <2>2. \A b \in Writers \ {c} : On(b, "commit")' => call'[b].ids \cap ids = {}
    BY <1>4, <1>12 DEF On
  <2> QED
    BY <1>7, <1>10, <2>1, <2>2 DEF RowsInv
<1>20. NumberInv(c)'
  <2>1. call'[c].values = call[c].values
    BY <1>11, <1>12
  <2> QED
    BY <1>2, <1>7, <1>12, <1>17, <2>1 DEF NumberInv, HasValues, givenValues
<1>21. ASSUME call'[c].alone PROVE OnlyInv(c)'
  <2>1. OnlyInv(c)
    BY <1>11, <1>12, <1>21 DEF ValuesInvar, CallInv
  <2>2. \A b \in Writers \ {c} : On(b, "idle")'
    BY <1>12, <2>1 DEF OnlyInv, On
  <2>3. \A i \in Live' : recs'[i].place < call'[c].values.place
    BY <1>2, <1>7, <1>11, <1>12, <1>17, <2>1 DEF OnlyInv
  <2>4. Live \ Named(c)' = Live \ Named(c)
    BY <1>10, <1>11, <1>12 DEF Named
  <2>5. call'[c].values.code # NoCode => \A i \in Live' \ Named(c)' : recs'[i].code # call'[c].values.code
    BY <1>2, <1>3, <1>7, <1>11, <1>12, <2>1, <2>4 DEF OnlyInv, On
  <2> QED
    BY <1>11, <1>12, <2>2, <2>3, <2>5 DEF OnlyInv, On
<1>22. indexed' => IndexInv(c)'
  <2> SUFFICES ASSUME indexed, code # NoCode PROVE IndexInv(c)'
    BY <1>2, <1>11, <1>12 DEF IndexInv
  <2>1. \A i, j \in ids : i = j
    <3> SUFFICES ASSUME NEW i \in ids, NEW j \in ids, i # j PROVE FALSE
      OBVIOUS
    <3>1. Cardinality(ids) < 2
      BY <1>5
    <3> QED
      BY <1>9, <1>10, <3>1, FewerThanTwo
  <2>2. \A b \in Writers \ {c} : On(b, "commit")' => call'[b].values.code # code
    BY <1>5, <1>12 DEF On
  <2> QED
    BY <1>2, <1>5, <1>7, <1>11, <1>12, <2>1, <2>2 DEF IndexInv
<1>23. CallInv(c)'
  BY <1>19, <1>20, <1>21, <1>22 DEF CallInv
<1> QED
  BY <1>14, <1>15, <1>16, <1>18, <1>23 DEF ValuesInvar

\* What a request leaves in its rows.
LEMMA StoredFacts ==
  ASSUME ValuesInvar, NEW c \in Writers, On(c, "commit"), NEW i \in call[c].ids
  PROVE /\ i \in RecIds /\ Stored(c, i) \in Recs
        /\ Stored(c, i).number = call[c].values.number /\ Stored(c, i).place = call[c].values.place
        /\ call[c].values.code # NoCode => Stored(c, i).code = call[c].values.code
        /\ call[c].values.code = NoCode =>
             Stored(c, i).code = IF call[c].op = "create" THEN NoCode ELSE recs[i].code
<1> DEFINE v == call[c].values
<1>0. ValueTypes /\ RowsInv(c)
  BY DEF ValuesInvar, CallInv
<1>1. v \in Recs /\ i \in RecIds
  BY <1>0, CallFacts
<1>2. CASE call[c].op = "create" \/ v.code # NoCode
  BY <1>1, <1>2 DEF Stored
<1>3. CASE call[c].op # "create" /\ v.code = NoCode
  <2>1. i \in Live
    BY <1>0, <1>3 DEF RowsInv
  <2>2. recs[i] \in Recs
    BY <1>0, <2>1, LiveFacts
  <2>3. recs[i].code \in Codes \cup {NoCode}
    BY <2>2, RecType
  <2>4. Stored(c, i) = [v EXCEPT !.code = recs[i].code]
    BY <1>3 DEF Stored
  <2> HIDE DEF v
  <2>5. /\ Stored(c, i) \in Recs /\ Stored(c, i).number = v.number
        /\ Stored(c, i).place = v.place /\ Stored(c, i).code = recs[i].code
    BY <1>1, <2>3, <2>4 DEF Recs
  <2> QED
    BY <1>1, <1>3, <2>5 DEF v
<1> QED
  BY <1>2, <1>3

\* Two rows of one request loosen both.
LEMMA LoosenedFacts ==
  ASSUME ValuesInvar, NEW c \in Writers, On(c, "commit"), NEW set \in SUBSET RecIds
  PROVE /\ Loosened(set, c) \in SUBSET RecIds
        /\ \A i \in set : i \notin call[c].ids => i \in Loosened(set, c)
        /\ \A i, j \in call[c].ids : i # j => i \in Loosened(set, c) /\ j \in Loosened(set, c)
        /\ ~call[c].alone => call[c].ids \subseteq Loosened(set, c)
<1>0. ValueTypes /\ RowsInv(c)
  BY DEF ValuesInvar, CallInv
<1>1. call[c].ids \subseteq RecIds
  BY <1>0, CallFacts
<1>2. \A i, j \in call[c].ids : i # j => ~(Cardinality(call[c].ids) < 2)
  <2> SUFFICES ASSUME NEW i \in call[c].ids, NEW j \in call[c].ids, i # j
               PROVE ~(Cardinality(call[c].ids) < 2)
    OBVIOUS
  <2>1. lastRec \in Nat /\ call[c].ids \subseteq 1..lastRec
    BY <1>0 DEF ValueTypes, RowsInv
  <2> QED
    BY <2>1, FewerThanTwo
<1> QED
  BY <1>1, <1>2 DEF Loosened

\* Its rows are seen: apart from each other and from those that were there.
LEMMA CommitValuesKeeps ==
  ASSUME ValuesInvar, NEW c \in Writers, CommitValues(c)
  PROVE ValuesInvar'
<1> DEFINE ids == call[c].ids
           v == call[c].values
<1>0. ValueTypes /\ counter \in Nat /\ On(c, "commit")
  BY DEF ValuesInvar, ValueTypes, CommitValues
<1>1. recs' = [i \in RecIds |-> IF i \in ids THEN Stored(c, i) ELSE recs[i]]
  BY DEF CommitValues
<1>2. firstNumber' = [i \in RecIds |-> IF i \in ids /\ call[c].op = "create"
                                       THEN call[c].values.number ELSE firstNumber[i]]
  BY DEF CommitValues
<1>3. givenIn' = [i \in RecIds |-> IF i \in ids THEN valueRestarts ELSE givenIn[i]]
  BY DEF CommitValues
<1>4. loose' = Loosened(loose, c) /\ looseCodes' = IF v.code = NoCode THEN looseCodes ELSE Loosened(looseCodes, c)
  BY DEF CommitValues
<1>5. /\ call' = [call EXCEPT ![c] = NoCall]
      /\ givenWith' = [i \in RecIds |-> IF i \in ids THEN ids ELSE givenWith[i]]
  BY DEF CommitValues
<1>6. UNCHANGED <<lastRec, indexed, counter, valueCalls, valueRestarts>>
  BY DEF CommitValues
<1>7. v \in Recs /\ v.number \in Nat /\ v.place \in Nat /\ ids \subseteq RecIds
  BY <1>0, CallFacts
<1>8. RowsInv(c) /\ NumberInv(c) /\ (call[c].alone => OnlyInv(c)) /\ (indexed => IndexInv(c))
  BY <1>0 DEF ValuesInvar, CallInv, HasValues, On
<1>9. \A i \in ids :
        /\ recs'[i] \in Recs /\ recs'[i].number = v.number /\ recs'[i].place = v.place
        /\ v.code # NoCode => recs'[i].code = v.code
        /\ v.code = NoCode => recs'[i].code = IF call[c].op = "create" THEN NoCode ELSE recs[i].code
        /\ givenIn'[i] = valueRestarts
  <2> SUFFICES ASSUME NEW i \in ids
      PROVE /\ recs'[i] \in Recs /\ recs'[i].number = v.number /\ recs'[i].place = v.place
            /\ v.code # NoCode => recs'[i].code = v.code
            /\ v.code = NoCode => recs'[i].code = IF call[c].op = "create" THEN NoCode ELSE recs[i].code
            /\ givenIn'[i] = valueRestarts
    OBVIOUS
  <2>1. recs'[i] = Stored(c, i) /\ givenIn'[i] = valueRestarts
    BY <1>1, <1>3, <1>7
  <2> QED
    BY <1>0, <2>1, StoredFacts
<1>10. \A i \in RecIds \ ids : recs'[i] = recs[i] /\ givenIn'[i] = givenIn[i]
  BY <1>1, <1>3
<1>with. /\ \A i \in ids : givenWith'[i] = ids
       /\ \A i \in RecIds \ ids : givenWith'[i] = givenWith[i]
  BY <1>5, <1>7
<1>11. Live' = Live \cup ids
  <2>1. \A i \in ids : recs'[i] # NoRec
    BY <1>9, ValueConstants
  <2> QED
    BY <1>7, <1>10, <2>1 DEF Live
<1>12. loose \in SUBSET RecIds /\ looseCodes \in SUBSET RecIds /\ givenIn \in [RecIds -> Nat] /\ valueRestarts \in Nat
  BY <1>0 DEF ValueTypes
<1>13. recs' \in [RecIds -> Recs \cup {NoRec}]
  <2>1. \A i \in RecIds : recs'[i] \in Recs \cup {NoRec}
    BY <1>0, <1>9, <1>10 DEF ValueTypes
  <2> QED
    BY <1>1, <2>1
<1>14. ValueTypes'
  <2>1. firstNumber' \in [RecIds -> Nat]
    BY <1>0, <1>2, <1>7 DEF ValueTypes
  <2>2. givenIn' \in [RecIds -> Nat]
    BY <1>3, <1>12
  <2>3. loose' \subseteq RecIds /\ looseCodes' \subseteq RecIds
    BY <1>0, <1>4, <1>12, LoosenedFacts
  <2>4. call' \in [Writers -> CallTypes]
    BY <1>0, <1>5, NoCallType DEF ValueTypes
  <2>5. givenWith' \in [RecIds -> SUBSET RecIds]
    BY <1>0, <1>5, <1>7 DEF ValueTypes
  <2> QED
    BY <1>0, <1>6, <1>13, <2>1, <2>2, <2>3, <2>4, <2>5 DEF ValueTypes
<1> HIDE DEF ids, v
<1>15. GivenInv'
  <2> SUFFICES ASSUME NEW i \in Live'
               PROVE i <= lastRec /\ givenIn'[i] <= valueRestarts
                     /\ (givenIn'[i] = valueRestarts => recs'[i].number <= counter)
    BY <1>6 DEF GivenInv
  <2>1. CASE i \in ids
    <3>1. i \in 1..lastRec /\ lastRec \in Nat
      BY <1>0, <1>8, <2>1 DEF RowsInv, ids, ValueTypes
    <3>2. v.number <= counter
      BY <1>8 DEF NumberInv, v
    <3> QED
      BY <1>9, <1>12, <2>1, <3>1, <3>2
  <2>2. CASE i \notin ids
    <3>1. i \in Live /\ i \in RecIds
      BY <1>11, <2>2 DEF Live
    <3> QED
      BY <1>10, <2>2, <3>1 DEF ValuesInvar, GivenInv
  <2> QED
    BY <2>1, <2>2
<1>16. PlaceInv'
  <2>1. PICK m \in Nat : \A i \in Live : recs[i].place <= m
    BY DEF ValuesInvar, PlaceInv
  <2>2. m + v.place \in Nat /\ v.place <= m + v.place /\ m <= m + v.place
    BY <1>7
  <2>3. \A i \in Live' : recs'[i].place <= m + v.place
    <3> SUFFICES ASSUME NEW i \in Live' PROVE recs'[i].place <= m + v.place
      OBVIOUS
    <3>1. CASE i \in ids
      BY <1>9, <2>2, <3>1
    <3>2. CASE i \notin ids
      <4>1. i \in Live /\ i \in RecIds
        BY <1>11, <3>2 DEF Live
      <4>2. recs[i].place \in Nat /\ recs[i].place <= m
        BY <1>0, <2>1, <4>1, LiveFacts
      <4>3. recs'[i] = recs[i]
        BY <1>10, <3>2, <4>1
      <4> QED
        BY <1>7, <2>1, <4>2, <4>3
    <3> QED
      BY <3>1, <3>2
  <2> QED
    BY <2>2, <2>3 DEF PlaceInv
<1>17. \A b \in Writers \ {c} : call'[b] = call[b]
  BY <1>0, <1>5 DEF ValueTypes
<1>18. call'[c] = NoCall /\ ~HasValues(c)' /\ ~On(c, "commit")' /\ On(c, "idle")' /\ ~call'[c].alone
  <2>1. call'[c] = NoCall
    BY <1>0, <1>5 DEF ValueTypes
  <2> QED
    BY <2>1 DEF HasValues, On, NoCall
<1>19. /\ \A i \in loose : i \notin ids => i \in loose'
       /\ \A i, j \in ids : i # j => i \in loose' /\ j \in loose'
       /\ ~call[c].alone => ids \subseteq loose'
  BY <1>0, <1>4, <1>12, LoosenedFacts DEF ids
<1>20. /\ v.code = NoCode => looseCodes' = looseCodes
       /\ v.code # NoCode =>
            /\ \A i \in looseCodes : i \notin ids => i \in looseCodes'
            /\ \A i, j \in ids : i # j => i \in looseCodes' /\ j \in looseCodes'
            /\ ~call[c].alone => ids \subseteq looseCodes'
  BY <1>0, <1>4, <1>12, LoosenedFacts DEF ids
<1>21. \A i \in Live : \A j \in Live \ {i} : NumbersApart(i, j) /\ PlacesApart(i, j) /\ CodesApart(i, j)
  BY DEF ValuesInvar, ValuesApart
\* Two records that the request did not write.
<1>22. ASSUME NEW i \in Live \ ids, NEW j \in Live \ ids, i # j
       PROVE NumbersApart(i, j)' /\ PlacesApart(i, j)' /\ CodesApart(i, j)'
  <2>1. /\ recs'[i] = recs[i] /\ recs'[j] = recs[j] /\ givenIn'[i] = givenIn[i] /\ givenIn'[j] = givenIn[j]
        /\ givenWith'[i] = givenWith[i] /\ givenWith'[j] = givenWith[j]
    BY <1>10, <1>with DEF Live
  <2>2. NumbersApart(i, j) /\ PlacesApart(i, j) /\ CodesApart(i, j)
    BY <1>21, <1>22
  <2>3. (i \in loose => i \in loose') /\ (j \in loose => j \in loose')
    BY <1>19
  <2>4. (i \in looseCodes => i \in looseCodes') /\ (j \in looseCodes => j \in looseCodes')
    BY <1>20
  <2> QED
    BY <1>6, <2>1, <2>2, <2>3, <2>4 DEF NumbersApart, PlacesApart, CodesApart
\* One that it wrote and one that it did not.
<1>23. ASSUME NEW i \in ids, NEW j \in Live \ ids
       PROVE /\ recs'[i].number = recs'[j].number => givenIn'[i] # givenIn'[j]
             /\ recs'[i].place = recs'[j].place => i \in loose'
             /\ recs'[i].code = recs'[j].code /\ recs'[i].code # NoCode =>
                  ~indexed /\ {i, j} \cap looseCodes' # {}
  <2>1. recs'[j] = recs[j] /\ givenIn'[j] = givenIn[j] /\ j \in Live
    BY <1>10 DEF Live
  <2>2. recs'[i].number = recs'[j].number => givenIn'[i] # givenIn'[j]
    BY <1>8, <1>9, <2>1 DEF NumberInv, v
  <2>3. recs'[i].place = recs'[j].place => i \in loose'
    <3>1. CASE call[c].alone
      <4>1. recs[j].place < v.place
        BY <1>0, <1>8, <2>1, <3>1 DEF OnlyInv, HasValues, On, v
      <4>2. recs[j].place # v.place
        BY <1>0, <1>7, <2>1, <4>1, LiveFacts
      <4> QED
        BY <1>9, <2>1, <4>2
    <3>2. CASE ~call[c].alone
      BY <1>19, <3>2
    <3> QED
      BY <3>1, <3>2
  <2>4. recs'[i].code = recs'[j].code /\ recs'[i].code # NoCode =>
          ~indexed /\ {i, j} \cap looseCodes' # {}
    <3> SUFFICES ASSUME recs'[i].code = recs[j].code, recs'[i].code # NoCode
                 PROVE ~indexed /\ {i, j} \cap looseCodes' # {}
      BY <2>1
    <3>1. CASE v.code = NoCode
      <4>1. call[c].op # "create" /\ recs'[i].code = recs[i].code
        BY <1>9, <3>1
      <4>2. i \in Live /\ i # j
        BY <1>8, <4>1 DEF RowsInv, ids
      <4>3. CodesApart(i, j)
        BY <1>21, <2>1, <4>2
      <4> QED
        BY <1>20, <3>1, <4>1, <4>3 DEF CodesApart
    <3>2. CASE v.code # NoCode
      <4>1. recs[j].code = v.code
        BY <1>9, <3>2
      <4>2. ~indexed
        BY <1>8, <2>1, <3>2, <4>1 DEF IndexInv, ids, v
      <4>3. ~call[c].alone
        <5> SUFFICES ASSUME call[c].alone PROVE FALSE
          OBVIOUS
        <5>1. j \in Live \ Named(c)
          BY <2>1 DEF Named, ids
        <5>2. \A k \in Live \ Named(c) : recs[k].code # v.code
          BY <1>0, <1>8, <3>2 DEF OnlyInv, On, v
        <5> QED
          BY <4>1, <5>1, <5>2
      <4> QED
        BY <1>20, <3>2, <4>2, <4>3
    <3> QED
      BY <3>1, <3>2
  <2> QED
    BY <2>2, <2>3, <2>4
\* Two that it wrote.
<1>24. ASSUME NEW i \in ids, NEW j \in ids, i # j
       PROVE /\ i \in loose' /\ j \in loose'
             /\ recs'[i].code = recs'[j].code /\ recs'[i].code # NoCode =>
                  ~indexed /\ {i, j} \cap looseCodes' # {}
  <2>1. i \in loose' /\ j \in loose'
    BY <1>19, <1>24
  <2>2. CASE v.code # NoCode
    <3>1. ~indexed
      BY <1>8, <1>24, <2>2 DEF IndexInv, ids, v
    <3> QED
      BY <1>20, <1>24, <2>1, <2>2, <3>1
  <2>3. CASE v.code = NoCode
    <3>1. call[c].op # "create"
      BY <1>8, <1>24 DEF RowsInv, ids
    <3>2. recs'[i].code = recs[i].code /\ recs'[j].code = recs[j].code
      BY <1>9, <2>3, <3>1
    <3>3. i \in Live /\ j \in Live
      BY <1>8, <3>1 DEF RowsInv, ids
    <3>4. CodesApart(i, j)
      BY <1>21, <1>24, <3>3
    <3> QED
      BY <1>20, <2>1, <2>3, <3>2, <3>4 DEF CodesApart
  <2> QED
    BY <2>2, <2>3
<1>25. ValuesApart'
  <2> SUFFICES ASSUME NEW i \in Live', NEW j \in Live' \ {i}
               PROVE NumbersApart(i, j)' /\ PlacesApart(i, j)' /\ CodesApart(i, j)'
    BY DEF ValuesApart
  <2>1. CASE i \in ids /\ j \in ids
    BY <1>6, <1>24, <1>with, <2>1 DEF NumbersApart, PlacesApart, CodesApart
  <2>2. CASE i \in ids /\ j \notin ids
    <3>1. j \in Live \ ids
      BY <1>11, <2>2
    <3> QED
      BY <1>6, <1>23, <2>2, <3>1 DEF NumbersApart, PlacesApart, CodesApart
  <2>3. CASE i \notin ids /\ j \in ids
    <3>1. i \in Live \ ids
      BY <1>11, <2>3
    <3>2. /\ recs'[j].number = recs'[i].number => givenIn'[j] # givenIn'[i]
          /\ recs'[j].place = recs'[i].place => j \in loose'
          /\ recs'[j].code = recs'[i].code /\ recs'[j].code # NoCode =>
               ~indexed /\ {j, i} \cap looseCodes' # {}
      BY <1>23, <2>3, <3>1
    <3> QED
      BY <1>6, <3>2 DEF NumbersApart, PlacesApart, CodesApart
  <2>4. CASE i \notin ids /\ j \notin ids
    <3>1. i \in Live \ ids /\ j \in Live \ ids /\ i # j
      BY <1>11, <2>4
    <3> QED
      BY <1>22, <3>1
  <2> QED
    BY <2>1, <2>2, <2>3, <2>4
<1>26. \A b \in Writers \ {c} : CallInv(b)'
  <2> SUFFICES ASSUME NEW b \in Writers \ {c} PROVE CallInv(b)'
    OBVIOUS
  <2>0. CallInv(b) /\ call'[b] = call[b]
    BY <1>17 DEF ValuesInvar
  <2>1. ASSUME On(b, "commit") PROVE RowsInv(b)' /\ call[b].ids \cap ids = {}
    <3>1. RowsInv(b) /\ call[b].ids \cap ids = {}
      BY <1>0, <2>0, <2>1 DEF CallInv, RowsInv, ids
    <3>2. \A a \in Writers \ {b} : On(a, "commit")' => call'[a].ids \cap call'[b].ids = {}
      BY <1>17, <1>18, <2>0, <3>1 DEF RowsInv, On
    <3>3. call[b].op = "create" => \E k \in RecIds \ Live' : call[b].ids = {k}
      BY <1>11, <3>1 DEF RowsInv
    <3>4. call[b].op # "create" => call[b].ids \subseteq Live'
      BY <1>11, <3>1 DEF RowsInv
    <3>5. call[b].ids \subseteq 1..lastRec'
      BY <1>6, <3>1 DEF RowsInv
    <3> QED
      BY <2>0, <3>1, <3>2, <3>3, <3>4, <3>5 DEF RowsInv
  <2>2. ASSUME HasValues(b) PROVE NumberInv(b)'
    <3>1. NumberInv(b) /\ call[b].values.number # v.number
      BY <1>0, <1>8, <2>0, <2>2 DEF CallInv, NumberInv, v
    <3>2. \A a \in Writers \ {b} : HasValues(a)' => call'[a].values.number # call'[b].values.number
      BY <1>17, <1>18, <2>0, <3>1 DEF NumberInv, HasValues
    <3>3. \A i \in Live' : givenIn'[i] = valueRestarts => recs'[i].number # call[b].values.number
      <4> SUFFICES ASSUME NEW i \in Live', givenIn'[i] = valueRestarts
                   PROVE recs'[i].number # call[b].values.number
        OBVIOUS
      <4>1. CASE i \in ids
        BY <1>9, <3>1, <4>1
      <4>2. CASE i \notin ids
        <5>1. i \in Live /\ i \in RecIds \ ids
          BY <1>11, <4>2 DEF Live
        <5> QED
          BY <1>10, <3>1, <5>1 DEF NumberInv
      <4> QED
        BY <4>1, <4>2
    <3> QED
      BY <1>6, <2>0, <3>1, <3>2, <3>3 DEF NumberInv
  <2>3. ~call'[b].alone
    BY <1>0, <2>0 DEF CallInv, OnlyInv, On
  <2>4. ASSUME indexed, On(b, "commit"), call[b].values.code # NoCode PROVE IndexInv(b)'
    <3>1. IndexInv(b) /\ call[b].ids \cap ids = {}
      BY <2>0, <2>1, <2>4 DEF CallInv
    <3>2. v.code # call[b].values.code
      BY <1>0, <2>4, <3>1 DEF IndexInv, v
    <3>3. \A i \in Live' \ call[b].ids : recs'[i].code # call[b].values.code
      <4> SUFFICES ASSUME NEW i \in Live' \ call[b].ids PROVE recs'[i].code # call[b].values.code
        OBVIOUS
      <4>1. CASE i \notin ids
        <5>1. i \in Live /\ i \in RecIds \ ids
          BY <1>11, <4>1 DEF Live
        <5> QED
          BY <1>10, <2>4, <3>1, <5>1 DEF IndexInv
      <4>2. CASE i \in ids /\ v.code # NoCode
        BY <1>9, <3>2, <4>2
      <4>3. CASE i \in ids /\ v.code = NoCode /\ call[c].op = "create"
        BY <1>9, <2>4, <4>3
      <4>4. CASE i \in ids /\ v.code = NoCode /\ call[c].op # "create"
        <5>1. recs'[i].code = recs[i].code /\ i \in Live
          BY <1>8, <1>9, <4>4 DEF RowsInv, ids
        <5> QED
          BY <2>4, <3>1, <5>1 DEF IndexInv
      <4> QED
        BY <4>1, <4>2, <4>3, <4>4
    <3>4. \A a \in Writers \ {b} : On(a, "commit")' => call'[a].values.code # call[b].values.code
      BY <1>17, <1>18, <2>4, <3>1 DEF IndexInv, On
    <3> QED
      BY <2>0, <2>4, <3>1, <3>3, <3>4 DEF IndexInv
  <2>5. (On(b, "commit")' <=> On(b, "commit")) /\ (HasValues(b)' <=> HasValues(b))
    BY <2>0 DEF On, HasValues
  <2>6. indexed' /\ On(b, "commit")' => IndexInv(b)'
    <3>1. CASE call[b].values.code # NoCode
      BY <1>6, <2>4, <2>5, <3>1
    <3>2. CASE call[b].values.code = NoCode
      BY <2>0, <3>2 DEF IndexInv
    <3> QED
      BY <3>1, <3>2
  <2> QED
    BY <2>1, <2>2, <2>3, <2>5, <2>6 DEF CallInv
<1>27. CallInv(c)'
  BY <1>18 DEF CallInv
<1> QED
  BY <1>14, <1>15, <1>16, <1>25, <1>26, <1>27 DEF ValuesInvar

\* Every step keeps the invariant.
LEMMA ValueStep ==
  ASSUME ValuesInvar, [FieldValuesNext]_valueVars
  PROVE ValuesInvar'
<1>1. ASSUME NEW c \in Writers,
             Submit(c) \/ Fill(c) \/ Check(c) \/ Store(c) \/ CommitValues(c) \/ Refuse(c)
      PROVE ValuesInvar'
  BY <1>1, SubmitKeeps, FillKeeps, CheckValuesKeeps, StoreKeeps, CommitValuesKeeps, RefuseValuesKeeps
<1>2. CASE UNCHANGED valueVars
  <2>0. ValueTypes /\ counter \in Nat
    BY DEF ValuesInvar, ValueTypes
  <2>1. UNCHANGED <<recs, lastRec, indexed, counter, call, valueCalls, valueRestarts, givenValues>>
    BY <1>2 DEF valueVars
  <2>2. ValueTypes'
    BY <2>0, <2>1 DEF ValueTypes, givenValues
  <2>3. counter' \in Nat /\ counter <= counter'
    BY <2>0, <2>1
  <2>4. GivenInv' /\ PlaceInv' /\ ValuesApart'
    BY <2>0, <2>1, <2>3, RecordFrame
  <2>5. Live' = Live
    BY <2>1 DEF Live
  <2>6. \A c \in Writers : CallInv(c)'
    BY <2>1, <2>5 DEF ValuesInvar, CallInv, RowsInv, NumberInv, OnlyInv, IndexInv, HasValues, On, Named, givenValues
  <2> QED
    BY <2>2, <2>4, <2>6 DEF ValuesInvar
<1> QED
  BY <1>1, <1>2, DiscardKeeps, RestartKeepsValues DEF FieldValuesNext

\* The invariant.
THEOREM ValuesKept == FieldValuesSpec => []ValuesInvar
<1>1. FieldValuesInit => ValuesInvar
  BY ValuesStart
<1>2. ValuesInvar /\ [FieldValuesNext]_valueVars => ValuesInvar'
  BY ValueStep
<1> QED
  BY <1>1, <1>2, PTL DEF FieldValuesSpec

\* No two records have the same number, place or code, except as ValuesApart says
\* (applyAutoFields, nextSequenceValue, checkUnique), for any codes, records, requests,
\* and options of the sequence field.
THEOREM ValuesTrue == FieldValuesSpec => []ValuesApart
<1>1. ValuesInvar => ValuesApart
  BY DEF ValuesInvar
<1> QED
  BY <1>1, ValuesKept, PTL
=============================================================================
