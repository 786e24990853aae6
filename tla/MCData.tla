------------------------------- MODULE MCData -------------------------------
(***************************************************************************)
(* Small instances of Access, Relations, FieldValues and Reading, which    *)
(* share no state: in a behaviour one of them, the focus, takes steps.     *)
(***************************************************************************)
EXTENDS Access, Relations, FieldValues, Reading, TLC

CONSTANTS
  Foci,
  id, owner, note, stamp, u, w,
  s1, s2, t1, t2, t3

VARIABLE focus

\* One's own record, and a second one to be created.
MCFirst == {[id |-> 1, content |-> u]}
Owns(o) == [names |-> {owner}, keep |-> {r \in [id : RowIds, content : Contents] : r.content = o}]
Unfiltered == [names |-> {}, keep |-> [id : RowIds, content : Contents]]

\* Everything; one's own records, without a note; and notes of one's own
\* records whose owner and key cannot be read.
Policy(f, r, n) ==
  [enabled |-> TRUE, actions |-> Actions, filter |-> f, read |-> r, write |-> n]
Whole == Policy(Unfiltered, Columns, Columns)
OwnRows == Policy(Owns(u), {id, owner, stamp}, {id, owner, stamp})
Notes == [Policy(Owns(u), {note}, {note}) EXCEPT !.enabled = FALSE]
MCPolicies == {Whole, OwnRows, Notes}
MCFirstPolicies == {[i \in PolicyIds |-> IF i = 1 THEN OwnRows ELSE NoPolicy]}

\* Every action, alone and in bulk, within and beyond what OwnRows grants.
MCAsked ==
  {Request("list", 0, Unfiltered, {}, {}, NoOne), Request("list", 0, Owns(u), {note}, {}, NoOne),
   Request("count", 0, Owns(u), {}, {}, NoOne),
   Request("get", 1, OnKey(1), {}, {}, NoOne), Request("get", 2, OnKey(2), {note}, {}, NoOne),
   Request("create", 0, Unfiltered, {}, {owner}, u), Request("create", 0, Unfiltered, {}, {owner}, w),
   Request("update", 1, OnKey(1), {}, {owner, stamp}, w),
   Request("update", 1, OnKey(1), {}, {note, stamp}, NoOne),
   Request("update", 2, OnKey(2), {}, {owner, stamp}, u),
   Request("updateMany", 0, Owns(u), {}, {owner, stamp}, w),
   Request("destroy", 1, OnKey(1), {}, {}, NoOne),
   Request("destroyMany", 0, Owns(u), {}, {}, NoOne),
   Request("destroyMany", 0, Unfiltered, {}, {}, NoOne)}

\* Two links of one source, which a page holds, and three, which it does not.
LinkRows(fk, pairs) ==
  [k \in Keys |-> CASE k \in Sources -> Here
                    [] k \in Targets -> fk[k]
                    [] OTHER -> IF k \in pairs THEN Here ELSE Gone]
TwoLinks == LinkRows([t \in Targets |-> IF t = t2 THEN Null ELSE s1], {<<s1, t1>>})
ThreeLinks == LinkRows([t \in Targets |-> s1], {<<s2, t1>>})
MCFirstLinks == {TwoLinks, ThreeLinks}
MCLinkIds == {{}, {t1}, {t2, t3}}

\* A tree of posts that belong to kin, have kids and tags among them.
BelongsTo(fk, target) == [kind |-> "belongsTo", fk |-> fk, target |-> target]
MCRelation == [
  posts |-> [owner |-> BelongsTo("owner", "kin"), parent |-> BelongsTo("parent", "posts"),
             kids |-> [kind |-> "hasMany", fk |-> "post", target |-> "kin"],
             tags |-> [kind |-> "belongsToMany", through |-> "pairs", target |-> "kin"]],
  kin |-> [post |-> BelongsTo("post", "posts")]]

Post(i, rank, o, parent) ==
  [id |-> i, rank |-> rank, owner |-> o, parent |-> parent,
   start |-> rank, end |-> IF rank = Nil \/ o = 2 THEN Nil ELSE rank + 1]
Kin(i, rank, post) == [id |-> i, rank |-> rank, post |-> post]
Pair(i, source, other) == [id |-> i, source |-> source, other |-> other]

\* Three children of which a page holds two; ties, NULLs, a link to nobody.
MCFirstTables == {[
  posts |-> {Post(1, 1, 1, Nil), Post(2, Nil, Nil, 1), Post(3, 1, 2, 1)},
  kin |-> {Kin(1, 2, 1), Kin(2, Nil, 1), Kin(3, 1, 3)},
  pairs |-> {Pair(1, 1, 1), Pair(2, 1, 3), Pair(3, 3, 1), Pair(4, 2, 4)}]}

\* A record is changed, destroyed and created; links are made, moved and cut.
MCEdits ==
  LET E(t, i, row) == [table |-> t, id |-> i, row |-> row] IN
  {E("posts", 1, {Post(1, 2, 3, Nil)}), E("posts", 1, {Post(1, 1, 1, 3)}), E("posts", 3, {}), E("posts", 4, {Post(4, 1, 1, 1)}),
   E("kin", 1, {Kin(1, 2, 3)}), E("kin", 3, {}), E("kin", 4, {Kin(4, 1, 2)}),
   E("pairs", 1, {}), E("pairs", 5, {Pair(5, 2, 2)})}

List(filter, sort, size, offset, appends, fields, except) ==
  [filter |-> filter, sort |-> sort, size |-> size, offset |-> offset, appends |-> appends,
   fields |-> fields, except |-> except, type |-> "general", start |-> Nil, end |-> Nil, target |-> Nil]
By(column, desc) == [by |-> column, desc |-> desc]
Rank(op, args) == ColumnIs(<<"rank">>, <<Is(op, args)>>)

\* Every operator with and without NULL, alone and denied; every logical
\* operator, full and empty; every relation, and a path through two.
MCRanks ==
  {Rank(op, <<v>>) : op \in {"$eq", "$ne", "$gt", "$gte", "$lt", "$lte", "$in", "$notIn"}, v \in {1, Nil}}
  \cup {Rank(op, <<>>) : op \in {"$in", "$notIn", "$isNull", "$notNull"}}
  \cup {Rank(op, <<2, Nil>>) : op \in {"$in", "$notIn"}}
  \cup {Rank(op, args) : op \in {"$between", "$notBetween"}, args \in {<<1, 1>>, <<2, 3>>, <<2, Nil>>}}
MCFilters ==
  LET one == Rank("$eq", <<1>>)
      root == ColumnIs(<<"parent">>, <<Is("$isNull", <<>>)>>) IN
  {<<f>> : f \in MCRanks} \cup {<<NoneOf(<<f>>)>> : f \in MCRanks}
  \cup {<<>>, <<one, root>>, <<NoneOf(<<one, root>>)>>, <<ColumnIs(<<"rank">>, <<>>)>>,
        <<AllOf(<<>>)>>, <<AnyOf(<<>>)>>, <<NoneOf(<<AnyOf(<<>>)>>)>>,
        <<AllOf(<<<<one>>, <<root>>>>)>>, <<AnyOf(<<<<one>>, <<root>>>>)>>,
        <<NoneOf(<<AnyOf(<<<<Rank("$gt", <<1>>)>>, <<root>>>>)>>), one>>,
        <<ColumnIs(<<"rank">>, <<Is("$gte", <<1>>), Is("$lt", <<1>>)>>)>>}
  \cup {<<ColumnIs(path, <<Is("$eq", <<1>>)>>)>> :
          path \in {<<"owner", "rank">>, <<"kids", "rank">>, <<"tags", "rank">>, <<"parent", "rank">>,
                    <<"owner", "post", "rank">>, <<"tags", "post", "owner">>}}
  \cup {<<NoneOf(<<ColumnIs(<<"kids", "rank">>, <<Is("$ne", <<1>>)>>)>>)>>}

\* All filters; all ways of paging; all relations, with and without the
\* columns by which they are loaded.
MCLists ==
  {List(f, <<By("id", FALSE)>>, 2, 0, <<>>, {}, {}) : f \in MCFilters}
  \cup {List(f, s, n, o, <<>>, {}, {}) :
          f \in {<<>>, <<Rank("$eq", <<1>>)>>},
          s \in {<<>>, <<By("rank", FALSE)>>, <<By("rank", TRUE), By("id", TRUE)>>},
          n \in {1, 2, 3}, o \in {0, 1}}
  \cup {List(<<>>, <<By("id", FALSE)>>, n, 0, <<r>>, f, e) :
          n \in {1, 2}, r \in {"owner", "kids", "tags", "parent"},
          f \in {{}, {"owner"}}, e \in {{}, {"id"}}}
  \cup {List(<<>>, <<By("id", FALSE)>>, 2, 0, <<"owner", "tags">>, {}, {})}
  \cup {[List(<<>>, <<By("id", FALSE)>>, n, 0, <<"children">>, {}, e) EXCEPT !.type = "tree"] :
          n \in {1, 2}, e \in {{}, {"id"}}}
  \cup {[List(f, <<By("id", FALSE)>>, 2, 0, <<>>, {}, {}) EXCEPT !.type = t, !.start = a, !.end = b, !.target = a] :
          f \in {<<>>, <<ColumnIs(<<"start">>, <<Is("$eq", <<2>>)>>), Rank("$eq", <<1>>)>>},
          t \in {"calendar", "comment"}, a \in {1, 2, Nil}, b \in {2, Nil}}
MCSpecial == [treeParentKey |-> "parent", calendarStartField |-> "start", calendarEndField |-> Unnamed,
              commentForeignKey |-> "owner"]

MCInit ==
  /\ AccessInit /\ RelationsInit /\ FieldValuesInit /\ ReadingInit
  /\ focus \in Foci
  /\ focus # "access" => hookAdds = {}
  /\ focus # "relations" => rels = TwoLinks /\ onDelete = "CASCADE"
  /\ focus # "values" => indexed
  /\ focus # "reading" => list = List(<<>>, <<>>, 1, 0, <<>>, {}, {})

\* Nothing is under way, and nothing more is asked, or nothing that a policy
\* lets in.
AccessRests ==
  /\ \A c \in Clients : At(c, "idle")
  /\ \A a \in PolicyAdmins : Publishing(a, "idle")
RelationsRest == \A c \in Workers : Doing(c, "idle")
ValuesRest == \A c \in Writers : On(c, "idle")
ReadingRests == reader.at \in {"done", "failed"}

MCNext ==
  \/ /\ focus = "access"
     /\ AccessNext \/ (AccessRests /\ UNCHANGED accessVars)
     /\ UNCHANGED <<relationVars, valueVars, readingVars, focus>>
  \/ /\ focus = "relations"
     /\ RelationsNext \/ (RelationsRest /\ UNCHANGED relationVars)
     /\ UNCHANGED <<accessVars, valueVars, readingVars, focus>>
  \/ /\ focus = "values"
     /\ FieldValuesNext \/ (ValuesRest /\ UNCHANGED valueVars)
     /\ UNCHANGED <<accessVars, relationVars, readingVars, focus>>
  \/ /\ focus = "reading"
     /\ ReadingNext \/ (ReadingRests /\ UNCHANGED readingVars)
     /\ UNCHANGED <<accessVars, relationVars, valueVars, focus>>

MCSpec == MCInit /\ [][MCNext]_<<accessVars, relationVars, valueVars, readingVars, focus>>
Symmetry == Permutations(Clients) \cup Permutations(PolicyAdmins)

\* The type invariant of the one that is in focus.
DataTypeOK ==
  CASE focus = "access" -> AccessTypeOK
    [] focus = "relations" -> RelationsTypeOK
    [] focus = "values" -> ValuesTypeOK
    [] focus = "reading" -> ReadingTypeOK
=============================================================================
