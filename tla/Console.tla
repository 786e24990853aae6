------------------------------ MODULE Console ------------------------------
(***************************************************************************)
(* The web console (web/src): a page with a list of things (records,       *)
(* fields, scripts, indexes, collections, or the options of one            *)
(* collection), a drawer or form to create and edit them, and requests     *)
(* that are answered in any order, or never, while the user goes on.       *)
(*                                                                         *)
(* The list comes from a cache (react-query) that the requests invalidate, *)
(* the drawer from component state, and what the drawer shows from a form  *)
(* (antd) that outlives it.  Other administrators change things too.  What *)
(* the server does with a request is in the other modules.                 *)
(***************************************************************************)
EXTENDS Integers, Sequences
Seqs == INSTANCE SequencesExt

CONSTANTS
  Pages,         \* the pages to look at
  Things,        \* what the page lists: 1..n
  Blank,         \* nothing was entered, nothing is sent
  Missing,       \* no such thing, no list, nothing being edited
  MaxEvents,     \* bound: requests, values entered and troubles
  MaxTroubles    \* bound: changes by others, lost answers, rows picked,
                 \* lists reloaded, pages left

ASSUME ConsoleAssumption ==
  /\ Pages \subseteq {"records", "fields", "scripts", "indexes", "collections", "options"}
  /\ Things \subseteq Nat \ {0} /\ 1 \in Things /\ Missing \notin Things
  /\ MaxEvents \in Nat /\ MaxTroubles \in Nat

VARIABLES
  page,          \* the page of this behaviour
  things,        \* what the server has: Missing, or a value for each column
  changes,       \* number of changes that the server has made
  screen,        \* the state of the page's component
  cached,        \* the query of the list
  sent,          \* the requests that are under way
  events, troubles,  \* numbers of events, for the bounds
  due            \* history: the change that the list has been told of

consoleVars == <<page, things, changes, screen, cached, sent, events, troubles, due>>

Counts == events < MaxEvents /\ events' = events + 1
Happens == Counts /\ UNCHANGED troubles
Disturbs == Counts /\ troubles < MaxTroubles /\ troubles' = troubles + 1

\* Values of the second column of a script: whether it is enabled.
On == 10
Off == 11

\* Two columns of a thing.  The list of records leaves out the second, a password;
\* the other options of a collection are not in the form; of a field, an index or
\* a collection the second is what only the server knows.
Columns == {"shown", "kept"}
Listed == IF page \in {"records", "fields", "indexes", "collections"} THEN {"shown"} ELSE Columns
InForm == CASE page \in {"records", "scripts"} -> Columns
            [] page = "options" -> {screen.tab}
            [] OTHER -> {"shown"}

Blanks == [c \in Columns |-> Blank]
Rows == [i \in Things |->
  IF things[i] = Missing THEN Missing
  ELSE [c \in Columns |-> IF c \in Listed THEN things[i][c] ELSE Blank]]

\* What the user means with the drawer: a new thing, or this one with these values.
Nothing == [id |-> Missing, cols |-> Blanks]

\* A component when it is mounted: Overview and Advanced, the pages of the options,
\* are forms that the cached collection fills.
Mounted(mode) == [mode |-> mode, id |-> Missing, form |-> Blanks, tab |-> "shown",
                picked |-> {}, meant |-> Nothing]

ConsoleInit ==
  /\ page \in Pages
  /\ \E there \in SUBSET Things :
       /\ 1 \in there
       /\ things = [i \in Things |-> IF i \in there THEN [c \in Columns |-> 0 - i] ELSE Missing]
  /\ changes = 0
  /\ screen = Mounted("away")
  /\ cached = [rows |-> Missing, at |-> 0, stale |-> FALSE, fetch |-> "none",
               reading |-> Missing, readAt |-> 0, failed |-> FALSE]
  /\ sent = <<>> /\ events = 0 /\ troubles = 0 /\ due = 0

-----------------------------------------------------------------------------
(***************************************************************************)
(* The query cache.                                                        *)
(***************************************************************************)
\* The list is on the screen: not while a collection is created, on a page of its
\* own.
Observed(s) == s.mode # "away" /\ ~(page = "collections" /\ s.mode = "create")

Asked(q) == [q EXCEPT !.fetch = "asked", !.reading = Missing]

\* A component that mounts asks if there is no list or a stale one.
Subscribed(q) ==
  IF q.fetch = "none" /\ (q.rows = Missing \/ q.stale) THEN Asked(q) ELSE q

\* The first request for a list is not asked again, and what nobody looks at is
\* only marked.
Refetches(q, s) == Observed(s) /\ ~(q.rows = Missing /\ q.fetch # "none")

\* (slip) A list on its way is taken for a new one.
InvalidatedLazily(q, s) == IF q.fetch # "none" THEN [q EXCEPT !.stale = TRUE] ELSE
  IF Observed(s) THEN Asked([q EXCEPT !.stale = TRUE]) ELSE [q EXCEPT !.stale = TRUE]

Invalidated(q, s) ==
  LET marked == [q EXCEPT !.stale = TRUE] IN
  IF Refetches(q, s) THEN Asked(marked) ELSE marked

\* The answer on its way will clear the mark.
Overlooked(q, s) == q.fetch # "none" /\ ~Refetches(q, s)

Still == UNCHANGED <<page, things, changes, screen, sent, events, troubles, due>>

ServerReads ==
  /\ cached.fetch = "asked"
  /\ cached' = [cached EXCEPT !.fetch = "read", !.reading = Rows, !.readAt = changes]
  /\ Still

\* A request belongs to the component that sent it.
Orphaned(q) == [n \in DOMAIN q |-> [q[n] EXCEPT !.mine = FALSE]]

\* CollectionStudio shows an error instead of its tab when it has no collection or
\* could not read it again.
Unmounts(q) ==
  IF page = "options" /\ screen.mode = "edit" /\ (q.failed \/ q.rows[1] = Missing)
  THEN screen' = Mounted("browse") /\ sent' = Orphaned(sent)
  ELSE UNCHANGED <<screen, sent>>

ListArrives ==
  /\ cached.fetch = "read"
  /\ cached' = [cached EXCEPT !.rows = cached.reading, !.at = cached.readAt, !.stale = FALSE,
                              !.fetch = "none", !.reading = Missing, !.readAt = 0, !.failed = FALSE]
  /\ Unmounts(cached')
  /\ UNCHANGED <<page, things, changes, events, troubles, due>>

\* It fails twice: the old list stays, and is stale.
ListFails ==
  /\ cached.fetch # "none"
  /\ Disturbs
  /\ cached' = [cached EXCEPT !.stale = TRUE, !.fetch = "none", !.reading = Missing, !.readAt = 0,
                              !.failed = (page = "options")]
  /\ Unmounts(cached')
  /\ UNCHANGED <<page, things, changes, due>>

\* staleTime has passed: nothing happens until somebody looks again.
ListAges ==
  /\ cached.rows # Missing /\ ~cached.stale
  /\ ~Observed(screen)
  /\ cached' = [cached EXCEPT !.stale = TRUE]
  /\ Still

Reload ==
  /\ page \in {"records", "fields", "collections"} /\ screen.mode = "browse"
  /\ Refetches(cached, screen) /\ Disturbs
  /\ cached' = Asked(cached)
  /\ UNCHANGED <<page, things, changes, screen, sent, due>>

-----------------------------------------------------------------------------
(***************************************************************************)
(* The drawer and its form.                                                *)
(***************************************************************************)
Idling == UNCHANGED <<page, things, changes, sent, events, troubles, due>>

\* The rows that can be seen.
Visible == IF cached.rows = Missing THEN {} ELSE {i \in Things : cached.rows[i] # Missing}

\* The options of the collection, as far as the tab shows them.
Filled(s) ==
  LET row == cached.rows[1] IN
  [s EXCEPT !.mode = "edit", !.id = 1, !.form = [s.form EXCEPT ![s.tab] = row[s.tab]],
            !.meant = [id |-> 1, cols |-> [Blanks EXCEPT ![s.tab] = row[s.tab]]]]

Enter ==
  /\ screen.mode = "away"
  /\ screen' = Mounted("browse")
  /\ cached' = Subscribed(cached)
  /\ Idling

\* CollectionStudio shows a tab when it has the collection.
ShowOptions ==
  /\ page = "options" /\ screen.mode = "browse" /\ 1 \in Visible /\ ~cached.failed
  /\ screen' = Filled(screen)
  /\ UNCHANGED cached /\ Idling

\* From Overview to Advanced, or back: another component, the same query.
SwitchTab ==
  /\ page = "options" /\ screen.mode = "edit"
  /\ Disturbs
  /\ \E t \in Columns \ {screen.tab} : screen' = Filled([Mounted("edit") EXCEPT !.tab = t])
  /\ sent' = Orphaned(sent)
  /\ UNCHANGED <<page, things, changes, cached, due>>

\* To another page, drawer open or not.
LeavePage ==
  /\ screen.mode # "away"
  /\ Disturbs
  /\ screen' = Mounted("away") /\ sent' = Orphaned(sent)
  /\ UNCHANGED <<page, things, changes, cached, due>>

\* openCreate clears the form; the modal of indexes keeps what was entered and
\* not sent; the wizard for collections is a page.
OpenCreate ==
  /\ page # "options" /\ screen.mode = "browse"
  /\ screen' = [screen EXCEPT !.mode = "create", !.id = Missing, !.meant = Nothing,
                              !.form = IF page = "indexes" THEN @ ELSE Blanks]
  /\ sent' = IF page = "collections" THEN Orphaned(sent) ELSE sent
  /\ UNCHANGED <<page, things, changes, cached, events, troubles, due>>

\* openEdit: setFieldsValue sets what the row has and leaves the rest of the form.
Editing(s, i, row) ==
  [s EXCEPT !.mode = "edit", !.id = i,
            !.form = [c \in Columns |-> IF c \in Listed THEN row[c] ELSE s.form[c]]]

MeansRow(i, row) ==
  [id |-> i, cols |-> [c \in Columns |-> IF c \in InForm THEN row[c] ELSE Blank]]

OpenEdit(i) ==
  /\ page \in {"records", "fields", "scripts"} /\ screen.mode = "browse" /\ i \in Visible
  /\ screen' = [Editing(screen, i, cached.rows[i]) EXCEPT !.meant = MeansRow(i, cached.rows[i])]
  /\ UNCHANGED cached /\ Idling

\* The details of a record, with a button that edits it.
OpenView(i) ==
  /\ page = "records" /\ screen.mode = "browse" /\ i \in Visible
  /\ screen' = [screen EXCEPT !.mode = "view", !.id = i, !.meant = MeansRow(i, cached.rows[i])]
  /\ UNCHANGED cached /\ Idling

EditViewed ==
  /\ screen.mode = "view"
  /\ screen' = Editing(screen, screen.id, screen.meant.cols)
  /\ UNCHANGED cached /\ Idling

\* onClose: neither the form nor the thing is forgotten.
CloseDrawer ==
  /\ screen.mode \in {"create", "edit", "view"} /\ page # "options"
  /\ screen' = [screen EXCEPT !.mode = "browse", !.meant = Nothing]
  /\ cached' = IF page = "collections" THEN Subscribed(cached) ELSE cached
  /\ Idling

EnterValue(c) ==
  /\ screen.mode \in {"create", "edit"} /\ c \in InForm
  /\ Happens
  /\ screen' = [screen EXCEPT !.form = [screen.form EXCEPT ![c] = events'],
                              !.meant = [id |-> @.id, cols |-> [@.cols EXCEPT ![c] = events']]]
  /\ UNCHANGED <<page, things, changes, cached, sent, due>>

\* rowSelection
Pick(i) ==
  /\ page = "records" /\ screen.mode = "browse" /\ i \in Visible /\ i \notin screen.picked
  /\ Disturbs
  /\ screen' = [screen EXCEPT !.picked = @ \cup {i}]
  /\ UNCHANGED <<page, things, changes, cached, sent, due>>

-----------------------------------------------------------------------------
(***************************************************************************)
(* Requests.                                                               *)
(***************************************************************************)
Call(op, ids, cols, meant) ==
  [op |-> op, ids |-> ids, cols |-> cols, meant |-> meant, mine |-> TRUE, at |-> "sent", made |-> 0]

Send(r) ==
  /\ Happens
  /\ sent' = Append(sent, r)
  /\ UNCHANGED <<page, things, changes, screen, cached, due>>

\* While saveMut is pending its button is not to be pressed.
Saving == \E n \in DOMAIN sent :
            sent[n].mine /\ sent[n].op = "save" /\ sent[n].at \in {"sent", "done", "refused"}

\* mutationFn: what the form has.
FormPayload == [c \in Columns |-> IF c \in InForm THEN screen.form[c] ELSE Blank]

\* The options that the tab does not show are sent as the page has them.
OptionsPayload == [c \in Columns |-> IF c \in InForm THEN screen.form[c] ELSE cached.rows[1][c]]

Save ==
  /\ screen.mode \in {"create", "edit"} /\ ~Saving
  /\ \E c \in InForm : screen.form[c] # Blank
  /\ Send(Call("save", IF screen.mode = "edit" THEN {screen.id} ELSE {},
               IF page = "options" THEN OptionsPayload ELSE FormPayload, screen.meant))

Remove(i) ==
  /\ page # "options" /\ screen.mode = "browse" /\ i \in Visible
  /\ Send(Call("remove", {i}, Blanks, Nothing))

\* The collection that is open elsewhere, in its tab Advanced
RemoveOpen ==
  /\ page = "collections" /\ screen.mode = "away"
  /\ Send(Call("removeOpen", {1}, Blanks, Nothing))

RemovePicked ==
  /\ page = "records" /\ screen.mode = "browse" /\ screen.picked # {}
  /\ Send(Call("removeMany", screen.picked, Blanks, Nothing))

\* enableMut sends the whole script as it is listed, disableMut only says which.
Enable(i) ==
  /\ page = "scripts" /\ screen.mode = "browse" /\ i \in Visible
  /\ cached.rows[i]["kept"] = Off
  /\ Send(Call("enable", {i}, [cached.rows[i] EXCEPT !["kept"] = On], Nothing))

Disable(i) ==
  /\ page = "scripts" /\ screen.mode = "browse" /\ i \in Visible
  /\ cached.rows[i]["kept"] # Off
  /\ Send(Call("disable", {i}, [Blanks EXCEPT !["kept"] = Off], Nothing))

-----------------------------------------------------------------------------
(***************************************************************************)
(* The server, and other administrators.                                   *)
(***************************************************************************)
Outside == UNCHANGED <<page, screen, cached, events, troubles, due>>

Overlaid(i, cols) == [c \in Columns |-> IF cols[c] = Blank THEN things[i][c] ELSE cols[c]]
Created(i, cols) == [c \in Columns |-> IF cols[c] = Blank THEN 0 ELSE cols[c]]

\* What there is after request r.
After(r) ==
  CASE r.op = "save" /\ r.ids = {} ->
         {[things EXCEPT ![i] = Created(i, r.cols)] :
            i \in {i \in Things : things[i] = Missing /\ \A j \in Things : j < i => things[j] # Missing}}
    [] r.op \in {"save", "enable", "disable"} /\ r.ids # {} ->
         {[things EXCEPT ![i] = Overlaid(i, r.cols)] : i \in {i \in r.ids : things[i] # Missing}}
    [] OTHER -> {[i \in Things |-> IF i \in r.ids THEN Missing ELSE things[i]]}

\* A request is over when it has been answered, or when nobody waits for its answer.
Without(n) == Seqs!RemoveAt(sent, n)
Marked(n, at) == [sent EXCEPT ![n] = [sent[n] EXCEPT !.at = at]]

\* A request whose sender has given up is carried out too.
Executes(n) ==
  /\ sent[n].at \in {"sent", "adrift"}
  /\ things' \in After(sent[n])
  /\ changes' = changes + 1
  /\ sent' = IF sent[n].at = "adrift" THEN Without(n)
             ELSE [sent EXCEPT ![n] = [sent[n] EXCEPT !.at = "done", !.made = changes']]
  /\ Outside

Refuses(n) ==
  /\ sent[n].at \in {"sent", "adrift"}
  /\ sent' = IF sent[n].at = "adrift" THEN Without(n) ELSE Marked(n, "refused")
  /\ UNCHANGED <<things, changes>> /\ Outside

\* The connection breaks, before or after the request is carried out: onError, which
\* only shows a message.
Breaks(n) ==
  /\ sent[n].at \in {"sent", "done"}
  /\ Disturbs
  /\ sent' = IF sent[n].at = "sent" THEN Marked(n, "adrift") ELSE Without(n)
  /\ UNCHANGED <<page, things, changes, screen, cached, due>>

OthersChange(i) ==
  /\ things[i] # Missing
  /\ Disturbs /\ changes' = changes + 1
  /\ \E c \in Columns : things' = [things EXCEPT ![i] = [things[i] EXCEPT ![c] = 20 + events']]
  /\ UNCHANGED <<page, screen, cached, sent, due>>

OthersRemove(i) ==
  /\ things[i] # Missing
  /\ Disturbs /\ changes' = changes + 1
  /\ things' = [things EXCEPT ![i] = Missing]
  /\ UNCHANGED <<page, screen, cached, sent, due>>

-----------------------------------------------------------------------------
(***************************************************************************)
(* Answers, in any order.                                                  *)
(***************************************************************************)
\* (slip) The drawer forgets the thing but stays open.
SavedOpen(s) ==
  CASE page \in {"fields", "scripts"} -> [s EXCEPT !.id = Missing]
    [] page \in {"options", "collections"} -> s
    [] OTHER -> [s EXCEPT !.mode = "browse", !.meant = Nothing]

\* onSuccess of a save closes the drawer that is open now, whichever it is; each page
\* forgets something else.
Closed(s) == [s EXCEPT !.mode = "browse", !.meant = Nothing]
RecordSaved(s) == Closed(s)
FieldSaved(s) == [Closed(s) EXCEPT !.id = Missing, !.form = Blanks]
ScriptSaved(s) == [Closed(s) EXCEPT !.id = Missing]
IndexSaved(s) == [Closed(s) EXCEPT !.form = Blanks]

Saved(s) ==
  CASE page = "records" -> RecordSaved(s)
    [] page = "fields" -> FieldSaved(s)
    [] page = "scripts" -> ScriptSaved(s)
    [] page = "indexes" -> IndexSaved(s)
    [] OTHER -> s

\* The page after the answer: navigate works for a component that is gone too.
AfterAnswer(r) ==
  CASE r.op = "save" /\ page = "collections" -> Mounted("away")
    [] r.op = "removeOpen" /\ screen.mode # "browse" -> Mounted("browse")
    [] r.op = "save" /\ page # "collections" /\ r.mine -> Saved(screen)
    [] r.op = "removeMany" /\ r.mine -> [screen EXCEPT !.picked = {}]
    [] OTHER -> screen

\* The wizard is the only one that does not invalidate the list.
Invalidates(r) == ~(page = "collections" /\ r.op = "save")

Succeeds(n) ==
  LET r == sent[n]
      known == IF Invalidates(r) THEN Invalidated(cached, screen) ELSE cached IN
  /\ r.at = "done"
  /\ screen' = AfterAnswer(r)
  /\ cached' = IF Observed(screen') /\ ~Observed(screen) THEN Subscribed(known) ELSE known
  /\ sent' = IF Observed(screen') = Observed(screen) THEN Without(n) ELSE Orphaned(Without(n))
  /\ due' = IF Invalidates(r) /\ ~Overlooked(cached, screen) /\ r.made > due THEN r.made ELSE due
  /\ UNCHANGED <<page, things, changes, events, troubles>>

Fails(n) ==
  /\ sent[n].at = "refused"
  /\ sent' = Without(n)
  /\ UNCHANGED <<page, things, changes, screen, cached, events, troubles, due>>

ConsoleNext ==
  \/ ServerReads \/ ListArrives \/ ListFails \/ ListAges \/ Reload
  \/ Enter \/ ShowOptions \/ SwitchTab \/ LeavePage \/ OpenCreate \/ EditViewed \/ CloseDrawer
  \/ \E c \in Columns : EnterValue(c)
  \/ \E i \in Things : OpenEdit(i) \/ OpenView(i) \/ Pick(i) \/ Remove(i) \/ Enable(i) \/ Disable(i)
                       \/ OthersChange(i) \/ OthersRemove(i)
  \/ Save \/ RemoveOpen \/ RemovePicked
  \/ \E n \in DOMAIN sent : Executes(n) \/ Refuses(n) \/ Breaks(n) \/ Succeeds(n) \/ Fails(n)

ConsoleSpec == ConsoleInit /\ [][ConsoleNext]_consoleVars

-----------------------------------------------------------------------------
\* A value that nobody entered in this drawer: the field of a password keeps what was
\* entered for another record, the modal of indexes what was entered and not saved, and
\* an option that the tab does not show is sent as the page has it.
LeftOver(r, c) ==
  \/ page = "records" /\ c \notin Listed /\ r.meant.id # Missing
  \/ page \in {"indexes", "options"}

\* A drawer saves what it was opened for: a save that was pressed changes the thing
\* whose drawer was open then (a new one, if it was to create one), and gives a
\* column what the user has entered since or what the list said when it was opened;
\* whatever answers have come late, closed other drawers and cleared the form.
SendsWhatWasMeant ==
  \A n \in DOMAIN sent : sent[n].op = "save" =>
    /\ sent[n].ids = IF sent[n].meant.id = Missing THEN {} ELSE {sent[n].meant.id}
    /\ \A c \in Columns : sent[n].cols[c] # sent[n].meant.cols[c] =>
         sent[n].meant.cols[c] = Blank /\ LeftOver(sent[n], c)

\* The list shows what was changed with it: when it rests, after a request of its
\* user has succeeded, it was read after that request was carried out; answers of
\* lists and of requests overtake each other.  (The creation of a collection tells
\* the list nothing, and a list that is being loaded for the first time, or while
\* nobody looks, cannot be told.)
ListsWhatItChanged ==
  Observed(screen) /\ cached.rows # Missing /\ ~cached.stale /\ cached.fetch = "none"
    => cached.at >= due

\* The pages do what they show: a save changes what it was opened for, and nothing
\* else, and a list at rest shows it.
ConsoleHolds == SendsWhatWasMeant /\ ListsWhatItChanged
=============================================================================
