------------------------------- MODULE RecordDesk -------------------------------
(***************************************************************************)
(* One browser on one of the list pages of RecordPages, among others that   *)
(* change the same records.  Its table shows the pages loaded for the       *)
(* current filter, react-query keeping one list for each filter; rows are   *)
(* edited in the form, changed from the status menu and deleted, each with  *)
(* what the row held when it was touched.                                   *)
(*                                                                         *)
(* Every write of the server has a number, which is the etag of the record  *)
(* it leaves and which a page of a list carries: rev when it was read.      *)
(***************************************************************************)
EXTENDS RecordPages, InfiniteLists, FiniteSets

CONSTANTS
    Pages,          \* the pages this browser may be on
    InitialRecords, \* bound: records at the start
    Limit,          \* records per request (25)
    MaxWrites,      \* bound: writes the server makes
    MaxEvents,      \* bound: writes of others, mutations while another one runs, loads that fail or are repeated,
                    \* and changes of the filter a page starts with, together
    None

ASSUME PagesAssumption == Pages \subseteq DOMAIN Page
ASSUME BoundsAssumption ==
    InitialRecords \in Nat /\ Limit \in Nat \ {0} /\ MaxWrites \in Nat /\ MaxEvents \in Nat
ASSUME NoneAssumption == None \notin 0 .. MaxWrites

VARIABLES
    page,       \* the page the browser is on
    records,    \* records on the server, in the order it lists them
    rev,        \* how many writes it has made
    filter,     \* the filter of the table
    lists,      \* the list of each filter
    form,       \* the sheet: open, and the copy it was opened with
    calls,      \* mutations in flight
    own,        \* history: the last write of the desk it knows to have succeeded
    events      \* how many bounded events have happened

server == <<records, rev>>
recordsVars == <<page, server, filter, lists, form, calls, own, events>>

Filters == {"wide", "narrow"}
Revs == 0 .. MaxWrites
RecordIds == 1 .. InitialRecords + MaxWrites
Record == [id : RecordIds, etag : Revs, shown : BOOLEAN]
Copy == [id : RecordIds, etag : Revs]     \* what a browser holds of one
Call == [kind : {"create", "update", "delete"},
         id : RecordIds \cup {None},
         seen : Revs \cup {None},    \* the etag of the copy the body was made from
         ifMatch : Revs \cup {None},
         menu : BOOLEAN,             \* whether it changes the status only
         latest : BOOLEAN,           \* whether the hook still tells it is pending
         stored : Revs \cup {None}]  \* the write it has made

PagesAt(pages) == \A i \in DOMAIN pages :
    /\ pages[i].items \in Seq(Copy) /\ Len(pages[i].items) <= Limit
    /\ pages[i].total \in Nat /\ pages[i].at \in Revs

\* Types; the server lists a record once, and a form edits a copy of a record.
RecordsTypeOK ==
    /\ page \in Pages
    /\ records \in Seq(Record)
    /\ \A i, j \in DOMAIN records : records[i].id = records[j].id => i = j
    /\ rev \in Revs /\ filter \in Filters
    /\ DOMAIN lists = Filters
    /\ \A f \in Filters :
         /\ PagesAt(lists[f].pages) /\ PagesAt(lists[f].got) /\ PagesAt(lists[f].before)
         /\ lists[f].answer # None => PagesAt(<<lists[f].answer>>)
         /\ lists[f].load \in {"no", "first", "all", "next"}
         /\ lists[f].load = "no" => lists[f].got = <<>> /\ lists[f].answer = None
         /\ lists[f].stale \in BOOLEAN /\ lists[f].slipped \in BOOLEAN
    /\ form.open \in BOOLEAN /\ form.editing \in Copy \cup {None}
    /\ calls \subseteq Call /\ Cardinality(calls) <= events + 1
    /\ own \in Revs /\ events \in 0 .. MaxEvents

NoList == [pages |-> <<>>, stale |-> FALSE, load |-> "no", before |-> <<>>,
           got |-> <<>>, answer |-> None, slipped |-> FALSE]

\* The sheet when it is closed: the copy is not looked at any more.
Closed == [open |-> FALSE, editing |-> None]

\* A list starts to load: its first page, all its pages anew, or the next one.
Loading(list, what) ==
    [list EXCEPT !.load = what, !.before = list.pages, !.got = <<>>, !.answer = None]

\* The pages a load has so far.
Base(list) == IF list.load = "next" THEN list.before ELSE list.got

\* What a refetch of a list loads.
Refetched(list) == Loading(list, IF list.pages = <<>> THEN "first" ELSE "all")

RecordsInit ==
    /\ page \in Pages
    /\ records \in [1 .. InitialRecords -> [id : RecordIds, etag : {0}, shown : BOOLEAN]]
    /\ \A i \in DOMAIN records : records[i].id = i
    /\ rev = 0
    /\ filter = Page[page].first
    /\ lists = [f \in Filters |-> IF f = filter THEN Loading(NoList, "first") ELSE NoList]
    /\ form = Closed
    /\ calls = {} /\ own = 0 /\ events = 0

-----------------------------------------------------------------------------
(* The server                                                               *)

\* What the server lists for a filter, as a browser sees it.
Matching(f) ==
    FlattenSeq([i \in DOMAIN records |->
        IF f = "wide" \/ records[i].shown
        THEN <<[id |-> records[i].id, etag |-> records[i].etag]>> ELSE <<>>])

Exists(id) == \E r \in ToSet(records) : r.id = id

\* The record is still what it was with that etag.
Unchanged(id, etag) == \E r \in ToSet(records) : r.id = id /\ r.etag = etag

Written == rev < MaxWrites /\ rev' = rev + 1

\* What the GET of a list is answered now.
Answer(f) ==
    LET all == Matching(f) IN
    [items |-> PageOf(all, loadedCount(Base(lists[f])), Limit).items,
     total |-> Len(all), at |-> rev]

\* The lists when the server has read some of the GETs under way, as it may have
\* before it writes; whatever it has not read by then it reads later.
Reading(some) ==
    [f \in Filters |-> IF f \in some THEN [lists[f] EXCEPT !.answer = Answer(f)] ELSE lists[f]]
Unread == {f \in Filters : lists[f].load # "no" /\ lists[f].answer = None}

\* The place of a record in the list, and the list without it.
Place(id) == CHOOSE k \in DOMAIN records : records[k].id = id
Others(id) == RemoveAt(records, Place(id))

\* A new record: people are listed first, the others where the date they were given
\* puts them.
Create ==
    /\ Written
    /\ \E i \in 1 .. Len(records) + 1, s \in BOOLEAN :
         /\ page \in ByUpdate => i = 1
         /\ records' = InsertAt(records, i,
              [id |-> InitialRecords + rev', etag |-> rev', shown |-> s])

\* Mutant of Update: the record it was stays where it was.
UpdateInserts(id, fields) ==
    /\ Exists(id) /\ Written
    /\ \E s \in BOOLEAN : records' = <<[id |-> id, etag |-> rev', shown |-> s]>> \o records

\* A changed record: it moves when the list is ordered by what has changed.
Update(id, fields) ==
    /\ Exists(id) /\ Written
    /\ LET k == Place(id) IN
       \E i \in DOMAIN records, s \in BOOLEAN :
         /\ IF page \in ByUpdate THEN i = 1 ELSE "date" \notin fields => i = k
         /\ fields \cap Page[page].filters = {} => s = records[k].shown
         /\ records' = InsertAt(Others(id), i, [id |-> id, etag |-> rev', shown |-> s])

Delete(id) == Exists(id) /\ Written /\ records' = Others(id)

Event == events < MaxEvents /\ events' = events + 1

\* The others on the same records.
Elsewhere ==
    /\ Event
    /\ \/ Create
       \/ \E id \in RecordIds : Update(id, Form[page].fields) \/ Delete(id)
    /\ \E some \in SUBSET Unread : lists' = Reading(some)
    /\ UNCHANGED <<page, filter, form, calls, own>>

\* 412 for an outdated If-Match where PUT compares it.
precondition(c) ==
    page \in Guarded /\ c.kind = "update" => Unchanged(c.id, c.ifMatch)

\* The request of a mutation reaches the server.  Rules it refuses a request by
\* (a duplicate, a dependent record, a bad field) end in Fails.
Handle ==
    \E c \in calls :
        /\ c.stored = None
        /\ \/ c.kind = "create" /\ Create
           \/ c.kind = "update" /\ precondition(c)
              /\ Update(c.id, IF c.menu THEN {"status"} ELSE Form[page].fields)
           \/ c.kind = "delete" /\ Delete(c.id)
        /\ calls' = (calls \ {c}) \cup {[c EXCEPT !.stored = rev']}
    /\ \E some \in SUBSET Unread : lists' = Reading(some)
    /\ UNCHANGED <<page, filter, form, own, events>>

-----------------------------------------------------------------------------
(* The lists                                                                *)

Shown == flattenInfiniteItems(lists[filter].pages)
Rows == ToSet(Shown)

\* The answer to a GET arrives: the last one of a round replaces the pages of the list, also
\* when they were cut to the first one meanwhile.
Land(f) ==
    LET list == lists[f]
        round == Append(Base(list), IF f \in Unread THEN Answer(f) ELSE list.answer)
    IN
    /\ list.load # "no"
    /\ IF list.load = "all" /\ RefetchGoesOn(list.before, round, Limit)
       THEN lists' = [lists EXCEPT ![f].got = round, ![f].answer = None]
       ELSE lists' = [lists EXCEPT ![f] =
                 [NoList EXCEPT !.pages = round, !.slipped = list.slipped]]
    /\ UNCHANGED <<page, server, filter, form, calls, own, events>>

\* The request and its one repetition have failed.
LoadFails(f) ==
    /\ lists[f].load # "no" /\ Event
    /\ lists' = [lists EXCEPT ![f] =
         [NoList EXCEPT !.pages = lists[f].pages, !.stale = lists[f].stale, !.slipped = TRUE]]
    /\ UNCHANGED <<page, server, filter, form, calls, own>>

\* The window gets the focus back with a list older than a minute, or onRetry after
\* an error.
Refetch ==
    /\ lists[filter].load = "no" /\ Event
    /\ lists' = [lists EXCEPT ![filter] = Refetched([@ EXCEPT !.slipped = FALSE])]
    /\ UNCHANGED <<page, server, filter, form, calls, own>>

canLoadMore == hasNextPage(lists[filter].pages, Limit) /\ lists[filter].load # "next"

\* "Cargar más"; fetchNextPage cancels a refetch under way.
LoadMore ==
    /\ ~form.open /\ canLoadMore
    /\ lists' = [lists EXCEPT ![filter] =
         [Loading(lists[filter], "next") EXCEPT !.slipped = @ \/ lists[filter].load = "all"]]
    /\ UNCHANGED <<page, server, filter, form, calls, own, events>>

\* The list of a filter is mounted: it is loaded if it never was, or invalidated.
Mounted(list) ==
    IF list.load = "no" /\ (list.pages = <<>> \/ list.stale)
    THEN Refetched([list EXCEPT !.slipped = FALSE]) ELSE list

\* The search box, the dates, the category or the statuses.
SetFilter ==
    /\ ~form.open
    /\ filter' \in Filters \ {filter}
    /\ IF filter = Page[page].first THEN Event ELSE UNCHANGED events
    /\ lists' = [lists EXCEPT ![filter'] = Mounted(@)]
    /\ UNCHANGED <<page, server, form, calls, own>>

\* Mutant of Invalidated: a load under way is taken for the new one.
InvalidatedJoins(f, list) ==
    IF f = filter /\ list.load = "no" THEN Refetched([list EXCEPT !.slipped = FALSE])
    ELSE list

\* invalidateQueries: the list on the screen starts over, but for its first load;
\* the other one is loaded when it is mounted, unless a load under way lands first.
Invalidated(f, list) ==
    IF f = filter /\ (list.pages # <<>> \/ list.load = "no")
    THEN Refetched([list EXCEPT !.slipped = FALSE])
    ELSE [list EXCEPT !.stale = TRUE,
                      !.slipped = @ \/ list.got # <<>> \/ list.answer # None
                                    \/ list.load = "next"]

\* onSuccess of the mutations: keepFirstInfinitePage, then invalidateQueries.
AfterSuccess(all) ==
    [f \in Filters |-> Invalidated(f, [all[f] EXCEPT !.pages = keepFirstInfinitePage(@)])]

-----------------------------------------------------------------------------
(* The form, the menu and the dialog                                        *)

isPending(kind) == \E c \in calls : c.kind = kind /\ c.latest

\* mutateAsync: the hook tells about its latest call only.
Ask(kind, id, seen, ifMatch, fromMenu) ==
    /\ IF calls = {} THEN UNCHANGED events ELSE Event
    /\ calls' = {[c EXCEPT !.latest = @ /\ c.kind # kind] : c \in calls} \cup
         {[kind |-> kind, id |-> id, seen |-> seen, ifMatch |-> ifMatch,
           menu |-> fromMenu, latest |-> TRUE, stored |-> None]}

OpenSheet(copy) ==
    /\ ~form.open /\ form' = [open |-> TRUE, editing |-> copy]
    /\ UNCHANGED <<page, server, filter, lists, calls, own, events>>

openCreate == Form[page].creates /\ OpenSheet(None)

openEdit == \E r \in Rows : OpenSheet(r)

isLoading == isPending("create") \/ isPending("update")

\* Cancel, when nothing is being saved; Escape and the overlay always.
CloseSheet ==
    /\ form.open /\ form' = Closed
    /\ UNCHANGED <<page, server, filter, lists, calls, own, events>>

\* Mutant of handleSubmit: If-Match is that of the row as it is by now.
HandleSubmitCurrentTag ==
    /\ form.open /\ ~isLoading
    /\ IF form.editing = None THEN Ask("create", None, None, None, FALSE)
       ELSE \E r \in Rows : r.id = form.editing.id /\
              Ask("update", form.editing.id, form.editing.etag, r.etag, FALSE)
    /\ UNCHANGED <<page, server, filter, lists, form, own>>

\* The whole form, with the etag of the copy it was opened with.
handleSubmit ==
    /\ form.open /\ ~isLoading
    /\ IF form.editing = None THEN Ask("create", None, None, None, FALSE)
       ELSE Ask("update", form.editing.id, form.editing.etag, form.editing.etag, FALSE)
    /\ UNCHANGED <<page, server, filter, lists, form, own>>

\* The whole record as the row shows it, with another status; nothing waits for a
\* change under way.
handleStatusChange(r) == Ask("update", r.id, r.etag, r.etag, TRUE)

\* select of the menu in a row.  A terminal status is confirmed in a dialog, and
\* confirm takes the row as it is then: what is one step here.
select ==
    /\ Page[page].menu /\ ~form.open
    /\ \E r \in Rows : handleStatusChange(r)
    /\ UNCHANGED <<page, server, filter, lists, form, own>>

\* The action of the delete dialog, which keeps the record of the row it was opened
\* from; one deletion at a time.
onConfirmDelete ==
    /\ ~form.open /\ ~isPending("delete")
    /\ \E r \in Rows : Ask("delete", r.id, None, None, FALSE)
    /\ UNCHANGED <<page, server, filter, lists, form, own>>

\* The success of a save closes the form, whatever it shows by then.
Succeeds ==
    \E c \in calls :
        /\ c.stored # None /\ calls' = calls \ {c}
        /\ lists' = AfterSuccess(lists) /\ own' = Max({own, c.stored})
        /\ form' = (IF c.kind # "delete" /\ ~c.menu THEN Closed ELSE form)
        /\ UNCHANGED <<page, server, filter, events>>

\* An error is shown: refused, not found, outdated, or lost with the write made or
\* not; the form stays as it is.  A request still under way when the desk gives it up
\* is like a write of the others.
Fails ==
    /\ \E c \in calls : calls' = calls \ {c}
    /\ UNCHANGED <<page, server, filter, lists, form, own, events>>

\* The wizard of EnrollmentWizard ends with a record more; on the students page it
\* then clears the search, and asks for the list it clears once more.  It reads
\* nothing of the list, and is one step.
wizardSucceeds ==
    /\ ~form.open /\ Page[page].wizard # "none"
    /\ Create /\ own' = rev'
    /\ \E some \in SUBSET Unread :
         IF Page[page].wizard = "adds"
         THEN lists' = AfterSuccess(Reading(some)) /\ UNCHANGED filter
         ELSE /\ lists' = [AfterSuccess(Reading(some)) EXCEPT !["wide"] = Mounted(@)]
              /\ filter' = "wide"
    /\ UNCHANGED <<page, form, calls, events>>

-----------------------------------------------------------------------------

Loads == \E f \in Filters : Land(f) \/ LoadFails(f)

Operator ==
    \/ Refetch \/ LoadMore \/ SetFilter
    \/ openCreate \/ openEdit \/ CloseSheet \/ handleSubmit
    \/ select \/ onConfirmDelete \/ wizardSucceeds

RecordsNext == Operator \/ Loads \/ Handle \/ Succeeds \/ Fails \/ Elsewhere

RecordsSpec == RecordsInit /\ [][RecordsNext]_recordsVars

-----------------------------------------------------------------------------
(* Properties                                                               *)

\* A list nothing has happened to since its first page was read.
UpToDateList(list) ==
    list.pages # <<>> /\ list.load = "no" /\ \A i \in DOMAIN list.pages : list.pages[i].at = rev

\* The rows of a filter are the first records of the server that match it, once
\* each and in its order, and there is more to load exactly when it has more: through
\* every change of filter, cut to the first page, cancelled and repeated load.
RowsAreTheServers ==
    \A f \in Filters : UpToDateList(lists[f]) =>
        LET rows == flattenInfiniteItems(lists[f].pages) all == Matching(f) IN
        /\ rows = SubSeq(all, 1, Len(rows))
        /\ hasNextPage(lists[f].pages, Limit) <=> Len(rows) < Len(all)

\* A list that has nothing left to load was read after every success the desk knows
\* of, unless a load failed, "Cargar más" cancelled it, or an answer read before the
\* success landed after it (useInfinite..., keepFirstInfinitePage).
OwnWritesShown ==
    \A f \in Filters :
        lists[f].pages # <<>> /\ lists[f].load = "no" /\ ~lists[f].stale /\ ~lists[f].slipped
            => Head(lists[f].pages).at >= own

\* On the pages whose PUT compares If-Match, neither the form nor the status menu
\* ever writes over a change that was not in the copy it started from.
GuardedEditsKeepOthers ==
    [][\A c \in calls :
         /\ page \in Guarded /\ c.kind = "update" /\ c.stored = None
         /\ [c EXCEPT !.stored = rev'] \in calls' /\ rev' # rev
         => Unchanged(c.id, c.seen)]_recordsVars
=============================================================================
