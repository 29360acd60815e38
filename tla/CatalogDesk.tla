------------------------------ MODULE CatalogDesk ------------------------------
(***************************************************************************)
(* One catalog (courses, levels, payment methods...) edited from several    *)
(* browsers at once: the courses page and the page of the other catalogs    *)
(* edit and toggle an item by replacing the whole list with their copy of   *)
(* it, PUT /catalogs/{code}; the overview of all catalogs adds and disables *)
(* one item on the server.  The page sends If-Match with the copy's etag,   *)
(* which the server ignores for catalogs.                                   *)
(***************************************************************************)
EXTENDS Naturals, FiniteSets

CONSTANTS
    Desks,          \* browsers on the courses page or on CatalogCrudPage
    Values,         \* values of items, up to case
    Levels,         \* values of the levels catalog
    ActiveLevels,   \* those the courses page shows
    InitialItems,   \* the items at the start: two of the values
    MaxWrites,      \* bound: writes the server makes
    MaxFaults,      \* bound: mutations that fail or whose answer is lost
    None

ASSUME CatalogAssumption ==
    /\ ActiveLevels \subseteq Levels
    /\ InitialItems \subseteq [value : Values, active : BOOLEAN, hours : SUBSET Levels]
    /\ InitialItems # {} /\ \A i, j \in InitialItems : i.value = j.value => i = j
    /\ MaxWrites \in Nat /\ MaxFaults \in Nat

VARIABLES
    code,       \* the catalog: only courses have hours for each level
    items,      \* its items on the server
    etag,       \* how often it was written
    cached,     \* the copy of each desk, with the etag it had
    fetching,   \* the GET of each desk: asked, read on the server, or none
    answer,     \* what that GET has read
    levels,     \* whether the levels catalog has arrived
    open,       \* the sheet of each desk
    editing,    \* the item it was opened with, None to add one
    calls,      \* mutations in flight
    own,        \* history: the etag of a desk's last successful write
    late,       \* history: that write outran the first load of the catalog
    faults

server == <<items, etag>>
query == <<cached, fetching, answer, late>>
sheet == <<open, editing>>
vars == <<code, server, query, levels, sheet, calls, own, faults>>

CatalogItem == [value : Values, active : BOOLEAN, hours : SUBSET Levels]
Etags == 0 .. MaxWrites
Catalog == [items : SUBSET CatalogItem, etag : Etags]
Call == [kind : {"add", "edit", "toggle"},
         item : Values,             \* the item it is made for
         value : Values,            \* the value it gets
         hours : SUBSET Levels, shown : SUBSET Levels,
         items : SUBSET CatalogItem, \* the body of a PUT
         at : Etags \cup {None}]    \* the etag of the copy it was computed from
ASSUME NoneAssumption == None \notin Catalog /\ None \notin Etags

Replaces(c) == c.kind \in {"edit", "toggle"}

\* Types; a PUT is always made from a copy, and never empties the catalog.
TypeOK ==
    /\ code \in {"courses", "other"}
    /\ items \subseteq CatalogItem /\ items # {} /\ etag \in Etags
    /\ \A d \in Desks : /\ cached[d] \in Catalog \cup {None}
                        /\ answer[d] \in Catalog \cup {None}
                        /\ calls[d] \subseteq Call
    /\ \A d \in Desks : \A c \in calls[d] : Replaces(c) => c.at # None /\ c.items # {}
    /\ fetching \in [Desks -> {"no", "asked", "read"}]
    /\ levels \in [Desks -> BOOLEAN]
    /\ open \in [Desks -> BOOLEAN]
    /\ editing \in [Desks -> CatalogItem \cup {None}]
    /\ own \in [Desks -> Etags] /\ late \in [Desks -> BOOLEAN]
    /\ faults \in 0 .. MaxFaults

\* An item that is (de)activated, and one that is edited: the hours are those of
\* the fields of the sheet, a level without a field loses its.
Switched(i, active) == [value |-> i.value, active |-> active, hours |-> i.hours]
Renamed(i, value, hours) ==
    [value |-> value, active |-> i.active,
     hours |-> IF code = "courses" THEN hours ELSE i.hours]

WithoutHours(set) == {[value |-> i.value, active |-> i.active, hours |-> {}] : i \in set}

Init ==
    /\ code \in {"courses", "other"}
    /\ items = (IF code = "courses" THEN InitialItems ELSE WithoutHours(InitialItems))
    /\ etag = 0
    /\ cached = [d \in Desks |-> None] /\ answer = [d \in Desks |-> None]
    /\ fetching = [d \in Desks |-> "asked"] /\ late = [d \in Desks |-> FALSE]
    /\ levels = [d \in Desks |-> FALSE]
    /\ open = [d \in Desks |-> FALSE] /\ editing = [d \in Desks |-> None]
    /\ calls = [d \in Desks |-> {}]
    /\ own = [d \in Desks |-> 0] /\ faults = 0

-----------------------------------------------------------------------------
(* The copy of a desk                                                       *)

\* A copy older than five minutes is asked for again when the page is mounted.
useCatalog(d) ==
    /\ cached[d] # None /\ fetching[d] = "no"
    /\ fetching' = [fetching EXCEPT ![d] = "asked"]
    /\ UNCHANGED <<code, server, cached, answer, late, levels, sheet, calls, own, faults>>

getCatalog(d) ==
    /\ fetching[d] = "asked" /\ fetching' = [fetching EXCEPT ![d] = "read"]
    /\ answer' = [answer EXCEPT ![d] = [items |-> items, etag |-> etag]]
    /\ UNCHANGED <<code, server, cached, late, levels, sheet, calls, own, faults>>

CatalogArrives(d) ==
    /\ fetching[d] = "read" /\ fetching' = [fetching EXCEPT ![d] = "no"]
    /\ cached' = [cached EXCEPT ![d] = answer[d]]
    /\ answer' = [answer EXCEPT ![d] = None]
    /\ late' = [late EXCEPT ![d] = @ /\ cached[d] = None]
    /\ UNCHANGED <<code, server, levels, sheet, calls, own, faults>>

LevelsArrive(d) ==
    /\ code = "courses" /\ ~levels[d] /\ levels' = [levels EXCEPT ![d] = TRUE]
    /\ UNCHANGED <<code, server, query, sheet, calls, own, faults>>

\* Mutant of Invalidate: a GET under way is taken for the new one.
InvalidateJoins(d) ==
    /\ fetching' = [fetching EXCEPT ![d] = IF @ = "no" THEN "asked" ELSE @]
    /\ UNCHANGED <<answer, late>>

\* invalidateQueries(['catalogs']) starts over, but for the first load of all.
Invalidate(d) ==
    IF cached[d] = None
    THEN late' = [late EXCEPT ![d] = fetching[d] = "read"] /\ UNCHANGED <<fetching, answer>>
    ELSE /\ fetching' = [fetching EXCEPT ![d] = "asked"]
         /\ answer' = [answer EXCEPT ![d] = None]
         /\ UNCHANGED late

-----------------------------------------------------------------------------
(* The sheet and the rows                                                   *)

ItemsOf(d) == IF cached[d] = None THEN {} ELSE cached[d].items

OpenSheet(d, item) ==
    /\ ~open[d] /\ open' = [open EXCEPT ![d] = TRUE]
    /\ editing' = [editing EXCEPT ![d] = item]
    /\ UNCHANGED <<code, server, query, levels, calls, own, faults>>

openCreate(d) == OpenSheet(d, None)

openEdit(d) == \E i \in ItemsOf(d) : OpenSheet(d, i)

\* Escape works while the mutation runs.
CloseSheet(d) ==
    /\ open[d] /\ open' = [open EXCEPT ![d] = FALSE]
    /\ editing' = [editing EXCEPT ![d] = None]
    /\ UNCHANGED <<code, server, query, levels, calls, own, faults>>

\* Mutant of getDuplicateItem: only active items are looked at.
DuplicateOfActive(d, value) ==
    \E i \in ItemsOf(d) : i.active /\ i.value = value /\
        (editing[d] # None => i.value # editing[d].value)

getDuplicateItem(d, value) ==
    \E i \in ItemsOf(d) : i.value = value /\
        (editing[d] # None => i.value # editing[d].value)

\* The levels the sheet has a field for.
ShownLevels(d) == IF levels[d] THEN ActiveLevels ELSE {}

Ask(d, c) ==
    /\ calls' = [calls EXCEPT ![d] = @ \cup {c}]
    /\ UNCHANGED <<code, server, query, levels, sheet, own, faults>>

\* POST /catalogs/{code}/items.
addCatalogItem(d) ==
    \E v \in Values, h \in SUBSET ShownLevels(d) :
        /\ open[d] /\ editing[d] = None /\ calls[d] = {}
        /\ ~getDuplicateItem(d, v)
        /\ Ask(d, [kind |-> "add", item |-> v, value |-> v, hours |-> h,
                   shown |-> ShownLevels(d), items |-> {}, at |-> None])

\* The copy with one item changed, the body of a PUT.
With(d, value, change(_)) ==
    {IF i.value = value THEN change(i) ELSE i : i \in ItemsOf(d)}

\* Mutant of EditedItems: an item that is not edited loses its hours.
EditedWithoutMetadata(d, value, hours) ==
    {[i EXCEPT !.value = IF @ = editing[d].value THEN value ELSE @, !.hours = hours] :
        i \in ItemsOf(d)}

EditedItems(d, value, hours) ==
    With(d, editing[d].value, LAMBDA i : Renamed(i, value, hours))

replaceCatalogItems(d) ==
    \E v \in Values, h \in SUBSET ShownLevels(d) :
        /\ open[d] /\ editing[d] # None /\ calls[d] = {}
        /\ ~getDuplicateItem(d, v)
        /\ Ask(d, [kind |-> "edit", item |-> editing[d].value, value |-> v, hours |-> h,
                   shown |-> ShownLevels(d), items |-> EditedItems(d, v, h),
                   at |-> cached[d].etag])

\* The button in the row is disabled while a PUT runs.
handleToggleActive(d) ==
    \E i \in ItemsOf(d) :
        /\ ~open[d] /\ \A c \in calls[d] : ~Replaces(c)
        /\ Ask(d, [kind |-> "toggle", item |-> i.value, value |-> i.value, hours |-> {},
                   shown |-> {}, at |-> cached[d].etag,
                   items |-> With(d, i.value, LAMBDA j : Switched(j, ~i.active))])

-----------------------------------------------------------------------------
(* The server                                                               *)

Added(value, hours) == items \cup {[value |-> value, active |-> TRUE, hours |-> hours]}

\* 409 for a value that is there.
Refused(c) == c.kind = "add" /\ \E i \in items : i.value = c.value

\* The read and the conditional replace of a request are one step: a request that
\* fails because another came between is a fault.
Written(c) ==
    /\ etag < MaxWrites /\ etag' = etag + 1 /\ ~Refused(c)
    /\ items' = (IF Replaces(c) THEN c.items
                 ELSE Added(c.value, c.hours))

Drop(d, c) == calls' = [calls EXCEPT ![d] = @ \ {c}]

\* Whatever sheet is open by then is closed by the end of an add or an edit.
Succeeds(d) ==
    \E c \in calls[d] :
        /\ Written(c) /\ Drop(d, c) /\ Invalidate(d)
        /\ own' = [own EXCEPT ![d] = etag']
        /\ IF c.kind \in {"add", "edit"}
           THEN open' = [open EXCEPT ![d] = FALSE] /\ editing' = [editing EXCEPT ![d] = None]
           ELSE UNCHANGED sheet
        /\ UNCHANGED <<code, cached, levels, faults>>

\* An error is shown and nothing is asked for again; the write may have been made.
Fails(d) ==
    \E c \in calls[d] :
        /\ Drop(d, c)
        /\ \/ Refused(c) /\ UNCHANGED <<server, faults>>
           \/ /\ faults < MaxFaults /\ faults' = faults + 1
              /\ Written(c) \/ UNCHANGED server
        /\ UNCHANGED <<code, query, levels, sheet, own>>

\* The page of all catalogs adds and disables single items on the server: what
\* its own copy shows does not reach the server, and asking and doing are one step.
handleAddSubmit ==
    \E v \in Values : (\A i \in items : i.value # v) /\ items' = Added(v, {})

\* Mutant of handleDisable: the item is taken out.
DisableRemoves == \E i \in items : i.active /\ items' = items \ {i}

handleDisable ==
    \E i \in items : i.active /\ items' = (items \ {i}) \cup {Switched(i, FALSE)}

Overview ==
    /\ etag < MaxWrites /\ etag' = etag + 1
    /\ handleAddSubmit \/ handleDisable
    /\ UNCHANGED <<code, query, levels, sheet, calls, own, faults>>

-----------------------------------------------------------------------------

Operator(d) ==
    \/ openCreate(d) \/ openEdit(d) \/ CloseSheet(d)
    \/ addCatalogItem(d) \/ replaceCatalogItems(d) \/ handleToggleActive(d)

Loads(d) ==
    useCatalog(d) \/ getCatalog(d) \/ CatalogArrives(d) \/ LevelsArrive(d)

Next ==
    \/ \E d \in Desks : Operator(d) \/ Loads(d) \/ Succeeds(d) \/ Fails(d)
    \/ Overview

Spec == Init /\ [][Next]_vars

-----------------------------------------------------------------------------
(* Properties                                                               *)

\* A value names one item, although PUT replaces the list unchecked: what is sent
\* was checked against the very copy it was made from (getDuplicateItem).
ValuesAreUnique == \A i, j \in items : i.value = j.value => i = j

\* A desk with nothing left to load shows its own writes, or something newer:
\* the invalidation after a success cancels an answer that is already old.  Only
\* a write made before the catalog had ever arrived may be missing.
OwnWritesShown ==
    \A d \in Desks :
        cached[d] # None /\ fetching[d] = "no" /\ ~late[d] => cached[d].etag >= own[d]

Others(set, c) == {i \in set : i.value \notin {c.item, c.value}}

\* c changes the item it is made for and nothing else; of that item, hours of
\* levels without a field are lost.
ChangesOneItem(c) ==
    /\ Others(items', c) = Others(items, c)
    /\ \A i \in items : i.value = c.item =>
         Replaces(c) /\ \E j \in items' :
              /\ j.value = c.value
              /\ c.kind = "edit" => j.active = i.active
              /\ IF c.kind = "edit" /\ code = "courses"
                 THEN j.hours \cap c.shown = c.hours ELSE j.hours = i.hours

\* A PUT made from the copy the server still has edits one item, however the
\* form, the rows and the reloads interleave (replaceCatalogItems of both pages).
CurrentCopiesEditOneItem ==
    [][etag' # etag /\ ~Overview => \E d \in Desks : \E c \in calls[d] :
          c \notin calls'[d] /\ (c.at \in {None, etag} => ChangesOneItem(c))]_vars
=============================================================================
