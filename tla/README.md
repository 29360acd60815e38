# Verification of the Espacio Pro back office

TLA+ models of the program's own logic, checked with TLC on small instances, and
theorems checked with TLAPS for every value of the constants. Paths below are
relative to the repository.

## The system

Espacio Pro manages students, teachers, course schedules, enrollments and
payments of a training centre.

```
Next.js web app ──HTTP──▶ Azure Functions API ──SDK──▶ Cosmos DB
                            ▲        (master | operations | whatsapp)
Telegram ──webhook──▶ agent (Function app) ──▶ Azure AI Foundry threads and runs
```

Every endpoint is a C# method: it reads documents, one `await` after the other,
decides, and ends in one write of one document. There is no transaction over the
chain and no lock between requests. What keeps concurrent requests apart is the
Cosmos `_etag`, sent as `If-Match` with replaces. The agent is a second Function
app; it talks to the same API with a key of its own, and keeps the Foundry
thread of every chat in two cache tiers.

### Inventory

| Component | State | Operations | What is hard | What makes it correct |
|---|---|---|---|---|
| `CosmosRepository<T>` | documents with `active`, `_etag` | Get, Create, Update, SoftDelete, Reindex | read and replace are two calls; the reindex replaces without a tag | no lost edit, nothing deleted comes back |
| Enrollments (`EnrollmentFunction`) | enrollment documents: pair, status, negotiated price | POST, PUT, DELETE, lists | rules are queries made before the write | few duplicates, few overbooked places, price kept |
| Schedules (`ScheduleFunction`) | schedule with embedded sessions and attendance | POST, PUT, DELETE, PUT/DELETE session, dashboard | regeneration, shift, projection and start date must agree after any sequence of edits | what was held is kept; dates consistent |
| Students, teachers | person documents, unique `/dedupKey` | POST, PUT, DELETE | deletion against enrollments; unique key of deleted people | dependents block deletion |
| Student payments, debtors | payments of an enrollment | POST, PUT, DELETE, debtors | balance over two queries | no payment of a missing enrollment |
| Teacher payments, expenses | single documents | CRUD | only concurrent edits | as the repository |
| Catalogs | one document with a list of items | replace list, add, disable | read-modify-write of the list | no lost item |
| WhatsApp inbox | conversation and its messages | webhook, send, patch | two documents per message | conversation knows its last message |
| Short codes | none | generate | random, eight tries against a query | uniqueness |
| Agent threads (`FoundryAgentRouter`, `AgentThreadFunction`) | L1 dictionary per worker, L2 document with TTL, per-chat semaphore | message, reset | recycled workers, several workers, failing API, TTL | one conversation per chat; reset forgets; every message answered |
| Agent tool loop | run in Foundry | poll, dispatch tools, submit | runs left open | the run settles |
| Enrollment wizard (web) | dialog, submissions | student, enrollments, payments in a row | up to five calls without compensation, time-outs, dismissal | the toast tells what is stored; one initial payment |
| Payment forms (web) | loaded history, draft | create, edit, delete | balance and installment are only checked in the browser | what is loaded is complete; known ways round the limits only |
| Catalog and schedule detail pages (web) | cached document, open form or panel | edit an item, mark attendance | every edit sends a whole copy | an edit from a current copy touches one item |
| CRM workspace (web) | boards, threads, composer, flows, agents, library | send, set lead state, edit | late answers, refetches, demo answers, steps nested at any depth | what was typed is sent once and lost in known ways only; own changes shown; an edit of a flow is local |
| List pages (web) | filtered infinite lists, form, menu, dialog | page, filter, edit, delete | offsets while records change, cancelled loads | rows are the server's; guarded edits keep others |
| JWT middleware | none | authenticate | none | stateless |
| Provisioner, speech, Telegram client, seed tool, infra | none of their own | external calls | none | not modelled |

The hazards this code is exposed to are listed, each at its line, under
`hazards` in `PROJECT.json`, with the properties that cover them.

## Modules

| Module | Models | Extends |
|---|---|---|
| `Documents` | what all documents share: soft delete, tag, the writes | |
| `DocumentLifecycle` | abstract: the atomic life of a document | |
| `CosmosRepository` | one partition behind `CosmosRepository<T>`, the reindex | `Documents`; implements `DocumentLifecycle` |
| `EnrollmentDesk` | enrollments and the rules that tie them to students and schedules | `Documents` |
| `SessionPlan` | the pure algorithms of schedules and sessions | |
| `ScheduleSessions` | the handlers that edit one schedule | `SessionPlan` |
| `AgentThreads` | the conversation of one chat, both cache tiers | |
| `InfiniteLists` | pages by offset of the web application | |
| `EnrollmentWizard` | the enrollment dialog and its submissions | |
| `PaymentDesk` | the two payment forms over one enrollment's payments | `InfiniteLists` |
| `CatalogDesk`, `SessionDesk` | pages that edit part of one document | |
| `DocumentPages` | both of them side by side | `CatalogDesk`; an instance of `SessionDesk` |
| `CrmInbox`, `FlowEditor`, `AgentLibrary` | the pages of the CRM | `CrmPages`, `InfiniteLists` |
| `CrmWorkspace` | the CRM of one browser | the three |
| `RecordPages`, `RecordDesk` | the six list pages, and one browser on one of them | `InfiniteLists` |
| `*Proofs` | theorems about the module of that name; those about `EnrollmentDesk` and `RecordDesk` are in `DeskProofs`, about `SessionPlan` in `ScheduleSessionsProofs`, about `CatalogDesk`, `SessionDesk` and `CosmosRepository` in `DocumentPagesProofs`, about `CrmInbox` and `AgentLibrary` in `CrmWorkspaceProofs` | it |
| `InfiniteListProofs` | lemmas about pages by offset and about sequences, for the three that need them | `InfiniteLists` |
| `MC*` | symmetry sets and data for TLC | the module of that name |

### CosmosRepository

`doc` is the container's partition; `pc`, `target` and `entity` are what a
request has in memory: where it is, the id in its route, and the entity that
`GetByIdAsync` filled. One action is one call to Cosmos (`Create`, `UpdateRead`,
`UpdateReplace`, `SoftDeleteRead`, `SoftDeleteReplace`), and `readPage` and `todo`
are the feed iterator of `ReindexAllAsync`. The business data of a document is
the set of edits it has received. Requests refused with 404 change nothing and
are not steps; 412 is a step that leaves the document alone. The client's
`If-Match` is the tag of any version up to the one read.

`DocumentLifecycle` says what handlers rely on: an id is absent, then live, then
deleted; a live document only collects edits; a deleted one is final. The
mapping takes every document to its stage and content; the reads, the refused
replaces and the memory of requests are stuttering.

### EnrollmentDesk

One action per `await` with the code up to the next one, named after the handler
and what it awaits: `CreateReadStudent`, `CreateReadSchedule`,
`CreateCheckDuplicate`, `CreateCheckCapacity`, `CreateInsert` are `POST
/enrollments`, and so on for PUT and for the three DELETEs, which share the
actions from `DeleteCheckDependents` on. `offer` is the schedule as the handler
read it, so the capacity compared is as old in the model as in the code.
`Abandon` cuts a request anywhere. Statuses other than active are one value,
since no rule tells them apart. PUT of a schedule changes capacity, list price
and the active flag; the rest of a schedule is `ScheduleSessions`.

An update is only begun while its enrollment is below `MaxEtag` and at most
`MaxChanged` other documents have been changed; both bound the model, not the
system.

`AdmissionNext` is POST and DELETE only. The two rules of `POST /enrollments`
are stated for it, because PUT may activate a pending enrollment or lower a
capacity without any of these checks (see the hazards).

### SessionPlan and ScheduleSessions

`SessionPlan` translates `ScheduleSessionGenerator` and the in-memory edits of
`ScheduleFunction` to operators on one schedule record; dates are day numbers
and weekdays their remainder by 7. What makes `RequiresRegeneration` true, apart
from the start date, is a *plan*: weekdays, number of sessions (what
`ScheduleDurationResolver` and the times come to) and time slot. Completed and
cancelled sessions are one status. `ScheduleSessions` interleaves the handlers.
PUT of a session has an await between the read and the edit, the roster query
of `EnsureAttendanceForActiveEnrollmentsAsync`; the edit uses the roster of that
moment. Versions are abstracted: when a document is replaced, all other entities
in memory become `Stale`, and their replace is the 412.

### AgentThreads

One chat. `threadsByChat[w]` is L1 on worker `w`, `mapping` the L2 document with
its `age` in days, `gate[w]` the semaphore, `foundry` the threads that Foundry
has. A message is delivered to a worker, enters the gate, and then takes the
awaits of `RunTurnAsync` or `ResetThreadAsync`. Calls to the API may fail,
up to `MaxFailures` times; a failed call has no effect. Calls to Foundry may always fail,
which ends the message in an apology, and the delete of a thread may fail
silently. `Recycle` loses a worker's memory, and Telegram delivers what it had
in hand again. `HasChat` says that a worker still has the chat, in L1 or in hand. The variables
from `context` on are history for the properties; no action reads them:
`undeleted` records that the DELETE of a reset failed, `split` that a message
came to a worker while another one still had the chat.

### The web application

Each page is modelled with the server it sees: the server answers one call at a
time, and what happens between a call and its answer is the page's own state.
A call that times out may have been stored. Other browsers and the agent are
writes of the server that no page asked for.

`InfiniteLists` is `hooks/infinite-list.ts`: pages fetched by offset, the next
one asked for while fewer rows are loaded than the last page's total. All lists
of the models use it, with `fresh` or `at` as history to know which ones had
their list changed underneath.

`EnrollmentWizard` has one action per POST of `handleSubmit`, and a submission goes
on after its dialog is dismissed, with the values it closed over; `Close` is
`onSuccess`, which closes whichever wizard is open by then, with what was typed
in it (`enrollment-wizard.tsx:325`). `PaymentDesk` has the page
(`student-payments`) and the block of the enrollment form as two kinds of desk.
A load may fail (`LoadFails`, after the one retry of `query-provider.tsx`); after a
failed first load both forms are enabled over an empty history. A request carries
the ways out of the rules it took (`WaysOf`: the history had changed, was not loaded
yet, or could not be loaded; the price was not known, or the block has no limit),
`slips` collects those of the requests that were stored, and the properties name
exactly these ways. TLC finds a counterexample when any one of them is not excused. `CatalogDesk` has the courses page, the page of the other
catalogs and the overview; `SessionDesk` the session panel, with the copy it
was opened with and the tag that is kept beside it. `CrmInbox` has both boards
over one cache, in which the inbox keeps a list for each status it was asked for and
shows the one it has at once; the threads, the composer and the demo data that
answers when the network does not. Nothing is changed ahead of an answer: the
mutations only refresh what is cached. The composer loses things in two ways, which
the model keeps track of (`since`, `lost`) and `TypedIsSentOnce` names: the answer of
a send empties it, and an answer of the assistant replaces the text, whatever has
come up since (`inbox/page.tsx:213-221`); and the API leaves the files of a message
out (`WhatsAppFunction.cs:145-159`). `FlowEditor` and `AgentLibrary` keep all state
in the browser. A flow is kept as all of its lists, each under the step and the
branch it is in: conditions are added in branches as they are in the list of the
flow, and nest without a bound on the depth. `PutBack` is the chain of `onChange`
callbacks from a list up to the flow, `Under` what a step takes with it when it is
removed. `RecordDesk` is instantiated by the table in `RecordPages`, one record
per page: its filters, form, menu and wizard.

## Runs

Deadlock is checked in the runs of the backend and the agent. The web models stop
when their bounded writes and faults are used up, so their runs do not check it.

| Run | Instance | Shows |
|---|---|---|
| `repository` | 2 ids, 2 edits, 2 requests, tags to 3 | types; `EntityIsSnapshot`; `DeletedStaysDeleted`; `NoLostEdit`; implements `DocumentLifecycle` |
| `reindex_race` | 1 id, 2 workers | violation: the reindex undoes a concurrent write |
| `desk_admission` | 2 students, 1 schedule, 3 enrollments, 2 requests, POST and DELETE | at most as many duplicates as requests, overbooking below that number |
| `desk_updates` | 2 students, 1 schedule, 1 enrollment, 2 requests, prices 0 and 1, all handlers | `NegotiatedPriceKept` under interleaved PUTs |
| `desk_delete_race` | 1 of each, 2 requests | violation: a parent is deleted under an active enrollment |
| `sessions` | plans of 1 and 2 sessions, 2 requests, a student who comes and goes | types; start and end frame the sessions; what was held and what was marked is kept |
| `threads` | 2 workers, 2 messages (turns or resets), 2 threads, one failing call, two recycles, one day | `ResetIsFinal`, `ConversationKept`, and under fairness `EveryMessageIsAnswered` |
| `wizard` | 2 schedules, 2 submissions, 1 fault | the toast tells the outcome; one initial payment; every submission is reported |
| `payments` | one desk of each kind, 3 payments | the loaded history is complete; installments and price only escape in the listed ways, a first load that is running or has failed among them |
| `document_pages` | 1 editor, 3 values, 2 writes; 2 sessions, 2 pupils | values stay unique, edits from current copies change one item, current panels keep marks |
| `crm` | 2 conversations (one made up), 2 texts, 2 flows, 5 steps, conditions nested two deep, 2 agents | own changes shown, threads whole, texts sent once and lost in the named ways only, one default agent, flow edits are local |
| `records` | 3 pages, 1 record at first, 2 writes | rows are the server's, own writes shown, guarded edits keep those of others |

### Bounds and why they are enough

* Tags: a request starts only on a document below `MaxEtag`. One write between a
  request's read and its replace already makes the tag stale, so 2 or 3 versions
  show every outcome of a comparison. The theorems hold for every bound.
* Two requests give every pair of interleaved handlers. The bounds of
  `desk_admission` grow with the number of requests; the theorems cover any.
* `EnrollmentIds` is larger than the capacity by enough to overbook, and than the
  number of students by enough to duplicate.
* `MaxChanged = 2` lets a request's student and schedule both change before its
  update begins.
* `LastDate = 4` with one start date is enough for two sessions and one to
  reschedule to, before and after the other. Plans differ in weekdays and in
  number, so that a regeneration changes both; marks of different students are
  never compared.
* Messages: a turn and a reset, on the same worker or on two; each recycling has
  the messages in hand delivered again, so that two give up to four deliveries,
  such as a turn that comes back after the reset was answered.
* `Limit = 1` (a page of one row) makes every list one of several pages as soon as
  it has two rows, and puts every offset on a boundary.
* The `records` run has the pages of students, expenses and enrollments: the teachers
  page is the students page without a wizard, the page of the payments to teachers
  has the expenses page's behaviour, and the schedules page joins what the three
  have (a form that creates, a menu, guarded edits).
* The web runs have one fault each: a second one repeats the first after the page
  has returned to a state it could be in without.

### Fairness

The safety specifications have none. `FairSpec` of `AgentThreads` assumes weak
fairness of each message's next step, and nothing of the environment: an await
of a handler ends (an HTTP client has a default time limit, and the polling
loop, which has none of its own, relies on Foundry expiring a run), the
semaphore lets in a message while the gate stays open, and Telegram delivers an
update until the webhook has answered. Recycling is not fair and is bounded,
since a host that always recycles answers nothing. `FairSpec` of
`EnrollmentWizard` assumes weak fairness of each submission's chain of calls: the
API client aborts a call after its time limit (`client.ts:78`), so each `await` of
`handleSubmit` ends.

## Divergences

Runs with `expect: violation` show where the code does something else than its
documents and comments say; `PROJECT.json` quotes both sides.

* `reindex_race`: the reindex writes back what it has read, over a PUT or DELETE
  stored meanwhile.
* `desk_delete_race`: the dependents query and the soft delete are separate.

Others met while modelling, to be reproduced by the change named:

* A price of 0 is lost on the next PUT (`EnrollmentFunction.cs:299`): drop
  `doc[e].price > 0` from `NegotiatedPriceKept`, run `desk_updates`.
* The same PUT of a schedule, sent twice, may shift the sessions twice
  (`ScheduleFunction.cs:197`, against the idempotent PUT of
  `docs/04-api-design.md:56`): a session held before the new start pins the start
  after the first shift, and the second computes its shift against that.
* DELETE of schedules and enrollments ignores `If-Match`, which
  `docs/04-api-design.md:436` calls applicable.
* `POST /schedules` stores a start before the first session when it is no class
  day: asking of `NoSessionBeforeStart` that the start *be* the earliest date
  fails in `sessions`.
* Shifting a started course backwards can move its start (a session that was not
  held lands before the held first one), against the name of a test,
  `ScheduleSessionGeneratorTests.cs:188`.
* A reset is not final if the DELETE of the mapping fails (drop `~ undeleted` from
  `ResetIsFinal`), nor when two workers have the chat (drop `~ split`), whose L1
  caches are not told; and a failing GET of the mapping starts a new thread (drop
  `failures = 0` from `ConversationKept`).
* Only a miss in L1 writes the mapping (`FoundryAgentRouter.cs:327`, against the
  comment in line 322), so a chat that talks every day to a long-lived worker
  loses it: drop `days < Ttl` from `ConversationKept`.
* A PUT of a catalog made from an old copy takes away items others have added
  (`catalog-crud-page.tsx:92`, against `docs/04-api-design.md:113`): drop
  `c.at \in {None, etag}` from `CurrentCopiesEditOneItem`.
* A session panel older than the tag sent with it undoes the marks of another
  operator (`schedule-detail-view.tsx:174`): ask of `SessionDesk` that `undone`
  be empty.
* A dismissed submission that succeeds closes the wizard that was opened since
  (`enrollment-wizard.tsx:325`).

## Proofs

Every theorem holds for all values of the constants that the named assumptions
allow; the bounds of the runs are constants, too. The assumptions say that
placeholders (`None`, `NoDoc`, `NoPrice`, `NoSchedule`, `Stale`) are no values of
the kind they stand beside, that ids of different kinds are disjoint, that
bounds and dates are numbers, that a catalog starts with distinct items (at
least one), and that the flow editor starts with flows (at least one) whose steps
are numbered, none of them in two places, with two branches for every condition and
the condition numbered before the steps in them; the runs evaluate all of them. Each invariant below was checked by
TLC on a small instance before it was proved.

**`DeskProofs`**, for `EnrollmentDesk`: `TypeCorrect` and `PriceIsKept` for all handlers;
`DuplicatesAreBounded` and `OverbookingIsBounded` for `AdmissionSpec`, any number
of requests, students, places and enrollments. The two bounds only count active
enrollments, which says nothing of the requests that have passed a check and are
about to insert. `AdmissionInv` charges for them: `DuplicatesCounted` bounds the
active enrollments of a pair *plus* the requests past the duplicate query for
it, and `PlacesCounted` those of a schedule plus the requests past the capacity
query; an insert moves one from the second summand to the first.
`CapacityIsCurrent` says that the capacity a request has read is still the
schedule's, since nothing in `AdmissionSpec` changes one. `PriceInv` is the
snapshot argument through the mapping of a PUT: while the tag a handler has read
is current, the entity in its memory has the stored price, unless its body names
one; a price of 0, which the mapping overwrites, is the exception that the
property names, too.

For `RecordDesk`: `RecordsTypeCorrect`, `RowsAreRight`, `OwnWritesAreShown` and
`GuardedEditsKeep`, for any of the pages, records, page size, writes and events. A
list is complete when its load has landed, and the invariant has to say what it will
be while it is under way: `RecordsIInv` follows each list in three parts. `ContentIs`
is about what the list shows, what a load has collected and the answer that is
travelling: none was read at a write the server has not made, and as far as they were
read at its *last* write they show a prefix of what it lists now, and the answer
continues what was collected. Nothing is claimed of anything older, so a write only has
to outdate it (`ListLater`), and what `keepFirstInfinitePage` leaves is a prefix
again (`FirstKept`). `OwnIs` says which page a list will begin with: one read after
the last success this browser knows of, unless it is stale or has slipped; that an
invalidation restarts a list or marks it is what keeps it true (`ListInvalidated`).
`Settled` says that the list on the screen is not left stale without a load: only so
may "Cargar más", which loads on from what is shown, keep `OwnIs` (`ListGoesOn`).
`ServerInv` has the records themselves, that ids are listed once and new ones are
not given yet; `CallsInv`, that the body of an update was made from the copy whose
etag it sends, so that a guarded PUT that is not refused meets what that copy had.

**`ScheduleSessionsProofs`** is first about the algorithms, for any plan, date and
roster. `GeneratorFindsEverySession`: the walk over seven days per session meets
the n-th class day for every n, so the generator never runs out of its loop; the
induction is over a set of numbers (a smallest counterexample), the form in
which the library's facts can be used. `CreatedIsSound`, `ScheduleUpdatedIsSound`,
`SessionUpdatedIsSound` and `SessionDeletedIsSound` say of each edit that start
and end frame the sessions it leaves and that held sessions and recorded marks
survive it, each with exactly the exceptions of its endpoint.

`TypeCorrect`, `PlanSpans`, `HeldSessionsAreKept` and `MarksAreKept` carry these
facts over all interleavings. The invariant `Inv` adds what every request has in
memory: an entity that is not `Stale` is what the edit makes of the schedule that
is *still* stored, with the roster of its own await. Only that lets a replace be
read as one edit of the stored schedule.

**`AgentThreadsProofs`**: `TypeCorrect` for any number of workers;
`ResetIsFinalHolds` and `ConversationIsKept` for any number of workers, messages,
threads, recyclings, failures and days. `TypeInv` ties every message in progress to
the gate of its worker. `AloneInv`: until `split` is recorded, at most one worker
has the chat, so that one message is in progress at a time and no other L1 names a
thread. `FinalInv`: until a DELETE of the mapping has failed (other calls may fail) or
the chat was split, no tier and no message in progress knows a thread that was
forgotten, and a reset past its first await has cleared the tier it has passed.
`KeptInv`: within the time to live, while no call has failed and the chat was not
split, the tiers agree with each other and with the thread of the conversation, and
a message in progress agrees with the tiers as far as it has got.

**`EnrollmentWizardProofs`**: `TypeCorrect`, `ToastsTell`, `PaidOnce`, for any
number of submissions that run side by side. That no enrollment is paid twice is
not inductive, since it does not say who may pay next. `ClaimsInv` gives each
submission its claims, the enrollments it has made and may still pay for: a claim
is enrolled, unpaid, and nobody else's. A POST that the server refuses as a
duplicate makes no claim, which is why submitting again after a lost answer
does not pay again. `RequestInv` and `OutcomeInv` relate the place of a
submission in its chain of calls to what it has on the server.

**`DocumentPagesProofs`**, for the catalog pages: `TypeCorrect`, `UniqueValues`,
`OwnWritesAreShown` and
`CurrentCopiesEdit`. Each copy of the catalog carries the tag it was read under.
`CopyOf` says that it has distinct values and no tag ahead of the server's, and
that under the server's own tag it is the server's list; `CallInv`, that a PUT has
distinct values, whatever its age, and under the current tag is the server's list
with one item changed. `ValuesAreUnique` needs the former: the server stores
outdated lists as they come. `OwnInv` follows a reload from the moment it has read
the server to when it lands.

For the session page it has one hypothesis, that the bound on writes is a number.
Undone marks are history, so the invariant `SessionIInv` says why none can come: a
list, a panel and a PUT on its way that carry the server's own tag agree with what
it has (`ListIsTrue`, `CopyIsTrue`, `UpdateIsTrue`), and any write of the server
makes all of them older (`WriteAgesCopies`).

`PagesTypeCorrect`, `CatalogPagesAreSafe` and `CurrentPanelsAreSafe` carry both pages
to the specification of the run, which has them side by side: a behaviour of
`DocumentPages` is one of either page for that page's variables.

`DocumentPagesProofs` also holds the theorems about `CosmosRepository`, for
`RepositorySpec` (every handler, without the reindex): `RepositoryTypeCorrect`,
`SnapshotHolds`, `DeletedDocumentsStayDeleted`, `NoEditIsLost` and `Refinement`. The action properties and the refinement are not inductive by
themselves: a replace is harmless only because an entity whose tag is current
*is* the stored document. That is `EntityIsSnapshot`, the inductive invariant
together with the types; it holds because tags of a document only grow, and
because an If-Match sent by a client is never newer than what the handler read.

**`PaymentDeskProofs`**: `TypeCorrect`, `HistoryIsComplete`, `UniqueInstallments` and
`PriceIsRespected`, for any number of browsers, amounts, page size, payments and
failures. That the loaded history is complete is not inductive: it says nothing of
pages on the way. `PagesInv` does, of the pages on the screen and of those a refetch
has collected: as long as none is outdated, they show a prefix of the server's list,
and a last page that is not full ends it. `NothingLeftToLoad` then gives the whole
list. `RulesInv` has the rules themselves, and `CallInv` what a request in flight
needs to keep them: one checked against a loaded history that is still the server's
has an installment nobody else has, and if it took no other way out either, an
amount that fits (`RegisterFits`); any other change of the server makes it stale. `IdsInv` (ids
are given once) says that an edit replaces the payment it was checked for. The sum
of the payments is a recursive function; the lemmas on it (`AmountOfMore`,
`AmountOfOther`, `AmountOfLess`) show first that the function exists, by induction
over the set of the lengths for which one does, with `UpTo` in the place of the
library's induction rules.

**`InfiniteListProofs`** has what every list by offset needs. `FlattenStep` and
`FlattenOfMore` unfold the flattened pages in the same way. `PrefixOfMore`: pages
that show a prefix of a list, with one more read from the offset they give, show a
longer one. `MoreToLoad`: they offer another page exactly when the list has more.
`RemovedOne` and `ThenProperties` say what is left of a list without one element and
what is in two joined.

**`CrmWorkspaceProofs`**, for the specification of the whole CRM: `TypedOnce`,
`ListsShowOwnChanges`, `WholeThreads`, `OneDefault`, `LocalFlowEdits` and
`WorkspaceTypeCorrect`, for any conversations, lead states, texts, agents, flows,
events and failures. `ComposerInv` says what `TypedIsSentOnce` does not, who may still store a
text: it is on its way at most once; while the composer has it, too, its send
belongs to the page that is open, whose button then is disabled; and unless a
failure was reported after storing it, a text in the composer or on its way is not
stored yet. `LossInv` is the other half of the property: while an answer is awaited,
the composer has only what was there when it was asked for or what has come up since
(`AwaitedInv`), so that what the answer takes away is handed over or counted as lost.
`ListsInv` follows a list from its request to the screen: an answer that
is not marked late, on its way or shown, is not older than this browser's last
change, or the list is stale, because the answer that made the change refreshed
every list in the same step.

`WholeThreads` cannot use `PrefixOfMore`, since the thread of the server grows at
the end the offset counts from: what was loaded is a prefix of nothing the server
still lists. `ThreadsInv` has a weaker fact that arrivals leave true (`Steady`): the
numbers of the messages shown fall by one at most, repeating some, and with a page
that is not full they have come down to 1 (`FallingToOne`: then none is left out).
Beside it, pages that are neither stale nor marked late start with a number not
below that of this browser's last send (`Holds`), on the screen as well as on the way.
`RosterInv` of the agents says which place has the default and that the selection
is an agent: deleting the default hands it to the first one left, and a page that
has one agent cannot delete it.

`LocalFlowEdits` is about conditions nested to any depth. The model has no tree to
recurse over: a flow is a function from places to lists, and what removing a step takes
along (`Under`) is the least set of steps that holds it and is closed under the lists
of its members. The proof uses that it is the least and that a condition is numbered
before the steps in its branches: the list a step is removed from is therefore not
among those that go (`LessGood`), and what is left has its owners. `Good` is the
invariant of a flow, in a form without nested records: its lists (`Listed`), the
places of them, which are the branches of the conditions listed (`Placed`), the
numbers (`Numbered`), and no step in two places (`StepsApart`), without which moving
one would move another. `SameGood`, `MoreGood` and `LessGood` say that the three kinds
of edits keep it, and `MoveEdits`, `TypingEdits`, `AddingEdits` and `RemovalEdits`
that each of them edits one list and leaves the others where they are. `FlowsInv`
says the same of all flows, with their numbers bounded by how many were made, so that
a new step or flow is in none of them yet; `EditsKeepTheRest` is what is left to say
of a step of the page.

`WorkspaceTypeCorrect` joins all of these (`FlowsInv`, `RosterInv`, `LibraryInv` and
`InboxInv`, which is the three invariants of the inbox with the types of the stores,
the snapshots, the loads and the messages). Two of its conjuncts are more than types:
a thread is loaded for the first time just when it has no pages (`LoadTypes`: a
refetch keeps the pages it replaces), and no asset, agent or flow is listed twice.

Model-checked only:

* Liveness, `EveryMessageIsAnswered` and `SubmissionsAreReported`: fairness and
  ENABLED are beyond the prover.
* `ReindexPreservesDocuments` and `DependentsBlockDeletion` are false of the code.

## Abstractions

* A Cosmos query is one consistent step. Continuation pages of small queries and
  reads that lag behind writes are not modelled; the reindex is paged.
* Courses, levels and their durations do not change while a schedule lives.
* A call whose caller died has either happened or not; it does not arrive later.
* One chat at a time: chats share nothing but Foundry's agent id.
* Status codes, audit fields, names, notes and the wording of replies are left
  out. A request that ends in 500 is one that changes nothing.
* The server of the web models is sequential; how two of its requests overlap is
  the subject of the backend models.
* Rendering, pickers, dashboards, sums and exports only read and are left out, as
  is whatever is typed beyond the fields a property tells apart.

## Not modelled

* Short codes: random, with a bounded number of tries; a matter of probability.
* The unique document key of deleted people: a rule of the container in `infra`.
* The tools of the agent: they call the same API as everyone else, without
  `If-Match` (documented as last write wins). Foundry's rule about runs that are
  left open is not in `src/`. Telegram's redelivery after a time-out is left out.
* The webhook of WhatsApp: `CrmInbox` has messages that arrive.
* Middleware, provisioning, speech, seed data and infrastructure keep no state of
  the program.
