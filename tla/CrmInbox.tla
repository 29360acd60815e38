-------------------------------- MODULE CrmInbox --------------------------------
(***************************************************************************)
(* The inbox (crm/inbox/page.tsx) and the pipeline (crm/explorer/page.tsx) *)
(* of the CRM in one browser, over the WhatsApp API (lib/api/whatsapp.ts,  *)
(* hooks/use-whatsapp.ts) with NEXT_PUBLIC_WA_MOCK off.  Both pages keep a *)
(* list of conversations; the inbox keeps the thread of every conversation *)
(* it has opened.  A request that gets no answer is answered by the        *)
(* browser itself ("mock"), with conversations of its own.                 *)
(*                                                                         *)
(* A conversation is its lead state and its messages, which are numbered;  *)
(* texts and files are numbered as they come up in the composer.  Search   *)
(* and status are parameters of the list, and the query client keeps a     *)
(* list for each choice of them; here there is a choice of two, and what   *)
(* the chosen one leaves out is up to the filter of the lead states.       *)
(***************************************************************************)
EXTENDS CrmPages, InfiniteLists, FiniteSets

CONSTANTS
    Conversations,  \* of the API
    Demo,           \* MOCK_CONVERSATIONS
    Leads,          \* lead states: columns of the pipeline, a filter of the inbox
    FirstLead,      \* the lead state every conversation starts with
    Limit,          \* messages per request (25)
    InitialCount,   \* messages a conversation starts with
    MaxEvents,      \* bound: what the user asks for, sends, patches and filters, what
                    \* others change, and moves between the boards, together
    MaxTyped,       \* bound: texts and files that come up in the composer
    MaxTrouble      \* bound: requests that fail or are answered by the browser

ASSUME InboxAssumption ==
    /\ Conversations \cap Demo = {} /\ None \notin Conversations \cup Demo \cup Leads
    /\ None \notin 1 .. MaxTyped /\ None \notin {"first", "refetch", "older"}
    /\ FirstLead \in Leads /\ Limit \in Nat \ {0} /\ InitialCount \in Nat
    /\ MaxEvents \in Nat /\ MaxTyped \in Nat /\ MaxTrouble \in Nat

Sources == {"live", "mock"}
All == Conversations \cup Demo

VARIABLES
    store,          \* what the API keeps, and the browser in its place
    list,           \* the lists of the boards: [shown, stale, asked, got]
    thread,         \* of a conversation: [pages, stale, load, got, late]; late is history:
                    \* what is shown, or coming, misses a message of this browser
    selectedId,     \* ?c=
    leadFilter,
    filtered,       \* the inbox asks for one status only
    cards,          \* cards of the selected conversation with edits (student, autopilot)
    composer,       \* [draft, attachments]
    pending,        \* sends and patches in flight
    asking,         \* the assistant's answers that are awaited
    typed,          \* how many texts and files have come up
    posted,         \* for each text, how many messages of the API hold it
    gone,           \* history: texts and files that were handed over, to the API or the
                    \* browser in its place, or given up by the user
    lost,           \* history: those an answer took away that had come up since it was
                    \* asked for, and files the API left out
    since,          \* history: what came up since an answer that is awaited was asked for
    offered,        \* history: what was there when the assistant was asked
    halfway,        \* history: those of sends that failed after storing the message
    own,            \* history: what the lists and threads owe to this browser's changes
    events, troubles

boards == <<list, thread>>
view == <<selectedId, leadFilter, filtered>>
writing == <<composer, asking, typed>>
history == <<posted, gone, lost, since, offered, halfway, own>>
inbox == <<store, boards, view, cards, writing, pending, history, events, troubles>>

ListKeys == Boards \cup {"filtered"}
Typed == 1 .. MaxTyped
Known(src) == IF src = "live" THEN Conversations ELSE Demo

\* What a list shows; late is history: this browser has changed the store since it
\* was read, and it arrived all the same.
Snapshot(src) ==
    [lead |-> store[src].lead, rev |-> store[src].rev, from |-> src, late |-> FALSE]

InboxTypeOK ==
    /\ \A s \in Sources :
         /\ store[s].lead \in [Known(s) -> Leads]
         /\ store[s].count \in [All -> Nat] /\ store[s].rev \in Nat
    /\ \A b \in ListKeys :
         /\ list[b].stale \in BOOLEAN
         /\ list[b].shown # None => list[b].shown.lead \in [Known(list[b].shown.from) -> Leads]
    /\ \A c \in All :
         /\ thread[c].load \in {None, "first", "refetch", "older"}
         /\ (thread[c].load = "first") <=> (thread[c].load # None /\ thread[c].pages = <<>>)
         /\ thread[c].load \in {None, "older"} => thread[c].got = <<>>
    /\ selectedId \in All \cup {None} /\ leadFilter \subseteq Leads /\ filtered \in BOOLEAN
    /\ cards \subseteq {"student", "objective"}
    /\ composer.draft \in Typed \cup {None} /\ composer.attachments \subseteq Typed
    /\ asking \subseteq {"suggest", "improve"}
    /\ typed \in 0 .. MaxTyped
    /\ \A S \in {gone, lost, since, offered, halfway} : S \subseteq Typed
    /\ posted \in [Typed -> Nat]
    /\ events \in 0 .. MaxEvents /\ troubles \in 0 .. MaxTrouble

InboxInit ==
    /\ store = [s \in Sources |->
         [lead |-> [c \in Known(s) |-> FirstLead],
          count |-> [c \in All |-> IF c \in Known(s) THEN InitialCount ELSE 0], rev |-> 0]]
    /\ list = [b \in ListKeys |-> [shown |-> None, stale |-> FALSE, asked |-> FALSE, got |-> None]]
    /\ thread = [c \in All |->
         [pages |-> <<>>, stale |-> FALSE, load |-> None, got |-> <<>>, late |-> {}]]
    /\ selectedId = None /\ leadFilter = {} /\ filtered = FALSE /\ cards = {}
    /\ composer = [draft |-> None, attachments |-> {}]
    /\ pending = {} /\ asking = {} /\ typed = 0
    /\ posted = [t \in Typed |-> 0] /\ gone = {} /\ lost = {} /\ halfway = {}
    /\ since = {} /\ offered = {}
    /\ own = [rev |-> 0, last |-> [c \in All |-> 0]]
    /\ events = 0 /\ troubles = 0

\* The list that the open page shows: useConversations by its query key.
openList == IF page = "inbox" /\ filtered THEN "filtered" ELSE page

\* conversations: what the filters leave of the list.
Visible ==
    LET shown == list[IF filtered THEN "filtered" ELSE "inbox"].shown
    IN IF shown = None THEN {}
       ELSE {c \in DOMAIN shown.lead : leadFilter = {} \/ shown.lead[c] \in leadFilter}

activeId == IF page = "inbox" /\ selectedId \in Visible THEN selectedId ELSE None

Trouble == troubles < MaxTrouble /\ troubles' = troubles + 1
Event == events < MaxEvents /\ events' = events + 1

-----------------------------------------------------------------------------
(* Lists                                                                    *)

\* A list is loaded when it is first shown, and again when it is stale: after a
\* minute it is, and loaded as soon as it is shown or the window gets the focus.
useConversations(b) ==
    /\ openList = b /\ ~list[b].asked
    /\ IF list[b].shown = None \/ list[b].stale THEN UNCHANGED events ELSE Event
    /\ list' = [list EXCEPT ![b].asked = TRUE]
    /\ UNCHANGED <<store, thread, view, writing, pending, history, troubles>>

\* The API reads; or the request is lost and the browser answers; or it fails.
getConversations(b) ==
    /\ list[b].asked /\ list[b].got = None
    /\ \/ list' = [list EXCEPT ![b].got = Snapshot("live")] /\ UNCHANGED troubles
       \/ list' = [list EXCEPT ![b].got = Snapshot("mock")] /\ Trouble
       \/ list' = [list EXCEPT ![b].asked = FALSE] /\ Trouble
    /\ UNCHANGED <<store, thread, view, writing, pending, history, events>>

ListArrives(b) ==
    /\ list[b].got # None
    /\ list' = [list EXCEPT ![b] =
         [shown |-> @.got, stale |-> FALSE, asked |-> FALSE, got |-> None]]
    /\ UNCHANGED <<store, thread, view, writing, pending, history, events, troubles>>

\* Another status: the list of that one is shown, as it was left if there is one.
setStatusFilter ==
    /\ page = "inbox" /\ Event /\ filtered' = ~filtered
    /\ UNCHANGED <<store, boards, selectedId, leadFilter, writing, pending, history, troubles>>

\* Mutant of Refreshed: a fetch that is under way is good enough.
Joined(l, active) == [l EXCEPT !.stale = TRUE, !.asked = @ \/ active]

\* invalidateQueries: the list that is shown is fetched anew, and a fetch under way
\* is cancelled; but a first load goes on, and so do those of the other lists.
Refreshed(l, active) ==
    IF active /\ l.shown # None
    THEN [shown |-> l.shown, stale |-> TRUE, asked |-> TRUE, got |-> None]
    ELSE [shown |-> l.shown, stale |-> TRUE, asked |-> l.asked,
          got |-> IF l.got = None THEN None ELSE [l.got EXCEPT !.late = TRUE]]

invalidateConversations == [b \in ListKeys |-> Refreshed(list[b], openList = b)]

-----------------------------------------------------------------------------
(* Threads                                                                  *)

Messages(src, c) ==
    [i \in 1 .. store[src].count[c] |-> store[src].count[c] + 1 - i]

\* The newest messages come first.
PageFrom(src, c, offset) ==
    [items |-> PageOf(Messages(src, c), offset, Limit).items,
     total |-> store[src].count[c], from |-> src]

\* The conversation that is open is loaded, and again when it is stale; that goes
\* on in the background when another one is opened.
useInfiniteMessages(c) ==
    /\ c = activeId /\ thread[c].load = None
    /\ IF thread[c].pages = <<>> \/ thread[c].stale THEN UNCHANGED events ELSE Event
    /\ thread' = [thread EXCEPT ![c].load = IF thread[c].pages = <<>> THEN "first" ELSE "refetch"]
    /\ UNCHANGED <<store, list, view, writing, pending, history, troubles>>

\* "Cargar mensajes anteriores": fetchNextPage cancels a refetch in flight.
fetchNextPage ==
    /\ activeId # None
    /\ LET t == thread[activeId] IN
       /\ hasNextPage(t.pages, Limit) /\ t.load # "older"
       /\ thread' = [thread EXCEPT ![activeId].load = "older", ![activeId].got = <<>>,
                                   ![activeId].late = IF t.stale THEN {"shown"} ELSE t.late]
    /\ UNCHANGED <<store, list, view, writing, pending, history, events, troubles>>

Landed(t) == IF "coming" \in t.late THEN {"shown"} ELSE {}

\* A page is read, from the API or in its place.  The first load is read and
\* arrives in two steps; a refetch arrives with its last page.
PageRead(c, src) ==
    LET t == thread[c]
        before == IF t.load = "older" THEN t.pages ELSE t.got
        after == Append(before, PageFrom(src, c, loadedCount(before)))
    IN thread' = [thread EXCEPT ![c] =
         IF t.load = "first" \/ (t.load = "refetch" /\ RefetchGoesOn(t.pages, after, Limit))
         THEN [t EXCEPT !.got = after]
         ELSE [pages |-> after, stale |-> FALSE, load |-> None, got |-> <<>>,
               late |-> IF t.load = "older" THEN t.late ELSE Landed(t)]]

\* The API does not know the conversations of the browser.
getMessages(c) ==
    /\ thread[c].load # None /\ ~(thread[c].load = "first" /\ thread[c].got # <<>>)
    /\ \/ c \in Conversations /\ PageRead(c, "live") /\ UNCHANGED troubles
       \/ PageRead(c, "mock") /\ Trouble
       \/ /\ thread' = [thread EXCEPT ![c].load = None, ![c].got = <<>>, ![c].late = @ \ {"coming"}]
          /\ IF c \in Demo THEN UNCHANGED troubles ELSE Trouble
    /\ UNCHANGED <<store, list, view, writing, pending, history, events>>

FirstPageArrives(c) ==
    /\ thread[c].load = "first" /\ thread[c].got # <<>>
    /\ thread' = [thread EXCEPT ![c].pages = thread[c].got, ![c].stale = FALSE,
                                ![c].load = None, ![c].got = <<>>, ![c].late = Landed(thread[c])]
    /\ UNCHANGED <<store, list, view, writing, pending, history, events, troubles>>

invalidateMessages == [c \in All |->
    LET t == thread[c] IN
    IF c = activeId /\ t.pages # <<>>
    THEN [t EXCEPT !.stale = TRUE, !.got = <<>>, !.load = "refetch"]
    ELSE [t EXCEPT !.stale = TRUE,
            !.late = @ \cup IF t.load = "older" THEN {"shown"}
                             ELSE IF t.got # <<>> THEN {"coming"} ELSE {}]]

-----------------------------------------------------------------------------
(* Sends and patches                                                        *)

Send(c, m, here) ==
    [kind |-> "send", conv |-> c, draft |-> m.draft, attachments |-> m.attachments,
     lead |-> None, here |-> here]
Patch(c, lead) ==
    [kind |-> "patch", conv |-> c, draft |-> None, attachments |-> {},
     lead |-> lead, here |-> TRUE]

\* sendMutation.isPending: a send of a page that was left is another mutation.
isPending == \E m \in pending : m.kind = "send" /\ m.here

\* History: something comes up while an answer is awaited, or not.
Awaited(sent, asked) == asked # {} \/ \E m \in sent : m.kind = "send" /\ m.here
ComesUp == since' = IF Awaited(pending, asking) THEN since \cup {typed + 1} ELSE since

\* Mutant of handleSend: the composer is emptied without waiting for the answer.
HandleSendClears ==
    /\ activeId # None /\ (composer.draft # None \/ composer.attachments # {})
    /\ ~isPending /\ Event
    /\ pending' = pending \cup {Send(activeId, composer, TRUE)}
    /\ composer' = [draft |-> None, attachments |-> {}]
    /\ UNCHANGED <<store, boards, view, asking, typed, history, troubles>>

handleSend ==
    /\ activeId # None /\ (composer.draft # None \/ composer.attachments # {})
    /\ ~isPending /\ Event
    /\ pending' = pending \cup {Send(activeId, composer, TRUE)}
    /\ UNCHANGED <<store, boards, view, writing, history, troubles>>

patch ==
    /\ activeId # None /\ Event
    /\ \E lead \in Leads : pending' = pending \cup {Patch(activeId, lead)}
    /\ UNCHANGED <<store, boards, view, writing, history, troubles>>

\* A card is dropped on another column than the one it is listed in.
moveTo ==
    /\ page = "explorer" /\ list["explorer"].shown # None /\ Event
    /\ \E c \in DOMAIN list["explorer"].shown.lead, lead \in Leads :
         /\ list["explorer"].shown.lead[c] # lead
         /\ pending' = pending \cup {Patch(c, lead)}
    /\ UNCHANGED <<store, boards, view, writing, history, troubles>>

\* PUT and POST as the API has them, and as the browser has them in its place:
\* it forgets a patch of a conversation it does not know.
Applied(m, src, at) ==
    IF m.kind = "send"
    THEN [lead |-> at.lead, count |-> [at.count EXCEPT ![m.conv] = @ + 1], rev |-> at.rev + 1]
    ELSE IF m.conv \in Known(src)
    THEN [lead |-> [at.lead EXCEPT ![m.conv] = m.lead], count |-> at.count, rev |-> at.rev + 1]
    ELSE at

Stored(m, where) == store' = [s \in Sources |->
    IF s \in where THEN Applied(m, s, store[s]) ELSE store[s]]

Tokens(m) == ({m.draft} \cup m.attachments) \ {None}

\* The API takes the text and leaves the files out.
Posted(m, where) == posted' = [t \in Typed |->
    IF "live" \in where /\ t = m.draft THEN posted[t] + 1 ELSE posted[t]]

\* 404, or 400 for a message without text.
Refused(m) == m.conv \in Demo \/ (m.kind = "send" /\ m.draft = None)

\* After a send the composer is emptied, of what was typed meanwhile too.
Cleared(m) == [draft |-> None, attachments |-> {}]

Owed(m, where) == own' =
    IF "live" \notin where THEN own
    ELSE [rev |-> store'["live"].rev,
          last |-> IF m.kind = "send"
                   THEN [own.last EXCEPT ![m.conv] = store'["live"].count[m.conv]] ELSE own.last]

\* What a send hands over: the API leaves the files out, the browser keeps them.
HandedOver(m, where) ==
    IF "mock" \in where THEN Tokens(m) ELSE {m.draft} \ {None}

\* onSuccess of useSendMessage and useUpdateConversation, then handleSend's own.
Succeeds(m, where) ==
    /\ Stored(m, where) /\ Posted(m, where) /\ Owed(m, where)
    /\ list' = invalidateConversations
    /\ thread' = IF m.kind = "send" THEN invalidateMessages ELSE thread
    /\ IF m.kind = "send" /\ m.here
       THEN /\ composer' = Cleared(m)
            /\ gone' = gone \cup HandedOver(m, where)
            /\ lost' = lost \cup (Tokens(m) \ HandedOver(m, where))
                            \cup (Tokens(composer) \cap since)
       ELSE UNCHANGED <<composer, gone, lost>>
    /\ UNCHANGED halfway

\* A request is answered; or its answer, or itself, is lost and the browser
\* answers; or it is refused; or it fails, a send perhaps after storing its message.
Answered ==
    /\ \E m \in pending :
         /\ pending' = pending \ {m}
         /\ \/ ~Refused(m) /\ Succeeds(m, {"live"}) /\ UNCHANGED troubles
            \/ ~Refused(m) /\ Succeeds(m, {"live", "mock"}) /\ Trouble
            \/ Succeeds(m, {"mock"}) /\ Trouble
            \/ /\ IF Refused(m) THEN UNCHANGED troubles ELSE Trouble
               /\ UNCHANGED <<store, boards, composer, posted, gone, lost, halfway, own>>
            \/ /\ m.kind = "send" /\ ~Refused(m) /\ Trouble
               /\ Stored(m, {"live"}) /\ Posted(m, {"live"}) /\ halfway' = halfway \cup Tokens(m)
               /\ UNCHANGED <<boards, composer, gone, lost, own>>
    /\ since' = IF Awaited(pending', asking) THEN since ELSE {}
    /\ UNCHANGED <<view, asking, typed, offered, events>>

\* Other browsers send messages and move leads.
Elsewhere ==
    /\ Event
    /\ \E c \in Conversations :
         \/ Stored(Send(c, composer, FALSE), {"live"})
         \/ \E lead \in Leads : lead # store["live"].lead[c] /\ Stored(Patch(c, lead), {"live"})
    /\ UNCHANGED <<boards, view, writing, pending, history, troubles>>

-----------------------------------------------------------------------------
(* The composer and the assistant                                           *)

Fresh == typed < MaxTyped /\ typed' = typed + 1

setDraft(text) == composer' = [composer EXCEPT !.draft = text]

\* Typing, erasing, and the quick replies, which replace what is there.
Compose ==
    /\ activeId # None
    /\ \/ Fresh /\ setDraft(typed + 1) /\ ComesUp
       \/ composer.draft # None /\ setDraft(None) /\ UNCHANGED <<typed, since>>
    /\ gone' = gone \cup ({composer.draft} \ {None})
    /\ UNCHANGED <<store, boards, view, asking, pending, posted, lost, offered, halfway, own,
                   events, troubles>>

onPickFiles ==
    /\ activeId # None /\ Fresh
    /\ composer' = [composer EXCEPT !.attachments = @ \cup {typed + 1}]
    /\ ComesUp
    /\ UNCHANGED <<store, boards, view, asking, pending, posted, gone, lost, offered, halfway,
                   own, events, troubles>>

removeAttachment ==
    /\ activeId # None
    /\ \E file \in composer.attachments :
         /\ composer' = [composer EXCEPT !.attachments = @ \ {file}]
         /\ gone' = gone \cup {file}
    /\ UNCHANGED <<store, boards, view, asking, typed, pending, posted, lost, since, offered,
                   halfway, own, events, troubles>>

\* handleSuggest and handleImprove.
Ask ==
    /\ activeId # None /\ Event
    /\ \E kind \in {"suggest", "improve"} \ asking :
         /\ kind = "improve" => composer.draft # None
         /\ asking' = asking \cup {kind}
    /\ offered' = offered \cup ({composer.draft} \ {None})
    /\ UNCHANGED <<store, boards, view, composer, typed, pending, posted, gone, lost, since,
                   halfway, own, troubles>>

\* The answer replaces what is in the composer by then, whatever it is.
Suggested ==
    /\ \E kind \in asking : asking' = asking \ {kind}
    /\ \/ /\ Fresh /\ setDraft(typed + 1) /\ UNCHANGED troubles
          /\ gone' = gone \cup ({composer.draft} \cap offered)
          /\ lost' = lost \cup ({composer.draft} \cap since)
          /\ since' = IF Awaited(pending, asking') THEN since \cup {typed + 1} ELSE {}
       \/ /\ Trouble /\ UNCHANGED <<composer, typed, gone, lost>>
          /\ since' = IF Awaited(pending, asking') THEN since ELSE {}
    /\ offered' = IF asking' = {} THEN {} ELSE offered
    /\ UNCHANGED <<store, boards, view, pending, posted, halfway, own, events>>

-----------------------------------------------------------------------------
(* Navigation                                                               *)

selectConversation ==
    /\ page = "inbox" /\ \E c \in Visible : c # selectedId /\ selectedId' = c
    /\ UNCHANGED <<store, boards, leadFilter, filtered, writing, pending, history, events, troubles>>

\* The way back to the list, on a small screen.
clearSelection ==
    /\ activeId # None /\ selectedId' = None
    /\ UNCHANGED <<store, boards, leadFilter, filtered, writing, pending, history, events, troubles>>

toggleFrom ==
    /\ page = "inbox" /\ Event
    /\ \E lead \in Leads :
         leadFilter' = IF lead \in leadFilter THEN leadFilter \ {lead} ELSE leadFilter \cup {lead}
    /\ UNCHANGED <<store, boards, selectedId, filtered, writing, pending, history, troubles>>

clearFilters ==
    /\ page = "inbox" /\ (leadFilter # {} \/ filtered)
    /\ leadFilter' = {} /\ filtered' = FALSE
    /\ UNCHANGED <<store, boards, selectedId, writing, pending, history, events, troubles>>

\* The page that is left forgets its view and its composer; requests go on.
InboxUnmounted(c) ==
    /\ selectedId' = c /\ leadFilter' = {} /\ filtered' = FALSE
    /\ composer' = [draft |-> None, attachments |-> {}] /\ asking' = {}
    /\ gone' = gone \cup Tokens(composer) /\ since' = {} /\ offered' = {}
    /\ pending' = {[m EXCEPT !.here = FALSE] : m \in pending}
    /\ UNCHANGED <<store, boards, typed, posted, lost, halfway, own, troubles>>

\* The cards are of one conversation: they start afresh with another one.
EditCard ==
    /\ activeId # None /\ Event
    /\ \E card \in {"student", "objective"} \ cards : cards' = cards \cup {card}
    /\ UNCHANGED <<store, boards, view, writing, pending, history, troubles>>

CardsFollow == cards' = IF activeId' = activeId THEN cards ELSE {}

Loading ==
    \/ \E b \in ListKeys : useConversations(b) \/ getConversations(b) \/ ListArrives(b)
    \/ \E c \in All : useInfiniteMessages(c) \/ getMessages(c) \/ FirstPageArrives(c)
    \/ fetchNextPage

Chatting ==
    \/ handleSend \/ patch \/ moveTo \/ Answered \/ Elsewhere
    \/ Compose \/ onPickFiles \/ removeAttachment \/ Ask \/ Suggested
    \/ selectConversation \/ clearSelection \/ setStatusFilter \/ toggleFrom \/ clearFilters

InboxNext == ((Loading \/ Chatting) /\ CardsFollow) \/ EditCard

-----------------------------------------------------------------------------
(* Properties                                                               *)

\* A list that is up to date for the browser shows every change this browser got
\* an answer for (invalidateQueries of the two mutations), unless it was being
\* loaded for the first time or while another list was open: then an old answer
\* arrives and stays.
OwnChangesShown ==
    \A b \in ListKeys :
        /\ ~list[b].asked /\ ~list[b].stale /\ list[b].shown # None
        => list[b].shown.from = "mock" \/ list[b].shown.late \/ list[b].shown.rev >= own.rev

Numbers(c) == ToSet(flattenInfiniteItems(thread[c].pages))
FromApi(c) == \A p \in ToSet(thread[c].pages) : p.from = "live"

\* When a thread has no more pages it shows every message older than the newest
\* one it shows, although messages arrive while it is paged by offset; and after a
\* send it shows the message, unless older ones were asked for meanwhile.
ThreadsAreWhole ==
    \A c \in Conversations :
        FromApi(c) /\ thread[c].pages # <<>> =>
            /\ hasNextPage(thread[c].pages, Limit)
               \/ \A k \in Numbers(c) : 1 .. k \subseteq Numbers(c)
            /\ thread[c].load = None /\ ~thread[c].stale /\ thread[c].late = {} =>
                 own.last[c] = 0 \/ \E n \in Numbers(c) : n >= own.last[c]

\* What came up in the composer is still there, unless it was handed over or the
\* user gave it up: erased or replaced it, left the page, or asked the assistant for
\* something else.  A request that fails loses nothing.  There are exactly two ways
\* to lose something: an answer (of a send, or of the assistant) also takes away
\* what has come up since it was asked for, and the API leaves files out.
NothingTypedIsLost ==
    \A t \in 1 .. typed : t \in gone \cup lost \cup Tokens(composer)

\* A text goes out once, unless the API reported a failure after storing it.
SentOnce == \A t \in Typed : posted[t] <= 1 \/ t \in halfway

\* The composer loses nothing in any other way, and hands no text over twice
\* (handleSend).
TypedIsSentOnce == NothingTypedIsLost /\ SentOnce
=============================================================================
