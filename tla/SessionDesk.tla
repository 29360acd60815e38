------------------------------ MODULE SessionDesk ------------------------------
(***************************************************************************)
(* The detail page of a schedule (schedule-detail-view.tsx) while others   *)
(* write the same schedule: the panel of one session edits its status, its *)
(* date and its attendance by PUTs under If-Match.  The panel holds the    *)
(* copy of the session it was opened with, the tag comes from the last own *)
(* PUT or else from the last GET of the schedule, and both queries refetch *)
(* on their own.  Of a session only the attendance is kept: a status or a  *)
(* date counts as a change of the schedule document, and the dialogs that  *)
(* ask for a confirmation only delay the call they confirm.                *)
(*                                                                         *)
(* An etag is the number of the write it belongs to.  The fields called at *)
(* and the variable undone are history.                                    *)
(***************************************************************************)
EXTENDS Naturals, FiniteSets

CONSTANTS
    Desks,          \* browsers with the page open, modelled in detail
    Sessions,       \* sessions of the schedule
    Pupils,         \* students with an active enrollment
    MaxWrites,      \* bound: writes of the schedule
    MaxInFlight,    \* bound: edits and deletions that are not answered yet
    None

VARIABLES
    version,    \* the etag of the schedule document
    sessions,   \* its embedded sessions that are not deleted
    listed,     \* what each desk got from the last GET of the sessions
    cachedTag,  \* schedule._etag of the last GET of the schedule
    scheduleEtag,       \* the tag of the desk's own last PUT, or None
    selectedSession,    \* the session in the panel: a copy
    updates,    \* PUTs in flight
    deletion,   \* DELETE in flight
    undone      \* how attendance marks were undone by an edit of another pupil

server == <<version, sessions>>
queries == <<listed, cachedTag>>
panel == <<scheduleEtag, selectedSession>>
calls == <<updates, deletion>>
vars == <<server, queries, panel, calls, undone>>

Etags == 0 .. MaxWrites
Copy == [id : Sessions, at : Etags, present : SUBSET Pupils]
Update == [session : Sessions, ifMatch : Etags, at : Etags, pupil : Pupils \cup {None},
           present : SUBSET Pupils, latest : BOOLEAN]

InFlight == UNION {{<<d, u>> : u \in updates[d]} : d \in Desks} \cup
            {<<d, deletion[d]>> : d \in {e \in Desks : deletion[e] # None}}

Lists == UNION {[S -> SUBSET Pupils] : S \in SUBSET Sessions}

\* Types; no desk has a tag the server has not given yet.
TypeOK ==
    /\ version \in Etags /\ sessions \in Lists
    /\ \A d \in Desks :
         /\ listed[d].at <= version /\ listed[d].list \in Lists
         /\ cachedTag[d] <= version
         /\ scheduleEtag[d] = None \/ scheduleEtag[d] <= version
         /\ selectedSession[d] \in Copy \cup {None}
         /\ updates[d] \subseteq Update
         /\ deletion[d] \in [session : Sessions, ifMatch : Etags] \cup {None}
    /\ undone \subseteq {"stale panel", "current panel"}

\* Every desk has just loaded the page.
Init ==
    /\ version = 0
    /\ sessions = [s \in Sessions |-> {}]
    /\ listed = [d \in Desks |-> [at |-> 0, list |-> sessions]]
    /\ cachedTag = [d \in Desks |-> 0]
    /\ scheduleEtag = [d \in Desks |-> None]
    /\ selectedSession = [d \in Desks |-> None]
    /\ updates = [d \in Desks |-> {}] /\ deletion = [d \in Desks |-> None]
    /\ undone = {}

-----------------------------------------------------------------------------
(* Queries                                                                  *)

\* After an own write, which invalidates both queries, and whenever the window
\* is focused and they are 60 seconds old.
ScheduleArrives(d) ==
    /\ cachedTag' = [cachedTag EXCEPT ![d] = version]
    /\ UNCHANGED <<server, listed, panel, calls, undone>>

SessionsArrive(d) ==
    /\ listed' = [listed EXCEPT ![d] = [at |-> version, list |-> sessions]]
    /\ UNCHANGED <<server, cachedTag, panel, calls, undone>>

-----------------------------------------------------------------------------
(* The panel                                                                *)

\* Ver: the panel takes its copy from the list, whatever else is on its way.
selectSession(d) ==
    /\ \E s \in DOMAIN listed[d].list :
         selectedSession' = [selectedSession EXCEPT ![d] =
             [id |-> s, at |-> listed[d].at, present |-> listed[d].list[s]]]
    /\ UNCHANGED <<server, queries, scheduleEtag, calls, undone>>

\* scheduleEtag ?? schedule._etag
ifMatch(d) == IF scheduleEtag[d] # None THEN scheduleEtag[d] ELSE cachedTag[d]

\* mutate: only the last click keeps its own callbacks.
Mutate(d, pupil, present) ==
    /\ Cardinality(InFlight) < MaxInFlight
    /\ LET s == selectedSession[d] IN
       updates' = [updates EXCEPT ![d] =
           {[u EXCEPT !.latest = FALSE] : u \in @} \cup
           {[session |-> s.id, ifMatch |-> ifMatch(d), at |-> s.at, pupil |-> pupil,
             present |-> present, latest |-> TRUE]}]
    /\ UNCHANGED <<server, queries, panel, deletion, undone>>

applySessionStatus(d) == Mutate(d, None, {})

\* A terminal status waits for the dialog, and that for the updates in flight.
handleSessionStatus(d) == selectedSession[d] # None /\ applySessionStatus(d)

\* The attendance of every pupil is sent, as the panel has it.
handleAttendance(d) ==
    /\ selectedSession[d] # None
    /\ \E p \in Pupils :
         LET present == selectedSession[d].present IN
         Mutate(d, p,
                IF p \in present THEN present \ {p} ELSE present \cup {p})

\* The button waits for the updates in flight, unlike the two selects.
handleReschedule(d) ==
    /\ selectedSession[d] # None /\ updates[d] = {}
    /\ Mutate(d, None, {})

\* Asked for from the list or from the panel, and confirmed.
handleDeleteSession(d) ==
    /\ deletion[d] = None /\ Cardinality(InFlight) < MaxInFlight
    /\ \E s \in DOMAIN listed[d].list \cup
                (IF selectedSession[d] = None THEN {} ELSE {selectedSession[d].id}) :
         deletion' = [deletion EXCEPT ![d] = [session |-> s, ifMatch |-> ifMatch(d)]]
    /\ UNCHANGED <<server, queries, panel, updates, undone>>

-----------------------------------------------------------------------------
(* The answers                                                              *)

\* Pupils other than the one the operator marked whose mark changes.
Undone(present, u) ==
    ((present \ u.present) \cup (u.present \ present)) \ {u.pupil}

\* Mutant of Refused: the server does not compare the tags.
NoPrecondition(tag, session) == session \notin DOMAIN sessions

\* 412 when another write came first, 404 when the session is gone.
Refused(tag, session) == tag # version \/ session \notin DOMAIN sessions

\* onSuccess of the hook only invalidates; the callback of the latest click
\* refreshes the panel and the tag.
UpdateSucceeds(d, u) ==
    /\ version < MaxWrites /\ version' = version + 1
    /\ ~Refused(u.ifMatch, u.session)
    /\ IF u.pupil = None THEN UNCHANGED <<sessions, undone>>
       ELSE /\ sessions' = [sessions EXCEPT ![u.session] = u.present]
            /\ undone' = undone \cup
                 (IF Undone(sessions[u.session], u) = {} THEN {}
                  ELSE IF u.at < u.ifMatch THEN {"stale panel"} ELSE {"current panel"})
    /\ IF u.latest
       THEN /\ selectedSession' = [selectedSession EXCEPT ![d] =
                 [id |-> u.session, at |-> version', present |-> sessions'[u.session]]]
            /\ scheduleEtag' = [scheduleEtag EXCEPT ![d] = version']
       ELSE UNCHANGED <<selectedSession, scheduleEtag>>
    /\ updates' = [updates EXCEPT ![d] = @ \ {u}]
    /\ UNCHANGED <<queries, deletion>>

\* Only a toast: the panel and the tag stay as they are.
UpdateFails(d, u) ==
    /\ Refused(u.ifMatch, u.session)
    /\ updates' = [updates EXCEPT ![d] = @ \ {u}]
    /\ UNCHANGED <<server, queries, panel, deletion, undone>>

DeletionSucceeds(d) ==
    /\ deletion[d] # None /\ version < MaxWrites
    /\ LET s == deletion[d].session IN
       /\ ~Refused(deletion[d].ifMatch, s)
       /\ version' = version + 1
       /\ sessions' = [r \in DOMAIN sessions \ {s} |-> sessions[r]]
       /\ selectedSession' = [selectedSession EXCEPT ![d] =
            IF @ # None /\ @.id = s THEN None ELSE @]
    /\ scheduleEtag' = [scheduleEtag EXCEPT ![d] = None]
    /\ deletion' = [deletion EXCEPT ![d] = None]
    /\ UNCHANGED <<queries, updates, undone>>

\* The dialog stays open for another try.
DeletionFails(d) ==
    /\ deletion[d] # None
    /\ Refused(deletion[d].ifMatch, deletion[d].session)
    /\ deletion' = [deletion EXCEPT ![d] = None]
    /\ UNCHANGED <<server, queries, panel, updates, undone>>

\* Another user of the API, with a copy that is current, marks a pupil, edits
\* something else of the schedule, or deletes a session.
Elsewhere ==
    /\ version < MaxWrites /\ version' = version + 1
    /\ \/ UNCHANGED sessions
       \/ \E s \in DOMAIN sessions, p \in Pupils :
            sessions' = [sessions EXCEPT ![s] = IF p \in @ THEN @ \ {p} ELSE @ \cup {p}]
       \/ \E s \in DOMAIN sessions :
            sessions' = [r \in DOMAIN sessions \ {s} |-> sessions[r]]
    /\ UNCHANGED <<queries, panel, calls, undone>>

-----------------------------------------------------------------------------

Operator(d) ==
    \/ selectSession(d) \/ handleSessionStatus(d) \/ handleAttendance(d)
    \/ handleReschedule(d) \/ handleDeleteSession(d)

Answer(d) ==
    \/ \E u \in updates[d] : UpdateSucceeds(d, u) \/ UpdateFails(d, u)
    \/ DeletionSucceeds(d) \/ DeletionFails(d)

Next ==
    \/ \E d \in Desks :
         Operator(d) \/ ScheduleArrives(d) \/ SessionsArrive(d) \/ Answer(d)
    \/ Elsewhere

Spec == Init /\ [][Next]_vars

-----------------------------------------------------------------------------
(* Properties                                                               *)

\* A mark that an edit of another pupil undoes is always the price of a panel
\* older than the tag sent with it: as long as the copy in the panel is not older
\* than the tag, If-Match keeps the edits of two desks apart (handleAttendance).
CurrentPanelsKeepMarks == "current panel" \notin undone
=============================================================================
