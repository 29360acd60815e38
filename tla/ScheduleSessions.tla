--------------------------- MODULE ScheduleSessions ---------------------------
(***************************************************************************)
(* One schedule document with its embedded sessions, and the handlers of   *)
(* ScheduleFunction that edit it: PUT of the schedule, PUT and DELETE of   *)
(* one session.  Each reads the whole document, edits it in memory and     *)
(* replaces it under If-Match; PUT of a session queries the enrollments in *)
(* between.  Versions are not numbered: an entity is Stale once somebody   *)
(* else has replaced the document it was read from, and its write is then  *)
(* refused with 412.                                                       *)
(***************************************************************************)
EXTENDS SessionPlan

CONSTANTS
    Workers,        \* requests in flight
    StartDates,     \* start dates a POST or PUT of the schedule asks for
    SessionDates,   \* dates a PUT of a session asks for
    LastDate,       \* bound: no request moves a session beyond this day
    NoSchedule,     \* before the POST
    Stale           \* an entity whose tag is no longer current

ASSUME DatesAssumption ==
    StartDates \subseteq Nat /\ SessionDates \subseteq Nat /\ LastDate \in Nat

ASSUME NoScheduleAssumption ==
    ~ IsSchedule(NoSchedule) /\ ~ IsSchedule(Stale) /\ NoSchedule # Stale

VARIABLES
    schedule,   \* the stored document
    pc,         \* the next await of every request
    request,    \* route and body of every request
    entity      \* the schedule in every request's memory

vars == <<schedule, pc, request, entity>>

NoRequest == [op |-> "none"]

\* What is left of a request whose write can only be refused.
Refused == [op |-> "refused"]

ScheduleUpdates ==
    [op : {"schedule"}, plan : Plans, start : StartDates]

SessionUpdates(n) ==
    [op : {"session"}, session : {n}, status : Statuses \cup {Null},
     date : SessionDates \cup {Null}, marks : Attendances]

\* What PUT r of a session is about to write: the session, and the students whose
\* marks it may change in it or drops everywhere, given the roster it has read.
Edits(r, roster) ==
    [op |-> r.op, session |-> r.session, names |-> DOMAIN r.marks,
     gone |-> Students \ roster]

TypeOK ==
    /\ schedule = NoSchedule \/ IsSchedule(schedule)
    /\ pc \in [Workers -> {"idle", "roster", "replace"}]
    /\ \A w \in Workers :
         /\ (pc[w] = "idle") <=> (request[w].op = "none")
         /\ pc[w] # "idle" => entity[w] = Stale \/ IsSchedule(entity[w])

Init ==
    /\ schedule = NoSchedule
    /\ pc = [w \in Workers |-> "idle"]
    /\ request = [w \in Workers |-> NoRequest]
    /\ entity = [w \in Workers |-> NoSchedule]

-----------------------------------------------------------------------------

Reply(w) ==
    /\ pc' = [pc EXCEPT ![w] = "idle"]
    /\ request' = [v \in Workers |->
                     IF v = w THEN NoRequest
                     ELSE IF entity'[v] = Stale THEN Refused
                     ELSE request[v]]

\* Worker w has read the schedule and goes on with e in memory.
Continue(w, r, e, next) ==
    /\ pc' = [pc EXCEPT ![w] = next]
    /\ request' = [request EXCEPT ![w] = r]
    /\ entity' = [entity EXCEPT ![w] = e]
    /\ UNCHANGED schedule

\* Bound: dates stay on the calendar.
OnCalendar(s) == \A d \in ActiveDates(s) : d <= LastDate

\* POST /schedules; the handler reads nothing that another request can change.
ScheduleCreate(w) ==
    /\ pc[w] = "idle" /\ schedule = NoSchedule
    /\ \E plan \in Plans, start \in StartDates : schedule' = Created(plan, start)
    /\ UNCHANGED <<pc, request, entity>>

\* PUT /schedules/{id}; the 409 of a refused regeneration changes nothing.
ScheduleUpdateRead(w) ==
    /\ pc[w] = "idle" /\ schedule # NoSchedule
    /\ \E r \in ScheduleUpdates :
         /\ ~ RegenerationRefused(schedule, r.plan)
         /\ OnCalendar(ScheduleUpdated(schedule, r.plan, r.start))
         /\ Continue(w, [op |-> r.op], ScheduleUpdated(schedule, r.plan, r.start), "replace")

\* PUT of a session, up to the query for the roster.
SessionUpdateRead(w) ==
    /\ pc[w] = "idle" /\ schedule # NoSchedule
    /\ \E n \in ActiveSessions(schedule) : \E r \in SessionUpdates(n) :
         Continue(w, r, schedule, "roster")

\* The students with an active enrollment are read, whoever that is by now (see
\* EnrollmentDesk), and the whole edit is made in memory.
SessionUpdateRoster(w) ==
    /\ pc[w] = "roster"
    /\ \/ entity[w] = Stale /\ Continue(w, Refused, Stale, "replace")
       \/ /\ entity[w] # Stale
          /\ \E roster \in SUBSET Students :
               LET r == request[w]
                   e == SessionUpdated(entity[w], r.session, r.status, r.date, r.marks, roster)
               IN  Continue(w, Edits(r, roster), e, "replace")

\* DELETE of a session; 409 for one that is finalized or has attendance.
SessionDeleteRead(w) ==
    /\ pc[w] = "idle" /\ schedule # NoSchedule
    /\ \E n \in ActiveSessions(schedule) \ HeldSessions(schedule) :
         Continue(w, [op |-> "delete"], SessionDeleted(schedule, n), "replace")

\* Mutant of EntitiesAfter: the tag is not sent, nobody's entity goes stale.
EntitiesKept(w) == [entity EXCEPT ![w] = NoSchedule]

\* What the requests hold after worker w has replaced the document.
EntitiesAfter(w) ==
    [v \in Workers |-> IF v = w \/ pc[v] = "idle" THEN NoSchedule ELSE Stale]

\* UpdateAsync, the last await of the three handlers.
Replace(w) ==
    /\ pc[w] = "replace"
    /\ \/ /\ entity[w] # Stale
          /\ schedule' = entity[w]
          /\ entity' = EntitiesAfter(w)
       \/ /\ entity[w] = Stale                                    \* 412
          /\ schedule' = schedule
          /\ entity' = [entity EXCEPT ![w] = NoSchedule]
    /\ Reply(w)

\* An If-Match that was old from the start, an exception, a recycled worker.
Abandon(w) ==
    /\ pc[w] # "idle"
    /\ entity' = [entity EXCEPT ![w] = NoSchedule]
    /\ Reply(w)
    /\ UNCHANGED schedule

Next ==
    \E w \in Workers :
      \/ ScheduleCreate(w)
      \/ ScheduleUpdateRead(w)
      \/ SessionUpdateRead(w)
      \/ SessionUpdateRoster(w)
      \/ SessionDeleteRead(w)
      \/ Replace(w)
      \/ Abandon(w)

Spec == Init /\ [][Next]_vars

-----------------------------------------------------------------------------
(* Properties                                                               *)

\* The projected end is the date of the last active session after any mix of
\* regenerations, shifts, reschedules and deletions.
ProjectedEndIsLastSession ==
    schedule # NoSchedule =>
      schedule.end = IF ActiveDates(schedule) = {} THEN Null
                     ELSE Max(ActiveDates(schedule))

\* No session takes place before its schedule's start date.  The query behind
\* GET /sessions only loads the schedules that have started and would miss it.
NoSessionBeforeStart ==
    schedule # NoSchedule => \A d \in ActiveDates(schedule) : schedule.start <= d

\* start and end frame the sessions, whatever the handlers did to them.
PlanSpansItsSessions == ProjectedEndIsLastSession /\ NoSessionBeforeStart

\* Only a PUT of that very session changes the date or the status of a session
\* that was held, or takes it off the plan.
HeldSessionsKept ==
    [][schedule # NoSchedule =>
         \A n \in HeldSessions(schedule) :
           \/ /\ n \in ActiveSessions(schedule')
              /\ schedule'.sessions[n].date = schedule.sessions[n].date
              /\ schedule'.sessions[n].status = schedule.sessions[n].status
           \/ \E w \in Workers : Replace(w) /\ request[w].op = "session"
                                   /\ request[w].session = n]_vars

\* A recorded mark only goes or changes by a PUT of its session that names the
\* student, or once the student has left: not by regeneration, and not by a PUT
\* of another session that was under way.
MarksKept ==
    [][schedule # NoSchedule =>
         \A n \in HeldSessions(schedule) :
           LET marks == schedule.sessions[n].attendance
           IN  \A s \in DOMAIN marks : marks[s] # "pending" =>
                 \/ /\ n \in DOMAIN schedule'.sessions
                    /\ s \in DOMAIN schedule'.sessions[n].attendance
                    /\ schedule'.sessions[n].attendance[s] = marks[s]
                 \/ \E w \in Workers :
                      /\ Replace(w)
                      /\ request[w].op = "session"
                      /\ \/ s \in request[w].gone
                         \/ request[w].session = n /\ s \in request[w].names]_vars

=============================================================================
