----------------------------- MODULE SessionPlan -----------------------------
(***************************************************************************)
(* The pure part of schedules and their sessions: ScheduleSessionGenerator *)
(* and the edits ScheduleFunction makes in memory.  Dates are day numbers. *)
(* A plan is everything that makes RequiresRegeneration say yes apart from *)
(* the start date: the weekdays, the number of sessions that course,       *)
(* level and times come to, and the time slot itself.                      *)
(***************************************************************************)
EXTENDS FiniteSetsExt

CONSTANTS
    Students,   \* students who may be enrolled in the schedule
    Recorded,   \* attendance marks other than pending
    Plans,      \* the plans a schedule can follow
    Null        \* no date, no status

ASSUME PlansAssumption ==
    \A p \in Plans : /\ p.days \subseteq 0 .. 6 /\ p.days # {}
                     /\ p.count \in Nat

ASSUME NullAssumption == Null \notin Nat

Marks == {"pending"} \cup Recorded

\* "final" stands for completed and cancelled, which no rule tells apart.
Statuses == {"scheduled", "final"}

Nobody == [s \in {} |-> "pending"]

\* Attendance of a session: a mark for some of the students.
Attendances == UNION {[S -> Marks] : S \in SUBSET Students}

Session ==
    [date : Nat, status : Statuses, active : BOOLEAN, attendance : Attendances]

\* A schedule always has all the sessions of its plan, deleted ones too.
IsSchedule(s) ==
    \E p \in Plans : s \in [start : Nat, plan : {p}, end : Nat \cup {Null},
                            sessions : [1 .. p.count -> Session]]

-----------------------------------------------------------------------------
(* ScheduleSessionGenerator.Generate                                        *)

Weekday(d) == d % 7

\* Far enough to hold every class of the plan: one class a week at least.
ClassDays(plan, start) ==
    {d \in start .. start + 7 * plan.count : Weekday(d) \in plan.days}

\* The walk over the days from the start date, up to its n-th class.
NthClassDay(plan, start, n) ==
    CHOOSE d \in ClassDays(plan, start) :
      Cardinality({c \in ClassDays(plan, start) : c <= d}) = n

\* Mutant of Generate: the loop stops one session short.
GenerateOneShort(plan, start) ==
    [n \in 1 .. plan.count - 1 |->
       [date       |-> NthClassDay(plan, start, n),
        status     |-> "scheduled",
        active     |-> TRUE,
        attendance |-> Nobody]]

Generate(plan, start) ==
    [n \in 1 .. plan.count |->
       [date       |-> NthClassDay(plan, start, n),
        status     |-> "scheduled",
        active     |-> TRUE,
        attendance |-> Nobody]]

-----------------------------------------------------------------------------
(* Queries on a schedule                                                    *)

ActiveSessions(s) == {n \in DOMAIN s.sessions : s.sessions[n].active}

ActiveDates(s) == {s.sessions[n].date : n \in ActiveSessions(s)}

HasRecordedAttendance(session) ==
    \E x \in DOMAIN session.attendance : session.attendance[x] # "pending"

\* A session that was held, or called off: it is to be left alone.
Held(session) ==
    session.active /\ (session.status = "final" \/ HasRecordedAttendance(session))

HeldSessions(s) == {n \in DOMAIN s.sessions : Held(s.sessions[n])}

-----------------------------------------------------------------------------
(* Edits of a schedule in memory                                            *)

\* Mutant of ApplyProjection: the last by sequence number, not by date.
ProjectLastInSequence(s) ==
    [s EXCEPT !.end = IF ActiveSessions(s) = {} THEN Null
                      ELSE s.sessions[Max(ActiveSessions(s))].date]

ApplyProjection(s) ==
    [s EXCEPT !.end = IF ActiveDates(s) = {} THEN Null ELSE Max(ActiveDates(s))]

SyncStartDateToEarliestSession(s) ==
    IF ActiveDates(s) = {} THEN s ELSE [s EXCEPT !.start = Min(ActiveDates(s))]

\* Mutant of ShiftScheduledSessions: every active session moves.
ShiftAllSessions(s, delta) ==
    [s EXCEPT !.sessions = [n \in DOMAIN s.sessions |->
       IF n \in ActiveSessions(s)
       THEN [s.sessions[n] EXCEPT !.date = @ + delta]
       ELSE s.sessions[n]]]

ShiftScheduledSessions(s, delta) ==
    [s EXCEPT !.sessions = [n \in DOMAIN s.sessions |->
       IF n \in ActiveSessions(s) \ HeldSessions(s)
       THEN [s.sessions[n] EXCEPT !.date = @ + delta]
       ELSE s.sessions[n]]]

\* POST /schedules.
Created(plan, start) ==
    ApplyProjection([start |-> start, plan |-> plan, end |-> Null,
                     sessions |-> Generate(plan, start)])

\* PUT /schedules/{id} answers 409: RegeneratePreservingFinalized has thrown.
RegenerationRefused(s, plan) == plan # s.plan /\ HeldSessions(s) # {}

\* PUT /schedules/{id} otherwise.
ScheduleUpdated(s, plan, start) ==
    ApplyProjection(
      IF plan = s.plan
      THEN IF start = s.start THEN s
           ELSE SyncStartDateToEarliestSession(
                  ShiftScheduledSessions([s EXCEPT !.start = start], start - s.start))
      ELSE [start |-> start, plan |-> plan, end |-> s.end,
            sessions |-> Generate(plan, start)])

\* EnsureAttendanceForActiveEnrollmentsAsync: every active session has an entry
\* for each student of the roster, old marks are kept, entries of others go.
WithAttendance(s, roster) ==
    [s EXCEPT !.sessions = [n \in DOMAIN s.sessions |->
       IF n \in ActiveSessions(s)
       THEN [s.sessions[n] EXCEPT !.attendance =
               [x \in roster |-> IF x \in DOMAIN @ THEN @[x] ELSE "pending"]]
       ELSE s.sessions[n]]]

\* The attendance of a request only counts for students who have an entry.
Marked(attendance, marks) ==
    [x \in DOMAIN attendance |-> IF x \in DOMAIN marks THEN marks[x] ELSE attendance[x]]

\* A field of the request's body replaces the old value unless it is null.
Given(value, old) == IF value = Null THEN old ELSE value

Edited(session, status, date, marks) ==
    [session EXCEPT !.status = Given(status, @),
                    !.date = Given(date, @),
                    !.attendance = Marked(@, marks)]

\* PUT .../sessions/{n}.
SessionUpdated(s, n, status, date, marks, roster) ==
    LET t == WithAttendance(s, roster)
        u == [t EXCEPT !.sessions[n] = Edited(@, status, date, marks)]
    IN  ApplyProjection(IF date = Null THEN u ELSE SyncStartDateToEarliestSession(u))

\* DELETE .../sessions/{n}.
SessionDeleted(s, n) ==
    ApplyProjection(SyncStartDateToEarliestSession(
      [s EXCEPT !.sessions[n].active = FALSE]))

=============================================================================
