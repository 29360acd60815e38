----------------------- MODULE ScheduleSessionsProofs -----------------------
(***************************************************************************)
(* Theorems about schedules and their sessions, for any number of          *)
(* requests, any plans, dates, students and marks.  First the algorithms   *)
(* of SessionPlan: the generator finds all the sessions of a plan, and     *)
(* what the edits of a schedule do to its dates and to the sessions that   *)
(* were held.  Then the handlers: the entity of a request is shown to be   *)
(* an edit of the document that is stored, until its tag is stale.         *)
(***************************************************************************)
EXTENDS ScheduleSessions, FiniteSetTheorems, TLAPS

-----------------------------------------------------------------------------
(* Numbers.                                                                 *)

\* A set of natural numbers has a smallest element: the library's induction over a
\* well-founded relation, read for <.
LEMMA Smallest ==
  ASSUME NEW T, T \subseteq Nat, T # {}
  PROVE  \E m \in T : \A n \in T : m <= n
<1> DEFINE R == OpToRel(<, Nat)
<1>1. PICK m \in T : \A n \in T : <<n, m>> \notin R
  BY NatLessThanWellFounded, WFMin
<1>2. \A n \in T : <<n, m>> \in R <=> n < m
  BY DEF OpToRel
<1> HIDE DEF R
<1>3. m \in Nat /\ \A n \in T : n \in Nat /\ ~ n < m
  BY <1>1, <1>2
<1>. QED
  BY <1>3

\* Induction up to k, with a set for the numbers it has been shown for.
LEMMA UpTo ==
  ASSUME NEW k \in Nat, NEW S, 0 \in S, \A n \in 0 .. k : n # k /\ n \in S => n + 1 \in S
  PROVE  0 .. k \subseteq S
<1> DEFINE T == (0 .. k) \ S
<1>1. CASE T # {}
  <2>1. T \subseteq Nat
    OBVIOUS
  <2>2. PICK m \in T : \A n \in T : m <= n
    BY <1>1, <2>1, Smallest
  <2>3. m \in 1 .. k /\ m \notin S
    BY <2>2
  <2>4. m - 1 \in 0 .. k /\ m - 1 # k /\ m - 1 \notin T
    BY <2>2, <2>3
  <2>5. (m - 1) + 1 \in S
    BY <2>4
  <2>. QED
    BY <2>3, <2>5
<1>. QED
  BY <1>1

\* A finite sequence of dates has a last one.
LEMMA Bounded ==
  ASSUME NEW k \in Nat, NEW f \in [1 .. k -> Nat]
  PROVE  \E b \in Nat : \A n \in 1 .. k : f[n] <= b
<1> DEFINE Bound(n, b) == \A j \in 1 .. n : f[j] <= b
           S == {n \in 0 .. k : \E b \in Nat : Bound(n, b)}
<1>1. 0 \in S
  <2>1. Bound(0, 0)
    OBVIOUS
  <2>. QED
    BY <2>1
<1>2. ASSUME NEW n \in 0 .. k, n # k, n \in S
      PROVE  n + 1 \in S
  <2>1. PICK b \in Nat : Bound(n, b)
    BY <1>2
  <2> DEFINE c == IF f[n + 1] <= b THEN b ELSE f[n + 1]
  <2>2. /\ n + 1 \in 1 .. k /\ f[n + 1] \in Nat
        /\ c \in Nat /\ f[n + 1] <= c /\ b <= c
    BY <1>2
  <2> HIDE DEF c
  <2>3. Bound(n + 1, c)
    <3> SUFFICES ASSUME NEW j \in 1 .. n + 1
                 PROVE  f[j] <= c
      OBVIOUS
    <3>1. CASE j = n + 1
      BY <3>1, <2>2
    <3>2. CASE j # n + 1
      <4>1. j \in 1 .. n /\ f[j] \in Nat
        BY <3>2, <1>2
      <4>. QED
        BY <4>1, <2>1, <2>2
    <3>. QED
      BY <3>1, <3>2
  <2>. QED
    BY <2>2, <2>3
<1> HIDE DEF S
<1>3. 0 .. k \subseteq S
  BY <1>1, <1>2, UpTo
<1>. USE DEF S
<1>4. PICK b \in Nat : Bound(k, b)
  <2>1. k \in 0 .. k
    OBVIOUS
  <2>. QED
    BY <1>3, <2>1
<1>. QED
  BY <1>4

\* Min and Max of the community modules, on dates.
LEMMA MinOfDates ==
  ASSUME NEW D, D \subseteq Nat, D # {}
  PROVE  Min(D) \in D /\ \A d \in D : Min(D) <= d
<1>1. \E m \in D : \A d \in D : m <= d
  BY Smallest
<1>. QED
  BY <1>1 DEF Min

LEMMA MaxOfDates ==
  ASSUME NEW D, D \subseteq Nat, D # {}, NEW b \in Nat, \A d \in D : d <= b
  PROVE  Max(D) \in D /\ \A d \in D : d <= Max(D)
<1> DEFINE T == {b - d : d \in D}
<1>1. \A d \in D : b - d \in Nat /\ b - d \in T
  OBVIOUS
<1>2. T \subseteq Nat /\ T # {}
  BY <1>1
<1>3. PICK m \in T : \A n \in T : m <= n
  BY <1>2, Smallest
<1>4. PICK x \in D : m = b - x
  BY <1>3
<1> HIDE DEF T
<1>5. \A d \in D : x >= d
  <2> TAKE d \in D
  <2>1. m <= b - d
    BY <1>1, <1>3
  <2>. QED
    BY <1>4, <2>1
<1>6. Max(D) \in D /\ \A d \in D : Max(D) >= d
  BY <1>5 DEF Max
<1>. QED
  BY <1>6

-----------------------------------------------------------------------------
(* The generator.                                                           *)

\* Every weekday comes within seven days.
LEMMA WeekdayComes ==
  ASSUME NEW b \in Nat, NEW w \in 0 .. 6
  PROVE  \E d \in b .. b + 6 : Weekday(d) = w
<1> DEFINE r == b % 7
           d == IF r <= w THEN b + (w - r) ELSE b + 7 + (w - r)
<1>1. r \in 0 .. 6
  OBVIOUS
<1>2. d \in b .. b + 6
  BY <1>1
<1>3. d % 7 = w
  BY <1>1
<1>. QED
  BY <1>2, <1>3 DEF Weekday

LEMMA ClassDaysAreDates ==
  ASSUME NEW plan \in Plans, NEW start \in Nat
  PROVE  /\ ClassDays(plan, start) \subseteq Nat
         /\ IsFiniteSet(ClassDays(plan, start))
         /\ \A d \in ClassDays(plan, start) : start <= d
<1>1. start .. start + 7 * plan.count \subseteq Nat
  BY PlansAssumption
<1>2. ClassDays(plan, start) \subseteq start .. start + 7 * plan.count
  BY DEF ClassDays
<1>3. IsFiniteSet(start .. start + 7 * plan.count)
  <2>1. start \in Int /\ start + 7 * plan.count \in Int
    BY PlansAssumption
  <2>. QED
    BY <2>1, FS_Interval
<1>. QED
  BY <1>1, <1>2, <1>3, FS_Subset, PlansAssumption

\* The walk of Generate from the start date over 7 * count days meets the n-th
\* class: after n weeks at the latest n classes have been counted.
THEOREM GeneratorFindsEverySession ==
  ASSUME NEW plan \in Plans, NEW start \in Nat, NEW n \in 1 .. plan.count
  PROVE  /\ NthClassDay(plan, start, n) \in ClassDays(plan, start)
         /\ Cardinality({c \in ClassDays(plan, start) : c <= NthClassDay(plan, start, n)}) = n
<1> DEFINE D == ClassDays(plan, start)
           Before(b) == {c \in D : c < b}
           Counted(k, b) == /\ b \in start .. start + 7 * k
                            /\ Cardinality(Before(b)) = k
                            /\ k # 0 => b - 1 \in D
           S == {k \in 0 .. plan.count : \E b \in Nat : Counted(k, b)}
<1>1. plan.count \in Nat /\ D \subseteq Nat /\ IsFiniteSet(D) /\ \A d \in D : start <= d
  BY ClassDaysAreDates, PlansAssumption
<1>2. PICK w \in 0 .. 6 : w \in plan.days
  BY PlansAssumption
<1>3. \A d \in Nat : Weekday(d) = w /\ start <= d /\ d <= start + 7 * plan.count => d \in D
  BY <1>1, <1>2 DEF ClassDays
<1> HIDE DEF D
<1>4. 0 \in S
  <2>1. \A d \in D : ~ d < start
    BY <1>1
  <2>2. Before(start) = {}
    BY <2>1
  <2>3. Cardinality(Before(start)) = 0
    BY <2>2, FS_EmptySet
  <2>4. Counted(0, start)
    BY <2>3
  <2>5. 0 \in 0 .. plan.count
    BY <1>1
  <2> HIDE DEF Counted
  <2>. QED
    BY <2>4, <2>5
<1>5. ASSUME NEW k \in 0 .. plan.count, k # plan.count, k \in S
      PROVE  k + 1 \in S
  <2>1. PICK b \in Nat : Counted(k, b)
    BY <1>5
  <2> DEFINE Next7 == {d \in D : b <= d}
  <2>2. PICK d \in b .. b + 6 : Weekday(d) = w
    BY WeekdayComes
  <2>3. d \in Next7
    <3>1. k \in Nat /\ k + 1 <= plan.count /\ start <= b /\ b <= start + 7 * k
      BY <1>1, <1>5, <2>1
    <3>2. d \in Nat /\ start <= d /\ d <= start + 7 * plan.count
      BY <1>1, <2>2, <3>1
    <3>. QED
      BY <1>3, <2>2, <3>2
  <2>4. PICK m \in Next7 : \A x \in Next7 : m <= x
    BY <1>1, <2>3, Smallest
  <2>5. m \in Nat /\ m \in D /\ b <= m /\ m <= d
    BY <1>1, <2>3, <2>4
  <2>6. Before(m + 1) = Before(b) \cup {m} /\ m \notin Before(b)
    <3>1. \A x \in D : x < m + 1 <=> x < b \/ x = m
      BY <1>1, <2>4, <2>5
    <3>2. ~ m < b
      BY <2>5
    <3>. QED
      BY <3>1, <3>2, <2>5, Zenon
  <2>7. IsFiniteSet(Before(b))
    <3>1. Before(b) \subseteq D
      OBVIOUS
    <3>. QED
      BY <1>1, <3>1, FS_Subset
  <2>8. Cardinality(Before(m + 1)) = k + 1
    BY <2>1, <2>6, <2>7, FS_AddElement
  <2>9. m + 1 \in start .. start + 7 * (k + 1)
    BY <2>1, <2>2, <2>5
  <2>10. Counted(k + 1, m + 1)
    BY <2>5, <2>8, <2>9
  <2>11. k + 1 \in 0 .. plan.count /\ m + 1 \in Nat
    BY <1>1, <1>5, <2>5
  <2> HIDE DEF Counted
  <2>. QED
    BY <2>10, <2>11
<1>6. n \in S
  <2> HIDE DEF S
  <2>1. 0 .. plan.count \subseteq S
    BY <1>1, <1>4, <1>5, UpTo
  <2>2. n \in 0 .. plan.count
    BY <1>1
  <2>. QED
    BY <2>1, <2>2
<1>7. PICK b \in Nat : Counted(n, b)
  BY <1>6
<1>8. b - 1 \in D
  BY <1>7
<1>9. {c \in D : c <= b - 1} = Before(b)
  <2>1. \A c \in D : c <= b - 1 <=> c < b
    BY <1>1
  <2>. QED
    BY <2>1, Zenon
<1>10. \E d \in D : Cardinality({c \in D : c <= d}) = n
  BY <1>7, <1>8, <1>9
<1>. QED
  BY <1>10 DEF NthClassDay, D

-----------------------------------------------------------------------------
(* What the edits of a schedule promise.                                    *)

\* No active session before the start.
StartsInTime(s) == \A d \in ActiveDates(s) : s.start <= d

\* The end is the date of the last active session.
EndsWithLast(s) ==
    s.end = IF ActiveDates(s) = {} THEN Null ELSE Max(ActiveDates(s))

\* Session n is on the plan of t on the date and with the status it has in s.
KeepsSession(s, t, n) ==
    /\ n \in ActiveSessions(t)
    /\ t.sessions[n].date = s.sessions[n].date
    /\ t.sessions[n].status = s.sessions[n].status

\* The mark of student x in session n of s is in t, too.
KeepsMark(s, t, n, x) ==
    /\ n \in DOMAIN t.sessions
    /\ x \in DOMAIN t.sessions[n].attendance
    /\ t.sessions[n].attendance[x] = s.sessions[n].attendance[x]

IsRecorded(s, n, x) ==
    x \in DOMAIN s.sessions[n].attendance /\ s.sessions[n].attendance[x] # "pending"

\* t keeps what was held in s, apart from what an edit of the sessions in own, with
\* marks for the students in names, may change, and from students who are gone.
KeepsHeldBut(s, t, own, names, gone) ==
    \A n \in HeldSessions(s) :
      /\ n \in own \/ KeepsSession(s, t, n)
      /\ \A x : IsRecorded(s, n, x) =>
              x \in gone \/ (n \in own /\ x \in names) \/ KeepsMark(s, t, n, x)

KeepsHeld(s, t) == KeepsHeldBut(s, t, {}, {}, {})

LEMMA PartsOfSchedule ==
  ASSUME NEW s, IsSchedule(s)
  PROVE  /\ s.start \in Nat /\ s.plan \in Plans /\ s.end \in Nat \cup {Null}
         /\ s.plan.count \in Nat
         /\ s.sessions \in [1 .. s.plan.count -> Session]
         /\ s = [start |-> s.start, plan |-> s.plan, end |-> s.end, sessions |-> s.sessions]
<1>1. PICK p \in Plans : s \in [start : Nat, plan : {p}, end : Nat \cup {Null},
                                sessions : [1 .. p.count -> Session]]
  BY DEF IsSchedule
<1>2. s.plan = p
  BY <1>1
<1>. QED
  BY <1>1, <1>2, PlansAssumption

LEMMA ScheduleOfParts ==
  ASSUME NEW p \in Plans, NEW start \in Nat, NEW end \in Nat \cup {Null},
         NEW f \in [1 .. p.count -> Session]
  PROVE  IsSchedule([start |-> start, plan |-> p, end |-> end, sessions |-> f])
BY DEF IsSchedule

LEMMA SessionsReplaced ==
  ASSUME NEW s, IsSchedule(s), NEW f
  PROVE  [s EXCEPT !.sessions = f]
         = [start |-> s.start, plan |-> s.plan, end |-> s.end, sessions |-> f]
BY PartsOfSchedule

\* The dates of the active sessions are dates, and there is a last one.
LEMMA DatesOfSchedule ==
  ASSUME NEW s, IsSchedule(s)
  PROVE  /\ ActiveDates(s) \subseteq Nat
         /\ ActiveDates(s) # {} =>
              /\ Min(ActiveDates(s)) \in ActiveDates(s)
              /\ \A d \in ActiveDates(s) : Min(ActiveDates(s)) <= d
              /\ Max(ActiveDates(s)) \in ActiveDates(s)
<1>1. s.plan.count \in Nat /\ s.sessions \in [1 .. s.plan.count -> Session]
  BY PartsOfSchedule
<1>2. ActiveDates(s) \subseteq Nat
  BY <1>1 DEF ActiveDates, ActiveSessions, Session
<1> DEFINE f == [n \in 1 .. s.plan.count |-> s.sessions[n].date]
<1>3. f \in [1 .. s.plan.count -> Nat]
  BY <1>1 DEF Session
<1>4. PICK b \in Nat : \A n \in 1 .. s.plan.count : f[n] <= b
  <2> HIDE DEF f
  <2>. QED
    BY <1>1, <1>3, Bounded
<1>5. \A d \in ActiveDates(s) : d <= b
  BY <1>1, <1>4 DEF ActiveDates, ActiveSessions
<1>. QED
  BY <1>2, <1>5, MinOfDates, MaxOfDates

LEMMA ProjectionEnds ==
  ASSUME NEW s, IsSchedule(s), StartsInTime(s)
  PROVE  LET t == ApplyProjection(s) IN
         /\ IsSchedule(t) /\ StartsInTime(t) /\ EndsWithLast(t)
         /\ t.sessions = s.sessions /\ t.plan = s.plan /\ t.start = s.start
<1> DEFINE end == IF ActiveDates(s) = {} THEN Null ELSE Max(ActiveDates(s))
           t == [start |-> s.start, plan |-> s.plan, end |-> end, sessions |-> s.sessions]
<1>1. end \in Nat \cup {Null}
  BY DatesOfSchedule
<1>2. ApplyProjection(s) = t
  BY PartsOfSchedule DEF ApplyProjection
<1>3. IsSchedule(t)
  BY <1>1, PartsOfSchedule, ScheduleOfParts
<1>4. ActiveDates(t) = ActiveDates(s)
  BY DEF ActiveDates, ActiveSessions
<1>. QED
  BY <1>2, <1>3, <1>4 DEF StartsInTime, EndsWithLast

LEMMA SyncStarts ==
  ASSUME NEW s, IsSchedule(s)
  PROVE  LET t == SyncStartDateToEarliestSession(s) IN
         /\ IsSchedule(t) /\ StartsInTime(t)
         /\ t.sessions = s.sessions /\ t.plan = s.plan
<1>1. CASE ActiveDates(s) = {}
  BY <1>1 DEF SyncStartDateToEarliestSession, StartsInTime
<1>2. CASE ActiveDates(s) # {}
  <2> DEFINE t == [start |-> Min(ActiveDates(s)), plan |-> s.plan, end |-> s.end,
                   sessions |-> s.sessions]
  <2>1. SyncStartDateToEarliestSession(s) = t
    BY <1>2, PartsOfSchedule DEF SyncStartDateToEarliestSession
  <2>2. IsSchedule(t)
    BY <1>2, DatesOfSchedule, PartsOfSchedule, ScheduleOfParts
  <2>3. ActiveDates(t) = ActiveDates(s)
    BY DEF ActiveDates, ActiveSessions
  <2>. QED
    BY <1>2, <2>1, <2>2, <2>3, DatesOfSchedule DEF StartsInTime
<1>. QED
  BY <1>1, <1>2

LEMMA GeneratedSessions ==
  ASSUME NEW plan \in Plans, NEW start \in Nat
  PROVE  /\ Generate(plan, start) \in [1 .. plan.count -> Session]
         /\ \A n \in 1 .. plan.count : start <= Generate(plan, start)[n].date
<1>1. \A n \in 1 .. plan.count : /\ NthClassDay(plan, start, n) \in Nat
                                 /\ start <= NthClassDay(plan, start, n)
  BY GeneratorFindsEverySession, ClassDaysAreDates
<1>2. Nobody \in Attendances
  BY DEF Nobody, Attendances
<1>. QED
  BY <1>1, <1>2 DEF Generate, Session, Statuses

\* POST of a schedule.
THEOREM CreatedIsSound ==
  ASSUME NEW plan \in Plans, NEW start \in Nat
  PROVE  LET t == Created(plan, start) IN
         IsSchedule(t) /\ StartsInTime(t) /\ EndsWithLast(t)
<1> DEFINE s == [start |-> start, plan |-> plan, end |-> Null,
                 sessions |-> Generate(plan, start)]
<1>1. IsSchedule(s)
  BY GeneratedSessions, ScheduleOfParts
<1>2. StartsInTime(s)
  BY GeneratedSessions DEF StartsInTime, ActiveDates, ActiveSessions
<1> HIDE DEF s
<1>3. LET t == ApplyProjection(s) IN
      IsSchedule(t) /\ StartsInTime(t) /\ EndsWithLast(t)
  BY <1>1, <1>2, ProjectionEnds
<1>. QED
  BY <1>3 DEF Created, s

\* Only the sessions of the edited schedule matter.
LEMMA SameSessionsKeep ==
  ASSUME NEW s, NEW t, NEW u, t.sessions = u.sessions,
         NEW own, NEW names, NEW gone, KeepsHeldBut(s, t, own, names, gone)
  PROVE  KeepsHeldBut(s, u, own, names, gone)
BY DEF KeepsHeldBut, KeepsSession, KeepsMark, ActiveSessions

LEMMA ShiftKeepsHeld ==
  ASSUME NEW s, IsSchedule(s), StartsInTime(s), NEW start \in Nat
  PROVE  LET t == ShiftScheduledSessions([s EXCEPT !.start = start], start - s.start) IN
         IsSchedule(t) /\ KeepsHeld(s, t) /\ t.plan = s.plan
<1> DEFINE u == [start |-> start, plan |-> s.plan, end |-> s.end, sessions |-> s.sessions]
           f == [n \in DOMAIN s.sessions |->
                   IF n \in ActiveSessions(s) \ HeldSessions(s)
                   THEN [s.sessions[n] EXCEPT !.date = @ + (start - s.start)]
                   ELSE s.sessions[n]]
           t == [start |-> start, plan |-> s.plan, end |-> s.end, sessions |-> f]
<1>1. [s EXCEPT !.start = start] = u
  BY PartsOfSchedule
<1>2. ActiveSessions(u) = ActiveSessions(s) /\ HeldSessions(u) = HeldSessions(s)
  BY DEF ActiveSessions, HeldSessions
<1>3. ShiftScheduledSessions(u, start - s.start) = t
  BY <1>2 DEF ShiftScheduledSessions
<1>4. \A n \in ActiveSessions(s) : s.start <= s.sessions[n].date
  BY DEF StartsInTime, ActiveDates
<1>5. s.start \in Nat /\ s.sessions \in [1 .. s.plan.count -> Session]
  BY PartsOfSchedule
<1>6. ASSUME NEW n \in 1 .. s.plan.count
      PROVE  f[n] \in Session
  <2>1. CASE n \in ActiveSessions(s) \ HeldSessions(s)
    <3>1. /\ s.sessions[n] \in Session /\ s.sessions[n].date \in Nat
          /\ s.start <= s.sessions[n].date
      BY <1>4, <1>5, <2>1 DEF Session
    <3>2. s.sessions[n].date + (start - s.start) \in Nat
      BY <1>5, <3>1
    <3>. QED
      BY <1>5, <2>1, <3>1, <3>2 DEF Session
  <2>2. CASE n \notin ActiveSessions(s) \ HeldSessions(s)
    BY <1>5, <2>2
  <2>. QED
    BY <2>1, <2>2
<1>7. f \in [1 .. s.plan.count -> Session]
  BY <1>5, <1>6
<1>8. IsSchedule(t)
  BY <1>7, PartsOfSchedule, ScheduleOfParts
<1>9. \A n \in HeldSessions(s) : n \in DOMAIN s.sessions /\ s.sessions[n].active
                                /\ f[n] = s.sessions[n]
  BY DEF HeldSessions, Held
<1>10. DOMAIN f = DOMAIN s.sessions
  OBVIOUS
<1> HIDE DEF f
<1>11. KeepsHeld(s, t)
  BY <1>9, <1>10
     DEF KeepsHeld, KeepsHeldBut, KeepsSession, KeepsMark, IsRecorded, ActiveSessions
<1>. QED
  BY <1>1, <1>3, <1>8, <1>11

\* PUT of a schedule.
THEOREM ScheduleUpdatedIsSound ==
  ASSUME NEW s, IsSchedule(s), StartsInTime(s),
         NEW plan \in Plans, NEW start \in Nat, ~ RegenerationRefused(s, plan)
  PROVE  LET t == ScheduleUpdated(s, plan, start) IN
         IsSchedule(t) /\ StartsInTime(t) /\ EndsWithLast(t) /\ KeepsHeld(s, t)
<1>1. ASSUME NEW u, IsSchedule(u), StartsInTime(u), KeepsHeld(s, u),
             ScheduleUpdated(s, plan, start) = ApplyProjection(u)
      PROVE  LET t == ScheduleUpdated(s, plan, start) IN
             IsSchedule(t) /\ StartsInTime(t) /\ EndsWithLast(t) /\ KeepsHeld(s, t)
  BY <1>1, ProjectionEnds, SameSessionsKeep DEF KeepsHeld
<1>2. CASE plan = s.plan /\ start = s.start
  <2>1. KeepsHeld(s, s)
    BY DEF KeepsHeld, KeepsHeldBut, KeepsSession, KeepsMark, IsRecorded,
           HeldSessions, Held, ActiveSessions
  <2>2. ScheduleUpdated(s, plan, start) = ApplyProjection(s)
    BY <1>2 DEF ScheduleUpdated
  <2>. QED
    BY <1>1, <2>1, <2>2
<1>3. CASE plan = s.plan /\ start # s.start
  <2> DEFINE v == ShiftScheduledSessions([s EXCEPT !.start = start], start - s.start)
             u == SyncStartDateToEarliestSession(v)
  <2>1. IsSchedule(v) /\ KeepsHeld(s, v)
    BY ShiftKeepsHeld
  <2>2. ScheduleUpdated(s, plan, start) = ApplyProjection(u)
    BY <1>3 DEF ScheduleUpdated
  <2> HIDE DEF v
  <2>3. IsSchedule(u) /\ StartsInTime(u) /\ KeepsHeld(s, u)
    BY <2>1, SyncStarts, SameSessionsKeep DEF KeepsHeld
  <2> HIDE DEF u
  <2>. QED
    BY <1>1, <2>2, <2>3
<1>4. CASE plan # s.plan
  <2> DEFINE u == [start |-> start, plan |-> plan, end |-> s.end,
                   sessions |-> Generate(plan, start)]
  <2>1. IsSchedule(u)
    BY GeneratedSessions, PartsOfSchedule, ScheduleOfParts
  <2>2. StartsInTime(u)
    BY GeneratedSessions DEF StartsInTime, ActiveDates, ActiveSessions
  <2>3. KeepsHeld(s, u)
    BY <1>4 DEF RegenerationRefused, KeepsHeld, KeepsHeldBut
  <2>4. ScheduleUpdated(s, plan, start) = ApplyProjection(u)
    BY <1>4 DEF ScheduleUpdated
  <2> HIDE DEF u
  <2>. QED
    BY <1>1, <2>1, <2>2, <2>3, <2>4
<1>. QED
  BY <1>2, <1>3, <1>4

\* EnsureAttendanceForActiveEnrollmentsAsync: dates and states stay, and so do the
\* marks of the students of the roster.
LEMMA AttendanceIsEnsured ==
  ASSUME NEW s, IsSchedule(s), NEW roster \in SUBSET Students
  PROVE  LET t == WithAttendance(s, roster) IN
         /\ IsSchedule(t) /\ t.start = s.start /\ t.plan = s.plan
         /\ ActiveSessions(t) = ActiveSessions(s)
         /\ \A n \in ActiveSessions(s) :
              /\ t.sessions[n].date = s.sessions[n].date
              /\ t.sessions[n].status = s.sessions[n].status
              /\ \A x : IsRecorded(s, n, x) => x \notin roster \/ KeepsMark(s, t, n, x)
<1> DEFINE entries(n) == [x \in roster |-> IF x \in DOMAIN s.sessions[n].attendance
                                          THEN s.sessions[n].attendance[x] ELSE "pending"]
           f == [n \in DOMAIN s.sessions |->
                   IF n \in ActiveSessions(s)
                   THEN [s.sessions[n] EXCEPT !.attendance = entries(n)]
                   ELSE s.sessions[n]]
           t == [start |-> s.start, plan |-> s.plan, end |-> s.end, sessions |-> f]
<1>1. s.sessions \in [1 .. s.plan.count -> Session]
  BY PartsOfSchedule
<1>2. WithAttendance(s, roster) = t
  <2>1. WithAttendance(s, roster) = [s EXCEPT !.sessions = f]
    BY DEF WithAttendance
  <2> HIDE DEF f
  <2>. QED
    BY <2>1, SessionsReplaced
<1>3. ASSUME NEW n \in 1 .. s.plan.count
      PROVE  entries(n) \in Attendances
  <2>1. s.sessions[n].attendance \in Attendances
    BY <1>1 DEF Session
  <2>2. PICK S \in SUBSET Students : s.sessions[n].attendance \in [S -> Marks]
    BY <2>1 DEF Attendances
  <2>3. entries(n) \in [roster -> Marks]
    BY <2>2 DEF Marks
  <2>. QED
    BY <2>3 DEF Attendances
<1> HIDE DEF entries
<1>4. ASSUME NEW n \in 1 .. s.plan.count
      PROVE  f[n] \in Session
  BY <1>1, <1>3 DEF Session
<1>5. f \in [1 .. s.plan.count -> Session]
  BY <1>1, <1>4
<1>6. IsSchedule(t)
  BY <1>5, PartsOfSchedule, ScheduleOfParts
<1>7. \A n \in DOMAIN s.sessions :
        /\ f[n].active = s.sessions[n].active
        /\ f[n].date = s.sessions[n].date
        /\ f[n].status = s.sessions[n].status
        /\ n \in ActiveSessions(s) => f[n].attendance = entries(n)
  BY <1>1 DEF Session
<1>8. DOMAIN f = DOMAIN s.sessions
  OBVIOUS
<1> HIDE DEF f
<1>9. ActiveSessions(t) = ActiveSessions(s)
  BY <1>7, <1>8 DEF ActiveSessions
<1>10. ASSUME NEW n \in ActiveSessions(s), NEW x, IsRecorded(s, n, x), x \in roster
       PROVE  KeepsMark(s, t, n, x)
  BY <1>7, <1>8, <1>10 DEF KeepsMark, IsRecorded, ActiveSessions, entries
<1>. QED
  BY <1>2, <1>6, <1>7, <1>9, <1>10 DEF ActiveSessions

\* DELETE of a session that was not held.
THEOREM SessionDeletedIsSound ==
  ASSUME NEW s, IsSchedule(s), NEW n \in ActiveSessions(s) \ HeldSessions(s)
  PROVE  LET t == SessionDeleted(s, n) IN
         IsSchedule(t) /\ StartsInTime(t) /\ EndsWithLast(t) /\ KeepsHeld(s, t)
<1> DEFINE f == [s.sessions EXCEPT ![n].active = FALSE]
           u == [start |-> s.start, plan |-> s.plan, end |-> s.end, sessions |-> f]
           v == SyncStartDateToEarliestSession(u)
<1>1. s.sessions \in [1 .. s.plan.count -> Session]
  BY PartsOfSchedule
<1>2. SessionDeleted(s, n) = ApplyProjection(v)
  <2>1. [s EXCEPT !.sessions[n].active = FALSE] = [s EXCEPT !.sessions = f]
    OBVIOUS
  <2>2. [s EXCEPT !.sessions = f] = u
    BY SessionsReplaced
  <2>. QED
    BY <2>1, <2>2 DEF SessionDeleted
<1>3. f \in [1 .. s.plan.count -> Session]
  BY <1>1 DEF Session
<1>4. IsSchedule(u)
  BY <1>3, PartsOfSchedule, ScheduleOfParts
<1>5. \A k \in HeldSessions(s) : k \in DOMAIN f /\ f[k] = s.sessions[k] /\ f[k].active
  BY <1>1 DEF HeldSessions, Held
<1> HIDE DEF f
<1>6. KeepsHeld(s, u)
  BY <1>5 DEF KeepsHeld, KeepsHeldBut, KeepsSession, KeepsMark, IsRecorded, ActiveSessions
<1> HIDE DEF u
<1>7. IsSchedule(v) /\ StartsInTime(v) /\ KeepsHeld(s, v)
  BY <1>4, <1>6, SyncStarts, SameSessionsKeep DEF KeepsHeld
<1> HIDE DEF v
<1>. QED
  BY <1>2, <1>7, ProjectionEnds, SameSessionsKeep DEF KeepsHeld

LEMMA EditedFields ==
  ASSUME NEW x \in Session, NEW status \in Statuses \cup {Null},
         NEW date \in Nat \cup {Null}, NEW marks \in Attendances
  PROVE  LET y == Edited(x, status, date, marks) IN
         /\ y \in Session /\ y.active = x.active
         /\ y.attendance = Marked(x.attendance, marks)
         /\ date = Null => y.date = x.date
<1>1. PICK S \in SUBSET Students : x.attendance \in [S -> Marks]
  BY DEF Session, Attendances
<1>2. PICK T \in SUBSET Students : marks \in [T -> Marks]
  BY DEF Attendances
<1>3. Marked(x.attendance, marks) \in Attendances
  BY <1>1, <1>2 DEF Marked, Attendances
<1>4. Given(status, x.status) \in Statuses /\ Given(date, x.date) \in Nat
  BY DEF Given, Session
<1>. QED
  BY <1>3, <1>4 DEF Edited, Session, Given

\* PUT of a session: it may change that session, the marks of the students it
\* names there, and it drops the students who have left.
THEOREM SessionUpdatedIsSound ==
  ASSUME NEW s, IsSchedule(s), StartsInTime(s), NEW n \in ActiveSessions(s),
         NEW status \in Statuses \cup {Null}, NEW date \in Nat \cup {Null},
         NEW marks \in Attendances, NEW roster \in SUBSET Students
  PROVE  LET t == SessionUpdated(s, n, status, date, marks, roster) IN
         /\ IsSchedule(t) /\ StartsInTime(t) /\ EndsWithLast(t)
         /\ KeepsHeldBut(s, t, {n}, DOMAIN marks, Students \ roster)
<1> DEFINE t == WithAttendance(s, roster)
           f == [t.sessions EXCEPT ![n] = Edited(@, status, date, marks)]
           u == [start |-> t.start, plan |-> t.plan, end |-> t.end, sessions |-> f]
           v == IF date = Null THEN u ELSE SyncStartDateToEarliestSession(u)
<1>1. /\ IsSchedule(t) /\ t.start = s.start /\ t.plan = s.plan
      /\ ActiveSessions(t) = ActiveSessions(s)
      /\ \A k \in ActiveSessions(s) :
           /\ t.sessions[k].date = s.sessions[k].date
           /\ t.sessions[k].status = s.sessions[k].status
           /\ \A x : IsRecorded(s, k, x) => x \notin roster \/ KeepsMark(s, t, k, x)
  BY AttendanceIsEnsured
<1> HIDE DEF t
<1>2. t.sessions \in [1 .. t.plan.count -> Session] /\ n \in 1 .. t.plan.count
  <2>1. t.sessions \in [1 .. t.plan.count -> Session]
    BY <1>1, PartsOfSchedule
  <2>. QED
    BY <1>1, <2>1 DEF ActiveSessions
<1>3. /\ f[n] \in Session /\ f[n].active = t.sessions[n].active
      /\ f[n].attendance = Marked(t.sessions[n].attendance, marks)
      /\ date = Null => f[n].date = t.sessions[n].date
  BY <1>2, EditedFields
<1>4. \A k \in 1 .. t.plan.count : k # n => f[k] = t.sessions[k]
  BY <1>2
<1>5. DOMAIN f = 1 .. t.plan.count /\ f \in [1 .. t.plan.count -> Session]
  BY <1>2, <1>3, <1>4
<1>6. SessionUpdated(s, n, status, date, marks, roster) = ApplyProjection(v)
  <2>1. [t EXCEPT !.sessions[n] = Edited(@, status, date, marks)] = [t EXCEPT !.sessions = f]
    OBVIOUS
  <2> HIDE DEF f
  <2>2. [t EXCEPT !.sessions = f] = u
    BY <1>1, SessionsReplaced
  <2>3. [t EXCEPT !.sessions[n] = Edited(@, status, date, marks)] = u
    BY <2>1, <2>2
  <2>. QED
    BY <2>3 DEF SessionUpdated, t
<1> HIDE DEF f
<1>7. IsSchedule(u)
  BY <1>1, <1>5, PartsOfSchedule, ScheduleOfParts
<1>8. ActiveSessions(u) = ActiveSessions(s)
  BY <1>1, <1>2, <1>3, <1>4, <1>5 DEF ActiveSessions
<1>9. date = Null => StartsInTime(u)
  BY <1>1, <1>3, <1>4, <1>5, <1>8 DEF StartsInTime, ActiveDates, ActiveSessions
<1>10. \A k \in HeldSessions(s) : k \in ActiveSessions(s) /\ k \in 1 .. t.plan.count
  <2>1. \A k \in HeldSessions(s) : k \in ActiveSessions(s)
    BY DEF HeldSessions, Held, ActiveSessions
  <2>2. \A k \in ActiveSessions(t) : k \in 1 .. t.plan.count
    BY <1>2 DEF ActiveSessions
  <2>. QED
    BY <1>1, <2>1, <2>2
<1>11. ASSUME NEW k \in HeldSessions(s), k # n
       PROVE  KeepsSession(s, u, k)
  BY <1>1, <1>4, <1>8, <1>10, <1>11 DEF KeepsSession
<1>12. ASSUME NEW k \in HeldSessions(s), NEW x, IsRecorded(s, k, x),
              x \notin Students \ roster, ~ (k = n /\ x \in DOMAIN marks)
       PROVE  KeepsMark(s, u, k, x)
  <2>1. x \in Students
    <3>1. s.sessions[k].attendance \in Attendances
      <4>1. s.sessions \in [1 .. s.plan.count -> Session]
        BY PartsOfSchedule
      <4>. QED
        BY <4>1 DEF HeldSessions, Session
    <3>. QED
      BY <1>12, <3>1 DEF IsRecorded, Attendances
  <2>2. KeepsMark(s, t, k, x)
    BY <1>1, <1>10, <1>12, <2>1
  <2>3. CASE k = n
    BY <1>3, <1>5, <1>10, <1>12, <2>2, <2>3 DEF KeepsMark, Marked
  <2>4. CASE k # n
    BY <1>4, <1>5, <1>10, <2>2, <2>4 DEF KeepsMark
  <2>. QED
    BY <2>3, <2>4
<1>13. KeepsHeldBut(s, u, {n}, DOMAIN marks, Students \ roster)
  BY <1>11, <1>12 DEF KeepsHeldBut
<1> HIDE DEF u
<1>14. /\ IsSchedule(v) /\ StartsInTime(v)
       /\ KeepsHeldBut(s, v, {n}, DOMAIN marks, Students \ roster)
  BY <1>7, <1>9, <1>13, SyncStarts, SameSessionsKeep
<1> HIDE DEF v
<1>. QED
  BY <1>6, <1>14, ProjectionEnds, SameSessionsKeep

-----------------------------------------------------------------------------
(* The handlers.                                                            *)

\* Its dates frame its sessions.
Sound(s) == IsSchedule(s) /\ StartsInTime(s) /\ EndsWithLast(s)

\* The entity of w keeps what was held in the stored document, except what the
\* session update of w is entitled to change.
EntityKeepsHeld(w) ==
    IF request[w].op = "session"
    THEN KeepsHeldBut(schedule, entity[w], {request[w].session},
                      request[w].names, request[w].gone)
    ELSE KeepsHeld(schedule, entity[w])

\* While its tag is current, the entity is the stored document before the edit and
\* a sound edit of it afterwards.
EntityIsCurrent(w) ==
    /\ pc[w] = "roster" => /\ entity[w] = schedule
                           /\ \E n \in ActiveSessions(schedule) :
                                request[w] \in SessionUpdates(n)
    /\ pc[w] = "replace" => Sound(entity[w]) /\ EntityKeepsHeld(w)

WorkerInv(w) ==
    IF pc[w] = "idle"
    THEN entity[w] = NoSchedule /\ request[w].op = "none"
    ELSE /\ schedule # NoSchedule
         /\ request[w].op # "none"
         /\ entity[w] # Stale => EntityIsCurrent(w)

\* The inductive invariant.
Inv ==
    /\ pc \in [Workers -> {"idle", "roster", "replace"}]
    /\ request = [w \in Workers |-> request[w]]
    /\ entity = [w \in Workers |-> entity[w]]
    /\ schedule # NoSchedule => Sound(schedule)
    /\ \A w \in Workers : WorkerInv(w)

LEMMA InvInit == Init => Inv
BY DEF Init, Inv, WorkerInv, NoRequest

LEMMA InvImpliesTypeOK == Inv => TypeOK
<1> SUFFICES ASSUME Inv PROVE TypeOK
  OBVIOUS
<1>1. ASSUME NEW w \in Workers
      PROVE  /\ (pc[w] = "idle") <=> (request[w].op = "none")
             /\ pc[w] # "idle" => entity[w] = Stale \/ IsSchedule(entity[w])
  <2>1. pc[w] \in {"idle", "roster", "replace"} /\ WorkerInv(w)
    BY DEF Inv
  <2>2. schedule # NoSchedule => IsSchedule(schedule)
    BY DEF Inv, Sound
  <2>. QED
    BY <2>1, <2>2 DEF WorkerInv, EntityIsCurrent, Sound
<1>. QED
  BY <1>1 DEF Inv, TypeOK, Sound

\* A request that makes no step stays where it is, if the document does.
LEMMA OthersWait ==
  ASSUME Inv, schedule' = schedule, NEW v \in Workers,
         pc'[v] = pc[v], request'[v] = request[v], entity'[v] = entity[v]
  PROVE  WorkerInv(v)'
<1>1. WorkerInv(v)
  BY DEF Inv
<1>. QED
  BY <1>1 DEF WorkerInv, EntityIsCurrent, EntityKeepsHeld

\* The reads: worker w goes on with e.
LEMMA ContinueKeepsInv ==
  ASSUME Inv, NEW w \in Workers, NEW r, NEW e, NEW next \in {"roster", "replace"},
         Continue(w, r, e, next), WorkerInv(w)'
  PROVE  Inv'
<1>1. /\ schedule' = schedule
      /\ pc' = [pc EXCEPT ![w] = next]
      /\ request' = [request EXCEPT ![w] = r]
      /\ entity' = [entity EXCEPT ![w] = e]
  BY DEF Continue
<1>2. ASSUME NEW v \in Workers
      PROVE  WorkerInv(v)'
  <2>1. CASE v = w
    BY <2>1
  <2>2. CASE v # w
    <3>1. pc'[v] = pc[v] /\ request'[v] = request[v] /\ entity'[v] = entity[v]
      BY <1>1, <2>2 DEF Inv
    <3>. QED
      BY <1>1, <3>1, OthersWait
  <2>. QED
    BY <2>1, <2>2
<1>3. pc' \in [Workers -> {"idle", "roster", "replace"}]
  BY <1>1 DEF Inv
<1>4. request' = [v \in Workers |-> request'[v]] /\ entity' = [v \in Workers |-> entity'[v]]
  BY <1>1 DEF Inv
<1>. QED
  BY <1>1, <1>2, <1>3, <1>4 DEF Inv, Sound

\* What w holds after such a read.
LEMMA Continued ==
  ASSUME Inv, NEW w \in Workers, NEW r, NEW e, NEW next, Continue(w, r, e, next)
  PROVE  pc'[w] = next /\ request'[w] = r /\ entity'[w] = e /\ schedule' = schedule
BY DEF Continue, Inv

LEMMA CreateKeepsInv ==
  ASSUME Inv, NEW w \in Workers, ScheduleCreate(w)
  PROVE  Inv'
<1>1. PICK plan \in Plans, start \in StartDates : schedule' = Created(plan, start)
  BY DEF ScheduleCreate
<1>2. Sound(schedule')
  BY <1>1, CreatedIsSound, DatesAssumption DEF Sound
<1>3. pc' = pc /\ request' = request /\ entity' = entity /\ schedule = NoSchedule
  BY DEF ScheduleCreate
<1>4. ASSUME NEW v \in Workers
      PROVE  WorkerInv(v)'
  BY <1>3 DEF Inv, WorkerInv
<1>. QED
  BY <1>2, <1>3, <1>4 DEF Inv, Sound

LEMMA UpdateReadKeepsInv ==
  ASSUME Inv, NEW w \in Workers, ScheduleUpdateRead(w)
  PROVE  Inv'
<1>1. PICK r \in ScheduleUpdates :
        /\ ~ RegenerationRefused(schedule, r.plan)
        /\ Continue(w, [op |-> r.op], ScheduleUpdated(schedule, r.plan, r.start), "replace")
  BY DEF ScheduleUpdateRead
<1>2. schedule # NoSchedule /\ Sound(schedule)
  BY DEF ScheduleUpdateRead, Inv
<1>3. r.op = "schedule" /\ r.plan \in Plans /\ r.start \in Nat
  BY DatesAssumption DEF ScheduleUpdates
<1> DEFINE e == ScheduleUpdated(schedule, r.plan, r.start)
<1>4. Sound(e) /\ KeepsHeld(schedule, e)
  BY <1>1, <1>2, <1>3, ScheduleUpdatedIsSound DEF Sound
<1>5. /\ pc'[w] = "replace" /\ request'[w] = [op |-> "schedule"] /\ entity'[w] = e
      /\ schedule' = schedule
  BY <1>1, <1>3, Continued
<1> HIDE DEF e
<1>6. WorkerInv(w)'
  BY <1>2, <1>4, <1>5 DEF WorkerInv, EntityIsCurrent, EntityKeepsHeld, Sound
<1>. QED
  BY <1>1, <1>6, ContinueKeepsInv

LEMMA DeleteReadKeepsInv ==
  ASSUME Inv, NEW w \in Workers, SessionDeleteRead(w)
  PROVE  Inv'
<1>1. PICK n \in ActiveSessions(schedule) \ HeldSessions(schedule) :
        Continue(w, [op |-> "delete"], SessionDeleted(schedule, n), "replace")
  BY DEF SessionDeleteRead
<1>2. schedule # NoSchedule /\ Sound(schedule)
  BY DEF SessionDeleteRead, Inv
<1> DEFINE e == SessionDeleted(schedule, n)
<1>3. Sound(e) /\ KeepsHeld(schedule, e)
  BY <1>2, SessionDeletedIsSound DEF Sound
<1>4. /\ pc'[w] = "replace" /\ request'[w] = [op |-> "delete"] /\ entity'[w] = e
      /\ schedule' = schedule
  BY <1>1, Continued
<1> HIDE DEF e
<1>5. WorkerInv(w)'
  BY <1>2, <1>3, <1>4 DEF WorkerInv, EntityIsCurrent, EntityKeepsHeld, Sound
<1>. QED
  BY <1>1, <1>5, ContinueKeepsInv

LEMMA SessionReadKeepsInv ==
  ASSUME Inv, NEW w \in Workers, SessionUpdateRead(w)
  PROVE  Inv'
<1>1. PICK n \in ActiveSessions(schedule) : \E r \in SessionUpdates(n) :
        Continue(w, r, schedule, "roster")
  BY DEF SessionUpdateRead
<1>2. PICK r \in SessionUpdates(n) : Continue(w, r, schedule, "roster")
  BY <1>1
<1>3. schedule # NoSchedule /\ r.op = "session"
  BY DEF SessionUpdateRead, SessionUpdates
<1>4. pc'[w] = "roster" /\ request'[w] = r /\ entity'[w] = schedule /\ schedule' = schedule
  BY <1>2, Continued
<1>5. WorkerInv(w)'
  BY <1>3, <1>4 DEF WorkerInv, EntityIsCurrent
<1>. QED
  BY <1>2, <1>5, ContinueKeepsInv

LEMMA RosterKeepsInv ==
  ASSUME Inv, NEW w \in Workers, SessionUpdateRoster(w)
  PROVE  Inv'
<1>1. pc[w] = "roster" /\ WorkerInv(w) /\ schedule # NoSchedule
  BY DEF SessionUpdateRoster, Inv, WorkerInv
<1>2. CASE entity[w] = Stale /\ Continue(w, Refused, Stale, "replace")
  <2>1. pc'[w] = "replace" /\ request'[w] = Refused /\ entity'[w] = Stale /\ schedule' = schedule
    BY <1>2, Continued
  <2>2. WorkerInv(w)'
    BY <1>1, <2>1 DEF WorkerInv, Refused
  <2>. QED
    BY <1>2, <2>2, ContinueKeepsInv
<1>3. CASE entity[w] # Stale /\ \E roster \in SUBSET Students :
             LET r == request[w]
                 e == SessionUpdated(entity[w], r.session, r.status, r.date, r.marks, roster)
             IN  Continue(w, Edits(r, roster), e, "replace")
  <2> DEFINE r == request[w]
             e(roster) == SessionUpdated(schedule, r.session, r.status, r.date, r.marks, roster)
  <2>1. entity[w] = schedule
    BY <1>1, <1>3 DEF WorkerInv, EntityIsCurrent
  <2>2. PICK n \in ActiveSessions(schedule) : r \in SessionUpdates(n)
    BY <1>1, <1>3 DEF WorkerInv, EntityIsCurrent
  <2>3. /\ r.op = "session" /\ r.session = n /\ r.marks \in Attendances
        /\ r.status \in Statuses \cup {Null} /\ r.date \in Nat \cup {Null}
    BY <2>2, DatesAssumption DEF SessionUpdates
  <2>4. PICK roster \in SUBSET Students : Continue(w, Edits(r, roster), e(roster), "replace")
    BY <1>3, <2>1
  <2>5. /\ Sound(e(roster))
        /\ KeepsHeldBut(schedule, e(roster), {n}, DOMAIN r.marks, Students \ roster)
    <3>1. IsSchedule(schedule) /\ StartsInTime(schedule)
      BY <1>1 DEF Inv, Sound
    <3>. QED
      BY <2>3, <3>1, SessionUpdatedIsSound DEF Sound
  <2> DEFINE f == e(roster)  q == Edits(r, roster)
  <2>6. /\ q.op = "session" /\ q.session = n /\ q.names = DOMAIN r.marks
        /\ q.gone = Students \ roster
    BY <2>3 DEF Edits
  <2>7. pc'[w] = "replace" /\ request'[w] = q /\ entity'[w] = f /\ schedule' = schedule
    BY <2>4, Continued
  <2>8. Sound(f) /\ KeepsHeldBut(schedule, f, {n}, DOMAIN r.marks, Students \ roster)
    BY <2>5
  <2> HIDE DEF f, q, r
  <2>9. WorkerInv(w)'
    BY <1>1, <2>6, <2>7, <2>8 DEF WorkerInv, EntityIsCurrent, EntityKeepsHeld, Sound
  <2>10. Continue(w, q, f, "replace")
    BY <2>4 DEF f, q
  <2>. QED
    BY <2>9, <2>10, ContinueKeepsInv
<1>. QED
  BY <1>2, <1>3 DEF SessionUpdateRoster

\* The answers: entities of the others are stale if the document was replaced.
LEMMA ReplaceKeepsInv ==
  ASSUME Inv, NEW w \in Workers, Replace(w)
  PROVE  Inv'
<1>1. pc[w] = "replace" /\ Reply(w) /\ WorkerInv(w) /\ schedule # NoSchedule
  BY DEF Replace, Inv, WorkerInv
<1>2. /\ pc' = [pc EXCEPT ![w] = "idle"]
      /\ request' = [v \in Workers |-> IF v = w THEN NoRequest
                                       ELSE IF entity'[v] = Stale THEN Refused
                                       ELSE request[v]]
  BY <1>1 DEF Reply
<1>3. pc' \in [Workers -> {"idle", "roster", "replace"}] /\ pc'[w] = "idle"
  BY <1>2 DEF Inv
<1>4. CASE entity[w] # Stale /\ schedule' = entity[w] /\ entity' = EntitiesAfter(w)
  <2>1. Sound(schedule') /\ schedule' # NoSchedule
    <3>1. Sound(entity[w])
      BY <1>1, <1>4 DEF WorkerInv, EntityIsCurrent
    <3>. QED
      BY <1>4, <3>1, NoScheduleAssumption DEF Sound
  <2>2. ASSUME NEW v \in Workers
        PROVE  WorkerInv(v)'
    <3>1. pc'[v] = (IF v = w THEN "idle" ELSE pc[v])
      BY <1>2 DEF Inv
    <3>2. entity'[v] = (IF v = w \/ pc[v] = "idle" THEN NoSchedule ELSE Stale)
      BY <1>4 DEF EntitiesAfter
    <3>3. WorkerInv(v)
      BY DEF Inv
    <3>. QED
      BY <1>2, <2>1, <3>1, <3>2, <3>3, NoScheduleAssumption
         DEF WorkerInv, NoRequest, Refused
  <2>3. entity' = [v \in Workers |-> entity'[v]]
    BY <1>4 DEF EntitiesAfter
  <2>. QED
    BY <1>2, <1>3, <2>1, <2>2, <2>3 DEF Inv, Sound
<1>5. CASE schedule' = schedule /\ entity' = [entity EXCEPT ![w] = NoSchedule]
  <2>1. ASSUME NEW v \in Workers
        PROVE  WorkerInv(v)'
    <3>1. pc'[v] = (IF v = w THEN "idle" ELSE pc[v])
      BY <1>2 DEF Inv
    <3>2. entity'[v] = (IF v = w THEN NoSchedule ELSE entity[v])
      BY <1>5 DEF Inv
    <3>3. WorkerInv(v)
      BY DEF Inv
    <3>4. CASE v = w
      BY <1>2, <3>1, <3>2, <3>4 DEF WorkerInv, NoRequest
    <3>5. CASE v # w /\ entity[v] = Stale
      BY <1>2, <1>5, <3>1, <3>2, <3>3, <3>5, NoScheduleAssumption DEF WorkerInv, Refused
    <3>6. CASE v # w /\ entity[v] # Stale
      BY <1>2, <1>5, <3>1, <3>2, <3>6, OthersWait
    <3>. QED
      BY <3>4, <3>5, <3>6
  <2>2. entity' = [v \in Workers |-> entity'[v]]
    BY <1>5 DEF Inv
  <2>. QED
    BY <1>2, <1>3, <1>5, <2>1, <2>2 DEF Inv, Sound
<1>. QED
  BY <1>4, <1>5 DEF Replace

LEMMA AbandonKeepsInv ==
  ASSUME Inv, NEW w \in Workers, Abandon(w)
  PROVE  Inv'
<1>1. /\ pc' = [pc EXCEPT ![w] = "idle"]
      /\ request' = [v \in Workers |-> IF v = w THEN NoRequest
                                       ELSE IF entity'[v] = Stale THEN Refused
                                       ELSE request[v]]
      /\ entity' = [entity EXCEPT ![w] = NoSchedule]
      /\ schedule' = schedule
  BY DEF Abandon, Reply
<1>2. ASSUME NEW v \in Workers
      PROVE  WorkerInv(v)'
  <2>1. pc'[v] = (IF v = w THEN "idle" ELSE pc[v])
    BY <1>1 DEF Inv
  <2>2. entity'[v] = (IF v = w THEN NoSchedule ELSE entity[v])
    BY <1>1 DEF Inv
  <2>3. WorkerInv(v)
    BY DEF Inv
  <2>4. CASE v = w
    BY <1>1, <2>1, <2>2, <2>4 DEF WorkerInv, NoRequest
  <2>5. CASE v # w /\ entity[v] = Stale
    BY <1>1, <2>1, <2>2, <2>3, <2>5, NoScheduleAssumption DEF WorkerInv, Refused
  <2>6. CASE v # w /\ entity[v] # Stale
    BY <1>1, <2>1, <2>2, <2>6, OthersWait
  <2>. QED
    BY <2>4, <2>5, <2>6
<1>3. pc' \in [Workers -> {"idle", "roster", "replace"}]
  BY <1>1 DEF Inv
<1>4. entity' = [v \in Workers |-> entity'[v]]
  BY <1>1 DEF Inv
<1>. QED
  BY <1>1, <1>2, <1>3, <1>4 DEF Inv, Sound

LEMMA NextKeepsInv == Inv /\ [Next]_vars => Inv'
<1> SUFFICES ASSUME Inv, [Next]_vars
             PROVE  Inv'
  OBVIOUS
<1>1. CASE UNCHANGED vars
  BY <1>1 DEF vars, Inv, WorkerInv, EntityIsCurrent, EntityKeepsHeld, Sound
<1>2. CASE Next
  BY <1>2, CreateKeepsInv, UpdateReadKeepsInv, SessionReadKeepsInv, RosterKeepsInv,
     DeleteReadKeepsInv, ReplaceKeepsInv, AbandonKeepsInv DEF Next
<1>. QED
  BY <1>1, <1>2

LEMMA InvHolds == Spec => []Inv
BY InvInit, NextKeepsInv, PTL DEF Spec

\* The types, for any number of requests on a schedule.
THEOREM TypeCorrect == Spec => []TypeOK
BY InvHolds, InvImpliesTypeOK, PTL

\* Start and end of a schedule frame its sessions, whatever plans it has followed
\* and however the requests that edit it overlap.
THEOREM PlanSpans == Spec => []PlanSpansItsSessions
<1>1. Inv => PlanSpansItsSessions
  BY DEF Inv, Sound, StartsInTime, EndsWithLast, PlanSpansItsSessions,
         ProjectedEndIsLastSession, NoSessionBeforeStart
<1>. QED
  BY <1>1, InvHolds, PTL

\* The document changes by a Replace of an entity that keeps what was held.
LEMMA ScheduleSteps ==
  ASSUME Inv, [Next]_vars, schedule # NoSchedule
  PROVE  \/ schedule' = schedule
         \/ \E w \in Workers : /\ Replace(w)
                               /\ schedule' = entity[w] /\ EntityKeepsHeld(w)
<1>1. ASSUME NEW w \in Workers, Replace(w), schedule' # schedule
      PROVE  schedule' = entity[w] /\ EntityKeepsHeld(w)
  <2>1. pc[w] = "replace" /\ entity[w] # Stale /\ schedule' = entity[w]
    BY <1>1 DEF Replace
  <2>. QED
    BY <2>1 DEF Inv, WorkerInv, EntityIsCurrent
<1>2. CASE UNCHANGED vars
  BY <1>2 DEF vars
<1>3. CASE Next
  <2> PICK w \in Workers : \/ ScheduleCreate(w) \/ ScheduleUpdateRead(w)
                           \/ SessionUpdateRead(w) \/ SessionUpdateRoster(w)
                           \/ SessionDeleteRead(w) \/ Replace(w) \/ Abandon(w)
    BY <1>3 DEF Next
  <2>1. CASE Replace(w)
    BY <1>1, <2>1
  <2>2. CASE ~ Replace(w)
    BY <2>2 DEF ScheduleCreate, ScheduleUpdateRead, SessionUpdateRead,
       SessionUpdateRoster, SessionDeleteRead, Abandon, Continue
  <2>. QED
    BY <2>1, <2>2
<1>. QED
  BY <1>2, <1>3

\* Regenerations, shifts, deletions and the updates of other sessions leave a
\* session alone once it was held, however they interleave.
THEOREM HeldSessionsAreKept == Spec => HeldSessionsKept
<1> DEFINE Kept ==
      schedule # NoSchedule =>
         \A n \in HeldSessions(schedule) :
           \/ /\ n \in ActiveSessions(schedule')
              /\ schedule'.sessions[n].date = schedule.sessions[n].date
              /\ schedule'.sessions[n].status = schedule.sessions[n].status
           \/ \E w \in Workers : Replace(w) /\ request[w].op = "session"
                                   /\ request[w].session = n
<1>1. ASSUME Inv, [Next]_vars
      PROVE  Kept
  <2> SUFFICES ASSUME schedule # NoSchedule, NEW n \in HeldSessions(schedule)
               PROVE  \/ KeepsSession(schedule, schedule', n)
                      \/ \E w \in Workers : Replace(w) /\ request[w].op = "session"
                                              /\ request[w].session = n
    BY DEF KeepsSession
  <2>1. CASE schedule' = schedule
    BY <2>1 DEF KeepsSession, HeldSessions, Held, ActiveSessions
  <2>2. ASSUME NEW w \in Workers, Replace(w),
               schedule' = entity[w], EntityKeepsHeld(w)
        PROVE  \/ KeepsSession(schedule, schedule', n)
               \/ Replace(w) /\ request[w].op = "session" /\ request[w].session = n
    BY <2>2 DEF EntityKeepsHeld, KeepsHeld, KeepsHeldBut
  <2>. QED
    BY <1>1, <2>1, <2>2, ScheduleSteps
<1>2. Inv /\ [Next]_vars => [Kept]_vars
  BY <1>1
<1>. QED
  BY <1>2, InvHolds, PTL DEF Spec, HeldSessionsKept

\* A recorded mark survives everything but a PUT of its session that names the
\* student, or the student's leaving.
THEOREM MarksAreKept == Spec => MarksKept
<1> DEFINE Excused(n, s) ==
      \E w \in Workers :
        /\ Replace(w)
        /\ request[w].op = "session"
        /\ \/ s \in request[w].gone
           \/ request[w].session = n /\ s \in request[w].names
    Kept ==
      schedule # NoSchedule =>
         \A n \in HeldSessions(schedule) :
           LET marks == schedule.sessions[n].attendance
           IN  \A s \in DOMAIN marks : marks[s] # "pending" =>
                 \/ /\ n \in DOMAIN schedule'.sessions
                    /\ s \in DOMAIN schedule'.sessions[n].attendance
                    /\ schedule'.sessions[n].attendance[s] = marks[s]
                 \/ Excused(n, s)
<1>1. ASSUME Inv, [Next]_vars
      PROVE  Kept
  <2> SUFFICES ASSUME schedule # NoSchedule, NEW n \in HeldSessions(schedule),
                      NEW s, IsRecorded(schedule, n, s)
               PROVE  KeepsMark(schedule, schedule', n, s) \/ Excused(n, s)
    BY DEF KeepsMark, IsRecorded
  <2>1. CASE schedule' = schedule
    BY <2>1 DEF KeepsMark, IsRecorded, HeldSessions
  <2>2. ASSUME NEW w \in Workers, Replace(w),
               schedule' = entity[w], EntityKeepsHeld(w)
        PROVE  KeepsMark(schedule, schedule', n, s) \/ Excused(n, s)
    BY <2>2 DEF EntityKeepsHeld, KeepsHeld, KeepsHeldBut
  <2>. QED
    BY <1>1, <2>1, <2>2, ScheduleSteps
<1>2. Inv /\ [Next]_vars => [Kept]_vars
  BY <1>1
<1>. QED
  BY <1>2, InvHolds, PTL DEF Spec, MarksKept

=============================================================================
