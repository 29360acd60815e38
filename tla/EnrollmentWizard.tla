--------------------------- MODULE EnrollmentWizard ---------------------------
(***************************************************************************)
(* The enrollment form of the web application (enrollment-wizard.tsx): one *)
(* submission is a chain of up to five POSTs (the new student, one or two  *)
(* enrollments, one or two initial payments) with no transaction and no    *)
(* compensation.  Each POST may be refused, or may time out with its       *)
(* effect made or not.  The dialog can be dismissed and opened again while *)
(* a submission runs; handleSubmit goes on with the values it closed over. *)
(*                                                                         *)
(* The server answers one POST at a time; how two POSTs can overlap inside *)
(* it is EnrollmentDesk's subject.  A form whose own submission runs is    *)
(* not edited: handleSubmit would not see the edit.                        *)
(***************************************************************************)
EXTENDS Naturals, FiniteSets

CONSTANTS
    Students,       \* registered students
    Documents,      \* identity documents of people not registered yet
    Schedules,
    InitialPayments,\* what can be entered: [total, basico, avanzado, method]
    MaxSubmissions, \* bound: submissions
    MaxOpenings,    \* bound: times the dialog is opened
    MaxFaults,      \* bound: POSTs that fail for no reason the form can see
    None

ASSUME NoneAssumption == None \notin Students \cup Documents \cup Schedules

ASSUME PaymentAssumption ==
    InitialPayments \subseteq [total : Nat, basico : Nat, avanzado : Nat,
                               method : BOOLEAN]

ASSUME BoundsAssumption ==
    MaxSubmissions \in Nat \ {0} /\ MaxOpenings \in Nat /\ MaxFaults \in Nat

VARIABLES
    openings,   \* which opening of the dialog this is
    open,
    form,       \* the useState fields of the open dialog
    pc,         \* the POST each submission awaits
    asked,      \* the values each handleSubmit closed over
    student,    \* resolvedStudentId of each submission
    opening,    \* the opening a submission was started from
    failures,   \* legs of a pack whose payment has failed
    toast,      \* how a finished submission was reported
    registered, \* documents of the students the wizard has created
    enrolled,   \* active enrollments, as pairs of a student and a schedule
    payments,   \* recorded payments
    faults      \* counter of its bound

dialog == <<openings, open, form>>
submission == <<pc, asked, student, opening, failures, toast>>
server == <<registered, enrolled, payments>>
vars == <<dialog, submission, server, faults>>

Submissions == 1 .. MaxSubmissions
People == Students \cup Documents
POST == {"student", "enrollment", "enrollment2", "payment", "payment2"}

NoPayment == [total |-> 0, basico |-> 0, avanzado |-> 0, method |-> FALSE]

\* The fields of the form that decide what a submission does.
Form == [studentId : Students \cup {None}, scheduleId : Schedules \cup {None},
         isPack : BOOLEAN, scheduleId2 : Schedules \cup {None},
         showNewStudent : BOOLEAN, newStudent : Documents \cup {None},
         initial : InitialPayments \cup {NoPayment}]

\* What a submission asks for: fields that are hidden do not count.
Request == [newStudent : Documents \cup {None}, isPack : BOOLEAN,
            scheduleId : Schedules \cup {None}, scheduleId2 : Schedules \cup {None},
            initial : InitialPayments \cup {NoPayment}]

Blank == [studentId |-> None, scheduleId |-> None, isPack |-> FALSE,
          scheduleId2 |-> None, showNewStudent |-> FALSE, newStudent |-> None,
          initial |-> NoPayment]

Requested(f) ==
    [newStudent |-> IF f.showNewStudent THEN f.newStudent ELSE None,
     isPack |-> f.isPack, scheduleId |-> f.scheduleId,
     scheduleId2 |-> IF f.isPack THEN f.scheduleId2 ELSE None,
     initial |-> f.initial]

Payment == [by : Submissions, enrollment : People \X Schedules,
            amount : Nat \ {0}]

Running(s) == pc[s] \in POST
isSubmitting == \E s \in Submissions : Running(s) /\ opening[s] = openings

\* Types; a running submission knows whom it enrols once the student exists.
TypeOK ==
    /\ openings \in 0 .. MaxOpenings /\ open \in BOOLEAN
    /\ form \in Form
    /\ pc \in [Submissions -> POST \cup {"unused", "ended"}]
    /\ asked \in [Submissions -> Request]
    /\ student \in [Submissions -> People \cup {None}]
    /\ opening \in [Submissions -> 0 .. MaxOpenings]
    /\ failures \in [Submissions -> SUBSET {"basico", "avanzado"}]
    /\ toast \in [Submissions -> {"none", "success", "warning", "error"}]
    /\ registered \subseteq Documents
    /\ enrolled \subseteq People \X Schedules
    /\ payments \subseteq Payment
    /\ faults \in 0 .. MaxFaults
    /\ \A s \in Submissions :
         pc[s] \in POST \ {"student"} => student[s] \in Students \cup registered

Init ==
    /\ openings = 0 /\ open = FALSE /\ form = Blank
    /\ pc = [s \in Submissions |-> "unused"]
    /\ asked = [s \in Submissions |-> Requested(Blank)]
    /\ student = [s \in Submissions |-> None]
    /\ opening = [s \in Submissions |-> 0]
    /\ failures = [s \in Submissions |-> {}]
    /\ toast = [s \in Submissions |-> "none"]
    /\ registered = {} /\ enrolled = {} /\ payments = {}
    /\ faults = 0

-----------------------------------------------------------------------------
(* The dialog and its fields                                                *)

\* The page mounts the wizard afresh.
OpenWizard ==
    /\ ~open /\ openings < MaxOpenings
    /\ open' = TRUE /\ openings' = openings + 1
    /\ UNCHANGED <<form, submission, server, faults>>

\* The dialog is unmounted and its fields are gone.
Unmounted == open' = FALSE /\ form' = Blank

\* Escape, the overlay and the close button dismiss the dialog at any time;
\* only the Cancel button waits for the submission.
Dismiss ==
    /\ open /\ Unmounted
    /\ UNCHANGED <<openings, submission, server, faults>>

Edit(fields) ==
    /\ open /\ ~isSubmitting
    /\ pc[MaxSubmissions] = "unused"
    /\ form' = fields
    /\ UNCHANGED <<openings, open, submission, server, faults>>

TogglePack == Edit([form EXCEPT !.isPack = ~@])

handleToggleNewStudent ==
    Edit([form EXCEPT !.showNewStudent = ~@,
                      !.studentId = IF form.showNewStudent THEN @ ELSE None])

PickStudent == \E s \in Students : ~form.showNewStudent /\ Edit([form EXCEPT !.studentId = s])

\* The document, the first and the last name of a student to be created.
FillNewStudent ==
    \E d \in Documents : form.showNewStudent /\ Edit([form EXCEPT !.newStudent = d])

PickSchedule == \E c \in Schedules : Edit([form EXCEPT !.scheduleId = c])

PickSecondSchedule ==
    \E c \in Schedules : form.isPack /\ Edit([form EXCEPT !.scheduleId2 = c])

EnterPayment == \E i \in InitialPayments : Edit([form EXCEPT !.initial = i])

-----------------------------------------------------------------------------
(* handleSubmit up to its first POST                                        *)

\* packRemainingCents of what was entered is not zero, or no method is chosen.
Unreconciled(f) ==
    /\ f.isPack /\ f.initial.total > 0
    /\ ~f.initial.method \/ f.initial.total # f.initial.basico + f.initial.avanzado

Submit(s) ==
    /\ pc[s] = "unused" /\ \A r \in 1 .. s - 1 : pc[r] # "unused"
    /\ open /\ ~isSubmitting
    /\ form.scheduleId # None
    /\ form.isPack => form.scheduleId2 \notin {None, form.scheduleId}
    /\ \/ form.showNewStudent /\ form.newStudent # None
          /\ pc' = [pc EXCEPT ![s] = "student"]
       \/ ~form.showNewStudent /\ form.studentId # None /\ ~Unreconciled(form)
          /\ pc' = [pc EXCEPT ![s] = "enrollment"]
    /\ asked' = [asked EXCEPT ![s] = Requested(form)]
    /\ student' = [student EXCEPT ![s] = form.studentId]
    /\ opening' = [opening EXCEPT ![s] = openings]
    /\ UNCHANGED <<dialog, failures, toast, server, faults>>

-----------------------------------------------------------------------------
(* The POSTs of handleSubmit                                                *)

Goto(s, next) ==
    pc' = [pc EXCEPT ![s] = next] /\ UNCHANGED <<toast, dialog>>

\* An error of the first POSTs leaves the dialog as it is.
Fail(s) ==
    /\ pc' = [pc EXCEPT ![s] = "ended"] /\ toast' = [toast EXCEPT ![s] = "error"]
    /\ UNCHANGED dialog

\* Mutant of Close: the dialog goes away without a word.
CloseSilently(s, how) ==
    /\ pc' = [pc EXCEPT ![s] = "ended"] /\ UNCHANGED toast
    /\ Unmounted /\ UNCHANGED openings

\* onSuccess and onOpenChange(false): the page closes whatever wizard is open.
Close(s, how) ==
    /\ pc' = [pc EXCEPT ![s] = "ended"] /\ toast' = [toast EXCEPT ![s] = how]
    /\ Unmounted /\ UNCHANGED openings

\* The server refuses, or the request is aborted after 30 seconds.
Fault == faults < MaxFaults /\ faults' = faults + 1

NoFault == UNCHANGED faults

\* Mutant of CreateStudent: the id of the new student is not kept.
CreateStudentUnresolved(s) ==
    /\ pc[s] = "student"
    /\ LET d == asked[s].newStudent IN
       \/ /\ d \notin registered /\ registered' = registered \cup {d}
          /\ UNCHANGED student
          /\ IF Unreconciled(asked[s]) THEN Fail(s) ELSE Goto(s, "enrollment")
          /\ NoFault
       \/ d \in registered /\ Fail(s) /\ NoFault /\ UNCHANGED <<registered, student>>
    /\ UNCHANGED <<asked, opening, failures, enrolled, payments>>

\* POST /students: the document is unique.  The distribution of the payment of
\* a pack is only checked when the student exists.
CreateStudent(s) ==
    /\ pc[s] = "student"
    /\ LET d == asked[s].newStudent IN
       \/ /\ d \notin registered /\ registered' = registered \cup {d}
          /\ student' = [student EXCEPT ![s] = d]
          /\ IF Unreconciled(asked[s]) THEN Fail(s) ELSE Goto(s, "enrollment")
          /\ NoFault
       \/ d \in registered /\ Fail(s) /\ NoFault /\ UNCHANGED <<registered, student>>
       \/ /\ Fault /\ Fail(s) /\ UNCHANGED student
          /\ registered' \in {registered, registered \cup {d}}
    /\ UNCHANGED <<asked, opening, failures, enrolled, payments>>

\* What follows when every enrollment of the submission exists.
AfterEnrollments(s) ==
    LET f == asked[s] IN
    IF f.isPack
    THEN IF f.initial.total = 0 THEN Close(s, "success")
         ELSE Goto(s, IF f.initial.basico > 0 THEN "payment" ELSE "payment2")
    ELSE IF f.initial.basico = 0 THEN Close(s, "success")
    ELSE IF ~f.initial.method THEN Close(s, "warning") ELSE Goto(s, "payment")

\* POST /enrollments: one active enrollment per student and schedule.
Enroll(s, schedule, success, failure) ==
    /\ \/ /\ <<student[s], schedule>> \notin enrolled
          /\ enrolled' = enrolled \cup {<<student[s], schedule>>}
          /\ success /\ NoFault
       \/ /\ <<student[s], schedule>> \in enrolled
          /\ failure /\ NoFault /\ UNCHANGED enrolled
       \/ /\ Fault /\ failure
          /\ enrolled' \in {enrolled, enrolled \cup {<<student[s], schedule>>}}
    /\ UNCHANGED <<asked, student, opening, failures, registered, payments>>

\* Mutant of CreateEnrollment: a conflict is taken as already enrolled.
CreateEnrollmentOnConflict(s) ==
    /\ pc[s] = "enrollment"
    /\ LET c == asked[s].scheduleId
           next == IF asked[s].isPack THEN Goto(s, "enrollment2")
                   ELSE AfterEnrollments(s)
       IN Enroll(s, c, next, IF <<student[s], c>> \in enrolled THEN next ELSE Fail(s))

CreateEnrollment(s) ==
    /\ pc[s] = "enrollment"
    /\ Enroll(s, asked[s].scheduleId,
              IF asked[s].isPack THEN Goto(s, "enrollment2") ELSE AfterEnrollments(s),
              Fail(s))

\* The first enrollment stays when the second fails, and no payment is made.
CreateSecondEnrollment(s) ==
    /\ pc[s] = "enrollment2"
    /\ Enroll(s, asked[s].scheduleId2, AfterEnrollments(s), Close(s, "warning"))

Pay(s, schedule, amount) ==
    payments' = payments \cup
        {[by |-> s, enrollment |-> <<student[s], schedule>>, amount |-> amount]}

\* One POST /student-payments of the leg; next(failed legs) follows it.
PayLeg(s, leg, schedule, amount) ==
    /\ \/ Pay(s, schedule, amount) /\ NoFault /\ UNCHANGED failures
       \/ /\ Fault /\ failures' = [failures EXCEPT ![s] = @ \cup {leg}]
          /\ Pay(s, schedule, amount) \/ UNCHANGED payments
    /\ UNCHANGED <<asked, student, opening, registered, enrolled>>

Report(s) == Close(s, IF failures'[s] = {} THEN "success" ELSE "warning")

createInitialPayment(s) ==
    /\ pc[s] = "payment"
    /\ PayLeg(s, "basico", asked[s].scheduleId, asked[s].initial.basico)
    /\ IF asked[s].isPack /\ asked[s].initial.avanzado > 0 THEN Goto(s, "payment2")
       ELSE Report(s)

\* Mutant of PaySecondLeg: the second leg is the only one that is reported.
PaySecondLegForgets(s) ==
    /\ pc[s] = "payment2"
    /\ PayLeg(s, "avanzado", asked[s].scheduleId2, asked[s].initial.avanzado)
    /\ Close(s, IF "avanzado" \in failures'[s] THEN "warning" ELSE "success")

PaySecondLeg(s) ==
    /\ pc[s] = "payment2"
    /\ PayLeg(s, "avanzado", asked[s].scheduleId2, asked[s].initial.avanzado)
    /\ Report(s)

-----------------------------------------------------------------------------

Fields ==
    \/ TogglePack \/ handleToggleNewStudent \/ PickStudent \/ FillNewStudent
    \/ PickSchedule \/ PickSecondSchedule \/ EnterPayment

handleSubmit(s) ==
    \/ CreateStudent(s) \/ CreateEnrollment(s) \/ CreateSecondEnrollment(s)
    \/ createInitialPayment(s) \/ PaySecondLeg(s)

Next ==
    \/ OpenWizard \/ Dismiss \/ Fields
    \/ \E s \in Submissions : Submit(s) \/ handleSubmit(s)

Spec == Init /\ [][Next]_vars

\* Every await of handleSubmit settles: the client aborts a request after 30 s.
FairSpec == Spec /\ \A s \in Submissions : WF_vars(handleSubmit(s))

-----------------------------------------------------------------------------
(* Properties                                                               *)

Legs(s) == {asked[s].scheduleId} \cup
           (IF asked[s].isPack THEN {asked[s].scheduleId2} ELSE {})

AmountOf(s, schedule) ==
    IF schedule = asked[s].scheduleId
    THEN IF asked[s].isPack /\ asked[s].initial.total = 0 THEN 0
         ELSE asked[s].initial.basico
    ELSE IF asked[s].initial.total = 0 THEN 0 ELSE asked[s].initial.avanzado

\* The toast of a submission tells what it has left on the server: after a
\* success every enrollment and every payment that was asked for is there, after
\* a warning at least the first enrollment is, and after an error no payment of
\* it is (lines 186-323 of the wizard).
ToastTellsOutcome ==
    \A s \in Submissions :
        /\ toast[s] = "success" =>
             \A c \in Legs(s) :
                /\ <<student[s], c>> \in enrolled
                /\ AmountOf(s, c) > 0 => \E p \in payments :
                     /\ p.by = s /\ p.amount = AmountOf(s, c)
                     /\ p.enrollment = <<student[s], c>>
        /\ toast[s] = "warning" => <<student[s], asked[s].scheduleId>> \in enrolled
        /\ toast[s] = "error" => \A p \in payments : p.by # s

\* However submissions are repeated after an error, a timeout or a dismissed
\* dialog, an enrollment gets one initial payment: the refusal of the second
\* enrollment is what keeps the money from being recorded twice.
InitialPaymentOnce ==
    \A p, q \in payments : p.enrollment = q.enrollment => p = q

\* Every submission is reported in the end, whatever fails on its way.
SubmissionsAreReported ==
    \A s \in Submissions : Running(s) ~> toast[s] # "none"
=============================================================================
