------------------------ MODULE EnrollmentWizardProofs ------------------------
(***************************************************************************)
(* Theorems about EnrollmentWizard, for any number of students, schedules, *)
(* submissions, openings of the dialog and faults: the types, what the     *)
(* toast of a submission says about the server, and that no enrollment     *)
(* gets two initial payments.                                              *)
(***************************************************************************)
EXTENDS EnrollmentWizard, TLAPS

\* The pairs a submission enrols.
First(s) == <<student[s], asked[s].scheduleId>>
Second(s) == <<student[s], asked[s].scheduleId2>>

UnpaidPC == {"unused", "student", "enrollment", "enrollment2", "payment"}
PaidUp(s, pair, amount) == [by |-> s, enrollment |-> pair, amount |-> amount] \in payments

\* What handleSubmit has checked, by the POST it has reached.
RequestInv(s) ==
    /\ pc[s] # "unused" =>
         /\ asked[s].scheduleId \in Schedules
         /\ asked[s].isPack =>
              asked[s].scheduleId2 \in Schedules \ {asked[s].scheduleId}
    /\ pc[s] = "student" => asked[s].newStudent \in Documents
    /\ pc[s] \in POST \ {"student"} =>
         student[s] \in Students \cup registered /\ ~Unreconciled(asked[s])
    /\ pc[s] \in {"enrollment2", "payment2"} => asked[s].isPack
    /\ pc[s] = "payment" => asked[s].initial.basico > 0
    /\ pc[s] = "payment2" => asked[s].initial.avanzado > 0
    /\ pc[s] \in {"payment", "payment2"} /\ asked[s].isPack => asked[s].initial.total > 0

\* What it has left on the server by then, and what its toast has to tell.
OutcomeInv(s) ==
    /\ pc[s] \in UnpaidPC => failures[s] = {} /\ \A p \in payments : p.by # s
    /\ pc[s] # "ended" => toast[s] = "none"
    /\ pc[s] \in {"enrollment2", "payment", "payment2"} => First(s) \in enrolled
    /\ pc[s] \in {"payment", "payment2"} /\ asked[s].isPack => Second(s) \in enrolled
    /\ pc[s] = "payment2" /\ failures[s] = {} /\ asked[s].initial.basico > 0 =>
         PaidUp(s, First(s), asked[s].initial.basico)
    /\ toast[s] = "success" =>
         /\ First(s) \in enrolled
         /\ asked[s].isPack => Second(s) \in enrolled
         /\ AmountOf(s, asked[s].scheduleId) > 0 =>
              PaidUp(s, First(s), asked[s].initial.basico)
         /\ asked[s].isPack /\ asked[s].initial.total > 0 /\ asked[s].initial.avanzado > 0 =>
              PaidUp(s, Second(s), asked[s].initial.avanzado)
    /\ toast[s] = "warning" => First(s) \in enrolled
    /\ toast[s] = "error" => \A p \in payments : p.by # s

\* The enrollments a running submission has made itself and may still pay for.
Claims(s) ==
    IF pc[s] = "enrollment2" THEN {First(s)}
    ELSE IF pc[s] = "payment"
         THEN {First(s)} \cup (IF asked[s].isPack THEN {Second(s)} ELSE {})
    ELSE IF pc[s] = "payment2" THEN {Second(s)}
    ELSE {}

\* A claim is enrolled and unpaid, and nobody else has it.
ClaimsInv ==
    /\ \A p \in payments : p.enrollment \in enrolled
    /\ \A s \in Submissions : \A e \in Claims(s) :
         /\ e \in enrolled
         /\ \A p \in payments : p.enrollment # e
         /\ \A r \in Submissions : e \in Claims(r) => r = s

Types ==
    /\ openings \in 0 .. MaxOpenings /\ open \in BOOLEAN
    /\ form \in Form
    /\ pc \in [Submissions -> POST \cup {"unused", "ended"}]
    /\ asked \in [Submissions -> Request]
    /\ student \in [Submissions -> People \cup {None}]
    /\ opening \in [Submissions -> 0 .. MaxOpenings]
    /\ failures \in [Submissions -> SUBSET {"basico", "avanzado"}]
    /\ toast \in [Submissions -> {"none", "success", "warning", "error"}]
    /\ registered \subseteq Documents
    /\ enrolled \subseteq People \X Schedules
    /\ payments \subseteq Payment
    /\ faults \in 0 .. MaxFaults

\* The inductive invariant.
IInv ==
    /\ Types
    /\ \A s \in Submissions : RequestInv(s) /\ OutcomeInv(s)
    /\ ClaimsInv
    /\ InitialPaymentOnce

LEMMA BlankIsForm == Blank \in Form /\ Requested(Blank) \in Request
BY DEF Blank, Form, Requested, Request

LEMMA InitInv == Init => IInv
<1> SUFFICES ASSUME Init PROVE IInv
  OBVIOUS
<1>1. Types
  <2>1. openings \in 0 .. MaxOpenings /\ faults \in 0 .. MaxFaults
    BY BoundsAssumption DEF Init
  <2>2. opening \in [Submissions -> 0 .. MaxOpenings]
    BY BoundsAssumption DEF Init
  <2>. QED
    BY <2>1, <2>2, BlankIsForm DEF Init, Types
<1>2. \A s \in Submissions : RequestInv(s) /\ OutcomeInv(s) /\ Claims(s) = {}
  BY DEF Init, RequestInv, OutcomeInv, Claims, POST
<1>. QED
  BY <1>1, <1>2 DEF Init, IInv, ClaimsInv, InitialPaymentOnce

-----------------------------------------------------------------------------
(* A step of one submission leaves the others alone.                        *)

\* handleSubmit of s goes on to x and its toast says y.
Advances(s, x, y) ==
    /\ pc' = [pc EXCEPT ![s] = x]
    /\ toast' = [toast EXCEPT ![s] = y]
    /\ UNCHANGED openings
    /\ UNCHANGED <<open, form>> \/ Unmounted

\* What a POST of s leaves alone.
PostFrame(s) ==
    /\ \A r \in Submissions \ {s} :
         asked'[r] = asked[r] /\ student'[r] = student[r] /\ failures'[r] = failures[r]
    /\ registered \subseteq registered'
    /\ enrolled \subseteq enrolled'

\* It records no payment, or one for a claim that it then gives up.
ClaimsSettled(s) ==
    \/ /\ payments' = payments
       /\ Claims(s)' \subseteq Claims(s) \cup (enrolled' \ enrolled)
    \/ \E p : /\ payments' = payments \cup {p}
              /\ p.by = s /\ p.enrollment \in Claims(s)
              /\ Claims(s)' \subseteq Claims(s) \ {p.enrollment}

LEMMA OthersKeep ==
  ASSUME IInv, NEW s \in Submissions, NEW r \in Submissions \ {s}, NEW x, NEW y,
         Advances(s, x, y), PostFrame(s), payments \subseteq payments',
         \A p \in payments' : p \in payments \/ p.by = s
  PROVE  RequestInv(r)' /\ OutcomeInv(r)' /\ Claims(r)' = Claims(r)
<1>1. /\ pc'[r] = pc[r] /\ toast'[r] = toast[r] /\ asked'[r] = asked[r]
      /\ student'[r] = student[r] /\ failures'[r] = failures[r]
      /\ registered \subseteq registered' /\ enrolled \subseteq enrolled'
  BY DEF Advances, PostFrame, IInv, Types
<1>2. First(r)' = First(r) /\ Second(r)' = Second(r)
  BY <1>1 DEF First, Second
<1>3. RequestInv(r) /\ OutcomeInv(r)
  BY DEF IInv
<1>4. RequestInv(r)'
  BY <1>1, <1>3 DEF RequestInv, Unreconciled
<1>5. Claims(r)' = Claims(r)
  BY <1>1, <1>2 DEF Claims
<1>6. \A e, a : PaidUp(r, e, a) => PaidUp(r, e, a)'
  BY DEF PaidUp
<1>7. (\A p \in payments : p.by # r) => (\A p \in payments' : p.by # r)
  OBVIOUS
<1>8. AmountOf(r, asked[r].scheduleId)' = AmountOf(r, asked[r].scheduleId)
  BY <1>1 DEF AmountOf
<1>9. OutcomeInv(r)'
  BY <1>1, <1>2, <1>3, <1>6, <1>7, <1>8 DEF OutcomeInv
<1>. QED
  BY <1>4, <1>5, <1>9

LEMMA SubmissionKeeps ==
  ASSUME IInv, NEW s \in Submissions, NEW x, NEW y,
         Advances(s, x, y), PostFrame(s), ClaimsSettled(s),
         Types', RequestInv(s)', OutcomeInv(s)'
  PROVE  IInv'
<1>1. /\ payments \subseteq payments'
      /\ \A p \in payments' : p \in payments \/ (p.by = s /\ p.enrollment \in Claims(s))
  BY DEF ClaimsSettled
<1>2. \A r \in Submissions \ {s} : RequestInv(r)' /\ OutcomeInv(r)' /\ Claims(r)' = Claims(r)
  BY <1>1, OthersKeep
<1>3. ClaimsInv /\ InitialPaymentOnce /\ enrolled \subseteq enrolled'
  BY DEF IInv, PostFrame
<1>4. \A p \in payments' : p.enrollment \in enrolled'
  BY <1>1, <1>3 DEF ClaimsInv
<1>5. InitialPaymentOnce'
  BY <1>3 DEF ClaimsSettled, ClaimsInv, InitialPaymentOnce
<1>6. ASSUME NEW r \in Submissions, NEW e \in Claims(r)'
      PROVE  /\ e \in enrolled'
             /\ \A p \in payments' : p.enrollment # e
             /\ \A q \in Submissions : e \in Claims(q)' => q = r
  <2>1. CASE r = s
    <3>1. CASE e \in Claims(s)
      <4>1. \A p \in payments' : p.enrollment # e
        BY <1>3, <2>1, <3>1, <1>6 DEF ClaimsSettled, ClaimsInv
      <4>. QED
        BY <1>2, <1>3, <2>1, <3>1, <4>1 DEF ClaimsInv
    <3>2. CASE e \notin Claims(s)
      <4>1. e \in enrolled' \ enrolled /\ payments' = payments
        BY <1>6, <2>1, <3>2 DEF ClaimsSettled
      <4>. QED
        BY <1>2, <1>3, <2>1, <4>1 DEF ClaimsInv
    <3>. QED
      BY <3>1, <3>2
  <2>2. CASE r # s
    <3>1. e \in Claims(r)
      BY <1>2, <1>6, <2>2
    <3>2. e \in enrolled /\ e \notin Claims(s) /\ \A p \in payments : p.enrollment # e
      BY <1>3, <2>2, <3>1 DEF ClaimsInv
    <3>3. \A p \in payments' : p.enrollment # e
      BY <1>1, <3>2
    <3>4. e \notin Claims(s)'
      BY <3>2 DEF ClaimsSettled
    <3>. QED
      BY <1>2, <1>3, <2>2, <3>1, <3>2, <3>3, <3>4 DEF ClaimsInv
  <2>. QED
    BY <2>1, <2>2
<1>7. ClaimsInv'
  BY <1>4, <1>6 DEF ClaimsInv
<1>. QED
  BY <1>2, <1>5, <1>7 DEF IInv

-----------------------------------------------------------------------------
(* The dialog.                                                              *)

LEMMA EditedForm ==
  ASSUME IInv, Fields
  PROVE  form' \in Form /\ UNCHANGED <<openings, open, submission, server, faults>>
<1>1. form \in Form
  BY DEF IInv, Types
<1>2. UNCHANGED <<openings, open, submission, server, faults>>
  BY DEF Fields, TogglePack, handleToggleNewStudent, PickStudent, FillNewStudent,
         PickSchedule, PickSecondSchedule, EnterPayment, Edit
<1>3. CASE TogglePack
  BY <1>1, <1>3 DEF TogglePack, Edit, Form
<1>4. CASE handleToggleNewStudent
  <2>1. form' = [form EXCEPT !.showNewStudent = ~form.showNewStudent,
                             !.studentId = IF form.showNewStudent THEN form.studentId ELSE None]
    BY <1>4 DEF handleToggleNewStudent, Edit
  <2>. QED
    BY <1>1, <1>2, <2>1 DEF Form
<1>5. CASE PickStudent
  BY <1>1, <1>5 DEF PickStudent, Edit, Form
<1>6. CASE FillNewStudent
  BY <1>1, <1>6 DEF FillNewStudent, Edit, Form
<1>7. CASE PickSchedule
  BY <1>1, <1>7 DEF PickSchedule, Edit, Form
<1>8. CASE PickSecondSchedule
  BY <1>1, <1>8 DEF PickSecondSchedule, Edit, Form
<1>9. CASE EnterPayment
  BY <1>1, <1>9 DEF EnterPayment, Edit, Form
<1>. QED
  BY <1>2, <1>3, <1>4, <1>5, <1>6, <1>7, <1>8, <1>9 DEF Fields

LEMMA DialogKeeps ==
  ASSUME IInv, OpenWizard \/ Dismiss \/ Fields \/ UNCHANGED vars
  PROVE  IInv'
<1>1. UNCHANGED <<submission, server, faults>>
  BY EditedForm DEF OpenWizard, Dismiss, vars
<1>2. form' \in Form /\ openings' \in 0 .. MaxOpenings /\ open' \in BOOLEAN
  <2>1. Types
    BY DEF IInv
  <2>2. CASE OpenWizard
    BY <2>1, <2>2, BoundsAssumption DEF Types, OpenWizard
  <2>3. CASE Dismiss
    BY <2>1, <2>3, BlankIsForm DEF Types, Dismiss, Unmounted
  <2>4. CASE Fields
    BY <2>1, <2>4, EditedForm DEF Types
  <2>5. CASE UNCHANGED vars
    BY <2>1, <2>5 DEF Types, vars, dialog
  <2>. QED
    BY <2>2, <2>3, <2>4, <2>5
<1>3. Types'
  BY <1>1, <1>2 DEF IInv, Types, submission, server
<1>4. \A s \in Submissions : RequestInv(s)' /\ OutcomeInv(s)'
  BY <1>1
     DEF IInv, RequestInv, OutcomeInv, Unreconciled, First, Second, PaidUp, AmountOf,
         submission, server
<1>5. ClaimsInv' /\ InitialPaymentOnce'
  BY <1>1
     DEF IInv, ClaimsInv, InitialPaymentOnce, Claims, First, Second, submission, server
<1>. QED
  BY <1>3, <1>4, <1>5 DEF IInv

LEMMA SubmitKeeps ==
  ASSUME IInv, NEW s \in Submissions, Submit(s)
  PROVE  IInv'
<1>1. Types /\ RequestInv(s) /\ OutcomeInv(s)
  BY DEF IInv
<1>2. PICK x \in {"student", "enrollment"} :
        /\ pc' = [pc EXCEPT ![s] = x]
        /\ x = "student" => form.newStudent # None /\ form.showNewStudent
        /\ x = "enrollment" => form.studentId # None /\ ~Unreconciled(form)
  BY DEF Submit
<1>3. /\ pc[s] = "unused" /\ form.scheduleId # None
      /\ form.isPack => form.scheduleId2 \notin {None, form.scheduleId}
      /\ asked' = [asked EXCEPT ![s] = Requested(form)]
      /\ student' = [student EXCEPT ![s] = form.studentId]
      /\ opening' = [opening EXCEPT ![s] = openings]
      /\ UNCHANGED <<dialog, failures, toast, server, faults>>
  BY DEF Submit
<1>4. form \in Form /\ Requested(form) \in Request
  BY <1>1 DEF Types, Form, Request, Requested
<1>5. Types'
  BY <1>1, <1>2, <1>3, <1>4 DEF Types, Form, People, POST, dialog, server
<1>6. Advances(s, x, toast[s]) /\ PostFrame(s) /\ payments' = payments
  BY <1>1, <1>2, <1>3 DEF Advances, PostFrame, Types, dialog, server
<1>7. /\ pc'[s] = x /\ asked'[s] = Requested(form) /\ student'[s] = form.studentId
      /\ failures'[s] = failures[s] /\ toast'[s] = toast[s]
  BY <1>1, <1>2, <1>3 DEF Types
<1>8. RequestInv(s)'
  <2>1. /\ asked'[s].isPack = form.isPack /\ asked'[s].initial = form.initial
        /\ asked'[s].scheduleId = form.scheduleId
        /\ form.isPack => asked'[s].scheduleId2 = form.scheduleId2
        /\ form.showNewStudent => asked'[s].newStudent = form.newStudent
    BY <1>7 DEF Requested
  <2>2. (~Unreconciled(asked[s]))' = ~Unreconciled(form)
    BY <2>1 DEF Unreconciled
  <2>. QED
    BY <1>2, <1>3, <1>4, <1>7, <2>1, <2>2 DEF RequestInv, Form, POST
<1>9. OutcomeInv(s)' /\ Claims(s)' = {}
  BY <1>1, <1>2, <1>3, <1>6, <1>7 DEF OutcomeInv, UnpaidPC, Claims
<1>10. ClaimsSettled(s)
  BY <1>6, <1>9 DEF ClaimsSettled
<1>. QED
  BY <1>2, <1>5, <1>6, <1>8, <1>9, <1>10, SubmissionKeeps

-----------------------------------------------------------------------------
(* The POSTs.                                                               *)

LEMMA Moves ==
  ASSUME Types, NEW s \in Submissions
  PROVE  /\ \A x : Goto(s, x) => Advances(s, x, toast[s])
         /\ Fail(s) => Advances(s, "ended", "error")
         /\ \A y : Close(s, y) => Advances(s, "ended", y)
BY DEF Types, Goto, Fail, Close, Advances, dialog

\* The types, from what a POST changes.
LEMMA PostTypes ==
  ASSUME Types, NEW s \in Submissions,
         NEW x \in POST \cup {"ended"},
         NEW y \in {"none", "success", "warning", "error"},
         Advances(s, x, y), UNCHANGED <<asked, opening>>,
         NEW z \in People \cup {None}, student' = [student EXCEPT ![s] = z],
         NEW f \in SUBSET {"basico", "avanzado"}, failures' = [failures EXCEPT ![s] = f],
         registered' \subseteq Documents, enrolled' \subseteq People \X Schedules,
         payments' \subseteq Payment, NoFault \/ Fault
  PROVE  Types'
<1>1. faults' \in 0 .. MaxFaults
  BY BoundsAssumption DEF Types, Fault, NoFault
<1>2. form' \in Form /\ openings' = openings /\ open' \in BOOLEAN
  BY BlankIsForm DEF Types, Advances, Unmounted
<1>3. pc' \in [Submissions -> POST \cup {"unused", "ended"}]
  BY DEF Types, Advances
<1>4. toast' \in [Submissions -> {"none", "success", "warning", "error"}]
  BY DEF Types, Advances
<1>5. student' \in [Submissions -> People \cup {None}]
  BY DEF Types
<1>6. failures' \in [Submissions -> SUBSET {"basico", "avanzado"}]
  BY DEF Types
<1>. QED
  BY <1>1, <1>2, <1>3, <1>4, <1>5, <1>6 DEF Types

\* What is known of a submission in one of its POSTs.
LEMMA Awaiting ==
  ASSUME IInv, NEW s \in Submissions, pc[s] \in POST
  PROVE  /\ Types /\ RequestInv(s) /\ OutcomeInv(s) /\ toast[s] = "none"
         /\ asked[s] \in Request /\ failures[s] \in SUBSET {"basico", "avanzado"}
         /\ asked[s].scheduleId \in Schedules
         /\ asked[s].isPack => asked[s].scheduleId2 \in Schedules \ {asked[s].scheduleId}
         /\ asked[s].isPack \in BOOLEAN
         /\ asked[s].initial.total \in Nat /\ asked[s].initial.basico \in Nat
         /\ asked[s].initial.avanzado \in Nat
         /\ pc[s] # "student" => student[s] \in People
<1>1. Types /\ RequestInv(s) /\ OutcomeInv(s)
  BY DEF IInv
<1>2. asked[s] \in Request /\ asked[s].isPack \in BOOLEAN
  BY <1>1 DEF Types, Request
<1>3. asked[s].initial \in [total : Nat, basico : Nat, avanzado : Nat, method : BOOLEAN]
  <2>1. NoPayment \in [total : Nat, basico : Nat, avanzado : Nat, method : BOOLEAN]
    BY DEF NoPayment
  <2>2. asked[s].initial \in InitialPayments \cup {NoPayment}
    BY <1>2 DEF Request
  <2>. QED
    BY <2>1, <2>2, PaymentAssumption
<1>. QED
  BY <1>1, <1>2, <1>3 DEF Types, RequestInv, OutcomeInv, POST, People

LEMMA CreateStudentKeeps ==
  ASSUME IInv, NEW s \in Submissions, CreateStudent(s)
  PROVE  IInv'
<1> DEFINE d == asked[s].newStudent
<1>1. pc[s] = "student" /\ UNCHANGED <<asked, opening, failures, enrolled, payments>>
  BY DEF CreateStudent
<1>2. /\ Types /\ RequestInv(s) /\ OutcomeInv(s) /\ toast[s] = "none" /\ d \in Documents
      /\ asked[s].scheduleId \in Schedules
      /\ asked[s].isPack => asked[s].scheduleId2 \in Schedules \ {asked[s].scheduleId}
  BY <1>1, Awaiting DEF POST, RequestInv
<1>3. /\ registered' \in {registered, registered \cup {d}}
      /\ NoFault \/ Fault
      /\ \/ UNCHANGED student
         \/ student' = [student EXCEPT ![s] = d]
      /\ \/ Advances(s, "ended", "error")
         \/ /\ Advances(s, "enrollment", "none") /\ ~ Unreconciled(asked[s])
            /\ student' = [student EXCEPT ![s] = d] /\ d \in registered'
  BY <1>1, <1>2, Moves DEF CreateStudent
<1>4. PICK z \in People \cup {None} : student' = [student EXCEPT ![s] = z]
  BY <1>2, <1>3 DEF Types, People
<1>5. PICK x \in {"ended", "enrollment"} :
        /\ Advances(s, x, IF x = "ended" THEN "error" ELSE "none")
        /\ x = "enrollment" => /\ ~ Unreconciled(asked[s])
                               /\ student'[s] \in registered'
  BY <1>2, <1>3 DEF Types
<1>6. PICK y \in {"error", "none"} : Advances(s, x, y) /\ (x = "ended" <=> y = "error")
  BY <1>5
<1>7. failures' = [failures EXCEPT ![s] = failures[s]] /\ failures[s] \in SUBSET {"basico", "avanzado"}
  BY <1>1, <1>2 DEF Types
<1>8. registered' \subseteq Documents /\ enrolled' \subseteq People \X Schedules
      /\ payments' \subseteq Payment
  BY <1>1, <1>2, <1>3 DEF Types
<1>9. Types'
  BY <1>1, <1>2, <1>3, <1>4, <1>6, <1>7, <1>8, PostTypes DEF POST
<1>10. PostFrame(s)
  BY <1>1, <1>2, <1>3, <1>4 DEF PostFrame, Types
<1>11. pc'[s] = x /\ toast'[s] = y /\ failures'[s] = failures[s]
  BY <1>1, <1>2, <1>6 DEF Advances, Types
<1>12. RequestInv(s)'
  BY <1>1, <1>2, <1>5, <1>11 DEF RequestInv, POST, Unreconciled
<1>13. OutcomeInv(s)' /\ Claims(s)' = {}
  BY <1>1, <1>2, <1>6, <1>11 DEF OutcomeInv, Claims, UnpaidPC
<1>14. ClaimsSettled(s)
  BY <1>1, <1>13 DEF ClaimsSettled
<1>. QED
  BY <1>6, <1>9, <1>10, <1>12, <1>13, <1>14, SubmissionKeeps

\* A POST of an enrollment that leads to x and leaves only what is x's due.
LEMMA EnrollmentMoves ==
  ASSUME IInv, NEW s \in Submissions, pc[s] \in {"enrollment", "enrollment2"},
         NEW c \in Schedules, NEW x \in POST \cup {"ended"},
         NEW y \in {"none", "success", "warning", "error"}, Advances(s, x, y),
         enrolled' \in {enrolled, enrolled \cup {<<student[s], c>>}},
         NoFault \/ Fault,
         UNCHANGED <<asked, student, opening, failures, registered, payments>>,
         Claims(s)' \subseteq Claims(s) \cup (enrolled' \ enrolled),
         RequestInv(s)', OutcomeInv(s)'
  PROVE  IInv'
<1>1. Types /\ student[s] \in People
  BY Awaiting DEF POST
<1>2. student' = [student EXCEPT ![s] = student[s]] /\ student[s] \in People \cup {None}
  BY <1>1 DEF Types
<1>3. failures' = [failures EXCEPT ![s] = failures[s]] /\ failures[s] \in SUBSET {"basico", "avanzado"}
  BY <1>1 DEF Types
<1>4. registered' \subseteq Documents /\ enrolled' \subseteq People \X Schedules
      /\ payments' \subseteq Payment
  BY <1>1 DEF Types
<1>5. Types'
  <2> DEFINE z == student[s]
             f == failures[s]
  <2>1. UNCHANGED <<asked, opening>>
    OBVIOUS
  <2>2. /\ z \in People \cup {None} /\ student' = [student EXCEPT ![s] = z]
        /\ f \in SUBSET {"basico", "avanzado"} /\ failures' = [failures EXCEPT ![s] = f]
    BY <1>2, <1>3
  <2> HIDE DEF z, f
  <2>. QED
    BY ONLY <1>1, <1>4, <2>1, <2>2, PostTypes, Advances(s, x, y), NoFault \/ Fault
<1>6. PostFrame(s)
  BY DEF PostFrame
<1>7. ClaimsSettled(s)
  BY DEF ClaimsSettled
<1>. QED
  BY <1>5, <1>6, <1>7, SubmissionKeeps

\* Where AfterEnrollments leads.
LEMMA AfterEnrollmentsMoves ==
  ASSUME IInv, NEW s \in Submissions, pc[s] \in {"enrollment", "enrollment2"},
         AfterEnrollments(s)
  PROVE  \/ /\ Advances(s, "ended", "success")
            /\ IF asked[s].isPack THEN asked[s].initial.total = 0
               ELSE asked[s].initial.basico = 0
         \/ Advances(s, "ended", "warning") /\ ~asked[s].isPack
         \/ /\ Advances(s, "payment", "none") /\ asked[s].initial.basico > 0
            /\ asked[s].isPack => asked[s].initial.total > 0
         \/ /\ Advances(s, "payment2", "none") /\ asked[s].isPack
            /\ asked[s].initial.basico = 0
            /\ asked[s].initial.total > 0 /\ asked[s].initial.avanzado > 0
<1>1. /\ Types /\ RequestInv(s) /\ toast[s] = "none"
      /\ asked[s].isPack \in BOOLEAN
      /\ asked[s].initial.total \in Nat /\ asked[s].initial.basico \in Nat
      /\ asked[s].initial.avanzado \in Nat
  BY Awaiting DEF POST
<1>2. asked[s].isPack /\ asked[s].initial.total > 0 =>
        asked[s].initial.total = asked[s].initial.basico + asked[s].initial.avanzado
  BY <1>1 DEF RequestInv, Unreconciled, POST
<1>3. CASE asked[s].isPack
  BY <1>1, <1>2, <1>3, Moves DEF AfterEnrollments
<1>4. CASE ~asked[s].isPack
  BY <1>1, <1>4, Moves DEF AfterEnrollments
<1>. QED
  BY <1>1, <1>3, <1>4

\* Every enrollment of the submission exists.
LEMMA EnrolledKeeps ==
  ASSUME IInv, NEW s \in Submissions, NEW c,
         \/ pc[s] = "enrollment" /\ ~asked[s].isPack /\ c = asked[s].scheduleId
         \/ pc[s] = "enrollment2" /\ c = asked[s].scheduleId2,
         <<student[s], c>> \notin enrolled,
         enrolled' = enrolled \cup {<<student[s], c>>}, NoFault,
         AfterEnrollments(s),
         UNCHANGED <<asked, student, opening, failures, registered, payments>>
  PROVE  IInv'
<1>1. /\ Types /\ RequestInv(s) /\ OutcomeInv(s) /\ toast[s] = "none"
      /\ asked[s].scheduleId \in Schedules
      /\ asked[s].isPack => asked[s].scheduleId2 \in Schedules \ {asked[s].scheduleId}
      /\ asked[s].isPack \in BOOLEAN
      /\ asked[s].initial.total \in Nat /\ asked[s].initial.basico \in Nat
      /\ asked[s].initial.avanzado \in Nat
  BY Awaiting DEF POST
<1>2. c \in Schedules /\ (pc[s] = "enrollment2" => asked[s].isPack)
  BY <1>1 DEF RequestInv
<1>3. /\ pc[s] \in UnpaidPC /\ failures'[s] = {} /\ (\A p \in payments' : p.by # s)
      /\ asked' = asked /\ student' = student
  BY <1>1 DEF OutcomeInv, UnpaidPC
<1>4. First(s)' \in enrolled' /\ (asked[s].isPack => Second(s)' \in enrolled')
  BY <1>1, <1>2, <1>3 DEF OutcomeInv, First, Second
<1>5. ~Unreconciled(asked[s])' /\ student'[s] \in Students \cup registered'
  BY <1>1, <1>3 DEF RequestInv, Unreconciled, POST
<1>6. Claims(s) \cup (enrolled' \ enrolled) =
        {First(s)'} \cup (IF asked[s].isPack THEN {Second(s)'} ELSE {})
  BY <1>2, <1>3 DEF Claims, First, Second
<1>7. CASE /\ Advances(s, "ended", "success")
           /\ IF asked[s].isPack THEN asked[s].initial.total = 0
              ELSE asked[s].initial.basico = 0
  <2>1. pc'[s] = "ended" /\ toast'[s] = "success"
    BY <1>1, <1>7 DEF Advances, Types
  <2>2. RequestInv(s)' /\ Claims(s)' = {}
    BY <1>1, <1>3, <2>1 DEF RequestInv, Claims, POST
  <2>3. AmountOf(s, asked[s].scheduleId)' = 0
    BY <1>3, <1>7 DEF AmountOf
  <2>4. OutcomeInv(s)'
    BY <1>1, <1>3, <1>4, <1>7, <2>1, <2>3 DEF OutcomeInv, UnpaidPC
  <2>. QED
    BY <1>2, <1>7, <2>2, <2>4, EnrollmentMoves
<1>8. CASE Advances(s, "ended", "warning") /\ ~asked[s].isPack
  <2>1. pc'[s] = "ended" /\ toast'[s] = "warning"
    BY <1>1, <1>8 DEF Advances, Types
  <2>2. RequestInv(s)' /\ Claims(s)' = {}
    BY <1>1, <1>3, <2>1 DEF RequestInv, Claims, POST
  <2>3. OutcomeInv(s)'
    BY <1>4, <2>1 DEF OutcomeInv, UnpaidPC
  <2>. QED
    BY <1>2, <1>8, <2>2, <2>3, EnrollmentMoves
<1>9. CASE /\ Advances(s, "payment", "none") /\ asked[s].initial.basico > 0
           /\ asked[s].isPack => asked[s].initial.total > 0
  <2>1. pc'[s] = "payment" /\ toast'[s] = "none"
    BY <1>1, <1>9 DEF Advances, Types
  <2>2. RequestInv(s)'
    BY <1>1, <1>3, <1>5, <1>9, <2>1 DEF RequestInv, POST
  <2>3. OutcomeInv(s)'
    BY <1>3, <1>4, <2>1 DEF OutcomeInv, UnpaidPC
  <2>4. Claims(s)' = Claims(s) \cup (enrolled' \ enrolled)
    BY <1>3, <1>6, <2>1 DEF Claims
  <2>. QED
    BY <1>2, <1>9, <2>2, <2>3, <2>4, EnrollmentMoves DEF POST
<1>10. CASE /\ Advances(s, "payment2", "none") /\ asked[s].isPack
            /\ asked[s].initial.basico = 0
            /\ asked[s].initial.total > 0 /\ asked[s].initial.avanzado > 0
  <2>1. pc'[s] = "payment2" /\ toast'[s] = "none"
    BY <1>1, <1>10 DEF Advances, Types
  <2>2. RequestInv(s)'
    BY <1>1, <1>3, <1>5, <1>10, <2>1 DEF RequestInv, POST
  <2>3. OutcomeInv(s)'
    BY <1>3, <1>4, <1>10, <2>1 DEF OutcomeInv, UnpaidPC
  <2>4. Claims(s)' \subseteq Claims(s) \cup (enrolled' \ enrolled)
    BY <1>3, <1>6, <1>10, <2>1 DEF Claims
  <2>. QED
    BY <1>2, <1>10, <2>2, <2>3, <2>4, EnrollmentMoves DEF POST
<1>. QED
  BY <1>7, <1>8, <1>9, <1>10, AfterEnrollmentsMoves

LEMMA CreateEnrollmentKeeps ==
  ASSUME IInv, NEW s \in Submissions, CreateEnrollment(s)
  PROVE  IInv'
<1> DEFINE c == asked[s].scheduleId
<1>1. /\ pc[s] = "enrollment"
      /\ UNCHANGED <<asked, student, opening, failures, registered, payments>>
  BY DEF CreateEnrollment, Enroll
<1>2. /\ Types /\ RequestInv(s) /\ OutcomeInv(s) /\ toast[s] = "none"
      /\ c \in Schedules
      /\ asked[s].isPack => asked[s].scheduleId2 \in Schedules \ {c}
  BY <1>1, Awaiting DEF POST
<1>3. failures'[s] = {} /\ (\A p \in payments' : p.by # s) /\ asked' = asked /\ student' = student
  BY <1>1, <1>2 DEF OutcomeInv, UnpaidPC
<1>4. ASSUME Advances(s, "ended", "error"), NoFault \/ Fault,
             enrolled' \in {enrolled, enrolled \cup {<<student[s], c>>}}
      PROVE  IInv'
  <2>1. pc'[s] = "ended" /\ toast'[s] = "error"
    BY <1>2, <1>4 DEF Advances, Types
  <2>2. RequestInv(s)' /\ OutcomeInv(s)' /\ Claims(s)' = {}
    BY <1>2, <1>3, <2>1 DEF RequestInv, OutcomeInv, Claims, POST, UnpaidPC
  <2>. QED
    BY <1>1, <1>2, <1>4, <2>2, EnrollmentMoves
<1>5. ASSUME Advances(s, "enrollment2", "none"), NoFault, asked[s].isPack,
             enrolled' = enrolled \cup {<<student[s], c>>},
             <<student[s], c>> \notin enrolled
      PROVE  IInv'
  <2>1. pc'[s] = "enrollment2" /\ toast'[s] = "none"
    BY <1>2, <1>5 DEF Advances, Types
  <2>2. ~Unreconciled(asked[s])' /\ student'[s] \in Students \cup registered'
    BY <1>1, <1>2, <1>3 DEF RequestInv, Unreconciled, POST
  <2>3. RequestInv(s)'
    BY <1>2, <1>3, <1>5, <2>1, <2>2 DEF RequestInv
  <2>4. First(s)' = <<student[s], c>>
    BY <1>3 DEF First
  <2>5. OutcomeInv(s)'
    BY <1>3, <1>5, <2>1, <2>4 DEF OutcomeInv, UnpaidPC
  <2>6. Claims(s)' \subseteq enrolled' \ enrolled
    BY <1>5, <2>1, <2>4 DEF Claims
  <2>. QED
    BY <1>1, <1>2, <1>5, <2>3, <2>5, <2>6, EnrollmentMoves DEF POST
<1>6. \/ Fail(s) /\ (NoFault \/ Fault) /\ enrolled' \in {enrolled, enrolled \cup {<<student[s], c>>}}
      \/ /\ <<student[s], c>> \notin enrolled /\ NoFault
         /\ enrolled' = enrolled \cup {<<student[s], c>>}
         /\ IF asked[s].isPack THEN Goto(s, "enrollment2") ELSE AfterEnrollments(s)
  BY DEF CreateEnrollment, Enroll
<1>7. CASE Fail(s) /\ (NoFault \/ Fault) /\ enrolled' \in {enrolled, enrolled \cup {<<student[s], c>>}}
  BY <1>2, <1>4, <1>7, Moves
<1>8. CASE /\ <<student[s], c>> \notin enrolled /\ NoFault
           /\ enrolled' = enrolled \cup {<<student[s], c>>}
           /\ IF asked[s].isPack THEN Goto(s, "enrollment2") ELSE AfterEnrollments(s)
  <2>1. CASE asked[s].isPack
    BY <1>2, <1>5, <1>8, <2>1, Moves
  <2>2. CASE ~asked[s].isPack
    BY <1>1, <1>8, <2>2, EnrolledKeeps
  <2>. QED
    BY <2>1, <2>2
<1>. QED
  BY <1>6, <1>7, <1>8

LEMMA CreateSecondEnrollmentKeeps ==
  ASSUME IInv, NEW s \in Submissions, CreateSecondEnrollment(s)
  PROVE  IInv'
<1> DEFINE c == asked[s].scheduleId2
<1>1. /\ pc[s] = "enrollment2"
      /\ UNCHANGED <<asked, student, opening, failures, registered, payments>>
  BY DEF CreateSecondEnrollment, Enroll
<1>2. /\ Types /\ RequestInv(s) /\ OutcomeInv(s) /\ c \in Schedules
      /\ asked[s].scheduleId \in Schedules
      /\ asked[s].isPack => asked[s].scheduleId2 \in Schedules \ {asked[s].scheduleId}
  BY <1>1, Awaiting DEF POST, RequestInv
<1>3. ASSUME Close(s, "warning"), NoFault \/ Fault,
             enrolled' \in {enrolled, enrolled \cup {<<student[s], c>>}}
      PROVE  IInv'
  <2>1. Advances(s, "ended", "warning")
    BY <1>2, <1>3, Moves
  <2>2. pc'[s] = "ended" /\ toast'[s] = "warning"
    BY <1>2, <2>1 DEF Advances, Types
  <2>3. First(s)' \in enrolled'
    BY <1>1, <1>2, <1>3 DEF OutcomeInv, First
  <2>4. RequestInv(s)' /\ OutcomeInv(s)' /\ Claims(s)' = {}
    BY <1>1, <1>2, <2>2, <2>3 DEF RequestInv, OutcomeInv, Claims, POST, UnpaidPC
  <2>. QED
    BY <1>1, <1>2, <1>3, <2>1, <2>4, EnrollmentMoves
<1>4. \/ Close(s, "warning") /\ (NoFault \/ Fault)
         /\ enrolled' \in {enrolled, enrolled \cup {<<student[s], c>>}}
      \/ /\ <<student[s], c>> \notin enrolled /\ NoFault /\ AfterEnrollments(s)
         /\ enrolled' = enrolled \cup {<<student[s], c>>}
  BY DEF CreateSecondEnrollment, Enroll
<1>. QED
  BY <1>1, <1>3, <1>4, EnrolledKeeps

\* A POST of a payment that leads to x, from the leg it pays.
LEMMA PaymentMoves ==
  ASSUME IInv, NEW s \in Submissions, pc[s] \in {"payment", "payment2"},
         NEW leg \in {"basico", "avanzado"}, NEW c \in Schedules, NEW a \in Nat \ {0},
         NEW x \in {"payment2", "ended"}, NEW y \in {"none", "success", "warning", "error"},
         Advances(s, x, y), PayLeg(s, leg, c, a),
         <<student[s], c>> \in Claims(s), Claims(s)' \subseteq Claims(s) \ {<<student[s], c>>},
         RequestInv(s)', OutcomeInv(s)'
  PROVE  IInv'
<1> DEFINE p == [by |-> s, enrollment |-> <<student[s], c>>, amount |-> a]
<1>1. Types /\ student[s] \in People
  BY Awaiting DEF POST
<1>2. /\ UNCHANGED <<asked, student, opening, registered, enrolled>>
      /\ payments' \in {payments, payments \cup {p}}
      /\ NoFault \/ Fault
      /\ failures' \in {failures, [failures EXCEPT ![s] = failures[s] \cup {leg}]}
  BY DEF PayLeg, Pay
<1>3. PICK f \in SUBSET {"basico", "avanzado"} : failures' = [failures EXCEPT ![s] = f]
  <2>1. failures = [failures EXCEPT ![s] = failures[s]] /\ failures[s] \in SUBSET {"basico", "avanzado"}
    BY <1>1 DEF Types
  <2>. QED
    BY <1>2, <2>1
<1>4. student' = [student EXCEPT ![s] = student[s]] /\ student[s] \in People \cup {None}
  BY <1>1, <1>2 DEF Types
<1>5. p \in Payment
  BY <1>1 DEF Payment
<1>6. registered' \subseteq Documents /\ enrolled' \subseteq People \X Schedules
      /\ payments' \subseteq Payment
  BY <1>1, <1>2, <1>5 DEF Types
<1>7. Types'
  <2> DEFINE z == student[s]
  <2>1. UNCHANGED <<asked, opening>>
    BY <1>2
  <2>2. z \in People \cup {None} /\ student' = [student EXCEPT ![s] = z]
    BY <1>4
  <2>3. x \in POST \cup {"ended"}
    BY DEF POST
  <2>4. NoFault \/ Fault
    BY <1>2
  <2> HIDE DEF z
  <2>. QED
    BY ONLY <1>1, <1>3, <1>6, <2>1, <2>2, <2>3, <2>4, PostTypes, Advances(s, x, y)
<1>8. PostFrame(s)
  BY <1>1, <1>2, <1>3 DEF PostFrame, Types
<1>9. ClaimsSettled(s)
  <2>1. p.by = s /\ p.enrollment = <<student[s], c>>
    OBVIOUS
  <2>. QED
    BY <1>2, <2>1 DEF ClaimsSettled
<1>. QED
  BY <1>7, <1>8, <1>9, SubmissionKeeps DEF POST

\* When the last leg is paid the toast tells whether one has failed.
LEMMA ReportMoves ==
  ASSUME Types, NEW s \in Submissions, Report(s)
  PROVE  \E y \in {"success", "warning"} :
           Advances(s, "ended", y) /\ (y = "success" <=> failures'[s] = {})
BY Moves DEF Report

LEMMA createInitialPaymentKeeps ==
  ASSUME IInv, NEW s \in Submissions, createInitialPayment(s)
  PROVE  IInv'
<1> DEFINE c == asked[s].scheduleId
           a == asked[s].initial.basico
<1>1. pc[s] = "payment" /\ PayLeg(s, "basico", c, a)
  BY DEF createInitialPayment
<1>2. /\ Types /\ RequestInv(s) /\ OutcomeInv(s) /\ c \in Schedules
      /\ asked[s].isPack => asked[s].scheduleId2 \in Schedules \ {c}
      /\ a \in Nat \ {0} /\ asked[s].initial.avanzado \in Nat
      /\ toast[s] = "none" /\ failures[s] = {}
      /\ failures \in [Submissions -> SUBSET {"basico", "avanzado"}]
  BY <1>1, Awaiting DEF POST, RequestInv, OutcomeInv, UnpaidPC, Types
<1>3. /\ UNCHANGED <<asked, student, opening, registered, enrolled>>
      /\ failures'[s] = {} => PaidUp(s, <<student[s], c>>, a)'
  BY <1>1, <1>2 DEF PayLeg, Pay, PaidUp
<1>4. First(s)' = <<student[s], c>> /\ Second(s)' = Second(s) /\ First(s)' \in enrolled'
      /\ (asked[s].isPack => Second(s)' \in enrolled')
  BY <1>1, <1>2, <1>3 DEF First, Second, OutcomeInv
<1>5. Claims(s) = {<<student[s], c>>} \cup (IF asked[s].isPack THEN {Second(s)} ELSE {})
  BY <1>1 DEF Claims, First
<1>6. Second(s) # <<student[s], c>> \/ ~asked[s].isPack
  BY <1>2 DEF Second
<1>7. CASE asked[s].isPack /\ asked[s].initial.avanzado > 0
  <2>1. Advances(s, "payment2", "none")
    BY <1>2, <1>7, Moves DEF createInitialPayment
  <2>2. pc'[s] = "payment2" /\ toast'[s] = "none"
    BY <1>2, <2>1 DEF Advances, Types
  <2>3. ~Unreconciled(asked[s])' /\ student'[s] \in Students \cup registered'
    BY <1>1, <1>2, <1>3 DEF RequestInv, Unreconciled, POST
  <2>4. RequestInv(s)'
    BY <1>1, <1>2, <1>3, <1>7, <2>2, <2>3 DEF RequestInv
  <2>5. OutcomeInv(s)'
    BY <1>3, <1>4, <1>7, <2>2 DEF OutcomeInv, UnpaidPC
  <2>6. Claims(s)' = {Second(s)}
    BY <1>4, <2>2 DEF Claims
  <2>. QED
    BY <1>1, <1>2, <1>5, <1>6, <1>7, <2>1, <2>4, <2>5, <2>6, PaymentMoves
<1>8. CASE ~(asked[s].isPack /\ asked[s].initial.avanzado > 0)
  <2>1. PICK y \in {"success", "warning"} :
          Advances(s, "ended", y) /\ (y = "success" <=> failures'[s] = {})
    BY <1>2, <1>8, ReportMoves DEF createInitialPayment
  <2>2. pc'[s] = "ended" /\ toast'[s] = y
    BY <1>2, <2>1 DEF Advances, Types
  <2>3. RequestInv(s)' /\ Claims(s)' = {}
    BY <1>2, <1>3, <2>2 DEF RequestInv, Claims, POST
  <2>4. OutcomeInv(s)'
    BY <1>3, <1>4, <1>8, <2>1, <2>2 DEF OutcomeInv, UnpaidPC
  <2>. QED
    BY <1>1, <1>2, <1>5, <2>1, <2>3, <2>4, PaymentMoves
<1>. QED
  BY <1>7, <1>8

LEMMA PaySecondLegKeeps ==
  ASSUME IInv, NEW s \in Submissions, PaySecondLeg(s)
  PROVE  IInv'
<1> DEFINE c == asked[s].scheduleId2
           a == asked[s].initial.avanzado
<1>1. pc[s] = "payment2" /\ PayLeg(s, "avanzado", c, a) /\ Report(s)
  BY DEF PaySecondLeg
<1>2. /\ Types /\ RequestInv(s) /\ OutcomeInv(s) /\ asked[s].isPack
      /\ c \in Schedules \ {asked[s].scheduleId} /\ asked[s].scheduleId \in Schedules
      /\ a \in Nat \ {0} /\ asked[s].initial.basico \in Nat
      /\ failures \in [Submissions -> SUBSET {"basico", "avanzado"}]
  BY <1>1, Awaiting DEF POST, RequestInv, Types
<1>3. /\ UNCHANGED <<asked, student, opening, registered, enrolled>>
      /\ payments \subseteq payments'
      /\ failures'[s] = {} => failures[s] = {} /\ PaidUp(s, <<student[s], c>>, a)'
  BY <1>1, <1>2 DEF PayLeg, Pay, PaidUp
<1>4. First(s)' = First(s) /\ Second(s)' = <<student[s], c>>
      /\ First(s) \in enrolled' /\ Second(s)' \in enrolled'
  BY <1>1, <1>2, <1>3 DEF First, Second, OutcomeInv
<1>5. failures'[s] = {} /\ asked[s].initial.basico > 0 =>
        PaidUp(s, First(s), asked[s].initial.basico)'
  BY <1>1, <1>2, <1>3, <1>4 DEF OutcomeInv, PaidUp
<1>6. PICK y \in {"success", "warning"} :
        Advances(s, "ended", y) /\ (y = "success" <=> failures'[s] = {})
  BY <1>1, <1>2, ReportMoves
<1>7. pc'[s] = "ended" /\ toast'[s] = y
  BY <1>2, <1>6 DEF Advances, Types
<1>8. RequestInv(s)' /\ Claims(s)' = {}
  BY <1>2, <1>3, <1>7 DEF RequestInv, Claims, POST
<1>9. AmountOf(s, asked[s].scheduleId)' > 0 => asked[s].initial.basico > 0
  BY <1>2, <1>3 DEF AmountOf
<1>10. OutcomeInv(s)'
  <2>1. CASE y = "success"
    <3>1. /\ PaidUp(s, Second(s), asked[s].initial.avanzado)'
          /\ asked[s].initial.basico > 0 => PaidUp(s, First(s), asked[s].initial.basico)'
      BY <1>3, <1>4, <1>5, <1>6, <2>1 DEF PaidUp
    <3>. QED
      BY <1>3, <1>4, <1>7, <1>9, <2>1, <3>1 DEF OutcomeInv, UnpaidPC
  <2>2. CASE y = "warning"
    BY <1>4, <1>7, <2>2 DEF OutcomeInv, UnpaidPC
  <2>. QED
    BY <2>1, <2>2
<1>11. Claims(s) = {<<student[s], c>>}
  BY <1>1 DEF Claims, Second
<1>. QED
  BY <1>1, <1>2, <1>6, <1>8, <1>10, <1>11, PaymentMoves

-----------------------------------------------------------------------------

LEMMA NextKeeps == IInv /\ [Next]_vars => IInv'
<1> SUFFICES ASSUME IInv, [Next]_vars PROVE IInv'
  OBVIOUS
<1>1. CASE OpenWizard \/ Dismiss \/ Fields \/ UNCHANGED vars
  BY <1>1, DialogKeeps
<1>2. ASSUME NEW s \in Submissions, Submit(s) \/ handleSubmit(s)
      PROVE  IInv'
  BY <1>2, SubmitKeeps, CreateStudentKeeps, CreateEnrollmentKeeps,
     CreateSecondEnrollmentKeeps, createInitialPaymentKeeps, PaySecondLegKeeps
     DEF handleSubmit
<1>. QED
  BY <1>1, <1>2 DEF Next

LEMMA IInvHolds == Spec => []IInv
BY InitInv, NextKeeps, PTL DEF Spec

LEMMA IInvTells == IInv => ToastTellsOutcome
<1> SUFFICES ASSUME IInv, NEW s \in Submissions
             PROVE  /\ toast[s] = "success" =>
                         \A c \in Legs(s) :
                            /\ <<student[s], c>> \in enrolled
                            /\ AmountOf(s, c) > 0 => \E p \in payments :
                                 /\ p.by = s /\ p.amount = AmountOf(s, c)
                                 /\ p.enrollment = <<student[s], c>>
                    /\ toast[s] = "warning" => <<student[s], asked[s].scheduleId>> \in enrolled
                    /\ toast[s] = "error" => \A p \in payments : p.by # s
  BY DEF ToastTellsOutcome
<1>1. OutcomeInv(s) /\ RequestInv(s) /\ Types
  BY DEF IInv
<1>2. ASSUME toast[s] = "success", NEW c \in Legs(s)
      PROVE  <<student[s], c>> \in enrolled
  BY <1>1, <1>2 DEF OutcomeInv, Legs, First, Second
<1>3. ASSUME toast[s] = "success", NEW c \in Legs(s), AmountOf(s, c) > 0
      PROVE  \E p \in payments : /\ p.by = s /\ p.amount = AmountOf(s, c)
                                 /\ p.enrollment = <<student[s], c>>
  <2>1. asked[s] \in Request /\ asked[s].initial.basico \in Nat
        /\ asked[s].initial.avanzado \in Nat /\ asked[s].initial.total \in Nat
    <3>1. asked[s] \in Request
      BY <1>1 DEF Types
    <3>2. NoPayment \in [total : Nat, basico : Nat, avanzado : Nat, method : BOOLEAN]
      BY DEF NoPayment
    <3>3. asked[s].initial \in InitialPayments \cup {NoPayment}
      BY <3>1 DEF Request
    <3>. QED
      BY <3>1, <3>2, <3>3, PaymentAssumption
  <2>2. CASE c = asked[s].scheduleId
    <3>1. AmountOf(s, c) = asked[s].initial.basico
      BY <1>3, <2>2 DEF AmountOf
    <3>2. PaidUp(s, First(s), AmountOf(s, c))
      BY <1>1, <1>3, <2>2, <3>1 DEF OutcomeInv
    <3>. QED
      BY <2>2, <3>2 DEF PaidUp, First
  <2>3. CASE c # asked[s].scheduleId
    <3>1. asked[s].isPack /\ c = asked[s].scheduleId2
      BY <1>3, <2>3 DEF Legs
    <3>2. AmountOf(s, c) = asked[s].initial.avanzado /\ asked[s].initial.total > 0
      BY <1>3, <2>1, <2>3 DEF AmountOf
    <3>3. PaidUp(s, Second(s), AmountOf(s, c))
      BY <1>1, <1>3, <3>1, <3>2 DEF OutcomeInv
    <3>. QED
      BY <3>1, <3>3 DEF PaidUp, Second
  <2>. QED
    BY <2>2, <2>3
<1>. QED
  BY <1>1, <1>2, <1>3 DEF OutcomeInv, First

\* The types, for any number of students, schedules, submissions and faults.
THEOREM TypeCorrect == Spec => []TypeOK
<1>1. IInv => TypeOK
  BY DEF IInv, Types, TypeOK, RequestInv
<1>. QED
  BY <1>1, IInvHolds, PTL

\* However many submissions run and fail side by side, the toast of each tells what
\* it has left on the server.
THEOREM ToastsTell == Spec => []ToastTellsOutcome
BY IInvHolds, IInvTells, PTL

\* No enrollment gets two initial payments, whatever is submitted again after a
\* timeout, a refusal or a dismissed dialog.
THEOREM PaidOnce == Spec => []InitialPaymentOnce
<1>1. IInv => InitialPaymentOnce
  BY DEF IInv
<1>. QED
  BY <1>1, IInvHolds, PTL

================================================================================
