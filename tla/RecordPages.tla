------------------------------ MODULE RecordPages ------------------------------
(***************************************************************************)
(* The six list pages that share one shape: a filtered table, a form in a   *)
(* sheet, a delete dialog, and in two of them a status menu in each row.    *)
(* For each page: the kind of field its filter looks at, the filter it      *)
(* starts with ("wide" shows everything, "narrow" some of it), its menu and *)
(* what its enrollment wizard does at the end; and for each form whether it *)
(* creates records, and what of a record it sends.                          *)
(***************************************************************************)

StudentsPage == [filters |-> {"text"}, first |-> "wide", menu |-> FALSE,
                 wizard |-> "resets"]
StudentsForm == [creates |-> TRUE, fields |-> {"text"}]

TeachersPage == [filters |-> {"text"}, first |-> "wide", menu |-> FALSE,
                 wizard |-> "none"]
TeachersForm == [creates |-> TRUE, fields |-> {"text"}]

TeacherPaymentsPage == [filters |-> {"date"}, first |-> "wide", menu |-> FALSE,
                        wizard |-> "none"]
TeacherPaymentsForm == [creates |-> TRUE, fields |-> {"date"}]

ExpensesPage == [filters |-> {"text", "date"}, first |-> "wide", menu |-> FALSE,
                 wizard |-> "none"]
ExpensesForm == [creates |-> TRUE, fields |-> {"text", "date"}]

\* Enrollments are created by the wizard; the form leaves student and schedule.
EnrollmentsPage == [filters |-> {"status"}, first |-> "narrow", menu |-> TRUE,
                    wizard |-> "adds"]
EnrollmentsForm == [creates |-> FALSE, fields |-> {"date", "status"}]

SchedulesPage == [filters |-> {"text", "status"}, first |-> "narrow", menu |-> TRUE,
                  wizard |-> "none"]
SchedulesForm == [creates |-> TRUE, fields |-> {"text", "date", "status"}]

Page == [students |-> StudentsPage, teachers |-> TeachersPage,
         teacherPayments |-> TeacherPaymentsPage, expenses |-> ExpensesPage,
         enrollments |-> EnrollmentsPage, schedules |-> SchedulesPage]

Form == [students |-> StudentsForm, teachers |-> TeachersForm,
         teacherPayments |-> TeacherPaymentsForm, expenses |-> ExpensesForm,
         enrollments |-> EnrollmentsForm, schedules |-> SchedulesForm]

\* The lists of people are ordered by their last change, the others by a date.
ByUpdate == {"students", "teachers"}

\* PUT compares If-Match only here; every page sends it.
Guarded == {"enrollments", "schedules"}
=============================================================================
