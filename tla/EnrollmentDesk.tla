---------------------------- MODULE EnrollmentDesk ----------------------------
(***************************************************************************)
(* The handlers that enroll students in schedules and keep the two apart:  *)
(* EnrollmentFunction (POST, PUT, DELETE), ScheduleFunction and            *)
(* StudentFunction (PUT, DELETE).                                          *)
(*                                                                         *)
(* A handler is a chain of awaits on Cosmos: it reads the documents its    *)
(* rules are about, one after the other, and ends in a single write of a   *)
(* single document.  There is no transaction over the chain, so one step   *)
(* of the model is one await with the code up to the next one, and between *)
(* two steps of a request the other requests run.                          *)
(***************************************************************************)
EXTENDS Documents, FiniteSets

CONSTANTS
    Students, Schedules,    \* ids of the documents that exist at the start
    EnrollmentIds,          \* bound: ids for the enrollments to be created
    Requests,               \* requests in flight at the same time
    Prices,                 \* list prices and negotiated prices
    Capacities,             \* places a schedule can offer
    NoPrice,                \* a PUT or POST without schedulePrice
    MaxEtag,                \* bound: no update starts on a document this new
    MaxChanged              \* bound: nor when so many others have changed

ASSUME IdsAssumption ==
    /\ Students \cap Schedules = {}
    /\ EnrollmentIds \cap (Students \cup Schedules) = {}
    /\ NoDoc \notin Students \cup Schedules \cup EnrollmentIds

ASSUME FiniteAssumption == IsFiniteSet(EnrollmentIds) /\ IsFiniteSet(Requests)

\* Validate: a capacity is positive, a price is not negative.
ASSUME NumbersAssumption ==
    /\ Prices \subseteq Nat /\ NoPrice \notin Prices
    /\ Capacities \subseteq Nat \ {0}
    /\ MaxEtag \in Nat /\ MaxChanged \in Nat

VARIABLES
    doc,        \* the documents of the three containers' partitions
    pc,         \* the next await of every request
    target,     \* the id in the request's route
    body,       \* the body of a POST or a PUT of an enrollment
    entity,     \* the entity the handler will write, its etag as If-Match
    offer       \* the schedule as the handler has read it

vars == <<doc, pc, target, body, entity, offer>>

-----------------------------------------------------------------------------
(* Documents and requests.  "other" stands for the statuses completed,      *)
(* cancelled and pending, which no rule tells apart.                        *)

Ids == Students \cup Schedules \cup EnrollmentIds

Statuses == {"active", "other"}

StudentDoc == [active : BOOLEAN, etag : Nat]

ScheduleDoc == [active : BOOLEAN, etag : Nat, capacity : Capacities, price : Prices]

EnrollmentDoc ==
    [active : BOOLEAN, etag : Nat, student : Students, schedule : Schedules,
     status : Statuses, price : Prices]

AnyDoc == StudentDoc \cup ScheduleDoc \cup EnrollmentDoc

ASSUME NoDocAssumption == NoDoc \notin AnyDoc

EnrollmentWriteRequest ==
    [student : Students, schedule : Schedules, status : Statuses,
     price : Prices \cup {NoPrice}, active : BOOLEAN]

CreatePC == {"create.schedule", "create.duplicate", "create.capacity", "create.insert"}
UpdatePC == {"update.student", "update.schedule", "update.duplicate", "replace"}
DeletePC == {"delete.dependents", "delete.read", "delete.replace"}

PC == {"idle"} \cup CreatePC \cup UpdatePC \cup DeletePC

DocOf(i) ==
    IF i \in Students THEN StudentDoc
    ELSE IF i \in Schedules THEN ScheduleDoc
    ELSE EnrollmentDoc \cup {NoDoc}

\* What request r has in memory is what its next await needs.
RequestOK(r) ==
    /\ pc[r] \in CreatePC => body[r] \in EnrollmentWriteRequest
    /\ pc[r] \in CreatePC \ {"create.schedule"} => offer[r] \in ScheduleDoc
    /\ pc[r] \in UpdatePC \ {"replace"} =>
         target[r] \in EnrollmentIds /\ body[r] \in EnrollmentWriteRequest
    /\ pc[r] \in UpdatePC \cup DeletePC => target[r] \in Ids /\ doc[target[r]] # NoDoc
    /\ pc[r] \in UpdatePC \cup {"delete.replace"} =>
         entity[r] \in DocOf(target[r]) \ {NoDoc}

\* Types; every entity about to be written is fit for the id it is written to.
TypeOK ==
    /\ doc \in [Ids -> AnyDoc \cup {NoDoc}]
    /\ \A i \in Ids : doc[i] \in DocOf(i)
    /\ pc \in [Requests -> PC]
    /\ target \in [Requests -> Ids \cup {NoDoc}]
    /\ body \in [Requests -> EnrollmentWriteRequest \cup {NoDoc}]
    /\ offer \in [Requests -> ScheduleDoc \cup {NoDoc}]
    /\ entity \in [Requests -> AnyDoc \cup {NoDoc}]
    /\ \A r \in Requests : RequestOK(r)

\* Students are registered, schedules are open, nobody is enrolled yet.
Init ==
    /\ \E offered \in [Schedules -> [capacity : Capacities, price : Prices]] :
         doc = [i \in Ids |->
                 IF i \in Students THEN [active |-> TRUE, etag |-> FirstVersion]
                 ELSE IF i \in Schedules
                 THEN [active |-> TRUE, etag |-> FirstVersion,
                       capacity |-> offered[i].capacity, price |-> offered[i].price]
                 ELSE NoDoc]
    /\ pc = [r \in Requests |-> "idle"]
    /\ target = [r \in Requests |-> NoDoc]
    /\ body = [r \in Requests |-> NoDoc]
    /\ entity = [r \in Requests |-> NoDoc]
    /\ offer = [r \in Requests |-> NoDoc]

-----------------------------------------------------------------------------
(* The queries of EnrollmentRepository                                      *)

Enrollments == {e \in EnrollmentIds : doc[e] # NoDoc}

\* c.active = true AND c.status = 'active'
ActiveEnrollments == {e \in Enrollments : doc[e].active /\ doc[e].status = "active"}

ActiveInSchedule(h) == {e \in ActiveEnrollments : doc[e].schedule = h}

ActiveOfPair(s, h) == {e \in ActiveInSchedule(h) : doc[e].student = s}

ExistsActive(s, h) == ActiveOfPair(s, h) # {}

CountActiveBySchedule(h) == Cardinality(ActiveInSchedule(h))

CountActiveByStudent(s) ==
    Cardinality({e \in ActiveEnrollments : doc[e].student = s})

-----------------------------------------------------------------------------
(* Helpers                                                                  *)

Goto(r, next) == pc' = [pc EXCEPT ![r] = next]

\* The request is answered, whatever the answer, and its memory is gone.
Reply(r) ==
    /\ Goto(r, "idle")
    /\ target' = [target EXCEPT ![r] = NoDoc]
    /\ body' = [body EXCEPT ![r] = NoDoc]
    /\ entity' = [entity EXCEPT ![r] = NoDoc]
    /\ offer' = [offer EXCEPT ![r] = NoDoc]

Refuse(r) == Reply(r) /\ UNCHANGED doc

\* UpdateAsync: a replace with If-Match, 412 when the tag is no longer current.
Write(i, e) ==
    doc' = IF TagMatches(doc[i], e)
           THEN [doc EXCEPT ![i] = Replaced(doc[i], e)]
           ELSE doc

\* Mutant of NegotiatedPrice: nothing is defaulted.
RequestedPrice(b, current, listPrice) == b.price

\* Mutant of NegotiatedPrice: the snapshot is refreshed like the other ones.
RefreshedPrice(b, current, listPrice) ==
    IF b.price # NoPrice THEN b.price ELSE listPrice

\* MapToEntity: the requested price, or the one the enrollment has (0 on an
\* enrollment that is being created), or the list price.
NegotiatedPrice(b, current, listPrice) ==
    IF b.price # NoPrice THEN b.price
    ELSE IF current > 0 THEN current
    ELSE listPrice

\* MapToEntity on an enrollment: the student, the schedule and the status are
\* the request's, the entity keeps its id and its tag.
Mapped(b, current, etag, listed, active) ==
    [active   |-> active,
     etag     |-> etag,
     student  |-> b.student,
     schedule |-> b.schedule,
     status   |-> b.status,
     price    |-> NegotiatedPrice(b, current, listed.price)]

-----------------------------------------------------------------------------
(* POST /enrollments                                                        *)

\* Bound: every create in flight finds a fresh id.
FreshIdsLeft ==
    Cardinality({r \in Requests : pc[r] \in CreatePC})
      < Cardinality(EnrollmentIds \ Enrollments)

\* The body is valid and its student exists; otherwise 422 and no change.
CreateReadStudent(r) ==
    /\ pc[r] = "idle" /\ FreshIdsLeft
    /\ \E b \in EnrollmentWriteRequest :
         /\ Readable(doc[b.student])
         /\ body' = [body EXCEPT ![r] = b]
    /\ Goto(r, "create.schedule")
    /\ UNCHANGED <<doc, target, entity, offer>>

CreateReadSchedule(r) ==
    /\ pc[r] = "create.schedule"
    /\ \/ /\ Readable(doc[body[r].schedule])
          /\ offer' = [offer EXCEPT ![r] = doc[body[r].schedule]]
          /\ Goto(r, "create.duplicate")
          /\ UNCHANGED <<doc, target, body, entity>>
       \/ ~ Readable(doc[body[r].schedule]) /\ Refuse(r)             \* 422

\* Mutant of CreateCheckDuplicate: the handler trusts the user interface.
CreateSkipDuplicate(r) ==
    /\ pc[r] = "create.duplicate"
    /\ Goto(r, "create.capacity")
    /\ UNCHANGED <<doc, target, body, entity, offer>>

CreateCheckDuplicate(r) ==
    /\ pc[r] = "create.duplicate"
    /\ \/ /\ ~ ExistsActive(body[r].student, body[r].schedule)
          /\ Goto(r, "create.capacity")
          /\ UNCHANGED <<doc, target, body, entity, offer>>
       \/ ExistsActive(body[r].student, body[r].schedule) /\ Refuse(r)  \* 409

\* Mutant of CreateCheckCapacity: a full schedule takes one more.
CreateCheckCapacityOffByOne(r) ==
    /\ pc[r] = "create.capacity"
    /\ CountActiveBySchedule(body[r].schedule) <= offer[r].capacity
    /\ Goto(r, "create.insert")
    /\ UNCHANGED <<doc, target, body, entity, offer>>

\* The capacity is the one of the schedule read two awaits earlier.
CreateCheckCapacity(r) ==
    /\ pc[r] = "create.capacity"
    /\ \/ /\ CountActiveBySchedule(body[r].schedule) < offer[r].capacity
          /\ Goto(r, "create.insert")
          /\ UNCHANGED <<doc, target, body, entity, offer>>
       \/ /\ CountActiveBySchedule(body[r].schedule) >= offer[r].capacity
          /\ Refuse(r)                                                \* 409

\* CreateAsync makes the document active whatever the body says.
CreateInsert(r) ==
    /\ pc[r] = "create.insert"
    /\ \E e \in EnrollmentIds \ Enrollments :
         doc' = [doc EXCEPT ![e] = Mapped(body[r], 0, FirstVersion, offer[r], TRUE)]
    /\ Reply(r)

-----------------------------------------------------------------------------
(* Bound of the updates.                                                    *)

Changed == {i \in Ids : doc[i] # NoDoc /\ doc[i].etag > FirstVersion}

MayUpdate(i) == doc[i].etag < MaxEtag /\ Cardinality(Changed \ {i}) < MaxChanged

-----------------------------------------------------------------------------
(* PUT /enrollments/{id}                                                    *)

UpdateReadEnrollment(r, e) ==
    /\ pc[r] = "idle"
    /\ e \in Enrollments /\ Readable(doc[e]) /\ MayUpdate(e)
    /\ target' = [target EXCEPT ![r] = e]
    /\ \E b \in EnrollmentWriteRequest : body' = [body EXCEPT ![r] = b]
    /\ \E ifMatch \in FirstVersion .. doc[e].etag :
         entity' = [entity EXCEPT ![r] = [doc[e] EXCEPT !.etag = ifMatch]]
    /\ Goto(r, "update.student")
    /\ UNCHANGED <<doc, offer>>

UpdateReadStudent(r) ==
    /\ pc[r] = "update.student"
    /\ \/ /\ Readable(doc[body[r].student])
          /\ Goto(r, "update.schedule")
          /\ UNCHANGED <<doc, target, body, entity, offer>>
       \/ ~ Readable(doc[body[r].student]) /\ Refuse(r)              \* 422

\* The duplicate query is left out unless the enrollment moves to another
\* student or schedule and is to be active; MapToEntity follows either way.
UpdateReadSchedule(r) ==
    /\ pc[r] = "update.schedule"
    /\ LET b == body[r]
           h == doc[b.schedule]
           moves == \/ entity[r].student # b.student
                    \/ entity[r].schedule # b.schedule
       IN  \/ /\ Readable(h)
              /\ entity' = [entity EXCEPT ![r] =
                    Mapped(b, entity[r].price, entity[r].etag, h, b.active)]
              /\ Goto(r, IF moves /\ b.status = "active"
                         THEN "update.duplicate" ELSE "replace")
              /\ UNCHANGED <<doc, target, body, offer>>
           \/ ~ Readable(h) /\ Refuse(r)                             \* 422

UpdateCheckDuplicate(r) ==
    /\ pc[r] = "update.duplicate"
    /\ \/ /\ ~ ExistsActive(body[r].student, body[r].schedule)
          /\ Goto(r, "replace")
          /\ UNCHANGED <<doc, target, body, entity, offer>>
       \/ ExistsActive(body[r].student, body[r].schedule) /\ Refuse(r)  \* 409

-----------------------------------------------------------------------------
(* PUT /schedules/{id} and PUT /students/{id}, as far as enrollments can    *)
(* tell: capacity, list price and the active flag                           *)

ScheduleUpdateRead(r, h) ==
    /\ pc[r] = "idle"
    /\ Readable(doc[h]) /\ MayUpdate(h)
    /\ target' = [target EXCEPT ![r] = h]
    /\ \E ifMatch \in FirstVersion .. doc[h].etag,
          capacity \in Capacities, price \in Prices, active \in BOOLEAN :
         entity' = [entity EXCEPT ![r] = [active |-> active, etag |-> ifMatch,
                                          capacity |-> capacity, price |-> price]]
    /\ Goto(r, "replace")
    /\ UNCHANGED <<doc, body, offer>>

\* StudentFunction reads no If-Match header: the tag is the one it has read.
StudentUpdateRead(r, s) ==
    /\ pc[r] = "idle"
    /\ Readable(doc[s]) /\ MayUpdate(s)
    /\ target' = [target EXCEPT ![r] = s]
    /\ \E active \in BOOLEAN :
         entity' = [entity EXCEPT ![r] = [doc[s] EXCEPT !.active = active]]
    /\ Goto(r, "replace")
    /\ UNCHANGED <<doc, body, offer>>

\* The last await of the three updates.
UpdateReplace(r) ==
    /\ pc[r] = "replace"
    /\ Write(target[r], entity[r])
    /\ Reply(r)

-----------------------------------------------------------------------------
(* DELETE of an enrollment, a schedule or a student.  None of the handlers  *)
(* looks at an If-Match header, so the request is its route alone.          *)

DeleteRead(r, i) ==
    /\ pc[r] = "idle"
    /\ Readable(doc[i])
    /\ target' = [target EXCEPT ![r] = i]
    /\ Goto(r, IF i \in EnrollmentIds THEN "delete.read" ELSE "delete.dependents")
    /\ UNCHANGED <<doc, body, entity, offer>>

CountDependents(i) ==
    IF i \in Schedules THEN CountActiveBySchedule(i) ELSE CountActiveByStudent(i)

DeleteCheckDependents(r) ==
    /\ pc[r] = "delete.dependents"
    /\ \/ /\ CountDependents(target[r]) = 0
          /\ Goto(r, "delete.read")
          /\ UNCHANGED <<doc, target, body, entity, offer>>
       \/ CountDependents(target[r]) # 0 /\ Refuse(r)                \* 409

\* SoftDeleteAsync reads the document again, and throws when it has gone.
SoftDeleteRead(r) ==
    /\ pc[r] = "delete.read"
    /\ \/ /\ Readable(doc[target[r]])
          /\ entity' = [entity EXCEPT ![r] = doc[target[r]]]
          /\ Goto(r, "delete.replace")
          /\ UNCHANGED <<doc, target, body, offer>>
       \/ ~ Readable(doc[target[r]]) /\ Refuse(r)                    \* 500

SoftDeleteReplace(r) ==
    /\ pc[r] = "delete.replace"
    /\ Write(target[r], Deactivated(entity[r]))
    /\ Reply(r)

-----------------------------------------------------------------------------

\* The chain is cut: an exception, a cancelled request, a recycled worker.
Abandon(r) == pc[r] # "idle" /\ Refuse(r)

\* No request is in flight and none arrives any more.
Quiet == (\A r \in Requests : pc[r] = "idle") /\ UNCHANGED vars

CreateNext(r) ==
    \/ CreateReadStudent(r)
    \/ CreateReadSchedule(r)
    \/ CreateCheckDuplicate(r)
    \/ CreateCheckCapacity(r)
    \/ CreateInsert(r)

UpdateNext(r) ==
    \/ \E e \in EnrollmentIds : UpdateReadEnrollment(r, e)
    \/ UpdateReadStudent(r)
    \/ UpdateReadSchedule(r)
    \/ UpdateCheckDuplicate(r)
    \/ \E h \in Schedules : ScheduleUpdateRead(r, h)
    \/ \E s \in Students : StudentUpdateRead(r, s)
    \/ UpdateReplace(r)

DeleteNext(r) ==
    \/ \E i \in Students \cup Schedules \cup Enrollments : DeleteRead(r, i)
    \/ DeleteCheckDependents(r)
    \/ SoftDeleteRead(r)
    \/ SoftDeleteReplace(r)

\* POST and DELETE only: what the two rules of POST /enrollments are worth.
AdmissionNext ==
    \/ \E r \in Requests : CreateNext(r) \/ DeleteNext(r) \/ Abandon(r)
    \/ Quiet

Next == AdmissionNext \/ \E r \in Requests : UpdateNext(r)

AdmissionSpec == Init /\ [][AdmissionNext]_vars

Spec == Init /\ [][Next]_vars

-----------------------------------------------------------------------------
(* Properties                                                               *)

\* The duplicate query and the insert are two awaits, so two POSTs for the same
\* student and schedule can both succeed.  That is all that can happen: there
\* are never more active duplicates than requests in flight at once, and with
\* one request at a time there is no duplicate.
DuplicatesBounded ==
    \A s \in Students, h \in Schedules :
      Cardinality(ActiveOfPair(s, h)) <= Cardinality(Requests)

\* Likewise a schedule is overbooked by fewer places than there are requests in
\* flight at once: with one request at a time it never exceeds its capacity.
OverbookingBounded ==
    \A h \in Schedules :
      CountActiveBySchedule(h) < doc[h].capacity + Cardinality(Requests)

Deletes(r, i) ==
    pc[r] = "delete.replace" /\ target[r] = i /\ doc'[i] # doc[i]

\* A student or a schedule is never deleted while an active enrollment refers
\* to it.
DependentsBlockDeletion ==
    [][\A r \in Requests :
         /\ \A h \in Schedules : Deletes(r, h) => ActiveInSchedule(h) = {}
         /\ \A s \in Students : Deletes(r, s) =>
              \A e \in ActiveEnrollments : doc[e].student # s]_vars

\* A negotiated price outlives every PUT of the enrollment that does not name
\* another one, whatever PUTs of the schedule's list price and of the enrollment
\* ran between the reads and the write.  A price of 0 is valid, but MapToEntity
\* takes it for an enrollment without one, hence the guard.
NegotiatedPriceKept ==
    [][\A r \in Requests, e \in Enrollments :
         /\ target[r] = e /\ UpdateReplace(r)
         /\ body[r].price = NoPrice /\ doc[e].price > 0
         => doc'[e].price = doc[e].price]_vars

=============================================================================
