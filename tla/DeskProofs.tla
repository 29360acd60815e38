------------------------------ MODULE DeskProofs ------------------------------
(***************************************************************************)
(* Theorems about two desks over the same records.                         *)
(*                                                                         *)
(* EnrollmentDesk, for any students, schedules and requests: type          *)
(* correctness under every handler, and what is left of the two rules of   *)
(* POST /enrollments when requests run at the same time.                   *)
(*                                                                         *)
(* RecordDesk, for any page, records, page size and number of writes: what *)
(* a list of the web application shows is what the server has, it shows    *)
(* the writes of its own browser, and no guarded edit undoes another.      *)
(***************************************************************************)
EXTENDS EnrollmentDesk, RecordDesk, InfiniteListProofs, FiniteSetTheorems, TLAPS

-----------------------------------------------------------------------------
(* Documents.                                                               *)

LEMMA DocsAreNotNoDoc ==
  /\ \A i \in Ids : DocOf(i) \ {NoDoc} \subseteq AnyDoc
  /\ \A d \in AnyDoc : d # NoDoc
  BY NoDocAssumption DEF DocOf, AnyDoc

\* A conditional replace stores a document of the kind its id has.
LEMMA ReplacedFits ==
  ASSUME NEW i \in Ids, NEW d \in DocOf(i) \ {NoDoc}, NEW e \in DocOf(i) \ {NoDoc}
  PROVE  Replaced(d, e) \in DocOf(i) \ {NoDoc}
<1>1. CASE i \in Students
  BY <1>1, NoDocAssumption DEF DocOf, Replaced, StudentDoc, AnyDoc
<1>2. CASE i \notin Students /\ i \in Schedules
  BY <1>2, NoDocAssumption DEF DocOf, Replaced, ScheduleDoc, AnyDoc
<1>3. CASE i \notin Students /\ i \notin Schedules
  BY <1>3, NoDocAssumption DEF DocOf, Replaced, EnrollmentDoc, AnyDoc
<1>. QED
  BY <1>1, <1>2, <1>3

\* So does a soft delete.
LEMMA DeactivatedFits ==
  ASSUME NEW i \in Ids, NEW e \in DocOf(i) \ {NoDoc}
  PROVE  Deactivated(e) \in DocOf(i) \ {NoDoc}
<1>1. CASE i \in Students
  BY <1>1, NoDocAssumption DEF DocOf, Deactivated, StudentDoc, AnyDoc
<1>2. CASE i \notin Students /\ i \in Schedules
  BY <1>2, NoDocAssumption DEF DocOf, Deactivated, ScheduleDoc, AnyDoc
<1>3. CASE i \notin Students /\ i \notin Schedules
  BY <1>3, NoDocAssumption DEF DocOf, Deactivated, EnrollmentDoc, AnyDoc
<1>. QED
  BY <1>1, <1>2, <1>3

\* MapToEntity makes an enrollment of a valid body.
LEMMA MappedFits ==
  ASSUME NEW b \in EnrollmentWriteRequest, NEW current \in Prices \cup {0},
         NEW etag \in Nat, NEW listed \in ScheduleDoc, NEW active \in BOOLEAN
  PROVE  Mapped(b, current, etag, listed, active) \in EnrollmentDoc
<1>1. NegotiatedPrice(b, current, listed.price) \in Prices
  BY NumbersAssumption DEF NegotiatedPrice, EnrollmentWriteRequest, ScheduleDoc
<1>. QED
  BY <1>1 DEF Mapped, EnrollmentDoc, EnrollmentWriteRequest

LEMMA SchedulesHoldScheduleDocs ==
  ASSUME TypeOK, NEW h \in Schedules
  PROVE  doc[h] \in ScheduleDoc
  BY IdsAssumption DEF TypeOK, DocOf, Ids

LEMMA EnrollmentIdsHoldEnrollments ==
  ASSUME TypeOK, NEW e \in EnrollmentIds, doc[e] # NoDoc
  PROVE  doc[e] \in EnrollmentDoc
  BY IdsAssumption DEF TypeOK, DocOf, Ids

-----------------------------------------------------------------------------
(* Type correctness.                                                        *)

LEMMA InitTypes == Init => TypeOK
<1> SUFFICES ASSUME Init PROVE TypeOK
  OBVIOUS
<1>1. PICK offered \in [Schedules -> [capacity : Capacities, price : Prices]] :
        doc = [i \in Ids |->
                 IF i \in Students THEN [active |-> TRUE, etag |-> FirstVersion]
                 ELSE IF i \in Schedules
                 THEN [active |-> TRUE, etag |-> FirstVersion,
                       capacity |-> offered[i].capacity, price |-> offered[i].price]
                 ELSE NoDoc]
  BY DEF Init
<1>2. \A i \in Ids : doc[i] \in DocOf(i) /\ doc[i] \in AnyDoc \cup {NoDoc}
  BY <1>1 DEF DocOf, StudentDoc, ScheduleDoc, AnyDoc, FirstVersion
<1>3. \A r \in Requests : RequestOK(r)
  BY DEF Init, RequestOK, CreatePC, UpdatePC, DeletePC
<1>. QED
  BY <1>1, <1>2, <1>3 DEF Init, TypeOK, PC

\* What the requests hold stays good when documents change but keep their kind.
LEMMA OthersKeepTypes ==
  ASSUME TypeOK, NEW r \in Requests, RequestOK(r),
         pc'[r] = pc[r], target'[r] = target[r], body'[r] = body[r],
         entity'[r] = entity[r], offer'[r] = offer[r],
         \A i \in Ids : doc[i] # NoDoc => doc'[i] # NoDoc
  PROVE  RequestOK(r)'
  BY DEF RequestOK

\* An answered request holds nothing.
LEMMA ReplyKeepsTypes ==
  ASSUME TypeOK, NEW r \in Requests, Reply(r),
         doc' \in [Ids -> AnyDoc \cup {NoDoc}],
         \A i \in Ids : doc'[i] \in DocOf(i),
         \A i \in Ids : doc[i] # NoDoc => doc'[i] # NoDoc
  PROVE  TypeOK'
<1>1. /\ pc' \in [Requests -> PC]
      /\ target' \in [Requests -> Ids \cup {NoDoc}]
      /\ body' \in [Requests -> EnrollmentWriteRequest \cup {NoDoc}]
      /\ offer' \in [Requests -> ScheduleDoc \cup {NoDoc}]
      /\ entity' \in [Requests -> AnyDoc \cup {NoDoc}]
  BY DEF TypeOK, Reply, Goto, PC
<1>2. RequestOK(r)'
  BY DEF TypeOK, Reply, Goto, RequestOK, CreatePC, UpdatePC, DeletePC
<1>3. ASSUME NEW q \in Requests, q # r
      PROVE  RequestOK(q)'
  <2>1. /\ pc'[q] = pc[q] /\ target'[q] = target[q] /\ body'[q] = body[q]
        /\ entity'[q] = entity[q] /\ offer'[q] = offer[q]
    BY <1>3 DEF TypeOK, Reply, Goto
  <2>. QED
    BY <2>1, OthersKeepTypes DEF TypeOK
<1>. QED
  BY <1>1, <1>2, <1>3 DEF TypeOK

LEMMA RefuseKeepsTypes ==
  ASSUME TypeOK, NEW r \in Requests, Refuse(r)
  PROVE  TypeOK'
<1>1. Reply(r) /\ doc' = doc
  BY DEF Refuse
<1>. QED
  BY <1>1, ReplyKeepsTypes DEF TypeOK

\* A conditional replace and the answer to it.
LEMMA WriteKeepsTypes ==
  ASSUME TypeOK, NEW r \in Requests, NEW i \in Ids, doc[i] # NoDoc,
         NEW e \in DocOf(i) \ {NoDoc}, Write(i, e), Reply(r)
  PROVE  TypeOK'
<1>1. doc[i] \in DocOf(i) \ {NoDoc}
  BY DEF TypeOK
<1>2. Replaced(doc[i], e) \in DocOf(i) \ {NoDoc}
  BY <1>1, ReplacedFits
<1>3. Replaced(doc[i], e) \in AnyDoc
  BY <1>2, DocsAreNotNoDoc
<1>4. /\ doc' \in [Ids -> AnyDoc \cup {NoDoc}]
      /\ \A j \in Ids : doc'[j] \in DocOf(j)
      /\ \A j \in Ids : doc[j] # NoDoc => doc'[j] # NoDoc
  BY <1>2, <1>3 DEF Write, TypeOK
<1>. QED
  BY <1>4, ReplyKeepsTypes

\* A step of request r that reads: it keeps the documents and the other
\* requests, and leaves r with what its next await needs.
LEMMA ReadKeepsTypes ==
  ASSUME TypeOK, NEW r \in Requests, doc' = doc,
         pc' \in [Requests -> PC],
         target' \in [Requests -> Ids \cup {NoDoc}],
         body' \in [Requests -> EnrollmentWriteRequest \cup {NoDoc}],
         offer' \in [Requests -> ScheduleDoc \cup {NoDoc}],
         entity' \in [Requests -> AnyDoc \cup {NoDoc}],
         \A q \in Requests : q # r =>
           /\ pc'[q] = pc[q] /\ target'[q] = target[q] /\ body'[q] = body[q]
           /\ entity'[q] = entity[q] /\ offer'[q] = offer[q],
         RequestOK(r)'
  PROVE  TypeOK'
<1>1. \A q \in Requests : RequestOK(q)'
  BY OthersKeepTypes DEF TypeOK
<1>. QED
  BY <1>1 DEF TypeOK

LEMMA CreateKeepsTypes ==
  ASSUME TypeOK, NEW r \in Requests, CreateNext(r)
  PROVE  TypeOK'
<1>1. CASE CreateReadStudent(r)
  BY <1>1, ReadKeepsTypes
     DEF TypeOK, RequestOK, CreateReadStudent, Goto, PC, CreatePC, UpdatePC, DeletePC
<1>2. CASE CreateReadSchedule(r)
  <2>1. CASE Refuse(r)
    BY <2>1, RefuseKeepsTypes
  <2>2. CASE ~ Refuse(r)
    <3>1. body[r] \in EnrollmentWriteRequest
      BY <1>2 DEF TypeOK, RequestOK, CreateReadSchedule, CreatePC
    <3>2. doc[body[r].schedule] \in ScheduleDoc
      BY <3>1, SchedulesHoldScheduleDocs DEF EnrollmentWriteRequest
    <3>. QED
      BY <1>2, <2>2, <3>1, <3>2, ReadKeepsTypes
         DEF TypeOK, RequestOK, CreateReadSchedule, Goto, PC, CreatePC, UpdatePC, DeletePC
  <2>. QED
    BY <2>1, <2>2
<1>3. CASE CreateCheckDuplicate(r)
  <2>1. CASE Refuse(r)
    BY <2>1, RefuseKeepsTypes
  <2>2. CASE ~ Refuse(r)
    BY <1>3, <2>2, ReadKeepsTypes
       DEF TypeOK, RequestOK, CreateCheckDuplicate, Goto, PC, CreatePC, UpdatePC, DeletePC
  <2>. QED
    BY <2>1, <2>2
<1>4. CASE CreateCheckCapacity(r)
  <2>1. CASE Refuse(r)
    BY <2>1, RefuseKeepsTypes
  <2>2. CASE ~ Refuse(r)
    BY <1>4, <2>2, ReadKeepsTypes
       DEF TypeOK, RequestOK, CreateCheckCapacity, Goto, PC, CreatePC, UpdatePC, DeletePC
  <2>. QED
    BY <2>1, <2>2
<1>5. CASE CreateInsert(r)
  <2>1. PICK e \in EnrollmentIds \ Enrollments :
          doc' = [doc EXCEPT ![e] = Mapped(body[r], 0, FirstVersion, offer[r], TRUE)]
    BY <1>5 DEF CreateInsert
  <2>2. body[r] \in EnrollmentWriteRequest /\ offer[r] \in ScheduleDoc
    BY <1>5 DEF TypeOK, RequestOK, CreateInsert, CreatePC
  <2>3. Mapped(body[r], 0, FirstVersion, offer[r], TRUE) \in EnrollmentDoc
    BY <2>2, MappedFits DEF FirstVersion
  <2>4. e \in Ids /\ e \notin Students /\ e \notin Schedules
    BY IdsAssumption DEF Ids
  <2>5. /\ doc' \in [Ids -> AnyDoc \cup {NoDoc}]
        /\ \A j \in Ids : doc'[j] \in DocOf(j)
        /\ \A j \in Ids : doc[j] # NoDoc => doc'[j] # NoDoc
    BY <2>1, <2>3, <2>4, NoDocAssumption DEF TypeOK, DocOf, AnyDoc
  <2>. QED
    BY <1>5, <2>5, ReplyKeepsTypes DEF CreateInsert
<1>. QED
  BY <1>1, <1>2, <1>3, <1>4, <1>5 DEF CreateNext

LEMMA UpdateKeepsTypes ==
  ASSUME TypeOK, NEW r \in Requests, UpdateNext(r)
  PROVE  TypeOK'
<1>1. ASSUME NEW e \in EnrollmentIds, UpdateReadEnrollment(r, e)
      PROVE  TypeOK'
  <2>1. doc[e] \in EnrollmentDoc /\ e \in Ids /\ e \notin Students /\ e \notin Schedules
    BY <1>1, EnrollmentIdsHoldEnrollments, IdsAssumption
       DEF UpdateReadEnrollment, Enrollments, Ids
  <2>2. PICK ifMatch \in FirstVersion .. doc[e].etag :
          entity' = [entity EXCEPT ![r] = [doc[e] EXCEPT !.etag = ifMatch]]
    BY <1>1 DEF UpdateReadEnrollment
  <2>3. [doc[e] EXCEPT !.etag = ifMatch] \in EnrollmentDoc
    BY <2>1 DEF EnrollmentDoc, FirstVersion
  <2>4. [doc[e] EXCEPT !.etag = ifMatch] \in AnyDoc /\ EnrollmentDoc \subseteq DocOf(e) \ {NoDoc}
    BY <2>1, <2>3, NoDocAssumption DEF AnyDoc, DocOf
  <2>5. doc[e] # NoDoc
    BY <1>1 DEF UpdateReadEnrollment, Enrollments
  <2>6. /\ target'[r] = e /\ entity'[r] \in DocOf(e) \ {NoDoc} /\ doc'[e] # NoDoc
        /\ body'[r] \in EnrollmentWriteRequest /\ pc'[r] = "update.student"
    BY <1>1, <2>2, <2>3, <2>4, <2>5 DEF UpdateReadEnrollment, Goto, TypeOK
  <2>7. RequestOK(r)'
    BY <2>1, <2>6 DEF RequestOK, CreatePC, UpdatePC, DeletePC
  <2>. QED
    BY <1>1, <2>1, <2>2, <2>4, <2>7, ReadKeepsTypes
       DEF TypeOK, UpdateReadEnrollment, Goto, PC, UpdatePC
<1>2. CASE UpdateReadStudent(r)
  <2>1. CASE Refuse(r)
    BY <2>1, RefuseKeepsTypes
  <2>2. CASE ~ Refuse(r)
    BY <1>2, <2>2, ReadKeepsTypes
       DEF TypeOK, RequestOK, UpdateReadStudent, Goto, PC, CreatePC, UpdatePC, DeletePC
  <2>. QED
    BY <2>1, <2>2
<1>3. CASE UpdateReadSchedule(r)
  <2>1. CASE Refuse(r)
    BY <2>1, RefuseKeepsTypes
  <2>2. CASE ~ Refuse(r)
    <3> DEFINE b == body[r]
               h == doc[b.schedule]
               e == Mapped(b, entity[r].price, entity[r].etag, h, b.active)
    <3>1. /\ b \in EnrollmentWriteRequest
          /\ target[r] \in EnrollmentIds /\ doc[target[r]] # NoDoc
          /\ entity[r] \in DocOf(target[r]) \ {NoDoc}
      BY <1>3 DEF TypeOK, RequestOK, UpdateReadSchedule, UpdatePC
    <3>2. entity[r] \in EnrollmentDoc /\ target[r] \in Ids
          /\ EnrollmentDoc \subseteq DocOf(target[r]) \ {NoDoc}
      BY <3>1, IdsAssumption, NoDocAssumption DEF DocOf, Ids, AnyDoc
    <3>3. h \in ScheduleDoc
      BY <3>1, SchedulesHoldScheduleDocs DEF EnrollmentWriteRequest
    <3>4. e \in EnrollmentDoc
      BY <3>1, <3>2, <3>3, MappedFits DEF EnrollmentDoc, EnrollmentWriteRequest
    <3>5. e \in AnyDoc /\ e \in DocOf(target[r]) \ {NoDoc}
      BY <3>2, <3>4 DEF AnyDoc
    <3>6. /\ doc' = doc /\ target' = target /\ body' = body /\ offer' = offer
          /\ entity' = [entity EXCEPT ![r] = e]
          /\ pc' = [pc EXCEPT ![r] = "update.duplicate"]
               \/ pc' = [pc EXCEPT ![r] = "replace"]
      BY <1>3, <2>2 DEF UpdateReadSchedule, Goto
    <3> HIDE DEF b, h, e
    <3>7. RequestOK(r)'
      BY <3>1, <3>2, <3>5, <3>6 DEF b, TypeOK, RequestOK, CreatePC, UpdatePC, DeletePC
    <3>. QED
      BY <3>5, <3>6, <3>7, ReadKeepsTypes DEF TypeOK, PC, UpdatePC
  <2>. QED
    BY <2>1, <2>2
<1>4. CASE UpdateCheckDuplicate(r)
  <2>1. CASE Refuse(r)
    BY <2>1, RefuseKeepsTypes
  <2>2. CASE ~ Refuse(r)
    BY <1>4, <2>2, ReadKeepsTypes
       DEF TypeOK, RequestOK, UpdateCheckDuplicate, Goto, PC, CreatePC, UpdatePC, DeletePC
  <2>. QED
    BY <2>1, <2>2
<1>5. ASSUME NEW h \in Schedules, ScheduleUpdateRead(r, h)
      PROVE  TypeOK'
  <2>1. PICK ifMatch \in FirstVersion .. doc[h].etag,
             capacity \in Capacities, price \in Prices, active \in BOOLEAN :
          entity' = [entity EXCEPT ![r] = [active |-> active, etag |-> ifMatch,
                                           capacity |-> capacity, price |-> price]]
    BY <1>5 DEF ScheduleUpdateRead
  <2> DEFINE e == [active |-> active, etag |-> ifMatch, capacity |-> capacity, price |-> price]
  <2>2. doc[h] \in ScheduleDoc /\ h \in Ids /\ h \notin Students
    BY SchedulesHoldScheduleDocs, IdsAssumption DEF Ids
  <2>3. e \in ScheduleDoc
    BY <2>1, <2>2 DEF ScheduleDoc, FirstVersion
  <2>4. e \in AnyDoc /\ e \in DocOf(h) \ {NoDoc} /\ doc[h] # NoDoc
    BY <2>2, <2>3, NoDocAssumption DEF AnyDoc, DocOf
  <2> HIDE DEF e
  <2>5. /\ doc' = doc /\ body' = body /\ offer' = offer
        /\ target' = [target EXCEPT ![r] = h]
        /\ entity' = [entity EXCEPT ![r] = e]
        /\ pc' = [pc EXCEPT ![r] = "replace"]
    BY <1>5, <2>1 DEF e, ScheduleUpdateRead, Goto
  <2>6. RequestOK(r)'
    BY <2>2, <2>4, <2>5 DEF TypeOK, RequestOK, CreatePC, UpdatePC, DeletePC
  <2>. QED
    BY <2>2, <2>4, <2>5, <2>6, ReadKeepsTypes DEF TypeOK, PC, UpdatePC
<1>6. ASSUME NEW s \in Students, StudentUpdateRead(r, s)
      PROVE  TypeOK'
  <2>1. PICK active \in BOOLEAN :
          entity' = [entity EXCEPT ![r] = [doc[s] EXCEPT !.active = active]]
    BY <1>6 DEF StudentUpdateRead
  <2>2. doc[s] \in StudentDoc /\ s \in Ids
    BY DEF TypeOK, DocOf, Ids
  <2>3. [doc[s] EXCEPT !.active = active] \in StudentDoc
    BY <2>2 DEF StudentDoc
  <2> DEFINE e == [doc[s] EXCEPT !.active = active]
  <2>4. e \in AnyDoc /\ e \in DocOf(s) \ {NoDoc} /\ doc[s] # NoDoc
    BY <2>2, <2>3, NoDocAssumption DEF AnyDoc, DocOf
  <2> HIDE DEF e
  <2>5. /\ doc' = doc /\ body' = body /\ offer' = offer
        /\ target' = [target EXCEPT ![r] = s]
        /\ entity' = [entity EXCEPT ![r] = e]
        /\ pc' = [pc EXCEPT ![r] = "replace"]
    BY <1>6, <2>1 DEF e, StudentUpdateRead, Goto
  <2>6. RequestOK(r)'
    BY <2>2, <2>4, <2>5 DEF TypeOK, RequestOK, CreatePC, UpdatePC, DeletePC
  <2>. QED
    BY <2>2, <2>4, <2>5, <2>6, ReadKeepsTypes DEF TypeOK, PC, UpdatePC
<1>7. CASE UpdateReplace(r)
  BY <1>7, WriteKeepsTypes DEF TypeOK, RequestOK, UpdateReplace, UpdatePC
<1>. QED
  BY <1>1, <1>2, <1>3, <1>4, <1>5, <1>6, <1>7 DEF UpdateNext

LEMMA DeleteKeepsTypes ==
  ASSUME TypeOK, NEW r \in Requests, DeleteNext(r)
  PROVE  TypeOK'
<1>1. ASSUME NEW i \in Students \cup Schedules \cup Enrollments, DeleteRead(r, i)
      PROVE  TypeOK'
  <2>1. i \in Ids /\ doc[i] # NoDoc /\ doc[i] \in AnyDoc
    BY <1>1, DocsAreNotNoDoc DEF DeleteRead, Readable, Ids, Enrollments, TypeOK
  <2>2. RequestOK(r)'
    BY <1>1, <2>1 DEF DeleteRead, Goto, TypeOK, RequestOK, CreatePC, UpdatePC, DeletePC
  <2>. QED
    BY <1>1, <2>1, <2>2, ReadKeepsTypes
       DEF TypeOK, DeleteRead, Goto, PC, DeletePC
<1>2. CASE DeleteCheckDependents(r)
  <2>1. CASE Refuse(r)
    BY <2>1, RefuseKeepsTypes
  <2>2. CASE ~ Refuse(r)
    BY <1>2, <2>2, ReadKeepsTypes
       DEF TypeOK, RequestOK, DeleteCheckDependents, Goto, PC, CreatePC, UpdatePC, DeletePC
  <2>. QED
    BY <2>1, <2>2
<1>3. CASE SoftDeleteRead(r)
  <2>1. CASE Refuse(r)
    BY <2>1, RefuseKeepsTypes
  <2>2. CASE ~ Refuse(r)
    <3>1. /\ target[r] \in Ids
          /\ doc[target[r]] \in DocOf(target[r]) \ {NoDoc}
          /\ doc[target[r]] \in AnyDoc
      BY <1>3, DocsAreNotNoDoc DEF TypeOK, RequestOK, SoftDeleteRead, DeletePC
    <3>. QED
      BY <1>3, <2>2, <3>1, ReadKeepsTypes
         DEF TypeOK, RequestOK, SoftDeleteRead, Goto, PC, CreatePC, UpdatePC, DeletePC
  <2>. QED
    BY <2>1, <2>2
<1>4. CASE SoftDeleteReplace(r)
  BY <1>4, WriteKeepsTypes, DeactivatedFits
     DEF TypeOK, RequestOK, SoftDeleteReplace, DeletePC
<1>. QED
  BY <1>1, <1>2, <1>3, <1>4 DEF DeleteNext

LEMMA NextKeepsTypes == TypeOK /\ [Next]_vars => TypeOK'
<1> SUFFICES ASSUME TypeOK, [Next]_vars
             PROVE  TypeOK'
  OBVIOUS
<1>1. ASSUME NEW r \in Requests, CreateNext(r) \/ DeleteNext(r) \/ UpdateNext(r)
      PROVE  TypeOK'
  BY <1>1, CreateKeepsTypes, DeleteKeepsTypes, UpdateKeepsTypes
<1>2. ASSUME NEW r \in Requests, Abandon(r)
      PROVE  TypeOK'
  BY <1>2, RefuseKeepsTypes DEF Abandon
<1>3. CASE UNCHANGED vars
  BY <1>3 DEF vars, TypeOK, RequestOK
<1>. QED
  BY <1>1, <1>2, <1>3 DEF Next, AdmissionNext, Quiet

\* Every entity a handler is about to write is fit for the id it is written to,
\* whichever handlers run between its reads and its write.
THEOREM TypeCorrect == Spec => []TypeOK
  BY InitTypes, NextKeepsTypes, PTL DEF Spec

-----------------------------------------------------------------------------
(* The bounds on duplicates and on overbooking.  A POST that has passed a   *)
(* check is as good as the enrollment it is going to insert: the invariant  *)
(* counts both.                                                             *)

\* Creates that have found no duplicate and have not inserted yet.
PastDuplicate(s, h) ==
    {r \in Requests : /\ pc[r] \in {"create.capacity", "create.insert"}
                      /\ body[r].student = s
                      /\ body[r].schedule = h}

\* Creates that have found a free place and have not inserted yet.
PastCapacity(h) ==
    {r \in Requests : pc[r] = "create.insert" /\ body[r].schedule = h}

\* No schedule changes its capacity, so a capacity in memory is the stored one.
CapacityIsCurrent ==
    \A r \in Requests :
      /\ pc[r] \in CreatePC \ {"create.schedule"} =>
           offer[r].capacity = doc[body[r].schedule].capacity
      /\ pc[r] = "delete.replace" /\ target[r] \in Schedules =>
           entity[r].capacity = doc[target[r]].capacity

DuplicatesCounted ==
    \A s \in Students, h \in Schedules :
      Cardinality(ActiveOfPair(s, h)) + Cardinality(PastDuplicate(s, h))
        <= Cardinality(Requests)

PlacesCounted ==
    \A h \in Schedules :
      Cardinality(ActiveInSchedule(h)) + Cardinality(PastCapacity(h))
        < doc[h].capacity + Cardinality(Requests)

AdmissionInv == TypeOK /\ CapacityIsCurrent /\ DuplicatesCounted /\ PlacesCounted

LEMMA Finiteness ==
  /\ Cardinality(Requests) \in Nat
  /\ \A s, h : /\ IsFiniteSet(ActiveOfPair(s, h))
               /\ IsFiniteSet(ActiveInSchedule(h))
               /\ IsFiniteSet(PastDuplicate(s, h))
               /\ IsFiniteSet(PastCapacity(h))
               /\ PastDuplicate(s, h) \subseteq Requests
               /\ PastCapacity(h) \subseteq Requests
<1>1. Cardinality(Requests) \in Nat
  BY FiniteAssumption, FS_CardinalityType
<1> SUFFICES ASSUME NEW s, NEW h
             PROVE  /\ ActiveOfPair(s, h) \in SUBSET EnrollmentIds
                    /\ ActiveInSchedule(h) \in SUBSET EnrollmentIds
                    /\ PastDuplicate(s, h) \in SUBSET Requests
                    /\ PastCapacity(h) \in SUBSET Requests
  BY <1>1, FiniteAssumption, FS_Subset
<1>. QED
  BY DEF ActiveOfPair, ActiveInSchedule, ActiveEnrollments, Enrollments,
         PastDuplicate, PastCapacity

\* Smaller sets have a smaller sum.
LEMMA SumShrinks ==
  ASSUME NEW A, NEW P, IsFiniteSet(A), IsFiniteSet(P),
         NEW A1 \in SUBSET A, NEW P1 \in SUBSET P
  PROVE  /\ Cardinality(A1) + Cardinality(P1) <= Cardinality(A) + Cardinality(P)
         /\ Cardinality(A1) + Cardinality(P1) \in Nat
         /\ Cardinality(A) + Cardinality(P) \in Nat
<1>1. /\ Cardinality(A1) <= Cardinality(A) /\ IsFiniteSet(A1)
      /\ Cardinality(P1) <= Cardinality(P) /\ IsFiniteSet(P1)
  BY FS_Subset
<1>2. /\ Cardinality(A) \in Nat /\ Cardinality(A1) \in Nat
      /\ Cardinality(P) \in Nat /\ Cardinality(P1) \in Nat
  BY <1>1, FS_CardinalityType
<1>. QED
  BY <1>1, <1>2

\* An element that moves from one set to the other keeps the sum.
LEMMA SumTransfers ==
  ASSUME NEW A, NEW P, IsFiniteSet(A), IsFiniteSet(P), NEW e, NEW r \in P,
         NEW A1 \in SUBSET (A \cup {e}), NEW P1 \in SUBSET (P \ {r})
  PROVE  Cardinality(A1) + Cardinality(P1) <= Cardinality(A) + Cardinality(P)
<1>1. Cardinality(A) \in Nat /\ Cardinality(P) \in Nat
  BY FS_CardinalityType
<1>2. /\ IsFiniteSet(A \cup {e})
      /\ Cardinality(A \cup {e}) = IF e \in A THEN Cardinality(A) ELSE Cardinality(A) + 1
  BY FS_AddElement
<1>3. /\ IsFiniteSet(P \ {r})
      /\ Cardinality(P \ {r}) = Cardinality(P) - 1
  BY FS_RemoveElement
<1>4. /\ Cardinality(A1) + Cardinality(P1)
           <= Cardinality(A \cup {e}) + Cardinality(P \ {r})
      /\ Cardinality(A1) + Cardinality(P1) \in Nat
  BY <1>2, <1>3, SumShrinks
<1>. QED
  BY <1>1, <1>2, <1>3, <1>4

-----------------------------------------------------------------------------
(* What the steps do to the sets that are counted.                          *)

\* A request that is not, or no longer, past a check.
LEMMA LeavesShrink ==
  ASSUME TypeOK, NEW r \in Requests,
         pc'[r] \notin {"create.capacity", "create.insert"},
         \A q \in Requests : q # r => pc'[q] = pc[q] /\ body'[q] = body[q]
  PROVE  \A s, h : /\ PastDuplicate(s, h)' \subseteq PastDuplicate(s, h) \ {r}
                  /\ PastCapacity(h)' \subseteq PastCapacity(h) \ {r}
  BY DEF PastDuplicate, PastCapacity

LEMMA ReplyShrinks ==
  ASSUME TypeOK, NEW r \in Requests, Reply(r)
  PROVE  \A s, h : /\ PastDuplicate(s, h)' \subseteq PastDuplicate(s, h) \ {r}
                  /\ PastCapacity(h)' \subseteq PastCapacity(h) \ {r}
<1>1. /\ pc'[r] \notin {"create.capacity", "create.insert"}
      /\ \A q \in Requests : q # r => pc'[q] = pc[q] /\ body'[q] = body[q]
  BY DEF TypeOK, Reply, Goto
<1>. QED
  BY <1>1, LeavesShrink

\* A soft delete can only take enrollments out.
LEMMA SoftDeleteShrinks ==
  ASSUME TypeOK, NEW i \in Ids, NEW e \in AnyDoc, Write(i, Deactivated(e))
  PROVE  \A s, h : /\ ActiveOfPair(s, h)' \subseteq ActiveOfPair(s, h)
                  /\ ActiveInSchedule(h)' \subseteq ActiveInSchedule(h)
<1>1. Replaced(doc[i], Deactivated(e)).active = FALSE
  <2>1. CASE e \in StudentDoc
    BY <2>1 DEF StudentDoc, Deactivated, Replaced
  <2>2. CASE e \in ScheduleDoc
    BY <2>2 DEF ScheduleDoc, Deactivated, Replaced
  <2>3. CASE e \in EnrollmentDoc
    BY <2>3 DEF EnrollmentDoc, Deactivated, Replaced
  <2>. QED
    BY <2>1, <2>2, <2>3 DEF AnyDoc
<1>2. \A j \in EnrollmentIds : doc'[j] = doc[j] \/ doc'[j].active = FALSE
  BY <1>1 DEF Write, TypeOK, Ids
<1>. QED
  BY <1>2 DEF ActiveOfPair, ActiveInSchedule, ActiveEnrollments, Enrollments

\* An insert adds its enrollment to the schedule and to the pair of its body.
LEMMA InsertAdds ==
  ASSUME TypeOK, NEW r \in Requests, NEW e \in EnrollmentIds \ Enrollments,
         body[r] \in EnrollmentWriteRequest, offer[r] \in ScheduleDoc,
         doc' = [doc EXCEPT ![e] = Mapped(body[r], 0, FirstVersion, offer[r], TRUE)]
  PROVE  \A s, h :
           /\ ActiveInSchedule(h)' \subseteq ActiveInSchedule(h) \cup {e}
           /\ ActiveOfPair(s, h)' \subseteq ActiveOfPair(s, h) \cup {e}
           /\ body[r].schedule # h =>
                ActiveInSchedule(h)' \subseteq ActiveInSchedule(h)
           /\ body[r].schedule # h \/ body[r].student # s =>
                ActiveOfPair(s, h)' \subseteq ActiveOfPair(s, h)
<1>1. e \in Ids /\ \A j \in EnrollmentIds : j # e => doc'[j] = doc[j]
  BY DEF TypeOK, Ids
<1>2. /\ doc'[e].schedule = body[r].schedule
      /\ doc'[e].student = body[r].student
  BY <1>1 DEF TypeOK, Mapped
<1>. QED
  BY <1>1, <1>2 DEF ActiveOfPair, ActiveInSchedule, ActiveEnrollments, Enrollments

LEMMA SameDocsSameSets ==
  ASSUME doc' = doc
  PROVE  \A s, h : /\ ActiveOfPair(s, h)' = ActiveOfPair(s, h)
                  /\ ActiveInSchedule(h)' = ActiveInSchedule(h)
  BY DEF ActiveOfPair, ActiveInSchedule, ActiveEnrollments, Enrollments

\* Every step of POST and DELETE but a passed check and the insert leaves the
\* sets as they are or smaller.
LEMMA OtherStepsShrink ==
  ASSUME TypeOK, NEW r \in Requests,
         \/ CreateReadStudent(r) \/ CreateReadSchedule(r)
         \/ Refuse(r) \/ DeleteNext(r)
  PROVE  \A s, h : /\ ActiveOfPair(s, h)' \subseteq ActiveOfPair(s, h)
                  /\ ActiveInSchedule(h)' \subseteq ActiveInSchedule(h)
                  /\ PastDuplicate(s, h)' \subseteq PastDuplicate(s, h)
                  /\ PastCapacity(h)' \subseteq PastCapacity(h)
<1>1. CASE Refuse(r)
  BY <1>1, SameDocsSameSets, ReplyShrinks DEF Refuse
<1>2. CASE SoftDeleteReplace(r)
  <2>1. target[r] \in Ids /\ entity[r] \in AnyDoc
    BY <1>2, DocsAreNotNoDoc DEF TypeOK, RequestOK, SoftDeleteReplace, DeletePC
  <2>. QED
    BY <1>2, <2>1, SoftDeleteShrinks, ReplyShrinks DEF SoftDeleteReplace
<1>3. CASE /\ ~ Refuse(r)
           /\ \/ CreateReadStudent(r) \/ CreateReadSchedule(r)
              \/ \E i \in Students \cup Schedules \cup Enrollments : DeleteRead(r, i)
              \/ DeleteCheckDependents(r) \/ SoftDeleteRead(r)
  <2>1. /\ doc' = doc
        /\ pc'[r] \notin {"create.capacity", "create.insert"}
        /\ \A q \in Requests : q # r => pc'[q] = pc[q] /\ body'[q] = body[q]
    BY <1>3 DEF TypeOK, Goto, CreateReadStudent, CreateReadSchedule, DeleteRead,
                DeleteCheckDependents, SoftDeleteRead
  <2>. QED
    BY <2>1, SameDocsSameSets, LeavesShrink
<1>. QED
  BY <1>1, <1>2, <1>3 DEF DeleteNext

\* The capacity of a schedule never changes without PUTs.
LEMMA CapacityStays ==
  ASSUME TypeOK, CapacityIsCurrent, [AdmissionNext]_vars, NEW h \in Schedules
  PROVE  doc'[h].capacity = doc[h].capacity
<1>1. ASSUME NEW r \in Requests, CreateInsert(r)
      PROVE  doc'[h] = doc[h]
  BY <1>1, IdsAssumption DEF CreateInsert, TypeOK, Ids
<1>2. ASSUME NEW r \in Requests, SoftDeleteReplace(r), target[r] = h, doc' # doc
      PROVE  doc'[h].capacity = doc[h].capacity
  <2>1. /\ h \in Ids /\ h \notin Students
        /\ entity[r] \in ScheduleDoc /\ entity[r].capacity = doc[h].capacity
    BY <1>2, IdsAssumption
       DEF TypeOK, RequestOK, CapacityIsCurrent, SoftDeleteReplace, DeletePC, DocOf, Ids
  <2>2. doc'[h] = Replaced(doc[h], Deactivated(entity[r]))
    BY <1>2, <2>1 DEF SoftDeleteReplace, Write, TypeOK
  <2>3. Replaced(doc[h], Deactivated(entity[r])).capacity = entity[r].capacity
    BY <2>1 DEF Replaced, Deactivated, ScheduleDoc
  <2>. QED
    BY <2>1, <2>2, <2>3
<1>3. ASSUME NEW r \in Requests, SoftDeleteReplace(r), target[r] # h
      PROVE  doc'[h] = doc[h]
  BY <1>3 DEF SoftDeleteReplace, Write, TypeOK, Ids
<1>4. ASSUME NEW r \in Requests,
             \/ CreateReadStudent(r) \/ CreateReadSchedule(r)
             \/ CreateCheckDuplicate(r) \/ CreateCheckCapacity(r)
             \/ \E i \in Students \cup Schedules \cup Enrollments : DeleteRead(r, i)
             \/ DeleteCheckDependents(r) \/ SoftDeleteRead(r) \/ Abandon(r)
      PROVE  doc' = doc
  BY <1>4 DEF CreateReadStudent, CreateReadSchedule, CreateCheckDuplicate,
              CreateCheckCapacity, DeleteRead, DeleteCheckDependents, SoftDeleteRead,
              Abandon, Refuse
<1>. QED
  BY <1>1, <1>2, <1>3, <1>4 DEF AdmissionNext, CreateNext, DeleteNext, Quiet, vars

LEMMA CapacityIsCurrentStays ==
  ASSUME TypeOK, TypeOK', CapacityIsCurrent, [AdmissionNext]_vars
  PROVE  CapacityIsCurrent'
<1> SUFFICES ASSUME NEW q \in Requests
             PROVE  /\ pc'[q] \in CreatePC \ {"create.schedule"} =>
                         offer'[q].capacity = doc'[body'[q].schedule].capacity
                    /\ pc'[q] = "delete.replace" /\ target'[q] \in Schedules =>
                         entity'[q].capacity = doc'[target'[q]].capacity
  BY DEF CapacityIsCurrent
<1>1. /\ pc[q] \in CreatePC => body[q].schedule \in Schedules
      /\ \A h \in Schedules : doc'[h].capacity = doc[h].capacity
  BY CapacityStays DEF TypeOK, RequestOK, EnrollmentWriteRequest
<1>2. CASE /\ pc'[q] = pc[q] \/ (pc[q] \in {"create.duplicate", "create.capacity"}
                                  /\ pc'[q] \in CreatePC)
           /\ body'[q] = body[q] /\ target'[q] = target[q]
           /\ offer'[q] = offer[q] /\ entity'[q] = entity[q]
  BY <1>1, <1>2 DEF CapacityIsCurrent, CreatePC
<1>3. CASE pc'[q] \notin (CreatePC \ {"create.schedule"}) \cup {"delete.replace"}
  BY <1>3
<1>4. CASE CreateReadSchedule(q) /\ ~ Refuse(q)
  BY <1>1, <1>4 DEF CreateReadSchedule, Goto, TypeOK, CreatePC
<1>5. CASE SoftDeleteRead(q) /\ ~ Refuse(q)
  BY <1>1, <1>5 DEF SoftDeleteRead, Goto, TypeOK, CreatePC
<1>6. ASSUME NEW r \in Requests, Reply(r)
      PROVE  \/ pc'[q] = "idle"
             \/ /\ pc'[q] = pc[q] /\ body'[q] = body[q] /\ target'[q] = target[q]
                /\ offer'[q] = offer[q] /\ entity'[q] = entity[q]
  BY <1>6 DEF Reply, Goto, TypeOK
<1>7. ASSUME NEW r \in Requests,
             \/ CreateReadStudent(r) \/ CreateCheckDuplicate(r) \/ CreateCheckCapacity(r)
             \/ \E i \in Students \cup Schedules \cup Enrollments : DeleteRead(r, i)
             \/ DeleteCheckDependents(r)
             \/ q # r /\ (CreateReadSchedule(r) \/ SoftDeleteRead(r)),
             ~ Reply(r)
      PROVE  \/ pc'[q] \notin (CreatePC \ {"create.schedule"}) \cup {"delete.replace"}
             \/ /\ pc'[q] = pc[q] \/ (pc[q] \in {"create.duplicate", "create.capacity"}
                                       /\ pc'[q] \in CreatePC)
                /\ body'[q] = body[q] /\ target'[q] = target[q]
                /\ offer'[q] = offer[q] /\ entity'[q] = entity[q]
  BY <1>7 DEF CreateReadStudent, CreateReadSchedule, CreateCheckDuplicate,
              CreateCheckCapacity, DeleteRead, DeleteCheckDependents, SoftDeleteRead,
              Refuse, Goto, TypeOK, CreatePC
<1>8. CASE UNCHANGED vars
  BY <1>2, <1>8 DEF vars
<1>9. "idle" \notin CreatePC \cup {"delete.replace"}
  BY DEF CreatePC
<1>10. ASSUME NEW r \in Requests, Reply(r)
       PROVE  \/ pc'[q] \notin (CreatePC \ {"create.schedule"}) \cup {"delete.replace"}
              \/ /\ pc'[q] = pc[q] /\ body'[q] = body[q] /\ target'[q] = target[q]
                 /\ offer'[q] = offer[q] /\ entity'[q] = entity[q]
  BY <1>6, <1>9, <1>10
<1>11. ASSUME NEW r \in Requests, CreateInsert(r) \/ SoftDeleteReplace(r) \/ Abandon(r)
       PROVE  Reply(r)
  BY <1>11 DEF CreateInsert, SoftDeleteReplace, Abandon, Refuse
<1>12. ASSUME NEW r \in Requests, CreateNext(r) \/ DeleteNext(r) \/ Abandon(r)
       PROVE  \/ Reply(r)
              \/ CreateReadStudent(r) \/ CreateCheckDuplicate(r) \/ CreateCheckCapacity(r)
              \/ \E i \in Students \cup Schedules \cup Enrollments : DeleteRead(r, i)
              \/ DeleteCheckDependents(r)
              \/ CreateReadSchedule(r) \/ SoftDeleteRead(r)
  BY <1>11, <1>12 DEF CreateNext, DeleteNext
<1>13. ASSUME NEW r \in Requests, ~ Reply(r)
       PROVE  ~ Refuse(r)
  BY <1>13 DEF Refuse
<1>. QED
  BY <1>2, <1>3, <1>4, <1>5, <1>7, <1>8, <1>10, <1>12, <1>13 DEF AdmissionNext, Quiet

-----------------------------------------------------------------------------
(* The two counts.                                                          *)

LEMMA DuplicatesStayCounted ==
  ASSUME TypeOK, DuplicatesCounted, [AdmissionNext]_vars
  PROVE  DuplicatesCounted'
<1> SUFFICES ASSUME NEW s \in Students, NEW h \in Schedules
             PROVE  Cardinality(ActiveOfPair(s, h)') + Cardinality(PastDuplicate(s, h)')
                      <= Cardinality(Requests)
  BY DEF DuplicatesCounted
<1> DEFINE A == ActiveOfPair(s, h)
           P == PastDuplicate(s, h)
<1>1. /\ IsFiniteSet(A) /\ IsFiniteSet(P)
      /\ Cardinality(A) + Cardinality(P) <= Cardinality(Requests)
      /\ Cardinality(A) + Cardinality(P) \in Nat
      /\ Cardinality(Requests) \in Nat
  BY Finiteness, FS_CardinalityType DEF DuplicatesCounted
<1>2. CASE A' \subseteq A /\ P' \subseteq P
  <2>1. /\ Cardinality(A') + Cardinality(P') <= Cardinality(A) + Cardinality(P)
        /\ Cardinality(A') + Cardinality(P') \in Nat
    BY <1>1, <1>2, SumShrinks
  <2>. QED
    BY <1>1, <2>1
<1>3. ASSUME NEW r \in Requests, CreateCheckDuplicate(r), ~ Refuse(r)
      PROVE  Cardinality(A') + Cardinality(P') <= Cardinality(Requests)
  <2>1. doc' = doc /\ body' = body /\ pc' = [pc EXCEPT ![r] = "create.capacity"]
    BY <1>3 DEF CreateCheckDuplicate, Goto
  <2>2. CASE body[r].student = s /\ body[r].schedule = h
    <3>1. A = {} /\ A' = A
      BY <1>3, <2>1, <2>2, SameDocsSameSets DEF CreateCheckDuplicate, ExistsActive
    <3>2. P' \in SUBSET Requests
      BY DEF PastDuplicate
    <3>3. Cardinality(P') <= Cardinality(Requests) /\ Cardinality(P') \in Nat
      BY <3>2, FiniteAssumption, FS_Subset, FS_CardinalityType
    <3>4. Cardinality(A') = 0
      BY <3>1, FS_EmptySet
    <3>. QED
      BY <3>3, <3>4
  <2>3. CASE ~ (body[r].student = s /\ body[r].schedule = h)
    <3>1. A' = A /\ P' \subseteq P
      BY <2>1, <2>3, SameDocsSameSets DEF PastDuplicate, TypeOK
    <3>. QED
      BY <1>2, <3>1
  <2>. QED
    BY <2>2, <2>3
<1>4. ASSUME NEW r \in Requests, CreateCheckCapacity(r), ~ Refuse(r)
      PROVE  A' \subseteq A /\ P' \subseteq P
  <2>1. /\ doc' = doc /\ body' = body
        /\ pc[r] = "create.capacity" /\ pc' = [pc EXCEPT ![r] = "create.insert"]
    BY <1>4 DEF CreateCheckCapacity, Goto
  <2>. QED
    BY <2>1, SameDocsSameSets DEF PastDuplicate, TypeOK
<1>5. ASSUME NEW r \in Requests, CreateInsert(r)
      PROVE  Cardinality(A') + Cardinality(P') <= Cardinality(Requests)
  <2>1. PICK e \in EnrollmentIds \ Enrollments :
          doc' = [doc EXCEPT ![e] = Mapped(body[r], 0, FirstVersion, offer[r], TRUE)]
    BY <1>5 DEF CreateInsert
  <2>2. body[r] \in EnrollmentWriteRequest /\ offer[r] \in ScheduleDoc
    BY <1>5 DEF TypeOK, RequestOK, CreateInsert, CreatePC
  <2>3. P' \subseteq P \ {r}
    BY <1>5, ReplyShrinks DEF CreateInsert
  <2>4. CASE body[r].student = s /\ body[r].schedule = h
    <3>1. r \in P
      BY <1>5, <2>4 DEF PastDuplicate, CreateInsert
    <3>2. A' \subseteq A \cup {e}
      BY <2>1, <2>2, InsertAdds
    <3>3. Cardinality(A') + Cardinality(P') <= Cardinality(A) + Cardinality(P)
      BY <1>1, <2>3, <3>1, <3>2, SumTransfers
    <3>4. Cardinality(A') + Cardinality(P') \in Nat
      <4>1. IsFiniteSet(A \cup {e})
        BY <1>1, FS_AddElement
      <4>. QED
        BY <1>1, <2>3, <3>2, <4>1, SumShrinks
    <3>. QED
      BY <1>1, <3>3, <3>4
  <2>5. CASE ~ (body[r].student = s /\ body[r].schedule = h)
    <3>1. A' \subseteq A
      BY <2>1, <2>2, <2>5, InsertAdds
    <3>. QED
      BY <1>2, <2>3, <3>1
  <2>. QED
    BY <2>4, <2>5
<1>6. ASSUME NEW r \in Requests,
             \/ CreateReadStudent(r) \/ CreateReadSchedule(r)
             \/ Refuse(r) \/ DeleteNext(r)
      PROVE  A' \subseteq A /\ P' \subseteq P
  BY <1>6, OtherStepsShrink
<1>7. CASE UNCHANGED vars
  BY <1>2, <1>7, SameDocsSameSets DEF vars, PastDuplicate
<1>8. ASSUME NEW r \in Requests, CreateNext(r) \/ DeleteNext(r) \/ Abandon(r)
      PROVE  Cardinality(A') + Cardinality(P') <= Cardinality(Requests)
  <2>1. CASE \/ CreateReadStudent(r) \/ CreateReadSchedule(r)
             \/ Refuse(r) \/ DeleteNext(r)
    BY <1>2, <1>6, <2>1
  <2>2. CASE CreateCheckDuplicate(r) /\ ~ Refuse(r)
    BY <1>3, <2>2
  <2>3. CASE CreateCheckCapacity(r) /\ ~ Refuse(r)
    BY <1>2, <1>4, <2>3
  <2>4. CASE CreateInsert(r)
    BY <1>5, <2>4
  <2>. QED
    BY <1>8, <2>1, <2>2, <2>3, <2>4 DEF CreateNext, Abandon
<1>. QED
  BY <1>7, <1>8 DEF AdmissionNext, Quiet

LEMMA PlacesStayCounted ==
  ASSUME TypeOK, CapacityIsCurrent, PlacesCounted, [AdmissionNext]_vars
  PROVE  PlacesCounted'
<1> SUFFICES ASSUME NEW h \in Schedules
             PROVE  Cardinality(ActiveInSchedule(h)') + Cardinality(PastCapacity(h)')
                      < doc'[h].capacity + Cardinality(Requests)
  BY DEF PlacesCounted
<1> DEFINE A == ActiveInSchedule(h)
           P == PastCapacity(h)
           limit == doc[h].capacity + Cardinality(Requests)
<1>1. /\ IsFiniteSet(A) /\ IsFiniteSet(P)
      /\ Cardinality(A) + Cardinality(P) < limit
      /\ Cardinality(A) + Cardinality(P) \in Nat
      /\ Cardinality(Requests) \in Nat
      /\ doc[h].capacity \in Nat
      /\ limit \in Nat
      /\ doc'[h].capacity = doc[h].capacity
  <2>1. doc[h].capacity \in Nat
    BY SchedulesHoldScheduleDocs, NumbersAssumption DEF ScheduleDoc
  <2>2. doc'[h].capacity = doc[h].capacity
    BY CapacityStays
  <2>3. IsFiniteSet(A) /\ IsFiniteSet(P) /\ Cardinality(Requests) \in Nat
    BY Finiteness
  <2>4. Cardinality(A) \in Nat /\ Cardinality(P) \in Nat
    BY <2>3, FS_CardinalityType
  <2>5. Cardinality(A) + Cardinality(P) < limit
    BY DEF PlacesCounted
  <2> HIDE DEF A, P
  <2>. QED
    BY <2>1, <2>2, <2>3, <2>4, <2>5
<1> SUFFICES Cardinality(A') + Cardinality(P') < limit
  BY <1>1
<1>2. CASE A' \subseteq A /\ P' \subseteq P
  <2>1. /\ Cardinality(A') + Cardinality(P') <= Cardinality(A) + Cardinality(P)
        /\ Cardinality(A') + Cardinality(P') \in Nat
    BY <1>1, <1>2, SumShrinks
  <2> HIDE DEF A, P, limit
  <2>. QED
    BY <1>1, <2>1
<1>3. ASSUME NEW r \in Requests, CreateCheckDuplicate(r), ~ Refuse(r)
      PROVE  A' \subseteq A /\ P' \subseteq P
  <2>1. doc' = doc /\ body' = body /\ pc' = [pc EXCEPT ![r] = "create.capacity"]
    BY <1>3 DEF CreateCheckDuplicate, Goto
  <2>. QED
    BY <2>1, SameDocsSameSets DEF PastCapacity, TypeOK
<1>4. ASSUME NEW r \in Requests, CreateCheckCapacity(r), ~ Refuse(r)
      PROVE  Cardinality(A') + Cardinality(P') < limit
  <2>1. /\ doc' = doc /\ body' = body /\ pc[r] = "create.capacity"
        /\ pc' = [pc EXCEPT ![r] = "create.insert"]
        /\ CountActiveBySchedule(body[r].schedule) < offer[r].capacity
        /\ offer[r].capacity = doc[body[r].schedule].capacity
    BY <1>4 DEF CreateCheckCapacity, Goto, CapacityIsCurrent, CreatePC
  <2>2. CASE body[r].schedule = h
    <3>1. A' = A /\ Cardinality(A) < doc[h].capacity
      BY <2>1, <2>2, SameDocsSameSets DEF CountActiveBySchedule
    <3>2. P' \in SUBSET Requests
      BY DEF PastCapacity
    <3>3. Cardinality(P') <= Cardinality(Requests) /\ Cardinality(P') \in Nat
      BY <3>2, FiniteAssumption, FS_Subset, FS_CardinalityType
    <3>4. Cardinality(A) \in Nat
      BY <1>1, FS_CardinalityType
    <3>. QED
      BY <1>1, <3>1, <3>3, <3>4
  <2>3. CASE body[r].schedule # h
    <3>1. A' \subseteq A /\ P' \subseteq P
      BY <2>1, <2>3, SameDocsSameSets DEF PastCapacity, TypeOK
    <3>. QED
      BY <1>2, <3>1
  <2>. QED
    BY <2>2, <2>3
<1>5. ASSUME NEW r \in Requests, CreateInsert(r)
      PROVE  Cardinality(A') + Cardinality(P') < limit
  <2>1. PICK e \in EnrollmentIds \ Enrollments :
          doc' = [doc EXCEPT ![e] = Mapped(body[r], 0, FirstVersion, offer[r], TRUE)]
    BY <1>5 DEF CreateInsert
  <2>2. body[r] \in EnrollmentWriteRequest /\ offer[r] \in ScheduleDoc
    BY <1>5 DEF TypeOK, RequestOK, CreateInsert, CreatePC
  <2>3. P' \subseteq P \ {r}
    BY <1>5, ReplyShrinks DEF CreateInsert
  <2>4. CASE body[r].schedule = h
    <3>1. r \in P
      BY <1>5, <2>4 DEF PastCapacity, CreateInsert
    <3>2. A' \subseteq A \cup {e}
      BY <2>1, <2>2, InsertAdds
    <3>3. Cardinality(A') + Cardinality(P') <= Cardinality(A) + Cardinality(P)
      BY <1>1, <2>3, <3>1, <3>2, SumTransfers
    <3>4. Cardinality(A') + Cardinality(P') \in Nat
      <4>1. IsFiniteSet(A \cup {e})
        BY <1>1, FS_AddElement
      <4>. QED
        BY <1>1, <2>3, <3>2, <4>1, SumShrinks
    <3> HIDE DEF A, P, limit
    <3>. QED
      BY <1>1, <3>3, <3>4
  <2>5. CASE body[r].schedule # h
    <3>1. A' \subseteq A
      BY <2>1, <2>2, <2>5, InsertAdds
    <3>. QED
      BY <1>2, <2>3, <3>1
  <2>. QED
    BY <2>4, <2>5
<1>6. ASSUME NEW r \in Requests,
             \/ CreateReadStudent(r) \/ CreateReadSchedule(r)
             \/ Refuse(r) \/ DeleteNext(r)
      PROVE  A' \subseteq A /\ P' \subseteq P
  BY <1>6, OtherStepsShrink
<1>7. CASE UNCHANGED vars
  BY <1>2, <1>7, SameDocsSameSets DEF vars, PastCapacity
<1>8. ASSUME NEW r \in Requests, CreateNext(r) \/ DeleteNext(r) \/ Abandon(r)
      PROVE  Cardinality(A') + Cardinality(P') < limit
  <2>1. CASE \/ CreateReadStudent(r) \/ CreateReadSchedule(r)
             \/ Refuse(r) \/ DeleteNext(r)
    BY <1>2, <1>6, <2>1
  <2>2. CASE CreateCheckDuplicate(r) /\ ~ Refuse(r)
    BY <1>2, <1>3, <2>2
  <2>3. CASE CreateCheckCapacity(r) /\ ~ Refuse(r)
    BY <1>4, <2>3
  <2>4. CASE CreateInsert(r)
    BY <1>5, <2>4
  <2>. QED
    BY <1>8, <2>1, <2>2, <2>3, <2>4 DEF CreateNext, Abandon
<1>. QED
  BY <1>7, <1>8 DEF AdmissionNext, Quiet

-----------------------------------------------------------------------------
(* The theorems.                                                            *)

LEMMA InitAdmission == Init => AdmissionInv
<1> SUFFICES ASSUME Init PROVE AdmissionInv
  OBVIOUS
<1>1. TypeOK
  BY InitTypes
<1>2. CapacityIsCurrent
  BY DEF Init, CapacityIsCurrent, CreatePC
<1>3. \A i \in EnrollmentIds : doc[i] = NoDoc
  BY IdsAssumption DEF Init, Ids
<1>4. \A s, h : /\ ActiveOfPair(s, h) = {} /\ ActiveInSchedule(h) = {}
               /\ PastDuplicate(s, h) = {} /\ PastCapacity(h) = {}
  BY <1>3 DEF Init, ActiveOfPair, ActiveInSchedule, ActiveEnrollments, Enrollments,
              PastDuplicate, PastCapacity
<1>5. Cardinality({}) = 0 /\ Cardinality(Requests) \in Nat
  BY FS_EmptySet, Finiteness
<1>6. DuplicatesCounted
  BY <1>4, <1>5 DEF DuplicatesCounted
<1>7. \A h \in Schedules : doc[h].capacity \in Nat \ {0}
  BY <1>1, SchedulesHoldScheduleDocs, NumbersAssumption DEF ScheduleDoc
<1>8. PlacesCounted
  BY <1>4, <1>5, <1>7 DEF PlacesCounted
<1>. QED
  BY <1>1, <1>2, <1>6, <1>8 DEF AdmissionInv

LEMMA AdmissionInvHolds == AdmissionSpec => []AdmissionInv
<1>1. AdmissionInv /\ [AdmissionNext]_vars => AdmissionInv'
  <2> SUFFICES ASSUME AdmissionInv, [AdmissionNext]_vars
               PROVE  AdmissionInv'
    OBVIOUS
  <2>1. TypeOK'
    BY NextKeepsTypes DEF AdmissionInv, Next
  <2>. QED
    BY <2>1, CapacityIsCurrentStays, DuplicatesStayCounted, PlacesStayCounted
       DEF AdmissionInv
<1>. QED
  BY <1>1, InitAdmission, PTL DEF AdmissionSpec

\* However many POSTs race, a student has at most as many active enrollments in
\* a schedule as there are requests in flight at once; with one request at a
\* time the duplicate rule of POST /enrollments holds exactly.
THEOREM DuplicatesAreBounded == AdmissionSpec => []DuplicatesBounded
<1>1. AdmissionInv => DuplicatesBounded
  <2> SUFFICES ASSUME AdmissionInv, NEW s \in Students, NEW h \in Schedules
               PROVE  Cardinality(ActiveOfPair(s, h)) <= Cardinality(Requests)
    BY DEF DuplicatesBounded
  <2>1. /\ Cardinality(ActiveOfPair(s, h)) \in Nat
        /\ Cardinality(PastDuplicate(s, h)) \in Nat
        /\ Cardinality(Requests) \in Nat
    BY Finiteness, FS_CardinalityType
  <2>2. Cardinality(ActiveOfPair(s, h)) + Cardinality(PastDuplicate(s, h))
          <= Cardinality(Requests)
    BY DEF AdmissionInv, DuplicatesCounted
  <2>. QED
    BY <2>1, <2>2
<1>. QED
  BY <1>1, AdmissionInvHolds, PTL

\* However many POSTs race, a schedule is overbooked by fewer places than there
\* are requests in flight at once; with one request at a time, by none.
THEOREM OverbookingIsBounded == AdmissionSpec => []OverbookingBounded
<1>1. AdmissionInv => OverbookingBounded
  <2> SUFFICES ASSUME AdmissionInv, NEW h \in Schedules
               PROVE  CountActiveBySchedule(h) < doc[h].capacity + Cardinality(Requests)
    BY DEF OverbookingBounded
  <2>1. /\ Cardinality(ActiveInSchedule(h)) \in Nat
        /\ Cardinality(PastCapacity(h)) \in Nat
        /\ Cardinality(Requests) \in Nat
    BY Finiteness, FS_CardinalityType
  <2>2. doc[h].capacity \in Nat
    BY SchedulesHoldScheduleDocs, NumbersAssumption DEF AdmissionInv, ScheduleDoc
  <2>3. Cardinality(ActiveInSchedule(h)) + Cardinality(PastCapacity(h))
          < doc[h].capacity + Cardinality(Requests)
    BY DEF AdmissionInv, PlacesCounted
  <2>. QED
    BY <2>1, <2>2, <2>3 DEF CountActiveBySchedule
<1>. QED
  BY <1>1, AdmissionInvHolds, PTL

-----------------------------------------------------------------------------
(* The negotiated price.  If-Match makes it safe: the tag of the entity in  *)
(* memory is never ahead of the stored one, and as long as they are equal   *)
(* the stored price is the one the entity was read with.                    *)

\* Request r is a PUT of the enrollment e, somewhere before its last await.
Updating(r, e) == pc[r] \in UpdatePC /\ target[r] = e

\* MapToEntity has run on the entity of r.
IsMapped(r) == pc[r] \in {"update.duplicate", "replace"}

EntityKeepsPrice(r, e) ==
    LET current == doc[e] read == entity[r] IN
    /\ read.etag <= current.etag
    /\ read.etag = current.etag =>
         IF IsMapped(r)
         THEN body[r].price = NoPrice /\ current.price > 0 => read.price = current.price
         ELSE read.price = current.price

PriceInv ==
    \A r \in Requests, e \in EnrollmentIds : Updating(r, e) => EntityKeepsPrice(r, e)

\* A step that leaves a document alone, or gives it a newer tag, keeps what is
\* known of a request that makes no step.
LEMMA OthersKeepPrices ==
  ASSUME TypeOK, TypeOK', NEW r \in Requests, NEW e \in EnrollmentIds,
         Updating(r, e), EntityKeepsPrice(r, e),
         pc'[r] = pc[r], body'[r] = body[r], entity'[r] = entity[r],
         doc'[e] = doc[e] \/ doc'[e].etag = doc[e].etag + 1
  PROVE  EntityKeepsPrice(r, e)'
<1>1. /\ e \in Ids /\ e \notin Students /\ e \notin Schedules
      /\ doc[e] \in EnrollmentDoc /\ entity[r] \in EnrollmentDoc
  BY IdsAssumption DEF TypeOK, RequestOK, Updating, DocOf, Ids
<1>2. doc[e].etag \in Nat /\ entity[r].etag \in Nat
  BY <1>1 DEF EnrollmentDoc
<1>. QED
  BY <1>2 DEF EntityKeepsPrice, IsMapped

\* A conditional replace by request q of the document of another request.
LEMMA WritesKeepOrRenew ==
  ASSUME TypeOK, NEW i \in Ids, doc[i] # NoDoc, NEW d \in DocOf(i) \ {NoDoc}, Write(i, d),
         NEW e \in Ids
  PROVE  doc'[e] = doc[e] \/ doc'[e].etag = doc[e].etag + 1
<1>1. CASE ~ TagMatches(doc[i], d) \/ i # e
  BY <1>1 DEF Write, TypeOK
<1>2. CASE TagMatches(doc[i], d) /\ i = e
  <2>1. doc'[e] = Replaced(doc[e], d)
    BY <1>2 DEF Write, TypeOK
  <2>2. Replaced(doc[e], d).etag = doc[e].etag + 1
    BY <1>2 DEF Replaced, DocOf, StudentDoc, ScheduleDoc, EnrollmentDoc
  <2>. QED
    BY <2>1, <2>2
<1>. QED
  BY <1>1, <1>2

\* All steps but the reads of a PUT of an enrollment: the request is answered, or
\* it is none of those PUTs, and documents are kept or renewed.
LEMMA PassingStepsKeepPrices ==
  ASSUME TypeOK, TypeOK', PriceInv, NEW q \in Requests,
         \A r \in Requests \ {q} :
           pc'[r] = pc[r] /\ target'[r] = target[r] /\ body'[r] = body[r] /\ entity'[r] = entity[r],
         \A e \in EnrollmentIds :
           doc[e] # NoDoc => doc'[e] = doc[e] \/ doc'[e].etag = doc[e].etag + 1,
         \A e \in EnrollmentIds : Updating(q, e)' => EntityKeepsPrice(q, e)'
  PROVE  PriceInv'
<1> SUFFICES ASSUME NEW r \in Requests, NEW e \in EnrollmentIds, Updating(r, e)'
             PROVE  EntityKeepsPrice(r, e)'
  BY DEF PriceInv
<1>1. CASE r = q
  BY <1>1
<1>2. CASE r # q
  <2>1. Updating(r, e) /\ doc[e] # NoDoc
    BY <1>2 DEF Updating, TypeOK, RequestOK
  <2>. QED
    BY <1>2, <2>1, OthersKeepPrices DEF PriceInv
<1>. QED
  BY <1>1, <1>2

\* An answered request changes no document, or the one it has written.
LEMMA RefuseKeepsPrices ==
  ASSUME TypeOK, TypeOK', PriceInv, NEW q \in Requests, Refuse(q)
  PROVE  PriceInv'
<1>1. /\ \A r \in Requests \ {q} :
           pc'[r] = pc[r] /\ target'[r] = target[r] /\ body'[r] = body[r] /\ entity'[r] = entity[r]
      /\ pc'[q] = "idle" /\ doc' = doc
  BY DEF Refuse, Reply, Goto, TypeOK
<1>2. \A e \in EnrollmentIds : ~ Updating(q, e)'
  BY <1>1 DEF Updating, UpdatePC
<1>. QED
  BY <1>1, <1>2, PassingStepsKeepPrices

LEMMA WriteKeepsPrices ==
  ASSUME TypeOK, TypeOK', PriceInv, NEW q \in Requests,
         NEW i \in Ids, doc[i] # NoDoc, NEW d \in DocOf(i) \ {NoDoc}, Write(i, d), Reply(q)
  PROVE  PriceInv'
<1>1. /\ \A r \in Requests \ {q} :
           pc'[r] = pc[r] /\ target'[r] = target[r] /\ body'[r] = body[r] /\ entity'[r] = entity[r]
      /\ pc'[q] = "idle"
  BY DEF Reply, Goto, TypeOK
<1>2. \A e \in EnrollmentIds : ~ Updating(q, e)'
  BY <1>1 DEF Updating, UpdatePC
<1>3. \A e \in EnrollmentIds : doc'[e] = doc[e] \/ doc'[e].etag = doc[e].etag + 1
  BY WritesKeepOrRenew DEF Ids
<1>. QED
  BY <1>1, <1>2, <1>3, PassingStepsKeepPrices

LEMMA CreateKeepsPrices ==
  ASSUME TypeOK, TypeOK', PriceInv, NEW q \in Requests, CreateNext(q)
  PROVE  PriceInv'
<1>1. CASE Refuse(q)
  BY <1>1, RefuseKeepsPrices
<1>2. CASE CreateInsert(q)
  <2>1. /\ \A r \in Requests \ {q} :
             pc'[r] = pc[r] /\ target'[r] = target[r] /\ body'[r] = body[r] /\ entity'[r] = entity[r]
        /\ pc'[q] = "idle"
    BY <1>2 DEF CreateInsert, Reply, Goto, TypeOK
  <2>2. \A e \in EnrollmentIds : doc[e] # NoDoc => doc'[e] = doc[e]
    BY <1>2 DEF CreateInsert, Enrollments, TypeOK, Ids
  <2>3. \A e \in EnrollmentIds : ~ Updating(q, e)'
    BY <2>1 DEF Updating, UpdatePC
  <2>. QED
    BY <2>1, <2>2, <2>3, PassingStepsKeepPrices
<1>3. CASE ~ Refuse(q) /\ ~ CreateInsert(q)
  <2>1. /\ \A r \in Requests \ {q} :
             pc'[r] = pc[r] /\ target'[r] = target[r] /\ body'[r] = body[r] /\ entity'[r] = entity[r]
        /\ pc'[q] \notin UpdatePC /\ doc' = doc
    BY <1>3 DEF CreateNext, CreateReadStudent, CreateReadSchedule, CreateCheckDuplicate,
                CreateCheckCapacity, Goto, TypeOK, UpdatePC
  <2>2. \A e \in EnrollmentIds : ~ Updating(q, e)'
    BY <2>1 DEF Updating
  <2>. QED
    BY <2>1, <2>2, PassingStepsKeepPrices
<1>. QED
  BY <1>1, <1>2, <1>3

LEMMA DeleteKeepsPrices ==
  ASSUME TypeOK, TypeOK', PriceInv, NEW q \in Requests, DeleteNext(q)
  PROVE  PriceInv'
<1>1. CASE Refuse(q)
  BY <1>1, RefuseKeepsPrices
<1>2. CASE SoftDeleteReplace(q)
  BY <1>2, WriteKeepsPrices, DeactivatedFits
     DEF TypeOK, RequestOK, SoftDeleteReplace, DeletePC
<1>3. CASE ~ Refuse(q) /\ ~ SoftDeleteReplace(q)
  <2>1. /\ \A r \in Requests \ {q} :
             pc'[r] = pc[r] /\ target'[r] = target[r] /\ body'[r] = body[r] /\ entity'[r] = entity[r]
        /\ pc'[q] \notin UpdatePC /\ doc' = doc
    BY <1>3 DEF DeleteNext, DeleteRead, DeleteCheckDependents, SoftDeleteRead, Goto,
                TypeOK, UpdatePC
  <2>2. \A e \in EnrollmentIds : ~ Updating(q, e)'
    BY <2>1 DEF Updating
  <2>. QED
    BY <2>1, <2>2, PassingStepsKeepPrices
<1>. QED
  BY <1>1, <1>2, <1>3

\* The steps of a PUT of an enrollment that go on to the next await: the document
\* stays, so it is enough to look at the entity of the request.
LEMMA ReadsKeepPrices ==
  ASSUME TypeOK, TypeOK', PriceInv, NEW q \in Requests, NEW e \in EnrollmentIds,
         doc' = doc, target'[q] = e,
         \A r \in Requests \ {q} :
           pc'[r] = pc[r] /\ target'[r] = target[r] /\ body'[r] = body[r] /\ entity'[r] = entity[r],
         EntityKeepsPrice(q, e)'
  PROVE  PriceInv'
<1>1. \A f \in EnrollmentIds : Updating(q, f)' => EntityKeepsPrice(q, f)'
  BY DEF Updating
<1>. QED
  BY <1>1, PassingStepsKeepPrices

LEMMA UpdateKeepsPrices ==
  ASSUME TypeOK, TypeOK', PriceInv, NEW q \in Requests, UpdateNext(q)
  PROVE  PriceInv'
<1>1. CASE Refuse(q)
  BY <1>1, RefuseKeepsPrices
<1>2. ASSUME NEW e \in EnrollmentIds, UpdateReadEnrollment(q, e)
      PROVE  PriceInv'
  <2>1. PICK ifMatch \in FirstVersion .. doc[e].etag :
          entity' = [entity EXCEPT ![q] = [doc[e] EXCEPT !.etag = ifMatch]]
    BY <1>2 DEF UpdateReadEnrollment
  <2>2. doc[e] \in EnrollmentDoc
    BY <1>2, EnrollmentIdsHoldEnrollments DEF UpdateReadEnrollment, Readable
  <2>3. /\ doc' = doc /\ target'[q] = e /\ pc'[q] = "update.student"
        /\ \A r \in Requests \ {q} :
             pc'[r] = pc[r] /\ target'[r] = target[r] /\ body'[r] = body[r] /\ entity'[r] = entity[r]
    BY <1>2 DEF UpdateReadEnrollment, Goto, TypeOK
  <2>4. entity'[q].etag = ifMatch /\ entity'[q].price = doc[e].price
    BY <2>1, <2>2 DEF TypeOK, EnrollmentDoc
  <2>5. EntityKeepsPrice(q, e)'
    BY <2>2, <2>3, <2>4 DEF EntityKeepsPrice, IsMapped, EnrollmentDoc, FirstVersion
  <2>. QED
    BY <2>3, <2>5, ReadsKeepPrices
<1>3. CASE ~ Refuse(q) /\ (UpdateReadStudent(q) \/ UpdateCheckDuplicate(q))
  <2>1. PICK e \in EnrollmentIds : e = target[q] /\ Updating(q, e)
    BY <1>3 DEF UpdateReadStudent, UpdateCheckDuplicate, TypeOK, RequestOK, UpdatePC, Updating
  <2>2. /\ doc' = doc /\ target'[q] = e /\ IsMapped(q)' = IsMapped(q)
        /\ body' = body /\ entity' = entity
        /\ \A r \in Requests \ {q} : pc'[r] = pc[r] /\ target'[r] = target[r]
    BY <1>3, <2>1 DEF UpdateReadStudent, UpdateCheckDuplicate, Goto, TypeOK, IsMapped
  <2>3. EntityKeepsPrice(q, e)'
    BY <2>1, <2>2 DEF PriceInv, EntityKeepsPrice
  <2>. QED
    BY <2>2, <2>3, ReadsKeepPrices
<1>4. CASE ~ Refuse(q) /\ UpdateReadSchedule(q)
  <2>1. PICK e \in EnrollmentIds : e = target[q] /\ Updating(q, e)
    BY <1>4 DEF UpdateReadSchedule, TypeOK, RequestOK, UpdatePC, Updating
  <2> DEFINE mapped == Mapped(body[q], entity[q].price, entity[q].etag,
                              doc[body[q].schedule], body[q].active)
  <2>2. /\ doc' = doc /\ target'[q] = e /\ IsMapped(q)' /\ ~ IsMapped(q)
        /\ body' = body /\ entity' = [entity EXCEPT ![q] = mapped]
        /\ \A r \in Requests \ {q} : pc'[r] = pc[r] /\ target'[r] = target[r]
    BY <1>4, <2>1 DEF UpdateReadSchedule, Goto, TypeOK, IsMapped
  <2>3. /\ entity'[q] = mapped
        /\ \A r \in Requests \ {q} : entity'[r] = entity[r]
    BY <2>2 DEF TypeOK
  <2>4. /\ mapped.etag = entity[q].etag
        /\ body[q].price = NoPrice /\ entity[q].price > 0 => mapped.price = entity[q].price
    BY DEF Mapped, NegotiatedPrice
  <2>5. EntityKeepsPrice(q, e)
    BY <2>1 DEF PriceInv
  <2>6. EntityKeepsPrice(q, e)'
    BY <2>2, <2>3, <2>4, <2>5 DEF EntityKeepsPrice
  <2>. QED
    BY <2>2, <2>3, <2>6, ReadsKeepPrices
<1>5. ASSUME NEW i \in Schedules \cup Students,
             ScheduleUpdateRead(q, i) \/ StudentUpdateRead(q, i)
      PROVE  PriceInv'
  <2>1. /\ doc' = doc /\ target'[q] = i
        /\ \A r \in Requests \ {q} :
             pc'[r] = pc[r] /\ target'[r] = target[r] /\ body'[r] = body[r] /\ entity'[r] = entity[r]
    BY <1>5 DEF ScheduleUpdateRead, StudentUpdateRead, Goto, TypeOK
  <2>2. \A e \in EnrollmentIds : ~ Updating(q, e)'
    BY <2>1, IdsAssumption DEF Updating
  <2>. QED
    BY <2>1, <2>2, PassingStepsKeepPrices
<1>6. CASE UpdateReplace(q)
  BY <1>6, WriteKeepsPrices DEF TypeOK, RequestOK, UpdateReplace, UpdatePC
<1>. QED
  BY <1>1, <1>2, <1>3, <1>4, <1>5, <1>6 DEF UpdateNext

LEMMA NextKeepsPrices == TypeOK /\ TypeOK' /\ PriceInv /\ [Next]_vars => PriceInv'
<1> SUFFICES ASSUME TypeOK, TypeOK', PriceInv, [Next]_vars
             PROVE  PriceInv'
  OBVIOUS
<1>1. ASSUME NEW q \in Requests, CreateNext(q) \/ DeleteNext(q) \/ UpdateNext(q)
      PROVE  PriceInv'
  BY <1>1, CreateKeepsPrices, DeleteKeepsPrices, UpdateKeepsPrices
<1>2. ASSUME NEW q \in Requests, Abandon(q)
      PROVE  PriceInv'
  BY <1>2, RefuseKeepsPrices DEF Abandon
<1>3. CASE UNCHANGED vars
  BY <1>3 DEF vars, PriceInv, Updating, EntityKeepsPrice, IsMapped
<1>. QED
  BY <1>1, <1>2, <1>3 DEF Next, AdmissionNext, Quiet

\* The write of a PUT: with an outdated tag it changes nothing, with the current
\* one it stores the price it has read.
LEMMA StepsKeepNegotiatedPrice ==
  ASSUME TypeOK, PriceInv, NEW r \in Requests, NEW e \in Enrollments,
         target[r] = e, UpdateReplace(r), body[r].price = NoPrice, doc[e].price > 0
  PROVE  doc'[e].price = doc[e].price
<1>1. Updating(r, e) /\ IsMapped(r) /\ e \in EnrollmentIds
  BY DEF UpdateReplace, Updating, UpdatePC, IsMapped, Enrollments
<1>2. EntityKeepsPrice(r, e)
  BY <1>1 DEF PriceInv
<1>3. entity[r] \in EnrollmentDoc
  BY <1>1, IdsAssumption DEF TypeOK, RequestOK, Updating, DocOf, Ids
<1>4. CASE TagMatches(doc[e], entity[r])
  <2>1. doc'[e] = Replaced(doc[e], entity[r])
    BY <1>1, <1>4 DEF UpdateReplace, Write, TypeOK, Ids
  <2>2. Replaced(doc[e], entity[r]).price = entity[r].price
    BY <1>3 DEF Replaced, EnrollmentDoc
  <2>3. entity[r].price = doc[e].price
    BY <1>1, <1>2, <1>4 DEF EntityKeepsPrice, TagMatches
  <2>. QED
    BY <2>1, <2>2, <2>3
<1>5. CASE ~ TagMatches(doc[e], entity[r])
  BY <1>5 DEF UpdateReplace, Write
<1>. QED
  BY <1>4, <1>5

LEMMA PriceInvHolds == Spec => []PriceInv
<1>1. Init => PriceInv
  BY DEF Init, PriceInv, Updating, UpdatePC
<1>. QED
  BY <1>1, NextKeepsPrices, TypeCorrect, PTL DEF Spec

\* A negotiated price outlives every PUT that does not name another one, for any
\* number of requests, documents and prices.
THEOREM PriceIsKept == Spec => NegotiatedPriceKept
<1>1. TypeOK /\ PriceInv /\ [Next]_vars =>
        [\A r \in Requests, e \in Enrollments :
           /\ target[r] = e /\ UpdateReplace(r)
           /\ body[r].price = NoPrice /\ doc[e].price > 0
           => doc'[e].price = doc[e].price]_vars
  BY StepsKeepNegotiatedPrice
<1>. QED
  BY <1>1, TypeCorrect, PriceInvHolds, PTL DEF Spec, NegotiatedPriceKept

-----------------------------------------------------------------------------
(* The records of the server                                                *)

\* No record is listed twice, and none has an id that is still to be given.
RecordsAre(rs, n) ==
    /\ rs \in Seq(Record)
    /\ \A i, j \in 1 .. Len(rs) : rs[i].id = rs[j].id => i = j
    /\ \A i \in 1 .. Len(rs) : rs[i].id <= InitialRecords + n

ServerInv == page \in Pages /\ rev \in Revs /\ RecordsAre(records, rev)

\* A record that is made or changed.
LEMMA RecordMade ==
  ASSUME NEW id \in RecordIds, NEW n \in Revs, NEW s \in BOOLEAN,
         NEW r, r = [id |-> id, etag |-> n, shown |-> s]
  PROVE  r \in Record /\ r.id = id
  BY DEF Record

LEMMA Bounds == InitialRecords \in Nat /\ MaxWrites \in Nat /\ MaxEvents \in Nat /\ Limit \in Nat \ {0}
  BY BoundsAssumption DEF BoundsAssumption

\* Elements of the list of the server.
LEMMA RecordsOf ==
  ASSUME NEW rs, NEW n, RecordsAre(rs, n)
  PROVE  /\ Len(rs) \in Nat /\ DOMAIN rs = 1 .. Len(rs)
         /\ \A i \in 1 .. Len(rs) : rs[i] \in Record /\ rs[i].id \in RecordIds
<1>1. rs \in Seq(Record)
  BY DEF RecordsAre
<1>2. Len(rs) \in Nat /\ DOMAIN rs = 1 .. Len(rs)
  BY <1>1, LenProperties
<1>3. \A i \in 1 .. Len(rs) : rs[i] \in Record
  BY <1>1, ElementOfSeq
<1>4. \A r \in Record : r.id \in RecordIds
  BY DEF Record
<1>. QED
  BY <1>2, <1>3, <1>4

\* Where a record is.
LEMMA PlaceOf ==
  ASSUME ServerInv, NEW id, Exists(id)
  PROVE  /\ Place(id) \in 1 .. Len(records) /\ records[Place(id)].id = id /\ id \in RecordIds
<1>1. DOMAIN records = 1 .. Len(records)
      /\ \A i \in 1 .. Len(records) : records[i].id \in RecordIds
  BY RecordsOf DEF ServerInv
<1>2. ToSet(records) = {records[i] : i \in 1 .. Len(records)}
  BY <1>1 DEF ToSet
<1>3. \E k \in DOMAIN records : records[k].id = id
  BY <1>1, <1>2 DEF Exists
<1>4. Place(id) \in DOMAIN records /\ records[Place(id)].id = id
  BY <1>3, Zenon DEF Place
<1>. QED
  BY <1>1, <1>4

\* The list without a record, in which no other has its id.
LEMMA OthersOf ==
  ASSUME ServerInv, NEW id, Exists(id)
  PROVE  /\ RecordsAre(Others(id), rev)
         /\ Len(records) = Len(Others(id)) + 1
         /\ \A i \in 1 .. Len(Others(id)) : Others(id)[i].id # id
<1> DEFINE k == Place(id)
           less == Others(id)
<1>1. k \in 1 .. Len(records) /\ records[k].id = id
  BY PlaceOf
<1>2. /\ records \in Seq(Record) /\ DOMAIN records = 1 .. Len(records) /\ Len(records) \in Nat
      /\ \A i, j \in 1 .. Len(records) : records[i].id = records[j].id => i = j
      /\ \A i \in 1 .. Len(records) : records[i].id <= InitialRecords + rev
  BY RecordsOf DEF ServerInv, RecordsAre
<1>3. less = RemoveAt(records, k)
  BY DEF Others
<1> HIDE DEF k, less
<1>4. OneLess(less, records, k, Record)
  BY <1>1, <1>2, <1>3, RemovedOne
<1>5. less \in Seq(Record) /\ Len(records) = Len(less) + 1 /\ Len(less) \in Nat
  BY <1>4, LenProperties DEF OneLess
<1>6. \A i \in 1 .. Len(less) : \E a \in 1 .. Len(records) :
        less[i] = records[a] /\ a # k /\ (i < k => a = i) /\ (~(i < k) => a = i + 1)
  <2>1. ASSUME NEW i \in 1 .. Len(less)
        PROVE  \E a \in 1 .. Len(records) :
                 less[i] = records[a] /\ a # k /\ (i < k => a = i) /\ (~(i < k) => a = i + 1)
    <3>1. CASE i < k
      <4>1. i \in 1 .. Len(records) /\ less[i] = records[i] /\ i # k
        BY <1>1, <1>4, <1>5, <3>1 DEF OneLess
      <4>. QED
        BY <3>1, <4>1
    <3>2. CASE ~(i < k)
      <4>1. i + 1 \in 1 .. Len(records) /\ less[i] = records[i + 1] /\ i + 1 # k
        BY <1>1, <1>4, <1>5, <3>2 DEF OneLess
      <4>. QED
        BY <3>2, <4>1
    <3>. QED
      BY <3>1, <3>2
  <2>. QED
    BY <2>1
<1>7. ASSUME NEW i \in 1 .. Len(less), NEW j \in 1 .. Len(less), less[i].id = less[j].id
      PROVE  i = j
  <2>1. PICK a \in 1 .. Len(records) :
          less[i] = records[a] /\ (i < k => a = i) /\ (~(i < k) => a = i + 1)
    BY <1>6
  <2>2. PICK b \in 1 .. Len(records) :
          less[j] = records[b] /\ (j < k => b = j) /\ (~(j < k) => b = j + 1)
    BY <1>6
  <2>3. a = b
    BY <1>2, <1>7, <2>1, <2>2
  <2>. QED
    BY <1>1, <1>2, <1>5, <2>1, <2>2, <2>3
<1>8. ASSUME NEW i \in 1 .. Len(less)
      PROVE  less[i].id # id /\ less[i].id <= InitialRecords + rev
  <2>1. PICK a \in 1 .. Len(records) : less[i] = records[a] /\ a # k
    BY <1>6
  <2>. QED
    BY <1>1, <1>2, <2>1
<1>. QED
  BY <1>5, <1>7, <1>8 DEF RecordsAre, less

\* A record put into the list at some place.
LEMMA Inserted ==
  ASSUME NEW rs, NEW n \in Revs, NEW m \in Revs, n <= m, RecordsAre(rs, n),
         NEW i \in 1 .. Len(rs) + 1, NEW r \in Record, r.id <= InitialRecords + m,
         \A j \in 1 .. Len(rs) : rs[j].id # r.id
  PROVE  RecordsAre(InsertAt(rs, i, r), m)
<1> DEFINE a == SubSeq(rs, 1, i - 1)
           b == SubSeq(rs, i, Len(rs))
           L == Len(rs)
<1>1. /\ rs \in Seq(Record) /\ L \in Nat
      /\ \A j \in 1 .. L : rs[j] \in Record /\ rs[j].id \in RecordIds /\ rs[j].id <= InitialRecords + n
      /\ \A j, k \in 1 .. L : rs[j].id = rs[k].id => j = k
  BY RecordsOf DEF RecordsAre
<1>2. a \in Seq(Record) /\ Len(a) = i - 1 /\ \A j \in 1 .. i - 1 : a[j] = rs[j]
  <2>1. /\ a \in Seq(Record) /\ Len(a) = (IF 1 <= i - 1 THEN (i - 1) - 1 + 1 ELSE 0)
        /\ \A j \in 1 .. (i - 1) - 1 + 1 : a[j] = rs[1 + j - 1]
    <3>1. 1 \in Int /\ i - 1 \in Int /\ \A j \in 1 .. i - 1 : rs[j] \in Record
      BY <1>1
    <3>. QED
      BY <3>1, SubSeqProperties
  <2>. QED
    BY <1>1, <2>1
<1>3. b \in Seq(Record) /\ Len(b) = L - i + 1 /\ \A j \in 1 .. L - i + 1 : b[j] = rs[i + j - 1]
  <2>1. /\ b \in Seq(Record) /\ Len(b) = (IF i <= L THEN L - i + 1 ELSE 0)
        /\ \A j \in 1 .. L - i + 1 : b[j] = rs[i + j - 1]
    <3>1. i \in Int /\ L \in Int /\ \A j \in i .. L : rs[j] \in Record
      BY <1>1
    <3>. QED
      BY <3>1, SubSeqProperties
  <2>. QED
    BY <1>1, <2>1
<1> DEFINE c == Then(a, <<r>>)
           d == InsertAt(rs, i, r)
<1>4. d = Then(c, b)
  BY DEF InsertAt, Then
<1> HIDE DEF a, b
<1>5. /\ c \in Seq(Record) /\ Len(c) = i
      /\ \A j \in 1 .. i : c[j] = IF j < i THEN rs[j] ELSE r
  <2>0. <<r>> \in Seq(Record) /\ Len(<<r>>) = 1
    OBVIOUS
  <2>1. JoinedOf(c, a, <<r>>, Record)
    BY <1>2, <2>0, ThenProperties
  <2>2. c \in Seq(Record) /\ Len(c) = Len(a) + 1
        /\ \A j \in 1 .. Len(a) + 1 : c[j] = IF j <= Len(a) THEN a[j] ELSE <<r>>[j - Len(a)]
    BY <2>1 DEF JoinedOf
  <2>3. Len(a) + 1 = i
    BY <1>1, <1>2
  <2>4. ASSUME NEW j \in 1 .. i PROVE c[j] = IF j < i THEN rs[j] ELSE r
    <3>1. CASE j < i
      BY <1>1, <1>2, <2>2, <2>3, <3>1
    <3>2. CASE ~(j < i)
      <4>1. j - Len(a) = 1
        BY <1>1, <1>2, <3>2
      <4>. QED
        BY <1>1, <1>2, <2>2, <2>3, <3>2, <4>1
    <3>. QED
      BY <3>1, <3>2
  <2>. QED
    BY <2>2, <2>3, <2>4
<1> HIDE DEF c
<1>6. /\ d \in Seq(Record) /\ Len(d) = L + 1
      /\ \A j \in 1 .. L + 1 : d[j] = IF j < i THEN rs[j] ELSE IF j = i THEN r ELSE rs[j - 1]
  <2>1. JoinedOf(d, c, b, Record)
    BY <1>3, <1>4, <1>5, ThenProperties
  <2>2. d \in Seq(Record) /\ Len(d) = Len(c) + Len(b)
        /\ \A j \in 1 .. Len(c) + Len(b) : d[j] = IF j <= Len(c) THEN c[j] ELSE b[j - Len(c)]
    BY <2>1 DEF JoinedOf
  <2>3. Len(c) + Len(b) = L + 1
    BY <1>1, <1>3, <1>5
  <2>4. ASSUME NEW j \in 1 .. L + 1
        PROVE d[j] = IF j < i THEN rs[j] ELSE IF j = i THEN r ELSE rs[j - 1]
    <3>1. CASE j <= i
      BY <1>1, <1>5, <2>2, <2>3, <3>1
    <3>2. CASE ~(j <= i)
      <4>1. j - i \in 1 .. L - i + 1 /\ i + (j - i) - 1 = j - 1
        BY <1>1, <3>2
      <4>2. d[j] = b[j - i]
        BY <1>5, <2>2, <2>3, <3>2
      <4>. QED
        BY <1>1, <1>3, <3>2, <4>1, <4>2
    <3>. QED
      BY <3>1, <3>2
  <2>. QED
    BY <2>2, <2>3, <2>4
<1> HIDE DEF d
<1>7. ASSUME NEW j \in 1 .. L + 1 PROVE d[j].id <= InitialRecords + m
  <2>1. InitialRecords \in Nat /\ n \in Nat /\ m \in Nat
    BY Bounds DEF Revs
  <2>2. \A x \in RecordIds : x <= InitialRecords + n => x <= InitialRecords + m
    BY <2>1, Bounds DEF RecordIds
  <2>3. CASE j < i
    BY <1>1, <1>6, <2>2, <2>3
  <2>4. CASE j = i
    BY <1>6, <2>4
  <2>5. CASE ~(j < i) /\ j # i
    <3>1. j - 1 \in 1 .. L
      BY <1>1, <2>5
    <3>. QED
      BY <1>1, <1>6, <2>2, <2>5, <3>1
  <2>. QED
    BY <2>3, <2>4, <2>5
<1>8. ASSUME NEW j \in 1 .. L + 1, NEW k \in 1 .. L + 1, d[j].id = d[k].id PROVE j = k
  <2>2. d[i] = r
    <3>1. i \in 1 .. L + 1 /\ ~(i < i)
      BY <1>1
    <3>. QED
      BY ONLY <1>6, <3>1
  <2> DEFINE old(x) == IF x < i THEN x ELSE x - 1
  <2>1. \A x \in 1 .. L + 1 : x # i => old(x) \in 1 .. L /\ d[x] = rs[old(x)]
    BY <1>1, <1>6
  <2>3. \A x, y \in 1 .. L + 1 : x # i /\ y # i /\ old(x) = old(y) => x = y
    BY <1>1
  <2> HIDE DEF old
  <2>4. CASE j = i \/ k = i
    BY <1>8, <2>1, <2>2, <2>4
  <2>5. CASE j # i /\ k # i
    <3>1. old(j) \in 1 .. L /\ old(k) \in 1 .. L /\ rs[old(j)].id = rs[old(k)].id
      BY <1>8, <2>1, <2>5
    <3>2. old(j) = old(k)
      BY <1>1, <3>1
    <3>. QED
      BY <2>3, <2>5, <3>2
  <2>. QED
    BY <2>4, <2>5
<1>9. RecordsAre(d, m)
  BY <1>6, <1>7, <1>8 DEF RecordsAre
<1>. QED
  BY <1>9 DEF d

\* A list without a record is one of a server that has made another write.
LEMMA RecordsLater ==
  ASSUME NEW rs, NEW n \in Revs, NEW m \in Revs, n <= m, RecordsAre(rs, n)
  PROVE  RecordsAre(rs, m)
<1>1. InitialRecords \in Nat /\ n \in Nat /\ m \in Nat
  BY Bounds DEF Revs
<1>2. \A x \in RecordIds : x <= InitialRecords + n => x <= InitialRecords + m
  BY <1>1, Bounds DEF RecordIds
<1>3. \A i \in 1 .. Len(rs) : rs[i].id \in RecordIds
  BY RecordsOf
<1>. QED
  BY <1>2, <1>3 DEF RecordsAre

\* A write of the server.
Writes == Create \/ (\E id, F : Update(id, F)) \/ (\E id : Delete(id))

LEMMA WritesKeep ==
  ASSUME ServerInv, Writes, page' = page
  PROVE  ServerInv' /\ rev \in Nat /\ rev' \in Nat /\ rev' = rev + 1 /\ rev' \in Revs
<1>1. rev' = rev + 1 /\ rev < MaxWrites
  BY DEF Writes, Create, Update, Delete, Written
<1>2. rev \in Revs /\ rev \in Nat /\ rev' \in Nat /\ rev' \in Revs /\ rev <= rev'
  BY <1>1, Bounds DEF ServerInv, Revs
<1>3. RecordsAre(records, rev) /\ records \in Seq(Record) /\ Len(records) \in Nat
  BY RecordsOf DEF ServerInv, RecordsAre
<1>4. CASE Create
  <2>1. PICK i \in 1 .. Len(records) + 1, s \in BOOLEAN :
          records' = InsertAt(records, i,
            [id |-> InitialRecords + rev', etag |-> rev', shown |-> s])
    BY <1>4 DEF Create
  <2> DEFINE r == [id |-> InitialRecords + rev', etag |-> rev', shown |-> s]
  <2>2. InitialRecords + rev' \in RecordIds
    BY <1>1, <1>2, Bounds DEF RecordIds
  <2>3. r \in Record /\ r.id = InitialRecords + rev'
    BY <1>2, <2>2, RecordMade
  <2>4. records' = InsertAt(records, i, r)
    BY <2>1
  <2> HIDE DEF r
  <2>5. ASSUME NEW j \in 1 .. Len(records) PROVE records[j].id # r.id
    <3>1. records[j].id \in Nat /\ records[j].id <= InitialRecords + rev
      BY <1>3, RecordsOf DEF RecordsAre, RecordIds
    <3>. QED
      BY <1>1, <1>2, <2>3, <3>1, Bounds
  <2>6. r.id <= InitialRecords + rev'
    <3>1. \A x, y \in Nat : x + y <= x + y
      OBVIOUS
    <3>2. InitialRecords \in Nat /\ rev' \in Nat
      BY <1>2, Bounds
    <3>. QED
      BY <2>3, <3>1, <3>2, Zenon
  <2>7. RecordsAre(InsertAt(records, i, r), rev')
    BY <1>2, <1>3, <2>3, <2>5, <2>6, Inserted
  <2>. QED
    BY <1>1, <1>2, <2>4, <2>7 DEF ServerInv
<1>5. CASE \E id, F : Update(id, F)
  <2>1. PICK id, F : Update(id, F)
    BY <1>5
  <2>2. Exists(id)
    BY <2>1 DEF Update
  <2>3. PICK i \in DOMAIN records, s \in BOOLEAN :
          records' = InsertAt(Others(id), i, [id |-> id, etag |-> rev', shown |-> s])
    BY <2>1 DEF Update
  <2> DEFINE r == [id |-> id, etag |-> rev', shown |-> s]
  <2>4. Place(id) \in 1 .. Len(records) /\ records[Place(id)].id = id /\ id \in RecordIds
    BY <2>2, PlaceOf
  <2>5. r \in Record /\ r.id = id
    BY <1>2, <2>4, RecordMade
  <2>6. records' = InsertAt(Others(id), i, r)
    BY <2>3
  <2> HIDE DEF r
  <2>7. /\ RecordsAre(Others(id), rev) /\ Len(records) = Len(Others(id)) + 1
        /\ \A j \in 1 .. Len(Others(id)) : Others(id)[j].id # id
    BY <2>2, OthersOf
  <2>8. i \in 1 .. Len(Others(id)) + 1
    BY <1>3, <2>7, LenProperties
  <2>9. r.id <= InitialRecords + rev'
    <3>1. id <= InitialRecords + rev /\ id \in Nat
      BY <1>3, <2>4 DEF RecordsAre, RecordIds
    <3>. QED
      BY <1>1, <1>2, <2>5, <3>1, Bounds
  <2>10. RecordsAre(InsertAt(Others(id), i, r), rev')
    BY <1>2, <2>5, <2>7, <2>8, <2>9, Inserted
  <2>. QED
    BY <1>1, <1>2, <2>6, <2>10 DEF ServerInv
<1>6. CASE \E id : Delete(id)
  <2>1. PICK id : Delete(id)
    BY <1>6
  <2>2. Exists(id) /\ records' = Others(id)
    BY <2>1 DEF Delete
  <2>3. RecordsAre(Others(id), rev')
    BY <1>2, <2>2, OthersOf, RecordsLater
  <2>. QED
    BY <1>1, <1>2, <2>2, <2>3 DEF ServerInv
<1>. QED
  BY <1>4, <1>5, <1>6 DEF Writes

\* What the server lists for a filter are copies of records.
LEMMA MatchingType ==
  ASSUME ServerInv, NEW f
  PROVE  Matching(f) \in Seq(Copy) /\ Len(Matching(f)) \in Nat
<1> DEFINE one(i) == IF f = "wide" \/ records[i].shown
                     THEN <<[id |-> records[i].id, etag |-> records[i].etag]>> ELSE <<>>
           ss == [i \in DOMAIN records |-> one(i)]
<1>1. Len(records) \in Nat /\ DOMAIN records = 1 .. Len(records)
      /\ \A i \in 1 .. Len(records) : records[i] \in Record
  BY RecordsOf DEF ServerInv
<1>2. \A i \in 1 .. Len(records) : one(i) \in Seq(Copy)
  <2>1. ASSUME NEW i \in 1 .. Len(records) PROVE one(i) \in Seq(Copy)
    <3>1. [id |-> records[i].id, etag |-> records[i].etag] \in Copy
      BY <1>1 DEF Record, Copy
    <3> DEFINE x == [id |-> records[i].id, etag |-> records[i].etag]
    <3>2. one(i) = <<x>> \/ one(i) = <<>>
      BY Zenon
    <3> HIDE DEF one, x
    <3>3. <<x>> \in Seq(Copy) /\ <<>> \in Seq(Copy)
      BY <3>1, EmptySeq DEF x
    <3>. QED
      BY <3>2, <3>3
  <2>. QED
    BY <2>1
<1>3. Matching(f) = FlattenSeq(ss)
  BY Zenon DEF Matching
<1> HIDE DEF one
<1>4. ss \in Seq(Seq(Copy))
  <2>1. ss \in [1 .. Len(records) -> Seq(Copy)]
    BY <1>1, <1>2
  <2> HIDE DEF ss
  <2>. QED
    BY <1>1, <2>1, ListOf
<1> HIDE DEF ss
<1>5. FlattenSeq(ss) \in Seq(Copy)
  <2>1. CASE ss = <<>>
    BY <2>1, EmptySeq DEF FlattenSeq
  <2>2. CASE ss # <<>>
    BY <1>4, <2>2, FlattenAs
  <2>. QED
    BY <2>1, <2>2
<1>. QED
  BY <1>3, <1>5, LenProperties

-----------------------------------------------------------------------------
(* The pages of a list                                                      *)

CopyPage == {p \in [items : Seq(Copy), total : Nat, at : Revs] : Len(p.items) <= Limit}

\* Pages read before the server had made n writes, or then, when it listed m: as long
\* as it has made no other, the first page is the start of what it lists, and so are
\* all of them if none is older.
Listed(ps, n, m) ==
    /\ \A i \in 1 .. Len(ps) : ps[i].at <= n
    /\ ps # <<>> /\ ps[1].at = n => Prefix(<<ps[1]>>, m, Limit)
    /\ ps # <<>> /\ (\A i \in 1 .. Len(ps) : ps[i].at = n) => Prefix(ps, m, Limit)

\* The first of the pages was read when the server had made k writes.
Shows(ps, k) == ps # <<>> => ps[1].at >= k

LEMMA PagesAre ==
  ASSUME NEW ps \in Seq(CopyPage)
  PROVE  /\ Len(ps) \in Nat /\ DOMAIN ps = 1 .. Len(ps)
         /\ \A i \in 1 .. Len(ps) : /\ ps[i] \in CopyPage
                                   /\ ps[i].at \in Nat /\ ps[i].at \in Revs /\ ps[i].total \in Nat
                                   /\ ps[i].items \in Seq(Copy) /\ Len(ps[i].items) <= Limit
         /\ ps # <<>> => 1 \in 1 .. Len(ps)
<1>1. Len(ps) \in Nat /\ DOMAIN ps = 1 .. Len(ps)
  BY LenProperties
<1>2. \A i \in 1 .. Len(ps) : ps[i] \in CopyPage
  BY ElementOfSeq
<1>3. \A p \in CopyPage : /\ p.at \in Nat /\ p.at \in Revs /\ p.total \in Nat
                          /\ p.items \in Seq(Copy) /\ Len(p.items) <= Limit
  BY Bounds DEF CopyPage, Revs
<1>4. ps # <<>> => 1 \in 1 .. Len(ps)
  BY <1>1, EmptySeq
<1>. QED
  BY <1>1, <1>2, <1>3, <1>4

LEMMA ListedNone ==
  ASSUME NEW n, NEW m, NEW k
  PROVE  <<>> \in Seq(CopyPage) /\ Listed(<<>>, n, m) /\ Shows(<<>>, k)
<1>1. <<>> \in Seq(CopyPage) /\ Len(<<>>) = 0
  BY EmptySeq
<1>. QED
  BY <1>1 DEF Listed, Shows

\* keepFirstInfinitePage keeps the first page.
LEMMA FirstKept ==
  ASSUME NEW ps \in Seq(CopyPage), NEW n, NEW m, Listed(ps, n, m),
         NEW qs, qs = keepFirstInfinitePage(ps)
  PROVE  qs \in Seq(CopyPage) /\ Listed(qs, n, m) /\ (ps = <<>> <=> qs = <<>>)
<1>1. CASE ps = <<>>
  <2>1. Len(ps) = 0
    BY <1>1
  <2>2. Min({1, 0}) = 0
    BY MinOfTwo
  <2>3. qs = SubSeq(ps, 1, 0)
    BY <2>1, <2>2 DEF keepFirstInfinitePage
  <2>4. qs = <<>>
    BY <2>3, SubSeqEmpty
  <2>. QED
    BY <1>1, <2>4
<1>2. CASE ps # <<>>
  <2>1. Len(ps) \in Nat /\ 1 \in 1 .. Len(ps) /\ ps[1] \in CopyPage
    BY <1>2, PagesAre
  <2>2. Min({1, Len(ps)}) = 1
    BY <2>1, MinOfTwo
  <2>3. qs = SubSeq(ps, 1, 1)
    BY <2>2 DEF keepFirstInfinitePage
  <2>4. qs = <<ps[1]>>
    <3>1. /\ qs \in Seq(CopyPage) /\ Len(qs) = 1
          /\ \A i \in 1 .. 1 : qs[i] = ps[1 + i - 1]
      <4>1. 1 \in Int /\ \A i \in 1 .. 1 : ps[i] \in CopyPage
        BY <2>1
      <4>. QED
        BY <2>3, <4>1, SubSeqProperties
    <3>2. qs[1] = ps[1]
      BY <3>1
    <3>3. <<ps[1]>> \in Seq(CopyPage) /\ Len(<<ps[1]>>) = 1 /\ <<ps[1]>>[1] = ps[1]
      BY <2>1
    <3>4. \A i \in 1 .. Len(qs) : qs[i] = <<ps[1]>>[i]
      BY <3>1, <3>2, <3>3
    <3>. QED
      BY <3>1, <3>3, <3>4, SeqEqual
  <2>5. qs \in Seq(CopyPage) /\ Len(qs) = 1 /\ qs[1] = ps[1] /\ qs # <<>>
    BY <2>1, <2>4
  <2>6. Listed(qs, n, m)
    <3>1. ps[1].at <= n /\ (ps[1].at = n => Prefix(qs, m, Limit))
      BY <1>2, <2>1, <2>4 DEF Listed
    <3>2. <<qs[1]>> = qs
      BY <2>4, <2>5
    <3>. QED
      BY <2>5, <3>1, <3>2 DEF Listed
  <2>. QED
    BY <1>2, <2>5, <2>6
<1>. QED
  BY <1>1, <1>2

\* A page more, read where those before it end.
LEMMA ListedMore ==
  ASSUME NEW ps \in Seq(CopyPage), NEW n \in Nat, NEW m \in Seq(Copy), Listed(ps, n, m),
         NEW p \in CopyPage, p.at <= n, p.at = n => ReadAt(p, m, loadedCount(ps), Limit),
         NEW qs, qs = Append(ps, p), NEW k, Shows(ps, k), ps = <<>> => p.at >= k
  PROVE  qs \in Seq(CopyPage) /\ Listed(qs, n, m) /\ Shows(qs, k) /\ qs # <<>>
<1>1. /\ qs \in Seq(CopyPage) /\ Len(qs) = Len(ps) + 1 /\ qs[Len(ps) + 1] = p
      /\ \A i \in 1 .. Len(ps) : qs[i] = ps[i]
  BY AppendProperties
<1>2. Len(ps) \in Nat /\ (ps = <<>> <=> Len(ps) = 0)
  BY PagesAre, EmptySeq
<1>3. \A q \in CopyPage : q.items \in Seq(Copy)
  BY DEF CopyPage
<1>4. Limit \in Nat \ {0}
  BY Bounds
<1>5. qs # <<>>
  BY <1>1, <1>2
<1>6. \A i \in 1 .. Len(qs) : i \in 1 .. Len(ps) \/ i = Len(ps) + 1
  BY <1>1, <1>2
<1>7. ASSUME NEW i \in 1 .. Len(qs) PROVE qs[i].at <= n
  BY <1>1, <1>6 DEF Listed
<1>8. ASSUME \A i \in 1 .. Len(qs) : qs[i].at = n PROVE Prefix(qs, m, Limit)
  <2>1. \A i \in 1 .. Len(ps) : i \in 1 .. Len(qs)
    BY <1>1, <1>2
  <2>2. Len(ps) + 1 \in 1 .. Len(qs)
    BY <1>1, <1>2
  <2>3. p.at = n /\ \A i \in 1 .. Len(ps) : ps[i].at = n
    BY <1>1, <1>8, <2>1, <2>2
  <2>4. ps = <<>> \/ Prefix(ps, m, Limit)
    BY <2>3 DEF Listed
  <2>. QED
    BY <1>3, <1>4, <2>3, <2>4, PrefixOfMore
<1>9. ASSUME qs[1].at = n PROVE Prefix(<<qs[1]>>, m, Limit)
  <2>1. CASE ps = <<>>
    <3>1. qs[1] = p /\ Len(qs) = 1
      BY <1>1, <1>2, <2>1
    <3>2. <<qs[1]>> = qs
      BY <1>1, <3>1
    <3>3. \A i \in 1 .. Len(qs) : qs[i].at = n
      BY <1>9, <3>1
    <3>. QED
      BY <1>8, <3>2, <3>3
  <2>2. CASE ps # <<>>
    <3>1. qs[1] = ps[1]
      BY <1>1, <2>2, PagesAre
    <3>. QED
      BY <1>9, <2>2, <3>1 DEF Listed
  <2>. QED
    BY <2>1, <2>2
<1>10. qs[1].at >= k
  <2>1. CASE ps = <<>>
    BY <1>1, <1>2, <2>1
  <2>2. CASE ps # <<>>
    <3>1. qs[1] = ps[1]
      BY <1>1, <2>2, PagesAre
    <3>. QED
      BY <2>2, <3>1 DEF Shows
  <2>. QED
    BY <2>1, <2>2
<1>. QED
  BY <1>1, <1>5, <1>7, <1>8, <1>9, <1>10 DEF Listed, Shows

\* After a write nothing is claimed of pages read before it.
LEMMA ListedLater ==
  ASSUME NEW ps \in Seq(CopyPage), NEW n \in Nat, NEW m, Listed(ps, n, m),
         NEW o \in Nat, n < o, NEW l
  PROVE  Listed(ps, o, l)
<1>1. \A i \in 1 .. Len(ps) : ps[i].at \in Nat /\ ps[i].at <= n
  BY PagesAre DEF Listed
<1>2. \A i \in 1 .. Len(ps) : ps[i].at <= o /\ ps[i].at # o
  BY <1>1
<1>3. ps # <<>> => 1 \in 1 .. Len(ps)
  BY PagesAre
<1>. QED
  BY <1>2, <1>3 DEF Listed

-----------------------------------------------------------------------------
(* A list of the browser, part by part                                      *)

Parts(p, st, lo, be, go, an, sl) ==
    [pages |-> p, stale |-> st, load |-> lo, before |-> be, got |-> go, answer |-> an, slipped |-> sl]

HasParts(l) == l = Parts(l.pages, l.stale, l.load, l.before, l.got, l.answer, l.slipped)

PartsAre(l) ==
    /\ HasParts(l)
    /\ l.pages \in Seq(CopyPage) /\ l.before \in Seq(CopyPage) /\ l.got \in Seq(CopyPage)
    /\ l.answer # None => l.answer \in CopyPage
    /\ l.load \in {"no", "first", "all", "next"}
    /\ l.load = "no" => l.got = <<>> /\ l.answer = None
    /\ l.load = "first" => l.pages = <<>>
    /\ l.stale \in BOOLEAN /\ l.slipped \in BOOLEAN

\* What it shows and what it has of a load is what the server listed, m after n writes.
ContentIs(l, n, m) ==
    /\ Listed(l.pages, n, m) /\ Listed(Base(l), n, m)
    /\ l.answer # None =>
         /\ l.answer.at <= n
         /\ l.answer.at = n => ReadAt(l.answer, m, loadedCount(Base(l)), Limit)

\* Unless it slipped, it will begin with a page read when the server had made k
\* writes, and does already unless it is stale.
OwnIs(l, k) ==
    \/ l.slipped = TRUE
    \/ l.load = "no" /\ (l.stale = TRUE \/ Shows(l.pages, k))
    \/ /\ l.load # "no" /\ Shows(Base(l), k)
       /\ Base(l) = <<>> /\ l.answer # None => l.answer.at >= k

ListIs(l, n, m, k) == PartsAre(l) /\ ContentIs(l, n, m) /\ OwnIs(l, k)

\* A list on the screen is only outdated while it loads, or has slipped.
Settled(l) == l.load = "no" => l.slipped = TRUE \/ l.stale = FALSE

\* Several of them: names for the prover.
GotAnswer(l, g, a) == [l EXCEPT !.got = g, !.answer = a]
LoadingSlipped(l, w, s) == [Loading(l, w) EXCEPT !.slipped = s]
WithPages(l, p) == [l EXCEPT !.pages = p]
WithAnswer(l, a) == [l EXCEPT !.answer = a]
WithSlipped(l, s) == [l EXCEPT !.slipped = s]
StaleSlipped(l, t, s) == [l EXCEPT !.stale = t, !.slipped = s]

LEMMA PartsChanged ==
  ASSUME NEW l, HasParts(l), NEW x, NEW y
  PROVE  /\ WithAnswer(l, x) =
              Parts(l.pages, l.stale, l.load, l.before, l.got, x, l.slipped)
         /\ WithSlipped(l, x) =
              Parts(l.pages, l.stale, l.load, l.before, l.got, l.answer, x)
         /\ WithPages(l, x) =
              Parts(x, l.stale, l.load, l.before, l.got, l.answer, l.slipped)
         /\ Loading(l, x) = Parts(l.pages, l.stale, x, l.pages, <<>>, None, l.slipped)
         /\ LoadingSlipped(l, x, y) = Parts(l.pages, l.stale, x, l.pages, <<>>, None, y)
         /\ GotAnswer(l, x, y) =
              Parts(l.pages, l.stale, l.load, l.before, x, y, l.slipped)
<1> DEFINE p == l.pages
           st == l.stale
           lo == l.load
           be == l.before
           go == l.got
           an == l.answer
           sl == l.slipped
<1>0. l = Parts(p, st, lo, be, go, an, sl)
  BY DEF HasParts
<1>00. l.pages = p
  OBVIOUS
<1> HIDE DEF p, st, lo, be, go, an, sl
<1>6. /\ WithAnswer(l, x) = Parts(p, st, lo, be, go, x, sl)
      /\ WithSlipped(l, x) = Parts(p, st, lo, be, go, an, x)
      /\ WithPages(l, x) = Parts(x, st, lo, be, go, an, sl)
  <2>1. WithAnswer(l, x) = Parts(p, st, lo, be, go, x, sl)
    BY <1>0 DEF Parts, WithAnswer
  <2>2. WithSlipped(l, x) = Parts(p, st, lo, be, go, an, x)
    BY <1>0 DEF Parts, WithSlipped
  <2>3. WithPages(l, x) = Parts(x, st, lo, be, go, an, sl)
    BY <1>0 DEF Parts, WithPages
  <2>. QED
    BY <2>1, <2>2, <2>3
<1>1. Loading(l, x) = Parts(p, st, x, p, <<>>, None, sl)
  <2> DEFINE l1 == [l EXCEPT !.load = x]
             l2 == [l1 EXCEPT !.before = l.pages]
             l3 == [l2 EXCEPT !.got = <<>>]
             l4 == [l3 EXCEPT !.answer = None]
  <2>1. Loading(l, x) = l4
    BY Zenon DEF Loading
  <2>2. l.pages = p
    BY <1>00
  <2>3. l1 = Parts(p, st, x, be, go, an, sl)
    BY <1>0 DEF Parts
  <2> HIDE DEF l1
  <2>4. l2 = Parts(p, st, x, p, go, an, sl)
    BY <2>2, <2>3 DEF Parts
  <2> HIDE DEF l2
  <2>5. l3 = Parts(p, st, x, p, <<>>, an, sl)
    BY <2>4 DEF Parts
  <2> HIDE DEF l3
  <2>6. l4 = Parts(p, st, x, p, <<>>, None, sl)
    BY <2>5 DEF Parts
  <2>. QED
    BY <2>1, <2>6
<1>7. LoadingSlipped(l, x, y) = Parts(p, st, x, p, <<>>, None, y)
  <2> DEFINE l1 == [l EXCEPT !.load = x]
             l2 == [l1 EXCEPT !.before = l.pages]
             l3 == [l2 EXCEPT !.got = <<>>]
             l4 == [l3 EXCEPT !.answer = None]
             l5 == [l4 EXCEPT !.slipped = y]
  <2>1. LoadingSlipped(l, x, y) = l5
    BY Zenon DEF LoadingSlipped, Loading
  <2>2. l.pages = p
    BY <1>00
  <2>3. l1 = Parts(p, st, x, be, go, an, sl)
    BY <1>0 DEF Parts
  <2> HIDE DEF l1
  <2>4. l2 = Parts(p, st, x, p, go, an, sl)
    BY <2>2, <2>3 DEF Parts
  <2> HIDE DEF l2
  <2>5. l3 = Parts(p, st, x, p, <<>>, an, sl)
    BY <2>4 DEF Parts
  <2> HIDE DEF l3
  <2>6. l4 = Parts(p, st, x, p, <<>>, None, sl)
    BY <2>5 DEF Parts
  <2> HIDE DEF l4
  <2>7. l5 = Parts(p, st, x, p, <<>>, None, y)
    BY <2>6 DEF Parts
  <2>. QED
    BY <2>1, <2>7
<1>2. GotAnswer(l, x, y) = Parts(p, st, lo, be, x, y, sl)
  <2> DEFINE l1 == [l EXCEPT !.got = x]
             l2 == [l1 EXCEPT !.answer = y]
  <2>1. GotAnswer(l, x, y) = l2
    BY Zenon DEF GotAnswer
  <2>2. l1 = Parts(p, st, lo, be, x, an, sl)
    BY <1>0 DEF Parts
  <2> HIDE DEF l1
  <2>3. l2 = Parts(p, st, lo, be, x, y, sl)
    BY <2>2 DEF Parts
  <2>. QED
    BY <2>1, <2>3
<1>. QED
  BY <1>1, <1>2, <1>6, <1>7 DEF p, st, lo, be, go, an, sl

LEMMA StaleSlippedIs ==
  ASSUME NEW l, HasParts(l), NEW x, NEW y
  PROVE  StaleSlipped(l, x, y) = Parts(l.pages, x, l.load, l.before, l.got, l.answer, y)
<1> DEFINE p == l.pages
           st == l.stale
           lo == l.load
           be == l.before
           go == l.got
           an == l.answer
           sl == l.slipped
<1>0. l = Parts(p, st, lo, be, go, an, sl)
  BY DEF HasParts
<1> HIDE DEF p, st, lo, be, go, an, sl
<1>5. StaleSlipped(l, x, y) = Parts(p, x, lo, be, go, an, y)
  <2> DEFINE l1 == [l EXCEPT !.stale = x]
             l2 == [l1 EXCEPT !.slipped = y]
  <2>1. StaleSlipped(l, x, y) = l2
    BY Zenon DEF StaleSlipped
  <2>2. l1 = Parts(p, x, lo, be, go, an, sl)
    BY <1>0 DEF Parts
  <2> HIDE DEF l1
  <2>3. l2 = Parts(p, x, lo, be, go, an, y)
    BY <2>2 DEF Parts
  <2>. QED
    BY <2>1, <2>3
<1>. QED
  BY <1>5 DEF p, st, lo, be, go, an, sl

LEMMA NoListIs == NoList = Parts(<<>>, FALSE, "no", <<>>, <<>>, None, FALSE)
  BY DEF NoList, Parts

\* The server reads a GET of the list.
LEMMA ListRead ==
  ASSUME NEW l, NEW n \in Nat, NEW m, NEW k \in Nat, ListIs(l, n, m, k), k <= n, l.load # "no",
         NEW a \in CopyPage, a.at = n, ReadAt(a, m, loadedCount(Base(l)), Limit)
  PROVE  LET r == [l EXCEPT !.answer = a]
         IN ListIs(r, n, m, k) /\ r.load = l.load /\ r.answer = a /\ r.got = l.got
<1> DEFINE r == [l EXCEPT !.answer = a]
           b == IF l.load = "next" THEN l.before ELSE l.got
<1>1. PartsAre(l) /\ ContentIs(l, n, m) /\ OwnIs(l, k)
  BY DEF ListIs
<1>3. r = Parts(l.pages, l.stale, l.load, l.before, l.got, a, l.slipped)
  BY <1>1, PartsChanged, Zenon DEF PartsAre, WithAnswer
<1>4. Base(l) = b
  BY DEF Base
<1> HIDE DEF r, b
<1>5. /\ r.pages = l.pages /\ r.stale = l.stale /\ r.load = l.load /\ r.before = l.before
      /\ r.got = l.got /\ r.answer = a /\ r.slipped = l.slipped
  BY <1>3 DEF Parts
<1>6. Base(r) = b
  BY <1>5 DEF Base, b
<1>7. PartsAre(r)
  BY <1>1, <1>3, <1>5 DEF PartsAre, HasParts
<1>8. ContentIs(r, n, m)
  BY <1>1, <1>4, <1>5, <1>6 DEF ContentIs
<1>9. OwnIs(r, k)
  BY <1>1, <1>4, <1>5, <1>6 DEF OwnIs
<1>. QED
  BY <1>5, <1>7, <1>8, <1>9 DEF r, ListIs

\* The server makes writes.
LEMMA ListLater ==
  ASSUME NEW l, NEW n \in Nat, NEW m, NEW k, ListIs(l, n, m, k), NEW o \in Nat, n < o, NEW x
  PROVE  ListIs(l, o, x, k)
<1>1. PartsAre(l) /\ ContentIs(l, n, m) /\ OwnIs(l, k)
  BY DEF ListIs
<1>2. l.pages \in Seq(CopyPage) /\ Base(l) \in Seq(CopyPage)
  BY <1>1 DEF PartsAre, Base
<1>3. Listed(l.pages, o, x) /\ Listed(Base(l), o, x)
  BY <1>1, <1>2, ListedLater DEF ContentIs
<1>4. l.answer # None => l.answer.at <= o /\ l.answer.at # o
  <2>1. l.answer # None => l.answer.at \in Nat /\ l.answer.at <= n
    BY <1>1, Bounds DEF PartsAre, ContentIs, CopyPage, Revs
  <2>. QED
    BY <2>1
<1>5. ContentIs(l, o, x)
  BY <1>3, <1>4 DEF ContentIs
<1>. QED
  BY <1>1, <1>5 DEF ListIs

\* A list starts over: nothing of it has come yet.
LEMMA ListStartsOver ==
  ASSUME NEW p \in Seq(CopyPage), NEW st \in BOOLEAN, NEW sl \in BOOLEAN,
         NEW n, NEW m, Listed(p, n, m), NEW k, NEW w \in {"first", "all"}, w = "first" => p = <<>>,
         NEW l, l = Parts(p, st, w, p, <<>>, None, sl)
  PROVE  ListIs(l, n, m, k) /\ Settled(l)
<1>1. <<>> \in Seq(CopyPage) /\ Listed(<<>>, n, m) /\ Shows(<<>>, k)
  BY ListedNone
<1>2. /\ l.pages = p /\ l.stale = st /\ l.load = w /\ l.before = p /\ l.got = <<>>
      /\ l.answer = None /\ l.slipped = sl
  BY DEF Parts
<1>3. Base(l) = <<>> /\ w # "no" /\ w # "next"
  BY <1>2 DEF Base
<1>4. PartsAre(l)
  BY <1>1, <1>2, <1>3 DEF PartsAre, HasParts
<1>5. ContentIs(l, n, m)
  BY <1>1, <1>2, <1>3 DEF ContentIs
<1>6. OwnIs(l, k)
  BY <1>1, <1>2, <1>3 DEF OwnIs
<1>7. Settled(l)
  BY <1>2, <1>3 DEF Settled
<1>. QED
  BY <1>4, <1>5, <1>6, <1>7 DEF ListIs

LEMMA ListRefetched ==
  ASSUME NEW l, PartsAre(l), NEW n, NEW m, Listed(l.pages, n, m), NEW k,
         NEW r, r = Refetched([l EXCEPT !.slipped = FALSE])
  PROVE  ListIs(r, n, m, k) /\ Settled(r)
<1> DEFINE u == [l EXCEPT !.slipped = FALSE]
           w == IF l.pages = <<>> THEN "first" ELSE "all"
<1>1. HasParts(l) /\ l.pages \in Seq(CopyPage) /\ l.stale \in BOOLEAN
  BY DEF PartsAre
<1>2. u = Parts(l.pages, l.stale, l.load, l.before, l.got, l.answer, FALSE)
  <2> DEFINE no == FALSE
  <2> HIDE DEF no, u
  <2>1. WithSlipped(l, no) = Parts(l.pages, l.stale, l.load, l.before, l.got, l.answer, no)
    BY <1>1, PartsChanged, Zenon
  <2>2. u = WithSlipped(l, no)
    BY Zenon DEF WithSlipped, u, no
  <2>. QED
    BY <2>1, <2>2, Zenon DEF no
<1>3. r = Loading(u, w)
  <2>1. r = Loading(u, IF u.pages = <<>> THEN "first" ELSE "all")
    BY Zenon DEF Refetched
  <2> HIDE DEF u
  <2>2. u.pages = l.pages
    BY <1>2 DEF Parts
  <2>. QED
    BY <2>1, <2>2
<1> HIDE DEF u
<1>4. Loading(u, w) = Parts(l.pages, l.stale, w, l.pages, <<>>, None, FALSE)
  <2>1. HasParts(u)
    BY <1>2 DEF HasParts, Parts
  <2>2. u.pages = l.pages /\ u.stale = l.stale /\ u.slipped = FALSE
    BY <1>2 DEF Parts
  <2>3. Loading(u, w) = Parts(u.pages, u.stale, w, u.pages, <<>>, None, u.slipped)
    BY <2>1, PartsChanged, Zenon
  <2>. QED
    BY <2>2, <2>3
<1>5. w \in {"first", "all"} /\ (w = "first" => l.pages = <<>>) /\ FALSE \in BOOLEAN
  OBVIOUS
<1> HIDE DEF w
<1>. QED
  BY <1>1, <1>3, <1>4, <1>5, ListStartsOver

\* A list is mounted.
LEMMA ListMounted ==
  ASSUME NEW l, NEW n, NEW m, NEW k, ListIs(l, n, m, k)
  PROVE  ListIs(Mounted(l), n, m, k) /\ Settled(Mounted(l))
<1>1. PartsAre(l) /\ Listed(l.pages, n, m)
  BY DEF ListIs, ContentIs
<1>2. CASE l.load = "no" /\ (l.pages = <<>> \/ l.stale)
  <2>1. Mounted(l) = Refetched([l EXCEPT !.slipped = FALSE])
    BY <1>2, Zenon DEF Mounted
  <2>. QED
    BY <1>1, <2>1, ListRefetched
<1>3. CASE ~(l.load = "no" /\ (l.pages = <<>> \/ l.stale))
  <2>1. Mounted(l) = l
    BY <1>3, Zenon DEF Mounted
  <2>2. l.load = "no" => ~l.stale
    BY <1>3, Zenon
  <2>3. l.stale \in BOOLEAN
    BY <1>1 DEF PartsAre
  <2>4. Settled(l)
    BY <2>2, <2>3 DEF Settled
  <2>. QED
    BY <2>1, <2>4
<1>. QED
  BY <1>2, <1>3

\* A mutation has succeeded: the list is cut to its first page, and starts over or is
\* outdated.  Whatever its last write was, nothing of it is claimed of the list before
\* that.
LEMMA ListInvalidated ==
  ASSUME NEW l, NEW n, NEW m, NEW k, ListIs(l, n, m, k), NEW o, NEW f,
         NEW v, v = [l EXCEPT !.pages = keepFirstInfinitePage(@)],
         NEW r, r = Invalidated(f, v)
  PROVE  ListIs(r, n, m, o) /\ (f = filter => Settled(r))
<1>1. PartsAre(l) /\ ContentIs(l, n, m)
  BY DEF ListIs
<1> DEFINE qs == keepFirstInfinitePage(l.pages)
<1>2. v = Parts(qs, l.stale, l.load, l.before, l.got, l.answer, l.slipped)
  <2>1. v = WithPages(l, qs)
    BY Zenon DEF WithPages
  <2> HIDE DEF qs
  <2>. QED
    BY <1>1, <2>1, PartsChanged, Zenon DEF PartsAre
<1>3. qs \in Seq(CopyPage) /\ Listed(qs, n, m) /\ (l.pages = <<>> <=> qs = <<>>)
  <2>1. l.pages \in Seq(CopyPage) /\ Listed(l.pages, n, m)
    BY <1>1 DEF PartsAre, ContentIs
  <2>. QED
    BY <2>1, FirstKept
<1> HIDE DEF qs
<1>4. /\ v.pages = qs /\ v.stale = l.stale /\ v.load = l.load /\ v.before = l.before
      /\ v.got = l.got /\ v.answer = l.answer /\ v.slipped = l.slipped
  BY <1>2 DEF Parts
<1>5. PartsAre(v)
  BY <1>1, <1>2, <1>3, <1>4 DEF PartsAre, HasParts
<1>6. ContentIs(v, n, m)
  <2>1. Base(v) = Base(l)
    BY <1>4 DEF Base
  <2>. QED
    BY <1>1, <1>3, <1>4, <2>1 DEF ContentIs
<1>7. CASE f = filter /\ (v.pages # <<>> \/ v.load = "no")
  <2>1. r = Refetched([v EXCEPT !.slipped = FALSE])
    BY <1>7, Zenon DEF Invalidated
  <2>2. Listed(v.pages, n, m)
    BY <1>6 DEF ContentIs
  <2>. QED
    BY <1>5, <2>1, <2>2, ListRefetched
<1>8. CASE ~(f = filter /\ (v.pages # <<>> \/ v.load = "no"))
  <2> DEFINE yes == TRUE
             W == v.slipped \/ v.got # <<>> \/ v.answer # None \/ v.load = "next"
  <2>1. r = [v EXCEPT !.stale = TRUE,
                      !.slipped = v.slipped \/ v.got # <<>> \/ v.answer # None
                                            \/ v.load = "next"]
    BY <1>8, Zenon DEF Invalidated
  <2>2. r = StaleSlipped(v, yes, W)
    BY <2>1, Zenon DEF StaleSlipped
  <2>3. W \in BOOLEAN /\ yes \in BOOLEAN /\ yes = TRUE
    BY Zenon
  <2>4. W = TRUE \/ (v.got = <<>> /\ v.answer = None /\ v.load # "next")
    BY Zenon
  <2> HIDE DEF W, yes
  <2>5. r = Parts(v.pages, yes, v.load, v.before, v.got, v.answer, W)
    <3>1. HasParts(v)
      BY <1>5 DEF PartsAre
    <3>2. StaleSlipped(v, yes, W) =
            Parts(v.pages, yes, v.load, v.before, v.got, v.answer, W)
      BY ONLY <3>1, StaleSlippedIs
    <3>. QED
      BY ONLY <2>2, <3>2
  <2>6. /\ r.pages = v.pages /\ r.stale = yes /\ r.load = v.load /\ r.before = v.before
        /\ r.got = v.got /\ r.answer = v.answer /\ r.slipped = W
    BY <2>5 DEF Parts
  <2>7. Base(r) = Base(v)
    BY <2>6 DEF Base
  <2>8. PartsAre(r)
    BY <1>5, <2>3, <2>5, <2>6 DEF PartsAre, HasParts
  <2>9. ContentIs(r, n, m)
    BY <1>6, <2>6, <2>7 DEF ContentIs
  <2>10. OwnIs(r, o)
    <3>1. CASE W = TRUE
      BY <2>6, <3>1 DEF OwnIs
    <3>2. CASE v.got = <<>> /\ v.answer = None /\ v.load # "next"
      <4>1. Base(r) = <<>> /\ Shows(<<>>, o)
        BY <2>7, <3>2, ListedNone DEF Base
      <4>. QED
        BY <2>3, <2>6, <3>2, <4>1 DEF OwnIs
    <3>. QED
      BY <2>4, <3>1, <3>2
  <2>11. f = filter => Settled(r)
    BY <1>8, <2>6 DEF Settled
  <2>. QED
    BY <2>8, <2>9, <2>10, <2>11 DEF ListIs
<1>. QED
  BY <1>7, <1>8

\* The answer to a GET of the list arrives: there is more to come, or not.
LEMMA ListGotMore ==
  ASSUME NEW l, NEW n \in Nat, NEW m \in Seq(Copy), NEW k, ListIs(l, n, m, k), l.load # "no",
         NEW a \in CopyPage, a.at <= n, a.at = n => ReadAt(a, m, loadedCount(Base(l)), Limit),
         l.slipped = TRUE \/ (Base(l) = <<>> => a.at >= k),
         NEW round, round = Append(Base(l), a)
  PROVE  /\ l.load = "all" =>
              LET r == [l EXCEPT !.got = round, !.answer = None]
              IN ListIs(r, n, m, k) /\ Settled(r)
         /\ LET r == [NoList EXCEPT !.pages = round, !.slipped = l.slipped]
            IN ListIs(r, n, m, k) /\ Settled(r)
<1>1. PartsAre(l) /\ ContentIs(l, n, m) /\ OwnIs(l, k)
  BY DEF ListIs
<1>2. Base(l) \in Seq(CopyPage) /\ Listed(Base(l), n, m) /\ l.slipped \in BOOLEAN
  BY <1>1 DEF PartsAre, ContentIs, Base
<1>3. round \in Seq(CopyPage) /\ Listed(round, n, m) /\ round # <<>>
  <2>1. Shows(Base(l), 0) /\ a.at >= 0
    <3>1. \A p \in CopyPage : p.at \in Nat /\ p.at >= 0
      BY Bounds DEF CopyPage, Revs
    <3>2. Base(l) # <<>> => Base(l)[1] \in CopyPage
      BY <1>2, PagesAre
    <3>. QED
      BY <3>1, <3>2 DEF Shows
  <2>. QED
    BY <1>2, <2>1, ListedMore
<1>4. l.slipped = TRUE \/ Shows(round, k)
  <2>1. CASE l.slipped # TRUE
    <3>1. Shows(Base(l), k) /\ (Base(l) = <<>> => a.at >= k)
      BY <1>1, <2>1 DEF OwnIs
    <3>. QED
      BY <1>2, <3>1, ListedMore
  <2>. QED
    BY <2>1
<1>5. ASSUME l.load = "all", NEW r, r = [l EXCEPT !.got = round, !.answer = None]
      PROVE  ListIs(r, n, m, k) /\ Settled(r)
  <2>1. r = GotAnswer(l, round, None)
    BY <1>5, Zenon DEF GotAnswer
  <2>2. r = Parts(l.pages, l.stale, l.load, l.before, round, None, l.slipped)
    <3>1. HasParts(l)
      BY <1>1 DEF PartsAre
    <3>2. GotAnswer(l, round, None) =
            Parts(l.pages, l.stale, l.load, l.before, round, None, l.slipped)
      BY ONLY <3>1, PartsChanged, Zenon
    <3>. QED
      BY ONLY <2>1, <3>2
  <2>3. /\ r.pages = l.pages /\ r.stale = l.stale /\ r.load = "all" /\ r.before = l.before
        /\ r.got = round /\ r.answer = None /\ r.slipped = l.slipped
    BY <1>5, <2>2 DEF Parts
  <2>4. Base(r) = round
    BY <2>3 DEF Base
  <2>5. PartsAre(r)
    BY <1>1, <1>3, <1>5, <2>2, <2>3 DEF PartsAre, HasParts
  <2>6. ContentIs(r, n, m)
    BY <1>1, <1>3, <2>3, <2>4 DEF ContentIs
  <2>7. OwnIs(r, k)
    BY <1>3, <1>4, <2>3, <2>4 DEF OwnIs
  <2>. QED
    BY <2>3, <2>5, <2>6, <2>7 DEF ListIs, Settled
<1>6. ASSUME NEW r, r = [NoList EXCEPT !.pages = round, !.slipped = l.slipped]
      PROVE  ListIs(r, n, m, k) /\ Settled(r)
  <2> DEFINE no == FALSE
             s == l.slipped
             u == [NoList EXCEPT !.pages = round]
  <2>1. r = [u EXCEPT !.slipped = s]
    BY <1>6, Zenon
  <2>2. NoList = Parts(<<>>, no, "no", <<>>, <<>>, None, no)
    BY NoListIs
  <2>3. no \in BOOLEAN /\ no = FALSE
    BY Zenon
  <2> HIDE DEF no, s
  <2>4. u = Parts(round, no, "no", <<>>, <<>>, None, no)
    BY ONLY <2>2 DEF Parts
  <2>5. r = Parts(round, no, "no", <<>>, <<>>, None, s)
    <3>1. r = [u EXCEPT !.slipped = s]
      BY <2>1
    <3> HIDE DEF u
    <3>. QED
      BY ONLY <2>4, <3>1 DEF Parts
  <2> HIDE DEF u
  <2>6. /\ r.pages = round /\ r.stale = no /\ r.load = "no" /\ r.before = <<>>
        /\ r.got = <<>> /\ r.answer = None /\ r.slipped = s
    BY <2>5 DEF Parts
  <2>7. Base(r) = <<>> /\ <<>> \in Seq(CopyPage) /\ Listed(<<>>, n, m) /\ s \in BOOLEAN
    BY <1>2, <2>6, ListedNone DEF Base, s
  <2>8. PartsAre(r)
    BY <1>3, <2>3, <2>5, <2>6, <2>7 DEF PartsAre, HasParts
  <2>9. ContentIs(r, n, m)
    BY <1>3, <2>6, <2>7 DEF ContentIs
  <2>10. OwnIs(r, k)
    BY <1>4, <2>6 DEF OwnIs, s
  <2>11. Settled(r)
    BY <2>3, <2>6 DEF Settled
  <2>. QED
    BY <2>8, <2>9, <2>10, <2>11 DEF ListIs
<1>. QED
  BY <1>5, <1>6

\* The load has failed.
LEMMA ListFailed ==
  ASSUME NEW l, NEW n, NEW m, NEW k, ListIs(l, n, m, k),
         NEW r, r = [NoList EXCEPT !.pages = l.pages, !.stale = l.stale, !.slipped = TRUE]
  PROVE  ListIs(r, n, m, k) /\ Settled(r)
<1>1. PartsAre(l) /\ ContentIs(l, n, m)
  BY DEF ListIs
<1>2. l.pages \in Seq(CopyPage) /\ Listed(l.pages, n, m) /\ l.stale \in BOOLEAN
  BY <1>1 DEF PartsAre, ContentIs
<1> DEFINE p == l.pages
           st == l.stale
           no == FALSE
           yes == TRUE
           u == [NoList EXCEPT !.pages = p]
           v == [u EXCEPT !.stale = st]
<1>3. r = [v EXCEPT !.slipped = yes]
  BY Zenon
<1>4. NoList = Parts(<<>>, no, "no", <<>>, <<>>, None, no)
  BY NoListIs
<1>5. yes = TRUE /\ yes \in BOOLEAN
  BY Zenon
<1> HIDE DEF p, st, no, yes
<1>6. u = Parts(p, no, "no", <<>>, <<>>, None, no)
  BY ONLY <1>4 DEF Parts
<1> HIDE DEF u
<1>7. v = Parts(p, st, "no", <<>>, <<>>, None, no)
  BY ONLY <1>6 DEF Parts
<1> HIDE DEF v
<1>8. r = Parts(p, st, "no", <<>>, <<>>, None, yes)
  BY ONLY <1>3, <1>7 DEF Parts
<1>9. /\ r.pages = p /\ r.stale = st /\ r.load = "no" /\ r.before = <<>>
      /\ r.got = <<>> /\ r.answer = None /\ r.slipped = yes
  BY ONLY <1>8 DEF Parts
<1>10. Base(r) = <<>> /\ <<>> \in Seq(CopyPage) /\ Listed(<<>>, n, m)
  BY <1>9, ListedNone DEF Base
<1>11. p \in Seq(CopyPage) /\ Listed(p, n, m) /\ st \in BOOLEAN
  BY <1>2 DEF p, st
<1>12. PartsAre(r)
  BY ONLY <1>5, <1>8, <1>9, <1>10, <1>11 DEF PartsAre, HasParts
<1>13. ContentIs(r, n, m)
  BY ONLY <1>9, <1>10, <1>11 DEF ContentIs
<1>14. OwnIs(r, k) /\ Settled(r)
  BY ONLY <1>5, <1>9 DEF OwnIs, Settled
<1>. QED
  BY <1>12, <1>13, <1>14 DEF ListIs

\* "Cargar más" on a list that shows its own.
LEMMA ListGoesOn ==
  ASSUME NEW l, NEW n, NEW m, NEW k, ListIs(l, n, m, k), Settled(l), l.load # "next",
         hasNextPage(l.pages, Limit),
         NEW r, r = [Loading(l, "next") EXCEPT !.slipped = @ \/ l.load = "all"]
  PROVE  ListIs(r, n, m, k) /\ Settled(r)
<1>1. PartsAre(l) /\ ContentIs(l, n, m) /\ OwnIs(l, k)
  BY DEF ListIs
<1>2. /\ l.pages \in Seq(CopyPage) /\ Listed(l.pages, n, m) /\ l.stale \in BOOLEAN
      /\ HasParts(l) /\ l.load \in {"no", "first", "all", "next"}
      /\ l.load = "first" => l.pages = <<>>
  BY <1>1 DEF PartsAre, ContentIs
<1>3. l.pages # <<>>
  BY DEF hasNextPage
<1> DEFINE W == Loading(l, "next").slipped \/ l.load = "all"
<1>4. r = LoadingSlipped(l, "next", W)
  BY Zenon DEF LoadingSlipped
<1>5. W \in BOOLEAN /\ (W = TRUE \/ (~Loading(l, "next").slipped /\ l.load # "all"))
  BY Zenon
<1>6. Loading(l, "next") = Parts(l.pages, l.stale, "next", l.pages, <<>>, None, l.slipped)
  BY ONLY <1>2, PartsChanged, Zenon
<1>7. Loading(l, "next").slipped = l.slipped
  BY <1>6 DEF Parts
<1> HIDE DEF W
<1>8. r = Parts(l.pages, l.stale, "next", l.pages, <<>>, None, W)
  <2>1. LoadingSlipped(l, "next", W) = Parts(l.pages, l.stale, "next", l.pages, <<>>, None, W)
    BY ONLY <1>2, PartsChanged
  <2>. QED
    BY ONLY <1>4, <2>1
<1>9. /\ r.pages = l.pages /\ r.stale = l.stale /\ r.load = "next" /\ r.before = l.pages
      /\ r.got = <<>> /\ r.answer = None /\ r.slipped = W
  BY ONLY <1>8 DEF Parts
<1>10. Base(r) = l.pages /\ <<>> \in Seq(CopyPage)
  BY <1>9, ListedNone DEF Base
<1>11. PartsAre(r)
  BY ONLY <1>2, <1>5, <1>8, <1>9, <1>10 DEF PartsAre, HasParts
<1>12. ContentIs(r, n, m)
  BY ONLY <1>2, <1>9, <1>10 DEF ContentIs
<1>13. W = TRUE \/ (l.slipped # TRUE /\ l.load = "no")
  <2>1. ~Loading(l, "next").slipped => l.slipped # TRUE
    BY <1>7, Zenon
  <2>. QED
    BY <1>2, <1>3, <1>5, <2>1
<1>14. W = TRUE \/ Shows(l.pages, k)
  BY <1>1, <1>13 DEF Settled, OwnIs
<1>15. OwnIs(r, k)
  BY ONLY <1>3, <1>9, <1>10, <1>14 DEF OwnIs
<1>16. Settled(r)
  BY ONLY <1>9 DEF Settled
<1>. QED
  BY <1>11, <1>12, <1>15, <1>16 DEF ListIs

-----------------------------------------------------------------------------
(* The lists                                                                *)

AllLists(ls, n, k) ==
    /\ ls = [f \in Filters |-> ls[f]]
    /\ \A f \in Filters : ListIs(ls[f], n, Matching(f), k)

OwnInv == own \in Nat /\ own <= rev

ListsInv == filter \in Filters /\ AllLists(lists, rev, own) /\ Settled(lists[filter])

\* What a GET is answered now.
LEMMA AnswerIs ==
  ASSUME ServerInv, NEW f, NEW n, NEW m, NEW k, ListIs(lists[f], n, m, k)
  PROVE  /\ Answer(f) \in CopyPage /\ Answer(f).at = rev
         /\ ReadAt(Answer(f), Matching(f), loadedCount(Base(lists[f])), Limit)
<1> DEFINE off == loadedCount(Base(lists[f]))
           all == Matching(f)
           items == PageOf(all, off, Limit).items
           a == Answer(f)
<1>1. a = [items |-> items, total |-> Len(all), at |-> rev]
  BY DEF Answer
<1>2. all \in Seq(Copy) /\ Len(all) \in Nat /\ rev \in Revs
  BY MatchingType DEF ServerInv
<1>3. off \in Nat
  <2>1. Base(lists[f]) \in Seq(CopyPage)
    BY DEF ListIs, PartsAre, Base
  <2>2. \A p \in CopyPage : p.items \in Seq(Copy)
    BY DEF CopyPage
  <2>3. flattenInfiniteItems(Base(lists[f])) \in Seq(Copy)
    BY <2>1, <2>2, FlattenType
  <2>. QED
    BY <2>3, LenProperties DEF loadedCount
<1> HIDE DEF off, all, a
<1>4. items \in Seq(Copy) /\ Len(items) <= Limit
  <2>1. Continues(items, all, off, Limit, Copy)
    BY <1>2, <1>3, Bounds, PageAtOffset
  <2>. QED
    BY <2>1 DEF Continues
<1>5. a.items = items /\ a.total = Len(all) /\ a.at = rev
  BY <1>1
<1>6. a \in CopyPage
  BY <1>1, <1>2, <1>4, <1>5 DEF CopyPage
<1>7. ReadAt(a, all, off, Limit)
  BY <1>5 DEF ReadAt
<1>. QED
  BY <1>5, <1>6, <1>7 DEF a, all, off

\* One list changed.
LEMMA OneChanged ==
  ASSUME ListsInv, UNCHANGED <<records, rev, own>>, NEW f \in Filters,
         NEW r, ListIs(r, rev, Matching(f), own), Settled(r),
         lists' = [lists EXCEPT ![f] = r], filter' = filter \/ filter' = f
  PROVE  ListsInv'
<1>1. lists = [g \in Filters |-> lists[g]]
  BY DEF ListsInv, AllLists
<1>2. lists' = [g \in Filters |-> IF g = f THEN r ELSE lists[g]]
  BY <1>1
<1>3. lists' = [g \in Filters |-> lists'[g]]
  BY <1>2
<1>4. ASSUME NEW g \in Filters PROVE ListIs(lists'[g], rev', Matching(g)', own')
  <2>1. Matching(g)' = Matching(g)
    BY DEF Matching
  <2>2. ListIs(lists[g], rev, Matching(g), own)
    BY DEF ListsInv, AllLists
  <2>3. ListIs(lists'[g], rev, Matching(g), own)
    BY <1>2, <2>2
  <2>. QED
    BY <2>1, <2>3
<1>5. filter' \in Filters /\ Settled(lists'[filter'])
  BY <1>2 DEF ListsInv
<1>. QED
  BY <1>3, <1>4, <1>5 DEF ListsInv, AllLists

\* Nothing that the lists are about changed.
LEMMA ListsStay ==
  ASSUME ListsInv, UNCHANGED <<records, rev, own, lists, filter>>
  PROVE  ListsInv'
<1>1. \A g \in Filters : Matching(g)' = Matching(g)
  BY DEF Matching
<1>. QED
  BY <1>1 DEF ListsInv, AllLists

\* The server has made a write since it read.
LEMMA ListsLater ==
  ASSUME ServerInv, rev \in Nat, rev' = rev + 1, NEW k, AllLists(lists', rev, k), own' = k,
         filter' \in Filters, Settled(lists'[filter'])
  PROVE  ListsInv'
<1>1. rev' \in Nat /\ rev < rev'
  OBVIOUS
<1>2. ASSUME NEW g \in Filters PROVE ListIs(lists'[g], rev', Matching(g)', own')
  <2>1. ListIs(lists'[g], rev, Matching(g), k)
    BY DEF AllLists
  <2>2. ListIs(lists'[g], rev', Matching(g)', k)
    BY <1>1, <2>1, ListLater
  <2>. QED
    BY <2>2
<1>3. lists' = [f \in Filters |-> lists'[f]]
  BY DEF AllLists
<1>. QED
  BY <1>2, <1>3 DEF ListsInv, AllLists

\* The server reads some of the GETs under way.
LEMMA ReadingKeeps ==
  ASSUME ServerInv, ListsInv, OwnInv, NEW some \in SUBSET Unread
  PROVE  AllLists(Reading(some), rev, own) /\ Settled(Reading(some)[filter])
<1>1. /\ rev \in Nat /\ own \in Nat /\ own <= rev
  BY Bounds DEF ServerInv, OwnInv, Revs
<1>2. ASSUME NEW f \in Filters
      PROVE  /\ ListIs(Reading(some)[f], rev, Matching(f), own)
             /\ Settled(lists[f]) => Settled(Reading(some)[f])
  <2>1. ListIs(lists[f], rev, Matching(f), own)
    BY DEF ListsInv, AllLists
  <2>2. CASE f \in some
    <3>1. Reading(some)[f] = [lists[f] EXCEPT !.answer = Answer(f)]
      BY <2>2 DEF Reading
    <3>2. lists[f].load # "no"
      BY <2>2 DEF Unread
    <3> DEFINE r == [lists[f] EXCEPT !.answer = Answer(f)]
    <3>3. ListIs(r, rev, Matching(f), own) /\ r.load = lists[f].load
      BY <1>1, <2>1, <3>2, AnswerIs, ListRead
    <3> HIDE DEF r
    <3>4. Settled(r)
      BY <3>2, <3>3 DEF Settled
    <3>. QED
      BY <3>1, <3>3, <3>4 DEF r
  <2>3. CASE f \notin some
    <3>1. Reading(some)[f] = lists[f]
      BY <2>3 DEF Reading
    <3>. QED
      BY <2>1, <3>1
  <2>. QED
    BY <2>2, <2>3
<1>3. Reading(some) = [f \in Filters |-> Reading(some)[f]]
  BY DEF Reading
<1>4. filter \in Filters /\ Settled(lists[filter])
  BY DEF ListsInv
<1>. QED
  BY <1>2, <1>3, <1>4 DEF AllLists

\* A mutation has succeeded.
LEMMA SuccessKeeps ==
  ASSUME NEW ls, NEW n, NEW k, AllLists(ls, n, k), NEW o, filter \in Filters
  PROVE  AllLists(AfterSuccess(ls), n, o) /\ Settled(AfterSuccess(ls)[filter])
<1>1. ASSUME NEW f \in Filters
      PROVE  /\ ListIs(AfterSuccess(ls)[f], n, Matching(f), o)
             /\ f = filter => Settled(AfterSuccess(ls)[f])
  <2> DEFINE v == [ls[f] EXCEPT !.pages = keepFirstInfinitePage(@)]
  <2>1. AfterSuccess(ls)[f] = Invalidated(f, v)
    BY Zenon DEF AfterSuccess
  <2>2. ListIs(ls[f], n, Matching(f), k)
    BY DEF AllLists
  <2>. QED
    BY <2>1, <2>2, ListInvalidated
<1>2. AfterSuccess(ls) = [f \in Filters |-> AfterSuccess(ls)[f]]
  BY Zenon DEF AfterSuccess
<1>. QED
  BY <1>1, <1>2 DEF AllLists

LEMMA ListsLand ==
  ASSUME ServerInv, ListsInv, OwnInv, NEW f \in Filters, Land(f)
  PROVE  ListsInv'
<1> DEFINE l == lists[f]
           a == IF f \in Unread THEN Answer(f) ELSE l.answer
           round == Append(Base(l), a)
           m == Matching(f)
<1>1. l.load # "no" /\ UNCHANGED <<records, rev, own>> /\ filter' = filter
  BY DEF Land, server
<1>2. rev \in Nat /\ own \in Nat /\ own <= rev
  BY Bounds DEF ServerInv, OwnInv, Revs
<1>3. ListIs(l, rev, m, own)
  BY DEF ListsInv, AllLists
<1>4. m \in Seq(Copy)
  BY MatchingType
<1>5. /\ a \in CopyPage /\ a.at <= rev /\ (a.at = rev => ReadAt(a, m, loadedCount(Base(l)), Limit))
      /\ l.slipped = TRUE \/ (Base(l) = <<>> => a.at >= own)
  <2>1. CASE f \in Unread
    <3>1. a = Answer(f)
      BY <2>1
    <3>2. a \in CopyPage /\ a.at = rev /\ ReadAt(a, m, loadedCount(Base(l)), Limit)
      BY <1>3, <3>1, AnswerIs
    <3>. QED
      BY <1>2, <3>2
  <2>2. CASE f \notin Unread
    <3>1. a = l.answer /\ l.answer # None
      BY <1>1, <2>2 DEF Unread
    <3>2. PartsAre(l) /\ ContentIs(l, rev, m) /\ OwnIs(l, own)
      BY <1>3 DEF ListIs
    <3>3. a \in CopyPage /\ a.at <= rev /\ (a.at = rev => ReadAt(a, m, loadedCount(Base(l)), Limit))
      BY <3>1, <3>2 DEF PartsAre, ContentIs
    <3>4. l.slipped = TRUE \/ (Base(l) = <<>> => a.at >= own)
      BY <1>1, <3>1, <3>2 DEF OwnIs
    <3>. QED
      BY <3>3, <3>4
  <2>. QED
    BY <2>1, <2>2
<1>6. \/ l.load = "all" /\ lists' = [lists EXCEPT ![f].got = round, ![f].answer = None]
      \/ lists' = [lists EXCEPT ![f] = [NoList EXCEPT !.pages = round, !.slipped = l.slipped]]
  BY Zenon DEF Land
<1>7. CASE l.load = "all" /\ lists' = [lists EXCEPT ![f].got = round, ![f].answer = None]
  <2> DEFINE r == [l EXCEPT !.got = round, !.answer = None]
  <2>1. lists' = [lists EXCEPT ![f] = r]
    <3>1. lists = [g \in Filters |-> lists[g]]
      BY DEF ListsInv, AllLists
    <3> DEFINE h == [lists EXCEPT ![f].got = round]
    <3>2. h = [lists EXCEPT ![f] = [l EXCEPT !.got = round]]
      BY Zenon
    <3>3. lists' = [h EXCEPT ![f].answer = None]
      BY <1>7, Zenon
    <3>4. [h EXCEPT ![f].answer = None] = [h EXCEPT ![f] = [h[f] EXCEPT !.answer = None]]
      BY Zenon
    <3> DEFINE s == [l EXCEPT !.got = round]
    <3>5. r = [s EXCEPT !.answer = None]
      BY Zenon
    <3> HIDE DEF h, s, l, round, r
    <3>6. h = [lists EXCEPT ![f] = s]
      BY <3>2 DEF s
    <3>7. h[f] = s /\ h = [g \in Filters |-> IF g = f THEN s ELSE lists[g]]
      BY <3>1, <3>6
    <3>8. lists' = [h EXCEPT ![f] = r]
      BY <3>3, <3>4, <3>5, <3>7
    <3>. QED
      BY <3>1, <3>7, <3>8
  <2>2. ListIs(r, rev, m, own) /\ Settled(r)
    BY <1>1, <1>2, <1>3, <1>4, <1>5, <1>7, ListGotMore
  <2> HIDE DEF r
  <2>. QED
    BY <1>1, <2>1, <2>2, OneChanged
<1>8. CASE lists' = [lists EXCEPT ![f] = [NoList EXCEPT !.pages = round, !.slipped = l.slipped]]
  <2> DEFINE r == [NoList EXCEPT !.pages = round, !.slipped = l.slipped]
  <2>1. lists' = [lists EXCEPT ![f] = r]
    BY <1>8
  <2>2. ListIs(r, rev, m, own) /\ Settled(r)
    BY <1>1, <1>2, <1>3, <1>4, <1>5, ListGotMore
  <2> HIDE DEF r
  <2>. QED
    BY <1>1, <2>1, <2>2, OneChanged
<1>. QED
  BY <1>6, <1>7, <1>8

\* What the operator and the network do to one list.
LEMMA ListsMove ==
  ASSUME ServerInv, ListsInv, OwnInv,
         (\E f \in Filters : LoadFails(f)) \/ Refetch \/ LoadMore \/ SetFilter
  PROVE  ListsInv'
<1>1. ASSUME NEW f \in Filters, LoadFails(f) PROVE ListsInv'
  <2> DEFINE r == [NoList EXCEPT !.pages = lists[f].pages, !.stale = lists[f].stale,
                                 !.slipped = TRUE]
  <2>1. lists' = [lists EXCEPT ![f] = r] /\ UNCHANGED <<records, rev, own>> /\ filter' = filter
    BY <1>1, Zenon DEF LoadFails, server
  <2>2. ListIs(lists[f], rev, Matching(f), own)
    BY DEF ListsInv, AllLists
  <2>3. ListIs(r, rev, Matching(f), own) /\ Settled(r)
    BY <2>2, ListFailed
  <2> HIDE DEF r
  <2>. QED
    BY <2>1, <2>3, OneChanged
<1>2. CASE Refetch
  <2> DEFINE r == Refetched([lists[filter] EXCEPT !.slipped = FALSE])
  <2>1. lists' = [lists EXCEPT ![filter] = r] /\ UNCHANGED <<records, rev, own>> /\ filter' = filter
    BY <1>2, Zenon DEF Refetch, server
  <2>2. filter \in Filters /\ ListIs(lists[filter], rev, Matching(filter), own)
    BY DEF ListsInv, AllLists
  <2>3. PartsAre(lists[filter]) /\ Listed(lists[filter].pages, rev, Matching(filter))
    BY <2>2 DEF ListIs, ContentIs
  <2>4. ListIs(r, rev, Matching(filter), own) /\ Settled(r)
    BY <2>3, ListRefetched
  <2> HIDE DEF r
  <2>. QED
    BY <2>1, <2>2, <2>4, OneChanged
<1>3. CASE LoadMore
  <2> DEFINE r == [Loading(lists[filter], "next") EXCEPT !.slipped = @ \/ lists[filter].load = "all"]
  <2>0. UNCHANGED <<records, rev, own>> /\ filter' = filter
    BY <1>3 DEF LoadMore, server
  <2>1. lists' = [lists EXCEPT ![filter] = r]
    BY <1>3, Zenon DEF LoadMore
  <2>2. filter \in Filters /\ ListIs(lists[filter], rev, Matching(filter), own) /\ Settled(lists[filter])
    BY DEF ListsInv, AllLists
  <2>3. hasNextPage(lists[filter].pages, Limit) /\ lists[filter].load # "next"
    BY <1>3 DEF LoadMore, canLoadMore
  <2>4. ListIs(r, rev, Matching(filter), own) /\ Settled(r)
    BY <2>2, <2>3, ListGoesOn
  <2> HIDE DEF r
  <2>. QED
    BY <2>0, <2>1, <2>2, <2>4, OneChanged
<1>4. CASE SetFilter
  <2>1. /\ lists' = [lists EXCEPT ![filter'] = Mounted(lists[filter'])]
        /\ UNCHANGED <<records, rev, own>> /\ filter' \in Filters
    BY <1>4, Zenon DEF SetFilter, server
  <2>2. ListIs(lists[filter'], rev, Matching(filter'), own)
    BY <2>1 DEF ListsInv, AllLists
  <2>3. ListIs(Mounted(lists[filter']), rev, Matching(filter'), own)
        /\ Settled(Mounted(lists[filter']))
    BY <2>2, ListMounted
  <2>. QED
    BY <2>1, <2>3, OneChanged
<1>. QED
  BY <1>1, <1>2, <1>3, <1>4

-----------------------------------------------------------------------------
(* The form and the mutations                                               *)

\* A body is made from the copy whose etag it carries, and what a call has written is
\* a write of the server.
CallIs(c, n) ==
    /\ c.stored # None => c.stored \in Nat /\ c.stored <= n
    /\ c.kind = "update" => c.ifMatch = c.seen

CallsInv ==
    /\ calls \subseteq Call /\ \A c \in calls : CallIs(c, rev)
    /\ IsFiniteSet(calls) /\ Cardinality(calls) <= events + 1
    /\ events \in 0 .. MaxEvents

DeskInv == form \in [open : BOOLEAN, editing : Copy \cup {None}] /\ CallsInv

RecordsIInv == ServerInv /\ OwnInv /\ ListsInv /\ DeskInv

\* What the table shows are copies of records.
LEMMA RowsAreCopies ==
  ASSUME ListsInv, NEW r \in Rows
  PROVE  r \in Copy /\ r.id \in RecordIds /\ r.etag \in Revs
<1>1. lists[filter].pages \in Seq(CopyPage)
  BY DEF ListsInv, AllLists, ListIs, PartsAre
<1>2. \A p \in CopyPage : p.items \in Seq(Copy)
  BY DEF CopyPage
<1>3. Shown \in Seq(Copy)
  BY <1>1, <1>2, FlattenType DEF Shown
<1>4. PICK i \in DOMAIN Shown : r = Shown[i]
  BY DEF Rows, ToSet
<1>5. i \in 1 .. Len(Shown)
  BY <1>3, LenProperties
<1>6. r \in Copy
  BY <1>3, <1>4, <1>5, ElementOfSeq
<1>. QED
  BY <1>6 DEF Copy

\* The calls when another of that kind is made: the hook only tells about the latest.
Aside(c, kind) == [c EXCEPT !.latest = @ /\ c.kind # kind]
Asides(cs, kind) == {Aside(c, kind) : c \in cs}

LEMMA AsidesAre ==
  ASSUME NEW cs, cs \subseteq Call, IsFiniteSet(cs), NEW kind
  PROVE  /\ IsFiniteSet(Asides(cs, kind)) /\ Cardinality(Asides(cs, kind)) <= Cardinality(cs)
         /\ \A c \in cs : /\ Aside(c, kind) \in Call /\ Aside(c, kind).stored = c.stored
                          /\ Aside(c, kind).kind = c.kind /\ Aside(c, kind).seen = c.seen
                          /\ Aside(c, kind).ifMatch = c.ifMatch
<1> DEFINE F == [c \in cs |-> Aside(c, kind)]
<1>1. F \in Surjection(cs, Asides(cs, kind))
  BY Zenon DEF Surjection, Asides
<1> HIDE DEF F
<1>2. IsFiniteSet(Asides(cs, kind)) /\ Cardinality(Asides(cs, kind)) <= Cardinality(cs)
  BY ONLY <1>1, IsFiniteSet(cs), FS_Surjection
<1>3. ASSUME NEW c \in cs
      PROVE  /\ Aside(c, kind) \in Call /\ Aside(c, kind).stored = c.stored
             /\ Aside(c, kind).kind = c.kind /\ Aside(c, kind).seen = c.seen
             /\ Aside(c, kind).ifMatch = c.ifMatch
  <2> DEFINE W == c.latest /\ c.kind # kind
  <2>1. Aside(c, kind) = [c EXCEPT !.latest = W] /\ c \in Call /\ W \in BOOLEAN
    BY Zenon DEF Aside
  <2> HIDE DEF W
  <2>. QED
    BY <2>1 DEF Call
<1>. QED
  BY <1>2, <1>3

\* A call is made.
LEMMA CallsAsk ==
  ASSUME CallsInv, rev' = rev, NEW kind \in {"create", "update", "delete"},
         NEW id \in RecordIds \cup {None}, NEW seen \in Revs \cup {None},
         NEW ifMatch \in Revs \cup {None}, NEW fromMenu \in BOOLEAN,
         kind = "update" => ifMatch = seen, Ask(kind, id, seen, ifMatch, fromMenu)
  PROVE  CallsInv'
<1> DEFINE yes == TRUE
           c0 == [kind |-> kind, id |-> id, seen |-> seen, ifMatch |-> ifMatch,
                  menu |-> fromMenu, latest |-> yes, stored |-> None]
           rest == Asides(calls, kind)
<1>1. calls' = rest \cup {c0}
  BY Zenon DEF Ask, Asides, Aside
<1>2. yes \in BOOLEAN
  BY Zenon
<1> HIDE DEF yes
<1>3. c0 \in Call /\ CallIs(c0, rev)
  BY <1>2 DEF Call, CallIs
<1>4. calls \subseteq Call /\ IsFiniteSet(calls) /\ Cardinality(calls) \in Nat
      /\ Cardinality(calls) <= events + 1 /\ events \in 0 .. MaxEvents /\ events \in Nat
  BY Bounds, FS_CardinalityType DEF CallsInv
<1>5. /\ IsFiniteSet(rest) /\ Cardinality(rest) <= Cardinality(calls) /\ Cardinality(rest) \in Nat
      /\ rest \subseteq Call /\ \A c \in rest : CallIs(c, rev)
  <2>1. /\ IsFiniteSet(rest) /\ Cardinality(rest) <= Cardinality(calls)
        /\ \A c \in calls : /\ Aside(c, kind) \in Call /\ Aside(c, kind).stored = c.stored
                            /\ Aside(c, kind).kind = c.kind /\ Aside(c, kind).seen = c.seen
                            /\ Aside(c, kind).ifMatch = c.ifMatch
    BY <1>4, AsidesAre
  <2>2. \A c \in calls : CallIs(c, rev)
    BY DEF CallsInv
  <2>3. \A c \in calls : CallIs(Aside(c, kind), rev)
    BY <2>1, <2>2 DEF CallIs
  <2>4. \A c \in rest : \E d \in calls : c = Aside(d, kind)
    BY Zenon DEF Asides
  <2>. QED
    BY <2>1, <2>3, <2>4, FS_CardinalityType
<1> HIDE DEF c0, rest
<1>6. IsFiniteSet(calls') /\ Cardinality(calls') \in Nat /\ Cardinality(calls') <= Cardinality(rest) + 1
  <2>1. /\ IsFiniteSet(rest \cup {c0})
        /\ Cardinality(rest \cup {c0}) = IF c0 \in rest THEN Cardinality(rest) ELSE Cardinality(rest) + 1
    BY <1>5, FS_AddElement
  <2>. QED
    BY <1>1, <1>5, <2>1, FS_CardinalityType
<1>7. CASE calls = {}
  <2>1. rest = {}
    BY <1>7 DEF rest, Asides
  <2>2. events' = events
    BY <1>7, Zenon DEF Ask
  <2>3. Cardinality(calls') <= events + 1
    BY <1>4, <1>6, <2>1, FS_EmptySet
  <2>. QED
    BY rev' = rev, <1>1, <1>3, <1>4, <1>5, <1>6, <2>2, <2>3 DEF CallsInv
<1>8. CASE calls # {}
  <2>1. events < MaxEvents /\ events' = events + 1
    BY <1>8, Zenon DEF Ask, Event
  <2>3. events' \in 0 .. MaxEvents /\ Cardinality(calls') <= events' + 1
    BY <1>4, <1>5, <1>6, <2>1, Bounds
  <2>. QED
    BY <1>1, <1>3, <1>5, <1>6, <2>3 DEF CallsInv
<1>. QED
  BY <1>7, <1>8

\* The server has made other writes since, other bounded events have happened.
LEMMA CallsStay ==
  ASSUME CallsInv, rev \in Nat, rev' \in Nat, rev <= rev', calls' = calls,
         events' = events \/ Event
  PROVE  CallsInv'
<1>1. /\ calls \subseteq Call /\ IsFiniteSet(calls) /\ Cardinality(calls) \in Nat
      /\ Cardinality(calls) <= events + 1 /\ events \in 0 .. MaxEvents /\ events \in Nat
  BY Bounds, FS_CardinalityType DEF CallsInv
<1>2. events' \in 0 .. MaxEvents /\ Cardinality(calls) <= events' + 1
  BY <1>1, Bounds DEF Event
<1>3. \A c \in calls : CallIs(c, rev')
  BY DEF CallsInv, CallIs
<1>. QED
  BY <1>1, <1>2, <1>3 DEF CallsInv

\* A call has ended.
LEMMA CallsDrop ==
  ASSUME CallsInv, rev' = rev, events' = events, NEW c, calls' = calls \ {c}
  PROVE  CallsInv'
<1>1. /\ calls \subseteq Call /\ IsFiniteSet(calls) /\ Cardinality(calls) \in Nat
      /\ Cardinality(calls) <= events + 1 /\ events \in 0 .. MaxEvents /\ events \in Nat
      /\ \A d \in calls : CallIs(d, rev)
  BY Bounds, FS_CardinalityType DEF CallsInv
<1>2. IsFiniteSet(calls') /\ Cardinality(calls') <= events + 1
  <2>1. calls' \in SUBSET calls
    OBVIOUS
  <2>2. IsFiniteSet(calls') /\ Cardinality(calls') <= Cardinality(calls)
    BY <1>1, <2>1, FS_Subset
  <2>3. Cardinality(calls') \in Nat
    BY <2>2, FS_CardinalityType
  <2>. QED
    BY <1>1, <2>2, <2>3
<1>. QED
  BY <1>1, <1>2 DEF CallsInv

\* A request has reached the server.
LEMMA CallsHandle ==
  ASSUME CallsInv, rev \in Nat, rev' = rev + 1, rev' \in Revs, events' = events,
         NEW c \in calls, c.stored = None,
         calls' = (calls \ {c}) \cup {[c EXCEPT !.stored = rev']}
  PROVE  CallsInv'
<1> DEFINE d == [c EXCEPT !.stored = rev']
<1>1. /\ calls \subseteq Call /\ IsFiniteSet(calls) /\ Cardinality(calls) \in Nat
      /\ Cardinality(calls) <= events + 1 /\ events \in 0 .. MaxEvents /\ events \in Nat
      /\ \A b \in calls : CallIs(b, rev)
  BY Bounds, FS_CardinalityType DEF CallsInv
<1>2. c \in Call /\ CallIs(c, rev)
  BY <1>1
<1>3. rev' \in Nat /\ rev <= rev'
  OBVIOUS
<1>4. d \in Call /\ d.stored = rev' /\ d.kind = c.kind /\ d.ifMatch = c.ifMatch /\ d.seen = c.seen
  BY <1>2 DEF Call
<1>5. CallIs(d, rev')
  BY <1>2, <1>3, <1>4 DEF CallIs
<1> HIDE DEF d
<1>6. calls' = (calls \ {c}) \cup {d}
  BY DEF d
<1>7. \A b \in calls : CallIs(b, rev')
  BY <1>1, <1>3 DEF CallIs
<1>8. IsFiniteSet(calls') /\ Cardinality(calls') <= events + 1
  <2>1. IsFiniteSet(calls \ {c}) /\ Cardinality(calls \ {c}) = Cardinality(calls) - 1
    BY <1>1, FS_RemoveElement
  <2>2. /\ IsFiniteSet((calls \ {c}) \cup {d})
        /\ Cardinality((calls \ {c}) \cup {d}) =
             IF d \in calls \ {c} THEN Cardinality(calls \ {c}) ELSE Cardinality(calls \ {c}) + 1
    BY <2>1, FS_AddElement
  <2>. QED
    BY <1>1, <1>6, <2>1, <2>2
<1>. QED
  BY <1>1, <1>4, <1>5, <1>6, <1>7, <1>8 DEF CallsInv

-----------------------------------------------------------------------------
(* One step                                                                 *)

\* The larger of two writes.
LEMMA MaxOfTwo ==
  ASSUME NEW a \in Nat, NEW b \in Nat
  PROVE  Max({a, b}) = IF b <= a THEN a ELSE b
<1> DEFINE c == IF b <= a THEN a ELSE b
<1>1. c \in {a, b} /\ \A y \in {a, b} : c >= y
  OBVIOUS
<1>2. \A x \in {a, b} : (\A y \in {a, b} : x >= y) => x = c
  OBVIOUS
<1> HIDE DEF c
<1>3. \E x \in {a, b} : \A y \in {a, b} : x >= y
  BY <1>1
<1>4. Max({a, b}) \in {a, b} /\ \A y \in {a, b} : Max({a, b}) >= y
  BY <1>3, Zenon DEF Max
<1>. QED
  BY <1>2, <1>4 DEF c

\* The server may have read some GETs before it writes.
LEMMA ReadThenWrite ==
  ASSUME ServerInv, ListsInv, OwnInv, Writes, page' = page, filter' = filter, own' = own,
         NEW some \in SUBSET Unread, lists' = Reading(some)
  PROVE  /\ ServerInv' /\ ListsInv' /\ OwnInv'
         /\ rev \in Nat /\ rev' \in Nat /\ rev' = rev + 1 /\ rev' \in Revs
<1>1. ServerInv' /\ rev \in Nat /\ rev' \in Nat /\ rev' = rev + 1 /\ rev' \in Revs
  BY WritesKeep
<1>2. AllLists(Reading(some), rev, own) /\ Settled(Reading(some)[filter])
  BY ReadingKeeps
<1>3. AllLists(lists', rev, own) /\ Settled(lists'[filter']) /\ filter' \in Filters
  BY <1>2 DEF ListsInv
<1>4. ListsInv'
  BY <1>1, <1>3, ListsLater
<1>5. OwnInv'
  BY <1>1 DEF OwnInv
<1>. QED
  BY <1>1, <1>4, <1>5

LEMMA StepElsewhere ==
  ASSUME RecordsIInv, Elsewhere
  PROVE  RecordsIInv'
<1>1. /\ ServerInv /\ ListsInv /\ OwnInv /\ CallsInv
      /\ form \in [open : BOOLEAN, editing : Copy \cup {None}]
  BY DEF RecordsIInv, DeskInv
<1>2. /\ page' = page /\ filter' = filter /\ form' = form /\ calls' = calls /\ own' = own
      /\ Event
  BY DEF Elsewhere
<1>3. Writes
  BY DEF Elsewhere, Writes
<1>4. PICK some \in SUBSET Unread : lists' = Reading(some)
  BY DEF Elsewhere
<1>5. /\ ServerInv' /\ ListsInv' /\ OwnInv'
      /\ rev \in Nat /\ rev' \in Nat /\ rev' = rev + 1 /\ rev' \in Revs
  BY <1>1, <1>2, <1>3, <1>4, ReadThenWrite
<1>6. rev <= rev'
  BY <1>5
<1>7. CallsInv'
  BY <1>1, <1>2, <1>5, <1>6, CallsStay
<1>. QED
  BY <1>1, <1>2, <1>5, <1>7 DEF RecordsIInv, DeskInv

LEMMA StepHandle ==
  ASSUME RecordsIInv, Handle
  PROVE  RecordsIInv'
<1>1. /\ ServerInv /\ ListsInv /\ OwnInv /\ CallsInv
      /\ form \in [open : BOOLEAN, editing : Copy \cup {None}]
  BY DEF RecordsIInv, DeskInv
<1>2. page' = page /\ filter' = filter /\ form' = form /\ own' = own /\ events' = events
  BY DEF Handle
<1>3. PICK c \in calls :
        /\ c.stored = None /\ Writes
        /\ calls' = (calls \ {c}) \cup {[c EXCEPT !.stored = rev']}
  BY DEF Handle, Writes
<1>4. PICK some \in SUBSET Unread : lists' = Reading(some)
  BY DEF Handle
<1>5. /\ ServerInv' /\ ListsInv' /\ OwnInv'
      /\ rev \in Nat /\ rev' \in Nat /\ rev' = rev + 1 /\ rev' \in Revs
  BY <1>1, <1>2, <1>3, <1>4, ReadThenWrite
<1>6. CallsInv'
  BY <1>1, <1>2, <1>3, <1>5, CallsHandle
<1>. QED
  BY <1>1, <1>2, <1>5, <1>6 DEF RecordsIInv, DeskInv

LEMMA StepSucceeds ==
  ASSUME RecordsIInv, Succeeds
  PROVE  RecordsIInv'
<1>1. /\ ServerInv /\ ListsInv /\ OwnInv /\ CallsInv
      /\ form \in [open : BOOLEAN, editing : Copy \cup {None}]
  BY DEF RecordsIInv, DeskInv
<1>2. PICK c \in calls :
        /\ c.stored # None /\ calls' = calls \ {c}
        /\ lists' = AfterSuccess(lists) /\ own' = Max({own, c.stored})
        /\ form' = (IF c.kind # "delete" /\ ~c.menu THEN Closed ELSE form)
        /\ UNCHANGED <<page, server, filter, events>>
  BY DEF Succeeds
<1>3. /\ page' = page /\ records' = records /\ rev' = rev /\ filter' = filter
      /\ events' = events
  BY <1>2 DEF server
<1>4. ServerInv'
  BY <1>1, <1>3 DEF ServerInv
<1>5. own \in Nat /\ own <= rev /\ c.stored \in Nat /\ c.stored <= rev
  BY <1>1, <1>2 DEF OwnInv, CallsInv, CallIs
<1>6. OwnInv'
  <2>1. own' = IF c.stored <= own THEN own ELSE c.stored
    BY <1>2, <1>5, MaxOfTwo
  <2>. QED
    BY <1>3, <1>5, <2>1 DEF OwnInv
<1>7. ListsInv'
  <2>1. AllLists(lists, rev, own) /\ filter \in Filters
    BY <1>1 DEF ListsInv
  <2>2. AllLists(AfterSuccess(lists), rev, own') /\ Settled(AfterSuccess(lists)[filter])
    BY <2>1, SuccessKeeps
  <2>3. AllLists(lists', rev, own') /\ Settled(lists'[filter'])
    BY <1>2, <1>3, <2>2
  <2>4. \A f \in Filters : Matching(f)' = Matching(f)
    BY <1>3 DEF Matching
  <2>. QED
    BY <1>3, <2>1, <2>3, <2>4 DEF ListsInv, AllLists
<1>8. CallsInv'
  BY <1>1, <1>2, <1>3, CallsDrop
<1>9. form' \in [open : BOOLEAN, editing : Copy \cup {None}]
  <2>1. form' = Closed \/ form' = form
    BY <1>2
  <2>2. Closed \in [open : BOOLEAN, editing : Copy \cup {None}]
    BY DEF Closed
  <2>. QED
    BY <1>1, <2>1, <2>2
<1>. QED
  BY <1>4, <1>6, <1>7, <1>8, <1>9 DEF RecordsIInv, DeskInv

LEMMA StepWizard ==
  ASSUME RecordsIInv, wizardSucceeds
  PROVE  RecordsIInv'
<1>1. /\ ServerInv /\ ListsInv /\ OwnInv /\ CallsInv
      /\ form \in [open : BOOLEAN, editing : Copy \cup {None}]
  BY DEF RecordsIInv, DeskInv
<1>2. page' = page /\ form' = form /\ calls' = calls /\ events' = events /\ own' = rev'
  BY DEF wizardSucceeds
<1>3. Writes
  BY DEF wizardSucceeds, Writes
<1>4. PICK some \in SUBSET Unread :
        \/ lists' = AfterSuccess(Reading(some)) /\ filter' = filter
        \/ /\ lists' = [AfterSuccess(Reading(some)) EXCEPT !["wide"] =
                          Mounted(AfterSuccess(Reading(some))["wide"])]
           /\ filter' = "wide"
  BY Zenon DEF wizardSucceeds
<1>5. ServerInv' /\ rev \in Nat /\ rev' \in Nat /\ rev' = rev + 1 /\ rev' \in Revs
  BY <1>1, <1>2, <1>3, WritesKeep
<1>6. rev <= rev' /\ OwnInv'
  BY <1>2, <1>5 DEF OwnInv
<1>7. CallsInv'
  BY <1>1, <1>2, <1>5, <1>6, CallsStay
<1> DEFINE ls == AfterSuccess(Reading(some))
<1>8. AllLists(ls, rev, own') /\ Settled(ls[filter]) /\ filter \in Filters
  <2>1. AllLists(Reading(some), rev, own) /\ filter \in Filters
    BY <1>1, ReadingKeeps DEF ListsInv
  <2>. QED
    BY <2>1, SuccessKeeps
<1> HIDE DEF ls
<1>9. AllLists(lists', rev, own') /\ Settled(lists'[filter']) /\ filter' \in Filters
  <2>1. CASE lists' = ls /\ filter' = filter
    BY <1>8, <2>1
  <2>2. CASE lists' = [ls EXCEPT !["wide"] = Mounted(ls["wide"])] /\ filter' = "wide"
    <3>1. "wide" \in Filters
      BY DEF Filters
    <3>2. ListIs(ls["wide"], rev, Matching("wide"), own') /\ ls = [f \in Filters |-> ls[f]]
      BY <1>8, <3>1 DEF AllLists
    <3>3. ListIs(Mounted(ls["wide"]), rev, Matching("wide"), own') /\ Settled(Mounted(ls["wide"]))
      BY <3>2, ListMounted
    <3>4. lists' = [f \in Filters |-> IF f = "wide" THEN Mounted(ls["wide"]) ELSE ls[f]]
      BY <2>2, <3>2
    <3>5. lists' = [f \in Filters |-> lists'[f]]
      BY <3>4
    <3>6. ASSUME NEW f \in Filters PROVE ListIs(lists'[f], rev, Matching(f), own')
      <4>1. CASE f = "wide"
        BY <3>3, <3>4, <4>1
      <4>2. CASE f # "wide"
        <5>1. lists'[f] = ls[f]
          BY <3>4, <4>2
        <5>. QED
          BY <1>8, <5>1 DEF AllLists
      <4>. QED
        BY <4>1, <4>2
    <3>7. Settled(lists'[filter'])
      BY <2>2, <3>1, <3>3, <3>4
    <3>. QED
      BY <2>2, <3>1, <3>5, <3>6, <3>7 DEF AllLists
  <2>. QED
    BY <1>4, <2>1, <2>2 DEF ls
<1>10. ListsInv'
  BY <1>1, <1>5, <1>9, ListsLater
<1>. QED
  BY <1>1, <1>2, <1>5, <1>6, <1>7, <1>10 DEF RecordsIInv, DeskInv

\* What the network and the operator do to one list.
LEMMA StepLists ==
  ASSUME RecordsIInv, Loads \/ Refetch \/ LoadMore \/ SetFilter
  PROVE  RecordsIInv'
<1>1. /\ ServerInv /\ ListsInv /\ OwnInv /\ CallsInv
      /\ form \in [open : BOOLEAN, editing : Copy \cup {None}]
  BY DEF RecordsIInv, DeskInv
<1>2. /\ page' = page /\ records' = records /\ rev' = rev /\ form' = form /\ calls' = calls
      /\ own' = own /\ (events' = events \/ Event)
  BY DEF Loads, Land, LoadFails, Refetch, LoadMore, SetFilter, server
<1>3. ListsInv'
  BY <1>1, ListsLand, ListsMove DEF Loads
<1>4. rev \in Nat /\ rev' \in Nat /\ rev <= rev'
  BY <1>1, <1>2, Bounds DEF ServerInv, Revs
<1>5. CallsInv'
  BY <1>1, <1>2, <1>4, CallsStay
<1>6. ServerInv' /\ OwnInv'
  BY <1>1, <1>2 DEF ServerInv, OwnInv
<1>. QED
  BY <1>1, <1>2, <1>3, <1>5, <1>6 DEF RecordsIInv, DeskInv

\* The sheet, the menu and the dialog.
LEMMA StepSheet ==
  ASSUME RecordsIInv, openCreate \/ openEdit \/ CloseSheet
  PROVE  RecordsIInv'
<1>1. /\ ServerInv /\ ListsInv /\ OwnInv /\ CallsInv
      /\ form \in [open : BOOLEAN, editing : Copy \cup {None}]
  BY DEF RecordsIInv, DeskInv
<1>2. /\ page' = page /\ records' = records /\ rev' = rev /\ calls' = calls
      /\ own' = own /\ events' = events /\ lists' = lists /\ filter' = filter
  BY DEF openCreate, openEdit, OpenSheet, CloseSheet, server
<1>3. form' \in [open : BOOLEAN, editing : Copy \cup {None}]
  <2>1. CASE openCreate
    BY <2>1 DEF openCreate, OpenSheet
  <2>2. CASE openEdit
    <3>1. PICK r \in Rows : OpenSheet(r)
      BY <2>2 DEF openEdit
    <3>2. r \in Copy
      BY <1>1, RowsAreCopies
    <3>. QED
      BY <3>1, <3>2 DEF OpenSheet
  <2>3. CASE CloseSheet
    BY <2>3 DEF CloseSheet, Closed
  <2>. QED
    BY <2>1, <2>2, <2>3
<1>4. ListsInv'
  BY <1>1, <1>2, ListsStay
<1>5. CallsInv' /\ ServerInv' /\ OwnInv'
  BY <1>1, <1>2 DEF CallsInv, ServerInv, OwnInv
<1>. QED
  BY <1>3, <1>4, <1>5 DEF RecordsIInv, DeskInv

LEMMA StepAsks ==
  ASSUME RecordsIInv, handleSubmit \/ select \/ onConfirmDelete \/ Fails \/ UNCHANGED recordsVars
  PROVE  RecordsIInv'
<1>1. /\ ServerInv /\ ListsInv /\ OwnInv /\ CallsInv
      /\ form \in [open : BOOLEAN, editing : Copy \cup {None}]
  BY DEF RecordsIInv, DeskInv
<1>2. /\ page' = page /\ records' = records /\ rev' = rev /\ form' = form
      /\ own' = own /\ lists' = lists /\ filter' = filter
  BY DEF handleSubmit, select, onConfirmDelete, Fails, server, recordsVars
<1>3. CallsInv'
  <2> DEFINE yes == TRUE
             no == FALSE
  <2>0. yes \in BOOLEAN /\ no \in BOOLEAN
    BY Zenon
  <2>1. CASE handleSubmit
    <3>1. CASE form.editing = None
      <4>1. Ask("create", None, None, None, no)
        BY <2>1, <3>1, Zenon DEF handleSubmit
      <4> HIDE DEF no
      <4>. QED
        BY <1>1, <1>2, <2>0, <4>1, CallsAsk
    <3>2. CASE form.editing # None
      <4> DEFINE id == form.editing.id
                 tag == form.editing.etag
      <4>1. Ask("update", id, tag, tag, no)
        BY <2>1, <3>2, Zenon DEF handleSubmit
      <4>2. form.editing \in Copy
        BY <1>1, <3>2
      <4>3. id \in RecordIds /\ tag \in Revs
        BY <4>2 DEF Copy
      <4> HIDE DEF no, id, tag
      <4>. QED
        BY <1>1, <1>2, <2>0, <4>1, <4>3, CallsAsk
    <3>. QED
      BY <3>1, <3>2
  <2>2. CASE select
    <3>1. PICK r \in Rows : Ask("update", r.id, r.etag, r.etag, yes)
      BY <2>2, Zenon DEF select, handleStatusChange
    <3>2. r.id \in RecordIds /\ r.etag \in Revs
      BY <1>1, RowsAreCopies
    <3> HIDE DEF yes
    <3>. QED
      BY <1>1, <1>2, <2>0, <3>1, <3>2, CallsAsk
  <2>3. CASE onConfirmDelete
    <3>1. PICK r \in Rows : Ask("delete", r.id, None, None, no)
      BY <2>3, Zenon DEF onConfirmDelete
    <3>2. r.id \in RecordIds
      BY <1>1, RowsAreCopies
    <3> HIDE DEF no
    <3>. QED
      BY <1>1, <1>2, <2>0, <3>1, <3>2, CallsAsk
  <2>4. CASE Fails
    <3>1. PICK c \in calls : calls' = calls \ {c}
      BY <2>4 DEF Fails
    <3>2. events' = events
      BY <2>4 DEF Fails
    <3>. QED
      BY <1>1, <1>2, <3>1, <3>2, CallsDrop
  <2>5. CASE UNCHANGED recordsVars
    BY <1>1, <1>2, <2>5 DEF CallsInv, recordsVars
  <2>. QED
    BY <2>1, <2>2, <2>3, <2>4, <2>5
<1>4. ListsInv'
  BY <1>1, <1>2, ListsStay
<1>5. ServerInv' /\ OwnInv'
  BY <1>1, <1>2 DEF ServerInv, OwnInv
<1>. QED
  BY <1>1, <1>2, <1>3, <1>4, <1>5 DEF RecordsIInv, DeskInv

\* Where it all starts.
LEMMA RecordsStart == RecordsInit => RecordsIInv
<1> SUFFICES ASSUME RecordsInit PROVE RecordsIInv
  OBVIOUS
<1>1. page \in Pages /\ rev = 0 /\ own = 0 /\ events = 0 /\ calls = {} /\ form = Closed
  BY DEF RecordsInit
<1>2. ServerInv
  <2>1. /\ records \in [1 .. InitialRecords -> [id : RecordIds, etag : {0}, shown : BOOLEAN]]
        /\ \A i \in DOMAIN records : records[i].id = i
    BY DEF RecordsInit
  <2>2. InitialRecords \in Nat /\ 0 \in Revs
    BY Bounds DEF Revs
  <2>3. \A i \in 1 .. InitialRecords : records[i] \in Record
    BY <2>1, <2>2 DEF Record
  <2>4. records \in [1 .. InitialRecords -> Record] /\ DOMAIN records = 1 .. InitialRecords
    BY <2>1, <2>3
  <2>5. records \in Seq(Record)
    BY <2>2, <2>4, ListOf
  <2>6. Len(records) = InitialRecords
    BY <2>2, <2>4, <2>5, LenProperties
  <2>7. \A i \in 1 .. Len(records) : records[i].id = i
    BY <2>1, <2>4, <2>6
  <2>8. RecordsAre(records, 0)
    BY <2>2, <2>5, <2>6, <2>7 DEF RecordsAre
  <2>. QED
    BY <1>1, <2>2, <2>8 DEF ServerInv
<1>3. OwnInv
  BY <1>1 DEF OwnInv
<1>4. ListsInv
  <2> DEFINE no == FALSE
             first == Loading(NoList, "first")
  <2>1. filter = Page[page].first /\ lists = [f \in Filters |-> IF f = filter THEN first ELSE NoList]
    BY Zenon DEF RecordsInit
  <2>2. filter \in Filters
    <3>1. page \in DOMAIN Page
      BY <1>1, PagesAssumption DEF PagesAssumption
    <3>2. \A p \in DOMAIN Page : Page[p].first \in Filters
      BY DEF Page, StudentsPage, TeachersPage, TeacherPaymentsPage, ExpensesPage,
             EnrollmentsPage, SchedulesPage, Filters
    <3>. QED
      BY <2>1, <3>1, <3>2
  <2>3. NoList = Parts(<<>>, no, "no", <<>>, <<>>, None, no)
    BY NoListIs
  <2>4. no \in BOOLEAN
    BY Zenon
  <2> HIDE DEF no, first
  <2>5. /\ NoList.pages = <<>> /\ NoList.stale = no /\ NoList.load = "no" /\ NoList.before = <<>>
        /\ NoList.got = <<>> /\ NoList.answer = None /\ NoList.slipped = no
    BY <2>3 DEF Parts
  <2>6. HasParts(NoList)
    BY <2>3, <2>5 DEF HasParts
  <2>7. first = Parts(<<>>, no, "first", <<>>, <<>>, None, no)
    <3>1. first = Parts(NoList.pages, NoList.stale, "first", NoList.pages, <<>>, None, NoList.slipped)
      BY <2>6, PartsChanged, Zenon DEF first
    <3>. QED
      BY <2>5, <3>1
  <2>8. ASSUME NEW f \in Filters
        PROVE  ListIs(NoList, rev, Matching(f), own) /\ ListIs(first, rev, Matching(f), own)
               /\ Settled(first)
    <3>1. <<>> \in Seq(CopyPage) /\ Listed(<<>>, rev, Matching(f)) /\ Shows(<<>>, own)
      BY ListedNone
    <3>2. ListIs(first, rev, Matching(f), own) /\ Settled(first)
      BY <2>4, <2>7, <3>1, ListStartsOver
    <3>3. Base(NoList) = <<>>
      BY <2>5 DEF Base
    <3>4. PartsAre(NoList)
      BY <2>4, <2>5, <2>6, <3>1 DEF PartsAre
    <3>5. ContentIs(NoList, rev, Matching(f)) /\ OwnIs(NoList, own)
      BY <2>5, <3>1, <3>3 DEF ContentIs, OwnIs
    <3>. QED
      BY <3>2, <3>4, <3>5 DEF ListIs
  <2>9. \A f \in Filters : ListIs(lists[f], rev, Matching(f), own)
    BY <2>1, <2>8
  <2>10. lists = [f \in Filters |-> lists[f]] /\ Settled(lists[filter])
    BY <2>1, <2>2, <2>8
  <2>. QED
    BY <2>2, <2>9, <2>10 DEF ListsInv, AllLists
<1>5. DeskInv
  <2>1. form \in [open : BOOLEAN, editing : Copy \cup {None}]
    BY <1>1 DEF Closed
  <2>2. IsFiniteSet(calls) /\ Cardinality(calls) = 0
    BY <1>1, FS_EmptySet
  <2>. QED
    BY <1>1, <2>1, <2>2, Bounds DEF DeskInv, CallsInv
<1>. QED
  BY <1>2, <1>3, <1>4, <1>5 DEF RecordsIInv

\* Every step keeps the invariant.
LEMMA RecordsStep == RecordsIInv /\ [RecordsNext]_recordsVars => RecordsIInv'
  BY StepElsewhere, StepHandle, StepSucceeds, StepWizard, StepLists, StepSheet, StepAsks
  DEF RecordsNext, Operator

\* The invariant the properties follow from.
LEMMA RecordsInvariant == RecordsSpec => []RecordsIInv
  BY RecordsStart, RecordsStep, PTL DEF RecordsSpec

-----------------------------------------------------------------------------
(* The properties of the desk                                               *)

LEMMA RecordsTypes == RecordsIInv => RecordsTypeOK
<1> SUFFICES ASSUME RecordsIInv PROVE RecordsTypeOK
  OBVIOUS
<1>1. /\ ServerInv /\ ListsInv /\ OwnInv /\ CallsInv
      /\ form \in [open : BOOLEAN, editing : Copy \cup {None}]
  BY DEF RecordsIInv, DeskInv
<1>2. /\ page \in Pages /\ rev \in Revs /\ records \in Seq(Record)
      /\ \A i, j \in DOMAIN records : records[i].id = records[j].id => i = j
  BY <1>1, RecordsOf DEF ServerInv, RecordsAre
<1>3. filter \in Filters /\ DOMAIN lists = Filters
  BY <1>1 DEF ListsInv, AllLists
<1>4. ASSUME NEW ps \in Seq(CopyPage) PROVE PagesAt(ps)
  BY PagesAre DEF PagesAt
<1>5. ASSUME NEW f \in Filters
      PROVE  /\ PagesAt(lists[f].pages) /\ PagesAt(lists[f].got) /\ PagesAt(lists[f].before)
             /\ lists[f].answer # None => PagesAt(<<lists[f].answer>>)
             /\ lists[f].load \in {"no", "first", "all", "next"}
             /\ lists[f].load = "no" => lists[f].got = <<>> /\ lists[f].answer = None
             /\ lists[f].stale \in BOOLEAN /\ lists[f].slipped \in BOOLEAN
  <2>1. PartsAre(lists[f])
    BY <1>1 DEF ListsInv, AllLists, ListIs
  <2>2. \A p \in CopyPage : <<p>> \in Seq(CopyPage)
    OBVIOUS
  <2>3. lists[f].answer # None => PagesAt(<<lists[f].answer>>)
    BY <1>4, <2>1, <2>2 DEF PartsAre
  <2>. QED
    BY <1>4, <2>1, <2>3 DEF PartsAre
<1>6. form.open \in BOOLEAN /\ form.editing \in Copy \cup {None}
  BY <1>1
<1>7. calls \subseteq Call /\ Cardinality(calls) <= events + 1 /\ events \in 0 .. MaxEvents
  BY <1>1 DEF CallsInv
<1>8. own \in Revs
  BY <1>1, <1>2, Bounds DEF OwnInv, Revs
<1>. QED
  BY <1>2, <1>3, <1>5, <1>6, <1>7, <1>8 DEF RecordsTypeOK

\* Types: whatever the page and the bounds, the server lists a record once, each list
\* holds pages of copies and nothing of a load when none is under way, a form edits a
\* copy, and the calls are as many as the bound allows.
THEOREM RecordsTypeCorrect == RecordsSpec => []RecordsTypeOK
  BY RecordsInvariant, RecordsTypes, PTL

LEMMA RowsFromInvariant == RecordsIInv => RowsAreTheServers
<1> SUFFICES ASSUME RecordsIInv, NEW f \in Filters, UpToDateList(lists[f])
             PROVE  LET rows == flattenInfiniteItems(lists[f].pages) all == Matching(f) IN
                    /\ rows = SubSeq(all, 1, Len(rows))
                    /\ hasNextPage(lists[f].pages, Limit) <=> Len(rows) < Len(all)
  BY DEF RowsAreTheServers
<1> DEFINE ps == lists[f].pages
           all == Matching(f)
<1>1. PartsAre(lists[f]) /\ ContentIs(lists[f], rev, all)
  BY DEF RecordsIInv, ListsInv, AllLists, ListIs
<1>2. ps \in Seq(CopyPage) /\ Listed(ps, rev, all)
  BY <1>1 DEF PartsAre, ContentIs
<1>3. ps # <<>> /\ \A i \in 1 .. Len(ps) : ps[i].at = rev
  BY <1>2, PagesAre DEF UpToDateList
<1>4. Prefix(ps, all, Limit)
  BY <1>2, <1>3 DEF Listed
<1>5. all \in Seq(Copy)
  BY MatchingType DEF RecordsIInv
<1>6. \A p \in CopyPage : p.items \in Seq(Copy)
  BY DEF CopyPage
<1> HIDE DEF ps, all
<1>7. hasNextPage(ps, Limit) <=> Len(flattenInfiniteItems(ps)) < Len(all)
  BY <1>2, <1>3, <1>4, <1>5, <1>6, Bounds, MoreToLoad
<1>8. flattenInfiniteItems(ps) = SubSeq(all, 1, Len(flattenInfiniteItems(ps)))
  BY <1>4 DEF Prefix
<1>. QED
  BY <1>7, <1>8 DEF ps, all

\* The rows of a list nothing has been written since are the first records of the
\* server that match its filter, once each and in its order, and it offers more exactly
\* when the server has more (useInfinite..., getNextOffset): for every page, number of
\* records, page size and number of writes, whatever others write, however loads are
\* cancelled, repeated or lost, and however late an answer comes.
THEOREM RowsAreRight == RecordsSpec => []RowsAreTheServers
  BY RecordsInvariant, RowsFromInvariant, PTL

LEMMA OwnFromInvariant == RecordsIInv => OwnWritesShown
<1> SUFFICES ASSUME RecordsIInv, NEW f \in Filters, lists[f].pages # <<>>, lists[f].load = "no",
                    ~lists[f].stale, ~lists[f].slipped
             PROVE  Head(lists[f].pages).at >= own
  BY DEF OwnWritesShown
<1>1. PartsAre(lists[f]) /\ OwnIs(lists[f], own)
  BY DEF RecordsIInv, ListsInv, AllLists, ListIs
<1>2. lists[f].pages \in Seq(CopyPage)
  BY <1>1 DEF PartsAre
<1>3. lists[f].stale # TRUE /\ lists[f].slipped # TRUE
  BY Zenon
<1>4. lists[f].pages[1].at >= own
  BY <1>1, <1>3 DEF OwnIs, Shows
<1>5. Head(lists[f].pages) = lists[f].pages[1]
  BY <1>2
<1>. QED
  BY <1>4, <1>5

\* A list with nothing left to load was read after every success the desk knows of,
\* unless a load failed, "Cargar más" cancelled it or an answer read before the success
\* landed after it (keepFirstInfinitePage and invalidateQueries in onSuccess).
THEOREM OwnWritesAreShown == RecordsSpec => []OwnWritesShown
  BY RecordsInvariant, OwnFromInvariant, PTL

\* What a step may not write over, as an action.
KeepsOthers ==
    \A c \in calls :
         /\ page \in Guarded /\ c.kind = "update" /\ c.stored = None
         /\ [c EXCEPT !.stored = rev'] \in calls' /\ rev' # rev
         => Unchanged(c.id, c.seen)

LEMMA GuardedStep == RecordsIInv /\ [RecordsNext]_recordsVars => KeepsOthers
<1> SUFFICES ASSUME RecordsIInv, [RecordsNext]_recordsVars, NEW c \in calls, page \in Guarded,
                    c.kind = "update", c.stored = None,
                    [c EXCEPT !.stored = rev'] \in calls', rev' # rev
             PROVE  Unchanged(c.id, c.seen)
  BY DEF KeepsOthers
<1> DEFINE w == [c EXCEPT !.stored = rev']
<1>1. /\ ServerInv /\ CallsInv /\ calls \subseteq Call /\ \A b \in calls : CallIs(b, rev)
  BY DEF RecordsIInv, DeskInv, CallsInv
<1>2. c \in Call /\ w.stored = rev' /\ c.ifMatch = c.seen
  BY <1>1 DEF Call, CallIs
<1>3. ASSUME Writes, page' = page PROVE w \notin calls
  <2>1. rev \in Nat /\ rev' = rev + 1 /\ rev' \in Revs
    BY <1>1, <1>3, WritesKeep
  <2>2. rev' # None
    BY <2>1, NoneAssumption DEF NoneAssumption, Revs
  <2>3. ~(rev' <= rev)
    BY <2>1
  <2>. QED
    BY <1>1, <1>2, <2>2, <2>3 DEF CallIs
<1>4. CASE Handle
  <2>1. PICK d \in calls :
          /\ d.stored = None
          /\ \/ d.kind = "create" /\ Create
             \/ d.kind = "update" /\ precondition(d)
                /\ Update(d.id, IF d.menu THEN {"status"} ELSE Form[page].fields)
             \/ d.kind = "delete" /\ Delete(d.id)
          /\ calls' = (calls \ {d}) \cup {[d EXCEPT !.stored = rev']}
    BY <1>4 DEF Handle
  <2>2. Writes /\ page' = page
    BY <1>4, <2>1 DEF Writes, Handle
  <2>3. w = [d EXCEPT !.stored = rev']
    BY <1>3, <2>1, <2>2
  <2>4. d = c
    <3>1. d \in Call
      BY <1>1, <2>1
    <3>2. /\ d.kind = c.kind /\ d.id = c.id /\ d.seen = c.seen /\ d.ifMatch = c.ifMatch
          /\ d.menu = c.menu /\ d.latest = c.latest /\ d.stored = c.stored
      BY <1>2, <2>1, <2>3, <3>1 DEF Call
    <3>. QED
      BY <1>2, <3>1, <3>2 DEF Call
  <2>5. precondition(c)
    BY <2>1, <2>4
  <2>. QED
    BY <1>2, <2>5 DEF precondition
<1>5. CASE Elsewhere \/ wizardSucceeds
  <2>1. Writes /\ page' = page /\ calls' = calls
    BY <1>5 DEF Elsewhere, wizardSucceeds, Writes
  <2>. QED
    BY <1>3, <2>1
<1>6. CASE ~Handle /\ ~Elsewhere /\ ~wizardSucceeds
  <2>1. rev' = rev
    BY <1>6 DEF RecordsNext, Operator, Refetch, LoadMore, SetFilter, openCreate, openEdit,
      OpenSheet, CloseSheet, handleSubmit, select, onConfirmDelete, Loads, Land, LoadFails,
      Succeeds, Fails, server, recordsVars
  <2>. QED
    BY <2>1
<1>. QED
  BY <1>4, <1>5, <1>6

\* On the pages whose PUT compares If-Match, neither the form nor the status menu ever
\* writes over a change that was not in the copy it started from: whatever was written
\* by others, by the desk itself and in which order, and whichever refetch came between.
THEOREM GuardedEditsKeep == RecordsSpec => GuardedEditsKeepOthers
<1>1. RecordsIInv /\ [RecordsNext]_recordsVars => [KeepsOthers]_recordsVars
  BY GuardedStep
<1>2. [][KeepsOthers]_recordsVars <=> GuardedEditsKeepOthers
  BY DEF KeepsOthers, GuardedEditsKeepOthers
<1>. QED
  BY RecordsInvariant, <1>1, <1>2, PTL DEF RecordsSpec
=============================================================================
