-------------------------- MODULE AgentThreadsProofs --------------------------
(***************************************************************************)
(* Theorems about AgentThreads: the types for any number of workers and    *)
(* messages, and what holds as long as one worker has the chat at a time,  *)
(* for any number of workers, messages, threads, recyclings and days.      *)
(***************************************************************************)
EXTENDS AgentThreads, TLAPS

-----------------------------------------------------------------------------
(* Types.                                                                   *)

KnownThreads == created \cup {None}

MessageInv(m) ==
    /\ thread[m] \in KnownThreads
    /\ pc[m] \in {"persist", "message", "run", "reset.thread"} => thread[m] # None
    /\ pc[m] \in {"unsent", "waiting"} => thread[m] = None
    /\ pc[m] = "waiting" => worker[m] \in Workers
    /\ pc[m] \in TurnPC => kind[m] = "turn"
    /\ pc[m] \in ResetPC => kind[m] = "reset"
    /\ pc[m] \in Handled => worker[m] \in Workers /\ gate[worker[m]] = m

\* The holder of a gate is being handled, on that worker.
GateInv(w) ==
    gate[w] # None => worker[gate[w]] = w /\ pc[gate[w]] \in Handled

\* The inductive invariant behind the types: whoever is handled holds the gate of
\* its worker, and every thread anyone knows was created.
TypeInv ==
    /\ kind \in [Messages -> {"turn", "reset"}]
    /\ pc \in [Messages -> PC]
    /\ worker \in [Messages -> Workers \cup {None}]
    /\ thread \in [Messages -> Threads \cup {None}]
    /\ gate \in [Workers -> Messages \cup {None}]
    /\ threadsByChat \in [Workers -> Threads \cup {None}]
    /\ \A w \in Workers : threadsByChat[w] \in KnownThreads
    /\ mapping \in KnownThreads
    /\ age \in Nat /\ age < Ttl
    /\ foundry \subseteq created /\ created \subseteq Threads
    /\ failures \in Nat /\ days \in Nat
    /\ \A m \in Messages : MessageInv(m)
    /\ \A w \in Workers : GateInv(w)

LEMMA TypeInvInit == Init => TypeInv
BY BoundsAssumption
   DEF Init, TypeInv, MessageInv, GateInv, KnownThreads, PC, TurnPC, ResetPC, Handled

LapsesTyped == undeleted \in BOOLEAN /\ split \in BOOLEAN

LEMMA TypeInvImpliesTypeOK == TypeInv /\ LapsesTyped => TypeOK
<1> SUFFICES ASSUME TypeInv, LapsesTyped PROVE TypeOK
  OBVIOUS
<1>1. ASSUME NEW m \in Messages
      PROVE  /\ pc[m] \in {"persist", "message", "run", "reset.thread"} =>
                  thread[m] \in created
             /\ pc[m] \in Handled <=> \E w \in Workers : worker[m] = w /\ gate[w] = m
  <2>1. MessageInv(m) /\ \A w \in Workers : GateInv(w)
    BY DEF TypeInv
  <2>2. m # None
    BY NoneAssumption
  <2>. QED
    BY <2>1, <2>2 DEF MessageInv, GateInv, KnownThreads
<1>2. mapping \in Threads \cup {None}
  BY DEF TypeInv, KnownThreads
<1>3. age \in 0 .. Ttl
  BY BoundsAssumption DEF TypeInv
<1>. QED
  BY <1>1, <1>2, <1>3 DEF TypeInv, LapsesTyped, TypeOK

\* What the data may become in a step of a handler.
DataInv ==
    /\ threadsByChat \in [Workers -> Threads \cup {None}]
    /\ \A w \in Workers : threadsByChat[w] \in KnownThreads
    /\ mapping \in KnownThreads
    /\ age \in Nat /\ age < Ttl
    /\ foundry \subseteq created /\ created \subseteq Threads
    /\ failures \in Nat /\ days \in Nat

\* m goes on from one await to the next with a thread that exists, or is answered.
Advances(m) ==
    \/ Answer(m)
    \/ \E next, t :
         /\ Goto(m, next, t)
         /\ \/ pc[m] \in TurnPC /\ next \in TurnPC
            \/ pc[m] \in ResetPC /\ next \in ResetPC
         /\ t \in created' \cup {None}
         /\ next \in {"persist", "message", "run", "reset.thread"} => t # None

LEMMA HandlerKeepsTypes ==
  ASSUME TypeInv, NEW m \in Messages, pc[m] \in Handled, Advances(m),
         DataInv', created \subseteq created'
  PROVE  TypeInv'
<1>1. kind' = kind /\ worker' = worker
  BY DEF Advances, Goto, Answer
<1>2. worker[m] \in Workers /\ gate[worker[m]] = m /\ m # None
  BY NoneAssumption DEF TypeInv, MessageInv
<1>3. CASE Answer(m)
  <2>1. /\ pc' = [pc EXCEPT ![m] = "answered"]
        /\ gate' = [gate EXCEPT ![worker[m]] = None]
        /\ thread' = thread
    BY <1>3 DEF Answer
  <2>2. /\ pc' \in [Messages -> PC] /\ gate' \in [Workers -> Messages \cup {None}]
        /\ thread' \in [Messages -> Threads \cup {None}]
    BY <2>1 DEF TypeInv, PC
  <2>3. ASSUME NEW v \in Messages
        PROVE  MessageInv(v)'
    <3>1. MessageInv(v) /\ thread[v] \in KnownThreads'
      BY DEF TypeInv, MessageInv, KnownThreads
    <3>2. CASE v = m
      BY <1>1, <2>1, <3>1, <3>2
         DEF TypeInv, MessageInv, Handled, TurnPC, ResetPC
    <3>3. CASE v # m
      <4>1. pc'[v] = pc[v] /\ thread'[v] = thread[v]
        BY <2>1, <3>3
      <4>2. pc[v] \in Handled => worker[v] # worker[m] /\ gate'[worker[v]] = gate[worker[v]]
        BY <1>2, <2>1, <3>1, <3>3 DEF MessageInv, TypeInv
      <4>. QED
        BY <1>1, <3>1, <4>1, <4>2 DEF MessageInv
    <3>. QED
      BY <3>2, <3>3
  <2>4. ASSUME NEW w \in Workers
        PROVE  GateInv(w)'
    <3>1. GateInv(w)
      BY DEF TypeInv
    <3>2. gate'[w] = (IF w = worker[m] THEN None ELSE gate[w])
      BY <1>2, <2>1 DEF TypeInv
    <3>3. gate'[w] # None => gate'[w] = gate[w] /\ gate[w] # m /\ gate[w] \in Messages
      BY <1>2, <3>1, <3>2 DEF GateInv, TypeInv
    <3>. QED
      BY <1>1, <2>1, <3>1, <3>3 DEF GateInv, TypeInv
  <2>. QED
    BY <1>1, <2>2, <2>3, <2>4 DEF TypeInv, DataInv
<1>4. ASSUME NEW next, NEW t, Goto(m, next, t),
             \/ pc[m] \in TurnPC /\ next \in TurnPC
             \/ pc[m] \in ResetPC /\ next \in ResetPC,
             t \in created' \cup {None},
             next \in {"persist", "message", "run", "reset.thread"} => t # None
      PROVE  TypeInv'
  <2>1. /\ pc' = [pc EXCEPT ![m] = next] /\ thread' = [thread EXCEPT ![m] = t]
        /\ gate' = gate
    BY <1>4 DEF Goto
  <2>2. next \in Handled
    BY <1>4 DEF Handled
  <2>3. pc' \in [Messages -> PC] /\ thread' \in [Messages -> Threads \cup {None}]
    BY <1>4, <2>1, <2>2 DEF TypeInv, PC, DataInv
  <2>4. ASSUME NEW v \in Messages
        PROVE  MessageInv(v)'
    <3>1. MessageInv(v) /\ thread[v] \in KnownThreads'
      BY DEF TypeInv, MessageInv, KnownThreads
    <3>2. CASE v = m
      <4>1. pc'[v] = next /\ thread'[v] = t
        BY <2>1, <3>2 DEF TypeInv
      <4>. QED
        BY <1>1, <1>2, <1>4, <2>1, <2>2, <3>1, <3>2, <4>1
           DEF MessageInv, KnownThreads, TurnPC, ResetPC
    <3>3. CASE v # m
      <4>1. pc'[v] = pc[v] /\ thread'[v] = thread[v]
        BY <2>1, <3>3
      <4>. QED
        BY <1>1, <2>1, <3>1, <4>1 DEF MessageInv
    <3>. QED
      BY <3>2, <3>3
  <2>5. ASSUME NEW w \in Workers
        PROVE  GateInv(w)'
    <3>1. GateInv(w) /\ gate[w] \in Messages \cup {None}
      BY DEF TypeInv
    <3>. QED
      BY <1>1, <2>1, <2>2, <3>1 DEF GateInv, TypeInv
  <2>. QED
    BY <1>1, <2>1, <2>3, <2>4, <2>5 DEF TypeInv, DataInv
<1>. QED
  BY <1>3, <1>4 DEF Advances

\* Each step of a handler is such a step.
LEMMA TurnAdvances ==
  ASSUME TypeInv, NEW m \in Messages, TurnNext(m)
  PROVE  pc[m] \in Handled /\ Advances(m) /\ DataInv' /\ created \subseteq created'
<1>1. /\ MessageInv(m) /\ DataInv /\ TurnPC \subseteq Handled
      /\ pc[m] \in Handled => worker[m] \in Workers
  BY DEF TypeInv, DataInv, MessageInv, Handled
<1>2. CASE BuildTurnInput(m)
  <2>1. pc[m] = "input" /\ UNCHANGED <<tiers, server, clock, history>>
    BY <1>2 DEF BuildTurnInput
  <2>2. DataInv' /\ created' = created
    BY <1>1, <2>1 DEF DataInv, KnownThreads, tiers, server, clock
  <2>3. Advances(m)
    <3> DEFINE l1 == threadsByChat[worker[m]]
    <3>1. l1 \in created \cup {None}
      BY <1>1, <2>1 DEF TypeInv, KnownThreads, TurnPC
    <3>2. CASE l1 # None /\ Goto(m, "message", l1)
      BY <2>1, <2>2, <3>1, <3>2 DEF Advances, TurnPC
    <3>3. CASE l1 = None /\ Goto(m, "lookup", None)
      BY <2>1, <2>2, <3>3 DEF Advances, TurnPC
    <3>4. CASE Answer(m)
      BY <3>4 DEF Advances
    <3>. QED
      BY <1>2, <3>2, <3>3, <3>4 DEF BuildTurnInput
  <2>. QED
    BY <2>1, <2>2, <2>3 DEF Handled, TurnPC
<1>3. CASE LookUpThread(m)
  <2>1. pc[m] = "lookup" /\ UNCHANGED <<mapping, age, server, recycles, days>>
    BY <1>3 DEF LookUpThread
  <2>2. worker[m] \in Workers
    BY <1>1, <2>1 DEF TurnPC
  <2>3. CASE mapping # None /\ ApiAnswers /\ Remember(worker[m], mapping)
             /\ Goto(m, "persist", mapping)
    <3>1. DataInv' /\ created' = created
      BY <1>1, <2>1, <2>2, <2>3 DEF DataInv, KnownThreads, server, ApiAnswers, Remember
    <3>2. Advances(m)
      BY <1>1, <2>1, <2>3, <3>1 DEF Advances, TurnPC, DataInv, KnownThreads
    <3>. QED
      BY <1>1, <2>1, <3>1, <3>2 DEF TurnPC
  <2>4. CASE /\ (mapping = None /\ ApiAnswers) \/ ApiFails
             /\ Goto(m, "create", None) /\ UNCHANGED threadsByChat
    <3>1. DataInv' /\ created' = created
      BY <1>1, <2>1, <2>4 DEF DataInv, KnownThreads, server, ApiAnswers, ApiFails
    <3>2. Advances(m)
      BY <2>1, <2>4 DEF Advances, TurnPC
    <3>. QED
      BY <1>1, <2>1, <3>1, <3>2 DEF TurnPC
  <2>. QED
    BY <1>3, <2>3, <2>4 DEF LookUpThread
<1>4. CASE CreateThread(m)
  <2>1. pc[m] = "create" /\ UNCHANGED <<mapping, age, clock>> /\ worker[m] \in Workers
    BY <1>1, <1>4 DEF CreateThread, TurnPC
  <2>2. ASSUME NEW t \in Threads \ created,
               created' = created \cup {t}, foundry' = foundry \cup {t},
               Remember(worker[m], t), Goto(m, "persist", t)
        PROVE  DataInv' /\ created \subseteq created' /\ Advances(m)
    <3>1. t # None
      BY NoneAssumption
    <3>2. DataInv' /\ created \subseteq created'
      BY <1>1, <2>1, <2>2 DEF DataInv, KnownThreads, clock, Remember
    <3>. QED
      BY <2>1, <2>2, <3>1, <3>2 DEF Advances, TurnPC
  <2>3. ASSUME Answer(m), UNCHANGED <<server, threadsByChat>>
        PROVE  DataInv' /\ created \subseteq created' /\ Advances(m)
    BY <1>1, <2>1, <2>3 DEF DataInv, KnownThreads, clock, server, Advances
  <2>4. DataInv' /\ created \subseteq created' /\ Advances(m)
    BY <1>4, <2>2, <2>3 DEF CreateThread
  <2>. QED
    BY <1>1, <2>1, <2>4 DEF TurnPC
<1>5. CASE PersistThread(m)
  <2>1. pc[m] = "persist" /\ UNCHANGED <<threadsByChat, server, recycles, days>>
        /\ Goto(m, "message", thread[m])
    BY <1>5 DEF PersistThread
  <2>2. thread[m] \in created
    BY <1>1, <2>1 DEF MessageInv, KnownThreads
  <2>3. DataInv' /\ created' = created
    BY <1>1, <1>5, <2>1, <2>2, BoundsAssumption
       DEF PersistThread, DataInv, KnownThreads, server, ApiAnswers, ApiFails
  <2>4. Advances(m)
    BY <1>1, <2>1, <2>2, <2>3 DEF Advances, TurnPC, MessageInv
  <2>. QED
    BY <1>1, <2>1, <2>3, <2>4 DEF TurnPC
<1>6. CASE AddUserMessage(m)
  <2>1. pc[m] = "message" /\ UNCHANGED <<tiers, server, clock>>
        /\ (Goto(m, "run", thread[m]) \/ Answer(m))
    BY <1>6 DEF AddUserMessage
  <2>2. DataInv' /\ created' = created
    BY <1>1, <2>1 DEF DataInv, KnownThreads, tiers, server, clock
  <2>3. Advances(m)
    BY <1>1, <2>1, <2>2 DEF Advances, TurnPC, MessageInv, KnownThreads
  <2>. QED
    BY <1>1, <2>1, <2>2, <2>3 DEF TurnPC
<1>7. CASE Run(m)
  <2>1. pc[m] = "run" /\ UNCHANGED <<tiers, server, clock>> /\ Answer(m)
    BY <1>7 DEF Run
  <2>. QED
    BY <1>1, <2>1 DEF DataInv, KnownThreads, tiers, server, clock, Advances, TurnPC
<1>. QED
  BY <1>2, <1>3, <1>4, <1>5, <1>6, <1>7 DEF TurnNext

LEMMA ResetAdvances ==
  ASSUME TypeInv, NEW m \in Messages, ResetNext(m)
  PROVE  pc[m] \in Handled /\ Advances(m) /\ DataInv' /\ created \subseteq created'
<1>1. /\ MessageInv(m) /\ DataInv /\ ResetPC \subseteq Handled
      /\ pc[m] \in Handled => worker[m] \in Workers
  BY DEF TypeInv, DataInv, MessageInv, Handled
<1>2. CASE ResetRemoveCached(m)
  <2> DEFINE l1 == threadsByChat[worker[m]]
             next == IF l1 = None THEN "reset.lookup" ELSE "reset.mapping"
  <2>1. /\ pc[m] = "reset" /\ worker[m] \in Workers
        /\ Remember(worker[m], None) /\ UNCHANGED <<mapping, age, server, clock>>
        /\ Goto(m, next, l1)
    BY <1>1, <1>2 DEF ResetRemoveCached, ResetPC
  <2>2. DataInv' /\ created' = created
    BY <1>1, <2>1 DEF DataInv, KnownThreads, server, clock, Remember
  <2>3. l1 \in created' \cup {None}
    BY <1>1, <2>1, <2>2 DEF DataInv, KnownThreads
  <2>4. Advances(m)
    BY <2>1, <2>3 DEF Advances, ResetPC
  <2>. QED
    BY <1>1, <2>1, <2>2, <2>4 DEF ResetPC
<1>3. CASE ResetLookUp(m)
  <2>1. /\ pc[m] = "reset.lookup" /\ UNCHANGED <<tiers, server, recycles, days>>
        /\ (ApiAnswers \/ ApiFails)
        /\ Goto(m, "reset.mapping", mapping) \/ Goto(m, "reset.mapping", None)
    BY <1>3 DEF ResetLookUp
  <2>2. DataInv' /\ created' = created
    BY <1>1, <2>1 DEF DataInv, KnownThreads, server, tiers, ApiAnswers, ApiFails
  <2>3. Advances(m)
    BY <1>1, <2>1, <2>2 DEF Advances, ResetPC, DataInv, KnownThreads
  <2>. QED
    BY <1>1, <2>1, <2>2, <2>3 DEF ResetPC
<1>4. CASE ResetDeleteMapping(m)
  <2>1. /\ pc[m] = "reset.mapping" /\ UNCHANGED <<threadsByChat, age, server, days>>
        /\ mapping' \in {mapping, None} /\ (ApiAnswers \/ ApiFails)
        /\ \/ AnswerReset(m)
           \/ thread[m] # None /\ Goto(m, "reset.thread", thread[m])
    BY <1>4 DEF ResetDeleteMapping
  <2>2. DataInv' /\ created' = created
    BY <1>1, <2>1 DEF DataInv, KnownThreads, server, ApiAnswers, ApiFails
  <2>3. Advances(m)
    BY <1>1, <2>1, <2>2 DEF Advances, ResetPC, MessageInv, KnownThreads, AnswerReset
  <2>. QED
    BY <1>1, <2>1, <2>2, <2>3 DEF ResetPC
<1>5. CASE ResetDeleteThread(m)
  <2>1. /\ pc[m] = "reset.thread" /\ UNCHANGED <<tiers, created, clock>>
        /\ foundry' \subseteq foundry /\ Answer(m)
    BY <1>5 DEF ResetDeleteThread, AnswerReset
  <2>2. DataInv' /\ created' = created
    BY <1>1, <2>1 DEF DataInv, KnownThreads, tiers, clock
  <2>. QED
    BY <1>1, <2>1, <2>2 DEF Advances, ResetPC
<1>. QED
  BY <1>2, <1>3, <1>4, <1>5 DEF ResetNext

LEMMA DeliverKeepsTypes ==
  ASSUME TypeInv, NEW m \in Messages, Deliver(m)
  PROVE  TypeInv'
<1>1. PICK w \in Workers : worker' = [worker EXCEPT ![m] = w]
  BY DEF Deliver
<1>2. /\ pc[m] = "unsent" /\ pc' = [pc EXCEPT ![m] = "waiting"]
      /\ UNCHANGED <<kind, thread, gate, tiers, server, clock>>
  BY DEF Deliver
<1>3. ASSUME NEW v \in Messages
      PROVE  MessageInv(v)'
  <2>1. MessageInv(v)
    BY DEF TypeInv
  <2>2. CASE v = m
    BY <1>1, <1>2, <2>1, <2>2
       DEF TypeInv, MessageInv, KnownThreads, server, TurnPC, ResetPC, Handled
  <2>3. CASE v # m
    BY <1>1, <1>2, <2>1, <2>3 DEF TypeInv, MessageInv, KnownThreads, server
  <2>. QED
    BY <2>2, <2>3
<1>4. ASSUME NEW v \in Workers
      PROVE  GateInv(v)'
  <2>1. GateInv(v) /\ gate[v] \in Messages \cup {None} /\ gate[v] # m
    BY <1>2, NoneAssumption DEF TypeInv, GateInv, Handled, TurnPC, ResetPC
  <2>. QED
    BY <1>1, <1>2, <2>1 DEF TypeInv, GateInv
<1>. QED
  BY <1>1, <1>2, <1>3, <1>4 DEF TypeInv, KnownThreads, tiers, server, clock, PC

LEMMA EnterKeepsTypes ==
  ASSUME TypeInv, NEW m \in Messages, Enter(m)
  PROVE  TypeInv'
<1>1. /\ pc[m] = "waiting" /\ worker[m] \in Workers /\ gate[worker[m]] = None
      /\ gate' = [gate EXCEPT ![worker[m]] = m]
      /\ pc' = [pc EXCEPT ![m] = IF kind[m] = "reset" THEN "reset" ELSE "input"]
      /\ UNCHANGED <<kind, worker, thread, tiers, server, clock>>
  BY DEF Enter, TypeInv, MessageInv
<1>2. ASSUME NEW v \in Messages
      PROVE  MessageInv(v)'
  <2>1. MessageInv(v) /\ v # None
    BY NoneAssumption DEF TypeInv
  <2>2. CASE v = m
    BY <1>1, <2>1, <2>2
       DEF TypeInv, MessageInv, KnownThreads, server, TurnPC, ResetPC, Handled
  <2>3. CASE v # m
    BY <1>1, <2>1, <2>3 DEF TypeInv, MessageInv, KnownThreads, server
  <2>. QED
    BY <2>2, <2>3
<1>3. ASSUME NEW v \in Workers
      PROVE  GateInv(v)'
  <2>1. GateInv(v) /\ gate[v] \in Messages \cup {None}
    BY DEF TypeInv
  <2>2. CASE v = worker[m]
    BY <1>1, <2>1, <2>2 DEF TypeInv, GateInv, Handled, TurnPC, ResetPC
  <2>3. CASE v # worker[m]
    BY <1>1, <2>1, <2>3 DEF TypeInv, GateInv, Handled, TurnPC, ResetPC
  <2>. QED
    BY <2>2, <2>3
<1>. QED
  BY <1>1, <1>2, <1>3
     DEF TypeInv, KnownThreads, tiers, server, clock, PC, Handled, TurnPC, ResetPC

LEMMA RecycleKeepsTypes ==
  ASSUME TypeInv, NEW w \in Workers, Recycle(w)
  PROVE  TypeInv'
<1> DEFINE lost == {m \in Messages : worker[m] = w /\ pc[m] # "answered"}
<1>1. /\ Remember(w, None)
      /\ gate' = [gate EXCEPT ![w] = None]
      /\ pc' = [m \in Messages |-> IF m \in lost THEN "unsent" ELSE pc[m]]
      /\ worker' = [m \in Messages |-> IF m \in lost THEN None ELSE worker[m]]
      /\ thread' = [m \in Messages |-> IF m \in lost THEN None ELSE thread[m]]
      /\ UNCHANGED <<kind, mapping, age, server, failures, days>>
  BY DEF Recycle
<1>2. ASSUME NEW v \in Messages
      PROVE  MessageInv(v)'
  <2>1. MessageInv(v)
    BY DEF TypeInv
  <2>2. CASE v \in lost
    BY <1>1, <2>1, <2>2
       DEF TypeInv, MessageInv, KnownThreads, server, TurnPC, ResetPC, Handled
  <2>3. CASE v \notin lost
    <3>1. pc'[v] = pc[v] /\ worker'[v] = worker[v] /\ thread'[v] = thread[v]
      BY <1>1, <2>3
    <3>2. pc[v] \in Handled => worker[v] # w
      BY <2>3 DEF Handled, TurnPC, ResetPC
    <3>. QED
      BY <1>1, <2>1, <3>1, <3>2 DEF TypeInv, MessageInv, KnownThreads, server
  <2>. QED
    BY <2>2, <2>3
<1>3. ASSUME NEW v \in Workers
      PROVE  GateInv(v)'
  <2>1. GateInv(v) /\ gate[v] \in Messages \cup {None}
    BY DEF TypeInv
  <2>2. CASE v = w
    BY <1>1, <2>2 DEF TypeInv, GateInv
  <2>3. CASE v # w
    <3>1. gate'[v] = gate[v] /\ gate[v] \notin lost
      BY <1>1, <2>1, <2>3, NoneAssumption DEF TypeInv, GateInv
    <3>. QED
      BY <1>1, <2>1, <3>1 DEF GateInv
  <2>. QED
    BY <2>2, <2>3
<1>. QED
  BY <1>1, <1>2, <1>3 DEF TypeInv, KnownThreads, Remember, server, PC

LEMMA DayKeepsTypes ==
  ASSUME TypeInv, Day
  PROVE  TypeInv'
<1>1. /\ days' = days + 1 /\ mapping' \in {mapping, None}
      /\ age' = IF mapping = None \/ age + 1 = Ttl THEN 0 ELSE age + 1
      /\ UNCHANGED <<handling, threadsByChat, server, failures>>
  BY DEF Day
<1>2. age' \in Nat /\ age' < Ttl /\ days' \in Nat
  BY <1>1, BoundsAssumption DEF TypeInv
<1>. QED
  BY <1>1, <1>2 DEF TypeInv, MessageInv, GateInv, KnownThreads, handling, server

LEMMA NextKeepsTypes == TypeInv /\ [Next]_vars => TypeInv'
<1> SUFFICES ASSUME TypeInv, [Next]_vars
             PROVE  TypeInv'
  OBVIOUS
<1>1. CASE UNCHANGED vars
  BY <1>1 DEF TypeInv, MessageInv, GateInv, KnownThreads, vars, handling, tiers, server, clock
<1>2. ASSUME NEW m \in Messages, MessageNext(m)
      PROVE  TypeInv'
  <2>1. ASSUME TurnNext(m) \/ ResetNext(m)
        PROVE  TypeInv'
    BY <2>1, TurnAdvances, ResetAdvances, HandlerKeepsTypes
  <2>. QED
    BY <1>2, <2>1, DeliverKeepsTypes, EnterKeepsTypes DEF MessageNext
<1>. QED
  BY <1>1, <1>2, RecycleKeepsTypes, DayKeepsTypes DEF Next, Quiet

LEMMA TypeInvHolds == Spec => []TypeInv
BY TypeInvInit, NextKeepsTypes, PTL DEF Spec

\* The two lapses that the properties allow for, once there, stay.
LEMMA LapsesStay ==
  ASSUME [Next]_vars
  PROVE  /\ undeleted' \in {undeleted, TRUE}
         /\ split' = split \/ split' = TRUE \/ (split' = FALSE /\ ~ split)
<1>1. ASSUME NEW m \in Messages, Deliver(m)
      PROVE  /\ undeleted' = undeleted
             /\ split' = TRUE \/ (split' = FALSE /\ ~ split)
  BY <1>1 DEF Deliver
<1>2. ASSUME NEW m \in Messages, Enter(m) \/ TurnNext(m) \/ ResetNext(m)
      PROVE  undeleted' \in {undeleted, TRUE} /\ split' = split
  <2>1. CASE Enter(m)
    BY <2>1 DEF Enter, lapses
  <2>2. CASE TurnNext(m)
    BY <2>2 DEF TurnNext, BuildTurnInput, LookUpThread, CreateThread, PersistThread,
                AddUserMessage, Run, lapses
  <2>3. CASE ResetNext(m)
    BY <2>3 DEF ResetNext, ResetRemoveCached, ResetLookUp, ResetDeleteMapping,
                ResetDeleteThread, lapses
  <2>. QED
    BY <1>2, <2>1, <2>2, <2>3
<1>3. CASE (\E w \in Workers : Recycle(w)) \/ Day \/ UNCHANGED vars
  BY <1>3 DEF Recycle, Day, vars, lapses
<1>. QED
  BY <1>1, <1>2, <1>3 DEF Next, MessageNext, Quiet

\* No step of the environment records that a DELETE failed.
LEMMA EnvironmentLapses ==
  ASSUME \/ \E m \in Messages : Deliver(m) \/ Enter(m)
         \/ (\E w \in Workers : Recycle(w)) \/ Day \/ UNCHANGED vars
  PROVE  undeleted' = undeleted /\ (~ split' => ~ split)
<1>1. undeleted' = undeleted
  BY DEF Deliver, Enter, Recycle, Day, vars, lapses
<1>2. ASSUME NEW m \in Messages, Deliver(m)
      PROVE  ~ split' => ~ split
  BY <1>2, Zenon DEF Deliver
<1>3. CASE \/ (\E m \in Messages : Enter(m)) \/ (\E w \in Workers : Recycle(w))
           \/ Day \/ UNCHANGED vars
  <2>1. split' = split
    BY <1>3 DEF Enter, Recycle, Day, vars, lapses
  <2>. QED
    BY <1>1, <2>1
<1>. QED
  BY <1>1, <1>2, <1>3

LEMMA LapsesTypedHolds == Spec => []LapsesTyped
<1>1. Init => LapsesTyped
  BY DEF Init, LapsesTyped
<1>2. LapsesTyped /\ [Next]_vars => LapsesTyped'
  BY LapsesStay DEF LapsesTyped
<1>. QED
  BY <1>1, <1>2, PTL DEF Spec

\* The types, for any number of workers, messages, threads and days.
THEOREM TypeCorrect == Spec => []TypeOK
BY TypeInvHolds, LapsesTypedHolds, TypeInvImpliesTypeOK, PTL

-----------------------------------------------------------------------------
(* One worker at a time.  A chat that two workers have loses both           *)
(* properties: no reset reaches the cache of the other one.                 *)

Alone == \A v, w \in Workers : HasChat(v) /\ HasChat(w) => v = w

\* What `split` records: without it, at most one worker has the chat.
AloneInv == ~ split => Alone

NothingCached == \A w \in Workers : threadsByChat[w] = None

\* The handlers run one at a time, and no other worker has cached a thread.
LEMMA OneAtATime ==
  ASSUME TypeInv, Alone, NEW m \in Messages, pc[m] \in Handled
  PROVE  /\ worker[m] \in Workers
         /\ \A v \in Messages : pc[v] \in Handled => v = m
         /\ \A w \in Workers : w # worker[m] => threadsByChat[w] = None
<1>1. "unsent" \notin Handled /\ "answered" \notin Handled
  BY DEF Handled, TurnPC, ResetPC
<1>2. ASSUME NEW v \in Messages, pc[v] \in Handled
      PROVE  /\ worker[v] \in Workers /\ gate[worker[v]] = v
             /\ HasChat(worker[v])
  BY <1>1, <1>2 DEF TypeInv, MessageInv, HasChat
<1>3. worker[m] \in Workers /\ HasChat(worker[m])
  BY <1>2
<1>4. ASSUME NEW v \in Messages, pc[v] \in Handled
      PROVE  v = m
  <2>1. worker[v] = worker[m]
    BY <1>2, <1>3, <1>4 DEF Alone
  <2>. QED
    BY <1>2, <1>4, <2>1
<1>5. ASSUME NEW w \in Workers, w # worker[m]
      PROVE  threadsByChat[w] = None
  BY <1>3, <1>5 DEF Alone, HasChat
<1>. QED
  BY <1>3, <1>4, <1>5

\* A handler writes L1 on its own worker only.
LEMMA HandlerCaches ==
  ASSUME NEW m \in Messages, TurnNext(m) \/ ResetNext(m)
  PROVE  threadsByChat' = threadsByChat \/ \E t : Remember(worker[m], t)
<1>1. CASE TurnNext(m)
  BY <1>1 DEF TurnNext, BuildTurnInput, LookUpThread, CreateThread, PersistThread,
              AddUserMessage, Run, tiers
<1>2. CASE ResetNext(m)
  BY <1>2 DEF ResetNext, ResetRemoveCached, ResetLookUp, ResetDeleteMapping,
              ResetDeleteThread, tiers
<1>. QED
  BY <1>1, <1>2

LEMMA NextKeepsAlone ==
  ASSUME TypeInv, AloneInv, [Next]_vars
  PROVE  AloneInv'
<1> SUFFICES ASSUME ~ split'
             PROVE  Alone'
  BY DEF AloneInv
<1>1. Alone
  BY LapsesStay DEF AloneInv
<1>2. ASSUME \A w \in Workers : HasChat(w)' => HasChat(w)
      PROVE  Alone'
  BY <1>1, <1>2 DEF Alone
<1>3. ASSUME NEW m \in Messages, TurnNext(m) \/ ResetNext(m)
      PROVE  Alone'
  <2>1. /\ pc[m] \in Handled /\ worker' = worker
        /\ \A v \in Messages : v # m => pc'[v] = pc[v]
    <3>1. pc[m] \in Handled /\ Advances(m)
      BY <1>3, TurnAdvances, ResetAdvances
    <3>. QED
      BY <3>1 DEF Advances, Answer, Goto, TypeInv
  <2>2. HasChat(worker[m])
    BY <2>1 DEF HasChat, Handled, TurnPC, ResetPC
  <2>3. \A w \in Workers : w # worker[m] => threadsByChat'[w] = threadsByChat[w]
    BY <1>3, HandlerCaches DEF Remember, TypeInv
  <2>4. ASSUME NEW w \in Workers, HasChat(w)', w # worker[m]
        PROVE  HasChat(w)
    BY <2>1, <2>3, <2>4 DEF HasChat
  <2>. QED
    BY <1>2, <2>2, <2>4
<1>4. ASSUME NEW m \in Messages, Enter(m)
      PROVE  Alone'
  <2>1. /\ pc[m] = "waiting" /\ worker' = worker /\ threadsByChat' = threadsByChat
        /\ \A v \in Messages : v # m => pc'[v] = pc[v]
    BY <1>4 DEF Enter, tiers
  <2>2. \A w \in Workers : HasChat(w)' => HasChat(w)
    BY <2>1 DEF HasChat
  <2>. QED
    BY <1>2, <2>2
<1>5. ASSUME NEW u \in Workers, Recycle(u)
      PROVE  Alone'
  <2>1. /\ threadsByChat' = [threadsByChat EXCEPT ![u] = None]
        /\ \A v \in Messages : pc'[v] = "unsent" \/ (pc'[v] = pc[v] /\ worker'[v] = worker[v])
    BY <1>5 DEF Recycle, Remember
  <2>2. \A w \in Workers : threadsByChat'[w] # None => threadsByChat[w] # None
    BY <2>1 DEF TypeInv
  <2>3. \A w \in Workers : HasChat(w)' => HasChat(w)
    BY <2>1, <2>2 DEF HasChat
  <2>. QED
    BY <1>2, <2>3
<1>6. CASE Day \/ UNCHANGED vars
  <2>1. UNCHANGED <<pc, worker, threadsByChat>>
    BY <1>6 DEF Day, vars, handling, tiers
  <2>2. \A w \in Workers : HasChat(w)' => HasChat(w)
    BY <2>1 DEF HasChat
  <2>. QED
    BY <1>2, <2>2
<1>7. ASSUME NEW m \in Messages, Deliver(m)
      PROVE  Alone'
  <2>1. PICK w \in Workers : /\ worker' = [worker EXCEPT ![m] = w]
                             /\ split' = (split \/ \E v \in Workers \ {w} : HasChat(v))
    BY <1>7 DEF Deliver
  <2>2. \A v \in Workers : v # w => ~ HasChat(v)
    BY <2>1
  <2>3. /\ threadsByChat' = threadsByChat /\ pc' = [pc EXCEPT ![m] = "waiting"]
    BY <1>7 DEF Deliver, tiers
  <2>4. ASSUME NEW v \in Workers, HasChat(v)'
        PROVE  v = w
    <3>1. CASE threadsByChat'[v] # None
      BY <2>2, <2>3, <3>1 DEF HasChat
    <3>2. ASSUME NEW x \in Messages, worker'[x] = v, pc'[x] \notin {"unsent", "answered"}
          PROVE  v = w
      <4>1. CASE x = m
        BY <2>1, <3>2, <4>1 DEF TypeInv
      <4>2. CASE x # m
        BY <2>1, <2>2, <2>3, <3>2, <4>2 DEF TypeInv, HasChat
      <4>. QED
        BY <4>1, <4>2
    <3>. QED
      BY <2>4, <3>1, <3>2 DEF HasChat
  <2>. QED
    BY <2>4 DEF Alone
<1>. QED
  BY <1>3, <1>4, <1>5, <1>6, <1>7 DEF Next, MessageNext, Quiet

LEMMA AloneInvHolds == Spec => []AloneInv
<1>1. Init => AloneInv
  BY DEF Init, AloneInv, Alone, HasChat
<1>2. TypeInv /\ AloneInv /\ [Next]_vars => AloneInv'
  BY NextKeepsAlone
<1>. QED
  BY <1>1, <1>2, TypeInvHolds, PTL DEF Spec

(* /nuevo is final.                                                         *)

\* Neither tier names a thread that is deleted or was forgotten.
TiersAreAlive ==
    /\ mapping \in (foundry \ forgotten) \cup {None}
    /\ \A w \in Workers : threadsByChat[w] \in (foundry \ forgotten) \cup {None}
    /\ forgotten \subseteq spoken /\ spoken \subseteq created
    /\ seen \in [Messages -> SUBSET Threads]

\* What a message works with is not forgotten, a reset empties L1 first and L2
\* before it deletes the thread.
MessageIsCurrent(m) ==
    /\ kind[m] = "turn" => seen[m] \subseteq forgotten /\ thread[m] \notin seen[m]
    /\ kind[m] = "reset" => seen[m] \subseteq spoken
    /\ pc[m] \in TurnPC => thread[m] \notin forgotten
    /\ pc[m] = "persist" => thread[m] \in foundry
    /\ pc[m] \in ResetPC \ {"reset"} => NothingCached
    /\ pc[m] = "reset.thread" => mapping = None

\* The inductive invariant behind ResetIsFinal.
FinalInv ==
    ~ undeleted /\ ~ split => TiersAreAlive /\ \A m \in Messages : MessageIsCurrent(m)

LEMMA FinalInvInit ==
  ASSUME Init
  PROVE  FinalInv
BY NoneAssumption
   DEF Init, FinalInv, TiersAreAlive, MessageIsCurrent, TurnPC, ResetPC

LEMMA FinalInvSuffices ==
  ASSUME FinalInv
  PROVE  ResetIsFinal
<1> SUFFICES ASSUME ~ undeleted, ~ split
             PROVE  NoDeadThread /\ ResetForgets
  BY DEF ResetIsFinal
<1>1. TiersAreAlive /\ \A m \in Messages : MessageIsCurrent(m)
  BY DEF FinalInv
<1>2. NoDeadThread
  BY <1>1 DEF NoDeadThread, TiersAreAlive
<1>3. ResetForgets
  BY <1>1 DEF ResetForgets, MessageIsCurrent
<1>. QED
  BY <1>2, <1>3

\* A step of m's handler only needs to be looked at for the tiers and for m.
LEMMA HandlerKeepsFinal ==
  ASSUME TypeInv, Alone, FinalInv, ~ undeleted, ~ split,
         NEW m \in Messages, pc[m] \in Handled, Advances(m),
         seen' = seen, forgotten \subseteq forgotten', spoken \subseteq spoken',
         TiersAreAlive', MessageIsCurrent(m)'
  PROVE  FinalInv'
<1>1. ASSUME NEW v \in Messages, v # m
      PROVE  MessageIsCurrent(v)'
  <2>1. MessageIsCurrent(v)
    BY DEF FinalInv
  <2>2. pc[v] \notin Handled
    BY <1>1, OneAtATime
  <2>3. pc'[v] = pc[v] /\ thread'[v] = thread[v] /\ kind' = kind
    BY <1>1 DEF Advances, Answer, Goto, TypeInv
  <2>. QED
    BY <2>1, <2>2, <2>3 DEF MessageIsCurrent, Handled, TurnPC, ResetPC
<1>. QED
  BY <1>1 DEF FinalInv

\* What is known when m is handled.
LEMMA Handling ==
  ASSUME TypeInv, Alone, FinalInv, ~ undeleted, ~ split,
         NEW m \in Messages, pc[m] \in Handled
  PROVE  /\ worker[m] \in Workers /\ TiersAreAlive /\ MessageIsCurrent(m) /\ MessageInv(m)
         /\ created \subseteq Threads /\ foundry \subseteq created
         /\ threadsByChat \in [Workers -> Threads \cup {None}]
         /\ None \notin created /\ seen[m] \subseteq created
BY OneAtATime, NoneAssumption DEF TypeInv, FinalInv, TiersAreAlive, MessageIsCurrent

LEMMA TurnKeepsFinal ==
  ASSUME TypeInv, Alone, FinalInv, ~ undeleted', ~ split',
         NEW m \in Messages, TurnNext(m)
  PROVE  FinalInv'
<1>1. pc[m] \in Handled /\ Advances(m) /\ kind[m] = "turn"
  BY TurnAdvances
     DEF TypeInv, MessageInv, TurnNext, BuildTurnInput, LookUpThread, CreateThread,
         PersistThread, AddUserMessage, Run, TurnPC
<1>2. ~ undeleted /\ ~ split
  BY DEF TurnNext, BuildTurnInput, LookUpThread, CreateThread, PersistThread,
         AddUserMessage, Run, lapses
<1>3. /\ worker[m] \in Workers /\ TiersAreAlive /\ MessageIsCurrent(m) /\ MessageInv(m)
      /\ created \subseteq Threads /\ foundry \subseteq created
      /\ threadsByChat \in [Workers -> Threads \cup {None}]
      /\ None \notin created /\ seen[m] \subseteq created
  BY <1>1, <1>2, Handling
<1>4. \A f, x : f \in [Messages -> PC] => [f EXCEPT ![m] = x][m] = x
  OBVIOUS
<1>5. \A x : [thread EXCEPT ![m] = x][m] = x
  BY DEF TypeInv
<1>6. ASSUME seen' = seen, forgotten' = forgotten, spoken \subseteq spoken',
             TiersAreAlive', MessageIsCurrent(m)'
      PROVE  FinalInv'
  BY <1>1, <1>2, <1>6, HandlerKeepsFinal
<1>7. ASSUME Answer(m), forgotten' = forgotten, spoken' = spoken, seen' = seen
      PROVE  MessageIsCurrent(m)'
  BY <1>1, <1>3, <1>4, <1>7
     DEF TypeInv, Answer, MessageIsCurrent, TurnPC, ResetPC
<1>8. ASSUME NEW next \in TurnPC, NEW t, Goto(m, next, t),
             forgotten' = forgotten, seen' = seen,
             t \notin forgotten, next = "persist" => t \in foundry'
      PROVE  MessageIsCurrent(m)'
  <2>1. pc'[m] = next /\ thread'[m] = t /\ kind' = kind
    BY <1>4, <1>5, <1>8 DEF Goto, TypeInv
  <2>. QED
    BY <1>1, <1>3, <1>8, <2>1 DEF MessageIsCurrent, TurnPC, ResetPC
<1>9. None \notin forgotten
  BY <1>3 DEF TiersAreAlive
<1>10. CASE BuildTurnInput(m)
  <2>1. UNCHANGED <<tiers, server, clock, history>>
    BY <1>10 DEF BuildTurnInput
  <2>2. TiersAreAlive'
    BY <1>3, <2>1 DEF TiersAreAlive, tiers, server, history
  <2>3. MessageIsCurrent(m)'
    BY <1>3, <1>7, <1>8, <1>9, <1>10, <2>1
       DEF BuildTurnInput, TiersAreAlive, history, TurnPC
  <2>. QED
    BY <1>6, <2>1, <2>2, <2>3 DEF history
<1>11. CASE LookUpThread(m)
  <2>1. UNCHANGED <<mapping, age, server, history>>
    BY <1>11 DEF LookUpThread
  <2>2. TiersAreAlive'
    BY <1>3, <1>11, <2>1 DEF LookUpThread, TiersAreAlive, server, history, Remember
  <2>3. MessageIsCurrent(m)'
    BY <1>3, <1>8, <1>9, <1>11, <2>1
       DEF LookUpThread, TiersAreAlive, history, server, TurnPC
  <2>. QED
    BY <1>6, <2>1, <2>2, <2>3 DEF history
<1>12. CASE CreateThread(m)
  <2>1. UNCHANGED <<mapping, age, clock, history>>
    BY <1>12 DEF CreateThread
  <2>2. ASSUME NEW t \in Threads \ created,
               created' = created \cup {t}, foundry' = foundry \cup {t},
               Remember(worker[m], t), Goto(m, "persist", t)
        PROVE  TiersAreAlive' /\ MessageIsCurrent(m)'
    <3>1. t \notin forgotten
      BY <1>3 DEF TiersAreAlive
    <3>2. TiersAreAlive'
      BY <1>3, <2>1, <2>2, <3>1 DEF TiersAreAlive, history, Remember
    <3>. QED
      BY <1>8, <2>1, <2>2, <3>1, <3>2 DEF history, TurnPC
  <2>3. ASSUME Answer(m), UNCHANGED <<server, threadsByChat>>
        PROVE  TiersAreAlive' /\ MessageIsCurrent(m)'
    BY <1>3, <1>7, <2>1, <2>3 DEF TiersAreAlive, history, server
  <2>. QED
    BY <1>6, <1>12, <2>1, <2>2, <2>3 DEF history, CreateThread
<1>13. CASE PersistThread(m)
  <2>1. /\ UNCHANGED <<threadsByChat, server, history>>
        /\ mapping' \in {mapping, thread[m]} /\ Goto(m, "message", thread[m])
        /\ pc[m] = "persist"
    BY <1>13 DEF PersistThread
  <2>2. TiersAreAlive'
    BY <1>3, <2>1 DEF TiersAreAlive, MessageIsCurrent, server, history, TurnPC
  <2>3. MessageIsCurrent(m)'
    BY <1>3, <1>8, <2>1 DEF MessageIsCurrent, history, TurnPC
  <2>. QED
    BY <1>6, <2>1, <2>2, <2>3 DEF history
<1>14. CASE AddUserMessage(m)
  <2>1. UNCHANGED <<tiers, server>> /\ pc[m] = "message"
    BY <1>14 DEF AddUserMessage
  <2>2. CASE /\ Goto(m, "run", thread[m]) /\ spoken' = spoken \cup {thread[m]}
             /\ thread[m] \in foundry /\ UNCHANGED <<forgotten, seen>>
    <3>1. TiersAreAlive'
      BY <1>3, <2>1, <2>2 DEF TiersAreAlive, tiers, server
    <3>2. MessageIsCurrent(m)'
      BY <1>3, <1>8, <2>1, <2>2 DEF MessageIsCurrent, TurnPC
    <3>. QED
      BY <1>6, <2>2, <3>1, <3>2
  <2>3. CASE Answer(m) /\ UNCHANGED history
    <3>1. TiersAreAlive'
      BY <1>3, <2>1, <2>3 DEF TiersAreAlive, tiers, server, history
    <3>. QED
      BY <1>6, <1>7, <2>3, <3>1 DEF history
  <2>. QED
    BY <1>14, <2>2, <2>3 DEF AddUserMessage
<1>15. CASE Run(m)
  <2>1. UNCHANGED <<tiers, server, history>> /\ Answer(m)
    BY <1>15 DEF Run
  <2>2. TiersAreAlive'
    BY <1>3, <2>1 DEF TiersAreAlive, tiers, server, history
  <2>. QED
    BY <1>6, <1>7, <2>1, <2>2 DEF history
<1>. QED
  BY <1>10, <1>11, <1>12, <1>13, <1>14, <1>15 DEF TurnNext

LEMMA ResetKeepsFinal ==
  ASSUME TypeInv, Alone, FinalInv, ~ undeleted', ~ split',
         NEW m \in Messages, ResetNext(m)
  PROVE  FinalInv'
<1>1. pc[m] \in Handled /\ Advances(m) /\ kind[m] = "reset"
  BY ResetAdvances
     DEF TypeInv, MessageInv, ResetNext, ResetRemoveCached, ResetLookUp,
         ResetDeleteMapping, ResetDeleteThread, ResetPC
<1>2. ~ undeleted /\ ~ split
  BY DEF ResetNext, ResetRemoveCached, ResetLookUp, ResetDeleteMapping,
         ResetDeleteThread, lapses
<1>3. /\ worker[m] \in Workers /\ TiersAreAlive /\ MessageIsCurrent(m) /\ MessageInv(m)
      /\ created \subseteq Threads /\ foundry \subseteq created
      /\ threadsByChat \in [Workers -> Threads \cup {None}]
      /\ None \notin created /\ seen[m] \subseteq created
  BY <1>1, <1>2, Handling
<1>4. /\ \A x : [pc EXCEPT ![m] = x][m] = x
      /\ \A x : [thread EXCEPT ![m] = x][m] = x
  BY DEF TypeInv
<1>5. ASSUME seen' = seen, forgotten \subseteq forgotten', spoken \subseteq spoken',
             TiersAreAlive', MessageIsCurrent(m)'
      PROVE  FinalInv'
  BY <1>1, <1>2, <1>5, HandlerKeepsFinal
<1>6. ASSUME AnswerReset(m)
      PROVE  MessageIsCurrent(m)'
  <2>1. pc'[m] = "answered" /\ kind' = kind /\ seen' = seen /\ spoken' = spoken
    BY <1>4, <1>6 DEF AnswerReset, Answer
  <2>. QED
    BY <1>1, <1>3, <2>1 DEF MessageIsCurrent, TurnPC, ResetPC
<1>7. ASSUME NEW next \in ResetPC, NEW t, Goto(m, next, t), UNCHANGED <<spoken, seen>>,
             NothingCached', next = "reset.thread" => mapping' = None
      PROVE  MessageIsCurrent(m)'
  <2>1. pc'[m] = next /\ kind' = kind
    BY <1>4, <1>7 DEF Goto
  <2>. QED
    BY <1>1, <1>3, <1>7, <2>1 DEF MessageIsCurrent, TurnPC, ResetPC
<1>8. CASE ResetRemoveCached(m)
  <2>1. /\ UNCHANGED <<mapping, server, spoken, forgotten, seen>>
        /\ threadsByChat' = [threadsByChat EXCEPT ![worker[m]] = None]
        /\ \E next \in {"reset.lookup", "reset.mapping"} : \E t : Goto(m, next, t)
    BY <1>3, <1>8 DEF ResetRemoveCached, Remember
  <2>2. NothingCached'
    BY <1>1, <1>3, <2>1, OneAtATime DEF NothingCached
  <2>3. TiersAreAlive'
    BY <1>3, <2>1, <2>2 DEF TiersAreAlive, NothingCached, server
  <2>4. MessageIsCurrent(m)'
    BY <1>7, <2>1, <2>2 DEF ResetPC
  <2>. QED
    BY <1>5, <2>1, <2>3, <2>4
<1>9. CASE ResetLookUp(m)
  <2>1. /\ UNCHANGED <<tiers, server, history>> /\ pc[m] = "reset.lookup"
        /\ \E t : Goto(m, "reset.mapping", t)
    BY <1>9 DEF ResetLookUp
  <2>2. NothingCached'
    BY <1>3, <2>1 DEF tiers, MessageIsCurrent, NothingCached, ResetPC
  <2>3. TiersAreAlive'
    BY <1>3, <2>1 DEF TiersAreAlive, tiers, server, history
  <2>4. MessageIsCurrent(m)'
    BY <1>7, <2>1, <2>2 DEF ResetPC, history
  <2>. QED
    BY <1>5, <2>1, <2>3, <2>4 DEF history
<1>10. CASE ResetDeleteMapping(m)
  <2>1. /\ UNCHANGED <<threadsByChat, server>> /\ pc[m] = "reset.mapping"
        /\ mapping' = None
        /\ \/ AnswerReset(m)
           \/ Goto(m, "reset.thread", thread[m]) /\ UNCHANGED history
    BY <1>10 DEF ResetDeleteMapping
  <2>2. NothingCached'
    BY <1>3, <2>1 DEF MessageIsCurrent, NothingCached, ResetPC
  <2>3. CASE AnswerReset(m)
    <3>1. TiersAreAlive'
      BY <1>1, <1>3, <2>1, <2>2, <2>3
         DEF TiersAreAlive, MessageIsCurrent, NothingCached, server, AnswerReset
    <3>. QED
      BY <1>5, <1>6, <2>3, <3>1 DEF AnswerReset
  <2>4. CASE Goto(m, "reset.thread", thread[m]) /\ UNCHANGED history
    <3>1. TiersAreAlive'
      BY <1>3, <2>1, <2>2, <2>4 DEF TiersAreAlive, NothingCached, server, history
    <3>. QED
      BY <1>5, <1>7, <2>1, <2>2, <2>4, <3>1 DEF history, ResetPC
  <2>. QED
    BY <2>1, <2>3, <2>4
<1>11. CASE ResetDeleteThread(m)
  <2>1. /\ UNCHANGED <<tiers, created, clock>> /\ pc[m] = "reset.thread" /\ AnswerReset(m)
    BY <1>11 DEF ResetDeleteThread
  <2>2. NothingCached' /\ mapping' = None
    BY <1>3, <2>1 DEF MessageIsCurrent, NothingCached, ResetPC, tiers
  <2>3. TiersAreAlive'
    BY <1>1, <1>3, <2>1, <2>2 DEF TiersAreAlive, MessageIsCurrent, NothingCached, AnswerReset
  <2>. QED
    BY <1>5, <1>6, <2>1, <2>3 DEF AnswerReset
<1>. QED
  BY <1>8, <1>9, <1>10, <1>11 DEF ResetNext

LEMMA EnvironmentKeepsFinal ==
  ASSUME TypeInv, Alone, FinalInv, ~ undeleted', ~ split',
         \/ \E m \in Messages : Deliver(m) \/ Enter(m)
         \/ (\E w \in Workers : Recycle(w)) \/ Day \/ UNCHANGED vars
  PROVE  FinalInv'
<1>1. ~ undeleted /\ ~ split /\ TiersAreAlive
  BY EnvironmentLapses DEF FinalInv
<1>2. \A v \in Messages : MessageIsCurrent(v) /\ MessageInv(v)
  BY <1>1 DEF FinalInv, TypeInv
<1>3. None \notin created /\ None \notin forgotten /\ created \subseteq Threads
  BY <1>1, NoneAssumption DEF TypeInv, TiersAreAlive
<1>4. ASSUME NEW m \in Messages, Deliver(m)
      PROVE  FinalInv'
  <2>1. /\ pc[m] = "unsent" /\ pc' = [pc EXCEPT ![m] = "waiting"]
        /\ seen' = [seen EXCEPT ![m] = IF kind[m] = "reset" THEN spoken ELSE forgotten]
        /\ UNCHANGED <<kind, thread, tiers, server, spoken, forgotten>>
    BY <1>4 DEF Deliver
  <2>2. TiersAreAlive'
    BY <1>1, <1>3, <2>1 DEF TiersAreAlive, tiers, server
  <2>3. ASSUME NEW v \in Messages
        PROVE  MessageIsCurrent(v)'
    <3>1. CASE v = m
      <4>1. /\ pc'[m] = "waiting" /\ thread'[m] = None
            /\ seen'[m] = IF kind[m] = "reset" THEN spoken ELSE forgotten
        BY <1>1, <1>2, <2>1 DEF TypeInv, MessageInv, TiersAreAlive
      <4>. QED
        BY <1>3, <2>1, <3>1, <4>1 DEF MessageIsCurrent, TurnPC, ResetPC
    <3>2. CASE v # m
      <4>1. pc'[v] = pc[v] /\ seen'[v] = seen[v]
        BY <1>1, <2>1, <3>2 DEF TypeInv, TiersAreAlive
      <4>. QED
        BY <1>2, <2>1, <4>1 DEF MessageIsCurrent, NothingCached, tiers, server
    <3>. QED
      BY <3>1, <3>2
  <2>. QED
    BY <2>2, <2>3 DEF FinalInv
<1>5. ASSUME NEW m \in Messages, Enter(m)
      PROVE  FinalInv'
  <2>1. /\ pc[m] = "waiting"
        /\ pc' = [pc EXCEPT ![m] = IF kind[m] = "reset" THEN "reset" ELSE "input"]
        /\ UNCHANGED <<kind, thread, tiers, server, history>>
    BY <1>5 DEF Enter
  <2>2. TiersAreAlive'
    BY <1>1, <2>1 DEF TiersAreAlive, tiers, server, history
  <2>3. ASSUME NEW v \in Messages
        PROVE  MessageIsCurrent(v)'
    <3>1. CASE v = m
      <4>1. thread[m] = None /\ pc'[m] \in {"reset", "input"}
        BY <1>2, <2>1 DEF TypeInv, MessageInv
      <4>. QED
        BY <1>2, <1>3, <2>1, <3>1, <4>1 DEF MessageIsCurrent, TurnPC, ResetPC, history
    <3>2. CASE v # m
      <4>1. pc'[v] = pc[v]
        BY <2>1, <3>2 DEF TypeInv
      <4>. QED
        BY <1>2, <2>1, <4>1 DEF MessageIsCurrent, NothingCached, tiers, server, history
    <3>. QED
      BY <3>1, <3>2
  <2>. QED
    BY <2>2, <2>3 DEF FinalInv
<1>6. ASSUME NEW w \in Workers, Recycle(w)
      PROVE  FinalInv'
  <2> DEFINE lost == {m \in Messages : worker[m] = w /\ pc[m] # "answered"}
  <2>1. /\ threadsByChat' = [threadsByChat EXCEPT ![w] = None]
        /\ pc' = [m \in Messages |-> IF m \in lost THEN "unsent" ELSE pc[m]]
        /\ thread' = [m \in Messages |-> IF m \in lost THEN None ELSE thread[m]]
        /\ UNCHANGED <<kind, mapping, server, history>>
    BY <1>6 DEF Recycle, Remember
  <2>2. \A u \in Workers : threadsByChat'[u] \in {None, threadsByChat[u]}
    BY <2>1 DEF TypeInv
  <2>3. TiersAreAlive'
    BY <1>1, <2>1, <2>2 DEF TiersAreAlive, server, history
  <2>4. ASSUME NEW v \in Messages
        PROVE  MessageIsCurrent(v)'
    <3>1. CASE v \in lost
      <4>1. pc'[v] = "unsent" /\ thread'[v] = None
        BY <2>1, <3>1
      <4>. QED
        BY <1>1, <1>2, <1>3, <2>1, <4>1
           DEF MessageIsCurrent, TiersAreAlive, TurnPC, ResetPC, history
    <3>2. CASE v \notin lost
      <4>1. pc'[v] = pc[v] /\ thread'[v] = thread[v]
        BY <2>1, <3>2
      <4>. QED
        BY <1>2, <2>1, <2>2, <4>1 DEF MessageIsCurrent, NothingCached, server, history
    <3>. QED
      BY <3>1, <3>2
  <2>. QED
    BY <2>3, <2>4 DEF FinalInv
<1>7. CASE Day
  <2>1. mapping' \in {mapping, None} /\ UNCHANGED <<handling, threadsByChat, server, history>>
    BY <1>7 DEF Day
  <2>2. TiersAreAlive'
    BY <1>1, <2>1 DEF TiersAreAlive, server, history
  <2>3. \A v \in Messages : MessageIsCurrent(v)'
    BY <1>2, <2>1 DEF MessageIsCurrent, NothingCached, handling, server, history
  <2>. QED
    BY <2>2, <2>3 DEF FinalInv
<1>8. CASE UNCHANGED vars
  BY <1>1, <1>2, <1>8
     DEF FinalInv, TiersAreAlive, MessageIsCurrent, NothingCached, vars, handling, tiers,
         server, history
<1>. QED
  BY <1>4, <1>5, <1>6, <1>7, <1>8

LEMMA NextKeepsFinal ==
  ASSUME TypeInv, AloneInv, FinalInv, [Next]_vars
  PROVE  FinalInv'
<1> SUFFICES ASSUME ~ undeleted', ~ split'
             PROVE  FinalInv'
  BY DEF FinalInv
<1>1. Alone
  BY LapsesStay DEF AloneInv
<1>. QED
  BY <1>1, TurnKeepsFinal, ResetKeepsFinal, EnvironmentKeepsFinal DEF Next, MessageNext, Quiet

\* A reset is final for any number of workers, messages, threads, recyclings, days
\* and failing calls, unless its DELETE of the mapping failed or two workers had
\* the chat at a time.
THEOREM ResetIsFinalHolds == Spec => []ResetIsFinal
<1>1. Init => FinalInv
  BY FinalInvInit
<1>2. TypeInv /\ AloneInv /\ FinalInv /\ [Next]_vars => FinalInv'
  BY NextKeepsFinal
<1>3. FinalInv => ResetIsFinal
  BY FinalInvSuffices
<1>. QED
  BY <1>1, <1>2, <1>3, TypeInvHolds, AloneInvHolds, PTL DEF Spec

-----------------------------------------------------------------------------
(* The conversation is kept.                                                *)

\* The mapping is fresh, it names the thread of the conversation, and L1 agrees
\* with it unless the mapping is about to be written.
TiersAgree ==
    /\ age <= days
    /\ context \in {None, mapping}
    /\ \/ \A w \in Workers : threadsByChat[w] \in {None, mapping}
       \/ \E m \in Messages : pc[m] = "persist"

\* A handler creates a thread only when there is no mapping, and a message goes
\* into the mapped thread; a reset deletes the mapping after L1 and the context.
MessageIsKept(m) ==
    /\ pc[m] \in {"lookup", "create"} => NothingCached
    /\ pc[m] = "create" => mapping = None
    /\ pc[m] = "persist" =>
         threadsByChat[worker[m]] = thread[m] /\ mapping \in {None, thread[m]}
    /\ pc[m] = "message" => mapping = thread[m]
    /\ pc[m] \in ResetPC \ {"reset"} => NothingCached /\ context = None

\* The inductive invariant behind ConversationKept.
KeptInv ==
    failures = 0 /\ ~ split /\ days < Ttl =>
        TiersAgree /\ \A m \in Messages : MessageIsKept(m)

LEMMA KeptInvInit ==
  ASSUME Init
  PROVE  KeptInv
BY BoundsAssumption DEF Init, KeptInv, TiersAgree, MessageIsKept, TurnPC, ResetPC

\* A step of m's handler only needs to be looked at for the tiers and for m.
LEMMA HandlerKeepsContext ==
  ASSUME TypeInv, Alone,
         NEW m \in Messages, pc[m] \in Handled, Advances(m),
         TiersAgree', MessageIsKept(m)'
  PROVE  KeptInv'
<1>1. ASSUME NEW v \in Messages, v # m
      PROVE  MessageIsKept(v)'
  <2>1. pc[v] \notin Handled
    BY <1>1, OneAtATime
  <2>2. pc'[v] = pc[v]
    BY <1>1 DEF Advances, Answer, Goto, TypeInv
  <2>. QED
    BY <2>1, <2>2 DEF MessageIsKept, Handled, TurnPC, ResetPC
<1>. QED
  BY <1>1 DEF KeptInv

\* What is known when m is handled.
LEMMA HandlingKept ==
  ASSUME TypeInv, Alone, KeptInv, failures = 0, ~ split, days < Ttl,
         NEW m \in Messages, pc[m] \in Handled
  PROVE  /\ worker[m] \in Workers /\ MessageIsKept(m) /\ MessageInv(m)
         /\ age <= days /\ age \in Nat /\ days \in Nat /\ context \in {None, mapping}
         /\ pc[m] # "persist" => \A w \in Workers : threadsByChat[w] \in {None, mapping}
         /\ threadsByChat \in [Workers -> Threads \cup {None}]
<1>1. \A v \in Messages : pc[v] = "persist" => v = m
  BY OneAtATime DEF Handled, TurnPC
<1>. QED
  BY <1>1, OneAtATime DEF TypeInv, KeptInv, TiersAgree

LEMMA TurnKeepsContext ==
  ASSUME TypeInv, Alone, KeptInv, failures' = 0, ~ split', days' < Ttl,
         NEW m \in Messages, TurnNext(m)
  PROVE  KeptInv' /\ (context # None => context' = context)
<1>1. pc[m] \in Handled /\ Advances(m)
  BY TurnAdvances
<1>2. failures = 0 /\ ~ split /\ ~ ApiFails /\ days' = days
  BY DEF TypeInv, TurnNext, BuildTurnInput, LookUpThread, CreateThread, PersistThread,
         AddUserMessage, Run, ApiAnswers, ApiFails, clock, lapses
<1>3. /\ worker[m] \in Workers /\ MessageIsKept(m) /\ MessageInv(m)
      /\ age <= days /\ age \in Nat /\ days \in Nat /\ context \in {None, mapping}
      /\ pc[m] # "persist" => \A w \in Workers : threadsByChat[w] \in {None, mapping}
      /\ threadsByChat \in [Workers -> Threads \cup {None}]
  BY <1>1, <1>2, HandlingKept
<1>4. ASSUME TiersAgree', MessageIsKept(m)'
      PROVE  KeptInv'
  BY <1>1, <1>4, HandlerKeepsContext
<1>5. /\ \A x : [pc EXCEPT ![m] = x][m] = x
      /\ \A x : [thread EXCEPT ![m] = x][m] = x
      /\ \A x : Remember(worker[m], x) =>
             /\ threadsByChat'[worker[m]] = x
             /\ \A w \in Workers : threadsByChat'[w] \in {x, threadsByChat[w]}
  BY <1>3 DEF TypeInv, Remember
<1>6. Answer(m) => MessageIsKept(m)'
  BY <1>5 DEF Answer, MessageIsKept, ResetPC
<1>7. \A next, t : Goto(m, next, t) => pc'[m] = next /\ thread'[m] = t
  BY <1>5 DEF Goto
<1>7a. worker' = worker
  BY <1>1 DEF Advances, Answer, Goto
<1>8. CASE BuildTurnInput(m)
  <2>1. pc[m] = "input" /\ UNCHANGED <<tiers, clock, context>>
    BY <1>8 DEF BuildTurnInput, history
  <2>2. TiersAgree'
    BY <1>3, <2>1 DEF TiersAgree, tiers, clock
  <2>3. MessageIsKept(m)'
    <3>1. CASE /\ threadsByChat[worker[m]] # None
               /\ Goto(m, "message", threadsByChat[worker[m]])
      BY <1>3, <1>7, <2>1, <3>1 DEF MessageIsKept, ResetPC, tiers
    <3>2. CASE threadsByChat[worker[m]] = None /\ Goto(m, "lookup", None)
      BY <1>1, <1>3, <1>7, <2>1, <3>2, OneAtATime
         DEF MessageIsKept, NothingCached, ResetPC, tiers
    <3>. QED
      BY <1>3, <1>6, <1>8, <3>1, <3>2 DEF BuildTurnInput
  <2>. QED
    BY <1>4, <2>1, <2>2, <2>3
<1>9. CASE LookUpThread(m)
  <2>1. pc[m] = "lookup" /\ UNCHANGED <<mapping, age, days, context>>
    BY <1>9 DEF LookUpThread, history
  <2>2. CASE mapping # None /\ Remember(worker[m], mapping) /\ Goto(m, "persist", mapping)
    <3>1. threadsByChat'[worker[m]] = mapping /\ pc'[m] = "persist" /\ thread'[m] = mapping
      BY <1>5, <1>7, <2>2
    <3>. QED
      BY <1>3, <1>4, <2>1, <3>1, <1>7a DEF TiersAgree, MessageIsKept, ResetPC
  <2>3. CASE mapping = None /\ Goto(m, "create", None) /\ UNCHANGED threadsByChat
    BY <1>3, <1>4, <1>7, <2>1, <2>3 DEF TiersAgree, MessageIsKept, NothingCached, ResetPC
  <2>. QED
    BY <1>2, <1>3, <1>9, <2>2, <2>3 DEF LookUpThread
<1>10. CASE CreateThread(m)
  <2>1. pc[m] = "create" /\ UNCHANGED <<mapping, age, days, context>>
    BY <1>10 DEF CreateThread, clock, history
  <2>2. ASSUME NEW t \in Threads, Remember(worker[m], t), Goto(m, "persist", t)
        PROVE  KeptInv'
    <3>1. threadsByChat'[worker[m]] = t /\ pc'[m] = "persist" /\ thread'[m] = t
      BY <1>5, <1>7, <2>2
    <3>. QED
      BY <1>3, <1>4, <2>1, <3>1, <1>7a DEF TiersAgree, MessageIsKept, ResetPC
  <2>3. ASSUME Answer(m), UNCHANGED threadsByChat
        PROVE  KeptInv'
    BY <1>3, <1>4, <1>6, <2>1, <2>3 DEF TiersAgree
  <2>. QED
    BY <1>3, <1>10, <2>1, <2>2, <2>3 DEF CreateThread
<1>11. CASE PersistThread(m)
  <2>1. /\ pc[m] = "persist" /\ mapping' = thread[m] /\ age' = 0
        /\ Goto(m, "message", thread[m]) /\ UNCHANGED <<threadsByChat, days, context>>
    BY <1>2, <1>11 DEF PersistThread, history
  <2>2. \A u \in Workers : threadsByChat'[u] \in {None, mapping'}
    BY <1>1, <1>3, <2>1, OneAtATime DEF MessageIsKept
  <2>. QED
    BY <1>3, <1>4, <1>7, <2>1, <2>2 DEF TiersAgree, MessageIsKept, ResetPC
<1>12. CASE AddUserMessage(m)
  <2>1. pc[m] = "message" /\ UNCHANGED <<tiers, clock>> /\ mapping = thread[m]
        /\ context' \in {context, mapping}
    BY <1>3, <1>12 DEF AddUserMessage, MessageIsKept, history
  <2>2. TiersAgree'
    BY <1>3, <2>1 DEF TiersAgree, tiers, clock
  <2>3. MessageIsKept(m)'
    BY <1>6, <1>7, <1>12 DEF AddUserMessage, MessageIsKept, ResetPC
  <2>. QED
    BY <1>3, <1>4, <2>1, <2>2, <2>3
<1>13. CASE Run(m)
  <2>1. pc[m] = "run" /\ UNCHANGED <<tiers, clock, context>> /\ Answer(m)
    BY <1>13 DEF Run, history
  <2>2. TiersAgree'
    BY <1>3, <2>1 DEF TiersAgree, tiers, clock
  <2>. QED
    BY <1>4, <1>6, <2>1, <2>2
<1>. QED
  BY <1>8, <1>9, <1>10, <1>11, <1>12, <1>13 DEF TurnNext

LEMMA ResetKeepsContext ==
  ASSUME TypeInv, Alone, KeptInv, failures' = 0, ~ split', days' < Ttl,
         NEW m \in Messages, ResetNext(m)
  PROVE  KeptInv' /\ context' \in {None, context}
<1>1. pc[m] \in Handled /\ Advances(m)
  BY ResetAdvances
<1>2. failures = 0 /\ ~ split /\ ~ ApiFails /\ days' = days
  BY DEF TypeInv, ResetNext, ResetRemoveCached, ResetLookUp, ResetDeleteMapping,
         ResetDeleteThread, ApiAnswers, ApiFails, clock, lapses
<1>3. /\ worker[m] \in Workers /\ MessageIsKept(m) /\ MessageInv(m)
      /\ age <= days /\ age \in Nat /\ days \in Nat /\ context \in {None, mapping}
      /\ pc[m] # "persist" => \A w \in Workers : threadsByChat[w] \in {None, mapping}
      /\ threadsByChat \in [Workers -> Threads \cup {None}]
  BY <1>1, <1>2, HandlingKept
<1>4. ASSUME NothingCached', context' = None, age' = age,
             pc'[m] \in ResetPC \cup {"answered"}
      PROVE  KeptInv'
  <2>1. TiersAgree'
    BY <1>2, <1>3, <1>4 DEF TiersAgree, NothingCached
  <2>2. MessageIsKept(m)'
    BY <1>4 DEF MessageIsKept, ResetPC
  <2>. QED
    BY <1>1, <2>1, <2>2, HandlerKeepsContext
<1>5. \A x : [pc EXCEPT ![m] = x][m] = x
  BY DEF TypeInv
<1>6. CASE ResetRemoveCached(m)
  <2>1. /\ threadsByChat' = [threadsByChat EXCEPT ![worker[m]] = None]
        /\ context' = None /\ age' = age
        /\ pc'[m] \in {"reset.lookup", "reset.mapping"}
    BY <1>5, <1>6 DEF ResetRemoveCached, Goto, Remember
  <2>2. NothingCached'
    BY <1>1, <1>3, <2>1, OneAtATime DEF NothingCached
  <2>. QED
    BY <1>4, <2>1, <2>2 DEF ResetPC
<1>7. CASE ResetLookUp(m)
  <2>1. pc[m] = "reset.lookup" /\ UNCHANGED <<tiers, context>> /\ pc'[m] = "reset.mapping"
    BY <1>5, <1>7 DEF ResetLookUp, Goto, history
  <2>. QED
    BY <1>3, <1>4, <2>1 DEF MessageIsKept, NothingCached, ResetPC, tiers
<1>8. CASE ResetDeleteMapping(m)
  <2>1. /\ pc[m] = "reset.mapping" /\ UNCHANGED <<threadsByChat, age, context>>
        /\ pc'[m] \in {"answered", "reset.thread"}
    BY <1>5, <1>8 DEF ResetDeleteMapping, AnswerReset, Answer, Goto, history
  <2>. QED
    BY <1>3, <1>4, <2>1 DEF MessageIsKept, NothingCached, ResetPC
<1>9. CASE ResetDeleteThread(m)
  <2>1. pc[m] = "reset.thread" /\ UNCHANGED <<tiers, context>> /\ pc'[m] = "answered"
    BY <1>5, <1>9 DEF ResetDeleteThread, AnswerReset, Answer
  <2>. QED
    BY <1>3, <1>4, <2>1 DEF MessageIsKept, NothingCached, ResetPC, tiers
<1>. QED
  BY <1>6, <1>7, <1>8, <1>9 DEF ResetNext

LEMMA EnvironmentKeepsContext ==
  ASSUME TypeInv, Alone, KeptInv, failures' = 0, ~ split', days' < Ttl,
         \/ \E m \in Messages : Deliver(m) \/ Enter(m)
         \/ (\E w \in Workers : Recycle(w)) \/ Day \/ UNCHANGED vars
  PROVE  KeptInv' /\ context' = context
<1>1. failures = 0 /\ ~ split /\ days < Ttl /\ context' = context
  <2>0. ~ split
    BY EnvironmentLapses
  <2>1. failures' = failures /\ context' = context
    BY DEF Deliver, Enter, Recycle, Day, clock, vars, history
  <2>2. days' = days \/ days' = days + 1
    BY DEF Deliver, Enter, Recycle, Day, clock, vars
  <2>. QED
    BY <2>0, <2>1, <2>2, BoundsAssumption DEF TypeInv
<1>2. /\ age <= days /\ age \in Nat /\ days \in Nat /\ context \in {None, mapping}
      /\ \A v \in Messages : MessageIsKept(v) /\ MessageInv(v)
      /\ \/ \A w \in Workers : threadsByChat[w] \in {None, mapping}
         \/ \E m \in Messages : pc[m] = "persist"
  BY <1>1 DEF TypeInv, KeptInv, TiersAgree
<1>3. ASSUME NEW m \in Messages, Deliver(m) \/ Enter(m)
      PROVE  KeptInv'
  <2>1. /\ pc[m] \in {"unsent", "waiting"} /\ thread' = thread
        /\ \E x \in {"waiting", "reset", "input"} : pc' = [pc EXCEPT ![m] = x]
        /\ \A v \in Messages : v # m => worker'[v] = worker[v]
        /\ UNCHANGED <<tiers, clock>>
    BY <1>3 DEF Deliver, Enter, TypeInv
  <2>2. pc'[m] \in {"waiting", "reset", "input"} /\ \A v \in Messages \ {m} : pc'[v] = pc[v]
    BY <2>1 DEF TypeInv
  <2>3. \A v \in Messages : MessageIsKept(v)'
    BY <1>1, <1>2, <2>1, <2>2 DEF MessageIsKept, NothingCached, tiers, ResetPC
  <2>4. TiersAgree'
    BY <1>1, <1>2, <2>1, <2>2 DEF TiersAgree, tiers, clock
  <2>. QED
    BY <1>1, <2>3, <2>4 DEF KeptInv
<1>4. ASSUME NEW w \in Workers, Recycle(w)
      PROVE  KeptInv'
  <2>1. /\ threadsByChat' = [threadsByChat EXCEPT ![w] = None]
        /\ pc' \in [Messages -> PC]
        /\ UNCHANGED <<mapping, age, days>>
    BY <1>4 DEF Recycle, Remember, TypeInv, PC
  <2>2. \A u \in Workers : threadsByChat'[u] \in {None, threadsByChat[u]}
    BY <2>1 DEF TypeInv
  <2>3. ASSUME NEW v \in Messages, pc'[v] # "unsent"
        PROVE  /\ UNCHANGED <<pc[v], worker[v], thread[v]>>
               /\ pc[v] # "answered" => worker[v] # w
    BY <1>4, <2>3 DEF Recycle
  <2>4. ASSUME NEW v \in Messages
        PROVE  MessageIsKept(v)'
    <3>1. CASE pc'[v] = "unsent"
      BY <3>1 DEF MessageIsKept, ResetPC
    <3>2. CASE pc'[v] # "unsent" /\ pc[v] = "answered"
      BY <2>3, <3>2 DEF MessageIsKept, ResetPC
    <3>3. CASE pc'[v] # "unsent" /\ pc[v] # "answered"
      <4>1. pc'[v] = pc[v] /\ worker'[v] = worker[v] /\ thread'[v] = thread[v] /\ worker[v] # w
        BY <2>3, <3>3
      <4>2. threadsByChat'[worker[v]] = threadsByChat[worker[v]]
        BY <2>1, <4>1
      <4>3. NothingCached => NothingCached'
        BY <2>2 DEF NothingCached
      <4>. QED
        BY <1>1, <1>2, <2>1, <4>1, <4>2, <4>3 DEF MessageIsKept
    <3>. QED
      BY <3>1, <3>2, <3>3
  <2>5. TiersAgree'
    <3>1. CASE \A u \in Workers : threadsByChat[u] \in {None, mapping}
      BY <1>1, <1>2, <2>1, <2>2, <3>1 DEF TiersAgree
    <3>2. CASE \E m \in Messages : pc[m] = "persist"
      <4>1. PICK m \in Messages : pc[m] = "persist"
        BY <3>2
      <4>2. /\ worker[m] \in Workers
            /\ \A u \in Workers : u # worker[m] => threadsByChat[u] = None
        BY <4>1, OneAtATime DEF Handled, TurnPC
      <4>3. CASE worker[m] = w
        BY <1>1, <1>2, <2>1, <2>2, <4>2, <4>3 DEF TiersAgree, TypeInv
      <4>4. CASE worker[m] # w
        <5>1. pc'[m] = "persist"
          BY <1>4, <4>1, <4>4 DEF Recycle
        <5>. QED
          BY <1>1, <1>2, <2>1, <5>1 DEF TiersAgree
      <4>. QED
        BY <4>3, <4>4
    <3>. QED
      BY <1>2, <3>1, <3>2
  <2>. QED
    BY <1>1, <2>4, <2>5 DEF KeptInv
<1>5. CASE Day
  <2>1. /\ days' = days + 1 /\ age' \in {0, age + 1}
        /\ mapping' = IF age + 1 = Ttl THEN None ELSE mapping
        /\ UNCHANGED <<handling, threadsByChat>>
    BY <1>5 DEF Day
  <2>2. mapping' = mapping /\ age' <= days'
    BY <1>2, <2>1, BoundsAssumption
  <2>3. TiersAgree'
    BY <1>1, <1>2, <2>1, <2>2 DEF TiersAgree, handling
  <2>4. \A v \in Messages : MessageIsKept(v)'
    BY <1>1, <1>2, <2>1, <2>2 DEF MessageIsKept, NothingCached, handling
  <2>. QED
    BY <1>1, <2>3, <2>4 DEF KeptInv
<1>6. CASE UNCHANGED vars
  BY <1>1, <1>2, <1>6
     DEF KeptInv, TiersAgree, MessageIsKept, NothingCached, vars, handling, tiers, clock,
         history, lapses
<1>. QED
  BY <1>1, <1>3, <1>4, <1>5, <1>6

LEMMA NextKeepsContext ==
  ASSUME TypeInv, AloneInv, KeptInv, [Next]_vars
  PROVE  KeptInv'
<1> SUFFICES ASSUME failures' = 0, ~ split', days' < Ttl
             PROVE  KeptInv'
  BY DEF KeptInv
<1>1. Alone
  BY LapsesStay DEF AloneInv
<1>. QED
  BY <1>1, TurnKeepsContext, ResetKeepsContext, EnvironmentKeepsContext
     DEF Next, MessageNext, Quiet

\* A step that spends a bound, or splits the chat, leaves the context alone.
LEMMA BoundsSpent ==
  ASSUME TypeInv, [Next]_vars, context' # context
  PROVE  failures' = failures /\ days' = days /\ split' = split
<1>1. ASSUME NEW m \in Messages, MessageNext(m)
      PROVE  failures' = failures /\ days' = days /\ split' = split
  BY <1>1
     DEF MessageNext, Deliver, Enter, TurnNext, BuildTurnInput, LookUpThread, CreateThread,
         PersistThread, AddUserMessage, Run, ResetNext, ResetRemoveCached, ResetLookUp,
         ResetDeleteMapping, ResetDeleteThread, AnswerReset, clock, history, lapses
<1>. QED
  BY <1>1 DEF Next, Recycle, Day, Quiet, vars, history, clock, lapses

\* The conversation stays in its thread, for any number of workers, messages,
\* threads and recyclings, until a call fails, two workers have the chat at a time
\* or Ttl days have passed.
THEOREM ConversationIsKept == Spec => ConversationKept
<1>1. Init => KeptInv
  BY KeptInvInit
<1>2. TypeInv /\ AloneInv /\ KeptInv /\ [Next]_vars => KeptInv'
  BY NextKeepsContext
<1>3. ASSUME TypeInv, AloneInv, KeptInv, [Next]_vars
      PROVE  [context # None /\ failures = 0 /\ ~ split /\ days < Ttl =>
                  context' \in {context, None}]_context
  <2> SUFFICES ASSUME context' # context, context # None, failures = 0, ~ split, days < Ttl
               PROVE  context' = None
    OBVIOUS
  <2>1. failures' = 0 /\ ~ split' /\ days' < Ttl /\ Alone
    BY <1>3, BoundsSpent DEF AloneInv
  <2>. QED
    BY <1>3, <2>1, TurnKeepsContext, ResetKeepsContext, EnvironmentKeepsContext
       DEF Next, MessageNext, Quiet
<1>. QED
  BY <1>1, <1>2, <1>3, TypeInvHolds, AloneInvHolds, PTL DEF Spec, ConversationKept

=============================================================================
