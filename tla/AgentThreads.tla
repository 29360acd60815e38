---------------------------- MODULE AgentThreads ----------------------------
(***************************************************************************)
(* The conversation of one Telegram chat with the Foundry agent.           *)
(* FoundryAgentRouter maps the chat to a Foundry thread in two tiers: L1,  *)
(* a dictionary in the memory of each Function worker, and L2, a Cosmos    *)
(* document behind /agent/threads that expires when it is not written for  *)
(* Ttl days.  A message is handled by one worker, which lets the messages  *)
(* of a chat through one at a time; nothing orders the messages of two     *)
(* workers.  A worker may be recycled at any await: its memory is lost and *)
(* Telegram delivers the unanswered messages again.                        *)
(*                                                                         *)
(* The variables from context on are history: no action depends on them.   *)
(***************************************************************************)
EXTENDS Naturals

CONSTANTS
    Workers,        \* Function workers of the agent
    Messages,       \* messages of the chat
    Threads,        \* ids that Foundry can give to a thread
    None,
    MaxFailures,    \* bound: calls to the EspacioPro API that fail
    MaxRecycles,    \* bound: workers that are recycled
    MaxDays,        \* bound: days that pass
    Ttl             \* days until an unwritten mapping expires (7 in the code)

ASSUME NoneAssumption == None \notin Threads \cup Messages

ASSUME BoundsAssumption ==
    /\ MaxFailures \in Nat /\ MaxRecycles \in Nat /\ MaxDays \in Nat
    /\ Ttl \in Nat \ {0}

VARIABLES
    kind,       \* what each message is: a turn, or a reset (/nuevo)
    pc,         \* the next await in the handling of each message
    worker,     \* the worker a message was delivered to
    thread,     \* the thread id the handler of a message works with
    gate,       \* the message that holds the chat's semaphore on each worker
    threadsByChat, \* L1: the chat's thread on each worker
    mapping,    \* L2: the chat's thread in Cosmos
    age,        \* days since the mapping was last written
    created, foundry,   \* threads Foundry has created, and those it still has
    failures, recycles, days,   \* counters of the bounds
    context,    \* the thread that holds the conversation
    spoken,     \* threads that hold messages
    forgotten,  \* threads that an answered reset promised to forget
    seen,       \* what was forgotten, or to be forgotten, when a message was sent
    undeleted,  \* a reset failed to delete the mapping
    split       \* the chat came to a worker while another one still had it

handling == <<kind, pc, worker, thread, gate>>
tiers == <<threadsByChat, mapping, age>>
server == <<created, foundry>>
clock == <<failures, recycles, days>>
history == <<context, spoken, forgotten, seen>>
lapses == <<undeleted, split>>
vars == <<handling, tiers, server, clock, history, lapses>>

TurnPC == {"input", "lookup", "create", "persist", "message", "run"}
ResetPC == {"reset", "reset.lookup", "reset.mapping", "reset.thread"}
Handled == TurnPC \cup ResetPC
PC == {"unsent", "waiting", "answered"} \cup Handled

\* Types; a step that names a thread in a call has one, and the message being
\* handled on a worker is the one that holds its gate.
TypeOK ==
    /\ kind \in [Messages -> {"turn", "reset"}]
    /\ pc \in [Messages -> PC]
    /\ worker \in [Messages -> Workers \cup {None}]
    /\ thread \in [Messages -> Threads \cup {None}]
    /\ gate \in [Workers -> Messages \cup {None}]
    /\ threadsByChat \in [Workers -> Threads \cup {None}]
    /\ mapping \in Threads \cup {None}
    /\ age \in 0 .. Ttl
    /\ foundry \subseteq created /\ created \subseteq Threads
    /\ undeleted \in BOOLEAN /\ split \in BOOLEAN
    /\ \A m \in Messages :
         /\ pc[m] \in {"persist", "message", "run", "reset.thread"} =>
              thread[m] \in created
         /\ pc[m] \in Handled <=> \E w \in Workers : worker[m] = w /\ gate[w] = m

Init ==
    /\ kind \in [Messages -> {"turn", "reset"}]
    /\ pc = [m \in Messages |-> "unsent"]
    /\ worker = [m \in Messages |-> None]
    /\ thread = [m \in Messages |-> None]
    /\ gate = [w \in Workers |-> None]
    /\ threadsByChat = [w \in Workers |-> None]
    /\ mapping = None /\ age = 0
    /\ created = {} /\ foundry = {}
    /\ failures = 0 /\ recycles = 0 /\ days = 0
    /\ context = None
    /\ spoken = {} /\ forgotten = {}
    /\ seen = [m \in Messages |-> {}]
    /\ undeleted = FALSE /\ split = FALSE

-----------------------------------------------------------------------------
(* Helpers                                                                  *)

\* The handler of m goes on to the next await with thread t.
Goto(m, next, t) ==
    /\ pc' = [pc EXCEPT ![m] = next]
    /\ thread' = [thread EXCEPT ![m] = t]
    /\ UNCHANGED <<kind, worker, gate>>

\* Mutant of Answer: the gate is only released when the turn has succeeded.
AnswerKeepsGate(m) ==
    /\ pc' = [pc EXCEPT ![m] = "answered"]
    /\ gate' = IF pc[m] \in {"run", "reset.mapping", "reset.thread"}
               THEN [gate EXCEPT ![worker[m]] = None] ELSE gate
    /\ UNCHANGED <<kind, worker, thread>>

\* RouteAsync returns a reply, an apology after an exception included; its
\* finally block releases the gate.
Answer(m) ==
    /\ pc' = [pc EXCEPT ![m] = "answered"]
    /\ gate' = [gate EXCEPT ![worker[m]] = None]
    /\ UNCHANGED <<kind, worker, thread>>

\* A call to the API succeeds, or it does not.
ApiAnswers == UNCHANGED failures
ApiFails == failures < MaxFailures /\ failures' = failures + 1

Remember(w, t) == threadsByChat' = [threadsByChat EXCEPT ![w] = t]

\* The worker still has the chat: its thread in L1, or a message of it in hand.
HasChat(w) ==
    \/ threadsByChat[w] # None
    \/ \E m \in Messages : worker[m] = w /\ pc[m] \notin {"unsent", "answered"}

-----------------------------------------------------------------------------
(* Delivery                                                                 *)

\* Telegram posts the message to the webhook, on any worker; again if the
\* first delivery was never answered.
Deliver(m) ==
    /\ pc[m] = "unsent"
    /\ pc' = [pc EXCEPT ![m] = "waiting"]
    /\ \E w \in Workers :
         /\ worker' = [worker EXCEPT ![m] = w]
         /\ split' = (split \/ \E v \in Workers \ {w} : HasChat(v))
    /\ seen' = [seen EXCEPT ![m] = IF kind[m] = "reset" THEN spoken ELSE forgotten]
    /\ UNCHANGED <<kind, thread, gate, tiers, server, clock,
                   context, spoken, forgotten, undeleted>>

\* The chat's semaphore on the worker lets the message in.
Enter(m) ==
    /\ pc[m] = "waiting" /\ gate[worker[m]] = None
    /\ gate' = [gate EXCEPT ![worker[m]] = m]
    /\ pc' = [pc EXCEPT ![m] = IF kind[m] = "reset" THEN "reset" ELSE "input"]
    /\ UNCHANGED <<kind, worker, thread, tiers, server, clock, history, lapses>>

-----------------------------------------------------------------------------
(* RunTurnAsync with GetOrCreateThreadAsync                                 *)

\* The input is built and the agent ensured; then L1 is asked.
BuildTurnInput(m) ==
    /\ pc[m] = "input"
    /\ LET l1 == threadsByChat[worker[m]]
       IN  \/ l1 # None /\ Goto(m, "message", l1)
           \/ l1 = None /\ Goto(m, "lookup", None)
           \/ Answer(m)                 \* nothing to act on, or an exception
    /\ UNCHANGED <<tiers, server, clock, history, lapses>>

\* GET of the mapping; any failure reads as "no mapping".
LookUpThread(m) ==
    /\ pc[m] = "lookup"
    /\ \/ /\ mapping # None /\ ApiAnswers
          /\ Remember(worker[m], mapping)
          /\ Goto(m, "persist", mapping)
       \/ /\ (mapping = None /\ ApiAnswers) \/ ApiFails
          /\ Goto(m, "create", None)
          /\ UNCHANGED threadsByChat
    /\ UNCHANGED <<mapping, age, server, recycles, days, history, lapses>>

CreateThread(m) ==
    /\ pc[m] = "create"
    /\ \/ \E t \in Threads \ created :
            /\ created' = created \cup {t} /\ foundry' = foundry \cup {t}
            /\ Remember(worker[m], t)
            /\ Goto(m, "persist", t)
       \/ Answer(m) /\ UNCHANGED <<server, threadsByChat>>      \* an exception
    /\ UNCHANGED <<mapping, age, clock, history, lapses>>

\* Mutant of PersistThread: only a thread that came from L2 is written back.
PersistResumedThread(m) ==
    /\ pc[m] = "persist"
    /\ IF mapping # None THEN mapping' = thread[m] /\ age' = 0
       ELSE UNCHANGED <<mapping, age>>
    /\ Goto(m, "message", thread[m])
    /\ UNCHANGED <<threadsByChat, server, clock, history, lapses>>

\* PUT of the mapping, which re-arms its TTL; the handler ignores the result.
PersistThread(m) ==
    /\ pc[m] = "persist"
    /\ \/ mapping' = thread[m] /\ age' = 0 /\ ApiAnswers
       \/ ApiFails /\ UNCHANGED <<mapping, age>>
    /\ Goto(m, "message", thread[m])
    /\ UNCHANGED <<threadsByChat, server, recycles, days, history, lapses>>

\* Foundry refuses a message for a thread it no longer has.
AddUserMessage(m) ==
    /\ pc[m] = "message"
    /\ \/ /\ thread[m] \in foundry
          /\ Goto(m, "run", thread[m])
          /\ context' = thread[m]
          /\ spoken' = spoken \cup {thread[m]}
          /\ UNCHANGED <<forgotten, seen>>
       \/ Answer(m) /\ UNCHANGED history
    /\ UNCHANGED <<tiers, server, clock, lapses>>

\* The run settles, whatever its outcome, or the tool loop is given up.
Run(m) ==
    /\ pc[m] = "run"
    /\ Answer(m)
    /\ UNCHANGED <<tiers, server, clock, history, lapses>>

-----------------------------------------------------------------------------
(* ResetThreadAsync                                                         *)

ResetRemoveCached(m) ==
    /\ pc[m] = "reset"
    /\ LET l1 == threadsByChat[worker[m]]
       IN  Goto(m, IF l1 = None THEN "reset.lookup" ELSE "reset.mapping", l1)
    /\ Remember(worker[m], None)
    /\ context' = None
    /\ UNCHANGED <<mapping, age, server, clock, spoken, forgotten, seen, lapses>>

ResetLookUp(m) ==
    /\ pc[m] = "reset.lookup"
    /\ \/ ApiAnswers /\ Goto(m, "reset.mapping", mapping)
       \/ ApiFails /\ Goto(m, "reset.mapping", None)
    /\ UNCHANGED <<tiers, server, recycles, days, history, lapses>>

AnswerReset(m) ==
    /\ Answer(m)
    /\ forgotten' = forgotten \cup seen[m]
    /\ UNCHANGED <<context, spoken, seen>>

\* Mutant of ResetDeleteMapping: only L1 and the Foundry thread are dropped.
ResetKeepMapping(m) ==
    /\ pc[m] = "reset.mapping"
    /\ \/ thread[m] = None /\ AnswerReset(m)
       \/ thread[m] # None /\ Goto(m, "reset.thread", thread[m]) /\ UNCHANGED history
    /\ UNCHANGED <<tiers, server, clock, lapses>>

\* Mutant of ResetDeleteMapping: the thread id is not checked.
ResetWithoutNullCheck(m) ==
    /\ pc[m] = "reset.mapping"
    /\ \/ mapping' = None /\ ApiAnswers /\ UNCHANGED undeleted
       \/ ApiFails /\ undeleted' = TRUE /\ UNCHANGED mapping
    /\ Goto(m, "reset.thread", thread[m])
    /\ UNCHANGED <<threadsByChat, age, server, recycles, days, history, split>>

\* DELETE of the mapping, whose failure is only logged.
ResetDeleteMapping(m) ==
    /\ pc[m] = "reset.mapping"
    /\ \/ mapping' = None /\ ApiAnswers /\ UNCHANGED undeleted
       \/ ApiFails /\ undeleted' = TRUE /\ UNCHANGED mapping
    /\ \/ thread[m] = None /\ AnswerReset(m)
       \/ thread[m] # None /\ Goto(m, "reset.thread", thread[m]) /\ UNCHANGED history
    /\ UNCHANGED <<threadsByChat, age, server, recycles, days, split>>

\* Best effort: an exception of the delete is caught.
ResetDeleteThread(m) ==
    /\ pc[m] = "reset.thread"
    /\ \/ foundry' = foundry \ {thread[m]}
       \/ UNCHANGED foundry
    /\ AnswerReset(m)
    /\ UNCHANGED <<tiers, created, clock, lapses>>

-----------------------------------------------------------------------------
(* The environment                                                          *)

\* A worker is recycled: what it had in memory and in hand is lost.
Recycle(w) ==
    /\ recycles < MaxRecycles
    /\ recycles' = recycles + 1
    /\ Remember(w, None)
    /\ gate' = [gate EXCEPT ![w] = None]
    /\ LET lost == {m \in Messages : worker[m] = w /\ pc[m] # "answered"}
       IN  /\ pc' = [m \in Messages |-> IF m \in lost THEN "unsent" ELSE pc[m]]
           /\ worker' = [m \in Messages |-> IF m \in lost THEN None ELSE worker[m]]
           /\ thread' = [m \in Messages |-> IF m \in lost THEN None ELSE thread[m]]
    /\ UNCHANGED <<kind, mapping, age, server, failures, days, history, lapses>>

\* A day passes, not in the seconds a message takes; Cosmos drops a mapping that
\* has not been written for Ttl days.
Day ==
    /\ days < MaxDays
    /\ \A w \in Workers : gate[w] = None
    /\ days' = days + 1
    /\ age' = IF mapping = None \/ age + 1 = Ttl THEN 0 ELSE age + 1
    /\ mapping' = IF age + 1 = Ttl THEN None ELSE mapping
    /\ UNCHANGED <<handling, threadsByChat, server, failures, recycles, history, lapses>>

\* Everything was answered; no message, no recycling any more.
Quiet == (\A m \in Messages : pc[m] = "answered") /\ UNCHANGED vars

TurnNext(m) ==
    \/ BuildTurnInput(m)
    \/ LookUpThread(m)
    \/ CreateThread(m)
    \/ PersistThread(m)
    \/ AddUserMessage(m)
    \/ Run(m)

ResetNext(m) ==
    \/ ResetRemoveCached(m)
    \/ ResetLookUp(m)
    \/ ResetDeleteMapping(m)
    \/ ResetDeleteThread(m)

MessageNext(m) == Deliver(m) \/ Enter(m) \/ TurnNext(m) \/ ResetNext(m)

Next ==
    \/ \E m \in Messages : MessageNext(m)
    \/ \E w \in Workers : Recycle(w)
    \/ Day
    \/ Quiet

Spec == Init /\ [][Next]_vars

\* Every await of a handler ends, the semaphore lets in a message that waits
\* long enough, and Telegram delivers a message until it has been answered.
FairSpec == Spec /\ \A m \in Messages : WF_vars(MessageNext(m))

-----------------------------------------------------------------------------
(* Properties                                                               *)

\* The mapping and the cache never name a thread that a reset has deleted, not
\* even when the worker is recycled in the middle of the reset.
NoDeadThread ==
    /\ mapping \in foundry \cup {None}
    /\ \A w \in Workers : threadsByChat[w] \in foundry \cup {None}

\* A message sent after the reset was answered starts afresh, it never works with
\* a thread that held messages when the reset was sent.
ResetForgets ==
    \A m \in Messages : kind[m] = "turn" => thread[m] \notin seen[m]

\* /nuevo is final, whatever other calls fail and however often a worker is
\* recycled: nothing leads back to the old thread.  There are exactly two ways
\* round it: the DELETE of the mapping failed (ResetThreadAsync goes on without
\* it), or a second worker had the chat, whose L1 no reset reaches.
ResetIsFinal == ~ undeleted /\ ~ split => NoDeadThread /\ ResetForgets

\* The conversation survives the recycling of workers: until the next reset a
\* message goes into the thread that holds the messages before it, unless a call
\* to the API has failed, two workers had the chat at a time, or it is old enough
\* for its mapping to expire.
ConversationKept ==
    [][context # None /\ failures = 0 /\ ~ split /\ days < Ttl =>
           context' \in {context, None}]_context

\* Every message that was delivered is answered in the end, whatever fails: no
\* path leaves the gate closed or the handler stuck.
EveryMessageIsAnswered ==
    \A m \in Messages : pc[m] = "waiting" ~> pc[m] = "answered"

=============================================================================
