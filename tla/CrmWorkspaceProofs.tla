--------------------------- MODULE CrmWorkspaceProofs ---------------------------
(***************************************************************************)
(* Theorems about the CRM of one browser, for any conversations, texts,    *)
(* events and failures: the composer hands over no text twice, and what it *)
(* loses was lost in one of the ways the code has; a list that is up to    *)
(* date shows the browser's own changes; a thread that is loaded to its    *)
(* end has every message; one agent is the default; an edit of a flow is   *)
(* one edit of one of its lists, at any depth, and leaves the rest of it   *)
(* and the other flows as they are; and all of it is of its types.  Where  *)
(* a part is about the inbox, the other pages only come in when the inbox  *)
(* is left.                                                                *)
(***************************************************************************)
EXTENDS CrmWorkspace, InfiniteListProofs, FiniteSetTheorems, TLAPS

-----------------------------------------------------------------------------
(* Loading                                                                  *)

\* What is loaded changes nothing but the lists and the threads.
LEMMA LoadingReads ==
  ASSUME Loading PROVE UNCHANGED <<store, view, writing, pending, history>>
<1>1. ASSUME NEW b, useConversations(b) \/ getConversations(b) \/ ListArrives(b)
      PROVE  UNCHANGED <<store, view, writing, pending, history>>
  BY <1>1 DEF useConversations, getConversations, ListArrives
<1>2. ASSUME NEW c, useInfiniteMessages(c) \/ getMessages(c) \/ FirstPageArrives(c)
      PROVE  UNCHANGED <<store, view, writing, pending, history>>
  BY <1>2 DEF useInfiniteMessages, getMessages, FirstPageArrives
<1>3. fetchNextPage => UNCHANGED <<store, view, writing, pending, history>>
  BY DEF fetchNextPage
<1>. QED
  BY <1>1, <1>2, <1>3 DEF Loading

-----------------------------------------------------------------------------
(* The composer                                                             *)

\* A send or a patch on its way; only a send carries a text, and only of those
\* that came up.
IsMessage(m) ==
    /\ m = [kind |-> m.kind, conv |-> m.conv, draft |-> m.draft,
            attachments |-> m.attachments, lead |-> m.lead, here |-> m.here]
    /\ m.draft \in 1 .. typed \cup {None}
    /\ m.kind # "send" => m.draft = None

ComposerTypes ==
    /\ typed \in 0 .. MaxTyped
    /\ composer = [draft |-> composer.draft, attachments |-> composer.attachments]
    /\ composer.draft \in 1 .. typed \cup {None}
    /\ \A m \in pending : IsMessage(m)
    /\ posted \in [Typed -> Nat]
    /\ \A t \in Typed : t > typed => posted[t] = 0

\* A text is on its way at most once; while it is still in the composer, too, its
\* send belongs to the page that is open, which waits for the answer.
SendsInv ==
    /\ \A m, n \in pending : m.draft # None /\ m.draft = n.draft => m = n
    /\ \A m \in pending : m.draft # None /\ m.draft = composer.draft => m.here = TRUE

\* A text in the composer or on its way is not stored yet, unless a failure was
\* reported after storing it.
Waiting(t) == t = composer.draft \/ \E m \in pending : m.draft = t

PostedInv ==
    \A t \in Typed : t \in halfway \/ (posted[t] <= 1 /\ (Waiting(t) => posted[t] = 0))

ComposerInv == ComposerTypes /\ SendsInv /\ PostedInv

composing == <<typed, composer, pending, posted, halfway>>

LEMMA NumbersOfTexts ==
  ASSUME ComposerTypes
  PROVE  /\ typed \in Nat /\ MaxTyped \in Nat /\ typed <= MaxTyped
         /\ \A t \in 1 .. typed : t \in Typed /\ t # None
         /\ \A t \in Typed : t # None /\ t \in Nat
  BY InboxAssumption DEF ComposerTypes, InboxAssumption, Typed

LEMMA ComposerInit ==
  ASSUME InboxInit PROVE ComposerInv
<1>1. MaxTyped \in Nat
  BY InboxAssumption DEF InboxAssumption
<1>2. ComposerTypes
  BY <1>1 DEF InboxInit, ComposerTypes, Typed
<1>3. SendsInv
  BY DEF InboxInit, SendsInv
<1>4. PostedInv
  BY <1>1 DEF InboxInit, PostedInv, Waiting, Typed
<1>. QED
  BY <1>2, <1>3, <1>4 DEF ComposerInv

\* A step that leaves the composer and the sends alone.
LEMMA ComposerStutters ==
  ASSUME ComposerInv, UNCHANGED composing
  PROVE  ComposerInv'
<1>1. UNCHANGED <<typed, composer, pending, posted, halfway>>
  BY DEF composing
<1>2. ComposerTypes'
  BY <1>1 DEF ComposerInv, ComposerTypes, IsMessage
<1>3. SendsInv'
  BY <1>1 DEF ComposerInv, SendsInv
<1>4. PostedInv'
  BY <1>1 DEF ComposerInv, PostedInv, Waiting
<1>. QED
  BY <1>2, <1>3, <1>4 DEF ComposerInv

\* What is typed, suggested, picked or taken out again: the composer changes.
LEMMA ComposerChanges ==
  ASSUME ComposerInv, UNCHANGED <<pending, posted, halfway>>,
         typed' = typed \/ Fresh,
         composer' = [draft |-> composer'.draft, attachments |-> composer'.attachments],
         composer'.draft \in {composer.draft, None} \cup (typed + 1 .. typed')
  PROVE  ComposerInv'
<1>1. /\ typed \in Nat /\ MaxTyped \in Nat /\ typed <= MaxTyped
      /\ \A t \in 1 .. typed : t \in Typed /\ t # None
      /\ \A t \in Typed : t # None /\ t \in Nat
  BY NumbersOfTexts DEF ComposerInv
<1>2. typed' \in 0 .. MaxTyped /\ typed <= typed' /\ typed' \in Nat
  BY <1>1 DEF Fresh
<1>3. \A m \in pending' : IsMessage(m)'
  BY <1>1, <1>2 DEF ComposerInv, ComposerTypes, IsMessage
<1>4. composer'.draft \in 1 .. typed' \cup {None}
  BY <1>1, <1>2 DEF ComposerInv, ComposerTypes
<1>5. ComposerTypes'
  BY <1>1, <1>2, <1>3, <1>4 DEF ComposerInv, ComposerTypes
<1>6. composer'.draft # None /\ composer'.draft # composer.draft =>
        composer'.draft > typed /\ composer'.draft \in Typed
  BY <1>1, <1>2, <1>4 DEF Typed
<1>7. SendsInv'
  <2>1. ASSUME NEW m \in pending, m.draft # None, m.draft = composer'.draft
        PROVE  m.here = TRUE
    <3>1. m.draft \in 1 .. typed
      BY <2>1 DEF ComposerInv, ComposerTypes, IsMessage
    <3>2. m.draft = composer.draft
      BY <1>1, <1>6, <2>1, <3>1
    <3>. QED
      BY <2>1, <3>2 DEF ComposerInv, SendsInv
  <2>. QED
    BY <2>1 DEF ComposerInv, SendsInv
<1>8. PostedInv'
  <2>1. ASSUME NEW t \in Typed, t \notin halfway, Waiting(t)'
        PROVE  posted[t] = 0
    <3>1. CASE Waiting(t)
      BY <2>1, <3>1 DEF ComposerInv, PostedInv
    <3>2. CASE t = composer'.draft /\ t # composer.draft
      <4>1. t > typed
        BY <1>1, <1>6, <3>2
      <4>. QED
        BY <4>1 DEF ComposerInv, ComposerTypes
    <3>. QED
      BY <2>1, <3>1, <3>2 DEF Waiting
  <2>. QED
    BY <2>1 DEF ComposerInv, PostedInv
<1>. QED
  BY <1>5, <1>7, <1>8 DEF ComposerInv

LEMMA SetDraftKeeps ==
  ASSUME ComposerInv, UNCHANGED <<pending, posted, halfway>>, NEW text,
         setDraft(text),
         (Fresh /\ text = typed + 1) \/ (typed' = typed /\ text = None)
  PROVE  ComposerInv'
<1>1. typed \in Nat
  BY NumbersOfTexts DEF ComposerInv
<1>2. composer' = [draft |-> text, attachments |-> composer.attachments]
  BY DEF setDraft, ComposerInv, ComposerTypes
<1>3. /\ composer'.draft = text
      /\ composer' = [draft |-> composer'.draft, attachments |-> composer'.attachments]
  BY <1>2
<1>4. text \in {None} \cup (typed + 1 .. typed')
  BY <1>1 DEF Fresh
<1>. QED
  BY <1>3, <1>4, ComposerChanges DEF Fresh

\* A send takes the text in the composer along, which no other send has.
LEMMA HandleSendKeeps ==
  ASSUME ComposerInv, handleSend PROVE ComposerInv'
<1>. DEFINE new == Send(activeId, composer, TRUE)
<1>1. /\ new.kind = "send" /\ new.draft = composer.draft /\ new.here = TRUE
      /\ new = [kind |-> new.kind, conv |-> new.conv, draft |-> new.draft,
                attachments |-> new.attachments, lead |-> new.lead, here |-> new.here]
  BY DEF Send
<1>. HIDE DEF new
<1>2. /\ pending' = pending \cup {new} /\ ~isPending
      /\ UNCHANGED <<typed, composer, posted, halfway>>
  BY DEF handleSend, writing, history, new
<1>3. IsMessage(new)
  BY <1>1, <1>2 DEF ComposerInv, ComposerTypes, IsMessage
<1>4. \A m \in pending' : IsMessage(m)
  BY <1>2, <1>3 DEF ComposerInv, ComposerTypes, IsMessage
<1>5. ComposerTypes'
  BY <1>2, <1>4 DEF ComposerInv, ComposerTypes, IsMessage
<1>6. ASSUME NEW m \in pending, m.draft # None PROVE m.draft # composer.draft
  BY <1>2, <1>6 DEF ComposerInv, ComposerTypes, IsMessage, SendsInv, isPending
<1>7. SendsInv'
  <2>1. \A m, n \in pending' : m.draft # None /\ m.draft = n.draft => m = n
    BY <1>1, <1>2, <1>6 DEF ComposerInv, SendsInv
  <2>2. \A m \in pending' : m.draft # None /\ m.draft = composer'.draft => m.here = TRUE
    BY <1>1, <1>2, <1>6
  <2>. QED
    BY <2>1, <2>2 DEF SendsInv
<1>8. PostedInv'
  BY <1>1, <1>2 DEF ComposerInv, PostedInv, Waiting
<1>. QED
  BY <1>5, <1>7, <1>8 DEF ComposerInv

LEMMA PatchKeeps ==
  ASSUME ComposerInv, NEW c, NEW lead, pending' = pending \cup {Patch(c, lead)},
         UNCHANGED <<typed, composer, posted, halfway>>
  PROVE  ComposerInv'
<1>. DEFINE new == Patch(c, lead)
<1>1. /\ new.kind = "patch" /\ new.draft = None /\ new.here = TRUE
      /\ new = [kind |-> new.kind, conv |-> new.conv, draft |-> new.draft,
                attachments |-> new.attachments, lead |-> new.lead, here |-> new.here]
  BY DEF Patch
<1>2. pending' = pending \cup {new}
  BY DEF new
<1>. HIDE DEF new
<1>3. IsMessage(new)
  BY <1>1 DEF IsMessage
<1>4. \A m \in pending' : IsMessage(m)
  BY <1>2, <1>3 DEF ComposerInv, ComposerTypes, IsMessage
<1>5. ComposerTypes'
  BY <1>4 DEF ComposerInv, ComposerTypes, IsMessage
<1>7. SendsInv'
  BY <1>1, <1>2 DEF ComposerInv, SendsInv
<1>8. PostedInv'
  <2>1. \A t \in Typed : t # None
    BY NumbersOfTexts DEF ComposerInv
  <2>. QED
    BY <1>1, <1>2, <2>1 DEF ComposerInv, PostedInv, Waiting
<1>. QED
  BY <1>5, <1>7, <1>8 DEF ComposerInv

\* The answer to a message: its text is stored or not, and the composer is emptied
\* or not.
LEMMA AnswerKeeps ==
  ASSUME ComposerInv, NEW m \in pending, pending' = pending \ {m}, NEW where,
         UNCHANGED typed, Posted(m, where) \/ UNCHANGED posted,
         composer' = composer \/ composer' = Cleared(m),
         halfway \subseteq halfway',
         UNCHANGED posted \/ m.draft = None \/ m.draft \in halfway'
           \/ composer'.draft # m.draft
  PROVE  ComposerInv'
<1>1. /\ typed \in Nat /\ \A t \in Typed : t # None
      /\ posted \in [Typed -> Nat] /\ \A t \in 1 .. typed : t \in Typed
  BY NumbersOfTexts DEF ComposerInv, ComposerTypes
<1>2. ASSUME NEW t \in Typed
      PROVE  posted'[t] \in Nat /\ (posted'[t] = posted[t] \/ (t = m.draft /\ posted'[t] = posted[t] + 1))
  BY <1>1 DEF Posted
<1>3. posted' \in [Typed -> Nat]
  BY <1>1 DEF Posted
<1>4. /\ composer' = [draft |-> composer'.draft, attachments |-> composer'.attachments]
      /\ composer'.draft \in {composer.draft, None}
  BY DEF ComposerInv, ComposerTypes, Cleared
<1>5. ComposerTypes'
  <2>1. \A n \in pending' : IsMessage(n)'
    BY DEF ComposerInv, ComposerTypes, IsMessage
  <2>2. \A t \in Typed : t > typed => posted'[t] = 0
    <3>1. m.draft \in 1 .. typed \cup {None}
      BY DEF ComposerInv, ComposerTypes, IsMessage
    <3>2. \A t \in Typed : t > typed => t # m.draft
      BY <1>1, <3>1 
    <3>. QED
      BY <1>2, <3>2 DEF ComposerInv, ComposerTypes
  <2>. QED
    BY <1>3, <1>4, <2>1, <2>2 DEF ComposerInv, ComposerTypes
<1>6. SendsInv'
  BY <1>4 DEF ComposerInv, SendsInv
<1>7. PostedInv'
  <2>1. ASSUME NEW t \in Typed, t \notin halfway'
        PROVE  posted'[t] <= 1 /\ (Waiting(t)' => posted'[t] = 0)
    <3>1. t \notin halfway /\ t # None
      BY <1>1, <2>1
    <3>2. posted[t] <= 1 /\ (Waiting(t) => posted[t] = 0)
      BY <3>1 DEF ComposerInv, PostedInv
    <3>3. Waiting(t)' => Waiting(t)
      BY <1>4, <3>1 DEF Waiting
    <3>4. CASE posted'[t] = posted[t]
      BY <3>2, <3>3, <3>4
    <3>5. CASE posted'[t] # posted[t]
      <4>1. t = m.draft /\ posted'[t] = posted[t] + 1
        BY <1>2, <3>5
      <4>2. posted[t] = 0
        BY <3>2, <4>1 DEF Waiting
      <4>3. composer'.draft # t
        BY <2>1, <3>1, <3>5, <4>1
      <4>4. \A n \in pending' : n.draft # t
        BY <3>1, <4>1 DEF ComposerInv, SendsInv
      <4>5. ~Waiting(t)'
        BY <4>3, <4>4 DEF Waiting
      <4>. QED
        BY <4>1, <4>2, <4>5
    <3>. QED
      BY <3>4, <3>5
  <2>. QED
    BY <2>1 DEF PostedInv
<1>. QED
  BY <1>5, <1>6, <1>7 DEF ComposerInv

LEMMA AnsweredKeeps ==
  ASSUME ComposerInv, Answered PROVE ComposerInv'
<1>0. UNCHANGED typed
  BY DEF Answered, writing
<1>. PICK m \in pending :
       /\ pending' = pending \ {m}
       /\ \/ ~Refused(m) /\ Succeeds(m, {"live"}) /\ UNCHANGED troubles
          \/ ~Refused(m) /\ Succeeds(m, {"live", "mock"}) /\ Trouble
          \/ Succeeds(m, {"mock"}) /\ Trouble
          \/ /\ IF Refused(m) THEN UNCHANGED troubles ELSE Trouble
             /\ UNCHANGED <<store, boards, composer, posted, gone, lost, halfway, own>>
          \/ /\ m.kind = "send" /\ ~Refused(m) /\ Trouble
             /\ Stored(m, {"live"}) /\ Posted(m, {"live"}) /\ halfway' = halfway \cup Tokens(m)
             /\ UNCHANGED <<boards, composer, gone, lost, own>>
  BY DEF Answered
<1>1. ASSUME NEW where, Succeeds(m, where) PROVE ComposerInv'
  <2>1. /\ Posted(m, where) /\ halfway' = halfway
        /\ IF m.kind = "send" /\ m.here
           THEN composer' = Cleared(m) ELSE composer' = composer
    BY <1>1 DEF Succeeds
  <2>2. m.draft # None => composer'.draft # m.draft
    <3>1. CASE m.draft # None /\ m.draft = composer.draft
      <4>1. m.kind = "send" /\ m.here
        BY <3>1 DEF ComposerInv, ComposerTypes, IsMessage, SendsInv
      <4>. QED
        BY <2>1, <3>1, <4>1 DEF Cleared
    <3>2. CASE m.draft # None /\ m.draft # composer.draft
      BY <2>1, <3>2 DEF Cleared
    <3>. QED
      BY <3>1, <3>2
  <2>. QED
    BY <1>0, <2>1, <2>2, AnswerKeeps
<1>2. CASE UNCHANGED <<composer, posted, halfway>>
  BY <1>0, <1>2, AnswerKeeps
<1>3. ASSUME Posted(m, {"live"}), halfway' = halfway \cup Tokens(m), composer' = composer
      PROVE  ComposerInv'
  <2>1. m.draft = None \/ m.draft \in halfway'
    BY <1>3 DEF Tokens
  <2>. QED
    BY <1>0, <1>3, <2>1, AnswerKeeps
<1>. QED
  BY <1>1, <1>2, <1>3

LEMMA ComposeKeeps ==
  ASSUME ComposerInv, Compose \/ Suggested PROVE ComposerInv'
<1>1. CASE Compose
  <2>1. UNCHANGED <<pending, posted, halfway>>
    BY <1>1 DEF Compose
  <2>2. CASE Fresh /\ setDraft(typed + 1)
    BY <2>1, <2>2, SetDraftKeeps
  <2>3. CASE setDraft(None) /\ UNCHANGED typed
    BY <2>1, <2>3, SetDraftKeeps
  <2>. QED
    BY <1>1, <2>2, <2>3 DEF Compose
<1>2. CASE Suggested
  <2>1. UNCHANGED <<pending, posted, halfway>>
    BY <1>2 DEF Suggested
  <2>2. CASE Fresh /\ setDraft(typed + 1)
    BY <2>1, <2>2, SetDraftKeeps
  <2>3. CASE UNCHANGED <<composer, typed>>
    BY <2>1, <2>3, ComposerStutters DEF composing
  <2>. QED
    BY <1>2, <2>2, <2>3 DEF Suggested
<1>. QED
  BY <1>1, <1>2

LEMMA AttachmentsKeep ==
  ASSUME ComposerInv, onPickFiles \/ removeAttachment PROVE ComposerInv'
<1>0. composer = [draft |-> composer.draft, attachments |-> composer.attachments]
  BY DEF ComposerInv, ComposerTypes
<1>1. CASE onPickFiles
  <2>1. /\ UNCHANGED <<pending, posted, halfway>> /\ Fresh
        /\ composer' = [draft |-> composer.draft,
                        attachments |-> composer.attachments \cup {typed + 1}]
    BY <1>0, <1>1 DEF onPickFiles
  <2>. QED
    BY <2>1, ComposerChanges
<1>2. CASE removeAttachment
  <2>. PICK file \in composer.attachments :
         composer' = [composer EXCEPT !.attachments = @ \ {file}]
    BY <1>2 DEF removeAttachment
  <2>1. /\ UNCHANGED <<typed, pending, posted, halfway>>
        /\ composer' = [draft |-> composer.draft, attachments |-> composer.attachments \ {file}]
    BY <1>0, <1>2 DEF removeAttachment
  <2>. QED
    BY <2>1, ComposerChanges
<1>. QED
  BY <1>1, <1>2

\* Leaving the page empties the composer, and answers no longer find it.
LEMMA UnmountKeeps ==
  ASSUME ComposerInv, NEW c, InboxUnmounted(c) PROVE ComposerInv'
<1>. DEFINE Left(m) == [m EXCEPT !.here = FALSE]
<1>1. /\ composer' = [draft |-> None, attachments |-> {}]
      /\ pending' = {Left(m) : m \in pending}
      /\ UNCHANGED <<typed, posted, halfway>>
  BY DEF InboxUnmounted
<1>2. ASSUME NEW m \in pending
      PROVE  /\ Left(m).draft = m.draft /\ Left(m).kind = m.kind
             /\ Left(m) = [kind |-> m.kind, conv |-> m.conv, draft |-> m.draft,
                  attachments |-> m.attachments, lead |-> m.lead, here |-> FALSE]
             /\ IsMessage(Left(m))
  <2>1. IsMessage(m)
    BY DEF ComposerInv, ComposerTypes
  <2>2. Left(m) = [kind |-> m.kind, conv |-> m.conv, draft |-> m.draft,
                   attachments |-> m.attachments, lead |-> m.lead, here |-> FALSE]
    <3>1. \A there : [m EXCEPT !.here = there] =
            [kind |-> m.kind, conv |-> m.conv, draft |-> m.draft,
             attachments |-> m.attachments, lead |-> m.lead, here |-> there]
      BY <2>1 DEF IsMessage
    <3>. QED
      BY ONLY <3>1, Zenon
  <2>. QED
    BY <2>1, <2>2 DEF IsMessage
<1>. HIDE DEF Left
<1>3. ComposerTypes'
  <2>1. \A n \in pending' : IsMessage(n)'
    BY <1>1, <1>2 DEF IsMessage
  <2>. QED
    BY <1>1, <2>1 DEF ComposerInv, ComposerTypes
<1>4. SendsInv'
  BY <1>1, <1>2 DEF ComposerInv, SendsInv
<1>5. PostedInv'
  <2>1. ASSUME NEW t \in Typed, Waiting(t)' PROVE Waiting(t)
    <3>1. t # composer'.draft
      BY <1>1, NumbersOfTexts DEF ComposerInv
    <3>2. PICK n \in pending' : n.draft = t
      BY <2>1, <3>1 DEF Waiting
    <3>3. PICK m \in pending : n = Left(m)
      BY <1>1
    <3>. QED
      BY <1>2, <3>2, <3>3 DEF Waiting
  <2>. QED
    BY <1>1, <2>1 DEF ComposerInv, PostedInv
<1>. QED
  BY <1>3, <1>4, <1>5 DEF ComposerInv

LEMMA ComposerStep ==
  ASSUME ComposerInv, [Next]_vars PROVE ComposerInv'
<1>. USE DEF boards, view, writing, history
<1>1. CASE OpenPage
  BY <1>1, UnmountKeeps DEF OpenPage
<1>2. CASE openConversation
  BY <1>2, UnmountKeeps DEF openConversation
<1>3. CASE UNCHANGED inbox
  BY <1>3, ComposerStutters DEF inbox, composing
<1>4. CASE Loading
  BY <1>4, LoadingReads, ComposerStutters DEF composing
<1>5. CASE Chatting
  <2>1. CASE handleSend
    BY <2>1, HandleSendKeeps
  <2>2. CASE patch
    BY <2>2, PatchKeeps DEF patch
  <2>3. CASE moveTo
    BY <2>3, PatchKeeps DEF moveTo
  <2>4. CASE Answered
    BY <2>4, AnsweredKeeps
  <2>5. CASE Elsewhere \/ Ask
    BY <2>5, ComposerStutters DEF Elsewhere, Ask, composing
  <2>6. CASE Compose \/ Suggested
    BY <2>6, ComposeKeeps
  <2>7. CASE onPickFiles \/ removeAttachment
    BY <2>7, AttachmentsKeep
  <2>8. CASE selectConversation \/ clearSelection \/ setStatusFilter \/ toggleFrom \/ clearFilters
    BY <2>8, ComposerStutters
       DEF selectConversation, clearSelection, setStatusFilter, toggleFrom, clearFilters, composing
  <2>. QED
    BY <1>5, <2>1, <2>2, <2>3, <2>4, <2>5, <2>6, <2>7, <2>8 DEF Chatting
<1>6. CASE EditCard
  BY <1>6, ComposerStutters DEF EditCard, composing
<1>7. CASE UNCHANGED vars
  BY <1>3, <1>7 DEF vars
<1>. QED
  BY <1>1, <1>2, <1>3, <1>4, <1>5, <1>6, <1>7 DEF Next, OnPage, InboxNext

\* A send of the open page, whose answer empties the composer.
IsHere(m) == m.kind = "send" /\ m.here

\* While an answer is awaited, the composer holds what was there when it was asked
\* for, or has come up since.
AwaitedInv ==
    /\ \A m \in pending : IsHere(m) => Tokens(composer) \subseteq Tokens(m) \cup since
    /\ asking # {} => composer.draft \in {None} \cup offered \cup since

LossInv == NothingTypedIsLost /\ AwaitedInv

losing == <<typed, composer, pending, asking, gone, lost, since, offered>>

\* What leaves the composer is accounted for, and so is what comes up.
LEMMA NothingMoreIsLost ==
  ASSUME typed \in Nat, NothingTypedIsLost, typed' = typed \/ typed' = typed + 1,
         gone \subseteq gone', lost \subseteq lost',
         Tokens(composer) \subseteq gone' \cup lost' \cup Tokens(composer)',
         typed' # typed => typed' \in Tokens(composer)'
  PROVE  NothingTypedIsLost'
<1> SUFFICES ASSUME NEW t \in 1 .. typed'
             PROVE  t \in gone' \cup lost' \cup Tokens(composer)'
  BY DEF NothingTypedIsLost, Tokens
<1>1. CASE t \in 1 .. typed
  <2>1. t \in gone \cup lost \cup Tokens(composer)
    BY <1>1 DEF NothingTypedIsLost
  <2>. QED
    BY <2>1
<1>2. CASE t \notin 1 .. typed
  <2>1. t = typed' /\ typed' # typed
    BY <1>2
  <2>. QED
    BY <2>1
<1>. QED
  BY <1>1, <1>2

LEMMA LossStutters ==
  ASSUME LossInv, UNCHANGED losing
  PROVE  LossInv'
<1>1. UNCHANGED <<typed, composer, pending, asking, gone, lost, since, offered>>
  BY DEF losing
<1>. QED
  BY <1>1, Zenon DEF LossInv, NothingTypedIsLost, AwaitedInv, Tokens, IsHere

\* A message is sent off: a send takes along what is in the composer.
LEMMA SendingLosesNothing ==
  ASSUME LossInv, NEW new, pending' = pending \cup {new},
         IsHere(new) => Tokens(new) = Tokens(composer),
         UNCHANGED <<typed, composer, asking, gone, lost, since, offered>>
  PROVE  LossInv'
<1>1. NothingTypedIsLost'
  BY Zenon DEF LossInv, NothingTypedIsLost, Tokens
<1>2. Tokens(composer)' = Tokens(composer)
  BY DEF Tokens
<1>3. ASSUME NEW m \in pending', IsHere(m)
      PROVE  Tokens(composer) \subseteq Tokens(m) \cup since
  BY <1>3 DEF LossInv, AwaitedInv
<1>4. AwaitedInv'
  <2>1. \A m \in pending' : IsHere(m)' => IsHere(m)
    BY DEF IsHere
  <2>2. \A m \in pending' : IsHere(m) => Tokens(composer)' \subseteq Tokens(m)' \cup since'
    BY <1>2, <1>3 DEF Tokens
  <2>3. asking' # {} => composer'.draft \in {None} \cup offered' \cup since'
    BY DEF LossInv, AwaitedInv
  <2>. QED
    BY <2>1, <2>2, <2>3 DEF AwaitedInv
<1>. QED
  BY <1>1, <1>4 DEF LossInv

\* An empty composer has nothing to lose to the answers that are still awaited.
LEMMA EmptyComposer ==
  ASSUME composer' = [draft |-> None, attachments |-> {}]
  PROVE  Tokens(composer)' = {} /\ AwaitedInv'
<1>1. composer'.draft = None /\ composer'.attachments = {}
  OBVIOUS
<1>2. Tokens(composer)' = {}
  BY <1>1 DEF Tokens
<1>. QED
  BY <1>1, <1>2 DEF AwaitedInv

\* As long as an answer is awaited, what has come up since is remembered.
LEMMA SinceStays ==
  ASSUME ComposerTypes, LossInv, UNCHANGED <<composer, offered>>,
         pending' \subseteq pending, asking' \subseteq asking,
         since' = IF Awaited(pending', asking') THEN since ELSE {}
  PROVE  AwaitedInv'
<1>1. ASSUME NEW m \in pending', IsHere(m)
      PROVE  Tokens(composer)' \subseteq Tokens(m)' \cup since'
  <2>1. Awaited(pending', asking')
    BY <1>1, Zenon DEF Awaited, IsHere
  <2>2. Tokens(composer) \subseteq Tokens(m) \cup since
    BY <1>1 DEF LossInv, AwaitedInv
  <2>. QED
    BY <2>1, <2>2 DEF Tokens
<1>2. ASSUME asking' # {}
      PROVE  composer'.draft \in {None} \cup offered' \cup since'
  <2>1. Awaited(pending', asking') /\ asking # {}
    BY <1>2 DEF Awaited
  <2>. QED
    BY <2>1 DEF LossInv, AwaitedInv
<1>3. \A m \in pending' : IsHere(m)' => IsHere(m)
  BY DEF IsHere
<1>. QED
  BY <1>1, <1>2, <1>3 DEF AwaitedInv

LEMMA AnsweringLosesNothing ==
  ASSUME ComposerTypes, LossInv, Answered
  PROVE  LossInv'
<1>1. /\ UNCHANGED <<typed, asking, offered>> /\ typed \in Nat
      /\ since' = IF Awaited(pending', asking) THEN since ELSE {}
  BY NumbersOfTexts DEF Answered
<1>2. PICK m \in pending :
        /\ pending' = pending \ {m}
        /\ \/ \E where : Succeeds(m, where)
           \/ UNCHANGED <<composer, gone, lost>>
  BY DEF Answered
<1>3. ASSUME UNCHANGED <<composer, gone, lost>>
      PROVE  LossInv'
  <2>1. AwaitedInv'
    BY <1>1, <1>2, <1>3, SinceStays
  <2>2. NothingTypedIsLost'
    BY <1>1, <1>3, Zenon DEF LossInv, NothingTypedIsLost, Tokens
  <2>. QED
    BY <2>1, <2>2 DEF LossInv
<1>4. ASSUME NEW where, Succeeds(m, where), IsHere(m)
      PROVE  LossInv'
  <2>1. /\ composer' = [draft |-> None, attachments |-> {}]
        /\ gone' = gone \cup HandedOver(m, where)
        /\ lost' = lost \cup (Tokens(m) \ HandedOver(m, where)) \cup (Tokens(composer) \cap since)
    BY <1>4, Zenon DEF Succeeds, IsHere, Cleared
  <2>2. Tokens(composer) \subseteq Tokens(m) \cup since
    BY <1>4 DEF LossInv, AwaitedInv
  <2>3. Tokens(composer) \subseteq gone' \cup lost'
    BY <2>1, <2>2
  <2>4. NothingTypedIsLost'
    BY <1>1, <2>1, <2>3, NothingMoreIsLost DEF LossInv
  <2>. QED
    BY <2>1, <2>4, EmptyComposer DEF LossInv
<1>5. ASSUME NEW where, Succeeds(m, where), ~ IsHere(m)
      PROVE  LossInv'
  <2>1. UNCHANGED <<composer, gone, lost>>
    BY <1>5, Zenon DEF Succeeds, IsHere
  <2>. QED
    BY <1>3, <2>1
<1>. QED
  BY <1>2, <1>3, <1>4, <1>5

\* Something comes up in the composer, or nothing does: what it replaces the user
\* gave up, and while an answer is awaited it is remembered.
LEMMA ComposingLosesNothing ==
  ASSUME ComposerTypes, LossInv, Compose \/ onPickFiles \/ removeAttachment
  PROVE  LossInv'
<1>1. /\ typed \in Nat /\ (Fresh => typed + 1 # None)
      /\ composer = [draft |-> composer.draft, attachments |-> composer.attachments]
  BY NumbersOfTexts DEF Fresh, Typed, ComposerTypes
<1>2. UNCHANGED <<pending, asking, lost, offered>>
  BY DEF Compose, onPickFiles, removeAttachment
<1>3. \A m \in pending' : IsHere(m)' => m \in pending /\ IsHere(m) /\ Awaited(pending, asking)
  BY <1>2, Zenon DEF IsHere, Awaited
<1>4. asking' # {} => asking # {} /\ Awaited(pending, asking)
  BY <1>2 DEF Awaited
<1>5. ASSUME gone \subseteq gone', typed' = typed \/ typed' = typed + 1,
             Tokens(composer) \subseteq gone' \cup Tokens(composer)',
             typed' # typed => typed' \in Tokens(composer)',
             since \subseteq since',
             Awaited(pending, asking) => Tokens(composer)' \subseteq Tokens(composer) \cup since',
             asking # {} => composer'.draft \in {None, composer.draft} \cup since'
      PROVE  LossInv'
  <2>1. NothingTypedIsLost'
    BY <1>1, <1>2, <1>5, NothingMoreIsLost DEF LossInv
  <2>2. ASSUME NEW m \in pending', IsHere(m)'
        PROVE  Tokens(composer)' \subseteq Tokens(m)' \cup since'
    <3>1. Tokens(composer) \subseteq Tokens(m) \cup since
      BY <1>3, <2>2 DEF LossInv, AwaitedInv
    <3>2. Tokens(m)' = Tokens(m)
      BY DEF Tokens
    <3>. QED
      BY <1>3, <1>5, <2>2, <3>1, <3>2
  <2>3. asking' # {} => composer'.draft \in {None} \cup offered' \cup since'
    BY <1>2, <1>4, <1>5 DEF LossInv, AwaitedInv
  <2>. QED
    BY <2>1, <2>2, <2>3 DEF LossInv, AwaitedInv
<1>6. ASSUME NEW text, setDraft(text), gone' = gone \cup ({composer.draft} \ {None}),
             \/ Fresh /\ text = typed + 1 /\ ComesUp
             \/ text = None /\ UNCHANGED <<typed, since>>
      PROVE  LossInv'
  <2>1. composer'.draft = text /\ composer'.attachments = composer.attachments
    BY <1>1, <1>6 DEF setDraft
  <2>2. Tokens(composer) \subseteq gone' \cup Tokens(composer)'
    BY <1>6, <2>1 DEF Tokens
  <2>3. Tokens(composer)' \subseteq Tokens(composer) \cup ({text} \ {None})
    BY <2>1 DEF Tokens
  <2>4. CASE Fresh /\ text = typed + 1 /\ ComesUp
    <3>1. typed' = typed + 1 /\ typed' \in Tokens(composer)'
      BY <1>1, <2>1, <2>4 DEF Tokens, Fresh
    <3>2. since \subseteq since' /\ (Awaited(pending, asking) => text \in since')
      BY <2>4 DEF ComesUp
    <3>3. asking # {} => text \in since'
      BY <3>2 DEF Awaited
    <3>. QED
      BY <1>5, <1>6, <2>1, <2>2, <2>3, <3>1, <3>2, <3>3
  <2>5. CASE text = None /\ UNCHANGED <<typed, since>>
    BY <1>5, <1>6, <2>1, <2>2, <2>3, <2>5
  <2>. QED
    BY <1>6, <2>4, <2>5
<1>7. CASE Compose
  BY <1>6, <1>7 DEF Compose
<1>8. CASE onPickFiles
  <2>1. /\ composer'.draft = composer.draft
        /\ composer'.attachments = composer.attachments \cup {typed + 1}
        /\ Fresh /\ ComesUp /\ gone' = gone
    BY <1>1, <1>8 DEF onPickFiles
  <2>2. /\ Tokens(composer) \subseteq Tokens(composer)'
        /\ Tokens(composer)' \subseteq Tokens(composer) \cup {typed + 1}
    BY <2>1 DEF Tokens
  <2>3. typed' = typed + 1 /\ typed' \in Tokens(composer)'
    BY <1>1, <2>1 DEF Tokens, Fresh
  <2>4. since \subseteq since' /\ (Awaited(pending, asking) => typed + 1 \in since')
    BY <2>1 DEF ComesUp
  <2>. QED
    BY <1>5, <2>1, <2>2, <2>3, <2>4
<1>9. CASE removeAttachment
  <2>1. PICK file \in composer.attachments :
          /\ composer'.draft = composer.draft
          /\ composer'.attachments = composer.attachments \ {file}
          /\ gone' = gone \cup {file}
    BY <1>1, <1>9 DEF removeAttachment
  <2>2. typed' = typed /\ since' = since
    BY <1>9 DEF removeAttachment
  <2>3. /\ Tokens(composer)' \subseteq Tokens(composer)
        /\ Tokens(composer) \subseteq gone' \cup Tokens(composer)'
    BY <2>1 DEF Tokens
  <2>. QED
    BY <1>5, <2>1, <2>2, <2>3
<1>. QED
  BY <1>7, <1>8, <1>9

LEMMA AskingLosesNothing ==
  ASSUME ComposerTypes, LossInv, Ask
  PROVE  LossInv'
<1>1. /\ UNCHANGED <<typed, composer, pending, gone, lost, since>>
      /\ offered' = offered \cup ({composer.draft} \ {None})
  BY DEF Ask
<1>2. NothingTypedIsLost'
  BY <1>1, Zenon DEF LossInv, NothingTypedIsLost, Tokens
<1>3. ASSUME NEW m \in pending', IsHere(m)'
      PROVE  Tokens(composer)' \subseteq Tokens(m)' \cup since'
  BY <1>1, <1>3, Zenon DEF LossInv, AwaitedInv, Tokens, IsHere
<1>4. composer'.draft \in {None} \cup offered' \cup since'
  BY <1>1
<1>. QED
  BY <1>2, <1>3, <1>4 DEF LossInv, AwaitedInv

\* The assistant's answer takes away what was offered to it, or has come up since.
LEMMA SuggestingLosesNothing ==
  ASSUME ComposerTypes, LossInv, Suggested
  PROVE  LossInv'
<1>1. /\ typed \in Nat /\ (Fresh => typed + 1 # None)
      /\ composer = [draft |-> composer.draft, attachments |-> composer.attachments]
  BY NumbersOfTexts DEF Fresh, Typed, ComposerTypes
<1>2. /\ asking # {} /\ asking' \subseteq asking /\ pending' = pending
      /\ offered' = IF asking' = {} THEN {} ELSE offered
  BY DEF Suggested
<1>3. composer.draft \in {None} \cup offered \cup since
  BY <1>2 DEF LossInv, AwaitedInv
<1>4. CASE /\ Fresh /\ setDraft(typed + 1)
           /\ gone' = gone \cup ({composer.draft} \cap offered)
           /\ lost' = lost \cup ({composer.draft} \cap since)
           /\ since' = IF Awaited(pending, asking') THEN since \cup {typed + 1} ELSE {}
  <2>1. /\ composer'.draft = typed + 1 /\ composer'.attachments = composer.attachments
        /\ typed' = typed + 1
    BY <1>1, <1>4 DEF setDraft, Fresh
  <2>2. /\ Tokens(composer) \subseteq gone' \cup lost' \cup Tokens(composer)'
        /\ typed' \in Tokens(composer)'
        /\ Tokens(composer)' \subseteq Tokens(composer) \cup {typed + 1}
    BY <1>1, <1>3, <1>4, <2>1 DEF Tokens
  <2>3. NothingTypedIsLost'
    BY <1>1, <1>4, <2>1, <2>2, NothingMoreIsLost DEF LossInv
  <2>4. ASSUME NEW m \in pending', IsHere(m)'
        PROVE  Tokens(composer)' \subseteq Tokens(m)' \cup since'
    <3>1. IsHere(m) /\ Awaited(pending, asking')
      BY <1>2, <2>4, Zenon DEF IsHere, Awaited
    <3>2. Tokens(composer) \subseteq Tokens(m) \cup since /\ since' = since \cup {typed + 1}
      BY <1>2, <1>4, <3>1 DEF LossInv, AwaitedInv
    <3>3. Tokens(m)' = Tokens(m)
      BY DEF Tokens
    <3>. QED
      BY <2>2, <3>2, <3>3
  <2>5. asking' # {} => composer'.draft \in since'
    BY <1>4, <2>1 DEF Awaited
  <2>. QED
    BY <2>3, <2>4, <2>5 DEF LossInv, AwaitedInv
<1>5. CASE /\ UNCHANGED <<composer, typed, gone, lost>>
           /\ since' = IF Awaited(pending, asking') THEN since ELSE {}
  <2>1. NothingTypedIsLost'
    BY <1>5, Zenon DEF LossInv, NothingTypedIsLost, Tokens
  <2>2. ASSUME NEW m \in pending', IsHere(m)'
        PROVE  Tokens(composer)' \subseteq Tokens(m)' \cup since'
    <3>1. IsHere(m) /\ Awaited(pending, asking')
      BY <1>2, <2>2, Zenon DEF IsHere, Awaited
    <3>2. Tokens(composer) \subseteq Tokens(m) \cup since /\ since' = since
      BY <1>2, <1>5, <3>1 DEF LossInv, AwaitedInv
    <3>. QED
      BY <1>5, <3>2 DEF Tokens
  <2>3. asking' # {} => offered' = offered /\ since' = since
    BY <1>2, <1>5 DEF Awaited
  <2>4. asking' # {} => composer'.draft \in {None} \cup offered' \cup since'
    BY <1>3, <1>5, <2>3
  <2>. QED
    BY <2>1, <2>2, <2>4 DEF LossInv, AwaitedInv
<1>. QED
  BY <1>4, <1>5 DEF Suggested

LEMMA LeavingLosesNothing ==
  ASSUME ComposerTypes, LossInv, NEW c, InboxUnmounted(c)
  PROVE  LossInv'
<1>1. /\ composer' = [draft |-> None, attachments |-> {}]
      /\ gone' = gone \cup Tokens(composer) /\ UNCHANGED <<typed, lost>> /\ typed \in Nat
  BY NumbersOfTexts DEF InboxUnmounted
<1>2. NothingTypedIsLost'
  BY <1>1, NothingMoreIsLost DEF LossInv
<1>. QED
  BY <1>1, <1>2, EmptyComposer DEF LossInv

LEMMA LossStep ==
  ASSUME ComposerTypes, LossInv, [Next]_vars PROVE LossInv'
<1>. USE DEF boards, view, writing, history
<1>1. CASE OpenPage \/ openConversation
  BY <1>1, LeavingLosesNothing DEF OpenPage, openConversation
<1>2. CASE UNCHANGED inbox
  BY <1>2, LossStutters DEF inbox, losing
<1>3. CASE Loading
  BY <1>3, LoadingReads, LossStutters DEF losing
<1>4. CASE Chatting
  <2>1. CASE handleSend
    <3>. DEFINE new == Send(activeId, composer, TRUE)
    <3>1. Tokens(new) = Tokens(composer)
      BY DEF Send, Tokens
    <3>2. /\ pending' = pending \cup {new}
          /\ UNCHANGED <<typed, composer, asking, gone, lost, since, offered>>
      BY <2>1 DEF handleSend
    <3>. QED
      BY <3>1, <3>2, SendingLosesNothing
  <2>2. CASE patch \/ moveTo
    <3>1. PICK c, lead : pending' = pending \cup {Patch(c, lead)}
      BY <2>2 DEF patch, moveTo
    <3>2. ~ IsHere(Patch(c, lead))
      BY DEF IsHere, Patch
    <3>3. UNCHANGED <<typed, composer, asking, gone, lost, since, offered>>
      BY <2>2 DEF patch, moveTo
    <3>. QED
      BY <3>1, <3>2, <3>3, SendingLosesNothing
  <2>3. CASE Elsewhere
    BY <2>3, LossStutters DEF Elsewhere, losing
  <2>4. CASE selectConversation \/ clearSelection \/ setStatusFilter \/ toggleFrom \/ clearFilters
    BY <2>4, LossStutters
       DEF selectConversation, clearSelection, setStatusFilter, toggleFrom, clearFilters, losing
  <2>. QED
    BY <1>4, <2>1, <2>2, <2>3, <2>4, AnsweringLosesNothing, ComposingLosesNothing,
       AskingLosesNothing, SuggestingLosesNothing DEF Chatting
<1>5. CASE EditCard
  BY <1>5, LossStutters DEF EditCard, losing
<1>6. CASE UNCHANGED vars
  BY <1>2, <1>6 DEF vars
<1>. QED
  BY <1>1, <1>2, <1>3, <1>4, <1>5, <1>6 DEF Next, OnPage, InboxNext

\* What comes up in the composer leaves it only when it is handed over or given up,
\* or by the two losses that lost records: an answer that takes away what has come
\* up since it was asked for, and files the API leaves out.  And a text goes out
\* once, unless the API reported a failure after storing it (handleSend).  For any
\* number of conversations, texts, failures, and answers of the assistant.
THEOREM TypedOnce == Spec => []TypedIsSentOnce
<1>1. Init => ComposerInv
  BY ComposerInit DEF Init
<1>2. ComposerInv /\ [Next]_vars => ComposerInv'
  BY ComposerStep
<1>3. Init => LossInv
  <2>1. MaxTyped \in Nat
    BY InboxAssumption DEF InboxAssumption
  <2>. QED
    BY <2>1 DEF Init, InboxInit, LossInv, NothingTypedIsLost, AwaitedInv
<1>4. ComposerInv /\ LossInv /\ [Next]_vars => LossInv'
  BY LossStep DEF ComposerInv
<1>5. ComposerInv /\ LossInv => TypedIsSentOnce
  BY DEF ComposerInv, LossInv, PostedInv, TypedIsSentOnce, SentOnce
<1>. QED
  BY <1>1, <1>2, <1>3, <1>4, <1>5, PTL DEF Spec

-----------------------------------------------------------------------------
(* The lists                                                                *)

IsSnapshot(l) == l = [lead |-> l.lead, rev |-> l.rev, from |-> l.from, late |-> l.late]

\* What was read before this browser's last change is marked as such.
IsRecent(l, rev) == l.from = "mock" \/ l.late = TRUE \/ l.rev >= rev

ListInvOf(l, rev) ==
    /\ l = [shown |-> l.shown, stale |-> l.stale, asked |-> l.asked, got |-> l.got]
    /\ l.got # None => IsSnapshot(l.got) /\ IsRecent(l.got, rev)
    /\ l.shown # None => IsSnapshot(l.shown) /\ (l.stale = TRUE \/ IsRecent(l.shown, rev))

\* The lists owe nothing the API does not have.
ListsInv ==
    /\ store["live"].rev \in Nat /\ own.rev \in Nat /\ own.rev <= store["live"].rev
    /\ list = [b \in ListKeys |-> list[b]]
    /\ \A b \in ListKeys : ListInvOf(list[b], own.rev)

listing == <<store, list, own>>

LEMMA ListsInit ==
  ASSUME InboxInit PROVE ListsInv
<1>1. store["live"].rev = 0 /\ own.rev = 0
  BY DEF InboxInit, Sources
<1>2. list = [b \in ListKeys |->
                [shown |-> None, stale |-> FALSE, asked |-> FALSE, got |-> None]]
  BY DEF InboxInit
<1>3. \A b \in ListKeys : ListInvOf(list[b], own.rev)
  BY <1>2 DEF ListInvOf
<1>4. list = [b \in ListKeys |-> list[b]]
  BY <1>2
<1>. QED
  BY <1>1, <1>3, <1>4 DEF ListsInv

LEMMA ListsStutter ==
  ASSUME ListsInv, UNCHANGED listing PROVE ListsInv'
<1>1. UNCHANGED <<store, list, own>>
  BY DEF listing
<1>. QED
  BY <1>1 DEF ListsInv, ListInvOf, IsRecent

\* One list is asked for, read, shown or dropped.
LEMMA OneListChanges ==
  ASSUME ListsInv, UNCHANGED <<store, own>>, NEW b, NEW l, ListInvOf(l, own.rev),
         list' = [list EXCEPT ![b] = l]
  PROVE  ListsInv'
<1>1. \A d \in ListKeys : list'[d] = l \/ list'[d] = list[d]
  BY DEF ListsInv
<1>2. \A d \in ListKeys : ListInvOf(list'[d], own.rev)
  BY <1>1 DEF ListsInv
<1>3. list' = [d \in ListKeys |-> list'[d]]
  BY DEF ListsInv
<1>. QED
  BY <1>2, <1>3 DEF ListsInv, ListInvOf, IsRecent

LEMMA StoredGrows ==
  ASSUME ListsInv, NEW m, NEW where, Stored(m, where)
  PROVE  store'["live"].rev \in Nat /\ store["live"].rev <= store'["live"].rev
<1>1. store'["live"] = store["live"] \/ store'["live"] = Applied(m, "live", store["live"])
  BY DEF Stored, Sources
<1>. QED
  BY <1>1 DEF Applied, ListsInv

LEMMA RefreshedKeeps ==
  ASSUME NEW l, NEW active, NEW rev, ListInvOf(l, rev)
  PROVE  /\ Refreshed(l, active) =
              [shown |-> Refreshed(l, active).shown, stale |-> Refreshed(l, active).stale,
               asked |-> Refreshed(l, active).asked, got |-> Refreshed(l, active).got]
         /\ Refreshed(l, active).shown = l.shown
         /\ Refreshed(l, active).stale = TRUE
         /\ Refreshed(l, active).got # None =>
              IsSnapshot(Refreshed(l, active).got) /\ Refreshed(l, active).got.late = TRUE
<1>. DEFINE g == IF l.got = None THEN None ELSE [l.got EXCEPT !.late = TRUE]
<1>1. g # None => IsSnapshot(g) /\ g.late = TRUE
  <2>1. ASSUME l.got # None, NEW t
        PROVE  [l.got EXCEPT !.late = t] =
               [lead |-> l.got.lead, rev |-> l.got.rev, from |-> l.got.from, late |-> t]
    <3>1. IsSnapshot(l.got)
      BY <2>1 DEF ListInvOf
    <3>. QED
      BY <3>1 DEF IsSnapshot
  <2>2. l.got # None => g =
               [lead |-> l.got.lead, rev |-> l.got.rev, from |-> l.got.from, late |-> TRUE]
    BY <2>1, Zenon
  <2>3. g # None => l.got # None
    OBVIOUS
  <2>. HIDE DEF g
  <2>. QED
    BY <2>2, <2>3 DEF IsSnapshot
<1>2. \/ Refreshed(l, active) = [shown |-> l.shown, stale |-> TRUE, asked |-> TRUE, got |-> None]
      \/ Refreshed(l, active) = [shown |-> l.shown, stale |-> TRUE, asked |-> l.asked, got |-> g]
  BY Zenon DEF Refreshed
<1>. HIDE DEF g
<1>. QED
  BY <1>1, <1>2

\* Every list is refreshed with the answer that made the change.
LEMMA SuccessKeeps ==
  ASSUME ListsInv, NEW m, NEW where, Succeeds(m, where) PROVE ListsInv'
<1>1. /\ Stored(m, where) /\ Owed(m, where)
      /\ list' = [b \in ListKeys |-> Refreshed(list[b], openList = b)]
  BY DEF Succeeds, invalidateConversations
<1>2. store'["live"].rev \in Nat /\ own'.rev \in Nat /\ own'.rev <= store'["live"].rev
  BY <1>1, StoredGrows DEF Owed, ListsInv
<1>3. list' = [b \in ListKeys |-> list'[b]]
  BY <1>1
<1>4. ASSUME NEW b \in ListKeys PROVE ListInvOf(list'[b], own'.rev)
  <2>1. ListInvOf(list[b], own.rev)
    BY DEF ListsInv
  <2>2. list'[b] = Refreshed(list[b], openList = b)
    BY <1>1
  <2>3. /\ list'[b] = [shown |-> list'[b].shown, stale |-> list'[b].stale,
                      asked |-> list'[b].asked, got |-> list'[b].got]
        /\ list'[b].shown = list[b].shown
        /\ list'[b].stale = TRUE
        /\ list'[b].got # None => IsSnapshot(list'[b].got) /\ list'[b].got.late = TRUE
    <3>1. ASSUME NEW active, NEW r, r = Refreshed(list[b], active)
          PROVE  /\ r = [shown |-> r.shown, stale |-> r.stale, asked |-> r.asked, got |-> r.got]
                 /\ r.shown = list[b].shown
                 /\ r.stale = TRUE
                 /\ r.got # None => IsSnapshot(r.got) /\ r.got.late = TRUE
      BY <2>1, <3>1, RefreshedKeeps
    <3>. QED
      BY ONLY <2>2, <3>1, Zenon
  <2>. QED
    BY <2>1, <2>3 DEF ListInvOf, IsRecent
<1>. QED
  BY <1>2, <1>3, <1>4 DEF ListsInv

LEMMA StoreChanges ==
  ASSUME ListsInv, NEW m, NEW where, Stored(m, where), UNCHANGED <<list, own>>
  PROVE  ListsInv'
<1>1. store'["live"].rev \in Nat /\ store["live"].rev <= store'["live"].rev
  BY StoredGrows
<1>. QED
  BY <1>1 DEF ListsInv, ListInvOf, IsRecent

LEMMA ListsAnswered ==
  ASSUME ListsInv, Answered PROVE ListsInv'
<1>1. PICK m \in pending :
       \/ Succeeds(m, {"live"})
       \/ Succeeds(m, {"live", "mock"})
       \/ Succeeds(m, {"mock"})
       \/ UNCHANGED <<store, list, own>>
       \/ Stored(m, {"live"}) /\ UNCHANGED <<list, own>>
  BY DEF Answered, boards
<1>. QED
  BY <1>1, SuccessKeeps, StoreChanges, ListsStutter DEF listing

\* Asking, reading, showing and dropping a list.
LEMMA ListsLoad ==
  ASSUME ListsInv, Loading PROVE ListsInv'
<1>1. ASSUME NEW b \in ListKeys, useConversations(b) PROVE ListsInv'
  <2>. DEFINE l == [shown |-> list[b].shown, stale |-> list[b].stale,
                    asked |-> TRUE, got |-> list[b].got]
  <2>1. ListInvOf(list[b], own.rev) /\ list' = [list EXCEPT ![b].asked = TRUE] /\ UNCHANGED <<store, own>>
    BY <1>1 DEF useConversations, ListsInv, history
  <2>2. \A t : [list[b] EXCEPT !.asked = t] =
               [shown |-> list[b].shown, stale |-> list[b].stale, asked |-> t, got |-> list[b].got]
    BY <2>1 DEF ListInvOf
  <2>3. [list[b] EXCEPT !.asked = TRUE] = l
    BY ONLY <2>2, Zenon
  <2>. HIDE DEF l
  <2>4. list' = [list EXCEPT ![b] = l]
    BY <2>1, <2>3
  <2>5. ListInvOf(l, own.rev)
    BY <2>1 DEF ListInvOf, l
  <2>. QED
    BY <2>1, <2>4, <2>5, OneListChanges
<1>2. ASSUME NEW b \in ListKeys, getConversations(b) PROVE ListsInv'
  <2>1. ListInvOf(list[b], own.rev) /\ UNCHANGED <<store, own>>
    BY <1>2 DEF getConversations, ListsInv, history
  <2>2. \A t : [list[b] EXCEPT !.asked = t] =
               [shown |-> list[b].shown, stale |-> list[b].stale, asked |-> t, got |-> list[b].got]
    BY <2>1 DEF ListInvOf
  <2>3. \A t : [list[b] EXCEPT !.got = t] =
               [shown |-> list[b].shown, stale |-> list[b].stale, asked |-> list[b].asked, got |-> t]
    BY <2>1 DEF ListInvOf
  <2>4. ASSUME NEW src \in Sources, list' = [list EXCEPT ![b].got = Snapshot(src)]
        PROVE  ListsInv'
    <3>. DEFINE s == Snapshot(src)
    <3>. DEFINE l == [shown |-> list[b].shown, stale |-> list[b].stale,
                      asked |-> list[b].asked, got |-> s]
    <3>1. IsSnapshot(s) /\ IsRecent(s, own.rev)
      BY DEF Snapshot, IsSnapshot, IsRecent, ListsInv, Sources
    <3>2. list' = [list EXCEPT ![b] = [list[b] EXCEPT !.got = s]]
      BY <2>4
    <3>. HIDE DEF s
    <3>3. [list[b] EXCEPT !.got = s] = l
      BY <2>3
    <3>4. ListInvOf(l, own.rev)
      BY <2>1, <3>1 DEF ListInvOf, l
    <3>. QED
      BY <2>1, <3>2, <3>3, <3>4, OneListChanges
  <2>5. ASSUME list' = [list EXCEPT ![b].asked = FALSE] PROVE ListsInv'
    <3>. DEFINE l == [shown |-> list[b].shown, stale |-> list[b].stale,
                      asked |-> FALSE, got |-> list[b].got]
    <3>1. [list[b] EXCEPT !.asked = FALSE] = l
      BY ONLY <2>2, Zenon
    <3>. HIDE DEF l
    <3>2. list' = [list EXCEPT ![b] = l]
      BY <2>5, <3>1
    <3>3. ListInvOf(l, own.rev)
      BY <2>1 DEF ListInvOf, l
    <3>. QED
      BY <2>1, <3>2, <3>3, OneListChanges
  <2>. QED
    BY <1>2, <2>4, <2>5 DEF getConversations, Sources
<1>3. ASSUME NEW b \in ListKeys, ListArrives(b) PROVE ListsInv'
  <2>. DEFINE l == [shown |-> list[b].got, stale |-> FALSE, asked |-> FALSE, got |-> None]
  <2>1. /\ ListInvOf(list[b], own.rev) /\ list[b].got # None /\ UNCHANGED <<store, own>>
        /\ list' = [list EXCEPT ![b] = l]
    BY <1>3 DEF ListArrives, ListsInv, history
  <2>2. ListInvOf(l, own.rev)
    BY <2>1 DEF ListInvOf
  <2>. HIDE DEF l
  <2>. QED
    BY <2>1, <2>2, OneListChanges
<1>4. CASE UNCHANGED list
  BY <1>4, LoadingReads, ListsStutter DEF listing, history
<1>5. CASE fetchNextPage \/ \E c \in All : useInfiniteMessages(c) \/ getMessages(c) \/ FirstPageArrives(c)
  BY <1>4, <1>5 DEF fetchNextPage, useInfiniteMessages, getMessages, FirstPageArrives
<1>. QED
  BY <1>1, <1>2, <1>3, <1>5 DEF Loading

LEMMA ListsStep ==
  ASSUME ListsInv, [Next]_vars PROVE ListsInv'
<1>. USE DEF boards, view, writing, history
<1>1. CASE OpenPage \/ openConversation
  <2>1. UNCHANGED listing
    BY <1>1 DEF OpenPage, openConversation, InboxUnmounted, listing
  <2>. QED
    BY <2>1, ListsStutter
<1>2. CASE UNCHANGED inbox
  BY <1>2, ListsStutter DEF inbox, listing
<1>3. CASE Loading
  BY <1>3, ListsLoad
<1>4. CASE Chatting
  <2>1. CASE Answered
    BY <2>1, ListsAnswered
  <2>2. CASE Elsewhere
    BY <2>2, StoreChanges DEF Elsewhere
  <2>3. CASE ~Answered /\ ~Elsewhere
    <3>1. UNCHANGED listing
      BY <1>4, <2>3 DEF Chatting, handleSend, patch, moveTo, Compose, onPickFiles,
         removeAttachment, Ask, Suggested, selectConversation, clearSelection,
         setStatusFilter, toggleFrom, clearFilters, listing
    <3>. QED
      BY <3>1, ListsStutter
  <2>. QED
    BY <2>1, <2>2, <2>3
<1>5. CASE EditCard
  BY <1>5, ListsStutter DEF EditCard, listing
<1>6. CASE UNCHANGED vars
  BY <1>2, <1>6 DEF vars
<1>. QED
  BY <1>1, <1>2, <1>3, <1>4, <1>5, <1>6 DEF Next, OnPage, InboxNext

\* A list that is up to date for the browser shows every change this browser got an
\* answer for, unless an answer read before it arrived late (invalidateQueries): for
\* any conversations, and whatever other browsers change meanwhile.
THEOREM ListsShowOwnChanges == Spec => []OwnChangesShown
<1>1. Init => ListsInv
  BY ListsInit DEF Init
<1>2. ListsInv /\ [Next]_vars => ListsInv'
  BY ListsStep
<1>3. ListsInv => OwnChangesShown
  <2>1. ASSUME ListsInv, NEW b \in ListKeys, ~list[b].stale, list[b].shown # None
        PROVE  list[b].shown.from = "mock" \/ list[b].shown.late \/ list[b].shown.rev >= own.rev
    <3>1. list[b].stale # TRUE
      BY <2>1, Zenon
    <3>2. IsRecent(list[b].shown, own.rev)
      BY <2>1, <3>1 DEF ListsInv, ListInvOf
    <3>3. CASE list[b].shown.late = TRUE
      BY <3>3, Zenon
    <3>4. CASE list[b].shown.from = "mock" \/ list[b].shown.rev >= own.rev
      BY <3>4, Zenon
    <3>. QED
      BY <3>2, <3>3, <3>4 DEF IsRecent
  <2>. QED
    BY <2>1, Zenon DEF OwnChangesShown
<1>. QED
  BY <1>1, <1>2, <1>3, PTL DEF Spec

-----------------------------------------------------------------------------
(* The threads                                                              *)

PageSet == [items : Seq(Nat), total : Nat, from : Sources]

AllLive(ps) == \A i \in 1 .. Len(ps) : ps[i].from = "live"

\* Numbers that begin at most at t and fall by one at most.
Falling(s, t) ==
    /\ \A i \in 1 .. Len(s) : 1 <= s[i] /\ s[i] + i <= t + 1
    /\ \A i \in 1 .. Len(s) : i + 1 \in 1 .. Len(s) => s[i] <= s[i + 1] + 1

\* What the pages of a thread show, when the API has n messages: their numbers fall
\* by one at most, from that of the newest of the first page, and to 1 once a page is
\* not full.
Steady(ps, n) ==
    LET s == flattenInfiniteItems(ps)
        t == Last(ps).total
    IN /\ t <= n /\ Len(s) <= t /\ (Len(Last(ps).items) < Limit => Len(s) = t)
       /\ Falling(s, t)
       /\ ps[1].total >= 1 => Len(s) >= 1 /\ s[1] = ps[1].total

Loaded(ps, n) == ps # <<>> /\ AllLive(ps) => Steady(ps, n)

\* The first of the pages has the message k.
Holds(ps, k) == ps # <<>> /\ AllLive(ps) => ps[1].total >= k

\* Numbers joined to those before them.
LEMMA FallingOn ==
  ASSUME NEW n \in Nat, NEW s \in Seq(Nat), NEW x \in Seq(Nat), NEW r, JoinedOf(r, s, x, Nat),
         Falling(s, n), Len(s) + Len(x) <= n, \A i \in 1 .. Len(x) : x[i] = n + 1 - (Len(s) + i)
  PROVE  Falling(r, n)
<1> DEFINE a == Len(s)
           b == Len(x)
<1>1. a \in Nat /\ b \in Nat /\ Len(r) = a + b /\ a + b <= n
  BY LenProperties DEF JoinedOf
<1>2. \A i \in 1 .. a : s[i] \in Nat /\ 1 <= s[i] /\ s[i] + i <= n + 1
  BY ElementOfSeq DEF Falling
<1>3. \A i \in 1 .. a : i + 1 \in 1 .. a => s[i] <= s[i + 1] + 1
  BY DEF Falling
<1>4. \A i \in 1 .. a + b : r[i] = IF i <= a THEN s[i] ELSE x[i - a]
  BY DEF JoinedOf
<1>5. \A i \in 1 .. b : x[i] = n + 1 - (a + i)
  OBVIOUS
<1> HIDE DEF a, b
<1>6. \A i \in 1 .. a + b : i <= a => i \in 1 .. a /\ r[i] = s[i]
  BY <1>1, <1>4
<1>7. \A i \in 1 .. a + b : ~(i <= a) => r[i] = n + 1 - i
  <2>1. ASSUME NEW i \in 1 .. a + b, ~(i <= a) PROVE r[i] = n + 1 - i
    <3>1. i - a \in 1 .. b /\ a + (i - a) = i
      BY <1>1, <2>1
    <3>. QED
      BY <1>4, <1>5, <2>1, <3>1
  <2>. QED
    BY <2>1
<1>8. ASSUME NEW i \in 1 .. a + b PROVE r[i] \in Nat /\ 1 <= r[i] /\ r[i] + i <= n + 1
  <2>1. CASE i <= a
    BY <1>2, <1>6, <2>1
  <2>2. CASE ~(i <= a)
    BY <1>1, <1>7, <2>2
  <2>. QED
    BY <2>1, <2>2
<1>9. ASSUME NEW i \in 1 .. a + b, i + 1 \in 1 .. a + b PROVE r[i] <= r[i + 1] + 1
  <2>1. CASE i + 1 <= a
    <3>1. i \in 1 .. a /\ i + 1 \in 1 .. a /\ i <= a
      BY <1>1, <2>1
    <3>. QED
      BY <1>3, <1>6, <1>9, <2>1, <3>1
  <2>2. CASE ~(i + 1 <= a)
    <3>1. r[i + 1] = n + 1 - (i + 1)
      BY <1>7, <1>9, <2>2
    <3>2. r[i] \in Nat /\ r[i] + i <= n + 1
      BY <1>8
    <3>. QED
      BY <1>1, <3>1, <3>2
  <2>. QED
    BY <2>1, <2>2
<1>. QED
  BY <1>1, <1>8, <1>9 DEF Falling

\* Numbers that fall by one at most and end at 1 leave none out.
LEMMA FallingToOne ==
  ASSUME NEW n \in Nat, NEW s \in Seq(Nat), Falling(s, n), Len(s) >= 1, s[Len(s)] = 1,
         NEW i \in 1 .. Len(s), NEW k \in 1 .. s[i]
  PROVE  \E j \in 1 .. Len(s) : s[j] = k
<1>1. Len(s) \in Nat /\ \A j \in 1 .. Len(s) : s[j] \in Nat
  BY LenProperties, ElementOfSeq
<1> DEFINE L == Len(s)
           T == {d \in 0 .. L : L - d \in 1 .. L /\ s[L - d] >= k}
<1>2. L - i \in T
  <2>1. L - i \in 0 .. L /\ L - (L - i) = i
    BY <1>1
  <2>2. s[i] \in Nat /\ k <= s[i]
    BY <1>1
  <2>. QED
    BY <2>1, <2>2
<1>3. PICK d \in T : \A e \in T : d <= e
  <2>1. T \subseteq Nat
    OBVIOUS
  <2>2. T # {}
    BY <1>2
  <2>. HIDE DEF T
  <2>. QED
    BY <2>1, <2>2, Smallest
<1>4. d \in Nat /\ L - d \in 1 .. L /\ s[L - d] >= k /\ k \in Nat /\ k >= 1 /\ d <= L
  BY <1>1, <1>3
<1>5. CASE d = 0
  <2>1. L - d = L /\ s[L] = 1
    BY <1>1, <1>5
  <2>. QED
    BY <1>1, <1>4, <2>1
<1>6. CASE d # 0
  <2>1. d - 1 \in 0 .. L /\ ~(d <= d - 1) /\ L - (d - 1) = L - d + 1
    BY <1>1, <1>4, <1>6
  <2>2. L - (d - 1) \in 1 .. L
    BY <1>1, <1>4, <1>6
  <2>3. ~(s[L - d + 1] >= k)
    BY <1>3, <2>1, <2>2
  <2>4. s[L - d] <= s[L - d + 1] + 1
    BY <1>4, <2>1, <2>2 DEF Falling
  <2>5. s[L - d] \in Nat /\ s[L - d + 1] \in Nat
    BY <1>1, <1>4, <2>1, <2>2
  <2>6. \A x, y, z \in Nat : x >= z /\ ~(y >= z) /\ x <= y + 1 => x = z
    OBVIOUS
  <2>7. s[L - d] = k
    BY <1>4, <2>3, <2>4, <2>5, <2>6, Zenon
  <2>. QED
    BY <1>4, <2>7
<1>. QED
  BY <1>5, <1>6

LEMMA PagesOf ==
  ASSUME NEW ps \in Seq(PageSet)
  PROVE  /\ Len(ps) \in Nat /\ \A i \in 1 .. Len(ps) : ps[i] \in PageSet
         /\ \A p \in PageSet : p.items \in Seq(Nat) /\ p.total \in Nat /\ p.from \in Sources
         /\ flattenInfiniteItems(ps) \in Seq(Nat) /\ Len(flattenInfiniteItems(ps)) \in Nat
         /\ ps # <<>> => Len(ps) \in 1 .. Len(ps) /\ 1 \in 1 .. Len(ps)
<1>1. Len(ps) \in Nat /\ \A i \in 1 .. Len(ps) : ps[i] \in PageSet
  BY LenProperties, ElementOfSeq
<1>2. \A p \in PageSet : p.items \in Seq(Nat) /\ p.total \in Nat /\ p.from \in Sources
  BY DEF PageSet
<1>3. flattenInfiniteItems(ps) \in Seq(Nat)
  <2>1. \A p \in PageSet : p.items \in Seq(Nat)
    BY <1>2
  <2>. QED
    BY <2>1, FlattenType
<1>4. Len(flattenInfiniteItems(ps)) \in Nat
  BY <1>3, LenProperties
<1>5. ps # <<>> => Len(ps) \in 1 .. Len(ps) /\ 1 \in 1 .. Len(ps)
  BY <1>1, EmptySeq
<1>. QED
  BY <1>1, <1>2, <1>3, <1>4, <1>5

\* The messages of a conversation, the newest first.
Newest(n) == [i \in 1 .. n |-> n + 1 - i]

\* A page more, read where the pages before it end: messages that arrived meanwhile
\* are shown twice, and none is left out.
LEMMA PageAdded ==
  ASSUME NEW n \in Nat, NEW ps \in Seq(PageSet), ps = <<>> \/ Steady(ps, n),
         NEW p \in PageSet, p.items = PageOf(Newest(n), loadedCount(ps), Limit).items, p.total = n
  PROVE  Steady(Append(ps, p), n)
<1> DEFINE s == flattenInfiniteItems(ps)
           x == p.items
           more == Append(ps, p)
           r == flattenInfiniteItems(more)
           off == Len(s)
<1>1. /\ \A q \in PageSet : q.items \in Seq(Nat) /\ q.total \in Nat
      /\ s \in Seq(Nat) /\ off \in Nat /\ x \in Seq(Nat) /\ Len(x) \in Nat
  BY PagesOf, LenProperties
<1>2. Limit \in Nat \ {0}
  BY InboxAssumption DEF InboxAssumption
<1>3. more \in Seq(PageSet) /\ Len(more) = Len(ps) + 1 /\ Len(ps) \in Nat
      /\ more[Len(ps) + 1] = p /\ \A i \in 1 .. Len(ps) : more[i] = ps[i]
  BY AppendProperties, LenProperties
<1>4. Last(more) = p
  BY <1>3 DEF Last
<1>5. s \in Seq(Nat) /\ r = Then(s, x)
  <2>1. \A q \in PageSet : q.items \in Seq(Nat)
    BY <1>1
  <2>. QED
    BY <2>1, FlattenOfMore
<1>6. ps # <<>> =>
        /\ Last(ps).total \in Nat /\ Last(ps).total <= n /\ Len(s) <= Last(ps).total
        /\ Falling(s, Last(ps).total)
        /\ ps[1].total >= 1 => Len(s) >= 1 /\ s[1] = ps[1].total
  <2>1. ps # <<>> => Last(ps) \in PageSet
    BY PagesOf DEF Last
  <2>. QED
    BY <1>1, <2>1 DEF Steady
<1>7. ps = <<>> => s = <<>> /\ off = 0
  BY FlattenOfNone, EmptySeq
<1>8. off = loadedCount(ps)
  BY DEF loadedCount
<1> HIDE DEF s, x, more, r, off
<1>9. off <= n /\ Falling(s, n)
  <2>1. CASE ps = <<>>
    <3>1. Len(s) = 0
      BY <1>7, <2>1 DEF off
    <3>. QED
      BY <1>7, <2>1, <3>1 DEF Falling
  <2>2. CASE ps # <<>>
    <3>1. \A i \in 1 .. off : s[i] \in Nat /\ 1 <= s[i] /\ s[i] + i <= Last(ps).total + 1
      BY <1>1, <1>6, <2>2, ElementOfSeq DEF Falling, off
    <3>2. \A i \in 1 .. off : 1 <= s[i] /\ s[i] + i <= n + 1
      BY <1>1, <1>6, <2>2, <3>1
    <3>3. Falling(s, n)
      BY <1>6, <2>2, <3>2 DEF Falling, off
    <3>. QED
      BY <1>1, <1>6, <2>2, <3>3 DEF off
  <2>. QED
    BY <2>1, <2>2
<1>10. Newest(n) \in Seq(Nat) /\ Len(Newest(n)) = n /\ \A i \in 1 .. n : Newest(n)[i] = n + 1 - i
  <2>1. Newest(n) \in [1 .. n -> Nat]
    BY DEF Newest
  <2>2. \A i \in 1 .. n : Newest(n)[i] = n + 1 - i
    BY DEF Newest
  <2>. HIDE DEF Newest
  <2>. QED
    BY <2>1, <2>2
<1>11. /\ off + Len(x) <= n /\ (Len(x) < Limit => off + Len(x) = n)
       /\ \A i \in 1 .. Len(x) : x[i] = Newest(n)[off + i]
  <2>1. Continues(x, Newest(n), off, Limit, Nat)
    BY <1>1, <1>2, <1>8, <1>10, PageAtOffset DEF x
  <2>. QED
    BY <1>9, <1>10, <2>1 DEF Continues
<1>12. \A i \in 1 .. Len(x) : x[i] = n + 1 - (off + i)
  <2>2. \A i \in 1 .. Len(x) : off + i \in 1 .. n
    BY <1>1, <1>11
  <2>. QED
    BY <1>10, <1>11, <2>2
<1>13. JoinedOf(r, s, x, Nat)
  BY <1>1, <1>5, ThenProperties
<1>14. Falling(r, n)
  BY <1>1, <1>9, <1>11, <1>12, <1>13, FallingOn DEF off
<1>15. Len(r) = off + Len(x) /\ \A i \in 1 .. off + Len(x) : r[i] = IF i <= off THEN s[i] ELSE x[i - off]
  BY <1>13 DEF JoinedOf, off
<1>16. more[1].total >= 1 => Len(r) >= 1 /\ r[1] = more[1].total
  <2>1. CASE ps = <<>>
    <3>1. more[1] = p /\ off = 0
      BY <1>3, <1>7, <2>1, EmptySeq
    <3>2. n >= 1 => Len(x) >= 1
      BY <1>1, <1>2, <1>11, <3>1
    <3>3. n >= 1 => Len(r) >= 1 /\ r[1] = n
      BY <1>1, <1>12, <1>15, <3>1, <3>2
    <3>. QED
      BY <3>1, <3>3
  <2>2. CASE ps # <<>>
    <3>1. more[1] = ps[1]
      BY <1>3, <2>2, PagesOf
    <3>2. off >= 1 => Len(r) >= 1 /\ r[1] = s[1]
      BY <1>1, <1>15
    <3>. QED
      BY <1>6, <2>2, <3>1, <3>2 DEF off
  <2>. QED
    BY <2>1, <2>2
<1>17. n <= n /\ Len(r) <= n /\ (Len(x) < Limit => Len(r) = n)
  BY <1>11, <1>15
<1>. QED
  BY <1>4, <1>14, <1>16, <1>17 DEF Steady, more, r, x

\* What pages with a page more are like, read for them or made up by the browser.
LEMMA PageMore ==
  ASSUME NEW n \in Nat, NEW k \in Nat, k <= n, NEW ps \in Seq(PageSet), Loaded(ps, n),
         NEW p \in PageSet,
         p.from = "live" =>
           p.items = PageOf(Newest(n), loadedCount(ps), Limit).items /\ p.total = n
  PROVE  /\ Append(ps, p) \in Seq(PageSet) /\ Append(ps, p) # <<>> /\ Loaded(Append(ps, p), n)
         /\ Holds(ps, k) => Holds(Append(ps, p), k)
<1> DEFINE more == Append(ps, p)
<1>1. more \in Seq(PageSet) /\ Len(more) = Len(ps) + 1 /\ Len(ps) \in Nat
      /\ more[Len(ps) + 1] = p /\ \A i \in 1 .. Len(ps) : more[i] = ps[i]
  BY AppendProperties, LenProperties
<1>2. more # <<>>
  BY <1>1, EmptySeq
<1> HIDE DEF more
<1>3. AllLive(more) => AllLive(ps) /\ p.from = "live"
  <2>1. ASSUME AllLive(more) PROVE AllLive(ps) /\ p.from = "live"
    <3>1. Len(ps) + 1 \in 1 .. Len(more) /\ \A i \in 1 .. Len(ps) : i \in 1 .. Len(more)
      BY <1>1
    <3>. QED
      BY <1>1, <2>1, <3>1 DEF AllLive
  <2>. QED
    BY <2>1
<1>4. ASSUME AllLive(more) PROVE Steady(more, n)
  <2>1. ps = <<>> \/ Steady(ps, n)
    BY <1>3, <1>4 DEF Loaded
  <2>. QED
    BY <1>3, <1>4, <2>1, PageAdded DEF more
<1>5. ASSUME Holds(ps, k), AllLive(more) PROVE more[1].total >= k
  <2>1. CASE ps = <<>>
    BY <1>1, <1>3, <1>5, <2>1, EmptySeq
  <2>2. CASE ps # <<>>
    BY <1>1, <1>3, <1>5, <2>2, PagesOf DEF Holds
  <2>. QED
    BY <2>1, <2>2
<1>. QED
  BY <1>1, <1>2, <1>4, <1>5 DEF Loaded, Holds, more

\* Messages that arrive change nothing of what was read.
LEMMA PagesStay ==
  ASSUME NEW ps \in Seq(PageSet), NEW n \in Nat, NEW m \in Nat, n <= m, Loaded(ps, n)
  PROVE  Loaded(ps, m)
<1>1. ps # <<>> => Last(ps).total \in Nat
  BY PagesOf DEF Last
<1>. QED
  BY <1>1 DEF Loaded, Steady

\* A thread of the API with n messages, of which this browser's last is k.
ThreadIs(t, n, k) ==
    /\ t = [pages |-> t.pages, stale |-> t.stale, load |-> t.load, got |-> t.got,
            late |-> t.late]
    /\ t.pages \in Seq(PageSet) /\ t.got \in Seq(PageSet)
    /\ Loaded(t.pages, n) /\ Loaded(t.got, n)
    /\ t.load \in {None, "older"} => t.got = <<>>
    /\ t.load = "older" => t.pages # <<>> /\ (t.stale = TRUE => "shown" \in t.late)
    /\ t.stale = TRUE \/ "shown" \in t.late \/ Holds(t.pages, k)
    /\ "coming" \in t.late \/ Holds(t.got, k)

\* What the threads are read from.
CountsInv ==
    /\ store = [s \in Sources |-> store[s]]
    /\ \A s \in Sources : store[s].count \in [All -> Nat]
    /\ own.last \in [All -> Nat]
    /\ \A c \in All : own.last[c] <= store["live"].count[c]

ThreadsInv ==
    /\ CountsInv
    /\ thread = [c \in All |-> thread[c]]
    /\ \A c \in All : ThreadIs(thread[c], store["live"].count[c], own.last[c])

threading == <<store, thread, own>>

LEMMA NothingHeld ==
  ASSUME NEW n, NEW k
  PROVE  <<>> \in Seq(PageSet) /\ Loaded(<<>>, n) /\ Holds(<<>>, k)
  BY EmptySeq DEF Loaded, Holds

LEMMA ThreadsInit ==
  ASSUME InboxInit PROVE ThreadsInv
<1>1. InitialCount \in Nat
  BY InboxAssumption DEF InboxAssumption
<1>2. store = [s \in Sources |->
         [lead |-> [c \in Known(s) |-> FirstLead],
          count |-> [c \in All |-> IF c \in Known(s) THEN InitialCount ELSE 0], rev |-> 0]]
      /\ own = [rev |-> 0, last |-> [c \in All |-> 0]]
  BY DEF InboxInit
<1>3. CountsInv
  <2>1. \A s \in Sources : store[s].count = [c \in All |-> IF c \in Known(s) THEN InitialCount ELSE 0]
    BY <1>2
  <2>2. \A s \in Sources : store[s].count \in [All -> Nat]
    <3>. DEFINE f(s) == [c \in All |-> IF c \in Known(s) THEN InitialCount ELSE 0]
    <3>1. \A s \in Sources : f(s) \in [All -> Nat]
      BY <1>1
    <3>. QED
      BY <2>1, <3>1
  <2>3. own.last = [c \in All |-> 0]
    BY <1>2
  <2>4. "live" \in Sources
    BY DEF Sources
  <2>5. \A c \in All : store["live"].count[c] \in Nat
    BY <2>2, <2>4
  <2>6. store = [s \in Sources |-> store[s]]
    BY <1>2
  <2>7. \A c \in All : own.last[c] = 0
    BY <2>3
  <2>8. own.last \in [All -> Nat] /\ \A c \in All : own.last[c] <= store["live"].count[c]
    BY <2>3, <2>5, <2>7
  <2>. QED
    BY <2>2, <2>6, <2>8 DEF CountsInv
<1>4. thread = [c \in All |->
         [pages |-> <<>>, stale |-> FALSE, load |-> None, got |-> <<>>, late |-> {}]]
  BY DEF InboxInit
<1>5. None # "older"
  BY InboxAssumption DEF InboxAssumption
<1>6. ASSUME NEW t, NEW n, NEW k,
             t = [pages |-> <<>>, stale |-> FALSE, load |-> None, got |-> <<>>, late |-> {}]
      PROVE  ThreadIs(t, n, k)
  BY <1>5, <1>6, NothingHeld DEF ThreadIs
<1>7. \A c \in All : ThreadIs(thread[c], store["live"].count[c], own.last[c])
  BY <1>4, <1>6
<1>8. thread = [c \in All |-> thread[c]]
  BY <1>4
<1>. QED
  BY <1>3, <1>7, <1>8 DEF ThreadsInv

LEMMA ThreadsStutter ==
  ASSUME ThreadsInv, UNCHANGED threading PROVE ThreadsInv'
<1>1. UNCHANGED <<store, thread, own>>
  BY DEF threading
<1>. QED
  BY <1>1 DEF ThreadsInv, CountsInv

\* One thread is loaded, read or shown.
LEMMA OneThreadChanges ==
  ASSUME ThreadsInv, UNCHANGED <<store, own>>, NEW c, NEW t,
         c \in All => ThreadIs(t, store["live"].count[c], own.last[c]),
         thread' = [thread EXCEPT ![c] = t]
  PROVE  ThreadsInv'
<1>1. \A d \in All : thread'[d] = IF d = c THEN t ELSE thread[d]
  BY DEF ThreadsInv
<1>2. \A d \in All : ThreadIs(thread'[d], store["live"].count[d], own.last[d])
  BY <1>1 DEF ThreadsInv
<1>3. thread' = [d \in All |-> thread'[d]]
  BY DEF ThreadsInv
<1>4. store' = store /\ own' = own
  OBVIOUS
<1>5. CountsInv'
  BY <1>4 DEF ThreadsInv, CountsInv
<1>. QED
  BY <1>2, <1>3, <1>4, <1>5 DEF ThreadsInv

\* Parts of a thread that is changed, one by one.
LEMMA ThreadExcept ==
  ASSUME NEW t, NEW n, NEW k, ThreadIs(t, n, k), NEW x
  PROVE  /\ [t EXCEPT !.load = x] = [pages |-> t.pages, stale |-> t.stale, load |-> x,
                                    got |-> t.got, late |-> t.late]
         /\ [t EXCEPT !.got = x] = [pages |-> t.pages, stale |-> t.stale, load |-> t.load,
                                   got |-> x, late |-> t.late]
         /\ [t EXCEPT !.late = x] = [pages |-> t.pages, stale |-> t.stale, load |-> t.load,
                                    got |-> t.got, late |-> x]
         /\ [t EXCEPT !.stale = x] = [pages |-> t.pages, stale |-> x, load |-> t.load,
                                     got |-> t.got, late |-> t.late]
         /\ [t EXCEPT !.pages = x] = [pages |-> x, stale |-> t.stale, load |-> t.load,
                                     got |-> t.got, late |-> t.late]
  BY DEF ThreadIs

\* A thread, part by part, and with several parts changed: names for the prover.
ThreadWith(p, s, l, g, a) == [pages |-> p, stale |-> s, load |-> l, got |-> g, late |-> a]
LoadGotLate(t, m, h, b) == [t EXCEPT !.load = m, !.got = h, !.late = b]
AllParts(t, q, v, m, h, b) ==
    [t EXCEPT !.pages = q, !.stale = v, !.load = m, !.got = h, !.late = b]
StaleGotLoad(t, v, h, m) == [t EXCEPT !.stale = v, !.got = h, !.load = m]
StaleLate(t, v, b) == [t EXCEPT !.stale = v, !.late = b]

\* What the parts are then.
LEMMA SomeParts ==
  ASSUME NEW p, NEW s, NEW l, NEW g, NEW a, NEW t, t = ThreadWith(p, s, l, g, a),
         NEW q, NEW v, NEW m, NEW h, NEW b
  PROVE  /\ LoadGotLate(t, m, h, b) = ThreadWith(p, s, m, h, b)
         /\ AllParts(t, q, v, m, h, b) = ThreadWith(q, v, m, h, b)
         /\ StaleGotLoad(t, v, h, m) = ThreadWith(p, v, m, h, a)
         /\ StaleLate(t, v, b) = ThreadWith(p, v, l, g, b)
<1>1. LoadGotLate(t, m, h, b) = ThreadWith(p, s, m, h, b)
  <2> DEFINE t1 == [t EXCEPT !.load = m]
             t2 == [t1 EXCEPT !.got = h]
             t3 == [t2 EXCEPT !.late = b]
  <2>0. LoadGotLate(t, m, h, b) = t3
    BY Zenon DEF LoadGotLate
  <2>1. t1 = ThreadWith(p, s, m, g, a)
    BY DEF ThreadWith
  <2> HIDE DEF t1
  <2>2. t2 = ThreadWith(p, s, m, h, a)
    BY <2>1 DEF ThreadWith
  <2> HIDE DEF t2
  <2>3. t3 = ThreadWith(p, s, m, h, b)
    BY <2>2 DEF ThreadWith
  <2> HIDE DEF t3
  <2>. QED
    BY <2>0, <2>3
<1>2. AllParts(t, q, v, m, h, b) = ThreadWith(q, v, m, h, b)
  <2> DEFINE t1 == [t EXCEPT !.pages = q]
             t2 == [t1 EXCEPT !.stale = v]
             t3 == [t2 EXCEPT !.load = m]
             t4 == [t3 EXCEPT !.got = h]
             t5 == [t4 EXCEPT !.late = b]
  <2>0. AllParts(t, q, v, m, h, b) = t5
    BY Zenon DEF AllParts
  <2>1. t1 = ThreadWith(q, s, l, g, a)
    BY DEF ThreadWith
  <2> HIDE DEF t1
  <2>2. t2 = ThreadWith(q, v, l, g, a)
    BY <2>1 DEF ThreadWith
  <2> HIDE DEF t2
  <2>3. t3 = ThreadWith(q, v, m, g, a)
    BY <2>2 DEF ThreadWith
  <2> HIDE DEF t3
  <2>4. t4 = ThreadWith(q, v, m, h, a)
    BY <2>3 DEF ThreadWith
  <2> HIDE DEF t4
  <2>5. t5 = ThreadWith(q, v, m, h, b)
    BY <2>4 DEF ThreadWith
  <2> HIDE DEF t5
  <2>. QED
    BY <2>0, <2>5
<1>3. StaleGotLoad(t, v, h, m) = ThreadWith(p, v, m, h, a)
  <2> DEFINE t1 == [t EXCEPT !.stale = v]
             t2 == [t1 EXCEPT !.got = h]
             t3 == [t2 EXCEPT !.load = m]
  <2>0. StaleGotLoad(t, v, h, m) = t3
    BY Zenon DEF StaleGotLoad
  <2>1. t1 = ThreadWith(p, v, l, g, a)
    BY DEF ThreadWith
  <2> HIDE DEF t1
  <2>2. t2 = ThreadWith(p, v, l, h, a)
    BY <2>1 DEF ThreadWith
  <2> HIDE DEF t2
  <2>3. t3 = ThreadWith(p, v, m, h, a)
    BY <2>2 DEF ThreadWith
  <2> HIDE DEF t3
  <2>. QED
    BY <2>0, <2>3
<1>4. StaleLate(t, v, b) = ThreadWith(p, v, l, g, b)
  <2> DEFINE t1 == [t EXCEPT !.stale = v]
             t2 == [t1 EXCEPT !.late = b]
  <2>0. StaleLate(t, v, b) = t2
    BY Zenon DEF StaleLate
  <2>1. t1 = ThreadWith(p, v, l, g, a)
    BY DEF ThreadWith
  <2> HIDE DEF t1
  <2>2. t2 = ThreadWith(p, v, l, g, b)
    BY <2>1 DEF ThreadWith
  <2> HIDE DEF t2
  <2>. QED
    BY <2>0, <2>2
<1>. QED
  BY <1>1, <1>2, <1>3, <1>4

LEMMA ThreadsExcept ==
  ASSUME NEW t, NEW n, NEW k, ThreadIs(t, n, k), NEW q, NEW v, NEW m, NEW h, NEW b
  PROVE  /\ LoadGotLate(t, m, h, b) = ThreadWith(t.pages, t.stale, m, h, b)
         /\ AllParts(t, q, v, m, h, b) = ThreadWith(q, v, m, h, b)
         /\ StaleGotLoad(t, v, h, m) = ThreadWith(t.pages, v, m, h, t.late)
         /\ StaleLate(t, v, b) = ThreadWith(t.pages, v, t.load, t.got, b)
<1>1. t = ThreadWith(t.pages, t.stale, t.load, t.got, t.late)
  BY DEF ThreadIs, ThreadWith
<1>. QED
  BY <1>1, SomeParts

\* What a request for messages is answered with.
LEMMA PageFromIs ==
  ASSUME ThreadsInv, NEW c \in All, NEW src \in Sources, NEW off \in Nat,
         NEW p, p = PageFrom(src, c, off)
  PROVE  /\ p \in PageSet
         /\ p.from = "live" => /\ p.items = PageOf(Newest(store["live"].count[c]), off, Limit).items
                               /\ p.total = store["live"].count[c]
<1>1. store[src].count[c] \in Nat
  BY DEF ThreadsInv, CountsInv
<1> DEFINE n == store[src].count[c]
           items == PageOf(Newest(n), off, Limit).items
<1>2. Messages(src, c) = Newest(n)
  BY DEF Messages, Newest
<1>3. p = [items |-> items, total |-> n, from |-> src]
  BY <1>2 DEF PageFrom
<1> HIDE DEF n
<1>4. n \in Nat
  BY <1>1 DEF n
<1>5. Newest(n) \in Seq(Nat)
  <2>1. Newest(n) \in [1 .. n -> Nat]
    BY <1>4 DEF Newest
  <2>. HIDE DEF Newest
  <2>. QED
    BY <1>4, <2>1, ListOf, Zenon
<1>6. Continues(items, Newest(n), off, Limit, Nat)
  <2>1. Limit \in Nat \ {0}
    BY InboxAssumption DEF InboxAssumption
  <2>. QED
    BY <1>5, <2>1, PageAtOffset
<1>7. items \in Seq(Nat)
  BY <1>6 DEF Continues
<1> HIDE DEF items
<1>8. p \in PageSet /\ p.items = items /\ p.total = n /\ p.from = src
  BY <1>3, <1>4, <1>7 DEF PageSet
<1>. QED
  BY <1>8 DEF n, items

LEMMA PageReadKeeps ==
  ASSUME ThreadsInv, NEW c \in All, NEW src \in Sources, PageRead(c, src), thread[c].load # None,
         UNCHANGED <<store, own>>
  PROVE  ThreadsInv'
<1> DEFINE t == thread[c]
           n == store["live"].count[c]
           k == own.last[c]
           before == IF t.load = "older" THEN t.pages ELSE t.got
           p == PageFrom(src, c, loadedCount(before))
           after == Append(before, p)
           t1 == [t EXCEPT !.got = after]
           t2 == [pages |-> after, stale |-> FALSE, load |-> None, got |-> <<>>,
                  late |-> IF t.load = "older" THEN t.late ELSE Landed(t)]
           goes == t.load = "first" \/ (t.load = "refetch" /\ RefetchGoesOn(t.pages, after, Limit))
<1>1. thread' = [thread EXCEPT ![c] = IF goes THEN t1 ELSE t2]
  BY DEF PageRead
<1>2. ThreadIs(t, n, k) /\ n \in Nat /\ k \in Nat /\ k <= n
  BY DEF ThreadsInv, CountsInv, Sources
<1> HIDE DEF t, n, k
<1>3. before \in Seq(PageSet) /\ Loaded(before, n)
  BY <1>2 DEF ThreadIs
<1>4. loadedCount(before) \in Nat
  <2>. HIDE DEF before
  <2>. QED
    BY <1>3, PagesOf DEF loadedCount
<1>5. p \in PageSet /\ (p.from = "live" =>
        p.items = PageOf(Newest(n), loadedCount(before), Limit).items /\ p.total = n)
  <2>. HIDE DEF before
  <2>. QED
    BY <1>4, PageFromIs DEF n
<1>6. /\ after \in Seq(PageSet) /\ after # <<>> /\ Loaded(after, n)
      /\ Holds(before, k) => Holds(after, k)
  <2>. HIDE DEF before, p
  <2>. QED
    BY <1>2, <1>3, <1>5, PageMore
<1> HIDE DEF after, p
<1>7. None # "first" /\ None # "refetch" /\ None # "older"
  BY InboxAssumption DEF InboxAssumption
<1>8. ASSUME goes PROVE ThreadIs(t1, n, k)
  <2>1. t.load # None /\ t.load # "older"
    BY <1>7, <1>8
  <2>2. t1 = [pages |-> t.pages, stale |-> t.stale, load |-> t.load, got |-> after, late |-> t.late]
    BY <1>2, ThreadExcept
  <2>3. "coming" \in t.late \/ Holds(after, k)
    BY <1>2, <1>6, <2>1 DEF ThreadIs
  <2>. HIDE DEF t1
  <2>. QED
    BY <1>2, <1>6, <2>1, <2>2, <2>3 DEF ThreadIs
<1>9. ASSUME ~goes PROVE ThreadIs(t2, n, k)
  <2>1. t2.late = (IF t.load = "older" THEN t.late ELSE Landed(t)) /\ t2.pages = after
        /\ t2.load = None /\ t2.got = <<>>
        /\ t2 = [pages |-> t2.pages, stale |-> t2.stale, load |-> t2.load, got |-> t2.got,
                 late |-> t2.late]
    OBVIOUS
  <2>2. "shown" \in t2.late \/ Holds(after, k)
    <3>1. CASE t.load = "older"
      <4>1. "shown" \in t.late \/ Holds(t.pages, k)
        BY <1>2, <3>1 DEF ThreadIs
      <4>. QED
        BY <1>6, <2>1, <3>1, <4>1
    <3>2. CASE t.load # "older"
      <4>1. "coming" \in t.late \/ Holds(t.got, k)
        BY <1>2, <3>2 DEF ThreadIs
      <4>. QED
        BY <1>6, <2>1, <3>2, <4>1 DEF Landed
    <3>. QED
      BY <3>1, <3>2
  <2>. HIDE DEF t2
  <2>3. t2.load # "older"
    BY <1>7, <2>1
  <2>. QED
    BY <1>6, <2>1, <2>2, <2>3, NothingHeld DEF ThreadIs
<1> HIDE DEF t1, t2, goes
<1>10. ThreadIs(IF goes THEN t1 ELSE t2, n, k)
  BY <1>8, <1>9
<1>. QED
  BY <1>1, <1>10, OneThreadChanges DEF n, k

\* Asking for messages, reading them, and showing the first of them.
LEMMA ThreadsLoad ==
  ASSUME ThreadsInv, Loading PROVE ThreadsInv'
<1>0. None # "first" /\ None # "refetch" /\ None # "older"
  BY InboxAssumption DEF InboxAssumption
<1>1. ASSUME NEW c \in All PROVE ThreadIs(thread[c], store["live"].count[c], own.last[c])
  BY DEF ThreadsInv
<1>2. ASSUME NEW c \in All, useInfiniteMessages(c) PROVE ThreadsInv'
  <2> DEFINE t == thread[c]
             x == IF t.pages = <<>> THEN "first" ELSE "refetch"
             u == [pages |-> t.pages, stale |-> t.stale, load |-> x, got |-> t.got,
                   late |-> t.late]
  <2>1. thread' = [thread EXCEPT ![c] = [t EXCEPT !.load = x]] /\ t.load = None
        /\ UNCHANGED <<store, own>>
    BY <1>2 DEF useInfiniteMessages, history
  <2>2. x # None /\ x # "older"
    BY <1>0
  <2>. HIDE DEF x
  <2>3. [t EXCEPT !.load = x] = u
    BY <1>1, ThreadExcept
  <2>4. ThreadIs(u, store["live"].count[c], own.last[c])
    BY <1>1, <2>1, <2>2 DEF ThreadIs
  <2>. HIDE DEF u
  <2>. QED
    BY <2>1, <2>3, <2>4, OneThreadChanges
<1>3. ASSUME NEW c \in All, getMessages(c) PROVE ThreadsInv'
  <2>1. UNCHANGED <<store, own>> /\ thread[c].load # None
    BY <1>3 DEF getMessages, history
  <2>2. CASE PageRead(c, "live") \/ PageRead(c, "mock")
    BY <2>1, <2>2, PageReadKeeps DEF Sources
  <2>3. CASE thread' = [thread EXCEPT ![c].load = None, ![c].got = <<>>,
                                      ![c].late = @ \ {"coming"}]
    <3> DEFINE t == thread[c]
               x == t.late \ {"coming"}
               u == ThreadWith(t.pages, t.stale, None, <<>>, x)
    <3>1. thread' = [thread EXCEPT ![c] = [t EXCEPT !.load = None, !.got = <<>>, !.late = x]]
      BY <2>3 DEF ThreadsInv
    <3>2. LoadGotLate(t, None, <<>>, x) = u
      BY <1>1, ThreadsExcept
    <3>4. [t EXCEPT !.load = None, !.got = <<>>, !.late = x] = u
      BY <3>2, Zenon DEF LoadGotLate
    <3>3. ThreadIs(u, store["live"].count[c], own.last[c])
      BY <1>0, <1>1, NothingHeld DEF ThreadIs, ThreadWith
    <3>. HIDE DEF u
    <3>. QED
      BY <2>1, <3>1, <3>3, <3>4, OneThreadChanges
  <2>. QED
    BY <1>3, <2>2, <2>3 DEF getMessages
<1>4. ASSUME NEW c \in All, FirstPageArrives(c) PROVE ThreadsInv'
  <2> DEFINE t == thread[c]
             x == Landed(t)
             u == ThreadWith(t.got, FALSE, None, <<>>, x)
  <2>1. UNCHANGED <<store, own>> /\ t.got # <<>>
        /\ thread' = [thread EXCEPT ![c].pages = t.got, ![c].stale = FALSE,
                                    ![c].load = None, ![c].got = <<>>, ![c].late = x]
    BY <1>4 DEF FirstPageArrives, history
  <2>2. "coming" \in t.late => "shown" \in x
    BY DEF Landed
  <2>. HIDE DEF x
  <2>3. thread' = [thread EXCEPT ![c] =
          [t EXCEPT !.pages = t.got, !.stale = FALSE, !.load = None, !.got = <<>>, !.late = x]]
    BY <2>1 DEF ThreadsInv
  <2>4. [t EXCEPT !.pages = t.got, !.stale = FALSE, !.load = None, !.got = <<>>, !.late = x] = u
    <3>1. \A y : AllParts(t, t.got, y, None, <<>>, x) = ThreadWith(t.got, y, None, <<>>, x)
      BY <1>1, ThreadsExcept
    <3>. QED
      BY <3>1, Zenon DEF AllParts
  <2>5. ThreadIs(u, store["live"].count[c], own.last[c])
    <3>1. u.pages = t.got /\ u.load = None /\ u.got = <<>> /\ u.late = x
          /\ u = [pages |-> u.pages, stale |-> u.stale, load |-> u.load, got |-> u.got,
                  late |-> u.late]
      BY DEF ThreadWith
    <3>. HIDE DEF u
    <3>. QED
      BY <1>0, <1>1, <2>2, <3>1, NothingHeld DEF ThreadIs
  <2>. HIDE DEF u
  <2>. QED
    BY <2>1, <2>3, <2>4, <2>5, OneThreadChanges
<1>5. ASSUME fetchNextPage PROVE ThreadsInv'
  <2> DEFINE c == activeId
             t == thread[c]
             x == IF t.stale THEN {"shown"} ELSE t.late
             u == ThreadWith(t.pages, t.stale, "older", <<>>, x)
  <2>1. UNCHANGED <<store, own>> /\ hasNextPage(t.pages, Limit)
        /\ thread' = [thread EXCEPT ![c].load = "older", ![c].got = <<>>, ![c].late = x]
    BY <1>5, Zenon DEF fetchNextPage, history
  <2>2. t.stale = TRUE => x = {"shown"}
    BY Zenon
  <2>3. x = {"shown"} \/ x = t.late
    BY Zenon
  <2>. HIDE DEF x, c
  <2>4. t.pages # <<>>
    BY <2>1 DEF hasNextPage
  <2>5. thread' = [thread EXCEPT ![c] = [t EXCEPT !.load = "older", !.got = <<>>, !.late = x]]
    BY <2>1 DEF ThreadsInv
  <2>6. ASSUME c \in All PROVE [t EXCEPT !.load = "older", !.got = <<>>, !.late = x] = u
    <3>1. LoadGotLate(t, "older", <<>>, x) = u
      BY <1>1, <2>6, ThreadsExcept
    <3>. QED
      BY <3>1, Zenon DEF LoadGotLate
  <2>7. ASSUME c \in All PROVE ThreadIs(u, store["live"].count[c], own.last[c])
    BY <1>1, <2>2, <2>3, <2>4, <2>7, NothingHeld DEF ThreadIs, ThreadWith
  <2>. HIDE DEF u
  <2>. QED
    BY <2>1, <2>5, <2>6, <2>7, OneThreadChanges
<1>6. ASSUME NEW b, useConversations(b) \/ getConversations(b) \/ ListArrives(b)
      PROVE  ThreadsInv'
  <2>1. UNCHANGED thread
    BY <1>6 DEF useConversations, getConversations, ListArrives
  <2>. QED
    BY <2>1, LoadingReads, ThreadsStutter DEF threading, history
<1>. QED
  BY <1>2, <1>3, <1>4, <1>5, <1>6 DEF Loading

\* Messages are stored: none is taken back.
LEMMA CountsGrow ==
  ASSUME CountsInv, NEW m, NEW where, Stored(m, where)
  PROVE  /\ store' = [s \in Sources |-> store'[s]]
         /\ \A s \in Sources : store'[s].count \in [All -> Nat]
         /\ \A s \in Sources, c \in All :
              /\ store[s].count[c] \in Nat /\ store'[s].count[c] \in Nat
              /\ store[s].count[c] <= store'[s].count[c]
<1>1. \A s \in Sources : store'[s] = IF s \in where THEN Applied(m, s, store[s]) ELSE store[s]
  BY DEF Stored
<1>2. store' = [s \in Sources |-> store'[s]]
  BY DEF Stored
<1>3. ASSUME NEW s \in Sources
      PROVE  /\ store'[s].count \in [All -> Nat]
             /\ \A c \in All : /\ store[s].count[c] \in Nat /\ store'[s].count[c] \in Nat
                               /\ store[s].count[c] <= store'[s].count[c]
  <2>1. store[s].count \in [All -> Nat]
    BY DEF CountsInv
  <2>2. \/ store'[s].count = store[s].count
        \/ store'[s].count = [store[s].count EXCEPT ![m.conv] = @ + 1]
    <3>1. ASSUME NEW at
          PROVE  \/ Applied(m, s, at).count = at.count
                 \/ Applied(m, s, at).count = [at.count EXCEPT ![m.conv] = @ + 1]
      BY DEF Applied
    <3>. QED
      BY <1>1, <3>1
  <2>3. ASSUME NEW f \in [All -> Nat], NEW x, NEW g, g = f \/ g = [f EXCEPT ![x] = @ + 1]
        PROVE  g \in [All -> Nat] /\ \A c \in All : f[c] \in Nat /\ g[c] \in Nat /\ f[c] <= g[c]
    BY <2>3
  <2>. QED
    BY <2>1, <2>2, <2>3
<1>. QED
  BY <1>2, <1>3

\* A thread of which nothing was read, while messages arrive.
LEMMA ThreadStays ==
  ASSUME NEW t, NEW n \in Nat, NEW m \in Nat, n <= m, NEW k, ThreadIs(t, n, k)
  PROVE  ThreadIs(t, m, k)
<1>1. Loaded(t.pages, m) /\ Loaded(t.got, m)
  BY PagesStay DEF ThreadIs
<1>. QED
  BY <1>1 DEF ThreadIs

LEMMA ThreadsStay ==
  ASSUME ThreadsInv, NEW m, NEW where, Stored(m, where), thread' = thread, own'.last = own.last
  PROVE  ThreadsInv'
<1>1. /\ store' = [s \in Sources |-> store'[s]]
      /\ \A s \in Sources : store'[s].count \in [All -> Nat]
      /\ \A c \in All : /\ store["live"].count[c] \in Nat /\ store'["live"].count[c] \in Nat
                        /\ store["live"].count[c] <= store'["live"].count[c]
  BY CountsGrow DEF ThreadsInv, Sources
<1>2. \A c \in All : own.last[c] \in Nat /\ own.last[c] <= store["live"].count[c]
  BY DEF ThreadsInv, CountsInv
<1>3. \A c \in All : own'.last[c] <= store'["live"].count[c]
  BY <1>1, <1>2
<1>4. CountsInv'
  BY <1>1, <1>3 DEF ThreadsInv, CountsInv
<1>5. \A c \in All : ThreadIs(thread[c], store'["live"].count[c], own.last[c])
  BY <1>1, ThreadStays DEF ThreadsInv
<1>. QED
  BY <1>4, <1>5 DEF ThreadsInv

\* After a send every thread is stale, and what was being read of it counts for late.
LEMMA ThreadInvalidated ==
  ASSUME NEW t, NEW n \in Nat, NEW m \in Nat, n <= m, NEW j, NEW k, ThreadIs(t, n, j),
         NEW x, x = t.late \cup IF t.load = "older" THEN {"shown"}
                                ELSE IF t.got # <<>> THEN {"coming"} ELSE {}
  PROVE  /\ t.pages # <<>> =>
              ThreadIs(ThreadWith(t.pages, TRUE, "refetch", <<>>, t.late), m, k)
         /\ ThreadIs(ThreadWith(t.pages, TRUE, t.load, t.got, x), m, k)
<1>0. None # "refetch"
  BY InboxAssumption DEF InboxAssumption
<1>1. ThreadIs(t, m, j)
  BY ThreadStays
<1>2. ThreadIs(ThreadWith(t.pages, TRUE, "refetch", <<>>, t.late), m, k)
  <2> DEFINE u == ThreadWith(t.pages, TRUE, "refetch", <<>>, t.late)
  <2>1. /\ u = [pages |-> u.pages, stale |-> u.stale, load |-> u.load, got |-> u.got,
                late |-> u.late]
        /\ u.pages = t.pages /\ u.stale = TRUE /\ u.load = "refetch" /\ u.got = <<>>
    BY DEF ThreadWith
  <2>. HIDE DEF u
  <2>2. ThreadIs(u, m, k)
    BY <1>0, <1>1, <2>1, NothingHeld DEF ThreadIs
  <2>. QED
    BY <2>2 DEF u
<1>3. ThreadIs(ThreadWith(t.pages, TRUE, t.load, t.got, x), m, k)
  <2> DEFINE u == ThreadWith(t.pages, TRUE, t.load, t.got, x)
  <2>1. /\ u = [pages |-> u.pages, stale |-> u.stale, load |-> u.load, got |-> u.got,
                late |-> u.late]
        /\ u.pages = t.pages /\ u.stale = TRUE /\ u.load = t.load /\ u.got = t.got /\ u.late = x
    BY DEF ThreadWith
  <2>. HIDE DEF u
  <2>2. "coming" \in x \/ Holds(t.got, k)
    BY <1>1, NothingHeld DEF ThreadIs
  <2>3. ThreadIs(u, m, k)
    BY <1>1, <2>1, <2>2 DEF ThreadIs
  <2>. QED
    BY <2>3 DEF u
<1>. QED
  BY <1>2, <1>3

LEMMA SuccessKeepsThreads ==
  ASSUME ThreadsInv, NEW m, NEW where, Succeeds(m, where) PROVE ThreadsInv'
<1>1. Stored(m, where) /\ Owed(m, where)
      /\ thread' = IF m.kind = "send" THEN invalidateMessages ELSE thread
  BY DEF Succeeds
<1>2. CASE m.kind # "send"
  <2>1. own'.last = own.last
    BY <1>1, <1>2 DEF Owed
  <2>. QED
    BY <1>1, <1>2, <2>1, ThreadsStay
<1>3. CASE m.kind = "send"
  <2>1. /\ store' = [s \in Sources |-> store'[s]]
        /\ \A s \in Sources : store'[s].count \in [All -> Nat]
        /\ \A c \in All : /\ store["live"].count[c] \in Nat /\ store'["live"].count[c] \in Nat
                          /\ store["live"].count[c] <= store'["live"].count[c]
    BY <1>1, CountsGrow DEF ThreadsInv, Sources
  <2>2. own.last \in [All -> Nat] /\ \A c \in All : own.last[c] <= store["live"].count[c]
    BY DEF ThreadsInv, CountsInv
  <2>3. \/ own'.last = own.last
        \/ own'.last = [own.last EXCEPT ![m.conv] = store'["live"].count[m.conv]]
    BY <1>1, <1>3 DEF Owed
  <2>4. own'.last \in [All -> Nat] /\ \A c \in All : own'.last[c] <= store'["live"].count[c]
    <3>1. ASSUME NEW f \in [All -> Nat], NEW n \in [All -> Nat], NEW g, NEW x,
                 \A c \in All : f[c] <= n[c], g = f \/ g = [f EXCEPT ![x] = n[x]]
          PROVE  g \in [All -> Nat] /\ \A c \in All : g[c] <= n[c]
      BY <3>1
    <3>2. store'["live"].count \in [All -> Nat]
      BY <2>1 DEF Sources
    <3>3. \A c \in All : own.last[c] <= store'["live"].count[c]
      BY <2>1, <2>2
    <3>. QED
      BY <2>2, <2>3, <3>1, <3>2, <3>3
  <2>5. CountsInv'
    BY <2>1, <2>4 DEF CountsInv
  <2>6. ASSUME NEW c \in All
        PROVE  ThreadIs(thread'[c], store'["live"].count[c], own'.last[c])
    <3> DEFINE t == thread[c]
               x == t.late \cup IF t.load = "older" THEN {"shown"}
                                ELSE IF t.got # <<>> THEN {"coming"} ELSE {}
    <3>1. ThreadIs(t, store["live"].count[c], own.last[c])
      BY DEF ThreadsInv
    <3>2. thread'[c] = IF c = activeId /\ t.pages # <<>>
                       THEN StaleGotLoad(t, TRUE, <<>>, "refetch") ELSE StaleLate(t, TRUE, x)
      BY <1>1, <1>3, Zenon DEF invalidateMessages, StaleGotLoad, StaleLate
    <3>. HIDE DEF x
    <3>3. \A v : /\ StaleGotLoad(t, v, <<>>, "refetch") =
                      ThreadWith(t.pages, v, "refetch", <<>>, t.late)
                 /\ StaleLate(t, v, x) = ThreadWith(t.pages, v, t.load, t.got, x)
      BY <3>1, ThreadsExcept
    <3>4. /\ StaleGotLoad(t, TRUE, <<>>, "refetch") =
               ThreadWith(t.pages, TRUE, "refetch", <<>>, t.late)
          /\ StaleLate(t, TRUE, x) = ThreadWith(t.pages, TRUE, t.load, t.got, x)
      BY <3>3, Zenon
    <3>5. /\ t.pages # <<>> =>
               ThreadIs(ThreadWith(t.pages, TRUE, "refetch", <<>>, t.late),
                        store'["live"].count[c], own'.last[c])
          /\ ThreadIs(ThreadWith(t.pages, TRUE, t.load, t.got, x),
                      store'["live"].count[c], own'.last[c])
      BY <2>1, <3>1, ThreadInvalidated DEF x
    <3>. QED
      BY <3>2, <3>4, <3>5
  <2>7. thread' = [c \in All |-> thread'[c]]
    BY <1>1, <1>3 DEF invalidateMessages
  <2>. QED
    BY <2>5, <2>6, <2>7 DEF ThreadsInv
<1>. QED
  BY <1>2, <1>3

LEMMA ThreadsStep ==
  ASSUME ThreadsInv, [Next]_vars PROVE ThreadsInv'
<1>. USE DEF boards, view, writing, history
<1>1. CASE OpenPage \/ openConversation
  <2>1. UNCHANGED threading
    BY <1>1 DEF OpenPage, openConversation, InboxUnmounted, threading
  <2>. QED
    BY <2>1, ThreadsStutter
<1>2. CASE UNCHANGED inbox
  BY <1>2, ThreadsStutter DEF inbox, threading
<1>3. CASE Loading
  BY <1>3, ThreadsLoad
<1>4. CASE Chatting
  <2>1. CASE Answered
    <3>1. PICK m \in pending :
            \/ Succeeds(m, {"live"})
            \/ Succeeds(m, {"live", "mock"})
            \/ Succeeds(m, {"mock"})
            \/ UNCHANGED <<store, thread, own>>
            \/ Stored(m, {"live"}) /\ UNCHANGED <<thread, own>>
      BY <2>1 DEF Answered
    <3>. QED
      BY <3>1, SuccessKeepsThreads, ThreadsStay, ThreadsStutter DEF threading
  <2>2. CASE Elsewhere
    BY <2>2, ThreadsStay DEF Elsewhere
  <2>3. CASE ~Answered /\ ~Elsewhere
    <3>1. UNCHANGED threading
      BY <1>4, <2>3 DEF Chatting, handleSend, patch, moveTo, Compose, onPickFiles,
         removeAttachment, Ask, Suggested, selectConversation, clearSelection,
         setStatusFilter, toggleFrom, clearFilters, threading
    <3>. QED
      BY <3>1, ThreadsStutter
  <2>. QED
    BY <2>1, <2>2, <2>3
<1>5. CASE EditCard
  BY <1>5, ThreadsStutter DEF EditCard, threading
<1>6. CASE UNCHANGED vars
  BY <1>2, <1>6 DEF vars
<1>. QED
  BY <1>1, <1>2, <1>3, <1>4, <1>5, <1>6 DEF Next, OnPage, InboxNext

\* What such a thread shows, from the newest message on.
LEMMA ThreadShows ==
  ASSUME NEW ps \in Seq(PageSet), ps # <<>>, NEW n \in Nat, Steady(ps, n), NEW k \in Nat,
         NEW numbers, numbers = ToSet(flattenInfiniteItems(ps))
  PROVE  /\ hasNextPage(ps, Limit) \/ \A i \in numbers : 1 .. i \subseteq numbers
         /\ ps[1].total >= k => k = 0 \/ \E i \in numbers : i >= k
<1> DEFINE s == flattenInfiniteItems(ps)
           t == Last(ps).total
<1>1. s \in Seq(Nat) /\ Len(s) \in Nat /\ t \in Nat /\ ps[1].total \in Nat
      /\ Last(ps).items \in Seq(Nat) /\ Len(Last(ps).items) \in Nat
  BY PagesOf, LenProperties DEF Last
<1>2. numbers = {s[i] : i \in 1 .. Len(s)}
  BY <1>1, LenProperties DEF ToSet
<1>3. /\ Len(s) <= t /\ (Len(Last(ps).items) < Limit => Len(s) = t) /\ Falling(s, t)
      /\ ps[1].total >= 1 => Len(s) >= 1 /\ s[1] = ps[1].total
  BY DEF Steady
<1>4. ASSUME ~hasNextPage(ps, Limit) PROVE Len(s) = t
  <2>1. \/ ~(Len(s) < t) \/ ~(Len(Last(ps).items) >= Limit) \/ Last(ps).items = <<>>
    BY <1>4 DEF hasNextPage, loadedCount
  <2>2. Limit \in Nat \ {0}
    BY InboxAssumption DEF InboxAssumption
  <2>3. Last(ps).items = <<>> => Len(Last(ps).items) = 0
    BY EmptySeq
  <2>. HIDE DEF s, t
  <2>4. ~(Len(s) < t) => Len(s) = t
    BY <1>1, <1>3
  <2>5. Len(Last(ps).items) < Limit \/ ~(Len(s) < t)
    BY <1>1, <2>1, <2>2, <2>3
  <2>. QED
    BY <1>3, <2>4, <2>5
<1> HIDE DEF s, t
<1>5. ASSUME ~hasNextPage(ps, Limit), NEW i \in numbers, NEW j \in 1 .. i PROVE j \in numbers
  <2>1. PICK d \in 1 .. Len(s) : i = s[d]
    BY <1>2, <1>5
  <2>2. Len(s) >= 1 /\ Len(s) \in 1 .. Len(s)
    BY <1>1, <2>1
  <2>3. s[Len(s)] \in Nat /\ 1 <= s[Len(s)] /\ s[Len(s)] + Len(s) <= t + 1
    BY <1>1, <1>3, <2>2, ElementOfSeq DEF Falling
  <2>4. s[Len(s)] = 1
    BY <1>1, <1>4, <1>5, <2>3
  <2>5. \E e \in 1 .. Len(s) : s[e] = j
    BY <1>1, <1>3, <1>5, <2>1, <2>2, <2>4, FallingToOne
  <2>. QED
    BY <1>2, <2>5
<1>6. ASSUME ps[1].total >= k, k # 0 PROVE \E i \in numbers : i >= k
  <2>1. ps[1].total >= 1
    BY <1>1, <1>6
  <2>2. 1 \in 1 .. Len(s) /\ s[1] = ps[1].total
    BY <1>1, <1>3, <2>1
  <2>. QED
    BY <1>2, <1>6, <2>2
<1>7. hasNextPage(ps, Limit) \/ \A i \in numbers : 1 .. i \subseteq numbers
  BY <1>5
<1>. QED
  BY <1>6, <1>7

\* A thread of the API that has no more pages shows every message older than the
\* newest it shows, however many arrived while it was paged by offset; and one that
\* is up to date shows the last message of this browser (fetchNextPage and
\* invalidateQueries): for any pages, messages and failures.
THEOREM WholeThreads == Spec => []ThreadsAreWhole
<1>1. Init => ThreadsInv
  BY ThreadsInit DEF Init
<1>2. ThreadsInv /\ [Next]_vars => ThreadsInv'
  BY ThreadsStep
<1>3. ASSUME ThreadsInv PROVE ThreadsAreWhole
  <2>1. ASSUME NEW c \in Conversations, FromApi(c), thread[c].pages # <<>>
        PROVE  /\ hasNextPage(thread[c].pages, Limit)
                  \/ \A k \in Numbers(c) : 1 .. k \subseteq Numbers(c)
               /\ thread[c].load = None /\ ~thread[c].stale /\ thread[c].late = {} =>
                    own.last[c] = 0 \/ \E n \in Numbers(c) : n >= own.last[c]
    <3> DEFINE t == thread[c]
               ps == t.pages
               n == store["live"].count[c]
               k == own.last[c]
    <3>0. c \in All
      BY DEF All
    <3>1. ThreadIs(t, n, k) /\ n \in Nat /\ k \in Nat
      BY <1>3, <3>0 DEF ThreadsInv, CountsInv, Sources
    <3>2. ps \in Seq(PageSet) /\ ps # <<>> /\ DOMAIN ps = 1 .. Len(ps)
      BY <2>1, <3>1, LenProperties DEF ThreadIs
    <3>3. AllLive(ps)
      BY <2>1, <3>2 DEF FromApi, ToSet, AllLive
    <3>4. Steady(ps, n)
      BY <3>1, <3>2, <3>3 DEF ThreadIs, Loaded
    <3>5. t.stale = TRUE \/ "shown" \in t.late \/ ps[1].total >= k
      BY <3>1, <3>2, <3>3 DEF ThreadIs, Holds
    <3>6. ~t.stale => t.stale # TRUE
      BY Zenon
    <3>7. Numbers(c) = ToSet(flattenInfiniteItems(ps))
      BY DEF Numbers
    <3> HIDE DEF ps, n, k
    <3>8. /\ hasNextPage(ps, Limit) \/ \A i \in Numbers(c) : 1 .. i \subseteq Numbers(c)
          /\ ps[1].total >= k => k = 0 \/ \E i \in Numbers(c) : i >= k
      BY <3>1, <3>2, <3>4, <3>7, ThreadShows
    <3>. QED
      BY <3>5, <3>6, <3>8 DEF ps, k
  <2>. QED
    BY <2>1, Zenon DEF ThreadsAreWhole
<1>. QED
  BY <1>1, <1>2, <1>3, PTL DEF Spec

-----------------------------------------------------------------------------
(* The agents                                                               *)

\* A name for the prover, which takes a flag of a record for a value, not a formula.
IsDefault(a) == a.isDefault

\* No id is in the list twice.
OnceEach(as) == \A i, j \in 1 .. Len(as) : as[i].id = as[j].id => i = j

\* The agent in place k is the default, and no other.
DefaultIs(as, k) == k \in 1 .. Len(as) /\ \A i \in 1 .. Len(as) : IsDefault(as[i]) <=> i = k

\* Agents of which one is the default, and one the selected.
RosterIs(as, sel) ==
    /\ as \in Seq(Agent) /\ OnceEach(as)
    /\ \E k \in 1 .. Len(as) : as[k].id = sel
    /\ \E k \in 1 .. Len(as) : DefaultIs(as, k)

RosterInv == RosterIs(agents, selectedAgent)

LEMMA AgentMade ==
  ASSUME NEW i \in 1 .. MaxMade, NEW d \in BOOLEAN, NEW e \in BOOLEAN,
         NEW a, a = [id |-> i, isDefault |-> d, edited |-> e]
  PROVE  a \in Agent /\ a.id = i /\ (IsDefault(a) <=> d)
<1>1. a \in Agent /\ a.id = i /\ a.isDefault = d
  BY DEF Agent
<1>. QED
  BY <1>1, Zenon DEF IsDefault

LEMMA AgentIs ==
  ASSUME NEW a \in Agent
  PROVE  a.id \in 1 .. MaxMade /\ a.isDefault \in BOOLEAN /\ a.edited \in BOOLEAN
         /\ a = [id |-> a.id, isDefault |-> a.isDefault, edited |-> a.edited]
  BY Zenon DEF Agent

\* An edit of an agent, or one that makes it the default or not.
LEMMA AgentPatched ==
  ASSUME NEW a \in Agent, NEW d \in BOOLEAN
  PROVE  /\ [a EXCEPT !.edited = TRUE] \in Agent /\ [a EXCEPT !.edited = TRUE].id = a.id
         /\ IsDefault([a EXCEPT !.edited = TRUE]) <=> IsDefault(a)
         /\ [a EXCEPT !.isDefault = d] \in Agent /\ [a EXCEPT !.isDefault = d].id = a.id
         /\ IsDefault([a EXCEPT !.isDefault = d]) <=> d
<1>0. a.id \in 1 .. MaxMade /\ a.isDefault \in BOOLEAN /\ a.edited \in BOOLEAN
      /\ a = [id |-> a.id, isDefault |-> a.isDefault, edited |-> a.edited]
  BY AgentIs
<1>1. [a EXCEPT !.edited = TRUE] = [id |-> a.id, isDefault |-> a.isDefault, edited |-> TRUE]
  <2>1. \A b \in BOOLEAN : [a EXCEPT !.edited = b]
                           = [id |-> a.id, isDefault |-> a.isDefault, edited |-> b]
    BY <1>0
  <2>. QED
    BY <2>1, Zenon
<1>2. [a EXCEPT !.isDefault = d] = [id |-> a.id, isDefault |-> d, edited |-> a.edited]
  BY <1>0
<1>3. TRUE \in BOOLEAN
  OBVIOUS
<1>4. /\ [a EXCEPT !.edited = TRUE] \in Agent /\ [a EXCEPT !.edited = TRUE].id = a.id
      /\ IsDefault([a EXCEPT !.edited = TRUE]) <=> a.isDefault
  BY <1>0, <1>1, <1>3, AgentMade, Zenon
<1>5. /\ [a EXCEPT !.isDefault = d] \in Agent /\ [a EXCEPT !.isDefault = d].id = a.id
      /\ IsDefault([a EXCEPT !.isDefault = d]) <=> d
  BY <1>0, <1>2, AgentMade, Zenon
<1>. QED
  BY <1>4, <1>5, Zenon DEF IsDefault

LEMMA AgentsOf ==
  ASSUME NEW as \in Seq(Agent)
  PROVE  /\ Len(as) \in Nat /\ DOMAIN as = 1 .. Len(as)
         /\ \A i \in 1 .. Len(as) : as[i] \in Agent /\ as[i].id \in 1 .. MaxMade
  BY LenProperties, ElementOfSeq, AgentIs

LEMMA RosterStarts ==
  ASSUME NEW as, as = RosterStarted.agents PROVE RosterIs(as, 1)
<1>1. MaxMade \in Nat /\ CRM_AGENTS \in 1 .. MaxMade /\ CRM_AGENTS \in Nat
      /\ 1 \in 1 .. CRM_AGENTS
  BY LibraryAssumption DEF LibraryAssumption
<1>2. as = [i \in 1 .. CRM_AGENTS |-> NewAgent(i, i = 1)]
  BY DEF RosterStarted
<1>3. ASSUME NEW i \in 1 .. CRM_AGENTS
      PROVE  as[i] \in Agent /\ as[i].id = i /\ (IsDefault(as[i]) <=> i = 1)
  <2>1. as[i] = NewAgent(i, i = 1)
    BY <1>2
  <2>2. as[i] = [id |-> i, isDefault |-> i = 1, edited |-> FALSE]
    BY <2>1, Zenon DEF NewAgent
  <2>3. i \in 1 .. MaxMade
    BY <1>1
  <2>4. (i = 1) \in BOOLEAN /\ FALSE \in BOOLEAN
    OBVIOUS
  <2>. QED
    BY <2>2, <2>3, <2>4, AgentMade, Zenon
<1>4. as \in Seq(Agent) /\ Len(as) = CRM_AGENTS
  <2>1. as \in [1 .. CRM_AGENTS -> Agent]
    BY <1>2, <1>3
  <2>. QED
    BY <1>1, <2>1
<1>5. 1 \in 1 .. Len(as) /\ as[1].id = 1
  BY <1>1, <1>3, <1>4
<1>6. DefaultIs(as, 1)
  BY <1>3, <1>4, <1>5 DEF DefaultIs
<1>7. OnceEach(as)
  BY <1>3, <1>4 DEF OnceEach
<1>. QED
  BY <1>4, <1>5, <1>6, <1>7 DEF RosterIs

\* A list of as many agents with the same ids.
LEMMA AgentsChanged ==
  ASSUME NEW as \in Seq(Agent), OnceEach(as), NEW bs \in [1 .. Len(as) -> Agent],
         \A i \in 1 .. Len(as) : bs[i].id = as[i].id
  PROVE  bs \in Seq(Agent) /\ Len(bs) = Len(as) /\ OnceEach(bs)
<1>1. Len(as) \in Nat
  BY AgentsOf
<1>2. bs \in Seq(Agent) /\ Len(bs) = Len(as)
  BY <1>1, ListOf, Zenon
<1>3. ASSUME NEW i \in 1 .. Len(as), NEW j \in 1 .. Len(as), bs[i].id = bs[j].id PROVE i = j
  <2>1. as[i].id = as[j].id
    BY <1>3
  <2>. QED
    BY <2>1 DEF OnceEach
<1>. QED
  BY <1>2, <1>3 DEF OnceEach

\* Editing an agent changes neither the default nor the selected.
LEMMA EditAgentKeeps ==
  ASSUME RosterInv, EditAgent PROVE RosterInv'
<1> DEFINE as == agents
           bs == agents'
<1>1. as \in Seq(Agent) /\ OnceEach(as) /\ Len(as) \in Nat /\ DOMAIN as = 1 .. Len(as)
  BY AgentsOf DEF RosterInv, RosterIs
<1>2. bs = [i \in 1 .. Len(as) |->
              IF as[i].id = selectedAgent THEN [as[i] EXCEPT !.edited = TRUE] ELSE as[i]]
  BY <1>1 DEF EditAgent, update, IsSelected
<1>3. ASSUME NEW i \in 1 .. Len(as)
      PROVE  bs[i] \in Agent /\ bs[i].id = as[i].id /\ (IsDefault(bs[i]) <=> IsDefault(as[i]))
  <2>1. as[i] \in Agent
    BY <1>1, AgentsOf
  <2>2. bs[i] = as[i] \/ bs[i] = [as[i] EXCEPT !.edited = TRUE]
    BY <1>2
  <2>3. TRUE \in BOOLEAN
    OBVIOUS
  <2>4. /\ [as[i] EXCEPT !.edited = TRUE] \in Agent
        /\ [as[i] EXCEPT !.edited = TRUE].id = as[i].id
        /\ IsDefault([as[i] EXCEPT !.edited = TRUE]) <=> IsDefault(as[i])
    BY <2>1, <2>3, AgentPatched
  <2>. QED
    BY ONLY <2>1, <2>2, <2>4
<1> HIDE DEF bs
<1>4. bs \in [1 .. Len(as) -> Agent]
  BY <1>2, <1>3
<1>5. bs \in Seq(Agent) /\ Len(bs) = Len(as) /\ OnceEach(bs)
  BY <1>1, <1>3, <1>4, AgentsChanged
<1>6. \E k \in 1 .. Len(bs) : bs[k].id = selectedAgent
  BY <1>3, <1>5 DEF RosterInv, RosterIs
<1>7. \E k \in 1 .. Len(bs) : DefaultIs(bs, k)
  BY <1>3, <1>5 DEF RosterInv, RosterIs, DefaultIs
<1>. QED
  BY <1>5, <1>6, <1>7 DEF RosterInv, RosterIs, EditAgent, bs

\* A new agent is selected, and not the default.
LEMMA CreateAgentKeeps ==
  ASSUME RosterInv, createAgent PROVE RosterInv'
<1> DEFINE as == agents
           bs == agents'
           n == Len(agents)
<1>1. as \in Seq(Agent) /\ OnceEach(as) /\ n \in Nat /\ DOMAIN as = 1 .. n
      /\ \A i \in 1 .. n : as[i].id \in 1 .. MaxMade
  BY AgentsOf DEF RosterInv, RosterIs
<1>2. PICK id \in Unused(agents) :
        agents' = Append(agents, NewAgent(id, FALSE)) /\ selectedAgent' = id
  BY DEF createAgent
<1> DEFINE new == NewAgent(id, FALSE)
<1>3. id \in 1 .. MaxMade /\ \A i \in 1 .. n : as[i].id < id
  BY <1>1, <1>2 DEF Unused
<1>4. new \in Agent /\ new.id = id /\ ~IsDefault(new)
  <2>1. NewAgent(id, FALSE) = [id |-> id, isDefault |-> FALSE, edited |-> FALSE]
    BY Zenon DEF NewAgent
  <2>2. FALSE \in BOOLEAN
    OBVIOUS
  <2>. QED
    BY <1>3, <2>1, <2>2, AgentMade, Zenon
<1> HIDE DEF new
<1>5. bs \in Seq(Agent) /\ Len(bs) = n + 1 /\ bs[n + 1] = new /\ \A i \in 1 .. n : bs[i] = as[i]
  <2>1. bs = Append(as, new)
    BY <1>2 DEF new
  <2>. HIDE DEF bs, as
  <2>. QED
    BY <1>1, <1>4, <2>1, AppendProperties DEF as
<1> HIDE DEF as, bs, n
<1>6. ASSUME NEW i \in 1 .. n PROVE as[i].id # id
  <2>1. MaxMade \in Nat
    BY LibraryAssumption DEF LibraryAssumption
  <2>2. as[i].id \in 1 .. MaxMade /\ as[i].id < id
    BY <1>1, <1>3
  <2>5. \A x \in 1 .. MaxMade : x \in Nat
    BY <2>1
  <2>3. as[i].id \in Nat /\ id \in Nat
    BY <1>3, <2>2, <2>5, Zenon
  <2>4. \A x, y \in Nat : x < y => x # y
    OBVIOUS
  <2>. QED
    BY <2>2, <2>3, <2>4, Zenon
<1>0. \A i \in 1 .. n + 1 : i \in 1 .. n \/ i = n + 1
  BY <1>1
<1>7. OnceEach(bs)
  <2>2. \A i, j \in 1 .. n : as[i].id = as[j].id => i = j
    BY <1>1 DEF OnceEach, n, as
  <2>3. \A i \in 1 .. n : bs[i].id # bs[n + 1].id
    BY <1>4, <1>5, <1>6
  <2>4. ASSUME NEW i \in 1 .. n + 1, NEW j \in 1 .. n + 1, bs[i].id = bs[j].id PROVE i = j
    BY <1>0, <1>5, <2>2, <2>3, <2>4
  <2>. QED
    BY <1>5, <2>4 DEF OnceEach
<1>8. n + 1 \in 1 .. Len(bs) /\ bs[n + 1].id = id
  BY <1>1, <1>4, <1>5
<1>9. PICK k \in 1 .. n : \A i \in 1 .. n : IsDefault(as[i]) <=> i = k
  BY DEF RosterInv, RosterIs, DefaultIs, as, n
<1>10. ASSUME NEW i \in 1 .. n + 1 PROVE IsDefault(bs[i]) <=> i = k
  <2>1. CASE i \in 1 .. n
    BY <1>5, <1>9, <2>1
  <2>2. CASE i = n + 1
    <3>1. i # k
      BY <1>1, <2>2
    <3>. QED
      BY <1>4, <1>5, <2>2, <3>1
  <2>. QED
    BY <1>0, <2>1, <2>2
<1>11. k \in 1 .. Len(bs) /\ DefaultIs(bs, k)
  BY <1>1, <1>5, <1>10 DEF DefaultIs
<1>. QED
  BY <1>2, <1>5, <1>7, <1>8, <1>11 DEF RosterInv, RosterIs, bs

\* The selected agent becomes the default, and no other is.
LEMMA MakeDefaultKeeps ==
  ASSUME RosterInv, makeDefault PROVE RosterInv'
<1> DEFINE as == agents
           bs == agents'
<1>1. as \in Seq(Agent) /\ OnceEach(as) /\ Len(as) \in Nat /\ DOMAIN as = 1 .. Len(as)
  BY AgentsOf DEF RosterInv, RosterIs
<1>2. bs = [i \in 1 .. Len(as) |-> [as[i] EXCEPT !.isDefault = IsSelected(as[i])]]
  BY <1>1 DEF makeDefault
<1>3. ASSUME NEW i \in 1 .. Len(as)
      PROVE  bs[i] \in Agent /\ bs[i].id = as[i].id /\ (IsDefault(bs[i]) <=> as[i].id = selectedAgent)
  <2>1. as[i] \in Agent
    BY <1>1, AgentsOf
  <2>2. bs[i] = [as[i] EXCEPT !.isDefault = IsSelected(as[i])]
    BY <1>2
  <2>3. IsSelected(as[i]) \in BOOLEAN /\ (IsSelected(as[i]) <=> as[i].id = selectedAgent)
    BY DEF IsSelected
  <2>4. ASSUME NEW d \in BOOLEAN, NEW b, b = [as[i] EXCEPT !.isDefault = d]
        PROVE  b \in Agent /\ b.id = as[i].id /\ (IsDefault(b) <=> d)
    BY <2>1, <2>4, AgentPatched, Zenon
  <2>. HIDE DEF bs, as
  <2>. QED
    BY <2>2, <2>3, <2>4, Zenon
<1> HIDE DEF bs
<1>4. bs \in [1 .. Len(as) -> Agent]
  BY <1>2, <1>3
<1>5. bs \in Seq(Agent) /\ Len(bs) = Len(as) /\ OnceEach(bs)
  BY <1>1, <1>3, <1>4, AgentsChanged
<1>6. PICK k \in 1 .. Len(as) : as[k].id = selectedAgent
  BY DEF RosterInv, RosterIs
<1>7. k \in 1 .. Len(bs) /\ bs[k].id = selectedAgent
  BY <1>3, <1>5, <1>6
<1>8. ASSUME NEW i \in 1 .. Len(bs) PROVE IsDefault(bs[i]) <=> i = k
  <2>1. i \in 1 .. Len(as) /\ (IsDefault(bs[i]) <=> as[i].id = as[k].id)
    BY <1>3, <1>5, <1>6
  <2>. QED
    BY <1>1, <1>6, <2>1 DEF OnceEach
<1>9. DefaultIs(bs, k)
  BY <1>7, <1>8 DEF DefaultIs
<1>. QED
  BY <1>5, <1>7, <1>9 DEF RosterInv, RosterIs, makeDefault, bs

\* Where the items of a list without the one in place m were before.
Places(n, m) == [i \in 1 .. n |-> IF i < m THEN i ELSE i + 1]

LEMMA PlacesLeft ==
  ASSUME NEW n \in Nat, NEW m \in 1 .. n + 1
  PROVE  /\ \A i \in 1 .. n : Places(n, m)[i] \in 1 .. n + 1 /\ Places(n, m)[i] # m
         /\ \A i, j \in 1 .. n : Places(n, m)[i] = Places(n, m)[j] => i = j
         /\ \A k \in 1 .. n + 1 : k # m => \E i \in 1 .. n : Places(n, m)[i] = k
<1>1. \A i \in 1 .. n : Places(n, m)[i] = IF i < m THEN i ELSE i + 1
  BY DEF Places
<1>2. \A i \in 1 .. n : Places(n, m)[i] \in 1 .. n + 1 /\ Places(n, m)[i] # m
  BY <1>1
<1>3. \A i, j \in 1 .. n : Places(n, m)[i] = Places(n, m)[j] => i = j
  BY <1>1
<1>4. ASSUME NEW k \in 1 .. n + 1, k # m PROVE \E i \in 1 .. n : Places(n, m)[i] = k
  <2>1. CASE k < m
    <3>1. k \in 1 .. n
      BY <2>1
    <3>. QED
      BY <1>1, <2>1, <3>1
  <2>2. CASE ~(k < m)
    <3>1. k - 1 \in 1 .. n /\ ~(k - 1 < m) /\ (k - 1) + 1 = k
      BY <1>4, <2>2
    <3>. QED
      BY <1>1, <3>1
  <2>. QED
    BY <2>1, <2>2
<1>. QED
  BY <1>2, <1>3, <1>4

\* Without one of them the others are agents still, and the default is among them
\* unless it was that one.
LEMMA OneAgentLess ==
  ASSUME NEW as \in Seq(Agent), OnceEach(as), Len(as) > 1, NEW m \in 1 .. Len(as),
         NEW k, DefaultIs(as, k), NEW rest, rest = RemoveAt(as, m)
  PROVE  /\ rest \in Seq(Agent) /\ OnceEach(rest) /\ Len(rest) \in Nat /\ Len(rest) >= 1
         /\ k = m => \A i \in 1 .. Len(rest) : ~IsDefault(rest[i])
         /\ k # m => \E n \in 1 .. Len(rest) : DefaultIs(rest, n)
<1>1. Len(as) \in Nat /\ DOMAIN as = 1 .. Len(as)
  BY AgentsOf
<1>2. OneLess(rest, as, m, Agent)
  BY <1>1, RemovedOne
<1>3. rest \in Seq(Agent) /\ Len(rest) \in Nat /\ Len(rest) >= 1 /\ Len(as) = Len(rest) + 1
  <2>1. rest \in Seq(Agent) /\ Len(as) = Len(rest) + 1
    BY <1>2 DEF OneLess
  <2>2. Len(rest) \in Nat
    BY <2>1, LenProperties
  <2>3. \A x, y \in Nat : x > 1 /\ x = y + 1 => y >= 1
    OBVIOUS
  <2>. QED
    BY <1>1, <2>1, <2>2, <2>3, Zenon
<1> DEFINE from == Places(Len(rest), m)
<1>4. /\ \A i \in 1 .. Len(rest) : from[i] \in 1 .. Len(as) /\ from[i] # m
      /\ \A i, j \in 1 .. Len(rest) : from[i] = from[j] => i = j
      /\ \A n \in 1 .. Len(as) : n # m => \E i \in 1 .. Len(rest) : from[i] = n
  <2>1. m \in 1 .. Len(rest) + 1
    BY <1>3
  <2>2. /\ \A i \in 1 .. Len(rest) : from[i] \in 1 .. Len(rest) + 1 /\ from[i] # m
        /\ \A i, j \in 1 .. Len(rest) : from[i] = from[j] => i = j
        /\ \A n \in 1 .. Len(rest) + 1 : n # m => \E i \in 1 .. Len(rest) : from[i] = n
    BY <1>3, <2>1, PlacesLeft, Zenon
  <2>3. 1 .. Len(as) = 1 .. Len(rest) + 1
    BY <1>3
  <2>. HIDE DEF from
  <2>. QED
    BY <2>2, <2>3
<1>5. ASSUME NEW i \in 1 .. Len(rest) PROVE rest[i] = as[from[i]]
  <2>1. /\ i < m => rest[i] = as[i]
        /\ ~(i < m) => rest[i] = as[i + 1]
    BY <1>2 DEF OneLess
  <2>2. from[i] = IF i < m THEN i ELSE i + 1
    BY DEF Places
  <2>. QED
    BY <2>1, <2>2
<1> HIDE DEF from
<1>7. OnceEach(rest)
  <2>1. ASSUME NEW i \in 1 .. Len(rest), NEW j \in 1 .. Len(rest), rest[i].id = rest[j].id
        PROVE  i = j
    <3>1. as[from[i]].id = as[from[j]].id /\ from[i] \in 1 .. Len(as) /\ from[j] \in 1 .. Len(as)
      BY <1>4, <1>5, <2>1
    <3>2. from[i] = from[j]
      BY <3>1 DEF OnceEach
    <3>. QED
      BY <1>4, <3>2
  <2>. QED
    BY <2>1 DEF OnceEach
<1>8. k \in 1 .. Len(as) /\ \A i \in 1 .. Len(rest) : IsDefault(rest[i]) <=> from[i] = k
  <2>1. k \in 1 .. Len(as) /\ \A i \in 1 .. Len(as) : IsDefault(as[i]) <=> i = k
    BY Zenon DEF DefaultIs
  <2>2. ASSUME NEW i \in 1 .. Len(rest) PROVE IsDefault(rest[i]) <=> from[i] = k
    <3>1. rest[i] = as[from[i]] /\ from[i] \in 1 .. Len(as)
      BY <1>4, <1>5
    <3>2. IsDefault(as[from[i]]) <=> from[i] = k
      BY <2>1, <3>1, Zenon
    <3>. QED
      BY <3>1, <3>2
  <2>. QED
    BY <2>1, <2>2
<1>9. k = m => \A i \in 1 .. Len(rest) : ~IsDefault(rest[i])
  BY <1>4, <1>8
<1>10. ASSUME k # m PROVE \E n \in 1 .. Len(rest) : DefaultIs(rest, n)
  <2>1. PICK n \in 1 .. Len(rest) : from[n] = k
    BY <1>4, <1>8, <1>10
  <2>2. \A i \in 1 .. Len(rest) : IsDefault(rest[i]) <=> i = n
    BY <1>4, <1>8, <2>1
  <2>. QED
    BY <2>2 DEF DefaultIs
<1>. QED
  BY <1>3, <1>7, <1>9, <1>10

\* The first of the rest follows a default agent, and is selected.
LEMMA DeleteAgentKeeps ==
  ASSUME RosterInv, deleteAgent PROVE RosterInv'
<1> DEFINE as == agents
           bs == agents'
           rest == Without(agents, selectedAgent)
           was == \E a \in ToSet(agents) : IsSelected(a) /\ a.isDefault
<1>1. as \in Seq(Agent) /\ OnceEach(as) /\ Len(as) \in Nat /\ DOMAIN as = 1 .. Len(as)
      /\ Len(as) > 1
  BY AgentsOf DEF RosterInv, RosterIs, deleteAgent
<1>2. bs = Successors(rest, was) /\ selectedAgent' = bs[1].id
  BY Zenon DEF deleteAgent
<1> DEFINE m == CHOOSE i \in DOMAIN agents : agents[i].id = selectedAgent
<1>3. m \in 1 .. Len(as) /\ as[m].id = selectedAgent /\ rest = RemoveAt(as, m)
  BY <1>1 DEF RosterInv, RosterIs, Without
<1>4. PICK k \in 1 .. Len(as) : DefaultIs(as, k)
  BY DEF RosterInv, RosterIs
<1>5. was <=> k = m
  <2>1. ToSet(as) = {as[i] : i \in 1 .. Len(as)}
    BY <1>1 DEF ToSet
  <2>2. \A i \in 1 .. Len(as) : IsSelected(as[i]) <=> i = m
    <3>. HIDE DEF m
    <3>. QED
      BY <1>1, <1>3 DEF OnceEach, IsSelected
  <2>3. was <=> \E i \in 1 .. Len(as) : IsSelected(as[i]) /\ IsDefault(as[i])
    BY <2>1, Zenon DEF IsDefault
  <2>4. \A i \in 1 .. Len(as) : IsDefault(as[i]) <=> i = k
    BY <1>4 DEF DefaultIs
  <2>. HIDE DEF m, was
  <2>. QED
    BY <1>3, <2>2, <2>3, <2>4
<1> HIDE DEF m, rest, was, bs
<1>6. /\ rest \in Seq(Agent) /\ OnceEach(rest) /\ Len(rest) \in Nat /\ Len(rest) >= 1
      /\ k = m => \A i \in 1 .. Len(rest) : ~IsDefault(rest[i])
      /\ k # m => \E n \in 1 .. Len(rest) : DefaultIs(rest, n)
  BY <1>1, <1>3, <1>4, OneAgentLess
<1>7. bs = [i \in 1 .. Len(rest) |->
              IF i = 1 /\ was THEN [rest[i] EXCEPT !.isDefault = TRUE] ELSE rest[i]]
  BY <1>2, <1>6, AgentsOf DEF Successors
<1>8. ASSUME NEW i \in 1 .. Len(rest)
      PROVE  /\ bs[i] \in Agent /\ bs[i].id = rest[i].id
             /\ IsDefault(bs[i]) <=> (i = 1 /\ k = m) \/ IsDefault(rest[i])
  <2>1. rest[i] \in Agent
    BY <1>6, AgentsOf
  <2>2. TRUE \in BOOLEAN
    OBVIOUS
  <2>3. /\ [rest[i] EXCEPT !.isDefault = TRUE] \in Agent
        /\ [rest[i] EXCEPT !.isDefault = TRUE].id = rest[i].id
        /\ IsDefault([rest[i] EXCEPT !.isDefault = TRUE])
    BY <2>1, <2>2, AgentPatched, Zenon
  <2>4. bs[i] = IF i = 1 /\ k = m THEN [rest[i] EXCEPT !.isDefault = TRUE] ELSE rest[i]
    BY <1>5, <1>7
  <2>5. CASE i = 1 /\ k = m
    BY <2>3, <2>4, <2>5
  <2>6. CASE ~(i = 1 /\ k = m)
    BY <2>1, <2>4, <2>6
  <2>. QED
    BY <2>5, <2>6
<1>9. bs \in [1 .. Len(rest) -> Agent]
  BY <1>7, <1>8
<1>10. bs \in Seq(Agent) /\ Len(bs) = Len(rest) /\ OnceEach(bs)
  BY <1>6, <1>8, <1>9, AgentsChanged
<1>11. 1 \in 1 .. Len(bs)
  BY <1>6, <1>10
<1>12. \E n \in 1 .. Len(bs) : DefaultIs(bs, n)
  <2>1. CASE k = m
    <3>1. DefaultIs(bs, 1)
      BY <1>6, <1>8, <1>10, <1>11, <2>1 DEF DefaultIs
    <3>. QED
      BY <1>11, <3>1
  <2>2. CASE k # m
    <3>1. PICK n \in 1 .. Len(rest) : DefaultIs(rest, n)
      BY <1>6, <2>2
    <3>2. n \in 1 .. Len(bs) /\ \A i \in 1 .. Len(bs) : IsDefault(bs[i]) <=> i = n
      BY <1>8, <1>10, <2>2, <3>1 DEF DefaultIs
    <3>. QED
      BY <3>2 DEF DefaultIs
  <2>. QED
    BY <2>1, <2>2
<1>. QED
  BY <1>2, <1>10, <1>11, <1>12 DEF RosterInv, RosterIs, bs

LEMMA RosterStep ==
  ASSUME RosterInv, [Next]_vars PROVE RosterInv'
<1>1. CASE AgentsUnmounted
  <2>1. RosterIs(agents', 1) /\ selectedAgent' = 1
    BY <1>1, RosterStarts DEF AgentsUnmounted
  <2>. QED
    BY <2>1 DEF RosterInv
<1>2. CASE EditAgent
  BY <1>2, EditAgentKeeps
<1>3. CASE createAgent
  BY <1>3, CreateAgentKeeps
<1>4. CASE deleteAgent
  BY <1>4, DeleteAgentKeeps
<1>5. CASE makeDefault
  BY <1>5, MakeDefaultKeeps
<1>6. CASE SelectAgent
  <2>1. PICK a \in ToSet(agents) : selectedAgent' = a.id
    BY <1>6 DEF SelectAgent
  <2>2. agents \in Seq(Agent) /\ DOMAIN agents = 1 .. Len(agents)
    BY AgentsOf DEF RosterInv, RosterIs
  <2>3. \E k \in 1 .. Len(agents) : agents[k].id = selectedAgent'
    BY <2>1, <2>2 DEF ToSet
  <2>. QED
    BY <1>6, <2>3 DEF SelectAgent, RosterInv, RosterIs
<1>7. CASE UNCHANGED roster
  BY <1>7 DEF roster, RosterInv
<1>. QED
  BY <1>1, <1>2, <1>3, <1>4, <1>5, <1>6, <1>7
     DEF Next, OnPage, OpenPage, openConversation, local, vars, AgentsNext

\* Whatever is created, edited, deleted and made the default, one agent is the
\* default: deleteAgent hands the flag on, makeDefault and createAgent keep it one.
THEOREM OneDefault == Spec => []OneDefaultAgent
<1>1. Init => RosterInv
  BY RosterStarts DEF Init, AgentsInit, RosterInv
<1>2. RosterInv /\ [Next]_vars => RosterInv'
  BY RosterStep
<1>3. RosterInv => OneDefaultAgent
  <2>1. ASSUME RosterInv PROVE OneDefaultAgent
    <3>1. agents \in Seq(Agent) /\ DOMAIN agents = 1 .. Len(agents)
      BY <2>1, AgentsOf DEF RosterInv, RosterIs
    <3>2. PICK k \in 1 .. Len(agents) : DefaultIs(agents, k)
      BY <2>1 DEF RosterInv, RosterIs
    <3>3. {i \in DOMAIN agents : IsDefault(agents[i])} = {k}
      BY <3>1, <3>2 DEF DefaultIs
    <3>4. {i \in DOMAIN agents : agents[i].isDefault} = {k}
      BY <3>3, Zenon DEF IsDefault
    <3>5. Cardinality({k}) = 1
      BY FS_Singleton
    <3>. QED
      BY <3>4, <3>5 DEF OneDefaultAgent
  <2>. QED
    BY <2>1
<1>. QED
  BY <1>1, <1>2, <1>3, PTL DEF Spec

-----------------------------------------------------------------------------
(* A list in which one is put in or moved                                   *)

\* more is ls with e put in place m.
OneMore(more, ls, m, e, S) ==
    /\ more \in Seq(S) /\ Len(more) = Len(ls) + 1 /\ more[m] = e
    /\ \A i \in 1 .. Len(ls) :
         /\ i < m => more[i] = ls[i]
         /\ ~(i < m) => more[i + 1] = ls[i]

\* InsertAt puts one item in and moves those behind it down.
LEMMA InsertedOne ==
  ASSUME NEW S, NEW ls \in Seq(S), NEW m \in 1 .. Len(ls) + 1, NEW e \in S,
         NEW more, more = InsertAt(ls, m, e)
  PROVE  OneMore(more, ls, m, e, S)
<1>1. m \in Nat /\ Len(ls) \in Nat /\ m - 1 <= Len(ls) /\ 1 <= m
      /\ \A i \in 1 .. Len(ls) : ls[i] \in S
  BY LenProperties, ElementOfSeq
<1> DEFINE a == SubSeq(ls, 1, m - 1)
           b == SubSeq(ls, m, Len(ls))
<1>2. a \in Seq(S) /\ Len(a) = m - 1 /\ \A i \in 1 .. m - 1 : a[i] = ls[i]
  <2>1. /\ a \in Seq(S) /\ Len(a) = (IF 1 <= m - 1 THEN (m - 1) - 1 + 1 ELSE 0)
        /\ \A i \in 1 .. (m - 1) - 1 + 1 : a[i] = ls[1 + i - 1]
    <3>1. 1 \in Int /\ m - 1 \in Int /\ \A i \in 1 .. m - 1 : ls[i] \in S
      BY <1>1
    <3>. QED
      BY <3>1, SubSeqProperties
  <2>. QED
    BY <1>1, <2>1
<1>3. b \in Seq(S) /\ Len(b) = Len(ls) + 1 - m
      /\ \A i \in 1 .. Len(ls) + 1 - m : b[i] = ls[m + i - 1]
  <2>1. /\ b \in Seq(S)
        /\ Len(b) = (IF m <= Len(ls) THEN Len(ls) - m + 1 ELSE 0)
        /\ \A i \in 1 .. Len(ls) - m + 1 : b[i] = ls[m + i - 1]
    <3>1. m \in Int /\ Len(ls) \in Int /\ \A i \in m .. Len(ls) : ls[i] \in S
      BY <1>1
    <3>. QED
      BY <3>1, SubSeqProperties
  <2>. QED
    BY <1>1, <2>1
<1> HIDE DEF a, b
<1> DEFINE c == Then(a, <<e>>)
<1>4. <<e>> \in Seq(S) /\ Len(<<e>>) = 1 /\ <<e>>[1] = e
  OBVIOUS
<1>5. JoinedOf(c, a, <<e>>, S)
  BY <1>2, <1>4, ThenProperties
<1>6. c \in Seq(S) /\ Len(c) = m /\ c[m] = e /\ \A i \in 1 .. m - 1 : c[i] = ls[i]
  <2> HIDE DEF c
  <2>1. c \in Seq(S) /\ Len(c) = Len(a) + 1
        /\ \A i \in 1 .. Len(a) + 1 : c[i] = IF i <= Len(a) THEN a[i] ELSE <<e>>[i - Len(a)]
    BY <1>4, <1>5 DEF JoinedOf
  <2>2. Len(c) = m
    BY <1>1, <1>2, <2>1
  <2>3. c[m] = e
    <3>1. m \in 1 .. Len(a) + 1 /\ ~(m <= Len(a)) /\ m - Len(a) = 1
      BY <1>1, <1>2
    <3>. QED
      BY <1>4, <2>1, <3>1
  <2>4. \A i \in 1 .. m - 1 : c[i] = ls[i]
    <3>1. \A i \in 1 .. m - 1 : i \in 1 .. Len(a) + 1 /\ i <= Len(a)
      BY <1>1, <1>2
    <3>. QED
      BY <1>2, <2>1, <3>1
  <2>. QED
    BY <2>1, <2>2, <2>3, <2>4
<1> HIDE DEF c
<1>7. more = Then(c, b)
  BY DEF InsertAt, Then, a, b, c
<1>8. JoinedOf(more, c, b, S)
  BY <1>3, <1>6, <1>7, ThenProperties
<1>9. more \in Seq(S) /\ Len(more) = Len(ls) + 1
  <2>1. more \in Seq(S) /\ Len(more) = Len(c) + Len(b)
    BY <1>8 DEF JoinedOf
  <2>2. m + (Len(ls) + 1 - m) = Len(ls) + 1
    BY <1>1
  <2>. QED
    BY <1>3, <1>6, <2>1, <2>2
<1>12. \A i \in 1 .. Len(ls) + 1 : more[i] = IF i <= m THEN c[i] ELSE b[i - m]
  <2>1. \A i \in 1 .. Len(c) + Len(b) : more[i] = IF i <= Len(c) THEN c[i] ELSE b[i - Len(c)]
    BY <1>8 DEF JoinedOf
  <2>2. m + (Len(ls) + 1 - m) = Len(ls) + 1
    BY <1>1
  <2>3. Len(c) + Len(b) = Len(ls) + 1 /\ Len(c) = m
    BY <1>3, <1>6, <2>2
  <2>. QED
    BY <2>1, <2>3
<1>10. more[m] = e
  BY <1>1, <1>6, <1>12
<1>11. ASSUME NEW i \in 1 .. Len(ls) PROVE /\ i < m => more[i] = ls[i]
                                           /\ ~(i < m) => more[i + 1] = ls[i]
  <2>1. CASE i < m
    <3>1. i \in 1 .. Len(ls) + 1 /\ i <= m /\ i \in 1 .. m - 1
      BY <1>1, <2>1
    <3>. QED
      BY <1>6, <1>12, <2>1, <3>1
  <2>2. CASE ~(i < m)
    <3>1. i + 1 \in 1 .. Len(ls) + 1 /\ ~(i + 1 <= m)
          /\ i + 1 - m \in 1 .. Len(ls) + 1 - m /\ m + (i + 1 - m) - 1 = i
      BY <1>1, <2>2
    <3>2. more[i + 1] = b[i + 1 - m]
      BY <1>12, <3>1
    <3>3. b[i + 1 - m] = ls[m + (i + 1 - m) - 1]
      BY <1>3, <3>1
    <3>. QED
      BY <2>2, <3>1, <3>2, <3>3
  <2>. QED
    BY <2>1, <2>2
<1>. QED
  BY <1>9, <1>10, <1>11 DEF OneMore

Once(u) == \A i, j \in DOMAIN u : u[i] = u[j] => i = j

\* Where the item in place k of v is found in u.
Place(i, j, k) == IF k = j THEN i
                  ELSE IF k < j THEN (IF k < i THEN k ELSE k + 1)
                       ELSE (IF k - 1 < i THEN k - 1 ELSE k)

LEMMA PlaceIs ==
  ASSUME NEW n \in Nat, NEW i \in 1 .. n, NEW j \in 1 .. n
  PROVE  /\ \A k \in 1 .. n : Place(i, j, k) \in 1 .. n /\ Place(j, i, Place(i, j, k)) = k
  BY DEF Place

LEMMA MovedPlaces ==
  ASSUME NEW S, NEW u \in Seq(S), NEW v \in Seq(S), NEW i \in DOMAIN u, NEW j \in DOMAIN v,
         u[i] = v[j], RemoveAt(u, i) = RemoveAt(v, j)
  PROVE  Len(u) = Len(v) /\ \A k \in 1 .. Len(v) : v[k] = u[Place(i, j, k)]
<1> DEFINE r == RemoveAt(u, i)
<1>1. OneLess(r, u, i, S) /\ OneLess(r, v, j, S)
  BY RemovedOne
<1> HIDE DEF r
<1>2. Len(u) \in Nat /\ Len(v) \in Nat /\ Len(r) \in Nat /\ i \in 1 .. Len(u) /\ j \in 1 .. Len(v)
  BY <1>1, LenProperties DEF OneLess
<1>3. Len(u) = Len(r) + 1 /\ Len(v) = Len(r) + 1
  BY <1>1 DEF OneLess
<1>4. \A k \in 1 .. Len(r) : r[k] = (IF k < i THEN u[k] ELSE u[k + 1])
                             /\ r[k] = (IF k < j THEN v[k] ELSE v[k + 1])
  BY <1>1 DEF OneLess
<1>5. ASSUME NEW k \in 1 .. Len(v) PROVE v[k] = u[Place(i, j, k)]
  <2>1. CASE k = j
    BY <2>1 DEF Place
  <2>2. CASE k < j
    <3>1. k \in 1 .. Len(r)
      BY <1>2, <1>3, <2>2
    <3>. QED
      BY <1>2, <1>4, <2>2, <3>1 DEF Place
  <2>3. CASE k > j
    <3>1. k - 1 \in 1 .. Len(r) /\ ~(k - 1 < j) /\ (k - 1) + 1 = k
      BY <1>2, <1>3, <2>3
    <3>2. v[k] = IF k - 1 < i THEN u[k - 1] ELSE u[k]
      BY <1>4, <3>1
    <3>. QED
      BY <1>2, <2>3, <3>2 DEF Place
  <2>. QED
    BY <1>2, <2>1, <2>2, <2>3
<1>. QED
  BY <1>3, <1>5

\* What is moved is still there, once if it was there once.
LEMMA MovedKeeps ==
  ASSUME NEW S, NEW u \in Seq(S), NEW v \in Seq(S), OneMoved(u, v)
  PROVE  /\ \A x : (\E k \in DOMAIN u : u[k] = x) <=> (\E k \in DOMAIN v : v[k] = x)
         /\ Once(u) => Once(v)
<1>1. PICK i \in DOMAIN u, j \in DOMAIN v : u[i] = v[j] /\ RemoveAt(u, i) = RemoveAt(v, j)
  BY DEF OneMoved
<1>2. /\ Len(u) = Len(v) /\ Len(u) \in Nat /\ DOMAIN u = 1 .. Len(u) /\ DOMAIN v = 1 .. Len(u)
      /\ i \in 1 .. Len(u) /\ j \in 1 .. Len(u)
  BY <1>1, MovedPlaces, LenProperties
<1>3. \A k \in 1 .. Len(u) : v[k] = u[Place(i, j, k)]
  BY <1>1, <1>2, MovedPlaces
<1>4. \A k \in 1 .. Len(u) : u[k] = v[Place(j, i, k)]
  BY <1>1, <1>2, MovedPlaces
<1>5. \A k \in 1 .. Len(u) : Place(i, j, k) \in 1 .. Len(u) /\ Place(j, i, Place(i, j, k)) = k
  BY <1>2, PlaceIs
<1>6. \A k \in 1 .. Len(u) : Place(j, i, k) \in 1 .. Len(u)
  BY <1>2, PlaceIs
<1> DEFINE f(k) == Place(i, j, k)
           g(k) == Place(j, i, k)
<1>7. /\ \A k \in 1 .. Len(u) : f(k) \in 1 .. Len(u) /\ g(f(k)) = k /\ v[k] = u[f(k)]
      /\ \A k \in 1 .. Len(u) : g(k) \in 1 .. Len(u) /\ u[k] = v[g(k)]
  BY <1>3, <1>4, <1>5, <1>6
<1> HIDE DEF f, g
<1>8. ASSUME Once(u), NEW k \in 1 .. Len(u), NEW m \in 1 .. Len(u), v[k] = v[m] PROVE k = m
  <2>1. f(k) = f(m)
    BY <1>2, <1>7, <1>8 DEF Once
  <2>. QED
    BY <1>7, <2>1
<1>9. ASSUME NEW x, NEW k \in 1 .. Len(u), u[k] = x PROVE \E m \in DOMAIN v : v[m] = x
  BY <1>2, <1>7, <1>9
<1>10. ASSUME NEW x, NEW k \in 1 .. Len(u), v[k] = x PROVE \E m \in DOMAIN u : u[m] = x
  BY <1>2, <1>7, <1>10
<1>. QED
  BY <1>2, <1>8, <1>9, <1>10 DEF Once

\* Two neighbours change places.
LEMMA SwapMoves ==
  ASSUME NEW S, NEW ls \in Seq(S), NEW a \in DOMAIN ls, NEW b \in DOMAIN ls,
         b = a + 1 \/ a = b + 1, NEW v, v = [ls EXCEPT ![a] = ls[b], ![b] = ls[a]]
  PROVE  v \in Seq(S) /\ OneMoved(ls, v)
<1>1. Len(ls) \in Nat /\ DOMAIN ls = 1 .. Len(ls) /\ \A k \in 1 .. Len(ls) : ls[k] \in S
  BY LenProperties, ElementOfSeq
<1>2. /\ v = [k \in 1 .. Len(ls) |-> IF k = a THEN ls[b] ELSE IF k = b THEN ls[a] ELSE ls[k]]
  BY <1>1
<1>3. v \in Seq(S) /\ Len(v) = Len(ls) /\ DOMAIN v = DOMAIN ls
  BY <1>1, <1>2
<1>4. v[b] = ls[a]
  BY <1>1, <1>2
<1>5. RemoveAt(ls, a) = RemoveAt(v, b)
  <2> DEFINE r == RemoveAt(ls, a)
             t == RemoveAt(v, b)
  <2>1. OneLess(r, ls, a, S) /\ OneLess(t, v, b, S)
    BY <1>3, RemovedOne
  <2> HIDE DEF r, t
  <2>2. /\ r \in Seq(S) /\ t \in Seq(S) /\ Len(r) = Len(t) /\ Len(r) \in Nat
        /\ Len(ls) = Len(r) + 1
    BY <1>3, <2>1, LenProperties DEF OneLess
  <2>3. \A k \in 1 .. Len(r) : r[k] = (IF k < a THEN ls[k] ELSE ls[k + 1])
                               /\ t[k] = (IF k < b THEN v[k] ELSE v[k + 1])
    BY <2>1, <2>2 DEF OneLess
  <2>4. \A k \in 1 .. Len(r) : r[k] = t[k]
    BY <1>1, <1>2, <2>2, <2>3
  <2>. QED
    BY <2>2, <2>4, SeqEqual DEF r, t
<1>. QED
  BY <1>3, <1>4, <1>5 DEF OneMoved

\* One is taken out and put in elsewhere.
LEMMA DropMoves ==
  ASSUME NEW S, NEW ls \in Seq(S), NEW a \in DOMAIN ls, NEW b \in DOMAIN ls,
         NEW v, v = InsertAt(RemoveAt(ls, a), b, ls[a])
  PROVE  v \in Seq(S) /\ OneMoved(ls, v)
<1> DEFINE r == RemoveAt(ls, a)
<1>1. Len(ls) \in Nat /\ DOMAIN ls = 1 .. Len(ls) /\ ls[a] \in S
  BY LenProperties, ElementOfSeq
<1>2. r \in Seq(S) /\ Len(ls) = Len(r) + 1
  BY RemovedOne DEF OneLess
<1>3. OneMore(v, r, b, ls[a], S)
  BY <1>1, <1>2, InsertedOne
<1> HIDE DEF r
<1>4. v \in Seq(S) /\ Len(v) = Len(r) + 1 /\ v[b] = ls[a] /\ DOMAIN v = 1 .. Len(v) /\ Len(r) \in Nat
  BY <1>2, <1>3, LenProperties DEF OneMore
<1>5. b \in DOMAIN v
  BY <1>1, <1>2, <1>4
<1>6. RemoveAt(v, b) = r
  <2> DEFINE t == RemoveAt(v, b)
  <2>1. OneLess(t, v, b, S)
    BY <1>4, <1>5, RemovedOne
  <2> HIDE DEF t
  <2>2. t \in Seq(S) /\ Len(t) = Len(r)
    BY <1>4, <2>1, LenProperties DEF OneLess
  <2>3. \A k \in 1 .. Len(r) : t[k] = (IF k < b THEN v[k] ELSE v[k + 1])
    BY <2>1, <2>2 DEF OneLess
  <2>4. \A k \in 1 .. Len(r) : t[k] = r[k]
    BY <1>3, <2>3 DEF OneMore
  <2>. QED
    BY <1>2, <2>2, <2>4, SeqEqual DEF t
<1>. QED
  BY <1>4, <1>5, <1>6 DEF OneMoved, r

-----------------------------------------------------------------------------
(* The steps of a flow                                                      *)

\* A name for the prover, which takes a flag of a record for a value, not a formula.
IsCondition(s) == s.condition

LEMMA StepIs ==
  ASSUME NEW s \in Steps
  PROVE  s.id \in StepIds /\ s = [id |-> s.id, edited |-> s.edited, condition |-> s.condition]
  BY DEF Steps

LEMMA StepMade ==
  ASSUME NEW id \in StepIds, NEW c \in BOOLEAN
  PROVE  Step(id, c) \in Steps /\ Step(id, c).id = id /\ (c = FALSE => ~IsCondition(Step(id, c)))
  BY DEF Step, Steps, IsCondition

LEMMA StepsOf ==
  ASSUME NEW steps \in Seq(Steps)
  PROVE  /\ Len(steps) \in Nat /\ DOMAIN steps = 1 .. Len(steps)
         /\ \A i \in DOMAIN steps : steps[i] \in Steps /\ steps[i].id \in StepIds
  BY LenProperties, ElementOfSeq, StepIs

LEMMA IdsOfIs ==
  ASSUME NEW steps
  PROVE  \A id : id \in IdsOf(steps) <=> \E i \in DOMAIN steps : steps[i].id = id
  BY DEF IdsOf, ToSet

LEMMA AllIdsIs ==
  ASSUME NEW lists
  PROVE  \A id : id \in AllIds(lists) <=>
                   \E at \in DOMAIN lists : \E i \in DOMAIN lists[at] : lists[at][i].id = id
  BY IdsOfIs DEF AllIds

\* The places of the branches of some steps.
LEMMA BranchesAre ==
  ASSUME NEW steps
  PROVE  \A q : q \in BranchesOf(steps) <=>
                  \E s \in steps, b \in Branches : IsCondition(s) /\ q = <<s.id, b>>
<1> DEFINE conditions == {s \in steps : IsCondition(s)}
           ids == {s.id : s \in conditions}
<1>1. BranchesOf(steps) = ids \X Branches
  BY Zenon DEF BranchesOf, IsCondition
<1>2. \A id : id \in ids <=> \E s \in steps : IsCondition(s) /\ id = s.id
  OBVIOUS
<1> HIDE DEF ids
<1>3. \A q : q \in ids \X Branches <=> \E id \in ids, b \in Branches : q = <<id, b>>
  OBVIOUS
<1>4. \A q : (\E id \in ids, b \in Branches : q = <<id, b>>) <=>
           \E s \in steps, b \in Branches : IsCondition(s) /\ q = <<s.id, b>>
  BY <1>2, Zenon
<1>5. \A q : q \in BranchesOf(steps) <=> q \in ids \X Branches
  BY <1>1
<1>. QED
  BY <1>3, <1>4, <1>5, ZenonT(60)

\* A condition of a list has a branch there.
Opens(steps, q) ==
    \E i \in DOMAIN steps, b \in Branches : IsCondition(steps[i]) /\ q = <<steps[i].id, b>>

LEMMA OpensIs ==
  ASSUME NEW steps, NEW q PROVE q \in BranchesOf(ToSet(steps)) <=> Opens(steps, q)
<1>1. \A s : s \in ToSet(steps) <=> \E i \in DOMAIN steps : s = steps[i]
  BY DEF ToSet
<1>2. ASSUME NEW s \in ToSet(steps), NEW b \in Branches, IsCondition(s), q = <<s.id, b>>
      PROVE  Opens(steps, q)
  BY <1>1, <1>2, Zenon DEF Opens
<1>3. ASSUME NEW i \in DOMAIN steps, NEW b \in Branches, IsCondition(steps[i]), q = <<steps[i].id, b>>
      PROVE  \E s \in ToSet(steps), c \in Branches : IsCondition(s) /\ q = <<s.id, c>>
  BY <1>1, <1>3, Zenon
<1>4. Opens(steps, q) => \E s \in ToSet(steps), c \in Branches : IsCondition(s) /\ q = <<s.id, c>>
  BY <1>3, Zenon DEF Opens
<1>5. q \in BranchesOf(ToSet(steps)) <=> \E s \in ToSet(steps), b \in Branches : IsCondition(s) /\ q = <<s.id, b>>
  BY BranchesAre
<1>. QED
  BY <1>2, <1>4, <1>5, Zenon

\* A flow whose steps are numbered up to n.
Good(lists, n) == IsFlow(lists) /\ AllIds(lists) \subseteq 1 .. n

\* The same, by the places of its lists and the items in them.
Listed(lists) ==
    /\ lists = [at \in DOMAIN lists |-> lists[at]]
    /\ \A at \in DOMAIN lists : lists[at] \in Seq(Steps)

Placed(lists) ==
    \A q : q \in DOMAIN lists <=> q = None \/ \E at \in DOMAIN lists : Opens(lists[at], q)

Numbered(lists, n) == \A at \in DOMAIN lists : \A i \in DOMAIN lists[at] :
    lists[at][i].id \in 1 .. n /\ (at # None => at[1] < lists[at][i].id)

LEMMA GoodIs ==
  ASSUME NEW lists, NEW n
  PROVE  Good(lists, n) <=> Listed(lists) /\ Placed(lists) /\ StepsApart(lists) /\ Numbered(lists, n)
<1>1. lists \in [PlacesIn(lists) -> Seq(Steps)] <=> Listed(lists) /\ DOMAIN lists = PlacesIn(lists)
  BY DEF Listed
<1>2. DOMAIN lists = PlacesIn(lists) <=> Placed(lists)
  <2>1. \A q : q \in PlacesIn(lists) <=> q = None \/ \E at \in DOMAIN lists : Opens(lists[at], q)
    BY OpensIs DEF PlacesIn
  <2>2. DOMAIN lists = PlacesIn(lists) <=> \A q : q \in DOMAIN lists <=> q \in PlacesIn(lists)
    OBVIOUS
  <2>. QED
    BY <2>1, <2>2 DEF Placed
<1>3. (/\ \A at \in DOMAIN lists \ {None} : \A id \in IdsOf(lists[at]) : at[1] < id
       /\ AllIds(lists) \subseteq 1 .. n) <=> Numbered(lists, n)
  <2>1. (\A at \in DOMAIN lists \ {None} : \A id \in IdsOf(lists[at]) : at[1] < id) <=>
        \A at \in DOMAIN lists : \A i \in DOMAIN lists[at] : at # None => at[1] < lists[at][i].id
    <3>1. \A at \in DOMAIN lists : \A id : id \in IdsOf(lists[at]) <=> \E i \in DOMAIN lists[at] : lists[at][i].id = id
      BY IdsOfIs, Zenon
    <3>. QED
      BY <3>1
  <2>2. AllIds(lists) \subseteq 1 .. n <=>
        \A at \in DOMAIN lists : \A i \in DOMAIN lists[at] : lists[at][i].id \in 1 .. n
    <3>1. \A at \in DOMAIN lists : \A i \in DOMAIN lists[at] : lists[at][i].id \in AllIds(lists)
      BY AllIdsIs
    <3>2. \A id \in AllIds(lists) :
            \E at \in DOMAIN lists : \E i \in DOMAIN lists[at] : lists[at][i].id = id
      BY AllIdsIs
    <3>. QED
      BY <3>1, <3>2
  <2>. QED
    BY <2>1, <2>2, Zenon DEF Numbered
<1>. QED
  BY <1>1, <1>2, <1>3 DEF Good, IsFlow

LEMMA GoodMore ==
  ASSUME NEW n \in Nat, NEW m \in Nat, n <= m, NEW lists, Good(lists, n) PROVE Good(lists, m)
<1>1. 1 .. n \subseteq 1 .. m
  OBVIOUS
<1>. QED
  BY <1>1 DEF Good

\* The place of a branch is not that of the list of the flow.
LEMMA BranchPlace ==
  ASSUME NEW lists, Placed(lists), NEW q \in DOMAIN lists, q # None
  PROVE  \E at \in DOMAIN lists : \E i \in DOMAIN lists[at], b \in Branches :
            IsCondition(lists[at][i]) /\ q = <<lists[at][i].id, b>> /\ q[1] = lists[at][i].id
<1>1. PICK at \in DOMAIN lists : Opens(lists[at], q)
  BY DEF Placed
<1>2. PICK i \in DOMAIN lists[at], b \in Branches : IsCondition(lists[at][i]) /\ q = <<lists[at][i].id, b>>
  BY <1>1 DEF Opens
<1>3. q[1] = lists[at][i].id
  BY <1>2
<1>. QED
  BY <1>2, <1>3

-----------------------------------------------------------------------------
(* What is under a step                                                     *)

\* What is in a branch of one of them is one of them.
Closed(lists, ids) ==
    \A at \in DOMAIN lists \ {None} : at[1] \in ids => IdsOf(lists[at]) \subseteq ids

LEMMA UnderIs ==
  ASSUME NEW lists, NEW id \in AllIds(lists)
  PROVE  /\ id \in Under(lists, id) /\ Under(lists, id) \subseteq AllIds(lists)
         /\ Closed(lists, Under(lists, id))
         /\ \A ids \in SUBSET AllIds(lists) :
              id \in ids /\ Closed(lists, ids) => Under(lists, id) \subseteq ids
<1>1. Under(lists, id) = {s \in AllIds(lists) : \A ids \in SUBSET AllIds(lists) :
                            id \in ids /\ Closed(lists, ids) => s \in ids}
  BY DEF Under, Closed
<1>2. ASSUME NEW at \in DOMAIN lists \ {None}, at[1] \in Under(lists, id), NEW s \in IdsOf(lists[at])
      PROVE  s \in Under(lists, id)
  <2>1. s \in AllIds(lists)
    BY DEF AllIds
  <2>2. ASSUME NEW ids \in SUBSET AllIds(lists), id \in ids, Closed(lists, ids) PROVE s \in ids
    <3>1. at[1] \in ids
      BY <1>1, <1>2, <2>2
    <3>. QED
      BY <2>2, <3>1 DEF Closed
  <2>. QED
    BY <1>1, <2>1, <2>2
<1>3. Closed(lists, Under(lists, id))
  BY <1>2 DEF Closed
<1>. QED
  BY <1>1, <1>3

\* What is under a step was made after it.
LEMMA UnderIsLater ==
  ASSUME NEW n \in Nat, NEW lists, Good(lists, n), NEW id \in AllIds(lists)
  PROVE  \A s \in Under(lists, id) : id <= s
<1> DEFINE ids == {s \in AllIds(lists) : id <= s}
<1>1. Placed(lists) /\ Numbered(lists, n) /\ AllIds(lists) \subseteq 1 .. n
  BY GoodIs DEF Good
<1>2. ASSUME NEW at \in DOMAIN lists \ {None}, at[1] \in ids, NEW s \in IdsOf(lists[at])
      PROVE  s \in ids
  <2>1. s \in AllIds(lists)
    BY DEF AllIds
  <2>2. at[1] < s
    BY <1>1, <1>2, IdsOfIs DEF Numbered
  <2>3. s \in 1 .. n /\ at[1] \in 1 .. n /\ id \in 1 .. n /\ id <= at[1]
    BY <1>1, <1>2, <2>1
  <2>. QED
    BY <2>1, <2>2, <2>3
<1>3. Closed(lists, ids) /\ id \in ids
  BY <1>1, <1>2 DEF Closed
<1>4. ids \in SUBSET AllIds(lists)
  OBVIOUS
<1> HIDE DEF ids
<1>5. Under(lists, id) \subseteq ids
  BY <1>3, <1>4, UnderIs
<1>. QED
  BY <1>5 DEF ids

-----------------------------------------------------------------------------
(* A list that is put back with the same steps                              *)

\* Every step of u is in v, as the same kind of step.
Kin(u, v) == \A i \in DOMAIN u : \E j \in DOMAIN v :
    v[j].id = u[i].id /\ (IsCondition(v[j]) <=> IsCondition(u[i]))

LEMMA KinOpens ==
  ASSUME NEW u, NEW v, Kin(u, v), NEW q, Opens(u, q) PROVE Opens(v, q)
<1>1. PICK i \in DOMAIN u, b \in Branches : IsCondition(u[i]) /\ q = <<u[i].id, b>>
  BY Zenon DEF Opens
<1>2. PICK j \in DOMAIN v : v[j].id = u[i].id /\ (IsCondition(v[j]) <=> IsCondition(u[i]))
  BY Zenon DEF Kin
<1>3. IsCondition(v[j]) /\ q = <<v[j].id, b>>
  BY <1>1, <1>2, Zenon
<1>. QED
  BY <1>3, Zenon DEF Opens

\* The list of a flow has each step once.
LEMMA OwnSteps ==
  ASSUME NEW n, NEW lists, Good(lists, n), NEW at \in DOMAIN lists
  PROVE  lists[at] \in Seq(Steps) /\ DistinctIds(lists[at]) /\ Once(lists[at])
<1>1. Listed(lists) /\ StepsApart(lists)
  BY GoodIs
<1>. QED
  BY <1>1 DEF Listed, StepsApart, DistinctIds, Once

\* A flow with one list put in the place of another with the same steps.
LEMMA SameGood ==
  ASSUME NEW n, NEW lists, Good(lists, n), NEW at \in DOMAIN lists,
         NEW steps \in Seq(Steps), Kin(steps, lists[at]), Kin(lists[at], steps), DistinctIds(steps),
         NEW after, after = PutBack(lists, at, steps)
  PROVE  after = [lists EXCEPT ![at] = steps] /\ Good(after, n)
<1>1. Listed(lists) /\ Placed(lists) /\ StepsApart(lists) /\ Numbered(lists, n)
  BY GoodIs
<1>2. IdsOf(steps) = IdsOf(lists[at])
  <2>1. \A id \in IdsOf(steps) : id \in IdsOf(lists[at])
    BY IdsOfIs DEF Kin
  <2>2. \A id \in IdsOf(lists[at]) : id \in IdsOf(steps)
    BY IdsOfIs DEF Kin
  <2>. QED
    BY <2>1, <2>2
<1>3. Dropped(lists, at, steps) = {}
  BY <1>2 DEF Dropped
<1>4. BranchesOf({s \in ToSet(steps) : s.id \notin IdsOf(lists[at])}) = {}
  <2>1. {s \in ToSet(steps) : s.id \notin IdsOf(lists[at])} = {}
    BY <1>2 DEF IdsOf
  <2>2. \A q : q \notin BranchesOf({})
    BY BranchesAre
  <2>. QED
    BY <2>1, <2>2
<1>5. after = [p \in DOMAIN lists |-> IF p = at THEN steps ELSE lists[p]]
  <2> DEFINE left == {p \in DOMAIN lists : p = None \/ p[1] \notin Dropped(lists, at, steps)}
             come == BranchesOf({s \in ToSet(steps) : s.id \notin IdsOf(lists[at])})
  <2>1. after = [p \in left \cup come |-> IF p = at THEN steps ELSE IF p \in left THEN lists[p] ELSE <<>>]
    BY DEF PutBack
  <2>2. left = DOMAIN lists /\ come = {}
    BY <1>3, <1>4
  <2> HIDE DEF left, come
  <2>. QED
    BY <2>1, <2>2
<1>6. after = [lists EXCEPT ![at] = steps]
  <2>1. [lists EXCEPT ![at] = steps] = [p \in DOMAIN lists |-> IF p = at THEN steps ELSE lists[p]]
    OBVIOUS
  <2>. QED
    BY <1>5, <2>1
<1>7. DOMAIN after = DOMAIN lists /\ after[at] = steps /\ \A p \in DOMAIN lists : p # at => after[p] = lists[p]
  BY <1>5
<1>8. \A p \in DOMAIN lists : Kin(after[p], lists[p]) /\ Kin(lists[p], after[p])
  <2>1. \A p \in DOMAIN lists : Kin(lists[p], lists[p])
    BY DEF Kin
  <2>. QED
    BY <1>7, <2>1
<1>9. Listed(after)
  BY <1>1, <1>5, <1>7 DEF Listed
<1>10. Placed(after)
  <2>1. ASSUME NEW p \in DOMAIN lists, NEW q PROVE Opens(after[p], q) <=> Opens(lists[p], q)
    BY <1>8, KinOpens
  <2>. QED
    BY <1>1, <1>7, <2>1 DEF Placed
<1>11. ASSUME NEW p \in DOMAIN lists, NEW i \in DOMAIN after[p]
       PROVE  \E j \in DOMAIN lists[p] : lists[p][j].id = after[p][i].id
  BY <1>8 DEF Kin
<1>12. StepsApart(after)
  <2>1. ASSUME NEW p \in DOMAIN lists, NEW q \in DOMAIN lists, NEW i \in DOMAIN after[p],
               NEW j \in DOMAIN after[q], after[p][i].id = after[q][j].id
        PROVE  p = q /\ i = j
    <3>1. p = q
      <4>1. PICK k \in DOMAIN lists[p], m \in DOMAIN lists[q] :
              lists[p][k].id = after[p][i].id /\ lists[q][m].id = after[q][j].id
        BY <1>11
      <4>. QED
        BY <1>1, <2>1, <4>1 DEF StepsApart
    <3>2. i = j
      BY <1>1, <1>7, <2>1, <3>1 DEF StepsApart, DistinctIds
    <3>. QED
      BY <3>1, <3>2
  <2>. QED
    BY <1>7, <2>1, Zenon DEF StepsApart
<1>13. Numbered(after, n)
  <2>1. ASSUME NEW p \in DOMAIN lists, NEW i \in DOMAIN after[p]
        PROVE  after[p][i].id \in 1 .. n /\ (p # None => p[1] < after[p][i].id)
    <3>1. PICK j \in DOMAIN lists[p] : lists[p][j].id = after[p][i].id
      BY <1>11
    <3>2. lists[p][j].id \in 1 .. n /\ (p # None => p[1] < lists[p][j].id)
      BY <1>1 DEF Numbered
    <3>. QED
      BY <3>1, <3>2
  <2>. QED
    BY <1>7, <2>1, Zenon DEF Numbered
<1>. QED
  BY <1>6, <1>9, <1>10, <1>12, <1>13, GoodIs

-----------------------------------------------------------------------------
(* A list that is put back with one step more                               *)

\* The flow with the empty branches of a step that comes in.
Widened(lists, s) ==
    [p \in DOMAIN lists \cup BranchesOf({s}) |-> IF p \in DOMAIN lists THEN lists[p] ELSE <<>>]

LEMMA MoreGood ==
  ASSUME NEW n \in Nat, NEW lists, Good(lists, n), NEW at \in DOMAIN lists,
         NEW s \in Steps, s.id = n + 1,
         NEW after, after = PutBack(lists, at, Append(lists[at], s))
  PROVE  /\ after = [Widened(lists, s) EXCEPT ![at] = Append(lists[at], s)]
         /\ at \in DOMAIN after /\ after[at] = Append(lists[at], s) /\ s.id \notin AllIds(lists)
         /\ Good(after, n + 1)
<1>1. Listed(lists) /\ Placed(lists) /\ StepsApart(lists) /\ Numbered(lists, n)
  BY GoodIs
<1> DEFINE was == lists[at]
           steps == Append(was, s)
<1>2. was \in Seq(Steps) /\ Len(was) \in Nat /\ DOMAIN was = 1 .. Len(was)
  BY OwnSteps, StepsOf
<1>3. /\ steps \in Seq(Steps) /\ DOMAIN steps = 1 .. Len(was) + 1
      /\ steps[Len(was) + 1] = s /\ \A i \in 1 .. Len(was) : steps[i] = was[i]
  BY <1>2, AppendProperties
<1> HIDE DEF was, steps
<1>4. s.id \notin AllIds(lists)
  BY DEF Good
<1>5. s.id \notin IdsOf(was)
  BY <1>4 DEF AllIds, was
<1>6. \A i \in DOMAIN was : was[i].id \in IdsOf(was) /\ was[i].id # s.id
  BY <1>5, IdsOfIs
<1>7. \A i \in DOMAIN steps : steps[i] = s \/ (i \in DOMAIN was /\ steps[i] = was[i])
  BY <1>2, <1>3
<1>8. Dropped(lists, at, steps) = {}
  <2>1. \A id \in IdsOf(was) : id \in IdsOf(steps)
    BY <1>2, <1>3, IdsOfIs
  <2>. QED
    BY <2>1 DEF Dropped, was
<1>9. {t \in ToSet(steps) : t.id \notin IdsOf(was)} = {s}
  <2>1. s \in ToSet(steps)
    BY <1>2, <1>3 DEF ToSet
  <2>2. \A t \in ToSet(steps) : t = s \/ t.id \in IdsOf(was)
    BY <1>6, <1>7 DEF ToSet
  <2>. QED
    BY <1>5, <2>1, <2>2
<1> DEFINE come == BranchesOf({s})
<1>10. \A q : q \in come <=> \E b \in Branches : IsCondition(s) /\ q = <<s.id, b>>
  BY BranchesAre
<1>11. after = [p \in DOMAIN lists \cup come |->
                  IF p = at THEN steps ELSE IF p \in DOMAIN lists THEN lists[p] ELSE <<>>]
  <2> DEFINE left == {p \in DOMAIN lists : p = None \/ p[1] \notin Dropped(lists, at, steps)}
             in == BranchesOf({t \in ToSet(steps) : t.id \notin IdsOf(was)})
  <2>1. after = [p \in left \cup in |-> IF p = at THEN steps ELSE IF p \in left THEN lists[p] ELSE <<>>]
    BY DEF PutBack, was, steps
  <2>2. left = DOMAIN lists
    BY <1>8
  <2>3. in = come
    BY <1>9
  <2> HIDE DEF left, in
  <2>. QED
    BY <2>1, <2>2, <2>3
<1> HIDE DEF come
<1>12. after = [Widened(lists, s) EXCEPT ![at] = steps]
  <2>1. Widened(lists, s) = [p \in DOMAIN lists \cup come |-> IF p \in DOMAIN lists THEN lists[p] ELSE <<>>]
    BY DEF Widened, come
  <2>. QED
    BY <1>11, <2>1
<1>13. DOMAIN after = DOMAIN lists \cup come /\ after[at] = steps
  BY <1>11
<1>14. \A p \in DOMAIN lists : p # at => after[p] = lists[p]
  BY <1>11
<1>15. \A p \in come : p \notin DOMAIN lists => after[p] = <<>>
  BY <1>11
<1>16. ASSUME NEW p \in DOMAIN after, NEW i \in DOMAIN after[p]
       PROVE  /\ p \in DOMAIN lists
              /\ \/ p = at /\ i = Len(was) + 1 /\ after[p][i] = s
                 \/ i \in DOMAIN lists[p] /\ after[p][i] = lists[p][i]
  <2>1. CASE p = at
    BY <1>2, <1>3, <1>13, <1>16, <2>1 DEF was
  <2>2. CASE p \in DOMAIN lists /\ p # at
    BY <1>14, <1>16, <2>2
  <2>3. CASE p \notin DOMAIN lists
    BY <1>13, <1>15, <1>16, <2>3
  <2>. QED
    BY <2>1, <2>2, <2>3
<1>17. \A p \in DOMAIN lists : \A i \in DOMAIN lists[p] : i \in DOMAIN after[p] /\ after[p][i] = lists[p][i]
  <2>1. \A i \in DOMAIN lists[at] : i \in DOMAIN after[at] /\ after[at][i] = lists[at][i]
    BY <1>2, <1>3, <1>13 DEF was
  <2>. QED
    BY <1>14, <2>1
<1>18. Listed(after)
  <2>1. ASSUME NEW p \in DOMAIN after PROVE after[p] \in Seq(Steps)
    <3>1. CASE p = at
      BY <1>3, <1>13, <3>1
    <3>2. CASE p \in DOMAIN lists /\ p # at
      BY <1>1, <1>14, <3>2 DEF Listed
    <3>3. CASE p \notin DOMAIN lists
      <4>1. after[p] = <<>>
        BY <1>13, <1>15, <2>1, <3>3
      <4>. QED
        BY <4>1, EmptySeq
    <3>. QED
      BY <3>1, <3>2, <3>3
  <2>2. after = [p \in DOMAIN after |-> after[p]]
    BY <1>11
  <2>. QED
    BY <2>1, <2>2 DEF Listed
<1>19. Placed(after)
  <2>1. ASSUME NEW q, NEW p \in DOMAIN after, Opens(after[p], q) PROVE q \in DOMAIN after
    <3>1. PICK i \in DOMAIN after[p], b \in Branches : IsCondition(after[p][i]) /\ q = <<after[p][i].id, b>>
      BY <2>1, Zenon DEF Opens
    <3>2. CASE after[p][i] = s
      <4>1. IsCondition(s) /\ q = <<s.id, b>>
        BY <3>1, <3>2, Zenon
      <4>2. q \in come
        BY <1>10, <4>1, Zenon
      <4>. QED
        BY <1>13, <4>2
    <3>3. CASE p \in DOMAIN lists /\ i \in DOMAIN lists[p] /\ after[p][i] = lists[p][i]
      <4>1. Opens(lists[p], q)
        BY <3>1, <3>3, Zenon DEF Opens
      <4>. QED
        BY <1>1, <1>13, <3>3, <4>1 DEF Placed
    <3>. QED
      BY <1>16, <3>2, <3>3
  <2>2. ASSUME NEW q \in DOMAIN after, q # None PROVE \E p \in DOMAIN after : Opens(after[p], q)
    <3>1. CASE q \in DOMAIN lists
      <4>1. PICK p \in DOMAIN lists : Opens(lists[p], q)
        BY <1>1, <2>2, <3>1 DEF Placed
      <4>2. PICK i \in DOMAIN lists[p], b \in Branches : IsCondition(lists[p][i]) /\ q = <<lists[p][i].id, b>>
        BY <4>1, Zenon DEF Opens
      <4>3. i \in DOMAIN after[p] /\ after[p][i] = lists[p][i] /\ p \in DOMAIN after
        BY <1>13, <1>17
      <4>4. Opens(after[p], q)
        BY <4>2, <4>3, Zenon DEF Opens
      <4>. QED
        BY <4>3, <4>4
    <3>2. CASE q \in come
      <4>1. PICK b \in Branches : IsCondition(s) /\ q = <<s.id, b>>
        BY <1>10, <3>2
      <4>2. Len(was) + 1 \in DOMAIN after[at] /\ after[at][Len(was) + 1] = s /\ at \in DOMAIN after
        BY <1>2, <1>3, <1>13
      <4>3. Opens(after[at], q)
        BY <4>1, <4>2, Zenon DEF Opens
      <4>. QED
        BY <4>2, <4>3
    <3>. QED
      BY <1>13, <3>1, <3>2
  <2>3. None \in DOMAIN after
    BY <1>1, <1>13 DEF Placed
  <2>. QED
    BY <2>1, <2>2, <2>3, Zenon DEF Placed
<1>20. \A p \in DOMAIN lists : \A i \in DOMAIN lists[p] : lists[p][i].id \in AllIds(lists) /\ lists[p][i].id # s.id
  <2>1. \A p \in DOMAIN lists : \A i \in DOMAIN lists[p] : lists[p][i].id \in AllIds(lists)
    BY AllIdsIs
  <2>. QED
    BY <1>4, <2>1
<1>21. StepsApart(after)
  <2>1. ASSUME NEW p \in DOMAIN after, NEW q \in DOMAIN after, NEW i \in DOMAIN after[p],
               NEW j \in DOMAIN after[q], after[p][i].id = after[q][j].id
        PROVE  p = q /\ i = j
    <3>1. /\ p \in DOMAIN lists /\ q \in DOMAIN lists
          /\ \/ p = at /\ i = Len(was) + 1 /\ after[p][i] = s
             \/ i \in DOMAIN lists[p] /\ after[p][i] = lists[p][i]
          /\ \/ q = at /\ j = Len(was) + 1 /\ after[q][j] = s
             \/ j \in DOMAIN lists[q] /\ after[q][j] = lists[q][j]
      BY <1>16
    <3>. QED
      BY <1>1, <1>20, <2>1, <3>1 DEF StepsApart
  <2>. QED
    BY <2>1, Zenon DEF StepsApart
<1>22. Numbered(after, n + 1)
  <2>1. ASSUME NEW p \in DOMAIN after, NEW i \in DOMAIN after[p]
        PROVE  after[p][i].id \in 1 .. n + 1 /\ (p # None => p[1] < after[p][i].id)
    <3>1. p \in DOMAIN lists
      BY <1>16
    <3>2. CASE i \in DOMAIN lists[p] /\ after[p][i] = lists[p][i]
      <4>1. after[p][i].id \in 1 .. n /\ (p # None => p[1] < after[p][i].id)
        BY <1>1, <3>1, <3>2 DEF Numbered
      <4>. QED
        BY <4>1
    <3>3. CASE after[p][i] = s
      <4>1. p # None => p[1] \in 1 .. n
        <5>1. ASSUME p # None PROVE p[1] \in 1 .. n
          <6>1. PICK o \in DOMAIN lists : \E k \in DOMAIN lists[o] : p[1] = lists[o][k].id
            BY <1>1, <3>1, <5>1, BranchPlace
          <6>. QED
            BY <1>1, <6>1 DEF Numbered
        <5>. QED
          BY <5>1
      <4>2. n + 1 \in 1 .. n + 1
        OBVIOUS
      <4>. QED
        BY <3>3, <4>1, <4>2
    <3>. QED
      BY <1>16, <3>2, <3>3
  <2>. QED
    BY <2>1, Zenon DEF Numbered
<1>23. Good(after, n + 1)
  BY <1>18, <1>19, <1>21, <1>22, GoodIs
<1>. QED
  BY <1>1, <1>4, <1>12, <1>13, <1>23 DEF was, steps

-----------------------------------------------------------------------------
(* A list that is put back with one step less                               *)

\* The flow without the branches of a step, and of what is in them.
Narrowed(lists, id) ==
    [p \in {q \in DOMAIN lists : q = None \/ q[1] \notin Under(lists, id)} |-> lists[p]]

LEMMA LessGood ==
  ASSUME NEW n \in Nat, NEW lists, Good(lists, n), NEW at \in DOMAIN lists,
         NEW k \in DOMAIN lists[at], NEW after, after = PutBack(lists, at, RemoveAt(lists[at], k))
  PROVE  /\ after = [Narrowed(lists, lists[at][k].id) EXCEPT ![at] = RemoveAt(lists[at], k)]
         /\ at \in DOMAIN after /\ after[at] = RemoveAt(lists[at], k)
         /\ Good(after, n)
<1>1. Listed(lists) /\ Placed(lists) /\ StepsApart(lists) /\ Numbered(lists, n)
  BY GoodIs
<1> DEFINE was == lists[at]
           steps == RemoveAt(was, k)
           id == was[k].id
           under == Under(lists, id)
<1>2. was \in Seq(Steps) /\ Len(was) \in Nat /\ DOMAIN was = 1 .. Len(was) /\ DistinctIds(was)
      /\ k \in DOMAIN was
  BY OwnSteps, StepsOf
<1>3. OneLess(steps, was, k, Steps)
  BY <1>2, RemovedOne
<1>4. id \in AllIds(lists)
  BY <1>2, AllIdsIs
<1>5. /\ id \in under /\ under \subseteq AllIds(lists) /\ Closed(lists, under)
      /\ \A ids \in SUBSET AllIds(lists) : id \in ids /\ Closed(lists, ids) => under \subseteq ids
  BY <1>4, UnderIs
<1>6. \A s \in under : id <= s
  BY <1>4, UnderIsLater
<1> HIDE DEF under, steps, was
<1>7. steps \in Seq(Steps) /\ Len(was) = Len(steps) + 1 /\ Len(steps) \in Nat /\ DOMAIN steps = 1 .. Len(steps)
  BY <1>3, LenProperties DEF OneLess
<1> DEFINE p(j) == IF j < k THEN j ELSE j + 1
<1>8. \A j \in DOMAIN steps : p(j) \in DOMAIN was /\ p(j) # k /\ steps[j] = was[p(j)]
  <2>1. \A j \in 1 .. Len(steps) : steps[j] = IF j < k THEN was[j] ELSE was[j + 1]
    BY <1>3 DEF OneLess
  <2>2. \A j \in 1 .. Len(steps) : p(j) \in 1 .. Len(steps) + 1 /\ p(j) # k
    BY <1>2, <1>7
  <2>. QED
    BY <1>2, <1>7, <2>1, <2>2
<1>9. \A i, j \in DOMAIN steps : p(i) = p(j) => i = j
  BY <1>2, <1>7
<1>10. ASSUME NEW m \in DOMAIN was, m # k PROVE \E j \in DOMAIN steps : p(j) = m
  <2>1. CASE m < k
    <3>1. m \in 1 .. Len(steps) /\ p(m) = m
      BY <1>2, <1>7, <2>1
    <3>. QED
      BY <1>7, <3>1
  <2>2. CASE ~(m < k)
    <3>1. m - 1 \in 1 .. Len(steps) /\ p(m - 1) = m
      BY <1>2, <1>7, <1>10, <2>2
    <3>. QED
      BY <1>7, <3>1
  <2>. QED
    BY <2>1, <2>2
<1> HIDE DEF p
<1>11. \A x : x \in IdsOf(steps) <=> x \in IdsOf(was) /\ x # id
  <2>1. ASSUME NEW j \in DOMAIN steps PROVE steps[j].id \in IdsOf(was) /\ steps[j].id # id
    BY <1>2, <1>8, IdsOfIs DEF DistinctIds
  <2>2. ASSUME NEW m \in DOMAIN was, was[m].id # id PROVE was[m].id \in IdsOf(steps)
    <3>1. PICK j \in DOMAIN steps : p(j) = m
      BY <1>10, <2>2
    <3>. QED
      BY <1>8, <3>1, IdsOfIs
  <2>. QED
    BY <2>1, <2>2, IdsOfIs
<1>12. id \in IdsOf(was)
  BY <1>2, IdsOfIs
<1> HIDE DEF id
<1>13. Dropped(lists, at, steps) = under
  <2>1. IdsOf(was) \ IdsOf(steps) = {id}
    BY <1>11, <1>12
  <2>. QED
    BY <2>1 DEF Dropped, was, under
<1>14. BranchesOf({t \in ToSet(steps) : t.id \notin IdsOf(was)}) = {}
  <2>1. {t \in ToSet(steps) : t.id \notin IdsOf(was)} = {}
    <3>1. \A t \in ToSet(steps) : t.id \in IdsOf(steps)
      BY DEF IdsOf
    <3>. QED
      BY <1>11, <3>1
  <2>2. \A q : q \notin BranchesOf({})
    BY BranchesAre
  <2>. QED
    BY <2>1, <2>2
<1> DEFINE left == {q \in DOMAIN lists : q = None \/ q[1] \notin under}
<1>15. after = [q \in left |-> IF q = at THEN steps ELSE lists[q]]
  <2> DEFINE in == BranchesOf({t \in ToSet(steps) : t.id \notin IdsOf(was)})
             rest == {q \in DOMAIN lists : q = None \/ q[1] \notin Dropped(lists, at, steps)}
  <2>1. after = [q \in rest \cup in |-> IF q = at THEN steps ELSE IF q \in rest THEN lists[q] ELSE <<>>]
    BY DEF PutBack, was, steps
  <2>2. in = {} /\ rest = left
    BY <1>13, <1>14
  <2> HIDE DEF in, rest, left
  <2>. QED
    BY <2>1, <2>2
<1>16. at \in left
  <2>1. ASSUME at # None, at[1] \in under PROVE FALSE
    <3>1. id <= at[1]
      BY <1>6, <2>1
    <3>2. at[1] < id /\ id \in 1 .. n
      BY <1>1, <1>2, <2>1 DEF Numbered, was, id
    <3>3. at[1] \in 1 .. n
      BY <1>5, <2>1 DEF Good
    <3>. QED
      BY <3>1, <3>2, <3>3
  <2>. QED
    BY <2>1
<1>17. left \subseteq DOMAIN lists /\ \A q \in DOMAIN lists : q \in left <=> q = None \/ q[1] \notin under
  OBVIOUS
<1>18. after = [Narrowed(lists, id) EXCEPT ![at] = steps]
  <2>1. Narrowed(lists, id) = [q \in left |-> lists[q]]
    BY DEF Narrowed, under
  <2> HIDE DEF left
  <2>. QED
    BY <1>15, <1>16, <2>1
<1> HIDE DEF left
<1>19. DOMAIN after = left /\ after[at] = steps /\ \A q \in left : q # at => after[q] = lists[q]
  BY <1>15, <1>16
<1>20. ASSUME NEW q \in left, q # at, NEW i \in DOMAIN lists[q] PROVE lists[q][i].id # id
  <2>1. q \in DOMAIN lists
    BY <1>17
  <2>. QED
    BY <1>1, <1>2, <1>20, <2>1 DEF StepsApart, was, id
\* What is left is the lists that are left, but for the step that goes.
<1>21. ASSUME NEW q \in left, NEW i \in DOMAIN after[q]
       PROVE  \E j \in DOMAIN lists[q] : lists[q][j] = after[q][i] /\ lists[q][j].id # id
  <2>1. CASE q = at
    <3>1. i \in DOMAIN steps
      BY <1>19, <1>21, <2>1
    <3>2. p(i) \in DOMAIN was /\ steps[i] = was[p(i)] /\ steps[i].id \in IdsOf(steps)
      BY <1>8, <3>1, IdsOfIs
    <3>3. steps[i].id # id
      BY <1>11, <3>2
    <3>. QED
      BY <1>19, <2>1, <3>2, <3>3 DEF was
  <2>2. CASE q # at
    BY <1>19, <1>20, <1>21, <2>2
  <2>. QED
    BY <2>1, <2>2
<1>22. ASSUME NEW q \in left, NEW j \in DOMAIN lists[q], lists[q][j].id # id
       PROVE  \E i \in DOMAIN after[q] : after[q][i] = lists[q][j]
  <2>1. CASE q = at
    <3>1. j \in DOMAIN was /\ j # k
      BY <1>22, <2>1 DEF was, id
    <3>2. PICK i \in DOMAIN steps : p(i) = j
      BY <1>10, <3>1
    <3>3. steps[i] = was[j]
      BY <1>8, <3>2
    <3>. QED
      BY <1>19, <2>1, <3>3 DEF was
  <2>2. CASE q # at
    BY <1>19, <1>22, <2>2
  <2>. QED
    BY <2>1, <2>2
<1>23. Listed(after)
  <2>1. ASSUME NEW q \in left PROVE after[q] \in Seq(Steps)
    <3>1. lists[q] \in Seq(Steps)
      BY <1>1, <1>17 DEF Listed
    <3>. QED
      BY <1>7, <1>19, <3>1
  <2>2. after = [q \in DOMAIN after |-> after[q]]
    BY <1>15
  <2>. QED
    BY <1>19, <2>1, <2>2 DEF Listed
<1>24. ASSUME NEW q, NEW o \in left, Opens(after[o], q) PROVE q \in left
  <2>1. PICK i \in DOMAIN after[o], b \in Branches : IsCondition(after[o][i]) /\ q = <<after[o][i].id, b>>
    BY <1>24, Zenon DEF Opens
  <2>2. PICK j \in DOMAIN lists[o] : lists[o][j] = after[o][i] /\ lists[o][j].id # id
    BY <1>21
  <2> DEFINE s == lists[o][j].id
  <2>3. o \in DOMAIN lists /\ q = <<s, b>> /\ q[1] = s
    BY <1>17, <2>1, <2>2
  <2>4. IsCondition(lists[o][j])
    BY <2>1, <2>2, Zenon
  <2>5. q \in DOMAIN lists
    <3>1. Opens(lists[o], q)
      BY <2>3, <2>4, Zenon DEF Opens
    <3>. QED
      BY <1>1, <2>3, <3>1 DEF Placed
  \* Without it, what is under the step that goes is closed as well.
  <2>6. ASSUME s \in under PROVE FALSE
    <3> DEFINE ids == under \ {s}
    <3>1. id \in ids /\ ids \in SUBSET AllIds(lists)
      BY <1>5, <2>2
    <3>2. ASSUME NEW r \in DOMAIN lists \ {None}, r[1] \in ids, NEW x \in IdsOf(lists[r])
          PROVE  x \in ids
      <4>1. x \in under
        BY <1>5, <3>2 DEF Closed
      <4>2. x # s
        <5>1. ASSUME x = s PROVE FALSE
          <6>1. PICK h \in DOMAIN lists[r] : lists[r][h].id = x
            BY <3>2, IdsOfIs
          <6>2. r = o
            BY <1>1, <2>3, <5>1, <6>1 DEF StepsApart
          <6>. QED
            BY <1>17, <3>2, <6>2
        <5>. QED
          BY <5>1
      <4>. QED
        BY <4>1, <4>2
    <3>3. Closed(lists, ids)
      BY <3>2 DEF Closed
    <3>4. under \subseteq ids
      BY <1>5, <3>1, <3>3
    <3>. QED
      BY <2>6, <3>4
  <2>. QED
    BY <1>17, <2>3, <2>5, <2>6
<1>25. ASSUME NEW q \in left, q # None PROVE \E o \in left : Opens(after[o], q)
  <2>1. q \in DOMAIN lists /\ q[1] \notin under
    BY <1>17, <1>25
  <2>2. PICK o \in DOMAIN lists : Opens(lists[o], q)
    BY <1>1, <1>25, <2>1 DEF Placed
  <2>3. PICK j \in DOMAIN lists[o], b \in Branches : IsCondition(lists[o][j]) /\ q = <<lists[o][j].id, b>>
    BY <2>2, Zenon DEF Opens
  <2>4. q[1] = lists[o][j].id
    BY <2>3
  <2>5. lists[o][j].id # id
    BY <1>5, <2>1, <2>4
  <2>6. o \in left
    <3>1. ASSUME o # None, o[1] \in under PROVE FALSE
      <4>1. lists[o][j].id \in IdsOf(lists[o])
        BY IdsOfIs
      <4>. QED
        BY <1>5, <2>1, <2>4, <3>1, <4>1 DEF Closed
    <3>. QED
      BY <1>17, <3>1
  <2>7. PICK i \in DOMAIN after[o] : after[o][i] = lists[o][j]
    BY <1>22, <2>5, <2>6
  <2>8. Opens(after[o], q)
    BY <2>3, <2>7, Zenon DEF Opens
  <2>. QED
    BY <2>6, <2>8
<1>26. Placed(after)
  <2>1. None \in left
    BY <1>1, <1>17 DEF Placed
  <2>. QED
    BY <1>19, <1>24, <1>25, <2>1, Zenon DEF Placed
<1>27. StepsApart(after)
  <2>1. ASSUME NEW q \in left, NEW o \in left, NEW i \in DOMAIN after[q],
               NEW j \in DOMAIN after[o], after[q][i].id = after[o][j].id
        PROVE  q = o /\ i = j
    <3>1. PICK g \in DOMAIN lists[q] : lists[q][g] = after[q][i]
      BY <1>21
    <3>2. PICK h \in DOMAIN lists[o] : lists[o][h] = after[o][j]
      BY <1>21
    <3>3. q = o /\ g = h
      BY <1>1, <1>17, <2>1, <3>1, <3>2 DEF StepsApart
    <3>4. i = j
      <4>1. CASE q = at
        <5>1. i \in DOMAIN steps /\ j \in DOMAIN steps /\ steps[i] = steps[j]
          BY <1>19, <3>1, <3>2, <3>3, <4>1
        <5>2. was[p(i)].id = was[p(j)].id /\ p(i) \in DOMAIN was /\ p(j) \in DOMAIN was
          BY <1>8, <5>1
        <5>3. p(i) = p(j)
          BY <1>2, <5>2 DEF DistinctIds
        <5>. QED
          BY <1>9, <5>1, <5>3
      <4>2. CASE q # at
        <5>1. after[q] = lists[q] /\ q \in DOMAIN lists
          BY <1>17, <1>19, <4>2
        <5>. QED
          BY <1>1, <2>1, <3>3, <5>1 DEF StepsApart
      <4>. QED
        BY <4>1, <4>2
    <3>. QED
      BY <3>3, <3>4
  <2>. QED
    BY <1>19, <2>1, Zenon DEF StepsApart
<1>28. Numbered(after, n)
  <2>1. ASSUME NEW q \in left, NEW i \in DOMAIN after[q]
        PROVE  after[q][i].id \in 1 .. n /\ (q # None => q[1] < after[q][i].id)
    <3>1. PICK j \in DOMAIN lists[q] : lists[q][j] = after[q][i]
      BY <1>21
    <3>2. lists[q][j].id \in 1 .. n /\ (q # None => q[1] < lists[q][j].id)
      BY <1>1, <1>17 DEF Numbered
    <3>. QED
      BY <3>1, <3>2
  <2>. QED
    BY <1>19, <2>1, Zenon DEF Numbered
<1>29. Good(after, n)
  BY <1>23, <1>26, <1>27, <1>28, GoodIs
<1>. QED
  BY <1>16, <1>18, <1>19, <1>29 DEF was, steps, id

-----------------------------------------------------------------------------
(* One list of a flow is edited                                             *)

\* A step is moved in a list.
LEMMA MoveEdits ==
  ASSUME NEW n, NEW lists, Good(lists, n), NEW at \in DOMAIN lists,
         NEW steps \in Seq(Steps), OneMoved(lists[at], steps),
         NEW after, after = PutBack(lists, at, steps)
  PROVE  Good(after, n) /\ OneListEdited(lists, after)
<1>1. lists[at] \in Seq(Steps) /\ DistinctIds(lists[at]) /\ Once(lists[at])
  BY OwnSteps
<1>2. /\ \A i \in DOMAIN lists[at] : \E j \in DOMAIN steps : steps[j] = lists[at][i]
      /\ \A j \in DOMAIN steps : \E i \in DOMAIN lists[at] : lists[at][i] = steps[j]
      /\ Once(steps)
  <2> DEFINE was == lists[at]
  <2>1. was \in Seq(Steps) /\ Once(was) /\ OneMoved(was, steps)
    BY <1>1
  <2> HIDE DEF was
  <2>2. /\ \A x : (\E k \in DOMAIN was : was[k] = x) <=> (\E k \in DOMAIN steps : steps[k] = x)
        /\ Once(steps)
    BY <2>1, MovedKeeps
  <2>3. /\ \A i \in DOMAIN was : \E j \in DOMAIN steps : steps[j] = was[i]
        /\ \A j \in DOMAIN steps : \E i \in DOMAIN was : was[i] = steps[j]
    BY <2>2
  <2>. QED
    BY <2>2, <2>3 DEF was
<1>3. Kin(steps, lists[at]) /\ Kin(lists[at], steps)
  BY <1>2 DEF Kin
<1>4. DistinctIds(steps)
  <2>1. ASSUME NEW i \in DOMAIN steps, NEW j \in DOMAIN steps, steps[i].id = steps[j].id PROVE i = j
    <3>1. steps[i] = steps[j]
      BY <1>1, <1>2, <2>1 DEF DistinctIds
    <3>. QED
      BY <1>2, <3>1 DEF Once
  <2>. QED
    BY <2>1 DEF DistinctIds
<1>5. after = [lists EXCEPT ![at] = steps] /\ Good(after, n)
  BY <1>3, <1>4, SameGood
<1>6. at \in DOMAIN after /\ after[at] = steps
  BY <1>5
<1>. QED
  BY <1>5, <1>6 DEF OneListEdited

\* Something is typed into a step.
LEMMA TypingEdits ==
  ASSUME NEW n, NEW lists, Good(lists, n), NEW at \in DOMAIN lists, NEW steps, OneEdited(lists[at], steps),
         NEW after, after = PutBack(lists, at, steps)
  PROVE  Good(after, n) /\ OneListEdited(lists, after)
<1>0. PICK k \in DOMAIN lists[at] : steps = [lists[at] EXCEPT ![k].edited = TRUE]
  BY DEF OneEdited
<1> DEFINE was == lists[at]
           step == [was[k] EXCEPT !.edited = TRUE]
<1>1. /\ was \in Seq(Steps) /\ DistinctIds(was) /\ Len(was) \in Nat /\ DOMAIN was = 1 .. Len(was)
      /\ \A i \in DOMAIN was : was[i] \in Steps
  BY OwnSteps, StepsOf
<1>2. step \in Steps /\ step.id = was[k].id /\ (IsCondition(step) <=> IsCondition(was[k]))
  <2> DEFINE s == was[k]
  <2>1. s \in Steps
    BY <1>1
  <2> HIDE DEF s
  <2>2. [s EXCEPT !.edited = TRUE] \in Steps /\ [s EXCEPT !.edited = TRUE].id = s.id
        /\ [s EXCEPT !.edited = TRUE].condition = s.condition
    BY <2>1 DEF Steps
  <2>3. step = [s EXCEPT !.edited = TRUE]
    BY DEF s
  <2> HIDE DEF step
  <2>4. step.condition = s.condition
    BY <2>2, <2>3
  <2>. QED
    BY <2>2, <2>3, <2>4 DEF IsCondition, s
<1>3. steps = [was EXCEPT ![k] = step]
  BY <1>0
<1> HIDE DEF step, was
<1>4. /\ DOMAIN steps = DOMAIN was /\ steps[k] = step
      /\ \A i \in DOMAIN was : i # k => steps[i] = was[i]
  BY <1>3 DEF was
<1>5. steps \in Seq(Steps)
  <2>1. steps \in [1 .. Len(was) -> Steps]
    BY <1>1, <1>2, <1>3
  <2>. QED
    BY <1>1, <2>1, ListOf
<1>6. \A i \in DOMAIN was : steps[i].id = was[i].id /\ (IsCondition(steps[i]) <=> IsCondition(was[i]))
  BY <1>2, <1>4
<1>7. Kin(steps, was) /\ Kin(was, steps)
  BY <1>4, <1>6 DEF Kin
<1>8. DistinctIds(steps)
  BY <1>1, <1>4, <1>6 DEF DistinctIds
<1>9. after = [lists EXCEPT ![at] = steps] /\ Good(after, n)
  <2>1. Kin(steps, lists[at]) /\ Kin(lists[at], steps)
    BY <1>7 DEF was
  <2>. QED
    BY <1>5, <1>8, <2>1, SameGood, Zenon
<1>10. at \in DOMAIN after /\ after[at] = steps
  BY <1>9
<1>. QED
  BY <1>9, <1>10 DEF OneListEdited

\* A new step comes in at the end of a list.
LEMMA AddingEdits ==
  ASSUME NEW n \in Nat, NEW lists, Good(lists, n), NEW at \in DOMAIN lists,
         NEW s \in Steps, s.id = n + 1,
         NEW after, after = PutBack(lists, at, Append(lists[at], s))
  PROVE  Good(after, n + 1) /\ OneListEdited(lists, after)
<1>1. /\ after = [Widened(lists, s) EXCEPT ![at] = Append(lists[at], s)]
      /\ at \in DOMAIN after /\ after[at] = Append(lists[at], s) /\ s.id \notin AllIds(lists)
      /\ Good(after, n + 1)
  BY MoreGood
<1>2. s \in ToSet(after[at])
  <2>1. /\ Len(lists[at]) + 1 \in DOMAIN Append(lists[at], s)
        /\ Append(lists[at], s)[Len(lists[at]) + 1] = s
    BY OwnSteps, StepsOf, AppendProperties
  <2>. QED
    BY <1>1, <2>1 DEF ToSet
<1>. QED
  BY <1>1, <1>2 DEF OneListEdited, Widened

\* A step goes, with all that is under it.
LEMMA RemovalEdits ==
  ASSUME NEW n \in Nat, NEW lists, Good(lists, n), NEW at \in DOMAIN lists, NEW k \in DOMAIN lists[at],
         NEW after, after = PutBack(lists, at, RemoveAt(lists[at], k))
  PROVE  Good(after, n) /\ OneListEdited(lists, after)
<1>1. /\ after = [Narrowed(lists, lists[at][k].id) EXCEPT ![at] = RemoveAt(lists[at], k)]
      /\ at \in DOMAIN after /\ after[at] = RemoveAt(lists[at], k)
      /\ Good(after, n)
  BY LessGood
<1> DEFINE rest == [p \in {q \in DOMAIN lists : q = None \/ q[1] \notin Under(lists, lists[at][k].id)} |->
                     lists[p]]
<1>2. after = [rest EXCEPT ![at] = after[at]]
  BY <1>1 DEF Narrowed
<1>. QED
  BY <1>1, <1>2, Zenon DEF OneListEdited

-----------------------------------------------------------------------------
(* The flows                                                                *)

LEMMA WithoutIs ==
  ASSUME NEW l, DistinctIds(l), NEW k \in DOMAIN l
  PROVE  Without(l, l[k].id) = RemoveAt(l, k)
<1>1. (CHOOSE i \in DOMAIN l : l[i].id = l[k].id) = k
  BY DEF DistinctIds
<1>. QED
  BY <1>1 DEF Without

ListsOfFlows == UNION {[places -> Seq(Steps)] : places \in SUBSET ({None} \cup StepIds \X Branches)}

FlowSet == [id : FlowIds, edited : BOOLEAN, lists : ListsOfFlows]

\* Flows that are numbered, and whose steps are, up to m.
FlowsAre(fs, m) ==
    /\ fs \in Seq(FlowSet) /\ DistinctIds(fs)
    /\ \A i \in DOMAIN fs : fs[i].id <= m.flows /\ Good(fs[i].lists, m.steps)

Made == [flows : FlowIds, steps : StepIds]

LEMMA MadeIs ==
  ASSUME NEW m \in Made
  PROVE  m.flows \in Nat /\ m.steps \in Nat /\ m.flows \in FlowIds /\ m.steps \in StepIds
         /\ MaxFlows \in Nat /\ MaxSteps \in Nat
  BY FlowsAssumption DEF Made, FlowIds, StepIds, FlowsAssumption

LEMMA ListsAre ==
  ASSUME NEW n \in StepIds, MaxSteps \in Nat, NEW lists, Good(lists, n) PROVE lists \in ListsOfFlows
<1>1. Listed(lists) /\ Placed(lists) /\ Numbered(lists, n)
  BY GoodIs
<1>2. 1 .. n \subseteq StepIds
  BY DEF StepIds
<1>3. ASSUME NEW q \in DOMAIN lists, q # None PROVE q \in StepIds \X Branches
  <2>1. PICK at \in DOMAIN lists : \E i \in DOMAIN lists[at], b \in Branches : q = <<lists[at][i].id, b>>
    BY <1>1, <1>3, BranchPlace
  <2>2. \A i \in DOMAIN lists[at] : lists[at][i].id \in StepIds
    BY <1>1, <1>2 DEF Numbered
  <2>. QED
    BY <2>1, <2>2
<1>4. DOMAIN lists \in SUBSET ({None} \cup StepIds \X Branches)
  BY <1>3
<1>5. lists \in [DOMAIN lists -> Seq(Steps)]
  BY <1>1 DEF Listed
<1>. QED
  BY <1>4, <1>5, Zenon DEF ListsOfFlows

LEMMA FlowIs ==
  ASSUME NEW f \in FlowSet
  PROVE  /\ f.id \in FlowIds /\ f.id \in Nat /\ f.edited \in BOOLEAN
         /\ f = [id |-> f.id, edited |-> f.edited, lists |-> f.lists]
  BY DEF FlowSet, FlowIds

LEMMA FlowsOf ==
  ASSUME NEW fs \in Seq(FlowSet)
  PROVE  /\ Len(fs) \in Nat /\ DOMAIN fs = 1 .. Len(fs)
         /\ \A i \in DOMAIN fs : fs[i] \in FlowSet /\ fs[i].id \in FlowIds
  BY LenProperties, ElementOfSeq, FlowIs

\* What FlowsTypeOK says of the flows, with no bound on their steps but MaxSteps.
LEMMA FlowsAreFlows ==
  ASSUME NEW m \in Made, NEW fs, FlowsAre(fs, m) PROVE AreFlows(fs)
<1>1. fs \in Seq(FlowSet) /\ DistinctIds(fs) /\ Len(fs) \in Nat /\ DOMAIN fs = 1 .. Len(fs)
      /\ \A i \in DOMAIN fs : fs[i] \in FlowSet
  BY FlowsOf DEF FlowsAre
<1> DEFINE kept == {f.lists : f \in ToSet(fs)}
           Kept == [id : FlowIds, edited : BOOLEAN, lists : kept]
<1>2. ASSUME NEW i \in DOMAIN fs PROVE fs[i] \in Kept
  <2>1. fs[i] \in ToSet(fs)
    BY DEF ToSet
  <2>2. fs[i].lists \in kept
    BY <2>1
  <2>3. fs[i].id \in FlowIds /\ fs[i].edited \in BOOLEAN
        /\ fs[i] = [id |-> fs[i].id, edited |-> fs[i].edited, lists |-> fs[i].lists]
    BY <1>1, FlowIs
  <2> HIDE DEF kept
  <2>. QED
    BY <2>2, <2>3
<1>3. fs \in Seq(Kept)
  <2>1. fs = [i \in 1 .. Len(fs) |-> fs[i]]
    BY <1>1
  <2> HIDE DEF Kept
  <2>2. fs \in [1 .. Len(fs) -> Kept]
    BY <1>1, <1>2, <2>1
  <2>. QED
    BY <1>1, <2>2, ListOf
<1>4. \A i \in DOMAIN fs : IsFlow(fs[i].lists)
  BY DEF FlowsAre, Good
<1>. QED
  BY <1>1, <1>3, <1>4 DEF AreFlows

LEMMA FlowsFromFlows ==
  ASSUME NEW m \in Made, NEW fs, AreFlows(fs),
         \A i \in DOMAIN fs : fs[i].id <= m.flows /\ AllIds(fs[i].lists) \subseteq 1 .. m.steps
  PROVE  FlowsAre(fs, m)
<1> DEFINE kept == {f.lists : f \in ToSet(fs)}
           Kept == [id : FlowIds, edited : BOOLEAN, lists : kept]
<1>1. fs \in Seq(Kept) /\ DistinctIds(fs) /\ \A i \in DOMAIN fs : Good(fs[i].lists, m.steps)
  BY DEF AreFlows, Good
<1> HIDE DEF kept
<1>2. Len(fs) \in Nat /\ DOMAIN fs = 1 .. Len(fs) /\ \A i \in DOMAIN fs : fs[i] \in Kept
  BY <1>1, LenProperties, ElementOfSeq
<1>3. ASSUME NEW i \in DOMAIN fs PROVE fs[i] \in FlowSet
  <2>1. fs[i].lists \in ListsOfFlows
    BY <1>1, MadeIs, ListsAre
  <2>2. fs[i] = [id |-> fs[i].id, edited |-> fs[i].edited, lists |-> fs[i].lists]
        /\ fs[i].id \in FlowIds /\ fs[i].edited \in BOOLEAN
    BY <1>2
  <2>. QED
    BY <2>1, <2>2 DEF FlowSet
<1>4. fs \in Seq(FlowSet)
  <2>1. fs = [i \in 1 .. Len(fs) |-> fs[i]]
    BY <1>1, <1>2
  <2>2. fs \in [1 .. Len(fs) -> FlowSet]
    BY <1>2, <1>3, <2>1
  <2>. QED
    BY <1>2, <2>2, ListOf
<1>. QED
  BY <1>1, <1>4 DEF FlowsAre

\* One flow is patched.
LEMMA FlowPatched ==
  ASSUME NEW m \in Made, NEW fs, FlowsAre(fs, m), NEW k \in DOMAIN fs, NEW g \in FlowSet,
         g.id = fs[k].id, NEW n \in Made, m.flows <= n.flows, m.steps <= n.steps,
         Good(g.lists, n.steps),
         NEW gs, gs = [i \in DOMAIN fs |-> IF fs[i].id = fs[k].id THEN g ELSE fs[i]]
  PROVE  FlowsAre(gs, n) /\ DOMAIN gs = DOMAIN fs /\ gs[k] = g /\ gs = [fs EXCEPT ![k] = gs[k]]
         /\ \A i \in DOMAIN fs : gs[i].id = fs[i].id
<1>1. fs \in Seq(FlowSet) /\ DistinctIds(fs)
  BY DEF FlowsAre
<1>2. Len(fs) \in Nat /\ DOMAIN fs = 1 .. Len(fs) /\ \A i \in DOMAIN fs : fs[i] \in FlowSet /\ fs[i].id \in FlowIds
  BY <1>1, FlowsOf
<1>3. DOMAIN gs = DOMAIN fs /\ \A i \in DOMAIN fs : gs[i] = IF i = k THEN g ELSE fs[i]
  BY <1>1 DEF DistinctIds
<1>4. gs \in Seq(FlowSet)
  <2>1. \A i \in 1 .. Len(fs) : gs[i] \in FlowSet
    BY <1>2, <1>3
  <2>2. gs = [i \in 1 .. Len(fs) |-> gs[i]]
    BY <1>2
  <2>3. gs \in [1 .. Len(fs) -> FlowSet]
    BY <2>1, <2>2
  <2>. QED
    BY <1>2, <2>3, ListOf
<1>5. \A i \in DOMAIN fs : gs[i].id = fs[i].id
  BY <1>3
<1>6. DistinctIds(gs)
  BY <1>1, <1>3, <1>5 DEF DistinctIds
<1>7. m.flows \in Nat /\ m.steps \in Nat /\ n.flows \in Nat /\ n.steps \in Nat
  BY MadeIs
<1>8. ASSUME NEW i \in DOMAIN fs PROVE gs[i].id <= n.flows /\ Good(gs[i].lists, n.steps)
  <2>1. fs[i].id <= m.flows /\ Good(fs[i].lists, m.steps) /\ fs[i].id \in Nat
    BY <1>2 DEF FlowsAre, FlowIds
  <2>2. gs[i].id <= n.flows
    BY <1>5, <1>7, <2>1
  <2>3. Good(fs[i].lists, n.steps)
    BY <1>7, <2>1, GoodMore
  <2>. QED
    BY <1>3, <2>2, <2>3
<1>9. gs[k] = g /\ gs = [fs EXCEPT ![k] = gs[k]]
  <2>1. gs = [i \in DOMAIN fs |-> IF i = k THEN g ELSE fs[i]]
    BY <1>3
  <2>2. gs[k] = g
    BY <1>3
  <2>. QED
    BY <2>1, <2>2
<1>. QED
  BY <1>3, <1>4, <1>5, <1>6, <1>8, <1>9 DEF FlowsAre

\* The steps of a new flow.
LEMMA TemplateGood ==
  ASSUME NEW n \in Nat, NEW k \in Nat, n + k <= MaxSteps, MaxSteps \in Nat,
         NEW steps, steps = [i \in 1 .. k |-> Step(n + i, FALSE)],
         NEW lists, lists = [at \in {None} |-> steps]
  PROVE  Good(lists, n + k)
<1>1. \A i \in 1 .. k : /\ n + i \in StepIds /\ n + i \in 1 .. n + k
  BY DEF StepIds
<1>2. \A i \in 1 .. k : /\ steps[i] \in Steps /\ steps[i].id = n + i /\ ~IsCondition(steps[i])
  BY <1>1, StepMade
<1>3. DOMAIN steps = 1 .. k /\ steps = [i \in 1 .. k |-> steps[i]]
  OBVIOUS
<1>4. steps \in Seq(Steps)
  <2>1. steps \in [1 .. k -> Steps]
    BY <1>2, <1>3
  <2>. QED
    BY <2>1, ListOf
<1>5. DOMAIN lists = {None} /\ lists[None] = steps /\ lists = [at \in DOMAIN lists |-> lists[at]]
  OBVIOUS
<1>6. Listed(lists)
  BY <1>4, <1>5 DEF Listed
<1>7. Placed(lists)
  <2>1. ASSUME NEW q, Opens(steps, q) PROVE FALSE
    BY <1>2, <1>3, <2>1, Zenon DEF Opens
  <2>. QED
    BY <1>5, <2>1 DEF Placed
<1>8. ASSUME NEW i \in 1 .. k, NEW j \in 1 .. k, steps[i].id = steps[j].id PROVE i = j
  <2>1. n + i = n + j
    BY <1>2, <1>8
  <2>. QED
    BY <2>1
<1>9. StepsApart(lists)
  <2>1. ASSUME NEW at \in DOMAIN lists, NEW other \in DOMAIN lists,
               NEW i \in DOMAIN lists[at], NEW j \in DOMAIN lists[other],
               lists[at][i].id = lists[other][j].id
        PROVE  at = other /\ i = j
    <3>1. at = None /\ other = None
      BY <1>5
    <3>2. i \in 1 .. k /\ j \in 1 .. k /\ steps[i].id = steps[j].id
      BY <1>3, <1>5, <2>1, <3>1
    <3>. QED
      BY <1>8, <3>1, <3>2
  <2>. QED
    BY <2>1, Zenon DEF StepsApart
<1>10. Numbered(lists, n + k)
  <2>1. \A at \in DOMAIN lists : at = None /\ lists[at] = steps
    BY <1>5
  <2>2. \A i \in DOMAIN steps : steps[i].id \in 1 .. n + k
    BY <1>1, <1>2, <1>3
  <2>. QED
    BY <2>1, <2>2, Zenon DEF Numbered
<1>. QED
  BY <1>6, <1>7, <1>9, <1>10, GoodIs

HasFlow(fs, id) == \E i \in DOMAIN fs : fs[i].id = id

\* A new flow before the others.
LEMMA FlowAdded ==
  ASSUME NEW m \in Made, NEW fs, FlowsAre(fs, m), NEW n \in Made, n.flows = m.flows + 1,
         m.steps <= n.steps, NEW g \in FlowSet, g.id = n.flows, Good(g.lists, n.steps),
         NEW gs, gs = Then(<<g>>, fs)
  PROVE  FlowsAre(gs, n) /\ gs # <<>> /\ Tail(gs) = fs /\ HasFlow(gs, n.flows)
<1>1. fs \in Seq(FlowSet) /\ DistinctIds(fs) /\ Len(fs) \in Nat /\ DOMAIN fs = 1 .. Len(fs)
  BY FlowsOf DEF FlowsAre
<1>2. <<g>> \in Seq(FlowSet) /\ Len(<<g>>) = 1 /\ <<g>>[1] = g
  OBVIOUS
<1>3. JoinedOf(gs, <<g>>, fs, FlowSet)
  BY <1>1, <1>2, ThenProperties
<1>4. gs \in Seq(FlowSet) /\ Len(gs) = 1 + Len(fs)
      /\ \A i \in 1 .. 1 + Len(fs) : gs[i] = IF i <= 1 THEN <<g>>[i] ELSE fs[i - 1]
  BY <1>2, <1>3 DEF JoinedOf
<1>5. DOMAIN gs = 1 .. 1 + Len(fs)
  BY <1>4, LenProperties
<1>6. 1 \in DOMAIN gs /\ gs[1] = g
  BY <1>1, <1>2, <1>4, <1>5
<1>7. ASSUME NEW j \in DOMAIN gs, j # 1 PROVE j - 1 \in DOMAIN fs /\ gs[j] = fs[j - 1]
  BY <1>1, <1>4, <1>5, <1>7
<1>8. m.flows \in Nat /\ m.steps \in Nat /\ n.flows \in Nat /\ n.steps \in Nat
  BY MadeIs
<1>9. \A i \in DOMAIN fs : fs[i].id <= m.flows /\ Good(fs[i].lists, n.steps) /\ fs[i].id \in Nat
  <2>1. \A i \in DOMAIN fs : fs[i].id <= m.flows /\ Good(fs[i].lists, m.steps) /\ fs[i].id \in Nat
    BY <1>1, FlowsOf DEF FlowsAre, FlowIds
  <2>. QED
    BY <1>8, <2>1, GoodMore
<1>10. \A i \in DOMAIN fs : fs[i].id # g.id /\ fs[i].id <= n.flows
  BY <1>8, <1>9
<1>11. DistinctIds(gs)
  <2>1. ASSUME NEW i \in DOMAIN gs, NEW j \in DOMAIN gs, gs[i].id = gs[j].id PROVE i = j
    <3>1. CASE i = 1 /\ j = 1
      BY <3>1
    <3>2. CASE i = 1 /\ j # 1
      BY <1>6, <1>7, <1>10, <2>1, <3>2
    <3>3. CASE i # 1 /\ j = 1
      BY <1>6, <1>7, <1>10, <2>1, <3>3
    <3>4. CASE i # 1 /\ j # 1
      <4>1. i - 1 = j - 1
        BY <1>1, <1>7, <2>1, <3>4 DEF DistinctIds
      <4>. QED
        BY <1>5, <4>1
    <3>. QED
      BY <3>1, <3>2, <3>3, <3>4
  <2>. QED
    BY <2>1 DEF DistinctIds
<1>12. \A j \in DOMAIN gs : gs[j].id <= n.flows /\ Good(gs[j].lists, n.steps)
  BY <1>6, <1>7, <1>8, <1>9, <1>10
<1>13. gs # <<>>
  BY <1>5, <1>6
<1>14. Tail(gs) = fs
  <2> DEFINE t == Tail(gs)
  <2>1. t \in Seq(FlowSet) /\ Len(t) = Len(gs) - 1 /\ \A i \in 1 .. Len(t) : t[i] = gs[i + 1]
    BY <1>4, <1>13, HeadTailProperties
  <2> HIDE DEF t
  <2>2. Len(t) = Len(fs)
    BY <1>1, <1>4, <2>1
  <2>3. \A i \in 1 .. Len(fs) : gs[i + 1] = fs[i]
    <3>1. ASSUME NEW i \in 1 .. Len(fs) PROVE gs[i + 1] = fs[i]
      <4>1. i + 1 \in DOMAIN gs /\ i + 1 # 1 /\ (i + 1) - 1 = i
        BY <1>1, <1>5
      <4>. QED
        BY <1>7, <4>1
    <3>. QED
      BY <3>1
  <2>4. \A i \in 1 .. Len(t) : t[i] = fs[i]
    BY <2>1, <2>2, <2>3
  <2>5. t = fs
    BY <1>1, <2>1, <2>2, <2>4, SeqEqual
  <2>. QED
    BY <2>5 DEF t
<1>. QED
  BY <1>4, <1>6, <1>11, <1>12, <1>13, <1>14 DEF FlowsAre, HasFlow

\* One flow is gone.
LEMMA FlowRemoved ==
  ASSUME NEW m \in Made, NEW fs, FlowsAre(fs, m), NEW k \in DOMAIN fs,
         NEW gs, gs = Without(fs, fs[k].id)
  PROVE  /\ FlowsAre(gs, m) /\ gs = RemoveAt(fs, k)
         /\ gs # <<>> => 1 \in DOMAIN gs /\ gs[1].id \in FlowIds
<1>1. fs \in Seq(FlowSet) /\ DistinctIds(fs) /\ Len(fs) \in Nat /\ DOMAIN fs = 1 .. Len(fs)
  BY FlowsOf DEF FlowsAre
<1>2. gs = RemoveAt(fs, k)
  BY <1>1, WithoutIs
<1>3. OneLess(gs, fs, k, FlowSet)
  BY <1>1, <1>2, RemovedOne
<1>4. gs \in Seq(FlowSet) /\ Len(fs) = Len(gs) + 1 /\ Len(gs) \in Nat /\ DOMAIN gs = 1 .. Len(gs)
  BY <1>3, LenProperties DEF OneLess
<1> DEFINE p(j) == IF j < k THEN j ELSE j + 1
<1>5. \A j \in DOMAIN gs : p(j) \in DOMAIN fs /\ gs[j] = fs[p(j)]
  <2>1. \A j \in 1 .. Len(gs) : gs[j] = IF j < k THEN fs[j] ELSE fs[j + 1]
    BY <1>3 DEF OneLess
  <2>2. \A j \in 1 .. Len(gs) : p(j) \in 1 .. Len(gs) + 1
    BY <1>1, <1>4
  <2>. QED
    BY <1>1, <1>4, <2>1, <2>2
<1>6. \A i, j \in DOMAIN gs : p(i) = p(j) => i = j
  BY <1>1, <1>4
<1> HIDE DEF p
<1>7. DistinctIds(gs)
  BY <1>1, <1>5, <1>6 DEF DistinctIds
<1>8. \A j \in DOMAIN gs : gs[j].id <= m.flows /\ Good(gs[j].lists, m.steps)
  BY <1>5 DEF FlowsAre
<1>10. gs # <<>> => 1 \in DOMAIN gs /\ gs[1].id \in FlowIds
  BY <1>4, FlowsOf, EmptySeq
<1>. QED
  BY <1>2, <1>4, <1>7, <1>8, <1>10 DEF FlowsAre

-----------------------------------------------------------------------------
(* The page of the flows                                                    *)

FlowsOk(fs, sel, expanded, m) ==
    /\ m \in Made /\ FlowsAre(fs, m)
    /\ sel \in FlowIds /\ expanded \in StepIds \cup {None}
    /\ fs = <<>> \/ HasFlow(fs, sel)

FlowsInv == FlowsOk(flows, selectedFlow, expandedStep, made)

LEMMA FlowsTyped ==
  ASSUME FlowsInv PROVE FlowsTypeOK
<1>1. flows = <<>> \/ \E f \in ToSet(flows) : f.id = selectedFlow
  BY DEF FlowsInv, FlowsOk, HasFlow, ToSet
<1>2. AreFlows(flows)
  BY FlowsAreFlows DEF FlowsInv, FlowsOk
<1>. QED
  BY <1>1, <1>2 DEF FlowsInv, FlowsOk, FlowsTypeOK, Made

LEMMA FlowsStart ==
  FlowsOk(FlowsStarted.flows, FlowsStarted.selected, FlowsStarted.expanded, FlowsStarted.made)
<1> DEFINE fs == INITIAL_FLOWS
           m == FlowsStarted.made
<1>1. /\ FlowsStarted.flows = fs /\ FlowsStarted.selected = fs[1].id
      /\ FlowsStarted.expanded = None /\ m.flows = Len(fs)
  BY DEF FlowsStarted
<1>2. m \in Made /\ AreFlows(fs) /\ fs # <<>>
      /\ \A i \in DOMAIN fs : fs[i].id = i /\ AllIds(fs[i].lists) \subseteq 1 .. m.steps
  BY FlowsAssumption DEF FlowsAssumption, Made
<1> HIDE DEF fs, m
<1>3. Len(fs) \in Nat /\ DOMAIN fs = 1 .. Len(fs)
  BY <1>2, LenProperties DEF AreFlows
<1>4. \A i \in DOMAIN fs : fs[i].id <= m.flows
  BY <1>1, <1>2, <1>3
<1>5. FlowsAre(fs, m)
  BY <1>2, <1>4, FlowsFromFlows
<1>6. 1 \in DOMAIN fs /\ fs[1].id \in FlowIds
  <2>1. fs \in Seq(FlowSet)
    BY <1>5 DEF FlowsAre
  <2>2. 1 \in DOMAIN fs
    BY <1>2, <1>3, <2>1, EmptySeq
  <2>. QED
    BY <2>1, <2>2, FlowsOf
<1>8. FlowsOk(fs, fs[1].id, None, m)
  BY <1>2, <1>5, <1>6 DEF FlowsOk, HasFlow
<1>. QED
  BY <1>1, <1>8 DEF m

LEMMA FlowsBegin ==
  /\ FlowsInit => FlowsInv
  /\ FlowsUnmounted => FlowsInv'
<1>1. FlowsInit => FlowsInv
  BY FlowsStart DEF FlowsInit, FlowsInv
<1>2. ASSUME FlowsUnmounted PROVE FlowsInv'
  <2>1. FlowsOk(flows', selectedFlow', expandedStep', made')
    BY <1>2, FlowsStart DEF FlowsUnmounted
  <2>. QED
    BY <2>1 DEF FlowsInv, FlowsOk, FlowsAre, Good
<1>. QED
  BY <1>1, <1>2

LEMMA FlowsPrimed ==
  ASSUME FlowsOk(flows', selectedFlow', expandedStep', made') PROVE FlowsInv'
  BY DEF FlowsInv

\* EditsKeepTheRest, for the flows after the step.
KeepRest(gs) ==
    \/ gs = flows
    \/ gs # <<>> /\ Tail(gs) = flows
    \/ \E i \in DOMAIN flows :
         /\ flows[i].id = selectedFlow
         /\ \/ gs = RemoveAt(flows, i)
            \/ /\ DOMAIN gs = DOMAIN flows
               /\ gs = [flows EXCEPT ![i] = gs[i]] /\ EditIsLocal(flows[i], gs[i])

LEMMA RestPrimed ==
  ASSUME KeepRest(flows') PROVE EditsKeepTheRest
  BY DEF EditsKeepTheRest, KeepRest

LEMMA FlowsStay ==
  ASSUME UNCHANGED flows PROVE EditsKeepTheRest
  BY DEF EditsKeepTheRest

LEMMA SelectedIs ==
  ASSUME FlowsInv, flows # <<>>
  PROVE  \E k \in DOMAIN flows : selected = flows[k] /\ flows[k].id = selectedFlow
<1>1. PICK k \in DOMAIN flows : flows[k].id = selectedFlow
  BY DEF FlowsInv, FlowsOk, HasFlow
<1>2. flows[k] \in ToSet(flows)
  BY DEF ToSet
<1>3. \A f \in ToSet(flows) : f.id = selectedFlow => f = flows[k]
  <2>1. ASSUME NEW f \in ToSet(flows), f.id = selectedFlow PROVE f = flows[k]
    <3>1. PICK i \in DOMAIN flows : f = flows[i]
      BY <2>1 DEF ToSet
    <3>. QED
      BY <1>1, <2>1, <3>1 DEF FlowsInv, FlowsOk, FlowsAre, DistinctIds
  <2>. QED
    BY <2>1
<1>4. \E f \in ToSet(flows) : f.id = selectedFlow
  BY <1>1, <1>2
<1>5. (CHOOSE f \in ToSet(flows) : f.id = selectedFlow) = flows[k]
  BY <1>1, <1>2, <1>3
<1>6. selected = flows[k]
  BY <1>4, <1>5 DEF selected
<1>. QED
  BY <1>1, <1>6

\* What an action on the flows leaves.
FlowsKept == FlowsInv' /\ EditsKeepTheRest

LEMMA CreateFlowKeeps ==
  ASSUME FlowsInv, createFlow PROVE FlowsKept
<1>1. PICK k \in {1, 2} : /\ made.flows < MaxFlows /\ made.steps + k <= MaxSteps
                          /\ flows' = <<flowFromTemplate(k)>> \o flows
                          /\ selectedFlow' = made.flows + 1
                          /\ made' = [flows |-> made.flows + 1, steps |-> made.steps + k]
                          /\ UNCHANGED expandedStep
  BY DEF createFlow
<1>2. made \in Made /\ FlowsAre(flows, made)
  BY DEF FlowsInv, FlowsOk
<1>3. /\ made.flows \in Nat /\ made.steps \in Nat /\ MaxFlows \in Nat /\ MaxSteps \in Nat
  BY <1>2, MadeIs
<1>4. /\ made' \in Made /\ made'.flows = made.flows + 1 /\ made'.steps = made.steps + k
      /\ made.steps <= made'.steps /\ made.flows + 1 \in FlowIds
  BY <1>1, <1>2, <1>3 DEF Made, FlowIds, StepIds
<1> DEFINE g == flowFromTemplate(k)
           steps == [i \in 1 .. k |-> Step(made.steps + i, FALSE)]
           lists == [at \in {None} |-> steps]
<1>5. Good(lists, made'.steps)
  BY <1>1, <1>3, <1>4, TemplateGood
<1>6. g.id = made'.flows /\ g.lists = lists /\ g \in FlowSet
  <2>1. g = [id |-> made.flows + 1, edited |-> FALSE, lists |-> lists]
    BY DEF flowFromTemplate
  <2> HIDE DEF g, lists
  <2>2. lists \in ListsOfFlows
    BY <1>3, <1>4, <1>5, ListsAre DEF Made
  <2>. QED
    BY <1>4, <2>1, <2>2 DEF FlowSet
<1> HIDE DEF g, steps, lists
<1>7. flows' = Then(<<g>>, flows)
  BY <1>1 DEF g, Then
<1>10. Good(g.lists, made'.steps)
  BY <1>5, <1>6
<1>8. /\ FlowsAre(flows', made') /\ flows' # <<>> /\ Tail(flows') = flows
      /\ HasFlow(flows', made'.flows)
  BY <1>2, <1>4, <1>6, <1>7, <1>10, FlowAdded, Zenon
<1>11. KeepRest(flows')
  BY <1>8 DEF KeepRest
<1>9. FlowsOk(flows', selectedFlow', expandedStep', made')
  BY <1>1, <1>4, <1>6, <1>8 DEF FlowsOk, FlowsInv, HasFlow
<1>. QED
  BY <1>9, <1>11, FlowsPrimed, RestPrimed DEF FlowsKept

LEMMA DeleteFlowKeeps ==
  ASSUME FlowsInv, deleteFlow PROVE FlowsKept
<1>1. made \in Made /\ FlowsAre(flows, made)
  BY DEF FlowsInv, FlowsOk
<1>2. PICK k \in DOMAIN flows : selected = flows[k] /\ flows[k].id = selectedFlow
  BY SelectedIs DEF deleteFlow
<1>3. /\ flows' = Without(flows, flows[k].id)
      /\ selectedFlow' = IF flows' # <<>> THEN flows'[1].id ELSE selectedFlow
      /\ UNCHANGED <<expandedStep, made>>
  BY <1>2 DEF deleteFlow
<1>4. /\ FlowsAre(flows', made) /\ flows' = RemoveAt(flows, k)
      /\ flows' # <<>> => 1 \in DOMAIN flows' /\ flows'[1].id \in FlowIds
  BY <1>1, <1>2, <1>3, FlowRemoved
<1>5. FlowsOk(flows', selectedFlow', expandedStep', made')
  BY <1>3, <1>4 DEF FlowsOk, FlowsInv, HasFlow
<1>6. KeepRest(flows')
  BY <1>2, <1>4 DEF KeepRest
<1>. QED
  BY <1>5, <1>6, FlowsPrimed, RestPrimed DEF FlowsKept

LEMMA SelectFlowKeeps ==
  ASSUME FlowsInv, selectFlow PROVE FlowsKept
<1>1. PICK f \in ToSet(flows) : selectedFlow' = f.id
  BY DEF selectFlow
<1>2. PICK i \in DOMAIN flows : f = flows[i]
  BY DEF ToSet
<1>3. flows[i].id \in FlowIds
  BY FlowsOf DEF FlowsInv, FlowsOk, FlowsAre
<1>4. FlowsOk(flows', selectedFlow', expandedStep', made')
  BY <1>1, <1>2, <1>3 DEF selectFlow, FlowsOk, FlowsInv, HasFlow
<1>. QED
  BY <1>4, FlowsPrimed, FlowsStay DEF FlowsKept, selectFlow

\* One flow is patched, and the selection stays where it is.
LEMMA FlowPatchKeeps ==
  ASSUME FlowsInv, NEW k \in DOMAIN flows, flows[k].id = selectedFlow,
         NEW g \in FlowSet, g.id = flows[k].id,
         made' \in Made, made.flows <= made'.flows, made.steps <= made'.steps,
         Good(g.lists, made'.steps), EditIsLocal(flows[k], g),
         flows' = [i \in DOMAIN flows |-> IF flows[i].id = flows[k].id THEN g ELSE flows[i]],
         UNCHANGED selectedFlow, expandedStep' \in StepIds \cup {None}
  PROVE  FlowsKept
<1>1. made \in Made /\ FlowsAre(flows, made) /\ selectedFlow \in FlowIds
      /\ (flows = <<>> \/ HasFlow(flows, selectedFlow))
  BY DEF FlowsInv, FlowsOk
<1>2. FlowsAre(flows', made') /\ DOMAIN flows' = DOMAIN flows
      /\ flows'[k] = g /\ flows' = [flows EXCEPT ![k] = flows'[k]]
      /\ \A i \in DOMAIN flows : flows'[i].id = flows[i].id
  BY <1>1, FlowPatched
<1>3. KeepRest(flows')
  BY <1>2, Zenon DEF KeepRest
<1>4. flows' = <<>> \/ HasFlow(flows', selectedFlow)
  BY <1>2 DEF HasFlow
<1>5. FlowsOk(flows', selectedFlow', expandedStep', made')
  BY <1>1, <1>2, <1>4 DEF FlowsOk
<1>. QED
  BY <1>3, <1>5, FlowsPrimed, RestPrimed DEF FlowsKept

LEMMA EditFlowKeeps ==
  ASSUME FlowsInv, EditFlow PROVE FlowsKept
<1>1. PICK k \in DOMAIN flows : selected = flows[k] /\ flows[k].id = selectedFlow
  BY SelectedIs DEF EditFlow
<1> DEFINE g == [flows[k] EXCEPT !.edited = TRUE]
<1>2. made \in Made /\ FlowsAre(flows, made)
  BY DEF FlowsInv, FlowsOk
<1>3. flows[k] \in FlowSet /\ Good(flows[k].lists, made.steps)
  BY <1>2, FlowsOf DEF FlowsAre
<1>4. g \in FlowSet /\ g.id = flows[k].id /\ g.lists = flows[k].lists
  BY <1>3 DEF FlowSet
<1>5. flows' = [i \in DOMAIN flows |-> IF flows[i].id = flows[k].id THEN g ELSE flows[i]]
  BY <1>1 DEF EditFlow, updateFlow
<1>6. EditIsLocal(flows[k], g)
  BY DEF EditIsLocal
<1> HIDE DEF g
<1>7. /\ made' \in Made /\ made.flows <= made'.flows /\ made.steps <= made'.steps
      /\ UNCHANGED selectedFlow /\ expandedStep' \in StepIds \cup {None}
      /\ made' = made
  BY <1>2, MadeIs DEF EditFlow, FlowsInv, FlowsOk
<1>8. Good(g.lists, made'.steps)
  BY <1>3, <1>4, <1>7
<1>. QED
  BY <1>1, <1>4, <1>5, <1>6, <1>7, <1>8, FlowPatchKeeps

\* A list of the selected flow is put back.
LEMMA OnChangeKeeps ==
  ASSUME FlowsInv, flows # <<>>, NEW at, NEW put, onChange(at, put),
         UNCHANGED selectedFlow, expandedStep' \in StepIds \cup {None},
         made' \in Made, made.flows <= made'.flows, made.steps <= made'.steps,
         Good(PutBack(selected.lists, at, put), made'.steps),
         OneListEdited(selected.lists, PutBack(selected.lists, at, put))
  PROVE  FlowsKept
<1>1. PICK k \in DOMAIN flows : selected = flows[k] /\ flows[k].id = selectedFlow
  BY SelectedIs
<1> DEFINE after == PutBack(flows[k].lists, at, put)
           g == [flows[k] EXCEPT !.lists = after]
<1>2. made \in Made /\ FlowsAre(flows, made) /\ MaxSteps \in Nat
  BY MadeIs DEF FlowsInv, FlowsOk
<1>3. flows[k] \in FlowSet
  BY <1>2, FlowsOf DEF FlowsAre
<1>4. Good(after, made'.steps) /\ OneListEdited(flows[k].lists, after)
  BY <1>1
<1>5. flows' = [i \in DOMAIN flows |-> IF flows[i].id = flows[k].id THEN g ELSE flows[i]]
  BY <1>1 DEF onChange, updateFlow
<1> HIDE DEF after
<1>6. after \in ListsOfFlows
  BY <1>2, <1>4, ListsAre DEF Made
<1>7. g \in FlowSet /\ g.id = flows[k].id /\ g.lists = after
  BY <1>3, <1>6 DEF FlowSet
<1>8. g = [flows[k] EXCEPT !.lists = g.lists]
  BY <1>7
<1> HIDE DEF g
<1>9. Good(g.lists, made'.steps) /\ EditIsLocal(flows[k], g)
  BY <1>4, <1>7, <1>8 DEF EditIsLocal
<1>. QED
  BY <1>1, <1>5, <1>7, <1>9, FlowPatchKeeps

\* The list of steps that is edited.
LEMMA StepListKeeps ==
  ASSUME FlowsInv, StepList PROVE FlowsKept
<1>1. PICK at \in DOMAIN selected.lists :
        \/ add(at) \/ removeStep(at) \/ move(at, "up") \/ move(at, "down")
        \/ reorder(at) \/ StepEditor(at) \/ onToggle(at)
  BY DEF StepList
<1> DEFINE lists == selected.lists
           l == lists[at]
           n == made.steps
<1>2. flows # <<>>
  BY DEF StepList
<1>3. made \in Made /\ FlowsAre(flows, made) /\ expandedStep \in StepIds \cup {None}
  BY DEF FlowsInv, FlowsOk
<1>4. Good(lists, n)
  <2>1. PICK k \in DOMAIN flows : selected = flows[k]
    BY <1>2, SelectedIs
  <2>. QED
    BY <1>3, <2>1 DEF FlowsAre
<1>5. n \in Nat /\ made.flows \in Nat /\ made.flows \in FlowIds /\ n \in StepIds /\ MaxSteps \in Nat
  BY <1>3, MadeIs
<1>6. l \in Seq(Steps) /\ DistinctIds(l)
  BY <1>4, OwnSteps
<1>7. ASSUME NEW id \in IdsOf(l)
      PROVE  id \in StepIds /\ IndexOf(l, id) \in DOMAIN l /\ StepIn(l, id) = l[IndexOf(l, id)]
             /\ l[IndexOf(l, id)].id = id
  <2>1. PICK i \in DOMAIN l : l[i].id = id
    BY <1>7, IdsOfIs
  <2>2. StepIn(l, id) = l[i] /\ IndexOf(l, id) = i
    BY <1>6, <2>1 DEF StepIn, IndexOf, DistinctIds, ToSet
  <2>3. l[i].id \in StepIds
    BY <1>6, StepsOf
  <2>. QED
    BY <2>1, <2>2, <2>3
<1>16. at \in DOMAIN lists /\ l = lists[at]
  BY <1>1
<1> HIDE DEF l, n, lists
<1>8. ASSUME NEW put, onChange(at, put), UNCHANGED <<selectedFlow, made>>,
             expandedStep' \in StepIds \cup {None}, Good(PutBack(lists, at, put), n), OneListEdited(lists, PutBack(lists, at, put))
      PROVE  FlowsKept
  <2>1. made' \in Made /\ made.flows <= made'.flows /\ made.steps <= made'.steps /\ made'.steps = n
    BY <1>3, <1>5, <1>8 DEF n
  <2>2. /\ Good(PutBack(selected.lists, at, put), made'.steps)
        /\ OneListEdited(selected.lists, PutBack(selected.lists, at, put))
    BY <1>8, <2>1 DEF lists
  <2>. QED
    BY <1>2, <1>8, <2>1, <2>2, OnChangeKeeps
<1>9. ASSUME NEW put \in Seq(Steps), OneMoved(l, put), onChange(at, put),
             UNCHANGED <<selectedFlow, expandedStep, made>>
      PROVE  FlowsKept
  <2>1. Good(PutBack(lists, at, put), n) /\ OneListEdited(lists, PutBack(lists, at, put))
    BY <1>1, <1>4, <1>9, MoveEdits DEF l, lists
  <2>. QED
    BY <1>3, <1>8, <1>9, <2>1
<1>10. CASE add(at)
  <2>1. PICK c \in BOOLEAN : onChange(at, Append(l, Step(n + 1, c)))
    BY <1>10 DEF add, l, n, lists
  <2>2. n < MaxSteps /\ expandedStep' = n + 1 /\ made' = [made EXCEPT !.steps = n + 1]
        /\ UNCHANGED selectedFlow
    BY <1>10 DEF add, n
  <2>3. n + 1 \in StepIds
    BY <1>5, <2>2 DEF StepIds
  <2>4. made' \in Made /\ made'.steps = n + 1 /\ made.flows <= made'.flows /\ made.steps <= made'.steps
    <3>1. made' \in Made /\ made'.steps = n + 1 /\ made'.flows = made.flows
      BY <1>3, <2>2, <2>3 DEF Made
    <3>. QED
      BY <1>5, <3>1 DEF n
  <2> DEFINE s == Step(n + 1, c)
             put == Append(l, s)
  <2>8. s \in Steps /\ s.id = n + 1
    BY <2>3, StepMade
  <2> HIDE DEF s
  <2>5. Good(PutBack(lists, at, put), n + 1) /\ OneListEdited(lists, PutBack(lists, at, put))
    BY <1>4, <1>5, <1>16, <2>8, AddingEdits
  <2> HIDE DEF put
  <2>6. /\ Good(PutBack(selected.lists, at, put), made'.steps)
        /\ OneListEdited(selected.lists, PutBack(selected.lists, at, put))
    BY <2>4, <2>5 DEF lists
  <2>7. onChange(at, put) /\ expandedStep' \in StepIds \cup {None}
    BY <2>1, <2>2, <2>3 DEF put, s
  <2>. QED
    BY <1>2, <2>2, <2>4, <2>6, <2>7, OnChangeKeeps
<1>11. CASE removeStep(at)
  <2>1. /\ expandedStep \in IdsOf(l) /\ onChange(at, Without(l, expandedStep))
        /\ expandedStep' = None /\ UNCHANGED <<selectedFlow, made>>
    BY <1>11 DEF removeStep, l, lists
  <2> DEFINE put == Without(l, expandedStep)
  <2>4. PICK k \in DOMAIN l : l[k].id = expandedStep
    BY <2>1, IdsOfIs
  <2>5. put = RemoveAt(l, k)
    BY <1>6, <2>4, WithoutIs
  <2> HIDE DEF put
  <2>2. Good(PutBack(lists, at, put), n) /\ OneListEdited(lists, PutBack(lists, at, put))
    BY <1>4, <1>5, <1>16, <2>5, RemovalEdits
  <2>3. onChange(at, put)
    BY <2>1 DEF put
  <2>. QED
    BY <1>8, <2>1, <2>2, <2>3
<1>12. ASSUME NEW dir \in {"up", "down"}, move(at, dir) PROVE FlowsKept
  <2> DEFINE i == IndexOf(l, expandedStep)
             j == IF dir = "up" THEN i - 1 ELSE i + 1
             put == [l EXCEPT ![i] = l[j], ![j] = l[i]]
  <2>1. /\ expandedStep \in IdsOf(l) /\ j \in DOMAIN l /\ onChange(at, put)
        /\ UNCHANGED <<selectedFlow, expandedStep, made>>
    BY <1>12 DEF move, l, lists
  <2>2. i \in DOMAIN l /\ i \in Nat
    <3>1. i \in DOMAIN l
      BY <1>7, <2>1
    <3>2. DOMAIN l = 1 .. Len(l) /\ Len(l) \in Nat
      BY <1>6, StepsOf
    <3> HIDE DEF i
    <3>. QED
      BY <3>1, <3>2
  <2> HIDE DEF i
  <2>3. j = i + 1 \/ i = j + 1
    BY <2>2
  <2> HIDE DEF j
  <2>4. put \in Seq(Steps) /\ OneMoved(l, put)
    BY <1>6, <2>1, <2>2, <2>3, SwapMoves
  <2> HIDE DEF put
  <2>. QED
    BY <1>9, <2>1, <2>4
<1>13. CASE reorder(at)
  <2>1. PICK from \in IdsOf(l), to \in IdsOf(l) : onChange(at, Reordered(l, from, to))
    BY <1>13 DEF reorder, l, lists
  <2>2. UNCHANGED <<selectedFlow, expandedStep, made>>
    BY <1>13 DEF reorder
  <2> DEFINE a == IndexOf(l, from)
             b == IndexOf(l, to)
             put == InsertAt(RemoveAt(l, a), b, l[a])
  <2>3. a \in DOMAIN l /\ b \in DOMAIN l /\ StepIn(l, from) = l[a]
    BY <1>7
  <2>4. Reordered(l, from, to) = put
    BY <2>3 DEF Reordered
  <2> HIDE DEF a, b
  <2>5. put \in Seq(Steps) /\ OneMoved(l, put)
    BY <1>6, <2>3, DropMoves
  <2> HIDE DEF put
  <2>6. onChange(at, put)
    BY <2>1, <2>4
  <2>. QED
    BY <1>9, <2>2, <2>5, <2>6
<1>14. CASE StepEditor(at)
  <2> DEFINE put == patchStep(l, expandedStep, [StepIn(l, expandedStep) EXCEPT !.edited = TRUE])
  <2>1. /\ expandedStep \in IdsOf(l) /\ onChange(at, put)
        /\ UNCHANGED <<selectedFlow, expandedStep, made>>
    BY <1>14 DEF StepEditor, l, lists
  <2>2. Good(PutBack(lists, at, put), n) /\ OneListEdited(lists, PutBack(lists, at, put))
    <3> DEFINE k == IndexOf(l, expandedStep)
    <3>1. k \in DOMAIN l /\ StepIn(l, expandedStep) = l[k] /\ l[k].id = expandedStep
      BY <1>7, <2>1
    <3> HIDE DEF k
    <3>2. \A i \in DOMAIN l : l[i].id = expandedStep => i = k
      BY <1>6, <3>1 DEF DistinctIds
    <3>3. put = [l EXCEPT ![k].edited = TRUE]
      <4>1. put = [i \in DOMAIN l |-> IF i = k THEN [l[k] EXCEPT !.edited = TRUE] ELSE l[i]]
        BY <3>1, <3>2 DEF patchStep
      <4> HIDE DEF put
      <4>. QED
        BY <4>1
    <3> HIDE DEF put
    <3>4. OneEdited(l, put)
      BY <3>1, <3>3 DEF OneEdited
    <3>. QED
      BY <1>4, <1>16, <3>4, TypingEdits
  <2> HIDE DEF put
  <2>. QED
    BY <1>3, <1>8, <2>1, <2>2
<1>15. CASE onToggle(at)
  <2>1. PICK id \in IdsOf(l) : expandedStep' = IF expandedStep = id THEN None ELSE id
    BY <1>15 DEF onToggle, l, lists
  <2>2. expandedStep' \in StepIds \cup {None} /\ UNCHANGED <<flows, selectedFlow, made>>
    BY <1>7, <1>15, <2>1 DEF onToggle
  <2>3. FlowsOk(flows', selectedFlow', expandedStep', made')
    BY <2>2 DEF FlowsInv, FlowsOk
  <2>. QED
    BY <2>2, <2>3, FlowsPrimed, FlowsStay DEF FlowsKept
<1>. QED
  BY <1>1, <1>10, <1>11, <1>12, <1>13, <1>14, <1>15

LEMMA FlowsNextKeeps ==
  ASSUME FlowsInv, FlowsNext PROVE FlowsKept
  BY CreateFlowKeeps, DeleteFlowKeeps, SelectFlowKeeps, EditFlowKeeps, StepListKeeps DEF FlowsNext

LEMMA FlowsUntouched ==
  ASSUME FlowsInv, UNCHANGED editor PROVE FlowsKept
<1>1. FlowsOk(flows', selectedFlow', expandedStep', made') /\ UNCHANGED flows
  BY DEF FlowsInv, editor
<1>. QED
  BY <1>1, FlowsPrimed, FlowsStay DEF FlowsKept

LEMMA FlowsStep ==
  ASSUME FlowsInv, [Next]_vars
  PROVE  FlowsInv' /\ (page' = page => EditsKeepTheRest)
<1>1. CASE UNCHANGED vars
  BY <1>1, FlowsUntouched DEF vars, FlowsKept
<1>2. CASE OpenPage
  <2>1. page' # page
    BY <1>2 DEF OpenPage
  <2>. QED
    BY <1>2, <2>1, FlowsBegin DEF OpenPage
<1>3. CASE openConversation
  BY <1>3, FlowsUntouched DEF openConversation, local, FlowsKept
<1>4. CASE UNCHANGED page /\ OnPage
  <2>1. UNCHANGED editor \/ FlowsNext
    BY <1>4 DEF OnPage, local
  <2>. QED
    BY <2>1, FlowsUntouched, FlowsNextKeeps DEF FlowsKept
<1>. QED
  BY <1>1, <1>2, <1>3, <1>4 DEF Next

\* While the flows are open, nothing changes but one list of the selected flow, in which
\* a step is moved, typed into, added at the end or taken out with what is in its
\* branches, or the flow itself is typed into, or it goes, or a new one comes first; and
\* everything else is as it was and where it was: the callbacks from StepCard up to
\* updateFlow, for any flows, steps and depth of branches.
THEOREM LocalFlowEdits == Spec => FlowEditsAreLocal
<1>1. Init => FlowsInv
  BY FlowsBegin DEF Init
<1>2. FlowsInv /\ [Next]_vars => FlowsInv' /\ [page' = page => EditsKeepTheRest]_vars
  BY FlowsStep
<1>. QED
  BY <1>1, <1>2, PTL DEF Spec, FlowEditsAreLocal

-----------------------------------------------------------------------------
(* The library                                                              *)

\* A name for the prover, which takes a flag of a record for a value, not a formula.
IsTitled(a) == a.title

\* Assets, each with a title and an id of its own.
AssetsAre(as) ==
    /\ as \in Seq(Asset) /\ DistinctIds(as) /\ \A i \in DOMAIN as : IsTitled(as[i])

LibraryIs(as, d, x) ==
    /\ AssetsAre(as) /\ d \in Asset \cup {None} /\ x \in 1 .. MaxMade \cup {None}

LibraryInv == LibraryIs(assets, draft, deleteId)

LEMMA LibraryTyped == LibraryInv => LibraryTypeOK
<1>1. ASSUME LibraryInv PROVE LibraryTypeOK
  <2>1. \A i \in DOMAIN assets : assets[i].title
    BY <1>1, Zenon DEF LibraryInv, LibraryIs, AssetsAre, IsTitled
  <2>. QED
    BY <1>1, <2>1 DEF LibraryInv, LibraryIs, AssetsAre, LibraryTypeOK
<1>. QED
  BY <1>1

LEMMA AssetMade ==
  ASSUME NEW i \in 1 .. MaxMade, NEW b \in BOOLEAN, NEW a, a = [id |-> i, title |-> b]
  PROVE  a \in Asset /\ a.id = i /\ (IsTitled(a) <=> b)
<1>1. a \in Asset /\ a.id = i /\ a.title = b
  BY DEF Asset
<1>. QED
  BY <1>1 DEF IsTitled

LEMMA AssetsOf ==
  ASSUME NEW as \in Seq(Asset)
  PROVE  /\ Len(as) \in Nat /\ DOMAIN as = 1 .. Len(as)
         /\ \A i \in DOMAIN as : as[i] \in Asset /\ as[i].id \in 1 .. MaxMade
<1>1. \A a \in Asset : a.id \in 1 .. MaxMade
  BY DEF Asset
<1>. QED
  BY <1>1, LenProperties, ElementOfSeq

LEMMA LibraryStarts ==
  ASSUME NEW as, as = RosterStarted.assets PROVE LibraryIs(as, None, None)
<1>1. MaxMade \in Nat /\ INITIAL_ASSETS \in 0 .. MaxMade /\ INITIAL_ASSETS \in Nat
  BY LibraryAssumption DEF LibraryAssumption
<1>2. as = [i \in 1 .. INITIAL_ASSETS |-> [id |-> i, title |-> TRUE]]
  BY DEF RosterStarted
<1>3. ASSUME NEW i \in 1 .. INITIAL_ASSETS
      PROVE  as[i] \in Asset /\ as[i].id = i /\ IsTitled(as[i])
  <2>1. as[i] = [id |-> i, title |-> TRUE] /\ i \in 1 .. MaxMade
    BY <1>1, <1>2
  <2>. QED
    BY <2>1, AssetMade
<1>4. DOMAIN as = 1 .. INITIAL_ASSETS /\ as \in [1 .. INITIAL_ASSETS -> Asset]
  BY <1>2, <1>3
<1>5. as \in Seq(Asset)
  BY <1>1, <1>4
<1>6. DistinctIds(as)
  BY <1>3, <1>4 DEF DistinctIds
<1>. QED
  BY <1>3, <1>4, <1>5, <1>6 DEF LibraryIs, AssetsAre

\* An asset that is there is replaced.
LEMMA AssetReplaced ==
  ASSUME NEW as, AssetsAre(as), NEW d \in Asset, IsTitled(d),
         NEW bs, bs = [i \in DOMAIN as |-> IF as[i].id = d.id THEN d ELSE as[i]]
  PROVE  AssetsAre(bs)
<1>1. as \in Seq(Asset) /\ Len(as) \in Nat /\ DOMAIN as = 1 .. Len(as) /\ DistinctIds(as)
      /\ \A i \in DOMAIN as : as[i] \in Asset /\ IsTitled(as[i])
  BY AssetsOf DEF AssetsAre
<1>2. DOMAIN bs = DOMAIN as
      /\ \A i \in DOMAIN as : bs[i] \in Asset /\ bs[i].id = as[i].id /\ IsTitled(bs[i])
  BY <1>1
<1>3. bs \in Seq(Asset)
  <2>1. bs \in [1 .. Len(as) -> Asset]
    BY <1>1, <1>2
  <2>. QED
    BY <1>1, <2>1, ListOf, Zenon
<1>4. ASSUME NEW i \in DOMAIN bs, NEW j \in DOMAIN bs, bs[i].id = bs[j].id PROVE i = j
  <2>1. i \in DOMAIN as /\ j \in DOMAIN as /\ as[i].id = as[j].id
    BY <1>2, <1>4
  <2>. QED
    BY <1>1, <2>1 DEF DistinctIds
<1>. QED
  BY <1>2, <1>3, <1>4 DEF AssetsAre, DistinctIds

\* A new asset comes before the others.
LEMMA AssetAdded ==
  ASSUME NEW as, AssetsAre(as), NEW d \in Asset, IsTitled(d), \A i \in DOMAIN as : as[i].id # d.id,
         NEW s \in Seq(Asset), Len(s) = 1, s[1] = d, NEW bs, JoinedOf(bs, s, as, Asset)
  PROVE  AssetsAre(bs)
<1> DEFINE n == Len(as)
<1>1. as \in Seq(Asset) /\ n \in Nat /\ DOMAIN as = 1 .. n /\ DistinctIds(as)
      /\ \A i \in DOMAIN as : IsTitled(as[i])
  BY AssetsOf DEF AssetsAre
<1>2. bs \in Seq(Asset) /\ Len(bs) = 1 + n
      /\ \A i \in 1 .. 1 + n : bs[i] = IF i <= 1 THEN s[i] ELSE as[i - 1]
  BY DEF JoinedOf
<1>3. DOMAIN bs = 1 .. 1 + n
  BY <1>2, LenProperties
<1> HIDE DEF n
<1>4. bs[1] = d
  <2>1. 1 \in 1 .. 1 + n
    BY <1>1
  <2>2. bs[1] = IF 1 <= 1 THEN s[1] ELSE as[1 - 1]
    BY <1>2, <2>1
  <2>. QED
    BY <2>2
<1>5. ASSUME NEW j \in DOMAIN bs, j # 1 PROVE j - 1 \in DOMAIN as /\ bs[j] = as[j - 1]
  <2>1. j \in 1 .. 1 + n /\ j - 1 \in 1 .. n /\ ~(j <= 1)
    BY <1>1, <1>3, <1>5
  <2>2. bs[j] = IF j <= 1 THEN s[j] ELSE as[j - 1]
    BY <1>2, <2>1
  <2>. QED
    BY <1>1, <2>1, <2>2
<1>6. \A j \in DOMAIN bs : IsTitled(bs[j])
  BY <1>1, <1>4, <1>5
<1>7. ASSUME NEW i \in DOMAIN bs, NEW j \in DOMAIN bs, bs[i].id = bs[j].id PROVE i = j
  <2>1. CASE i = 1 \/ j = 1
    BY <1>4, <1>5, <1>7, <2>1
  <2>2. CASE i # 1 /\ j # 1
    <3>1. as[i - 1].id = as[j - 1].id /\ i - 1 \in DOMAIN as /\ j - 1 \in DOMAIN as
      BY <1>5, <1>7, <2>2
    <3>2. i - 1 = j - 1
      BY <1>1, <3>1 DEF DistinctIds
    <3>. QED
      BY <1>3, <3>2
  <2>. QED
    BY <2>1, <2>2
<1>. QED
  BY <1>2, <1>6, <1>7 DEF AssetsAre, DistinctIds

LEMMA OneAssetLess ==
  ASSUME NEW as, AssetsAre(as), NEW k \in DOMAIN as, NEW bs, OneLess(bs, as, k, Asset)
  PROVE  AssetsAre(bs)
<1>1. as \in Seq(Asset) /\ Len(as) \in Nat /\ DOMAIN as = 1 .. Len(as) /\ DistinctIds(as)
      /\ \A i \in DOMAIN as : IsTitled(as[i])
  BY AssetsOf DEF AssetsAre
<1>2. bs \in Seq(Asset) /\ Len(as) = Len(bs) + 1 /\ Len(bs) \in Nat /\ DOMAIN bs = 1 .. Len(bs)
  BY LenProperties DEF OneLess
<1> DEFINE p(j) == IF j < k THEN j ELSE j + 1
<1>3. \A j \in DOMAIN bs : p(j) \in DOMAIN as /\ bs[j] = as[p(j)]
  <2>1. \A j \in 1 .. Len(bs) : bs[j] = IF j < k THEN as[j] ELSE as[j + 1]
    BY DEF OneLess
  <2>2. \A j \in 1 .. Len(bs) : p(j) \in 1 .. Len(bs) + 1
    BY <1>1, <1>2
  <2>. QED
    BY <1>1, <1>2, <2>1, <2>2
<1>4. \A i, j \in DOMAIN bs : p(i) = p(j) => i = j
  BY <1>1, <1>2
<1> HIDE DEF p
<1>5. \A i \in DOMAIN bs : IsTitled(bs[i])
  BY <1>1, <1>3
<1>6. ASSUME NEW i \in DOMAIN bs, NEW j \in DOMAIN bs, bs[i].id = bs[j].id PROVE i = j
  <2>1. p(i) = p(j)
    BY <1>1, <1>3, <1>6 DEF DistinctIds
  <2>. QED
    BY <1>4, <2>1
<1>. QED
  BY <1>2, <1>5, <1>6 DEF AssetsAre, DistinctIds

LEMMA AssetRemoved ==
  ASSUME NEW as, AssetsAre(as), NEW id
  PROVE  AssetsAre(Without(as, id))
<1>1. as \in Seq(Asset) /\ DistinctIds(as)
  BY DEF AssetsAre
<1>2. CASE ~ \E i \in DOMAIN as : as[i].id = id
  BY <1>2 DEF Without
<1>3. ASSUME NEW k \in DOMAIN as, as[k].id = id PROVE AssetsAre(Without(as, id))
  <2>1. Without(as, id) = RemoveAt(as, k)
    BY <1>1, <1>3, WithoutIs
  <2>2. OneLess(RemoveAt(as, k), as, k, Asset)
    BY <1>1, RemovedOne
  <2>. QED
    BY <2>1, <2>2, OneAssetLess
<1>. QED
  BY <1>2, <1>3

LEMMA LibraryNextKeeps ==
  ASSUME LibraryInv, LibraryNext PROVE LibraryInv'
<1>1. AssetsAre(assets) /\ draft \in Asset \cup {None} /\ deleteId \in 1 .. MaxMade \cup {None}
      /\ \A i \in DOMAIN assets : assets[i] \in Asset /\ assets[i].id \in 1 .. MaxMade
  BY AssetsOf DEF LibraryInv, LibraryIs, AssetsAre
<1>2. \A a \in ToSet(assets) : a \in Asset /\ a.id \in 1 .. MaxMade
  BY <1>1 DEF ToSet
<1>3. CASE openCreate
  <2>1. PICK id \in Unused(assets) : draft' = [id |-> id, title |-> FALSE]
    BY <1>3 DEF openCreate
  <2>2. draft' \in Asset
    BY <2>1, AssetMade DEF Unused
  <2>. QED
    BY <1>1, <1>3, <2>2 DEF openCreate, LibraryInv, LibraryIs
<1>4. CASE openEdit
  BY <1>1, <1>2, <1>4 DEF openEdit, LibraryInv, LibraryIs
<1>5. CASE TypeTitle
  <2>1. draft \in Asset /\ draft' = [draft EXCEPT !.title = ~@] /\ UNCHANGED <<assets, deleteId>>
    BY <1>1, <1>5 DEF TypeTitle
  <2>2. draft' \in Asset
    <3>1. \A a \in Asset : [a EXCEPT !.title = ~@] \in Asset
      BY DEF Asset
    <3>. QED
      BY <2>1, <3>1
  <2>. QED
    BY <1>1, <2>1, <2>2 DEF LibraryInv, LibraryIs
<1>6. CASE save
  <2>1. draft \in Asset /\ IsTitled(draft) /\ draft' = None /\ UNCHANGED deleteId
    BY <1>1, <1>6, Zenon DEF save, IsTitled
  <2>2. assets' = IF \E a \in ToSet(assets) : a.id = draft.id
                  THEN [i \in DOMAIN assets |-> IF assets[i].id = draft.id THEN draft ELSE assets[i]]
                  ELSE Then(<<draft>>, assets)
    BY <1>6, Zenon DEF save, Then
  <2>3. AssetsAre(assets')
    <3>1. CASE \E a \in ToSet(assets) : a.id = draft.id
      <4>1. assets' = [i \in DOMAIN assets |-> IF assets[i].id = draft.id THEN draft ELSE assets[i]]
        BY <2>2, <3>1
      <4>. QED
        BY <1>1, <2>1, <4>1, AssetReplaced
    <3>2. CASE ~ \E a \in ToSet(assets) : a.id = draft.id
      <4>1. assets' = Then(<<draft>>, assets)
        BY <2>2, <3>2
      <4>2. \A i \in DOMAIN assets : assets[i].id # draft.id
        BY <3>2 DEF ToSet
      <4> DEFINE one == <<draft>>
      <4>3. assets \in Seq(Asset) /\ one \in Seq(Asset) /\ Len(one) = 1 /\ one[1] = draft
        BY <1>1, <2>1 DEF AssetsAre
      <4> HIDE DEF one
      <4>4. JoinedOf(assets', one, assets, Asset)
        BY <4>1, <4>3, ThenProperties DEF one
      <4>. QED
        BY <1>1, <2>1, <4>2, <4>3, <4>4, AssetAdded
    <3>. QED
      BY <3>1, <3>2
  <2>. QED
    BY <1>1, <2>1, <2>3 DEF LibraryInv, LibraryIs
<1>7. CASE CloseEditor
  BY <1>1, <1>7 DEF CloseEditor, LibraryInv, LibraryIs
<1>8. CASE AskRemove
  BY <1>1, <1>2, <1>8 DEF AskRemove, LibraryInv, LibraryIs
<1>9. CASE remove
  <2>1. AssetsAre(assets') /\ deleteId' = None /\ UNCHANGED draft
    BY <1>1, <1>9, AssetRemoved DEF remove
  <2>. QED
    BY <1>1, <2>1 DEF LibraryInv, LibraryIs
<1>10. CASE KeepAsset
  BY <1>1, <1>10 DEF KeepAsset, LibraryInv, LibraryIs
<1>. QED
  BY <1>3, <1>4, <1>5, <1>6, <1>7, <1>8, <1>9, <1>10 DEF LibraryNext

LEMMA LibraryStep ==
  ASSUME LibraryInv, [Next]_vars PROVE LibraryInv'
<1>1. CASE LibraryUnmounted
  BY <1>1, LibraryStarts DEF LibraryUnmounted, LibraryInv
<1>2. CASE LibraryNext
  BY <1>2, LibraryNextKeeps
<1>3. CASE UNCHANGED library
  BY <1>3 DEF library, LibraryInv
<1>. QED
  BY <1>1, <1>2, <1>3 DEF Next, OnPage, OpenPage, openConversation, local, vars

\* The agents are typed while one is the default and one the selected.
LEMMA AgentsTyped == RosterInv => AgentsTypeOK
<1>1. ASSUME RosterInv PROVE AgentsTypeOK
  <2>1. agents \in Seq(Agent) /\ OnceEach(agents)
        /\ \E k \in 1 .. Len(agents) : agents[k].id = selectedAgent
    BY <1>1 DEF RosterInv, RosterIs
  <2>2. DOMAIN agents = 1 .. Len(agents)
        /\ \A i \in 1 .. Len(agents) : agents[i].id \in 1 .. MaxMade
    BY <2>1, AgentsOf
  <2>. QED
    BY <2>1, <2>2 DEF AgentsTypeOK, OnceEach, DistinctIds
<1>. QED
  BY <1>1

-----------------------------------------------------------------------------
(* The types of the inbox                                                   *)

\* What the API and the browser keep of their conversations.
StoreTypes ==
    /\ store = [s \in Sources |-> store[s]]
    /\ \A s \in Sources : store[s].lead \in [Known(s) -> Leads] /\ store[s].rev \in Nat

\* A patch on its way has a lead state.
IsPatch(m) == m.kind # "send" => m.lead \in Leads

LEMMA AppliedTypes ==
  ASSUME NEW s \in Sources, NEW at, at.lead \in [Known(s) -> Leads], at.rev \in Nat,
         NEW m, IsPatch(m), NEW after, after = Applied(m, s, at)
  PROVE  after.lead \in [Known(s) -> Leads] /\ after.rev \in Nat
<1>1. CASE m.kind = "send"
  <2>1. after.lead = at.lead /\ after.rev = at.rev + 1
    BY <1>1 DEF Applied
  <2>. QED
    BY <2>1
<1>2. CASE m.kind # "send" /\ m.conv \in Known(s)
  <2>1. after.lead = [at.lead EXCEPT ![m.conv] = m.lead] /\ after.rev = at.rev + 1
    BY <1>2 DEF Applied
  <2>2. m.lead \in Leads
    BY <1>2 DEF IsPatch
  <2>3. ASSUME NEW K, NEW f \in [K -> Leads], NEW x \in K, NEW v \in Leads
        PROVE  [f EXCEPT ![x] = v] \in [K -> Leads]
    OBVIOUS
  <2>4. after.lead \in [Known(s) -> Leads]
    BY <1>2, <2>1, <2>2, <2>3, Zenon
  <2>5. after.rev \in Nat
    BY <2>1
  <2>. QED
    BY <2>4, <2>5
<1>3. CASE m.kind # "send" /\ m.conv \notin Known(s)
  BY <1>3 DEF Applied
<1>. QED
  BY <1>1, <1>2, <1>3

LEMMA StoredTypes ==
  ASSUME StoreTypes, NEW m, IsPatch(m), NEW where, Stored(m, where) PROVE StoreTypes'
<1>1. store' = [s \in Sources |-> IF s \in where THEN Applied(m, s, store[s]) ELSE store[s]]
  BY DEF Stored
<1>2. ASSUME NEW s \in Sources
      PROVE  store'[s].lead \in [Known(s) -> Leads] /\ store'[s].rev \in Nat
  <2>1. store[s].lead \in [Known(s) -> Leads] /\ store[s].rev \in Nat
    BY DEF StoreTypes
  <2>2. store'[s] = store[s] \/ store'[s] = Applied(m, s, store[s])
    BY <1>1
  <2>. QED
    BY <2>1, <2>2, AppliedTypes
<1>3. store' = [s \in Sources |-> store'[s]]
  BY <1>1
<1>. QED
  BY <1>2, <1>3 DEF StoreTypes

\* Patches on their way, and patches that others make.
LEMMA StoreTypesStep ==
  ASSUME StoreTypes, \A m \in pending : IsPatch(m), [Next]_vars PROVE StoreTypes'
<1>. USE DEF boards, view, writing, history
<1>1. CASE UNCHANGED store
  BY <1>1 DEF StoreTypes
<1>2. CASE Answered
  <2>1. PICK m \in pending :
           \/ Succeeds(m, {"live"}) \/ Succeeds(m, {"live", "mock"}) \/ Succeeds(m, {"mock"})
           \/ UNCHANGED store
           \/ Stored(m, {"live"})
    BY <1>2 DEF Answered
  <2>. QED
    BY <1>1, <2>1, StoredTypes DEF Succeeds
<1>3. CASE Elsewhere
  <2>1. PICK c \in Conversations :
           \/ Stored(Send(c, composer, FALSE), {"live"})
           \/ \E lead \in Leads : Stored(Patch(c, lead), {"live"})
    BY <1>3 DEF Elsewhere
  <2>2. IsPatch(Send(c, composer, FALSE))
    BY DEF IsPatch, Send
  <2>3. ASSUME NEW lead \in Leads PROVE IsPatch(Patch(c, lead))
    BY DEF IsPatch, Patch
  <2>. QED
    BY <2>1, <2>2, <2>3, StoredTypes
<1>4. CASE OpenPage \/ openConversation
  BY <1>1, <1>4 DEF OpenPage, openConversation, InboxUnmounted
<1>5. CASE Loading
  BY <1>1, <1>5, LoadingReads
<1>6. CASE Chatting /\ ~Answered /\ ~Elsewhere
  BY <1>1, <1>6 DEF Chatting, handleSend, patch, moveTo, Compose, onPickFiles,
     removeAttachment, Ask, Suggested, selectConversation, clearSelection, setStatusFilter,
     toggleFrom, clearFilters
<1>7. CASE EditCard \/ UNCHANGED inbox
  BY <1>1, <1>7 DEF EditCard, inbox
<1>. QED
  BY <1>2, <1>3, <1>4, <1>5, <1>6, <1>7 DEF Next, OnPage, InboxNext, vars

-----------------------------------------------------------------------------
(* The types of the lists                                                   *)

SnapshotTypes(l) == l.from \in Sources /\ l.lead \in [Known(l.from) -> Leads]

ListTypesOf(l) ==
    /\ l.stale \in BOOLEAN
    /\ l.shown # None => SnapshotTypes(l.shown)
    /\ l.got # None => SnapshotTypes(l.got)

ListTypes == \A b \in ListKeys : ListTypesOf(list[b])

LEMMA RefreshedTypes ==
  ASSUME NEW l, NEW rev, ListInvOf(l, rev), ListTypesOf(l), NEW active, NEW r, r = Refreshed(l, active)
  PROVE  ListTypesOf(r)
<1>. DEFINE g == IF l.got = None THEN None ELSE [l.got EXCEPT !.late = TRUE]
<1>1. g # None => SnapshotTypes(g)
  <2>1. ASSUME l.got # None, NEW t
        PROVE  [l.got EXCEPT !.late = t] =
               [lead |-> l.got.lead, rev |-> l.got.rev, from |-> l.got.from, late |-> t]
    <3>1. IsSnapshot(l.got)
      BY <2>1 DEF ListInvOf
    <3>. QED
      BY <3>1 DEF IsSnapshot
  <2>2. l.got # None => g =
               [lead |-> l.got.lead, rev |-> l.got.rev, from |-> l.got.from, late |-> TRUE]
    BY <2>1, Zenon
  <2>3. g # None => l.got # None
    OBVIOUS
  <2>. HIDE DEF g
  <2>. QED
    BY <2>2, <2>3 DEF SnapshotTypes, ListTypesOf
<1>2. \/ r = [shown |-> l.shown, stale |-> TRUE, asked |-> TRUE, got |-> None]
      \/ r = [shown |-> l.shown, stale |-> TRUE, asked |-> l.asked, got |-> g]
  BY Zenon DEF Refreshed
<1>. HIDE DEF g
<1>3. r.shown = l.shown /\ r.stale = TRUE /\ r.got \in {None, g}
  BY <1>2
<1>. QED
  BY <1>1, <1>3 DEF ListTypesOf

\* One list is changed.
LEMMA OneListTyped ==
  ASSUME ListsInv, ListTypes, NEW b, NEW l, ListTypesOf(l), list' = [list EXCEPT ![b] = l]
  PROVE  ListTypes'
<1>1. \A d \in ListKeys : list'[d] = IF d = b THEN l ELSE list[d]
  BY DEF ListsInv
<1>2. \A d \in ListKeys : ListTypesOf(list'[d])
  BY <1>1 DEF ListTypes
<1>. QED
  BY <1>2 DEF ListTypes

LEMMA ListTypesLoad ==
  ASSUME ListsInv, StoreTypes, ListTypes, Loading PROVE ListTypes'
<1>1. ASSUME NEW b \in ListKeys
      PROVE  /\ \A t : [list[b] EXCEPT !.asked = t] =
                  [shown |-> list[b].shown, stale |-> list[b].stale, asked |-> t, got |-> list[b].got]
             /\ \A t : [list[b] EXCEPT !.got = t] =
                  [shown |-> list[b].shown, stale |-> list[b].stale, asked |-> list[b].asked, got |-> t]
             /\ ListTypesOf(list[b])
  <2>1. ListInvOf(list[b], own.rev)
    BY DEF ListsInv
  <2>. QED
    BY <2>1 DEF ListInvOf, ListTypes
<1>2. ASSUME NEW b \in ListKeys, NEW t, list' = [list EXCEPT ![b].asked = t] PROVE ListTypes'
  <2> DEFINE l == [list[b] EXCEPT !.asked = t]
  <2>1. l = [shown |-> list[b].shown, stale |-> list[b].stale, asked |-> t, got |-> list[b].got]
    BY ONLY <1>1, Zenon
  <2>2. list' = [list EXCEPT ![b] = l]
    BY <1>2
  <2> HIDE DEF l
  <2>3. ListTypesOf(l)
    BY <1>1, <2>1 DEF ListTypesOf
  <2>. QED
    BY <2>2, <2>3, OneListTyped
<1>3. ASSUME NEW b \in ListKeys, NEW src \in Sources, list' = [list EXCEPT ![b].got = Snapshot(src)]
      PROVE  ListTypes'
  <2> DEFINE s == Snapshot(src)
             l == [list[b] EXCEPT !.got = s]
  <2>1. SnapshotTypes(s)
    BY DEF Snapshot, SnapshotTypes, StoreTypes
  <2>2. list' = [list EXCEPT ![b] = l]
    BY <1>3
  <2> HIDE DEF s
  <2>3. l = [shown |-> list[b].shown, stale |-> list[b].stale, asked |-> list[b].asked, got |-> s]
    BY <1>1
  <2> HIDE DEF l
  <2>4. ListTypesOf(l)
    BY <1>1, <2>1, <2>3 DEF ListTypesOf
  <2>. QED
    BY <2>2, <2>4, OneListTyped
<1>4. ASSUME NEW b \in ListKeys, ListArrives(b) PROVE ListTypes'
  <2>. DEFINE l == [shown |-> list[b].got, stale |-> FALSE, asked |-> FALSE, got |-> None]
  <2>1. list[b].got # None /\ list' = [list EXCEPT ![b] = l]
    BY <1>4 DEF ListArrives
  <2>2. ListTypesOf(l)
    BY <1>1, <2>1 DEF ListTypesOf
  <2>. HIDE DEF l
  <2>. QED
    BY <2>1, <2>2, OneListTyped
<1>5. CASE fetchNextPage \/ \E c \in All : useInfiniteMessages(c) \/ getMessages(c) \/ FirstPageArrives(c)
  BY <1>5 DEF fetchNextPage, useInfiniteMessages, getMessages, FirstPageArrives, ListTypes
<1>6. ASSUME NEW b \in ListKeys, useConversations(b) PROVE ListTypes'
  BY <1>2, <1>6 DEF useConversations
<1>7. ASSUME NEW b \in ListKeys, getConversations(b) PROVE ListTypes'
  BY <1>2, <1>3, <1>7 DEF getConversations, Sources
<1>. QED
  BY <1>4, <1>5, <1>6, <1>7 DEF Loading

LEMMA ListTypesStep ==
  ASSUME ListsInv, StoreTypes, ListTypes, [Next]_vars PROVE ListTypes'
<1>. USE DEF boards, view, writing, history
<1>1. CASE UNCHANGED list
  BY <1>1 DEF ListTypes
<1>2. CASE Answered
  <2>1. CASE UNCHANGED list
    BY <1>1, <2>1
  <2>2. CASE list' = invalidateConversations
    <3>1. \A b \in ListKeys : list'[b] = Refreshed(list[b], openList = b)
      BY <2>2 DEF invalidateConversations
    <3>2. ASSUME NEW b \in ListKeys PROVE ListTypesOf(list'[b])
      <4>1. ListInvOf(list[b], own.rev) /\ ListTypesOf(list[b])
        BY DEF ListsInv, ListTypes
      <4>2. ASSUME NEW active, NEW r, r = Refreshed(list[b], active) PROVE ListTypesOf(r)
        BY <4>1, <4>2, RefreshedTypes
      <4>. QED
        BY ONLY <3>1, <4>2, Zenon
    <3>. QED
      BY <3>2 DEF ListTypes
  <2>. QED
    BY <1>2, <2>1, <2>2 DEF Answered, Succeeds
<1>3. CASE Loading
  BY <1>3, ListTypesLoad
<1>4. CASE OpenPage \/ openConversation
  BY <1>1, <1>4 DEF OpenPage, openConversation, InboxUnmounted
<1>5. CASE Chatting /\ ~Answered
  BY <1>1, <1>5 DEF Chatting, handleSend, patch, moveTo, Elsewhere, Compose, onPickFiles,
     removeAttachment, Ask, Suggested, selectConversation, clearSelection, setStatusFilter,
     toggleFrom, clearFilters
<1>6. CASE EditCard \/ UNCHANGED inbox
  BY <1>1, <1>6 DEF EditCard, inbox
<1>. QED
  BY <1>2, <1>3, <1>4, <1>5, <1>6 DEF Next, OnPage, InboxNext, vars

-----------------------------------------------------------------------------
(* The types of the threads                                                 *)

LoadTypesOf(p, l) ==
    /\ l \in {None, "first", "refetch", "older"}
    /\ (l = "first") <=> (l # None /\ p = <<>>)

\* The first load of a thread is one of a thread without pages.
LoadTypes == \A c \in All : LoadTypesOf(thread[c].pages, thread[c].load)

\* Only what is shown and what is being loaded matters.
LEMMA LoadOf ==
  ASSUME NEW p
  PROVE  /\ LoadTypesOf(p, None)
         /\ LoadTypesOf(p, IF p = <<>> THEN "first" ELSE "refetch")
         /\ p # <<>> => LoadTypesOf(p, "older") /\ LoadTypesOf(p, "refetch")
<1>1. None # "first" /\ None # "refetch" /\ None # "older"
  BY InboxAssumption DEF InboxAssumption
<1>. QED
  BY <1>1 DEF LoadTypesOf

LEMMA LoadOfParts ==
  ASSUME NEW p, NEW s, NEW l, NEW g, NEW a, NEW u, u = ThreadWith(p, s, l, g, a),
         LoadTypesOf(p, l)
  PROVE  LoadTypesOf(u.pages, u.load)
<1>1. u.pages = p /\ u.load = l
  BY DEF ThreadWith
<1>. QED
  BY <1>1

LEMMA OneLoadTyped ==
  ASSUME ThreadsInv, LoadTypes, NEW c, NEW t, c \in All => LoadTypesOf(t.pages, t.load),
         thread' = [thread EXCEPT ![c] = t]
  PROVE  LoadTypes'
<1>1. \A d \in All : thread'[d] = IF d = c THEN t ELSE thread[d]
  BY DEF ThreadsInv
<1>2. \A d \in All : LoadTypesOf(thread'[d].pages, thread'[d].load)
  BY <1>1 DEF LoadTypes
<1>. QED
  BY <1>2 DEF LoadTypes

LEMMA LoadTypesRead ==
  ASSUME ThreadsInv, LoadTypes, NEW c \in All, NEW src, PageRead(c, src) PROVE LoadTypes'
<1> DEFINE t == thread[c]
           before == IF t.load = "older" THEN t.pages ELSE t.got
           after == Append(before, PageFrom(src, c, loadedCount(before)))
           t1 == [t EXCEPT !.got = after]
           t2 == [pages |-> after, stale |-> FALSE, load |-> None, got |-> <<>>,
                  late |-> IF t.load = "older" THEN t.late ELSE Landed(t)]
           goes == t.load = "first" \/ (t.load = "refetch" /\ RefetchGoesOn(t.pages, after, Limit))
<1>1. thread' = [thread EXCEPT ![c] = IF goes THEN t1 ELSE t2]
  BY DEF PageRead
<1>2. ThreadIs(t, store["live"].count[c], own.last[c]) /\ LoadTypesOf(t.pages, t.load)
  BY DEF ThreadsInv, LoadTypes
<1> HIDE DEF after, goes
<1>3. LoadTypesOf(t1.pages, t1.load)
  <2>1. t1 = [pages |-> t.pages, stale |-> t.stale, load |-> t.load, got |-> after, late |-> t.late]
    BY <1>2, ThreadExcept
  <2>. HIDE DEF t1
  <2>2. t1.pages = t.pages /\ t1.load = t.load
    BY <2>1
  <2>. QED
    BY <1>2, <2>2
<1>4. LoadTypesOf(t2.pages, t2.load)
  <2>1. t2.load = None
    OBVIOUS
  <2>. QED
    BY <2>1, LoadOf
<1> HIDE DEF t1, t2
<1>5. LoadTypesOf((IF goes THEN t1 ELSE t2).pages, (IF goes THEN t1 ELSE t2).load)
  BY <1>3, <1>4
<1>. QED
  BY <1>1, <1>5, OneLoadTyped

LEMMA LoadTypesLoad ==
  ASSUME ThreadsInv, LoadTypes, Loading PROVE LoadTypes'
<1>1. ASSUME NEW c \in All
      PROVE  ThreadIs(thread[c], store["live"].count[c], own.last[c])
             /\ LoadTypesOf(thread[c].pages, thread[c].load)
  BY DEF ThreadsInv, LoadTypes
<1>2. ASSUME NEW c \in All, useInfiniteMessages(c) PROVE LoadTypes'
  <2> DEFINE t == thread[c]
             x == IF t.pages = <<>> THEN "first" ELSE "refetch"
             u == [t EXCEPT !.load = x]
  <2>1. thread' = [thread EXCEPT ![c] = u]
    BY <1>2 DEF useInfiniteMessages
  <2>2. LoadTypesOf(t.pages, x)
    BY LoadOf
  <2>. HIDE DEF x
  <2>3. u = [pages |-> t.pages, stale |-> t.stale, load |-> x, got |-> t.got, late |-> t.late]
    BY <1>1, ThreadExcept
  <2>. HIDE DEF u
  <2>4. LoadTypesOf(u.pages, u.load)
    BY <2>2, <2>3
  <2>. QED
    BY <2>1, <2>4, OneLoadTyped
<1>3. ASSUME NEW c \in All, getMessages(c) PROVE LoadTypes'
  <2>1. CASE PageRead(c, "live") \/ PageRead(c, "mock")
    BY <2>1, LoadTypesRead
  <2>2. CASE thread' = [thread EXCEPT ![c].load = None, ![c].got = <<>>,
                                      ![c].late = @ \ {"coming"}]
    <3> DEFINE t == thread[c]
               x == t.late \ {"coming"}
               u == LoadGotLate(t, None, <<>>, x)
    <3>1. thread' = [thread EXCEPT ![c] = [t EXCEPT !.load = None, !.got = <<>>, !.late = x]]
      BY <2>2 DEF ThreadsInv
    <3>2. thread' = [thread EXCEPT ![c] = u]
      BY <3>1, Zenon DEF LoadGotLate
    <3>3. u = ThreadWith(t.pages, t.stale, None, <<>>, x)
      BY <1>1, ThreadsExcept
    <3>. HIDE DEF u, x
    <3>4. LoadTypesOf(u.pages, u.load)
      BY <3>3, LoadOf DEF ThreadWith
    <3>. QED
      BY <3>2, <3>4, OneLoadTyped
  <2>. QED
    BY <1>3, <2>1, <2>2 DEF getMessages
<1>4. ASSUME NEW c \in All, FirstPageArrives(c) PROVE LoadTypes'
  <2> DEFINE t == thread[c]
             x == Landed(t)
             u == ThreadWith(t.got, FALSE, None, <<>>, x)
  <2>1. thread' = [thread EXCEPT ![c].pages = t.got, ![c].stale = FALSE,
                                 ![c].load = None, ![c].got = <<>>, ![c].late = x]
    BY <1>4 DEF FirstPageArrives
  <2>. HIDE DEF x
  <2>2. thread' = [thread EXCEPT ![c] =
          [t EXCEPT !.pages = t.got, !.stale = FALSE, !.load = None, !.got = <<>>, !.late = x]]
    BY <2>1 DEF ThreadsInv
  <2>3. [t EXCEPT !.pages = t.got, !.stale = FALSE, !.load = None, !.got = <<>>, !.late = x] = u
    <3>1. \A y : AllParts(t, t.got, y, None, <<>>, x) = ThreadWith(t.got, y, None, <<>>, x)
      BY <1>1, ThreadsExcept
    <3>. QED
      BY <3>1, Zenon DEF AllParts
  <2>4. LoadTypesOf(u.pages, u.load)
    BY LoadOf DEF ThreadWith
  <2>. HIDE DEF u
  <2>. QED
    BY <2>2, <2>3, <2>4, OneLoadTyped
<1>5. ASSUME fetchNextPage PROVE LoadTypes'
  <2> DEFINE c == activeId
             t == thread[c]
             x == IF t.stale THEN {"shown"} ELSE t.late
             u == LoadGotLate(t, "older", <<>>, x)
  <2>1. hasNextPage(t.pages, Limit)
        /\ thread' = [thread EXCEPT ![c].load = "older", ![c].got = <<>>, ![c].late = x]
    BY <1>5, Zenon DEF fetchNextPage
  <2>. HIDE DEF x, c
  <2>2. t.pages # <<>>
    BY <2>1 DEF hasNextPage
  <2>3. thread' = [thread EXCEPT ![c] = [t EXCEPT !.load = "older", !.got = <<>>, !.late = x]]
    BY <2>1 DEF ThreadsInv
  <2>4. thread' = [thread EXCEPT ![c] = u]
    BY <2>3, Zenon DEF LoadGotLate
  <2>5. ASSUME c \in All PROVE u = ThreadWith(t.pages, t.stale, "older", <<>>, x)
    BY <1>1, <2>5, ThreadsExcept
  <2>. HIDE DEF u
  <2>6. ASSUME c \in All PROVE LoadTypesOf(u.pages, u.load)
    BY <2>2, <2>5, <2>6, LoadOf DEF ThreadWith
  <2>. QED
    BY <2>4, <2>6, OneLoadTyped
<1>6. ASSUME NEW b, useConversations(b) \/ getConversations(b) \/ ListArrives(b)
      PROVE  LoadTypes'
  BY <1>6 DEF useConversations, getConversations, ListArrives, LoadTypes
<1>. QED
  BY <1>2, <1>3, <1>4, <1>5, <1>6 DEF Loading

LEMMA LoadTypesInvalidated ==
  ASSUME ThreadsInv, LoadTypes, thread' = invalidateMessages PROVE LoadTypes'
<1>1. ASSUME NEW c \in All PROVE LoadTypesOf(thread'[c].pages, thread'[c].load)
  <2> DEFINE t == thread[c]
             x == t.late \cup IF t.load = "older" THEN {"shown"}
                              ELSE IF t.got # <<>> THEN {"coming"} ELSE {}
  <2>1. ThreadIs(t, store["live"].count[c], own.last[c]) /\ LoadTypesOf(t.pages, t.load)
    BY DEF ThreadsInv, LoadTypes
  <2>2. thread'[c] = IF c = activeId /\ t.pages # <<>>
                     THEN StaleGotLoad(t, TRUE, <<>>, "refetch") ELSE StaleLate(t, TRUE, x)
    BY Zenon DEF invalidateMessages, StaleGotLoad, StaleLate
  <2>. HIDE DEF x
  <2>3. \A v : /\ StaleGotLoad(t, v, <<>>, "refetch") =
                    ThreadWith(t.pages, v, "refetch", <<>>, t.late)
               /\ StaleLate(t, v, x) = ThreadWith(t.pages, v, t.load, t.got, x)
    BY <2>1, ThreadsExcept
  <2>4. t.pages # <<>> => LoadTypesOf(t.pages, "refetch")
    BY LoadOf
  <2>5. LoadTypesOf(thread'[c].pages, thread'[c].load)
    <3>1. CASE c = activeId /\ t.pages # <<>>
      <4>1. thread'[c] = ThreadWith(t.pages, TRUE, "refetch", <<>>, t.late)
        BY <2>2, <2>3, <3>1, Zenon
      <4>. QED
        BY <2>4, <3>1, <4>1, LoadOfParts, Zenon
    <3>2. CASE ~(c = activeId /\ t.pages # <<>>)
      <4>1. thread'[c] = ThreadWith(t.pages, TRUE, t.load, t.got, x)
        BY <2>2, <2>3, <3>2, Zenon
      <4>. QED
        BY <2>1, <4>1, LoadOfParts, Zenon
    <3>. QED
      BY <3>1, <3>2
  <2>. QED
    BY <2>5
<1>. QED
  BY <1>1 DEF LoadTypes

LEMMA LoadTypesStep ==
  ASSUME ThreadsInv, LoadTypes, [Next]_vars PROVE LoadTypes'
<1>. USE DEF boards, view, writing, history
<1>1. CASE UNCHANGED thread
  BY <1>1 DEF LoadTypes
<1>2. CASE Answered
  BY <1>1, <1>2, LoadTypesInvalidated DEF Answered, Succeeds
<1>3. CASE Loading
  BY <1>3, LoadTypesLoad
<1>4. CASE OpenPage \/ openConversation
  BY <1>1, <1>4 DEF OpenPage, openConversation, InboxUnmounted
<1>5. CASE Chatting /\ ~Answered
  BY <1>1, <1>5 DEF Chatting, handleSend, patch, moveTo, Elsewhere, Compose, onPickFiles,
     removeAttachment, Ask, Suggested, selectConversation, clearSelection, setStatusFilter,
     toggleFrom, clearFilters
<1>6. CASE EditCard \/ UNCHANGED inbox
  BY <1>1, <1>6 DEF EditCard, inbox
<1>. QED
  BY <1>2, <1>3, <1>4, <1>5, <1>6 DEF Next, OnPage, InboxNext, vars

-----------------------------------------------------------------------------
(* The types of what is written                                             *)

\* Texts and files are among those that came up, wherever they are.
FilesOf(m) == m.attachments \subseteq Typed

Recorded == gone \cup lost \cup since \cup offered \cup halfway

WritingTypes ==
    /\ \A m \in pending : IsPatch(m) /\ FilesOf(m)
    /\ FilesOf(composer) /\ Recorded \subseteq Typed

LEMMA TokensTyped ==
  ASSUME ComposerTypes, NEW m, m.draft \in 1 .. typed \cup {None}, FilesOf(m)
  PROVE  Tokens(m) \subseteq Typed
  BY NumbersOfTexts DEF Tokens, FilesOf

LEMMA FreshIsTyped ==
  ASSUME ComposerTypes, Fresh PROVE typed + 1 \in Typed
<1>1. typed \in Nat /\ MaxTyped \in Nat /\ typed < MaxTyped
  BY NumbersOfTexts DEF Fresh
<1>. QED
  BY <1>1 DEF Typed

\* A send or a patch more.
LEMMA OneMessageMore ==
  ASSUME WritingTypes, NEW m, IsPatch(m), FilesOf(m), pending' = pending \cup {m},
         UNCHANGED <<composer, gone, lost, since, offered, halfway>>
  PROVE  WritingTypes'
  BY DEF WritingTypes, Recorded, IsPatch, FilesOf

LEMMA AnsweredTyped ==
  ASSUME ComposerInv, WritingTypes, Answered PROVE WritingTypes'
<1>. DEFINE lesser == since' = since \/ since' = {}
            taken(m) == Tokens(m) \cup Tokens(composer)
<1>1. PICK m \in pending :
         /\ pending' = pending \ {m}
         /\ \/ composer' = [draft |-> None, attachments |-> {}]
               /\ \E where : /\ gone' = gone \cup HandedOver(m, where)
                             /\ lost' = lost \cup (Tokens(m) \ HandedOver(m, where))
                                             \cup (Tokens(composer) \cap since)
            \/ UNCHANGED <<composer, gone, lost>>
         /\ halfway' = halfway \/ halfway' = halfway \cup Tokens(m)
  <2>1. ASSUME NEW m, NEW where, Succeeds(m, where)
        PROVE  /\ \/ composer' = [draft |-> None, attachments |-> {}]
                     /\ gone' = gone \cup HandedOver(m, where)
                     /\ lost' = lost \cup (Tokens(m) \ HandedOver(m, where))
                                     \cup (Tokens(composer) \cap since)
                  \/ UNCHANGED <<composer, gone, lost>>
               /\ halfway' = halfway
    BY <2>1 DEF Succeeds, Cleared
  <2>. QED
    BY <2>1 DEF Answered
<1>2. UNCHANGED offered /\ lesser
  BY DEF Answered
<1>3. Tokens(m) \subseteq Typed /\ Tokens(composer) \subseteq Typed
  BY TokensTyped DEF ComposerInv, ComposerTypes, IsMessage, WritingTypes
<1>4. FilesOf(composer')
  BY <1>1 DEF WritingTypes, FilesOf
<1>5. gone' \cup lost' \subseteq gone \cup lost \cup taken(m)
  BY <1>1 DEF HandedOver, Tokens
<1>6. Recorded' \subseteq Typed
  BY <1>1, <1>2, <1>3, <1>5 DEF WritingTypes, Recorded
<1>. QED
  BY <1>1, <1>4, <1>6 DEF WritingTypes

\* The composer gets another text: what it had is recorded, or what comes up is.
LEMMA DraftTyped ==
  ASSUME ComposerInv, WritingTypes, NEW text, setDraft(text), UNCHANGED pending,
         NEW news, news \subseteq Typed,
         Recorded' \subseteq Recorded \cup ({composer.draft} \ {None}) \cup news
  PROVE  WritingTypes'
<1>1. composer = [draft |-> composer.draft, attachments |-> composer.attachments]
      /\ composer.draft \in Typed \cup {None}
  BY NumbersOfTexts DEF ComposerInv, ComposerTypes
<1>2. composer' = [draft |-> text, attachments |-> composer.attachments]
  BY <1>1 DEF setDraft
<1>3. FilesOf(composer') /\ Recorded' \subseteq Typed
  BY <1>1, <1>2 DEF WritingTypes, FilesOf
<1>. QED
  BY <1>3 DEF WritingTypes

LEMMA ComposeTyped ==
  ASSUME ComposerInv, WritingTypes, Compose \/ Suggested PROVE WritingTypes'
<1>. DEFINE new == IF Fresh THEN {typed + 1} ELSE {}
<1>1. new \subseteq Typed
  BY FreshIsTyped DEF ComposerInv
<1>2. CASE Compose
  <2>1. PICK text : setDraft(text)
    BY <1>2 DEF Compose
  <2>2. /\ UNCHANGED <<pending, lost, offered, halfway>>
        /\ gone' = gone \cup ({composer.draft} \ {None})
        /\ since' \subseteq since \cup new
    BY <1>2 DEF Compose, ComesUp
  <2>3. Recorded' \subseteq Recorded \cup ({composer.draft} \ {None}) \cup new
    BY <2>2 DEF Recorded
  <2>. QED
    BY <1>1, <2>1, <2>2, <2>3, DraftTyped
<1>3. CASE Suggested
  <2>1. /\ UNCHANGED <<pending, halfway>> /\ offered' \subseteq offered
        /\ gone' \subseteq gone \cup offered /\ lost' \subseteq lost \cup since
        /\ since' \subseteq since \cup new
    BY <1>3 DEF Suggested
  <2>2. Recorded' \subseteq Recorded \cup new
    BY <2>1 DEF Recorded
  <2>3. CASE \E text : setDraft(text)
    BY <1>1, <2>1, <2>2, <2>3, DraftTyped
  <2>4. CASE UNCHANGED composer
    BY <1>1, <2>1, <2>2, <2>4 DEF WritingTypes
  <2>. QED
    BY <1>3, <2>3, <2>4 DEF Suggested
<1>. QED
  BY <1>2, <1>3

LEMMA FilesTyped ==
  ASSUME ComposerInv, WritingTypes, onPickFiles \/ removeAttachment PROVE WritingTypes'
<1>1. composer = [draft |-> composer.draft, attachments |-> composer.attachments]
  BY DEF ComposerInv, ComposerTypes
<1>2. CASE onPickFiles
  <2>1. Fresh /\ composer' = [composer EXCEPT !.attachments = @ \cup {typed + 1}]
    BY <1>2 DEF onPickFiles
  <2>2. typed + 1 \in Typed
    BY <2>1, FreshIsTyped DEF ComposerInv
  <2>3. composer' = [draft |-> composer.draft, attachments |-> composer.attachments \cup {typed + 1}]
    BY <1>1, <2>1
  <2>4. FilesOf(composer')
    BY <2>2, <2>3 DEF WritingTypes, FilesOf
  <2>5. /\ UNCHANGED <<pending, gone, lost, offered, halfway>>
        /\ since' \subseteq since \cup {typed + 1}
    BY <1>2 DEF onPickFiles, ComesUp
  <2>. QED
    BY <2>2, <2>4, <2>5 DEF WritingTypes, Recorded
<1>3. CASE removeAttachment
  <2>1. PICK file \in composer.attachments :
           /\ composer' = [composer EXCEPT !.attachments = @ \ {file}]
           /\ gone' = gone \cup {file}
    BY <1>3 DEF removeAttachment
  <2>2. composer' = [draft |-> composer.draft, attachments |-> composer.attachments \ {file}]
    BY <1>1, <2>1
  <2>3. FilesOf(composer') /\ file \in Typed
    BY <2>1, <2>2 DEF WritingTypes, FilesOf
  <2>4. UNCHANGED <<pending, lost, since, offered, halfway>>
    BY <1>3 DEF removeAttachment
  <2>. QED
    BY <2>1, <2>3, <2>4 DEF WritingTypes, Recorded
<1>. QED
  BY <1>2, <1>3

LEMMA UnmountTyped ==
  ASSUME ComposerInv, WritingTypes, NEW c, InboxUnmounted(c) PROVE WritingTypes'
<1>. DEFINE Left(m) == [m EXCEPT !.here = FALSE]
<1>1. /\ composer' = [draft |-> None, attachments |-> {}]
      /\ gone' = gone \cup Tokens(composer)
      /\ pending' = {Left(m) : m \in pending}
      /\ since' = {} /\ offered' = {} /\ UNCHANGED <<lost, halfway>>
  BY DEF InboxUnmounted
<1>2. ASSUME NEW m \in pending PROVE IsPatch(Left(m)) /\ FilesOf(Left(m))
  <2>1. IsMessage(m) /\ IsPatch(m) /\ FilesOf(m)
    BY DEF ComposerInv, ComposerTypes, WritingTypes
  <2>2. Left(m) = [kind |-> m.kind, conv |-> m.conv, draft |-> m.draft,
                   attachments |-> m.attachments, lead |-> m.lead, here |-> FALSE]
    <3>1. \A there : [m EXCEPT !.here = there] =
            [kind |-> m.kind, conv |-> m.conv, draft |-> m.draft,
             attachments |-> m.attachments, lead |-> m.lead, here |-> there]
      BY <2>1 DEF IsMessage
    <3>. QED
      BY ONLY <3>1, Zenon
  <2>. HIDE DEF Left
  <2>. QED
    BY <2>1, <2>2 DEF IsPatch, FilesOf
<1>. HIDE DEF Left
<1>3. Tokens(composer) \subseteq Typed
  BY TokensTyped DEF ComposerInv, ComposerTypes, WritingTypes
<1>4. FilesOf(composer')
  BY <1>1 DEF FilesOf
<1>5. Recorded' \subseteq Typed
  BY <1>1, <1>3 DEF WritingTypes, Recorded
<1>. QED
  BY <1>1, <1>2, <1>4, <1>5 DEF WritingTypes

LEMMA WritingTypesStep ==
  ASSUME ComposerInv, WritingTypes, [Next]_vars PROVE WritingTypes'
<1>. USE DEF boards, view, writing, history
<1>1. CASE UNCHANGED <<pending, composer, gone, lost, since, offered, halfway>>
  BY <1>1 DEF WritingTypes, Recorded
<1>2. CASE OpenPage
  BY <1>2, UnmountTyped DEF OpenPage
<1>3. CASE openConversation
  BY <1>3, UnmountTyped DEF openConversation
<1>4. CASE handleSend
  <2>1. IsPatch(Send(activeId, composer, TRUE)) /\ FilesOf(Send(activeId, composer, TRUE))
    BY DEF Send, IsPatch, FilesOf, WritingTypes
  <2>. QED
    BY <1>4, <2>1, OneMessageMore DEF handleSend
<1>5. ASSUME NEW c, NEW lead \in Leads PROVE IsPatch(Patch(c, lead)) /\ FilesOf(Patch(c, lead))
  BY DEF Patch, IsPatch, FilesOf
<1>6. CASE patch
  BY <1>5, <1>6, OneMessageMore DEF patch
<1>7. CASE moveTo
  BY <1>5, <1>7, OneMessageMore DEF moveTo
<1>8. CASE Answered
  BY <1>8, AnsweredTyped
<1>9. CASE Compose \/ Suggested
  BY <1>9, ComposeTyped
<1>10. CASE onPickFiles \/ removeAttachment
  BY <1>10, FilesTyped
<1>11. CASE Loading
  BY <1>1, <1>11, LoadingReads
<1>12. CASE \/ Elsewhere \/ selectConversation \/ clearSelection
            \/ setStatusFilter \/ toggleFrom \/ clearFilters
  BY <1>1, <1>12
     DEF Elsewhere, selectConversation, clearSelection, setStatusFilter, toggleFrom, clearFilters
<1>13. CASE EditCard \/ UNCHANGED inbox
  BY <1>1, <1>13 DEF EditCard, inbox
<1>14. CASE Ask
  <2>1. /\ UNCHANGED <<pending, composer, gone, lost, since, halfway>>
        /\ offered' = offered \cup ({composer.draft} \ {None})
    BY <1>14 DEF Ask
  <2>2. composer.draft \in Typed \cup {None}
    BY NumbersOfTexts DEF ComposerInv, ComposerTypes
  <2>. QED
    BY <2>1, <2>2 DEF WritingTypes, Recorded
<1>. QED
  BY <1>2, <1>3, <1>4, <1>6, <1>7, <1>8, <1>9, <1>10, <1>11, <1>12, <1>13, <1>14
     DEF Next, OnPage, InboxNext, Chatting, vars

-----------------------------------------------------------------------------
(* What is selected, and the bounds                                         *)

ViewTypes ==
    /\ selectedId \in All \cup {None} /\ leadFilter \subseteq Leads /\ filtered \in BOOLEAN
    /\ cards \subseteq {"student", "objective"} /\ asking \subseteq {"suggest", "improve"}

LEMMA ListedIsKnown ==
  ASSUME ListTypes, NEW b \in ListKeys, list[b].shown # None
  PROVE  DOMAIN list[b].shown.lead \subseteq All
  BY DEF ListTypes, ListTypesOf, SnapshotTypes, Known, All

LEMMA ViewTypesStep ==
  ASSUME ListTypes, ViewTypes, [Next]_vars PROVE ViewTypes'
<1>. USE DEF boards, view, writing, history
<1>1. \A c \in Visible : c \in All
  <2>1. "inbox" \in ListKeys /\ "filtered" \in ListKeys
    BY DEF ListKeys, Boards
  <2>. QED
    BY <2>1, ListedIsKnown DEF Visible
<1>2. CASE OpenPage
  <2>1. selectedId' = None /\ leadFilter' = {} /\ filtered' = FALSE /\ asking' = {} /\ CardsFollow
    BY <1>2 DEF OpenPage, InboxUnmounted
  <2>. QED
    BY <2>1 DEF CardsFollow, ViewTypes
<1>3. CASE openConversation
  <2>1. PICK c \in DOMAIN list["explorer"].shown.lead : InboxUnmounted(c)
    BY <1>3 DEF openConversation
  <2>2. c \in All
    BY <1>3, ListedIsKnown DEF openConversation, ListKeys, Boards
  <2>3. selectedId' = c /\ leadFilter' = {} /\ filtered' = FALSE /\ asking' = {} /\ CardsFollow
    BY <1>3, <2>1 DEF openConversation, InboxUnmounted
  <2>. QED
    BY <2>2, <2>3 DEF CardsFollow, ViewTypes
<1>4. CASE UNCHANGED inbox
  BY <1>4 DEF inbox, ViewTypes
<1>5. CASE EditCard
  <2>1. UNCHANGED <<selectedId, leadFilter, filtered, asking>>
    BY <1>5 DEF EditCard
  <2>2. cards' \subseteq {"student", "objective"}
    BY <1>5 DEF EditCard, ViewTypes
  <2>. QED
    BY <2>1, <2>2 DEF ViewTypes
<1>6. CASE (Loading \/ Chatting) /\ CardsFollow
  <2>1. cards' \subseteq {"student", "objective"}
    BY <1>6 DEF CardsFollow, ViewTypes
  <2>2. CASE UNCHANGED <<selectedId, leadFilter, filtered, asking>>
    BY <2>1, <2>2 DEF ViewTypes
  <2>3. CASE Loading
    BY <2>2, <2>3, LoadingReads
  <2>4. CASE Ask \/ Suggested
    <3>1. UNCHANGED <<selectedId, leadFilter, filtered>>
      BY <2>4 DEF Ask, Suggested
    <3>2. asking' \subseteq {"suggest", "improve"}
      BY <2>4 DEF Ask, Suggested, ViewTypes
    <3>. QED
      BY <2>1, <3>1, <3>2 DEF ViewTypes
  <2>5. CASE selectConversation \/ clearSelection
    <3>1. UNCHANGED <<leadFilter, filtered, asking>> /\ (selectedId' = None \/ selectedId' \in Visible)
      BY <2>5 DEF selectConversation, clearSelection
    <3>. QED
      BY <1>1, <2>1, <3>1 DEF ViewTypes
  <2>6. CASE setStatusFilter \/ toggleFrom \/ clearFilters
    <3>1. UNCHANGED <<selectedId, asking>>
      BY <2>6 DEF setStatusFilter, toggleFrom, clearFilters
    <3>2. leadFilter' \subseteq Leads /\ filtered' \in BOOLEAN
      BY <2>6 DEF setStatusFilter, toggleFrom, clearFilters, ViewTypes
    <3>. QED
      BY <2>1, <3>1, <3>2 DEF ViewTypes
  <2>7. CASE \/ handleSend \/ patch \/ moveTo \/ Answered \/ Elsewhere
             \/ Compose \/ onPickFiles \/ removeAttachment
    BY <2>2, <2>7 DEF handleSend, patch, moveTo, Answered, Elsewhere, Compose, onPickFiles,
       removeAttachment
  <2>. QED
    BY <1>6, <2>3, <2>4, <2>5, <2>6, <2>7 DEF Chatting
<1>. QED
  BY <1>2, <1>3, <1>4, <1>5, <1>6 DEF Next, OnPage, InboxNext, vars

\* What is counted stays within its bound.
CountTypes == events \in 0 .. MaxEvents /\ troubles \in 0 .. MaxTrouble

LEMMA CountTypesStep ==
  ASSUME CountTypes, [Next]_vars PROVE CountTypes'
<1>. USE DEF boards, view, writing, history
<1>1. Event \/ UNCHANGED events
  <2>1. CASE OpenPage \/ openConversation
    BY <2>1 DEF OpenPage, openConversation
  <2>2. CASE Loading
    <3>1. ASSUME NEW b, useConversations(b) \/ getConversations(b) \/ ListArrives(b)
          PROVE  Event \/ UNCHANGED events
      BY <3>1 DEF useConversations, getConversations, ListArrives
    <3>2. ASSUME NEW c, useInfiniteMessages(c) \/ getMessages(c) \/ FirstPageArrives(c)
          PROVE  Event \/ UNCHANGED events
      BY <3>2 DEF useInfiniteMessages, getMessages, FirstPageArrives
    <3>3. fetchNextPage => Event \/ UNCHANGED events
      BY DEF fetchNextPage
    <3>. QED
      BY <2>2, <3>1, <3>2, <3>3 DEF Loading
  <2>3. CASE Chatting
    BY <2>3 DEF Chatting, handleSend, patch, moveTo, Answered, Elsewhere, Compose, onPickFiles,
       removeAttachment, Ask, Suggested, selectConversation, clearSelection, setStatusFilter,
       toggleFrom, clearFilters
  <2>4. CASE EditCard \/ UNCHANGED inbox
    BY <2>4 DEF EditCard, inbox
  <2>. QED
    BY <2>1, <2>2, <2>3, <2>4 DEF Next, OnPage, InboxNext, vars
<1>2. Trouble \/ UNCHANGED troubles
  <2>1. CASE OpenPage \/ openConversation
    BY <2>1 DEF OpenPage, openConversation, InboxUnmounted
  <2>2. CASE Loading
    <3>1. ASSUME NEW b, useConversations(b) \/ getConversations(b) \/ ListArrives(b)
          PROVE  Trouble \/ UNCHANGED troubles
      BY <3>1 DEF useConversations, getConversations, ListArrives
    <3>2. ASSUME NEW c, useInfiniteMessages(c) \/ getMessages(c) \/ FirstPageArrives(c)
          PROVE  Trouble \/ UNCHANGED troubles
      BY <3>2 DEF useInfiniteMessages, getMessages, FirstPageArrives
    <3>3. fetchNextPage => Trouble \/ UNCHANGED troubles
      BY DEF fetchNextPage
    <3>. QED
      BY <2>2, <3>1, <3>2, <3>3 DEF Loading
  <2>3. CASE Chatting
    BY <2>3 DEF Chatting, handleSend, patch, moveTo, Answered, Elsewhere, Compose, onPickFiles,
       removeAttachment, Ask, Suggested, selectConversation, clearSelection, setStatusFilter,
       toggleFrom, clearFilters
  <2>4. CASE EditCard \/ UNCHANGED inbox
    BY <2>4 DEF EditCard, inbox
  <2>. QED
    BY <2>1, <2>2, <2>3, <2>4 DEF Next, OnPage, InboxNext, vars
<1>3. MaxEvents \in Nat /\ MaxTrouble \in Nat
  BY InboxAssumption DEF InboxAssumption
<1>4. events' \in 0 .. MaxEvents
  BY <1>1, <1>3 DEF Event, CountTypes
<1>5. troubles' \in 0 .. MaxTrouble
  BY <1>2, <1>3 DEF Trouble, CountTypes
<1>. QED
  BY <1>4, <1>5 DEF CountTypes

-----------------------------------------------------------------------------
(* The types of the CRM                                                     *)

\* The types, with what the inbox keeps them by.
InboxInv ==
    /\ ComposerInv /\ ListsInv /\ ThreadsInv
    /\ StoreTypes /\ ListTypes /\ LoadTypes /\ WritingTypes /\ ViewTypes /\ CountTypes

LEMMA InboxTyped == InboxInv => InboxTypeOK
<1>1. ASSUME InboxInv PROVE InboxTypeOK
  <2>1. ASSUME NEW s \in Sources
        PROVE  /\ store[s].lead \in [Known(s) -> Leads]
               /\ store[s].count \in [All -> Nat] /\ store[s].rev \in Nat
    BY <1>1 DEF InboxInv, StoreTypes, ThreadsInv, CountsInv
  <2>2. ASSUME NEW b \in ListKeys
        PROVE  /\ list[b].stale \in BOOLEAN
               /\ list[b].shown # None => list[b].shown.lead \in [Known(list[b].shown.from) -> Leads]
    BY <1>1 DEF InboxInv, ListTypes, ListTypesOf, SnapshotTypes
  <2>3. ASSUME NEW c \in All
        PROVE  /\ thread[c].load \in {None, "first", "refetch", "older"}
               /\ (thread[c].load = "first") <=> (thread[c].load # None /\ thread[c].pages = <<>>)
               /\ thread[c].load \in {None, "older"} => thread[c].got = <<>>
    BY <1>1 DEF InboxInv, LoadTypes, LoadTypesOf, ThreadsInv, ThreadIs
  <2>4. /\ composer.draft \in Typed \cup {None} /\ composer.attachments \subseteq Typed
        /\ typed \in 0 .. MaxTyped
        /\ \A S \in {gone, lost, since, offered, halfway} : S \subseteq Typed
        /\ posted \in [Typed -> Nat]
    BY <1>1, NumbersOfTexts
       DEF InboxInv, ComposerInv, ComposerTypes, WritingTypes, Recorded, FilesOf
  <2>. QED
    BY <1>1, <2>1, <2>2, <2>3, <2>4 DEF InboxInv, ViewTypes, CountTypes, InboxTypeOK
<1>. QED
  BY <1>1

LEMMA InboxStarts ==
  ASSUME InboxInit PROVE InboxInv
<1>1. ComposerInv /\ ListsInv /\ ThreadsInv
  BY ComposerInit, ListsInit, ThreadsInit
<1>2. FirstLead \in Leads /\ MaxEvents \in Nat /\ MaxTrouble \in Nat
  BY InboxAssumption DEF InboxAssumption
<1>3. StoreTypes
  <2>1. store = [s \in Sources |->
          [lead |-> [c \in Known(s) |-> FirstLead],
           count |-> [c \in All |-> IF c \in Known(s) THEN InitialCount ELSE 0], rev |-> 0]]
    BY DEF InboxInit
  <2>2. \A s \in Sources : store[s].lead = [c \in Known(s) |-> FirstLead] /\ store[s].rev = 0
    BY <2>1
  <2>3. \A s \in Sources : [c \in Known(s) |-> FirstLead] \in [Known(s) -> Leads]
    BY <1>2
  <2>4. ASSUME NEW s \in Sources
        PROVE  store[s].lead \in [Known(s) -> Leads] /\ store[s].rev \in Nat
    <3>1. store[s].lead \in [Known(s) -> Leads]
      BY <2>2, <2>3, Zenon
    <3>2. store[s].rev = 0
      BY <2>2, Zenon
    <3>. QED
      BY <3>1, <3>2
  <2>5. store = [s \in Sources |-> store[s]]
    BY <2>1
  <2>. QED
    BY <2>4, <2>5 DEF StoreTypes
<1>4. ListTypes
  BY DEF InboxInit, ListTypes, ListTypesOf
<1>5. LoadTypes
  <2>1. \A c \in All : thread[c].load = None
    BY DEF InboxInit
  <2>. QED
    BY <2>1, LoadOf DEF LoadTypes
<1>6. WritingTypes
  BY DEF InboxInit, WritingTypes, Recorded, FilesOf
<1>7. ViewTypes /\ CountTypes
  <2>1. filtered = FALSE /\ selectedId = None /\ leadFilter = {} /\ cards = {} /\ asking = {}
    BY DEF InboxInit
  <2>2. ViewTypes
    BY <2>1 DEF ViewTypes
  <2>. QED
    BY <1>2, <2>2 DEF InboxInit, CountTypes
<1>. QED
  BY <1>1, <1>3, <1>4, <1>5, <1>6, <1>7 DEF InboxInv

LEMMA InboxStep ==
  ASSUME InboxInv, [Next]_vars PROVE InboxInv'
<1>1. \A m \in pending : IsPatch(m)
  BY DEF InboxInv, WritingTypes
<1>. QED
  BY <1>1, ComposerStep, ListsStep, ThreadsStep, StoreTypesStep, ListTypesStep, LoadTypesStep,
     WritingTypesStep, ViewTypesStep, CountTypesStep
     DEF InboxInv

\* The types of the pages of the CRM, of what its API and the browser keep, and of
\* what is on its way: no id is in a list of flows, agents or assets twice, an asset
\* in the library has a title (save), and only a thread without pages is loaded for
\* the first time (useInfiniteMessages).
THEOREM WorkspaceTypeCorrect == Spec => []TypeOK
<1> DEFINE Inv == page \in Pages /\ FlowsInv /\ RosterInv /\ LibraryInv /\ InboxInv
<1>1. Init => Inv
  BY FlowsBegin, RosterStarts, LibraryStarts, InboxStarts
     DEF Init, AgentsInit, LibraryInit, RosterInv, LibraryInv
<1>2. Inv /\ [Next]_vars => Inv'
  <2>1. ASSUME page \in Pages, [Next]_vars PROVE page' \in Pages
    BY <2>1 DEF Next, OpenPage, openConversation, Pages, Boards, vars
  <2>. QED
    BY <2>1, FlowsStep, RosterStep, LibraryStep, InboxStep
<1>3. Inv => TypeOK
  BY FlowsTyped, AgentsTyped, LibraryTyped, InboxTyped DEF TypeOK
<1>. QED
  BY <1>1, <1>2, <1>3, PTL DEF Spec
===============================================================================
