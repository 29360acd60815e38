------------------------------ MODULE CrmWorkspace ------------------------------
(***************************************************************************)
(* The CRM of one browser: inbox, pipeline, flows, agents and library.  A  *)
(* page is mounted when it is opened and forgets its state when another    *)
(* one is; only what the query client caches and what the API keeps stay,  *)
(* and the requests in flight go on.                                       *)
(***************************************************************************)
EXTENDS FlowEditor, AgentLibrary, CrmInbox

vars == <<page, editor, roster, library, inbox>>
local == <<editor, roster, library>>

TypeOK == page \in Pages /\ FlowsTypeOK /\ AgentsTypeOK /\ LibraryTypeOK /\ InboxTypeOK

Init == page \in Pages /\ FlowsInit /\ AgentsInit /\ LibraryInit /\ InboxInit

\* Bound: the pages that keep everything to themselves are opened only while the
\* boards are as they were at the start, which they neither read nor change.
OpenPage ==
    /\ \E p \in Pages \ {page} :
         /\ p \notin Boards => InboxInit
         /\ IF {page, p} = Boards THEN Event ELSE UNCHANGED events
         /\ page' = p
    /\ FlowsUnmounted /\ AgentsUnmounted /\ LibraryUnmounted
    /\ InboxUnmounted(None) /\ CardsFollow

\* A card of the pipeline opens its conversation in the inbox.
openConversation ==
    /\ page = "explorer" /\ list["explorer"].shown # None /\ page' = "inbox" /\ Event
    /\ \E c \in DOMAIN list["explorer"].shown.lead : InboxUnmounted(c)
    /\ CardsFollow
    /\ UNCHANGED local

OnPage ==
    \/ page \in Boards /\ InboxNext /\ UNCHANGED local
    \/ page = "flows" /\ FlowsNext /\ UNCHANGED <<roster, library, inbox>>
    \/ page = "agents" /\ AgentsNext /\ UNCHANGED <<editor, library, inbox>>
    \/ page = "library" /\ LibraryNext /\ UNCHANGED <<editor, roster, inbox>>

Next == OpenPage \/ openConversation \/ (UNCHANGED page /\ OnPage)

Spec == Init /\ [][Next]_vars

\* While the flows are open, an edit of a flow is typed into the flow itself, or is
\* one edit of one of its lists, however deep: a step is typed into or moved, a new
\* one comes in at the end, or one goes with all that is in its branches.  The rest
\* of the flow, and the other flows when one is edited, made or deleted, stay as
\* they are and where they are (the callbacks from StepCard up to updateFlow).
FlowEditsAreLocal == [][page' = page => EditsKeepTheRest]_vars
=============================================================================
