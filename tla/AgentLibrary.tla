------------------------------ MODULE AgentLibrary ------------------------------
(***************************************************************************)
(* Two pages of the CRM that keep everything to themselves: the agents     *)
(* (crm/agents/page.tsx) and the reusable content (crm/library/page.tsx).  *)
(* What is typed into an agent is one flag, what is typed into an asset is *)
(* whether it has a title; ids, random in the code, are ever larger numbers.     *)
(***************************************************************************)
EXTENDS CrmPages, Naturals, FiniteSets, SequencesExt

CONSTANTS
    CRM_AGENTS,     \* how many agents the page starts with; the first is the default
    INITIAL_ASSETS, \* how many assets the library starts with
    MaxMade         \* bound: agents, or assets, ever made

\* The first of the agents the page starts with is the default, so there is one.
ASSUME LibraryAssumption ==
    MaxMade \in Nat /\ CRM_AGENTS \in 1 .. MaxMade /\ INITIAL_ASSETS \in 0 .. MaxMade

VARIABLES
    agents,
    selectedAgent,  \* selectedId
    assets,
    draft,          \* the asset in the editor, or None when it is closed
    deleteId        \* the asset in the confirmation, or None

roster == <<agents, selectedAgent>>
library == <<assets, draft, deleteId>>

Agent == [id : 1 .. MaxMade, isDefault : BOOLEAN, edited : BOOLEAN]
Asset == [id : 1 .. MaxMade, title : BOOLEAN]

NewAgent(id, isDefault) == [id |-> id, isDefault |-> isDefault, edited |-> FALSE]

RosterStarted ==
    [agents |-> [i \in 1 .. CRM_AGENTS |-> NewAgent(i, i = 1)],
     assets |-> [i \in 1 .. INITIAL_ASSETS |-> [id |-> i, title |-> TRUE]]]

AgentsTypeOK ==
    /\ agents \in Seq(Agent) /\ DistinctIds(agents)
    /\ selectedAgent \in 1 .. MaxMade

LibraryTypeOK ==
    /\ assets \in Seq(Asset) /\ DistinctIds(assets)
    /\ \A i \in DOMAIN assets : assets[i].title
    /\ draft \in Asset \cup {None} /\ deleteId \in 1 .. MaxMade \cup {None}

AgentsInit == agents = RosterStarted.agents /\ selectedAgent = 1
LibraryInit == assets = RosterStarted.assets /\ draft = None /\ deleteId = None

AgentsUnmounted == agents' = RosterStarted.agents /\ selectedAgent' = 1
LibraryUnmounted == assets' = RosterStarted.assets /\ draft' = None /\ deleteId' = None

\* uid is random: an id is taken never to come up again.
Unused(list) == {id \in 1 .. MaxMade : \A i \in DOMAIN list : list[i].id < id}

-----------------------------------------------------------------------------
(* Agents                                                                   *)

IsSelected(a) == a.id = selectedAgent

update(patch(_)) == agents' = [i \in DOMAIN agents |->
    IF IsSelected(agents[i]) THEN patch(agents[i]) ELSE agents[i]]

\* The fields, toggleTool and toggleIntent.
EditAgent == update(LAMBDA a : [a EXCEPT !.edited = TRUE]) /\ UNCHANGED selectedAgent

createAgent ==
    \E id \in Unused(agents) :
        /\ agents' = Append(agents, NewAgent(id, FALSE))
        /\ selectedAgent' = id

\* Mutant of Successors: the default agent leaves without a successor.
RestOf(rest, wasDefault) == rest

\* The first of the rest follows a default agent.
Successors(rest, wasDefault) ==
    [i \in DOMAIN rest |->
        IF i = 1 /\ wasDefault THEN [rest[i] EXCEPT !.isDefault = TRUE] ELSE rest[i]]

deleteAgent ==
    /\ Len(agents) > 1
    /\ LET rest == Without(agents, selectedAgent)
           wasDefault == \E a \in ToSet(agents) : IsSelected(a) /\ a.isDefault
       IN agents' = Successors(rest, wasDefault)
    /\ selectedAgent' = agents'[1].id

makeDefault ==
    /\ \E a \in ToSet(agents) : IsSelected(a) /\ ~a.isDefault
    /\ agents' = [i \in DOMAIN agents |->
                     [agents[i] EXCEPT !.isDefault = IsSelected(agents[i])]]
    /\ UNCHANGED selectedAgent

SelectAgent ==
    /\ \E a \in ToSet(agents) : selectedAgent' = a.id
    /\ UNCHANGED agents

AgentsNext == EditAgent \/ createAgent \/ deleteAgent \/ makeDefault \/ SelectAgent

-----------------------------------------------------------------------------
(* Assets                                                                   *)

\* The dialogs are modal.
Modeless == draft = None /\ deleteId = None

openCreate ==
    /\ Modeless /\ \E id \in Unused(assets) : draft' = [id |-> id, title |-> FALSE]
    /\ UNCHANGED <<assets, deleteId>>

openEdit ==
    /\ Modeless /\ \E a \in ToSet(assets) : draft' = a
    /\ UNCHANGED <<assets, deleteId>>

TypeTitle ==
    /\ draft # None /\ draft' = [draft EXCEPT !.title = ~@]
    /\ UNCHANGED <<assets, deleteId>>

\* The title is required; an asset that is there is replaced.
save ==
    /\ draft # None /\ draft.title
    /\ assets' = IF \E a \in ToSet(assets) : a.id = draft.id
                 THEN [i \in DOMAIN assets |-> IF assets[i].id = draft.id THEN draft ELSE assets[i]]
                 ELSE <<draft>> \o assets
    /\ draft' = None /\ UNCHANGED deleteId

CloseEditor == draft # None /\ draft' = None /\ UNCHANGED <<assets, deleteId>>

AskRemove ==
    /\ Modeless /\ \E a \in ToSet(assets) : deleteId' = a.id
    /\ UNCHANGED <<assets, draft>>

remove ==
    /\ deleteId # None
    /\ assets' = Without(assets, deleteId)
    /\ deleteId' = None /\ UNCHANGED draft

KeepAsset == deleteId # None /\ deleteId' = None /\ UNCHANGED <<assets, draft>>

LibraryNext ==
    openCreate \/ openEdit \/ TypeTitle \/ save \/ CloseEditor \/ AskRemove \/ remove
    \/ KeepAsset

-----------------------------------------------------------------------------
(* Properties                                                               *)

\* Whatever is created, deleted and made the default, one agent is the default
\* (deleteAgent): a conversation nobody assigned is answered by it.
OneDefaultAgent == Cardinality({i \in DOMAIN agents : agents[i].isDefault}) = 1
=============================================================================
