------------------------------- MODULE FlowEditor -------------------------------
(***************************************************************************)
(* The editor of automation flows of the CRM (crm/flows/page.tsx).  All of *)
(* its state is in the page.  A StepList gets its steps from its parent    *)
(* and hands a new list to onChange: the list of a flow, or one branch of  *)
(* a condition, which the card of the condition puts back in its place.    *)
(*                                                                         *)
(* Steps and flows are numbered in the order they are made (uid is never   *)
(* repeated).  Branches are lists like that of the flow, conditions in     *)
(* branches have branches of their own, and so on: a flow is kept as all   *)
(* of its lists, each by the step and the branch it is in, as onChange     *)
(* finds them.  What is typed into a step or a flow is one flag.           *)
(***************************************************************************)
EXTENDS CrmPages, Naturals, FiniteSets, SequencesExt

CONSTANTS
    INITIAL_FLOWS,
    MaxFlows,       \* bound: flows ever made
    MaxSteps        \* bound: steps ever made

VARIABLES
    flows,
    selectedFlow,   \* selectedId
    expandedStep,
    made            \* how many flows and steps were ever made

editor == <<flows, selectedFlow, expandedStep, made>>

StepIds == 1 .. MaxSteps
FlowIds == 1 .. MaxFlows
Branches == {"yes", "no"}

Step(id, condition) == [id |-> id, edited |-> FALSE, condition |-> condition]
Steps == [id : StepIds, edited : BOOLEAN, condition : BOOLEAN]

StepIn(steps, id) == CHOOSE step \in ToSet(steps) : step.id = id
IndexOf(steps, id) == CHOOSE i \in DOMAIN steps : steps[i].id = id
IdsOf(steps) == {step.id : step \in ToSet(steps)}
AllIds(lists) == UNION {IdsOf(lists[at]) : at \in DOMAIN lists}

\* branches: a condition has two lists, whatever list it is in itself.
BranchesOf(steps) == {step.id : step \in {s \in steps : s.condition}} \X Branches

\* The lists of a flow: its own (None), and those of its conditions.
PlacesIn(lists) == {None} \cup UNION {BranchesOf(ToSet(lists[at])) : at \in DOMAIN lists}

\* A step with all the steps in its branches, and in theirs: the least set of steps
\* that holds it, and with each step what is in its branches.
Under(lists, id) ==
    {s \in AllIds(lists) : \A ids \in SUBSET AllIds(lists) :
        /\ id \in ids
        /\ \A at \in DOMAIN lists \ {None} : at[1] \in ids => IdsOf(lists[at]) \subseteq ids
        => s \in ids}

selected ==
    IF \E f \in ToSet(flows) : f.id = selectedFlow
    THEN CHOOSE f \in ToSet(flows) : f.id = selectedFlow ELSE flows[1]

\* No step is in two places of a flow.
StepsApart(lists) ==
    \A at, other \in DOMAIN lists :
        \A i \in DOMAIN lists[at], j \in DOMAIN lists[other] :
            lists[at][i].id = lists[other][j].id => at = other /\ i = j

\* A branch is of a condition of the flow, which was made before the steps in it.
IsFlow(lists) ==
    /\ lists \in [PlacesIn(lists) -> Seq(Steps)] /\ StepsApart(lists)
    /\ \A at \in DOMAIN lists \ {None} : \A id \in IdsOf(lists[at]) : at[1] < id

AreFlows(fs) ==
    /\ fs \in Seq([id : FlowIds, edited : BOOLEAN, lists : {f.lists : f \in ToSet(fs)}])
    /\ DistinctIds(fs) /\ \A i \in DOMAIN fs : IsFlow(fs[i].lists)

FlowsTypeOK ==
    /\ AreFlows(flows)
    /\ selectedFlow \in FlowIds /\ expandedStep \in StepIds \cup {None}
    /\ flows = <<>> \/ \E f \in ToSet(flows) : f.id = selectedFlow
    /\ made \in [flows : FlowIds, steps : StepIds]

FlowsStarted ==
    [flows |-> INITIAL_FLOWS, selected |-> INITIAL_FLOWS[1].id, expanded |-> None,
     made |-> [flows |-> Len(INITIAL_FLOWS),
               steps |-> Cardinality(UNION {AllIds(f.lists) : f \in ToSet(INITIAL_FLOWS)})]]

\* The flows the page starts with, at least one, and their steps are numbered from 1.
ASSUME FlowsAssumption ==
    /\ MaxFlows \in Nat /\ MaxSteps \in Nat /\ None \notin StepIds \X Branches
    /\ AreFlows(INITIAL_FLOWS) /\ INITIAL_FLOWS # <<>>
    /\ FlowsStarted.made \in [flows : FlowIds, steps : StepIds]
    /\ \A i \in DOMAIN INITIAL_FLOWS :
         /\ INITIAL_FLOWS[i].id = i
         /\ AllIds(INITIAL_FLOWS[i].lists) \subseteq 1 .. FlowsStarted.made.steps

FlowsInit ==
    /\ flows = FlowsStarted.flows /\ selectedFlow = FlowsStarted.selected
    /\ expandedStep = FlowsStarted.expanded /\ made = FlowsStarted.made

\* Another page of the application is opened: the edits are gone.
FlowsUnmounted ==
    /\ flows' = FlowsStarted.flows /\ selectedFlow' = FlowsStarted.selected
    /\ expandedStep' = FlowsStarted.expanded /\ made' = FlowsStarted.made

-----------------------------------------------------------------------------
(* Flows                                                                    *)

\* The templates have one or two steps.
flowFromTemplate(steps) ==
    [id |-> made.flows + 1, edited |-> FALSE,
     lists |-> [at \in {None} |-> [i \in 1 .. steps |-> Step(made.steps + i, FALSE)]]]

\* The step that was expanded in another flow stays the expanded one.
createFlow ==
    \E steps \in {1, 2} :
        /\ made.flows < MaxFlows /\ made.steps + steps <= MaxSteps
        /\ flows' = <<flowFromTemplate(steps)>> \o flows
        /\ selectedFlow' = made.flows + 1
        /\ made' = [flows |-> made.flows + 1, steps |-> made.steps + steps]
        /\ UNCHANGED expandedStep

\* Mutant of deleteFlow: the selection is left on the flow that is gone.
DeleteFlowKeepsSelection ==
    /\ flows # <<>>
    /\ LET gone == selected.id IN
       flows' = Without(flows, gone)
    /\ UNCHANGED <<selectedFlow, expandedStep, made>>

deleteFlow ==
    /\ flows # <<>>
    /\ LET gone == selected.id IN
       /\ flows' = Without(flows, gone)
       /\ selectedFlow' = IF gone = selectedFlow /\ flows' # <<>> THEN flows'[1].id
                          ELSE selectedFlow
    /\ UNCHANGED <<expandedStep, made>>

selectFlow ==
    /\ \E f \in ToSet(flows) : selectedFlow' = f.id
    /\ expandedStep' = None
    /\ UNCHANGED <<flows, made>>

updateFlow(patched) ==
    flows' = [i \in DOMAIN flows |->
                 IF flows[i].id = selected.id THEN patched ELSE flows[i]]

\* The name, the switch and the trigger card.
EditFlow ==
    /\ flows # <<>> /\ updateFlow([selected EXCEPT !.edited = TRUE])
    /\ UNCHANGED <<selectedFlow, expandedStep, made>>

-----------------------------------------------------------------------------
(* The steps of the selected flow                                           *)

patchStep(steps, id, next) ==
    [i \in DOMAIN steps |-> IF steps[i].id = id THEN next ELSE steps[i]]

\* The steps that are left out of a list take along what is in their branches.
Dropped(lists, at, steps) ==
    UNION {Under(lists, id) : id \in IdsOf(lists[at]) \ IdsOf(steps)}

\* A list is put back in its place.  The card of a condition puts back both of its
\* branches, the other one as it is, and the lists above and beside are put back as
\* they are; a condition that comes in has two empty branches.
PutBack(lists, at, steps) ==
    LET left == {p \in DOMAIN lists : p = None \/ p[1] \notin Dropped(lists, at, steps)}
        come == BranchesOf({s \in ToSet(steps) : s.id \notin IdsOf(lists[at])})
    IN [p \in left \cup come |->
           IF p = at THEN steps ELSE IF p \in left THEN lists[p] ELSE <<>>]

onChange(at, steps) ==
    updateFlow([selected EXCEPT !.lists = PutBack(selected.lists, at, steps)])

add(at) ==
    /\ made.steps < MaxSteps
    /\ \E condition \in BOOLEAN :
         onChange(at, Append(selected.lists[at], Step(made.steps + 1, condition)))
    /\ expandedStep' = made.steps + 1
    /\ made' = [made EXCEPT !.steps = @ + 1]
    /\ UNCHANGED selectedFlow

\* Only the expanded card has an editor and buttons.
removeStep(at) ==
    /\ expandedStep \in IdsOf(selected.lists[at])
    /\ onChange(at, Without(selected.lists[at], expandedStep))
    /\ expandedStep' = None
    /\ UNCHANGED <<selectedFlow, made>>

move(at, dir) ==
    LET steps == selected.lists[at] IN
    /\ expandedStep \in IdsOf(steps)
    /\ LET index == IndexOf(steps, expandedStep)
           target == IF dir = "up" THEN index - 1 ELSE index + 1
       IN /\ target \in DOMAIN steps
          /\ onChange(at, [steps EXCEPT ![index] = steps[target], ![target] = steps[index]])
    /\ UNCHANGED <<selectedFlow, expandedStep, made>>

\* Mutant of Reordered: the card that is dropped takes the place of the other one.
ReorderedOver(steps, from, to) ==
    LET rest == RemoveAt(steps, IndexOf(steps, from))
        place == IndexOf(steps, to)
    IN IF place \in DOMAIN rest THEN [rest EXCEPT ![place] = StepIn(steps, from)]
       ELSE Append(rest, StepIn(steps, from))

Reordered(steps, from, to) ==
    InsertAt(RemoveAt(steps, IndexOf(steps, from)), IndexOf(steps, to), StepIn(steps, from))

\* A card is dropped on another one; one from another list has no place here.
reorder(at) ==
    LET steps == selected.lists[at] IN
    /\ \E from \in AllIds(selected.lists), to \in IdsOf(steps) :
         from # to /\ from \in IdsOf(steps) /\ onChange(at, Reordered(steps, from, to))
    /\ UNCHANGED <<selectedFlow, expandedStep, made>>

StepEditor(at) ==
    LET steps == selected.lists[at] IN
    /\ expandedStep \in IdsOf(steps)
    /\ onChange(at, patchStep(steps, expandedStep,
                              [StepIn(steps, expandedStep) EXCEPT !.edited = TRUE]))
    /\ UNCHANGED <<selectedFlow, expandedStep, made>>

onToggle(at) ==
    /\ \E id \in IdsOf(selected.lists[at]) :
         expandedStep' = IF expandedStep = id THEN None ELSE id
    /\ UNCHANGED <<flows, selectedFlow, made>>

\* Only the lists that are there are shown, a StepList for each.
StepList ==
    /\ flows # <<>>
    /\ \E at \in DOMAIN selected.lists :
         \/ add(at) \/ removeStep(at) \/ move(at, "up") \/ move(at, "down")
         \/ reorder(at) \/ StepEditor(at) \/ onToggle(at)

FlowsNext == createFlow \/ deleteFlow \/ selectFlow \/ EditFlow \/ StepList

-----------------------------------------------------------------------------
(* Properties                                                               *)

\* after is steps with one step taken out and put somewhere else.
OneMoved(steps, after) ==
    \E i \in DOMAIN steps, j \in DOMAIN after :
        steps[i] = after[j] /\ RemoveAt(steps, i) = RemoveAt(after, j)

OneEdited(steps, after) == \E i \in DOMAIN steps : after = [steps EXCEPT ![i].edited = TRUE]

\* One list is edited, and the others are as they were: a step is moved or typed
\* into, or a new one comes in at the end, or one goes with all that is in its
\* branches, and nothing else.
OneListEdited(lists, after) ==
    \E at \in DOMAIN lists \cap DOMAIN after :
        LET was == lists[at]
            now == after[at]
            RestIs(rest) == after = [rest EXCEPT ![at] = now]
        IN \/ (OneMoved(was, now) \/ OneEdited(was, now)) /\ RestIs(lists)
           \/ \E s \in ToSet(now) :
                /\ now = Append(was, s) /\ s.id \notin AllIds(lists)
                /\ RestIs([p \in DOMAIN lists \cup BranchesOf({s}) |->
                              IF p \in DOMAIN lists THEN lists[p] ELSE <<>>])
           \/ \E i \in DOMAIN was :
                /\ now = RemoveAt(was, i)
                /\ RestIs([p \in {q \in DOMAIN lists :
                                     q = None \/ q[1] \notin Under(lists, was[i].id)} |-> lists[p]])

\* Something is typed into the flow itself, or one list of it is edited.
EditIsLocal(f, after) ==
    \/ after = [f EXCEPT !.edited = TRUE]
    \/ after = [f EXCEPT !.lists = after.lists] /\ OneListEdited(f.lists, after.lists)

\* The other flows stay as they are and where they are: a new one comes first, the
\* selected one goes, or it is edited.
EditsKeepTheRest ==
    \/ UNCHANGED flows
    \/ flows' # <<>> /\ Tail(flows') = flows
    \/ \E i \in DOMAIN flows :
         /\ flows[i].id = selectedFlow
         /\ \/ flows' = RemoveAt(flows, i)
            \/ /\ DOMAIN flows' = DOMAIN flows
               /\ flows' = [flows EXCEPT ![i] = flows'[i]] /\ EditIsLocal(flows[i], flows'[i])
=============================================================================
