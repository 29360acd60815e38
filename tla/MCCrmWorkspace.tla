----------------------------- MODULE MCCrmWorkspace -----------------------------
EXTENDS CrmWorkspace

\* One flow with a plain step and a condition; in one branch of it is a condition
\* with a step in a branch of its own.
MCInitialFlows == <<[id |-> 1, edited |-> FALSE, lists |->
    (None :> <<Step(1, FALSE), Step(2, TRUE)>>) @@
    (<<2, "yes">> :> <<Step(3, TRUE)>>) @@ (<<2, "no">> :> <<>>) @@
    (<<3, "yes">> :> <<>>) @@ (<<3, "no">> :> <<Step(4, FALSE)>>)]>>
=============================================================================
