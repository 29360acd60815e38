-------------------------------- MODULE CrmPages --------------------------------
(***************************************************************************)
(* The pages of the CRM: one of them is open.  The boards share the data   *)
(* of the API; the other pages keep everything to themselves.              *)
(***************************************************************************)
EXTENDS SequencesExt, Naturals

CONSTANT None

VARIABLE page

Boards == {"inbox", "explorer"}
Pages == Boards \cup {"flows", "agents", "library"}

\* No two of a list have the same id.
DistinctIds(list) == \A i, j \in DOMAIN list : list[i].id = list[j].id => i = j

\* The filter that takes one out of a list: an id is in a list at most once.
Without(list, id) ==
    IF \E i \in DOMAIN list : list[i].id = id
    THEN RemoveAt(list, CHOOSE i \in DOMAIN list : list[i].id = id) ELSE list
=============================================================================
