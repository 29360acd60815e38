-------------------------- MODULE DocumentLifecycle --------------------------
(***************************************************************************)
(* What CosmosRepository promises to the handlers, as if every operation   *)
(* were atomic.  An id holds no document, then a live one, then a deleted  *)
(* one.  A live document collects the edits of its writers and loses none; *)
(* a deleted document is history and never changes again.                  *)
(***************************************************************************)
CONSTANTS
    Ids,        \* document ids
    Edits       \* the changes a writer can make to a document

VARIABLE life   \* the document under each id

Absent  == [stage |-> "absent",  content |-> {}]
Live(c) == [stage |-> "live",    content |-> c]
Gone(c) == [stage |-> "deleted", content |-> c]

TypeOK ==
    life \in [Ids -> {Absent}
                     \cup {Live(c) : c \in SUBSET Edits}
                     \cup {Gone(c) : c \in SUBSET Edits}]

Init == life = [i \in Ids |-> Absent]

\* A new document appears, with what its creator put in it.
Create(i) ==
    /\ life[i] = Absent
    /\ \E c \in SUBSET Edits : life' = [life EXCEPT ![i] = Live(c)]

\* A live document takes one more edit, or is marked deleted by the same write.
Edit(i) ==
    /\ life[i].stage = "live"
    /\ \E e \in Edits, stays \in BOOLEAN :
         LET c == life[i].content \cup {e}
         IN  life' = [life EXCEPT ![i] = IF stays THEN Live(c) ELSE Gone(c)]

\* A live document is deleted with all it has collected.
Delete(i) ==
    /\ life[i].stage = "live"
    /\ life' = [life EXCEPT ![i] = Gone(life[i].content)]

Next == \E i \in Ids : Create(i) \/ Edit(i) \/ Delete(i)

Spec == Init /\ [][Next]_life

=============================================================================
