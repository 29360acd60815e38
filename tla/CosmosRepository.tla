--------------------------- MODULE CosmosRepository ---------------------------
(***************************************************************************)
(* One partition of a Cosmos container behind CosmosRepository<T>.         *)
(*                                                                         *)
(* Every request of the API runs in a worker of its own and works on an    *)
(* entity in memory: a point read fills it, the handler edits it, and a    *)
(* later replace stores it if the document still carries the entity's      *)
(* _etag.  Each call to Cosmos is one step; between two calls of a worker  *)
(* the others run.  ReindexAllAsync is the exception: it replaces the      *)
(* documents of a page it has read without any If-Match.                   *)
(*                                                                         *)
(* The business data of a document is the set of edits it has received, so *)
(* that a write that forgets somebody else's edit is visible.              *)
(***************************************************************************)
EXTENDS Documents

CONSTANTS
    Ids,        \* document ids (fresh GUIDs)
    Edits,      \* the changes a handler can make to an entity
    Workers,    \* requests in flight
    MaxEtag     \* bound: no request starts on a document of this version

ASSUME NoDocAssumption ==
    NoDoc \notin [active : BOOLEAN, etag : Nat, content : SUBSET Edits]

ASSUME MaxEtagAssumption == MaxEtag \in Nat

VARIABLES
    doc,        \* the stored document of every id
    pc,         \* where every worker is
    target,     \* the id the worker's entity was read from
    entity,     \* the worker's entity in memory
    readPage,   \* what a reindex has read and not yet replaced
    todo        \* ids the query of a reindex has still to return

repositoryVars == <<doc, pc, target, entity, readPage, todo>>

Doc == [active : BOOLEAN, etag : Nat, content : SUBSET Edits]

PC == {"idle", "update", "delete", "reindex"}

NoPage == [i \in {} |-> NoDoc]

\* Types; a worker that is about to replace a document holds an entity of it.
RepositoryTypeOK ==
    /\ doc \in [Ids -> Doc \cup {NoDoc}]
    /\ pc \in [Workers -> PC]
    /\ target \in [Workers -> Ids \cup {NoDoc}]
    /\ entity \in [Workers -> Doc \cup {NoDoc}]
    /\ DOMAIN readPage = Workers
    /\ \A w \in Workers :
         readPage[w] \in [DOMAIN readPage[w] -> Doc] /\ DOMAIN readPage[w] \subseteq Ids
    /\ todo \in [Workers -> SUBSET Ids]
    /\ \A w \in Workers :
         pc[w] \in {"update", "delete"} => target[w] \in Ids /\ entity[w] \in Doc

RepositoryInit ==
    /\ doc = [i \in Ids |-> NoDoc]
    /\ pc = [w \in Workers |-> "idle"]
    /\ target = [w \in Workers |-> NoDoc]
    /\ entity = [w \in Workers |-> NoDoc]
    /\ readPage = [w \in Workers |-> NoPage]
    /\ todo = [w \in Workers |-> {}]

-----------------------------------------------------------------------------
(* Helpers                                                                  *)

Existing == {i \in Ids : doc[i] # NoDoc}

\* Mutant of Load: the handler goes on when GetByIdAsync has returned null.
LoadWithoutNullCheck(w, i, next) ==
    /\ pc[w] = "idle"
    /\ doc[i] # NoDoc => doc[i].etag < MaxEtag
    /\ pc' = [pc EXCEPT ![w] = next]
    /\ target' = [target EXCEPT ![w] = i]
    /\ entity' = [entity EXCEPT ![w] = doc[i]]
    /\ UNCHANGED <<doc, readPage, todo>>

\* Mutant of Load: GetByIdAsync forgets that inactive documents are deleted.
LoadInactiveToo(w, i, next) ==
    /\ pc[w] = "idle"
    /\ doc[i] # NoDoc
    /\ doc[i].etag < MaxEtag
    /\ pc' = [pc EXCEPT ![w] = next]
    /\ target' = [target EXCEPT ![w] = i]
    /\ entity' = [entity EXCEPT ![w] = doc[i]]
    /\ UNCHANGED <<doc, readPage, todo>>

\* The worker loads the entity of id i and goes on to the write named next.
Load(w, i, next) ==
    /\ pc[w] = "idle"
    /\ doc[i] # NoDoc
    /\ doc[i].etag < MaxEtag
    /\ Readable(doc[i])                     \* otherwise 404, nothing changes
    /\ pc' = [pc EXCEPT ![w] = next]
    /\ target' = [target EXCEPT ![w] = i]
    /\ entity' = [entity EXCEPT ![w] = doc[i]]
    /\ UNCHANGED <<doc, readPage, todo>>

\* The request is answered and its entity forgotten.
Reply(w) ==
    /\ pc' = [pc EXCEPT ![w] = "idle"]
    /\ target' = [target EXCEPT ![w] = NoDoc]
    /\ entity' = [entity EXCEPT ![w] = NoDoc]
    /\ UNCHANGED <<readPage, todo>>

\* Mutant of ReplaceIfMatch: the request options are not passed on.
ReplaceAlways(i, e) == doc' = [doc EXCEPT ![i] = Replaced(doc[i], e)]

\* ReplaceItem with If-Match: stores e over id i, or 412 and nothing changes.
ReplaceIfMatch(i, e) ==
    doc' = IF TagMatches(doc[i], e)
           THEN [doc EXCEPT ![i] = Replaced(doc[i], e)]
           ELSE doc

-----------------------------------------------------------------------------
(* CreateAsync                                                              *)

Create(w, i) ==
    /\ pc[w] = "idle"
    /\ doc[i] = NoDoc
    /\ \E c \in SUBSET Edits :
         doc' = [doc EXCEPT ![i] =
                   [active |-> TRUE, etag |-> FirstVersion, content |-> c]]
    /\ UNCHANGED <<pc, target, entity, readPage, todo>>

-----------------------------------------------------------------------------
(* GetByIdAsync, then UpdateAsync                                           *)

UpdateRead(w, i) == Load(w, i, "update")

\* The handler makes its edit in the entity, may take the request's Active and
\* If-Match into it (a tag of an earlier GET, so never a newer one), and writes.
UpdateReplace(w) ==
    /\ pc[w] = "update"
    /\ \E e \in Edits, active \in BOOLEAN, ifMatch \in 1 .. entity[w].etag :
         ReplaceIfMatch(target[w],
             [active  |-> active,
              etag    |-> ifMatch,
              content |-> entity[w].content \cup {e}])
    /\ Reply(w)

-----------------------------------------------------------------------------
(* SoftDeleteAsync: its own GetByIdAsync, then a conditional replace        *)

SoftDeleteRead(w, i) == Load(w, i, "delete")

SoftDeleteReplace(w) ==
    /\ pc[w] = "delete"
    /\ ReplaceIfMatch(target[w], Deactivated(entity[w]))
    /\ Reply(w)

-----------------------------------------------------------------------------
(* ReindexAllAsync: the query goes over all documents, inactive ones too,   *)
(* page by page; every document of a page is replaced without If-Match.     *)

ReindexReadPage(w) ==
    /\ \/ /\ pc[w] = "idle"
          /\ \A i \in Existing : doc[i].etag < MaxEtag
       \/ pc[w] = "reindex" /\ readPage[w] = NoPage
    /\ LET rest == IF pc[w] = "idle" THEN Existing ELSE todo[w]
       IN  \E S \in SUBSET rest \ {{}} :
             /\ readPage' = [readPage EXCEPT ![w] = [i \in S |-> doc[i]]]
             /\ todo' = [todo EXCEPT ![w] = rest \ S]
    /\ pc' = [pc EXCEPT ![w] = "reindex"]
    /\ UNCHANGED <<doc, target, entity>>

ReindexReplace(w) ==
    /\ pc[w] = "reindex"
    /\ \E i \in DOMAIN readPage[w] :
         LET rest == DOMAIN readPage[w] \ {i}
         IN  /\ doc' = [doc EXCEPT ![i] = Replaced(doc[i], readPage[w][i])]
             /\ readPage' = [readPage EXCEPT ![w] = [j \in rest |-> readPage[w][j]]]
             /\ pc' = [pc EXCEPT ![w] =
                         IF rest = {} /\ todo[w] = {} THEN "idle" ELSE "reindex"]
    /\ UNCHANGED <<target, entity, todo>>

-----------------------------------------------------------------------------

\* No request is in flight and none arrives any more.
Quiet == (\A w \in Workers : pc[w] = "idle") /\ UNCHANGED repositoryVars

HandlerNext ==
    \E w \in Workers :
      \/ \E i \in Ids : Create(w, i) \/ UpdateRead(w, i) \/ SoftDeleteRead(w, i)
      \/ UpdateReplace(w)
      \/ SoftDeleteReplace(w)

ReindexNext == \E w \in Workers : ReindexReadPage(w) \/ ReindexReplace(w)

RepositoryNext == HandlerNext \/ ReindexNext \/ Quiet

\* The requests of every day, and the same with POST /admin/reindex among them.
RepositorySpec == RepositoryInit /\ [][HandlerNext \/ Quiet]_repositoryVars

MaintenanceSpec == RepositoryInit /\ [][RepositoryNext]_repositoryVars

-----------------------------------------------------------------------------
(* Properties                                                               *)

\* The strengthening behind the promise: whenever a worker holds an entity,
\* its document still exists, is at least as new, and, while the tags are
\* equal, is exactly what the worker read.  The If-Match of UpdateAsync and
\* SoftDeleteAsync is sound because of this.
EntityIsSnapshot ==
    \A w \in Workers : pc[w] \in {"update", "delete"} =>
      /\ doc[target[w]] # NoDoc
      /\ entity[w].active
      /\ entity[w].etag <= doc[target[w]].etag
      /\ TagMatches(doc[target[w]], entity[w]) => doc[target[w]] = entity[w]

\* No interleaving of requests brings a soft-deleted document back or touches
\* it: a PUT that read the document before the DELETE fails on its If-Match.
DeletedStaysDeleted ==
    [][\A i \in Existing : ~ doc[i].active => doc'[i] = doc[i]]_repositoryVars

\* An edit that was stored is never lost, whoever writes next (UpdateAsync
\* replaces the whole document, so this hangs on the tag comparison).
NoLostEdit ==
    [][\A i \in Existing : doc[i].content \subseteq doc'[i].content]_repositoryVars

\* The documented promise of the reindex: it recomputes projections and leaves
\* the data and the audit fields of every document as they are.
ReindexPreservesDocuments ==
    [][(\E w \in Workers : ReindexReplace(w)) =>
         \A i \in Existing : /\ doc'[i].content = doc[i].content
                             /\ doc'[i].active = doc[i].active]_repositoryVars

\* The repository implements the atomic life of a document.
LifeOf(d) ==
    IF d = NoDoc THEN [stage |-> "absent", content |-> {}]
    ELSE [stage   |-> IF Readable(d) THEN "live" ELSE "deleted",
          content |-> d.content]

Lifecycle == INSTANCE DocumentLifecycle WITH life <- [i \in Ids |-> LifeOf(doc[i])]

ImplementsLifecycle == Lifecycle!Spec

=============================================================================
