------------------------------ MODULE Documents ------------------------------
(***************************************************************************)
(* What every Cosmos document of the back office has in common: a soft-    *)
(* delete flag and an entity tag.  A document is a record with at least    *)
(*   active   BaseEntity.Active, FALSE once the document is soft-deleted   *)
(*   etag     the version Cosmos gives it; a replace gives the next one    *)
(* and NoDoc stands for an id that holds no document.  The constant-level  *)
(* operators below are the point read, the two writes and the soft delete  *)
(* of CosmosRepository, shared by the modules that model the handlers.     *)
(***************************************************************************)
EXTENDS Naturals

CONSTANT NoDoc

\* GetByIdAsync returns the entity: it exists and is not soft-deleted.
Readable(d) == d # NoDoc /\ d.active

\* CreateItem: the entity is stored as the first version of its id.
FirstVersion == 1

\* ReplaceItem: the entity is stored under the version after the current one.
Replaced(current, entity) == [entity EXCEPT !.etag = current.etag + 1]

\* The If-Match condition of ReplaceItem: the entity still carries the tag of
\* the stored document.
TagMatches(current, entity) == entity.etag = current.etag

\* What SoftDeleteAsync changes in the entity it has read.
Deactivated(entity) == [entity EXCEPT !.active = FALSE]

=============================================================================
