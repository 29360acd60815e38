----------------------------- MODULE DocumentPages -----------------------------
(***************************************************************************)
(* The two kinds of page that edit parts of one shared document: a catalog *)
(* with its items (CatalogDesk) and a schedule with its sessions           *)
(* (SessionDesk).  Their documents, query keys and forms are disjoint, so  *)
(* nothing one page does is seen by the other; an operator is followed on  *)
(* either page, not on both at once.                                       *)
(***************************************************************************)
EXTENDS CatalogDesk

CONSTANTS Sessions, Pupils, MaxInFlight       \* those of SessionDesk

ASSUME SessionAssumption ==
    None \notin Sessions \cup Pupils /\ MaxInFlight \in Nat \ {0}

VARIABLES version, sessions, listed, cachedTag, scheduleEtag, selectedSession,
          updates, deletion, undone, page

SessionPage == INSTANCE SessionDesk

catalogVars == vars
sessionVars == <<version, sessions, listed, cachedTag, scheduleEtag, selectedSession,
                 updates, deletion, undone>>

PagesInit ==
    /\ page \in {"catalog", "schedule detail"}
    /\ Init
    /\ SessionPage!Init

PagesNext ==
    \/ page = "catalog" /\ Next /\ UNCHANGED <<page, sessionVars>>
    \/ page = "schedule detail" /\ SessionPage!Next /\ UNCHANGED <<page, catalogVars>>

PagesSpec == PagesInit /\ [][PagesNext]_<<catalogVars, sessionVars, page>>

-----------------------------------------------------------------------------
(* Properties of the pages, under one name each                             *)

\* The types of both pages.
PagesTypeOK == TypeOK /\ SessionPage!TypeOK

\* On the detail page a mark that an edit of another pupil undoes is always the
\* price of a panel older than the tag sent with it (handleAttendance).
CurrentPanelsKeepMarks == SessionPage!CurrentPanelsKeepMarks
=============================================================================
