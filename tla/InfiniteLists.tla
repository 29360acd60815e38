----------------------------- MODULE InfiniteLists -----------------------------
(***************************************************************************)
(* The accumulated pages of a list of the web application                  *)
(* (hooks/infinite-list.ts) over an API that pages by offset.  A page      *)
(* carries the total the server counted when it answered; fresh is         *)
(* history: whether the list has not changed on the server since.          *)
(***************************************************************************)
EXTENDS Naturals, Sequences, SequencesExt, FiniteSetsExt

\* What a GET with offset and limit answers.
PageOf(list, offset, limit) ==
    [items |-> SubSeq(list, offset + 1, Min({offset + limit, Len(list)})),
     total |-> Len(list)]

FreshPageOf(list, offset, limit) ==
    [items |-> PageOf(list, offset, limit).items, total |-> Len(list), fresh |-> TRUE]

flattenInfiniteItems(pages) == FlattenSeq([i \in DOMAIN pages |-> pages[i].items])

loadedCount(pages) == Len(flattenInfiniteItems(pages))

\* Mutant of hasNextPage: the last item is never asked for.
HasNextOffByOne(pages, limit) ==
    /\ pages # <<>>
    /\ loadedCount(pages) + 1 < Last(pages).total
    /\ Len(Last(pages).items) >= limit /\ Last(pages).items # <<>>

\* getNextOffset has an answer: the offset of the next page is loadedCount.
hasNextPage(pages, limit) ==
    /\ pages # <<>>
    /\ loadedCount(pages) < Last(pages).total
    /\ Len(Last(pages).items) >= limit /\ Last(pages).items # <<>>

keepFirstInfinitePage(pages) == SubSeq(pages, 1, Min({1, Len(pages)}))

\* A query with pages is loaded again page by page, as many as it had, each
\* offset computed from the pages of this round.
RefetchGoesOn(before, got, limit) ==
    Len(got) < Len(before) /\ hasNextPage(got, limit)

Outdated(pages) == [i \in DOMAIN pages |-> [pages[i] EXCEPT !.fresh = FALSE]]

\* Nothing of the list has changed on the server since the first page was read.
UpToDate(pages) == pages # <<>> /\ \A i \in DOMAIN pages : pages[i].fresh
=============================================================================
