-------------------------- MODULE DocumentPagesProofs --------------------------
(***************************************************************************)
(* Theorems about documents with an _etag and the pages that edit parts of *)
(* them.                                                                   *)
(*                                                                         *)
(* CatalogDesk, for any number of desks, values, levels, writes and        *)
(* faults: replacing the whole list from a checked copy keeps values       *)
(* unique, a desk shows its own writes, and a PUT from a copy that is      *)
(* current changes one item.  SessionDesk, for any number of desks,        *)
(* sessions and pupils: a panel that is not outdated undoes no mark.  Then *)
(* both side by side: a behaviour of DocumentPages is one of either for    *)
(* that page's variables.                                                  *)
(*                                                                         *)
(* CosmosRepository, for any ids, edits and workers: the optimistic        *)
(* concurrency of UpdateAsync and SoftDeleteAsync is enough for deleted    *)
(* documents to stay deleted, for no edit to be lost, and for the          *)
(* repository to implement DocumentLifecycle.                              *)
(***************************************************************************)
EXTENDS DocumentPages, CosmosRepository, TLAPS

-----------------------------------------------------------------------------
(* The catalog                                                              *)

Distinct(set) == \A i, j \in set : i.value = j.value => i = j

\* A copy is a state of the catalog, the present one if its etag is.
CopyOf(c, set, tag) ==
    /\ c.items # {} /\ Distinct(c.items)
    /\ c.etag <= tag
    /\ c.etag = tag => c.items = set

\* The list of a PUT is that of its copy with one item changed.
MadeFrom(c, set) ==
    IF c.kind = "edit"
    THEN /\ c.items = {IF i.value = c.item THEN Renamed(i, c.value, c.hours) ELSE i : i \in set}
         /\ \A i \in set : i.value = c.value => c.value = c.item
    ELSE /\ \E a \in BOOLEAN :
              c.items = {IF i.value = c.item THEN Switched(i, a) ELSE i : i \in set}
         /\ c.value = c.item

CallInv(c) ==
    /\ c.hours \subseteq c.shown
    /\ c.kind = "add" => c.value = c.item
    /\ Replaces(c) =>
         /\ c.items # {} /\ Distinct(c.items)
         /\ c.at \in Etags /\ c.at <= etag
         /\ c.at = etag => MadeFrom(c, items)

\* What a desk shows, or is about to, is not older than its own last write, but for
\* a write that outran the first load.
OwnInv(d) ==
    /\ own[d] <= etag
    /\ fetching[d] = "read" /\ ~(late[d] /\ cached[d] = None) => answer[d].etag >= own[d]
    /\ cached[d] # None /\ fetching[d] = "no" /\ ~late[d] => cached[d].etag >= own[d]

DeskInv(d) ==
    /\ cached[d] # None => CopyOf(cached[d], items, etag)
    /\ answer[d] # None => CopyOf(answer[d], items, etag)
    /\ \A c \in calls[d] : CallInv(c)
    /\ editing[d] # None => cached[d] # None
    /\ fetching[d] = "read" => answer[d] # None
    /\ OwnInv(d)

Types ==
    /\ code \in {"courses", "other"}
    /\ items \subseteq CatalogItem /\ items # {} /\ etag \in Etags
    /\ cached \in [Desks -> Catalog \cup {None}]
    /\ answer \in [Desks -> Catalog \cup {None}]
    /\ calls \in [Desks -> SUBSET Call]
    /\ fetching \in [Desks -> {"no", "asked", "read"}]
    /\ levels \in [Desks -> BOOLEAN]
    /\ open \in [Desks -> BOOLEAN]
    /\ editing \in [Desks -> CatalogItem \cup {None}]
    /\ own \in [Desks -> Etags] /\ late \in [Desks -> BOOLEAN]
    /\ faults \in 0 .. MaxFaults

\* The inductive invariant.
IInv ==
    /\ Types
    /\ Distinct(items)
    /\ \A d \in Desks : DeskInv(d)

-----------------------------------------------------------------------------
(* Lists with one item changed.                                             *)

LEMMA ItemFields ==
  ASSUME NEW i \in CatalogItem, NEW a, NEW v, NEW h
  PROVE  /\ i = [value |-> i.value, active |-> i.active, hours |-> i.hours]
         /\ i.value \in Values /\ i.active \in BOOLEAN /\ i.hours \in SUBSET Levels
         /\ Switched(i, a).value = i.value /\ Switched(i, a).active = a
         /\ Switched(i, a).hours = i.hours
         /\ Renamed(i, v, h).value = v /\ Renamed(i, v, h).active = i.active
         /\ Renamed(i, v, h).hours = (IF code = "courses" THEN h ELSE i.hours)
         /\ a \in BOOLEAN => Switched(i, a) \in CatalogItem
         /\ v \in Values /\ h \in SUBSET Levels => Renamed(i, v, h) \in CatalogItem
BY DEF CatalogItem, Switched, Renamed

RenamedIn(set, w, v, h) ==
    {IF i.value = w THEN Renamed(i, v, h) ELSE i : i \in set}

LEMMA RenamedList ==
  ASSUME NEW set \in SUBSET CatalogItem, set # {}, Distinct(set),
         NEW w, NEW v \in Values, NEW h \in SUBSET Levels,
         \A i \in set : i.value = v => v = w
  PROVE  /\ RenamedIn(set, w, v, h) \subseteq CatalogItem
         /\ RenamedIn(set, w, v, h) # {}
         /\ Distinct(RenamedIn(set, w, v, h))
<1> DEFINE list == RenamedIn(set, w, v, h)
<1>0. list = {IF i.value = w THEN Renamed(i, v, h) ELSE i : i \in set}
  BY DEF RenamedIn
<1> HIDE DEF list
<1>1. \A i \in set : Renamed(i, v, h) \in CatalogItem /\ Renamed(i, v, h).value = v
  BY ItemFields
<1>2. list \subseteq CatalogItem /\ list # {}
  BY <1>0, <1>1
<1>3. ASSUME NEW x \in list, NEW y \in list, x.value = y.value
      PROVE  x = y
  <2>1. PICK i \in set : x = IF i.value = w THEN Renamed(i, v, h) ELSE i
    BY <1>0
  <2>2. PICK j \in set : y = IF j.value = w THEN Renamed(j, v, h) ELSE j
    BY <1>0
  <2>3. i = j
    BY <1>1, <1>3, <2>1, <2>2 DEF Distinct
  <2>. QED
    BY <2>1, <2>2, <2>3
<1>. QED
  BY <1>2, <1>3 DEF Distinct, list

LEMMA SwitchedList ==
  ASSUME NEW set \in SUBSET CatalogItem, set # {}, Distinct(set), NEW w, NEW a \in BOOLEAN,
         NEW list, list = {IF i.value = w THEN Switched(i, a) ELSE i : i \in set}
  PROVE  list \subseteq CatalogItem /\ list # {} /\ Distinct(list)
<1>1. \A i \in set : Switched(i, a) \in CatalogItem /\ Switched(i, a).value = i.value
  BY ItemFields
<1>2. list \subseteq CatalogItem /\ list # {}
  BY <1>1
<1>3. ASSUME NEW x \in list, NEW y \in list, x.value = y.value
      PROVE  x = y
  <2>1. PICK i \in set : x = IF i.value = w THEN Switched(i, a) ELSE i
    OBVIOUS
  <2>2. PICK j \in set : y = IF j.value = w THEN Switched(j, a) ELSE j
    OBVIOUS
  <2>3. i = j
    BY <1>1, <1>3, <2>1, <2>2 DEF Distinct
  <2>. QED
    BY <2>1, <2>2, <2>3
<1>. QED
  BY <1>2, <1>3 DEF Distinct

\* Such a list has the same other items, and the item the call is made for.
LEMMA OneItemChanged ==
  ASSUME Types, NEW c \in Call, c.hours \subseteq c.shown, Replaces(c),
         MadeFrom(c, items), items' = c.items
  PROVE  ChangesOneItem(c)
<1>1. CASE c.kind = "edit"
  <2>1. \A i \in items : /\ Renamed(i, c.value, c.hours).value = c.value
                         /\ Renamed(i, c.value, c.hours).active = i.active
                         /\ Renamed(i, c.value, c.hours).hours =
                              (IF code = "courses" THEN c.hours ELSE i.hours)
    BY ItemFields DEF Types
  <2>2. items' = {IF i.value = c.item THEN Renamed(i, c.value, c.hours) ELSE i : i \in items}
    BY <1>1 DEF MadeFrom
  <2>3. \A x : x \in Others(items', c) <=> x \in Others(items, c)
    BY <2>1, <2>2 DEF Others
  <2>4. ASSUME NEW i \in items, i.value = c.item
        PROVE  \E j \in items' :
                 /\ j.value = c.value
                 /\ c.kind = "edit" => j.active = i.active
                 /\ IF c.kind = "edit" /\ code = "courses"
                    THEN j.hours \cap c.shown = c.hours ELSE j.hours = i.hours
    <3>1. Renamed(i, c.value, c.hours) \in items'
      BY <2>2, <2>4
    <3>. QED
      BY <1>1, <2>1, <3>1
  <2>. QED
    BY <2>3, <2>4 DEF ChangesOneItem
<1>2. CASE c.kind # "edit"
  <2>1. PICK a \in BOOLEAN :
          items' = {IF i.value = c.item THEN Switched(i, a) ELSE i : i \in items}
    BY <1>2 DEF MadeFrom
  <2>2. \A i \in items : Switched(i, a).value = i.value /\ Switched(i, a).hours = i.hours
    BY ItemFields DEF Types
  <2>3. \A x : x \in Others(items', c) <=> x \in Others(items, c)
    BY <2>1, <2>2 DEF Others
  <2>4. ASSUME NEW i \in items, i.value = c.item
        PROVE  \E j \in items' :
                 /\ j.value = c.value
                 /\ c.kind = "edit" => j.active = i.active
                 /\ IF c.kind = "edit" /\ code = "courses"
                    THEN j.hours \cap c.shown = c.hours ELSE j.hours = i.hours
    <3>1. Switched(i, a) \in items' /\ c.value = c.item
      BY <1>2, <2>1, <2>4 DEF MadeFrom
    <3>. QED
      BY <1>2, <2>2, <2>4, <3>1
  <2>. QED
    BY <2>3, <2>4 DEF ChangesOneItem
<1>. QED
  BY <1>1, <1>2

-----------------------------------------------------------------------------
(* The initial states.                                                      *)

LEMMA InitInv == Init => IInv
<1> SUFFICES ASSUME Init PROVE IInv
  OBVIOUS
<1>1. items \subseteq CatalogItem /\ items # {} /\ Distinct(items)
  <2>1. CASE code = "courses"
    BY <2>1, CatalogAssumption DEF Init, CatalogItem, Distinct
  <2>2. CASE code # "courses"
    <3>1. items = {[value |-> i.value, active |-> i.active, hours |-> {}] : i \in InitialItems}
      BY <2>2 DEF Init, WithoutHours
    <3>2. \A i \in InitialItems : [value |-> i.value, active |-> i.active, hours |-> {}] \in CatalogItem
      BY CatalogAssumption DEF CatalogItem
    <3>3. items \subseteq CatalogItem /\ items # {}
      <4>1. ASSUME NEW x \in items
            PROVE  x \in CatalogItem
        BY <3>1, <3>2
      <4>2. PICK i : i \in InitialItems
        BY CatalogAssumption
      <4>3. [value |-> i.value, active |-> i.active, hours |-> {}] \in items
        BY <3>1, <4>2
      <4>. QED
        BY <4>1, <4>3
    <3>4. ASSUME NEW x \in items, NEW y \in items, x.value = y.value
          PROVE  x = y
      <4>1. PICK i \in InitialItems :
              x = [value |-> i.value, active |-> i.active, hours |-> {}]
        BY <3>1
      <4>2. PICK j \in InitialItems :
              y = [value |-> j.value, active |-> j.active, hours |-> {}]
        BY <3>1
      <4>3. i = j
        BY <3>4, <4>1, <4>2, CatalogAssumption
      <4>. QED
        BY <4>1, <4>2, <4>3
    <3>. QED
      BY <3>3, <3>4 DEF Distinct
  <2>. QED
    BY <2>1, <2>2
<1>2. etag = 0 /\ 0 \in Etags /\ 0 \in 0 .. MaxFaults
  BY CatalogAssumption DEF Init, Etags
<1>3. Types
  BY <1>1, <1>2 DEF Init, Types
<1>4. \A d \in Desks : DeskInv(d)
  BY <1>2 DEF Init, DeskInv, OwnInv
<1>. QED
  BY <1>1, <1>3, <1>4 DEF IInv

-----------------------------------------------------------------------------
(* Copies and calls only age.                                               *)

\* The server is left alone, or written once.
ServerAges ==
    /\ code' = code
    /\ \/ UNCHANGED server
       \/ etag' = etag + 1

LEMMA Ageing ==
  ASSUME Types, ServerAges
  PROVE  /\ \A c \in Catalog : CopyOf(c, items, etag) => CopyOf(c, items', etag')
         /\ \A c \in Call : CallInv(c) => CallInv(c)'
<1>1. etag \in Nat /\ etag' \in Nat /\ etag <= etag'
  BY CatalogAssumption DEF Types, ServerAges, server, Etags
<1>2. ASSUME NEW c \in Catalog, CopyOf(c, items, etag)
      PROVE  CopyOf(c, items', etag')
  <2>1. c.etag \in Nat
    BY CatalogAssumption DEF Catalog, Etags
  <2>. QED
    BY <1>1, <1>2, <2>1 DEF CopyOf, ServerAges, server
<1>3. ASSUME NEW c \in Call, CallInv(c)
      PROVE  CallInv(c)'
  <2>1. CASE ~Replaces(c)
    BY <1>3, <2>1 DEF CallInv, Replaces
  <2>2. CASE Replaces(c)
    <3>1. c.at \in Nat /\ c.at <= etag
      BY <1>3, <2>2, CatalogAssumption DEF CallInv, Etags
    <3>2. c.at = etag' => etag' = etag /\ items' = items
      BY <1>1, <3>1 DEF ServerAges, server
    <3>3. c.at = etag' => MadeFrom(c, items)'
      BY <1>3, <2>2, <3>2 DEF CallInv, MadeFrom, Renamed, Switched, ServerAges
    <3>. QED
      BY <1>1, <1>3, <2>2, <3>1, <3>3 DEF CallInv, Replaces
  <2>. QED
    BY <2>1, <2>2
<1>. QED
  BY <1>2, <1>3

\* What a step may do to a desk, but for the order of its loads and own writes.
DeskAges(d) ==
    /\ cached'[d] # None => cached'[d] \in {cached[d], answer[d]}
    /\ answer'[d] # None =>
         answer'[d] = answer[d] \/ answer'[d] = [items |-> items, etag |-> etag]
    /\ \A c \in calls'[d] : c \in calls[d] \/ CallInv(c)
    /\ cached[d] # None => cached'[d] # None
    /\ editing'[d] # None => editing'[d] = editing[d] \/ cached[d] # None
    /\ fetching'[d] = "read" => answer'[d] # None

LEMMA DeskKeeps ==
  ASSUME IInv, ServerAges, Types', NEW d \in Desks, DeskAges(d), OwnInv(d)'
  PROVE  DeskInv(d)'
<1>1. Types /\ DeskInv(d) /\ Distinct(items)
  BY DEF IInv
<1>2. /\ cached[d] # None => cached[d] \in Catalog
      /\ answer[d] # None => answer[d] \in Catalog
      /\ calls[d] \subseteq Call /\ calls'[d] \subseteq Call
      /\ etag \in Nat
  BY <1>1, CatalogAssumption DEF Types, Etags
<1>3. cached'[d] # None => CopyOf(cached'[d], items', etag')
  BY <1>1, <1>2, Ageing DEF DeskAges, DeskInv
<1>4. answer'[d] # None => CopyOf(answer'[d], items', etag')
  <2>1. CASE answer'[d] = answer[d]
    BY <1>1, <1>2, <2>1, Ageing DEF DeskInv
  <2>2. CASE answer'[d] = [items |-> items, etag |-> etag]
    <3>1. [items |-> items, etag |-> etag] \in Catalog
      BY <1>1 DEF Types, Catalog
    <3>2. CopyOf([items |-> items, etag |-> etag], items, etag)
      BY <1>1, <1>2 DEF CopyOf, Types
    <3>. QED
      BY <1>1, <2>2, <3>1, <3>2, Ageing
  <2>. QED
    BY <2>1, <2>2 DEF DeskAges
<1>5. \A c \in calls'[d] : CallInv(c)'
  BY <1>1, <1>2, Ageing DEF DeskAges, DeskInv
<1>. QED
  BY <1>1, <1>3, <1>4, <1>5 DEF DeskInv, DeskAges

\* A step that leaves a desk's loads and writes alone keeps their order.
LEMMA OwnKeeps ==
  ASSUME IInv, ServerAges, NEW d \in Desks,
         own'[d] = own[d], cached'[d] = cached[d], late'[d] = late[d],
         fetching'[d] = fetching[d], answer'[d] = answer[d]
  PROVE  OwnInv(d)'
<1>1. OwnInv(d) /\ own[d] \in Nat /\ etag \in Nat /\ etag' \in Nat /\ etag <= etag'
  BY CatalogAssumption DEF IInv, Types, DeskInv, ServerAges, server, Etags
<1>. QED
  BY <1>1 DEF OwnInv

-----------------------------------------------------------------------------
(* The sheet, the loads and the calls of a desk.                            *)

LEMMA SheetKeeps ==
  ASSUME IInv, NEW d \in Desks,
         openCreate(d) \/ openEdit(d) \/ CloseSheet(d) \/ LevelsArrive(d)
  PROVE  IInv'
<1>1. UNCHANGED <<code, server, query, calls, own, faults>>
  BY DEF openCreate, openEdit, OpenSheet, CloseSheet, LevelsArrive
<1>2. /\ levels' \in [Desks -> BOOLEAN] /\ open' \in [Desks -> BOOLEAN]
      /\ editing' \in [Desks -> CatalogItem \cup {None}]
  <2>1. Types /\ (cached[d] # None => cached[d] \in Catalog)
    BY DEF IInv, Types
  <2>2. ItemsOf(d) \subseteq CatalogItem
    BY <2>1 DEF ItemsOf, Catalog
  <2>. QED
    BY <2>1, <2>2
       DEF Types, openCreate, openEdit, OpenSheet, CloseSheet, LevelsArrive, sheet
<1>3. Types'
  BY <1>1, <1>2 DEF IInv, Types, server, query
<1>4. ServerAges /\ Distinct(items)'
  BY <1>1 DEF ServerAges, IInv, server, Distinct
<1>5. ASSUME NEW e \in Desks
      PROVE  DeskInv(e)'
  <2>1. OwnInv(e)'
    BY <1>1, <1>4, OwnKeeps DEF query
  <2>2. editing'[e] # None => editing'[e] = editing[e] \/ cached[e] # None
    BY DEF openCreate, openEdit, OpenSheet, CloseSheet, LevelsArrive, sheet, IInv, Types,
           ItemsOf
  <2>3. fetching[e] = "read" => answer[e] # None
    BY DEF IInv, DeskInv
  <2>. QED
    BY <1>1, <1>3, <1>4, <2>1, <2>2, <2>3, DeskKeeps DEF DeskAges, query
<1>. QED
  BY <1>3, <1>4, <1>5 DEF IInv

LEMMA LoadKeeps ==
  ASSUME IInv, NEW d \in Desks, useCatalog(d) \/ getCatalog(d) \/ CatalogArrives(d)
  PROVE  IInv'
<1>1. UNCHANGED <<code, server, levels, sheet, calls, own, faults>>
  BY DEF useCatalog, getCatalog, CatalogArrives
<1>2. /\ Types /\ OwnInv(d)
      /\ \A e \in Desks : fetching[e] = "read" => answer[e] # None
  BY DEF IInv, DeskInv
<1>3. /\ fetching' \in [Desks -> {"no", "asked", "read"}] /\ late' \in [Desks -> BOOLEAN]
      /\ cached' \in [Desks -> Catalog \cup {None}]
      /\ answer' \in [Desks -> Catalog \cup {None}]
      /\ \A e \in Desks \ {d} : /\ cached'[e] = cached[e] /\ answer'[e] = answer[e]
                                /\ fetching'[e] = fetching[e] /\ late'[e] = late[e]
  <2>1. [items |-> items, etag |-> etag] \in Catalog
    BY <1>2 DEF Types, Catalog
  <2>2. CASE useCatalog(d)
    BY <1>2, <2>2 DEF Types, useCatalog
  <2>3. CASE getCatalog(d)
    BY <1>2, <2>1, <2>3 DEF Types, getCatalog
  <2>4. CASE CatalogArrives(d)
    BY <1>2, <2>4 DEF Types, CatalogArrives
  <2>. QED
    BY <2>2, <2>3, <2>4
<1>4. Types'
  BY <1>1, <1>2, <1>3 DEF Types, server, sheet
<1>5. ServerAges /\ Distinct(items)'
  BY <1>1 DEF ServerAges, IInv, server, Distinct
<1>6. DeskAges(d) /\ OwnInv(d)'
  <2>1. etag' = etag /\ own' = own /\ own[d] \in Nat /\ etag \in Nat /\ own[d] <= etag
    BY <1>1, <1>2, CatalogAssumption DEF server, Types, Etags, OwnInv
  <2>2. CASE useCatalog(d)
    <3>1. fetching'[d] = "asked" /\ cached' = cached /\ answer' = answer /\ late' = late
      BY <1>2, <2>2 DEF useCatalog, Types
    <3>. QED
      BY <1>1, <2>1, <3>1 DEF DeskAges, OwnInv, sheet
  <2>3. CASE getCatalog(d)
    <3>1. /\ fetching'[d] = "read" /\ cached' = cached /\ late' = late
          /\ answer'[d] = [items |-> items, etag |-> etag]
      BY <1>2, <2>3 DEF getCatalog, Types
    <3>2. answer'[d].etag = etag /\ answer'[d] # None
      <4>1. [items |-> items, etag |-> etag] \in Catalog
        BY <1>2 DEF Types, Catalog
      <4>. QED
        BY <3>1, <4>1, NoneAssumption
    <3>. QED
      BY <1>1, <2>1, <3>1, <3>2 DEF DeskAges, OwnInv, sheet
  <2>4. CASE CatalogArrives(d)
    <3>1. /\ fetching[d] = "read" /\ fetching'[d] = "no" /\ cached'[d] = answer[d]
          /\ answer'[d] = None /\ late'[d] = (late[d] /\ cached[d] = None)
      BY <1>2, <2>4 DEF CatalogArrives, Types
    <3>2. DeskAges(d)
      BY <1>1, <1>2, <3>1 DEF DeskAges, sheet
    <3>3. OwnInv(d)'
      BY <1>2, <2>1, <3>1 DEF OwnInv
    <3>. QED
      BY <3>2, <3>3
  <2>. QED
    BY <2>2, <2>3, <2>4
<1>7. ASSUME NEW e \in Desks \ {d}
      PROVE  DeskAges(e) /\ OwnInv(e)'
  BY <1>1, <1>2, <1>3, <1>5, OwnKeeps DEF DeskAges, sheet
<1>8. \A e \in Desks : DeskInv(e)'
  BY <1>4, <1>5, <1>6, <1>7, DeskKeeps
<1>. QED
  BY <1>4, <1>5, <1>8 DEF IInv

\* A call that is in order joins those in flight.
LEMMA AskKeeps ==
  ASSUME IInv, NEW d \in Desks, NEW c \in Call, CallInv(c), Ask(d, c)
  PROVE  IInv'
<1>1. /\ calls' = [calls EXCEPT ![d] = calls[d] \cup {c}]
      /\ UNCHANGED <<code, server, query, levels, sheet, own, faults>>
  BY DEF Ask
<1>2. Types'
  BY <1>1 DEF IInv, Types, server, query, sheet
<1>3. ServerAges /\ Distinct(items)'
  BY <1>1 DEF ServerAges, IInv, server, Distinct
<1>4. ASSUME NEW e \in Desks
      PROVE  DeskInv(e)'
  <2>1. OwnInv(e)'
    BY <1>1, <1>3, OwnKeeps DEF query
  <2>2. \A x \in calls'[e] : x \in calls[e] \/ CallInv(x)
    BY <1>1 DEF IInv, Types
  <2>3. fetching[e] = "read" => answer[e] # None
    BY DEF IInv, DeskInv
  <2>. QED
    BY <1>1, <1>2, <1>3, <2>1, <2>2, <2>3, DeskKeeps DEF DeskAges, query, sheet
<1>. QED
  BY <1>2, <1>3, <1>4 DEF IInv

LEMMA OperatorKeeps ==
  ASSUME IInv, NEW d \in Desks,
         addCatalogItem(d) \/ replaceCatalogItems(d) \/ handleToggleActive(d)
  PROVE  IInv'
<1>1. Types /\ DeskInv(d)
  BY DEF IInv
<1>2. /\ cached[d] # None => cached[d] \in Catalog /\ CopyOf(cached[d], items, etag)
      /\ editing[d] # None => editing[d] \in CatalogItem
  BY <1>1 DEF Types, DeskInv
<1>3. ActiveLevels \subseteq Levels /\ ShownLevels(d) \subseteq Levels
  BY CatalogAssumption DEF ShownLevels
<1>4. CASE addCatalogItem(d)
  <2>1. PICK v \in Values, h \in SUBSET ShownLevels(d) :
          Ask(d, [kind |-> "add", item |-> v, value |-> v, hours |-> h,
                  shown |-> ShownLevels(d), items |-> {}, at |-> None])
    BY <1>4 DEF addCatalogItem
  <2> DEFINE c == [kind |-> "add", item |-> v, value |-> v, hours |-> h,
                   shown |-> ShownLevels(d), items |-> {}, at |-> None]
  <2>2. c \in Call /\ CallInv(c)
    BY <1>3 DEF Call, CallInv, Replaces
  <2> HIDE DEF c
  <2>. QED
    BY <2>1, <2>2, AskKeeps DEF c
<1>5. CASE replaceCatalogItems(d)
  <2>1. PICK v \in Values, h \in SUBSET ShownLevels(d) :
          /\ editing[d] # None /\ ~getDuplicateItem(d, v)
          /\ Ask(d, [kind |-> "edit", item |-> editing[d].value, value |-> v, hours |-> h,
                     shown |-> ShownLevels(d), items |-> EditedItems(d, v, h),
                     at |-> cached[d].etag])
    BY <1>5 DEF replaceCatalogItems
  <2> DEFINE w == editing[d].value
             list == EditedItems(d, v, h)
             c == [kind |-> "edit", item |-> w, value |-> v, hours |-> h,
                   shown |-> ShownLevels(d), items |-> list, at |-> cached[d].etag]
  <2>2. cached[d] # None
    BY <1>1, <2>1 DEF DeskInv
  <2>3. /\ list = {IF i.value = w THEN Renamed(i, v, h) ELSE i : i \in cached[d].items}
        /\ cached[d].items \in SUBSET CatalogItem /\ cached[d].items # {}
        /\ Distinct(cached[d].items) /\ w \in Values
        /\ h \in SUBSET Levels
        /\ \A i \in cached[d].items : i.value = v => v = w
    BY <1>2, <1>3, <2>1, <2>2
       DEF EditedItems, With, ItemsOf, Catalog, CopyOf, CatalogItem, getDuplicateItem
  <2> HIDE DEF list, w
  <2>4. list \subseteq CatalogItem /\ list # {} /\ Distinct(list)
    <3>1. list = RenamedIn(cached[d].items, w, v, h)
      BY <2>3 DEF RenamedIn
    <3>. QED
      BY <2>3, <3>1, RenamedList
  <2>5. cached[d].etag \in Etags /\ cached[d].etag <= etag
        /\ (cached[d].etag = etag => cached[d].items = items)
    BY <1>2, <2>2 DEF Catalog, CopyOf
  <2>6. c \in Call
    BY <1>3, <2>3, <2>4, <2>5 DEF Call
  <2>7. CallInv(c)
    BY <2>3, <2>4, <2>5 DEF CallInv, MadeFrom, Replaces
  <2>8. Ask(d, c)
    BY <2>1 DEF list, w
  <2> HIDE DEF c
  <2>. QED
    BY <2>6, <2>7, <2>8, AskKeeps
<1>6. CASE handleToggleActive(d)
  <2>1. PICK i \in ItemsOf(d) :
          Ask(d, [kind |-> "toggle", item |-> i.value, value |-> i.value, hours |-> {},
                  shown |-> {}, at |-> cached[d].etag,
                  items |-> With(d, i.value, LAMBDA j : Switched(j, ~i.active))])
    BY <1>6 DEF handleToggleActive
  <2> DEFINE w == i.value
             a == ~i.active
             list == {IF j.value = w THEN Switched(j, a) ELSE j : j \in cached[d].items}
             c == [kind |-> "toggle", item |-> w, value |-> w, hours |-> {},
                   shown |-> {}, at |-> cached[d].etag, items |-> list]
  <2>2. cached[d] # None /\ i \in cached[d].items
    BY <2>1 DEF ItemsOf
  <2>3. /\ cached[d].items \in SUBSET CatalogItem /\ cached[d].items # {}
        /\ Distinct(cached[d].items) /\ w \in Values /\ a \in BOOLEAN
    BY <1>2, <2>2 DEF Catalog, CopyOf, CatalogItem
  <2>4. Ask(d, c)
    BY <2>1, <2>2 DEF With, ItemsOf
  <2>5. list \subseteq CatalogItem /\ list # {} /\ Distinct(list)
    <3>1. list = {IF j.value = w THEN Switched(j, a) ELSE j : j \in cached[d].items}
      OBVIOUS
    <3> HIDE DEF list, w, a
    <3>. QED
      BY <2>3, <3>1, SwitchedList
  <2>6. cached[d].etag \in Etags /\ cached[d].etag <= etag
        /\ (cached[d].etag = etag => cached[d].items = items)
    BY <1>2, <2>2 DEF Catalog, CopyOf
  <2>7. c.at = etag => MadeFrom(c, items)
    BY <2>3, <2>6 DEF MadeFrom
  <2> HIDE DEF list, w, a
  <2>8. c \in Call
    BY <2>3, <2>5, <2>6 DEF Call
  <2>9. CallInv(c)
    BY <2>3, <2>5, <2>6, <2>7 DEF CallInv, Replaces
  <2> HIDE DEF c
  <2>. QED
    BY <2>4, <2>8, <2>9, AskKeeps
<1>. QED
  BY <1>4, <1>5, <1>6

-----------------------------------------------------------------------------
(* The server.                                                              *)

\* What a call writes is in order.
LEMMA WrittenIsDistinct ==
  ASSUME IInv, NEW d \in Desks, NEW c \in calls[d], Written(c)
  PROVE  items' \subseteq CatalogItem /\ items' # {} /\ Distinct(items')
<1>1. Types /\ Distinct(items) /\ CallInv(c) /\ c \in Call
  BY DEF IInv, DeskInv, Types
<1>2. CASE Replaces(c)
  BY <1>1, <1>2 DEF Written, CallInv, Call
<1>3. CASE ~Replaces(c)
  <2> DEFINE n == [value |-> c.value, active |-> TRUE, hours |-> c.hours]
  <2>1. c.kind = "add"
    BY <1>1, <1>3 DEF Call, Replaces
  <2>2. items' = items \cup {n} /\ \A i \in items : i.value # c.value
    BY <1>3, <2>1 DEF Written, Refused, Added
  <2>3. n \in CatalogItem /\ n.value = c.value
    BY <1>1 DEF CatalogItem, Call
  <2> HIDE DEF n
  <2>. QED
    BY <1>1, <2>2, <2>3 DEF Distinct, Types
<1>. QED
  BY <1>2, <1>3

LEMMA WrittenTypes ==
  ASSUME IInv, etag < MaxWrites, etag' = etag + 1
  PROVE  etag' \in Etags /\ etag \in Nat
BY CatalogAssumption DEF IInv, Types, Etags

LEMMA OverviewKeeps ==
  ASSUME IInv, Overview
  PROVE  IInv'
<1>1. /\ etag < MaxWrites /\ etag' = etag + 1
      /\ UNCHANGED <<code, query, levels, sheet, calls, own, faults>>
  BY DEF Overview
<1>2. Types /\ Distinct(items)
  BY DEF IInv
<1>3. items' \subseteq CatalogItem /\ items' # {} /\ Distinct(items')
  <2>1. CASE handleAddSubmit
    <3>1. PICK v \in Values :
            /\ \A i \in items : i.value # v
            /\ items' = items \cup {[value |-> v, active |-> TRUE, hours |-> {}]}
      BY <2>1 DEF handleAddSubmit, Added
    <3> DEFINE n == [value |-> v, active |-> TRUE, hours |-> {}]
    <3>2. n \in CatalogItem /\ n.value = v /\ items' = items \cup {n}
      BY <3>1 DEF CatalogItem
    <3> HIDE DEF n
    <3>. QED
      BY <1>2, <3>1, <3>2 DEF Distinct, Types
  <2>2. CASE handleDisable
    <3>1. PICK i \in items : items' = (items \ {i}) \cup {Switched(i, FALSE)}
      BY <2>2 DEF handleDisable
    <3>2. i \in CatalogItem
      BY <1>2 DEF Types
    <3>3. Switched(i, FALSE) \in CatalogItem /\ Switched(i, FALSE).value = i.value
      BY <3>2, ItemFields
    <3>. QED
      BY <1>2, <3>1, <3>3 DEF Distinct, Types
  <2>. QED
    BY <2>1, <2>2 DEF Overview
<1>4. Types'
  BY <1>1, <1>2, <1>3, WrittenTypes DEF Types, query, sheet
<1>5. ServerAges
  BY <1>1 DEF ServerAges
<1>6. ASSUME NEW e \in Desks
      PROVE  DeskInv(e)'
  <2>1. OwnInv(e)'
    BY <1>1, <1>5, OwnKeeps DEF query
  <2>. QED
    BY <1>1, <1>4, <1>5, <2>1, DeskKeeps DEF DeskAges, query, sheet, IInv, DeskInv
<1>. QED
  BY <1>3, <1>4, <1>6 DEF IInv

LEMMA FailsKeeps ==
  ASSUME IInv, NEW d \in Desks, Fails(d)
  PROVE  IInv'
<1>1. PICK c \in calls[d] :
        /\ Drop(d, c)
        /\ \/ UNCHANGED <<server, faults>>
           \/ /\ faults < MaxFaults /\ faults' = faults + 1
              /\ Written(c) \/ UNCHANGED server
        /\ UNCHANGED <<code, query, levels, sheet, own>>
  BY DEF Fails
<1>2. Types /\ Distinct(items)
  BY DEF IInv
<1>3. calls' = [calls EXCEPT ![d] = calls[d] \ {c}]
  BY <1>1 DEF Drop
<1>4. items' \subseteq CatalogItem /\ items' # {} /\ Distinct(items') /\ etag' \in Etags
  <2>1. CASE Written(c)
    BY <2>1, WrittenIsDistinct, WrittenTypes DEF Written
  <2>2. CASE UNCHANGED server
    BY <1>2, <2>2 DEF Types, server
  <2>. QED
    BY <1>1, <2>1, <2>2
<1>5. faults' \in 0 .. MaxFaults
  BY <1>1, <1>2, CatalogAssumption DEF Types
<1>6. Types'
  BY <1>1, <1>2, <1>3, <1>4, <1>5 DEF Types, query, sheet
<1>7. ServerAges
  BY <1>1 DEF ServerAges, Written
<1>8. ASSUME NEW e \in Desks
      PROVE  DeskInv(e)'
  <2>1. OwnInv(e)'
    BY <1>1, <1>7, OwnKeeps DEF query
  <2>2. calls'[e] \subseteq calls[e]
    BY <1>2, <1>3 DEF Types
  <2>3. fetching[e] = "read" => answer[e] # None
    BY DEF IInv, DeskInv
  <2>. QED
    BY <1>1, <1>6, <1>7, <2>1, <2>2, <2>3, DeskKeeps DEF DeskAges, query, sheet
<1>. QED
  BY <1>4, <1>6, <1>8 DEF IInv

LEMMA SucceedsKeeps ==
  ASSUME IInv, NEW d \in Desks, Succeeds(d)
  PROVE  IInv'
<1>1. PICK c \in calls[d] :
        /\ Written(c) /\ Drop(d, c) /\ Invalidate(d)
        /\ own' = [own EXCEPT ![d] = etag']
        /\ IF c.kind \in {"add", "edit"}
           THEN open' = [open EXCEPT ![d] = FALSE] /\ editing' = [editing EXCEPT ![d] = None]
           ELSE UNCHANGED sheet
        /\ UNCHANGED <<code, cached, levels, faults>>
  BY DEF Succeeds
<1>2. Types /\ Distinct(items) /\ OwnInv(d)
  BY DEF IInv, DeskInv
<1>3. calls' = [calls EXCEPT ![d] = calls[d] \ {c}]
  BY <1>1 DEF Drop
<1>4. items' \subseteq CatalogItem /\ items' # {} /\ Distinct(items') /\ etag' \in Etags
      /\ etag' = etag + 1 /\ etag \in Nat
  BY <1>1, WrittenIsDistinct, WrittenTypes DEF Written
<1>5. /\ fetching' \in [Desks -> {"no", "asked", "read"}] /\ late' \in [Desks -> BOOLEAN]
      /\ answer' \in [Desks -> Catalog \cup {None}]
      /\ \A e \in Desks \ {d} : /\ answer'[e] = answer[e] /\ fetching'[e] = fetching[e]
                                /\ late'[e] = late[e] /\ own'[e] = own[e]
      /\ answer'[d] \in {answer[d], None}
  <2>1. CASE cached[d] = None
    BY <1>1, <1>2, <2>1 DEF Types, Invalidate
  <2>2. CASE cached[d] # None
    BY <1>1, <1>2, <2>2 DEF Types, Invalidate
  <2>. QED
    BY <2>1, <2>2
<1>6. /\ open' \in [Desks -> BOOLEAN] /\ editing' \in [Desks -> CatalogItem \cup {None}]
      /\ own' \in [Desks -> Etags]
  BY <1>1, <1>2, <1>4 DEF Types, sheet
<1>7. Types'
  BY <1>1, <1>2, <1>3, <1>4, <1>5, <1>6 DEF Types
<1>8. ServerAges
  BY <1>1, <1>4 DEF ServerAges
<1>9. OwnInv(d)'
  <2>1. own'[d] = etag' /\ cached' = cached
    BY <1>1, <1>2 DEF Types
  <2>2. CASE cached[d] = None
    <3>1. (fetching[d] = "read" => late'[d]) /\ fetching' = fetching
      BY <1>1, <1>2, <2>2 DEF Invalidate, Types
    <3>. QED
      BY <1>4, <2>1, <2>2, <3>1 DEF OwnInv
  <2>3. CASE cached[d] # None
    <3>1. fetching'[d] = "asked"
      BY <1>1, <1>2, <2>3 DEF Invalidate, Types
    <3>. QED
      BY <1>4, <2>1, <2>3, <3>1 DEF OwnInv
  <2>. QED
    BY <2>2, <2>3
<1>10. ASSUME NEW e \in Desks
       PROVE  DeskInv(e)'
  <2>1. OwnInv(e)'
    BY <1>1, <1>5, <1>8, <1>9, OwnKeeps
  <2>2. calls'[e] \subseteq calls[e]
    BY <1>2, <1>3 DEF Types
  <2>3. answer'[e] \in {answer[e], None} /\ cached' = cached
    BY <1>1, <1>5
  <2>4. fetching'[e] = "read" => answer'[e] # None
    <3>1. fetching[e] = "read" => answer[e] # None
      BY DEF IInv, DeskInv
    <3>. QED
      BY <1>1, <1>2, <1>5, <3>1 DEF Invalidate, Types
  <2>5. editing'[e] \in {editing[e], None}
    BY <1>1, <1>2 DEF Types, sheet
  <2>. QED
    BY <1>7, <1>8, <2>1, <2>2, <2>3, <2>4, <2>5, DeskKeeps DEF DeskAges
<1>. QED
  BY <1>4, <1>7, <1>10 DEF IInv

-----------------------------------------------------------------------------

LEMMA NextKeeps == IInv /\ [Next]_vars => IInv'
<1> SUFFICES ASSUME IInv, [Next]_vars PROVE IInv'
  OBVIOUS
<1>1. CASE UNCHANGED vars
  BY <1>1
     DEF vars, server, query, sheet, IInv, Types, Distinct, DeskInv, CopyOf, CallInv,
         MadeFrom, Renamed, OwnInv
<1>. QED
  BY <1>1, SheetKeeps, LoadKeeps, OperatorKeeps, SucceedsKeeps, FailsKeeps,
     OverviewKeeps
     DEF Next, Operator, Loads

LEMMA IInvHolds == Spec => []IInv
BY InitInv, NextKeeps, PTL DEF Spec

\* The types, for any number of desks, values, levels, writes and faults.
THEOREM TypeCorrect == Spec => []TypeOK
<1>1. IInv => TypeOK
  <2> SUFFICES ASSUME IInv PROVE TypeOK
    OBVIOUS
  <2>1. Types
    BY DEF IInv
  <2>2. ASSUME NEW d \in Desks, NEW c \in calls[d], Replaces(c)
        PROVE  c.at # None /\ c.items # {}
    BY <2>2, NoneAssumption DEF IInv, DeskInv, CallInv
  <2>. QED
    BY <2>1, <2>2 DEF Types, TypeOK
<1>. QED
  BY <1>1, IInvHolds, PTL

\* A value names one item, however many desks replace the list.
THEOREM UniqueValues == Spec => []ValuesAreUnique
<1>1. IInv => ValuesAreUnique
  BY DEF IInv, Distinct, ValuesAreUnique
<1>. QED
  BY <1>1, IInvHolds, PTL

\* A desk with nothing left to load shows its own last write, or something newer.
THEOREM OwnWritesAreShown == Spec => []OwnWritesShown
<1>1. IInv => OwnWritesShown
  BY DEF IInv, DeskInv, OwnInv, OwnWritesShown
<1>. QED
  BY <1>1, IInvHolds, PTL

LEMMA CallChangesOneItem ==
  ASSUME IInv, NEW d \in Desks, NEW c \in calls[d], Written(c), c.at \in {None, etag}
  PROVE  ChangesOneItem(c)
<1>1. Types /\ CallInv(c) /\ c \in Call
  BY DEF IInv, DeskInv, Types
<1>2. CASE Replaces(c)
  <2>1. c.at = etag /\ items' = c.items
    BY <1>1, <1>2, NoneAssumption DEF CallInv, Written
  <2>. QED
    BY <1>1, <1>2, <2>1, OneItemChanged DEF CallInv
<1>3. CASE ~Replaces(c)
  <2>1. c.kind = "add" /\ c.value = c.item
    BY <1>1, <1>3 DEF Call, Replaces, CallInv
  <2>2. /\ items' = items \cup {[value |-> c.value, active |-> TRUE, hours |-> c.hours]}
        /\ \A i \in items : i.value # c.item
    BY <1>3, <2>1 DEF Written, Refused, Added
  <2>3. \A x : x \in Others(items', c) <=> x \in Others(items, c)
    BY <2>2 DEF Others
  <2>. QED
    BY <2>2, <2>3 DEF ChangesOneItem
<1>. QED
  BY <1>2, <1>3

\* A PUT from a copy the server still has changes the item it is made for and
\* nothing else, whatever else is under way.
THEOREM CurrentCopiesEdit == Spec => CurrentCopiesEditOneItem
<1>1. ASSUME IInv, [Next]_vars, etag' # etag, ~Overview
      PROVE  \E d \in Desks : \E c \in calls[d] :
               c \notin calls'[d] /\ (c.at \in {None, etag} => ChangesOneItem(c))
  <2>1. PICK d \in Desks : Succeeds(d) \/ Fails(d)
    BY <1>1
       DEF Next, Operator, Loads, openCreate, openEdit, OpenSheet, CloseSheet,
           addCatalogItem, replaceCatalogItems, handleToggleActive, Ask, useCatalog,
           getCatalog, CatalogArrives, LevelsArrive, vars, server
  <2>2. PICK c \in calls[d] : Written(c) /\ Drop(d, c)
    BY <1>1, <2>1 DEF Succeeds, Fails, server
  <2>3. c \notin calls'[d]
    BY <1>1, <2>2 DEF Drop, IInv, Types
  <2>. QED
    BY <1>1, <2>2, <2>3, CallChangesOneItem
<1>2. IInv /\ [Next]_vars =>
        [etag' # etag /\ ~Overview => \E d \in Desks : \E c \in calls[d] :
            c \notin calls'[d] /\ (c.at \in {None, etag} => ChangesOneItem(c))]_vars
  BY <1>1
<1>. QED
  BY <1>2, IInvHolds, PTL DEF Spec, CurrentCopiesEditOneItem

-----------------------------------------------------------------------------
(* The detail page of a schedule.  Undone marks are history, so the         *)
(* invariant says why none can come: each copy of a session (in a list, in  *)
(* a panel, in a PUT on its way) carries the tag it was read under, no tag  *)
(* is ahead of the server's, and whatever carries the server's own tag      *)
(* agrees with what the server has.                                         *)

SessionList == [at : SessionPage!Etags, list : SessionPage!Lists]
Deletion == [session : Sessions, ifMatch : SessionPage!Etags]

SessionTypes ==
    /\ version \in SessionPage!Etags /\ sessions \in SessionPage!Lists
    /\ listed \in [Desks -> SessionList] /\ cachedTag \in [Desks -> SessionPage!Etags]
    /\ scheduleEtag \in [Desks -> SessionPage!Etags \cup {None}]
    /\ selectedSession \in [Desks -> SessionPage!Copy \cup {None}]
    /\ updates \in [Desks -> SUBSET SessionPage!Update]
    /\ deletion \in [Desks -> Deletion \cup {None}]
    /\ undone \subseteq {"stale panel", "current panel"}

\* No desk is ahead of the server.
TagsInv(d) ==
    /\ cachedTag[d] <= version
    /\ scheduleEtag[d] # None => scheduleEtag[d] <= version

\* A list read under tag v, the server having the sessions s under tag now.
ListIsTrue(list, now, s) ==
    /\ list.at <= now
    /\ list.at = now => list.list = s

\* The same of the copy in a panel; a session that is gone is refused.
CopyIsTrue(copy, now, s) ==
    /\ copy.at <= now
    /\ copy.at = now /\ copy.id \in DOMAIN s => copy.present = s[copy.id]

\* The same of a PUT: one that marks a pupil changes that pupil's mark at most.
UpdateIsTrue(u, now, s) ==
    /\ u.at <= now
    /\ u.at = now /\ u.session \in DOMAIN s /\ u.pupil # None =>
         SessionPage!Undone(s[u.session], u) = {}

CopiesInv(d) ==
    /\ ListIsTrue(listed[d], version, sessions)
    /\ selectedSession[d] # None => CopyIsTrue(selectedSession[d], version, sessions)
    /\ \A u \in updates[d] : UpdateIsTrue(u, version, sessions)

SessionIInv ==
    /\ SessionTypes
    /\ \A d \in Desks : TagsInv(d) /\ CopiesInv(d)
    /\ SessionPage!CurrentPanelsKeepMarks

LEMMA EtagsAreNumbers ==
  SessionPage!Etags \subseteq Nat
  BY CatalogAssumption DEF SessionPage!Etags

\* A list of sessions gives each of them a set of pupils.
LEMMA ListsAreFunctions ==
  ASSUME NEW l \in SessionPage!Lists
  PROVE  /\ DOMAIN l \subseteq Sessions /\ l = [s \in DOMAIN l |-> l[s]]
         /\ \A s \in DOMAIN l : l[s] \subseteq Pupils
  BY DEF SessionPage!Lists

\* Marking a session and deleting one leave a list of sessions.
LEMMA ListsAreClosed ==
  ASSUME NEW l \in SessionPage!Lists
  PROVE  /\ \A s \in DOMAIN l, m \in SUBSET Pupils : [l EXCEPT ![s] = m] \in SessionPage!Lists
         /\ \A s : [r \in DOMAIN l \ {s} |-> l[r]] \in SessionPage!Lists
<1>1. PICK S \in SUBSET Sessions : l \in [S -> SUBSET Pupils]
  BY DEF SessionPage!Lists
<1>2. ASSUME NEW s \in DOMAIN l, NEW m \in SUBSET Pupils
      PROVE  [l EXCEPT ![s] = m] \in SessionPage!Lists
  <2>1. [l EXCEPT ![s] = m] \in [S -> SUBSET Pupils]
    BY <1>1
  <2>. QED
    BY <1>1, <2>1 DEF SessionPage!Lists
<1>3. ASSUME NEW s PROVE [r \in DOMAIN l \ {s} |-> l[r]] \in SessionPage!Lists
  <2>1. [r \in DOMAIN l \ {s} |-> l[r]] \in [S \ {s} -> SUBSET Pupils]
    BY <1>1
  <2>2. S \ {s} \in SUBSET Sessions
    BY <1>1
  <2>. QED
    BY <2>1, <2>2 DEF SessionPage!Lists
<1>. QED
  BY <1>2, <1>3

\* Marking a pupil in a copy changes that pupil's mark only.
LEMMA OnePupilIsMarked ==
  ASSUME NEW present, NEW p, NEW u,
         u.present = IF p \in present THEN present \ {p} ELSE present \cup {p},
         u.pupil = p
  PROVE  SessionPage!Undone(present, u) = {}
<1>1. \A q : q \notin SessionPage!Undone(present, u)
  BY DEF SessionPage!Undone
<1>. QED
  BY <1>1

\* What was read under an earlier tag says nothing of the server any more.
LEMMA OlderCopiesAreTrue ==
  ASSUME NEW now \in Nat, NEW s, NEW t
  PROVE  /\ \A l \in SessionList : ListIsTrue(l, now, s) => ListIsTrue(l, now + 1, t)
         /\ \A c \in SessionPage!Copy : CopyIsTrue(c, now, s) => CopyIsTrue(c, now + 1, t)
         /\ \A u \in SessionPage!Update : UpdateIsTrue(u, now, s) => UpdateIsTrue(u, now + 1, t)
  BY
     DEF SessionList, SessionPage!Copy, SessionPage!Update, SessionPage!Etags,
         ListIsTrue, CopyIsTrue, UpdateIsTrue

\* Which click was the latest does not matter to what a PUT changes.
LEMMA SameUpdateIsTrue ==
  ASSUME NEW now, NEW s, NEW u, NEW v, UpdateIsTrue(u, now, s),
         v.at = u.at, v.session = u.session, v.pupil = u.pupil, v.present = u.present
  PROVE  UpdateIsTrue(v, now, s)
<1>1. \A present : SessionPage!Undone(present, v) = SessionPage!Undone(present, u)
  BY DEF SessionPage!Undone
<1>. QED
  BY <1>1 DEF UpdateIsTrue

\* The tag of an edit is one the server has given.
LEMMA TagIsGiven ==
  ASSUME SessionIInv, NEW d \in Desks
  PROVE  SessionPage!ifMatch(d) \in SessionPage!Etags /\ SessionPage!ifMatch(d) <= version
  BY DEF SessionIInv, SessionTypes, TagsInv, SessionPage!ifMatch, SessionPage!Etags

LEMMA SessionInitIInv ==
  SessionPage!Init => SessionIInv
<1>. SUFFICES ASSUME SessionPage!Init PROVE SessionIInv
  OBVIOUS
<1>1. 0 \in SessionPage!Etags
  BY CatalogAssumption DEF SessionPage!Etags
<1>2. sessions \in SessionPage!Lists
  BY DEF SessionPage!Init, SessionPage!Lists
<1>3. SessionTypes
  BY <1>1, <1>2 DEF SessionPage!Init, SessionTypes, SessionList
<1>4. ASSUME NEW d \in Desks PROVE TagsInv(d) /\ CopiesInv(d)
  <2>1. listed[d] = [at |-> 0, list |-> sessions]
    BY DEF SessionPage!Init
  <2>2. ListIsTrue([at |-> 0, list |-> sessions], 0, sessions)
    BY DEF ListIsTrue
  <2>. QED
    BY <2>1, <2>2 DEF SessionPage!Init, TagsInv, CopiesInv
<1>. QED
  BY <1>3, <1>4 DEF SessionPage!Init, SessionIInv, SessionPage!CurrentPanelsKeepMarks

\* A PUT that is sent: with the copy in the panel, and at most one pupil's mark.
LEMMA MutateKeeps ==
  ASSUME SessionIInv, NEW d \in Desks, selectedSession[d] # None,
         NEW pupil \in Pupils \cup {None}, NEW present \in SUBSET Pupils,
         SessionPage!Mutate(d, pupil, present),
         pupil # None =>
            LET was == selectedSession[d].present IN
            present = IF pupil \in was THEN was \ {pupil} ELSE was \cup {pupil}
  PROVE  SessionIInv'
<1> DEFINE s == selectedSession[d]
           n == [session |-> s.id, ifMatch |-> SessionPage!ifMatch(d), at |-> s.at, pupil |-> pupil,
                 present |-> present, latest |-> TRUE]
           Late(u) == [u EXCEPT !.latest = FALSE]
<1>1. s \in SessionPage!Copy /\ CopyIsTrue(s, version, sessions)
  BY DEF SessionIInv, SessionTypes, CopiesInv
<1>2. n \in SessionPage!Update
  BY <1>1, TagIsGiven DEF SessionPage!Copy, SessionPage!Update
<1>3. UpdateIsTrue(n, version, sessions)
  <2>1. n.at <= version
    BY <1>1 DEF CopyIsTrue
  <2>2. ASSUME n.at = version, n.session \in DOMAIN sessions, n.pupil # None
        PROVE  SessionPage!Undone(sessions[n.session], n) = {}
    <3>1. s.present = sessions[n.session]
      BY <1>1, <2>2 DEF CopyIsTrue
    <3>2. n.present = IF n.pupil \in s.present THEN s.present \ {n.pupil}
                      ELSE s.present \cup {n.pupil}
      BY <2>2
    <3>. QED
      BY <3>1, <3>2, OnePupilIsMarked
  <2>. QED
    BY <2>1, <2>2 DEF UpdateIsTrue
<1>4. ASSUME NEW u \in SessionPage!Update, UpdateIsTrue(u, version, sessions)
      PROVE  Late(u) \in SessionPage!Update /\ UpdateIsTrue(Late(u), version, sessions)
  <2>1. Late(u) \in SessionPage!Update
    BY DEF SessionPage!Update
  <2>2. /\ Late(u).at = u.at /\ Late(u).session = u.session
        /\ Late(u).pupil = u.pupil /\ Late(u).present = u.present
    BY DEF SessionPage!Update
  <2>. DEFINE v == Late(u)
  <2>3. v.at = u.at /\ v.session = u.session /\ v.pupil = u.pupil /\ v.present = u.present
    BY <2>2
  <2>. HIDE DEF v
  <2>4. UpdateIsTrue(v, version, sessions)
    BY ONLY <1>4, <2>3, SameUpdateIsTrue
  <2>. QED
    BY <2>1, <2>4 DEF v
<1>5. updates' = [updates EXCEPT ![d] = {Late(u) : u \in @} \cup {n}]
  BY DEF SessionPage!Mutate
<1>. HIDE DEF n, Late, s
<1>6. UNCHANGED <<version, sessions, listed, cachedTag, scheduleEtag, selectedSession,
                  deletion, undone>>
  BY DEF SessionPage!Mutate, SessionPage!server, SessionPage!queries, SessionPage!panel
<1>7. \A u \in updates'[d] : u \in SessionPage!Update /\ UpdateIsTrue(u, version, sessions)
  <2>1. updates'[d] = {Late(u) : u \in updates[d]} \cup {n}
    BY <1>5 DEF SessionIInv, SessionTypes
  <2>2. \A u \in updates[d] : u \in SessionPage!Update /\ UpdateIsTrue(u, version, sessions)
    BY DEF SessionIInv, SessionTypes, CopiesInv
  <2>. QED
    BY <1>2, <1>3, <1>4, <2>1, <2>2
<1>8. updates' \in [Desks -> SUBSET SessionPage!Update] /\ \A e \in Desks \ {d} : updates'[e] = updates[e]
  BY <1>5, <1>7 DEF SessionIInv, SessionTypes
<1>9. \A e \in Desks : \A u \in updates'[e] : UpdateIsTrue(u, version, sessions)
  BY <1>7, <1>8 DEF SessionIInv, CopiesInv
<1>. QED
  BY <1>6, <1>8, <1>9
     DEF SessionIInv, SessionTypes, TagsInv, CopiesInv,
         SessionPage!CurrentPanelsKeepMarks

\* The operator's steps: an edit is sent with the copy in the panel.
LEMMA PanelKeeps ==
  ASSUME SessionIInv, NEW d \in Desks, SessionPage!Operator(d)
  PROVE  SessionIInv'
<1>1. CASE SessionPage!selectSession(d)
  <2>1. PICK s \in DOMAIN listed[d].list : selectedSession' = [selectedSession EXCEPT ![d] =
             [id |-> s, at |-> listed[d].at, present |-> listed[d].list[s]]]
    BY <1>1 DEF SessionPage!selectSession
  <2> DEFINE c == [id |-> s, at |-> listed[d].at, present |-> listed[d].list[s]]
  <2>2. listed[d] \in SessionList /\ ListIsTrue(listed[d], version, sessions)
    BY DEF SessionIInv, SessionTypes, CopiesInv
  <2>3. c \in SessionPage!Copy /\ CopyIsTrue(c, version, sessions)
    <3>1. listed[d].list \in SessionPage!Lists /\ listed[d].at \in SessionPage!Etags
      BY <2>2 DEF SessionList
    <3>2. s \in Sessions /\ listed[d].list[s] \subseteq Pupils
      BY <3>1, ListsAreFunctions
    <3>. QED
      BY <2>2, <3>1, <3>2 DEF SessionPage!Copy, CopyIsTrue, ListIsTrue
  <2>. HIDE DEF c
  <2>4. selectedSession' = [selectedSession EXCEPT ![d] = c]
    BY <2>1 DEF c
  <2>. QED
    BY <1>1, <2>3, <2>4
       DEF SessionPage!selectSession, SessionPage!server, SessionPage!queries,
           SessionPage!calls, SessionIInv, SessionTypes, TagsInv, CopiesInv,
           SessionPage!CurrentPanelsKeepMarks
<1>2. CASE SessionPage!handleSessionStatus(d)
  BY <1>2, MutateKeeps
     DEF SessionPage!handleSessionStatus, SessionPage!applySessionStatus
<1>3. CASE SessionPage!handleAttendance(d)
  <2>1. PICK p \in Pupils :
          LET present == selectedSession[d].present IN
          SessionPage!Mutate(d, p,
          IF p \in present THEN present \ {p} ELSE present \cup {p})
    BY <1>3 DEF SessionPage!handleAttendance
  <2>2. selectedSession[d] # None /\ selectedSession[d].present \subseteq Pupils
    BY <1>3
       DEF SessionPage!handleAttendance, SessionIInv, SessionTypes, SessionPage!Copy
  <2>. DEFINE present == selectedSession[d].present
              marked == IF p \in present THEN present \ {p} ELSE present \cup {p}
  <2>3. marked \in SUBSET Pupils /\ SessionPage!Mutate(d, p, marked)
    BY <2>1, <2>2
  <2>. QED
    BY <2>2, <2>3, MutateKeeps
<1>4. CASE SessionPage!handleReschedule(d)
  BY <1>4, MutateKeeps DEF SessionPage!handleReschedule
<1>5. CASE SessionPage!handleDeleteSession(d)
  <2>1. PICK s \in DOMAIN listed[d].list \cup
                   (IF selectedSession[d] = None THEN {} ELSE {selectedSession[d].id}) :
          deletion' = [deletion EXCEPT ![d] = [session |-> s, ifMatch |-> SessionPage!ifMatch(d)]]
    BY <1>5 DEF SessionPage!handleDeleteSession
  <2>2. s \in Sessions
    <3>1. listed[d].list \in SessionPage!Lists
      BY DEF SessionIInv, SessionTypes, SessionList
    <3>2. selectedSession[d] # None => selectedSession[d].id \in Sessions
      BY DEF SessionIInv, SessionTypes, SessionPage!Copy
    <3>. QED
      BY <2>1, <3>1, <3>2, ListsAreFunctions
  <2>3. [session |-> s, ifMatch |-> SessionPage!ifMatch(d)] \in Deletion
    BY <2>2, TagIsGiven DEF Deletion
  <2>. QED
    BY <1>5, <2>1, <2>3
       DEF SessionPage!handleDeleteSession, SessionPage!server, SessionPage!queries,
           SessionPage!panel, SessionIInv, SessionTypes, TagsInv, CopiesInv,
           SessionPage!CurrentPanelsKeepMarks
<1>. QED
  BY <1>1, <1>2, <1>3, <1>4, <1>5 DEF SessionPage!Operator

\* What arrives is what the server has.
LEMMA ArrivalsKeep ==
  ASSUME SessionIInv, NEW d \in Desks, SessionPage!ScheduleArrives(d) \/ SessionPage!SessionsArrive(d)
  PROVE  SessionIInv'
<1>1. version \in Nat
  BY EtagsAreNumbers DEF SessionIInv, SessionTypes
<1>2. CASE SessionPage!ScheduleArrives(d)
  <2>1. cachedTag' \in [Desks -> SessionPage!Etags]
        /\ \A e \in Desks : cachedTag'[e] \in {cachedTag[e], version}
    BY <1>2 DEF SessionPage!ScheduleArrives, SessionIInv, SessionTypes
  <2>2. UNCHANGED <<version, sessions, listed, scheduleEtag, selectedSession, updates,
                    deletion, undone>>
    BY <1>2
       DEF SessionPage!ScheduleArrives, SessionPage!server, SessionPage!panel,
           SessionPage!calls
  <2>3. ASSUME NEW e \in Desks PROVE cachedTag'[e] <= version
    BY <1>1, <2>1, <2>3 DEF SessionIInv, TagsInv
  <2>. QED
    BY <2>1, <2>2, <2>3
       DEF SessionIInv, SessionTypes, TagsInv, CopiesInv,
           SessionPage!CurrentPanelsKeepMarks
<1>3. CASE SessionPage!SessionsArrive(d)
  <2>1. [at |-> version, list |-> sessions] \in SessionList
    BY DEF SessionIInv, SessionTypes, SessionList
  <2>2. ListIsTrue([at |-> version, list |-> sessions], version, sessions)
    BY <1>1 DEF ListIsTrue
  <2>. DEFINE l == [at |-> version, list |-> sessions]
  <2>3. listed' = [listed EXCEPT ![d] = l]
    BY <1>3 DEF SessionPage!SessionsArrive
  <2>4. l \in SessionList /\ ListIsTrue(l, version, sessions)
    BY <2>1, <2>2
  <2>. HIDE DEF l
  <2>. QED
    BY <1>3, <2>3, <2>4
       DEF SessionPage!SessionsArrive, SessionPage!server, SessionPage!panel,
           SessionPage!calls, SessionIInv, SessionTypes, TagsInv, CopiesInv,
           SessionPage!CurrentPanelsKeepMarks
<1>. QED
  BY <1>2, <1>3

\* A write of the schedule makes every copy an older one.
LEMMA WriteAgesCopies ==
  ASSUME SessionIInv, version < MaxWrites, version' = version + 1
  PROVE  /\ version' \in SessionPage!Etags
         /\ \A d \in Desks :
              /\ cachedTag[d] <= version'
              /\ scheduleEtag[d] # None => scheduleEtag[d] <= version'
              /\ ListIsTrue(listed[d], version', sessions')
              /\ selectedSession[d] # None =>
                   CopyIsTrue(selectedSession[d], version', sessions')
              /\ \A u \in updates[d] : UpdateIsTrue(u, version', sessions')
<1>1. version \in Nat
  BY EtagsAreNumbers DEF SessionIInv, SessionTypes
<1>2. version' \in SessionPage!Etags
  BY <1>1, CatalogAssumption DEF SessionPage!Etags
<1>3. ASSUME NEW d \in Desks
      PROVE  /\ cachedTag[d] <= version'
             /\ scheduleEtag[d] # None => scheduleEtag[d] <= version'
  <2>1. cachedTag[d] \in Nat /\ (scheduleEtag[d] # None => scheduleEtag[d] \in Nat)
    BY EtagsAreNumbers DEF SessionIInv, SessionTypes
  <2>. QED
    BY <1>1, <2>1 DEF SessionIInv, TagsInv
<1>4. ASSUME NEW d \in Desks
      PROVE  /\ ListIsTrue(listed[d], version', sessions')
             /\ selectedSession[d] # None =>
                   CopyIsTrue(selectedSession[d], version', sessions')
             /\ \A u \in updates[d] : UpdateIsTrue(u, version', sessions')
  BY <1>1, OlderCopiesAreTrue DEF SessionIInv, SessionTypes, CopiesInv
<1>. QED
  BY <1>2, <1>3, <1>4

\* A PUT that succeeds was made under the server's tag: if its panel was not older,
\* it undoes nothing.
LEMMA NothingIsUndone ==
  ASSUME SessionIInv, NEW d \in Desks, NEW u \in updates[d], u.pupil # None,
         ~SessionPage!Refused(u.ifMatch, u.session), ~(u.at < u.ifMatch)
  PROVE  SessionPage!Undone(sessions[u.session], u) = {}
<1>1. u \in SessionPage!Update /\ UpdateIsTrue(u, version, sessions) /\ version \in Nat
  BY EtagsAreNumbers DEF SessionIInv, SessionTypes, CopiesInv
<1>2. u.at \in Nat /\ u.at = version
  <2>1. u.at \in Nat /\ u.ifMatch = version
    BY <1>1, EtagsAreNumbers DEF SessionPage!Update, SessionPage!Refused
  <2>2. u.at <= version
    BY <1>1 DEF UpdateIsTrue
  <2>. QED
    BY <1>1, <2>1, <2>2
<1>. QED
  BY <1>1, <1>2 DEF SessionPage!Refused, UpdateIsTrue

LEMMA UpdateSucceedsKeeps ==
  ASSUME SessionIInv, NEW d \in Desks, NEW u \in updates[d], SessionPage!UpdateSucceeds(d, u)
  PROVE  SessionIInv'
<1>1. u \in SessionPage!Update /\ u.session \in DOMAIN sessions /\ version' = version + 1
      /\ version < MaxWrites /\ ~SessionPage!Refused(u.ifMatch, u.session)
  BY DEF SessionIInv, SessionTypes, SessionPage!UpdateSucceeds, SessionPage!Refused
<1>2. sessions' \in SessionPage!Lists /\ DOMAIN sessions' = DOMAIN sessions
  <2>1. u.present \in SUBSET Pupils /\ sessions \in SessionPage!Lists
    BY <1>1 DEF SessionPage!Update, SessionIInv, SessionTypes
  <2>2. [sessions EXCEPT ![u.session] = u.present] \in SessionPage!Lists
    BY <1>1, <2>1, ListsAreClosed
  <2>. QED
    BY <2>1, <2>2 DEF SessionPage!UpdateSucceeds
<1>3. undone' \subseteq {"stale panel", "current panel"} /\ "current panel" \notin undone'
  <2>1. undone' \in {undone, undone \cup {}, undone \cup {"stale panel"}}
    BY <1>1, NothingIsUndone DEF SessionPage!UpdateSucceeds
  <2>. QED
    BY <2>1 DEF SessionIInv, SessionTypes, SessionPage!CurrentPanelsKeepMarks
<1>4. updates' = [updates EXCEPT ![d] = @ \ {u}]
      /\ UNCHANGED <<listed, cachedTag, deletion>>
  BY DEF SessionPage!UpdateSucceeds, SessionPage!queries
<1>5. updates' \in [Desks -> SUBSET SessionPage!Update] /\ \A e \in Desks : updates'[e] \subseteq updates[e]
  BY <1>4 DEF SessionIInv, SessionTypes
<1> DEFINE c == [id |-> u.session, at |-> version', present |-> sessions'[u.session]]
<1>6. version' \in SessionPage!Etags /\ version' \in Nat
  BY <1>1, WriteAgesCopies DEF SessionPage!Etags
<1>7. c \in SessionPage!Copy /\ CopyIsTrue(c, version', sessions')
  <2>1. u.session \in Sessions /\ sessions'[u.session] \subseteq Pupils
    BY <1>1, <1>2, ListsAreFunctions DEF SessionPage!Update
  <2>. QED
    BY <1>6, <2>1 DEF SessionPage!Copy, CopyIsTrue
<1>8. \/ selectedSession' = [selectedSession EXCEPT ![d] = c]
         /\ scheduleEtag' = [scheduleEtag EXCEPT ![d] = version']
      \/ UNCHANGED <<selectedSession, scheduleEtag>>
  BY DEF SessionPage!UpdateSucceeds
<1>. HIDE DEF c
<1>9. /\ selectedSession' \in [Desks -> SessionPage!Copy \cup {None}]
      /\ scheduleEtag' \in [Desks -> SessionPage!Etags \cup {None}]
  BY <1>6, <1>7, <1>8 DEF SessionIInv, SessionTypes
<1>10. SessionTypes'
  BY <1>2, <1>3, <1>4, <1>5, <1>6, <1>9 DEF SessionIInv, SessionTypes
<1>11. ASSUME NEW e \in Desks PROVE TagsInv(e)' /\ CopiesInv(e)'
  <2>1. /\ cachedTag[e] <= version'
        /\ scheduleEtag[e] # None => scheduleEtag[e] <= version'
        /\ ListIsTrue(listed[e], version', sessions')
        /\ selectedSession[e] # None => CopyIsTrue(selectedSession[e], version', sessions')
        /\ \A v \in updates[e] : UpdateIsTrue(v, version', sessions')
    BY <1>1, WriteAgesCopies
  <2>2. scheduleEtag'[e] # None => scheduleEtag'[e] <= version'
    <3>1. scheduleEtag'[e] \in {scheduleEtag[e], version'}
      BY <1>8 DEF SessionIInv, SessionTypes
    <3>. QED
      BY <1>6, <2>1, <3>1
  <2>3. selectedSession'[e] # None => CopyIsTrue(selectedSession'[e], version', sessions')
    BY <1>7, <1>8, <2>1 DEF SessionIInv, SessionTypes
  <2>. QED
    BY <1>4, <1>5, <2>1, <2>2, <2>3 DEF TagsInv, CopiesInv
<1>. QED
  BY <1>3, <1>10, <1>11 DEF SessionIInv, SessionPage!CurrentPanelsKeepMarks

LEMMA DeletionSucceedsKeeps ==
  ASSUME SessionIInv, NEW d \in Desks, SessionPage!DeletionSucceeds(d)
  PROVE  SessionIInv'
<1>1. version' = version + 1 /\ version < MaxWrites /\ undone' = undone
      /\ UNCHANGED <<listed, cachedTag, updates>>
  BY DEF SessionPage!DeletionSucceeds, SessionPage!queries
<1>2. sessions' \in SessionPage!Lists
  BY ListsAreClosed DEF SessionPage!DeletionSucceeds, SessionIInv, SessionTypes
<1>3. /\ version' \in SessionPage!Etags
      /\ \A e \in Desks :
              /\ cachedTag[e] <= version'
              /\ scheduleEtag[e] # None => scheduleEtag[e] <= version'
              /\ ListIsTrue(listed[e], version', sessions')
              /\ selectedSession[e] # None =>
                   CopyIsTrue(selectedSession[e], version', sessions')
              /\ \A u \in updates[e] : UpdateIsTrue(u, version', sessions')
  BY <1>1, WriteAgesCopies
<1>4. /\ selectedSession' \in [Desks -> SessionPage!Copy \cup {None}]
      /\ \A e \in Desks : selectedSession'[e] \in {selectedSession[e], None}
  BY DEF SessionPage!DeletionSucceeds, SessionIInv, SessionTypes
<1>5. /\ scheduleEtag' \in [Desks -> SessionPage!Etags \cup {None}]
      /\ \A e \in Desks : scheduleEtag'[e] \in {scheduleEtag[e], None}
  BY DEF SessionPage!DeletionSucceeds, SessionIInv, SessionTypes
<1>6. deletion' \in [Desks -> Deletion \cup {None}]
  BY DEF SessionPage!DeletionSucceeds, SessionIInv, SessionTypes
<1>7. SessionTypes'
  BY <1>1, <1>2, <1>3, <1>4, <1>5, <1>6 DEF SessionIInv, SessionTypes
<1>8. \A e \in Desks : TagsInv(e)' /\ CopiesInv(e)'
  BY <1>1, <1>3, <1>4, <1>5 DEF TagsInv, CopiesInv
<1>. QED
  BY <1>1, <1>7, <1>8 DEF SessionIInv, SessionPage!CurrentPanelsKeepMarks

\* What others write has a tag of its own.
LEMMA ElsewhereKeeps ==
  ASSUME SessionIInv, SessionPage!Elsewhere
  PROVE  SessionIInv'
<1>1. version' = version + 1 /\ version < MaxWrites
      /\ UNCHANGED <<listed, cachedTag, scheduleEtag, selectedSession, updates, deletion,
                     undone>>
  BY
     DEF SessionPage!Elsewhere, SessionPage!queries, SessionPage!panel,
         SessionPage!calls
<1>2. sessions' \in SessionPage!Lists
  <2>1. sessions \in SessionPage!Lists
    BY DEF SessionIInv, SessionTypes
  <2>2. CASE UNCHANGED sessions
    BY <2>1, <2>2
  <2>3. ASSUME NEW s \in DOMAIN sessions, NEW p \in Pupils,
               sessions' = [sessions EXCEPT ![s] = IF p \in @ THEN @ \ {p} ELSE @ \cup {p}]
        PROVE  sessions' \in SessionPage!Lists
    <3> DEFINE m == IF p \in sessions[s] THEN sessions[s] \ {p} ELSE sessions[s] \cup {p}
    <3>1. m \in SUBSET Pupils /\ sessions' = [sessions EXCEPT ![s] = m]
      BY <2>1, <2>3, ListsAreFunctions
    <3>. QED
      BY <2>1, <3>1, ListsAreClosed
  <2>4. CASE \E s \in DOMAIN sessions :
               sessions' = [r \in DOMAIN sessions \ {s} |-> sessions[r]]
    BY <2>1, <2>4, ListsAreClosed
  <2>. QED
    BY <2>2, <2>3, <2>4 DEF SessionPage!Elsewhere
<1>3. /\ version' \in SessionPage!Etags
      /\ \A e \in Desks :
              /\ cachedTag[e] <= version'
              /\ scheduleEtag[e] # None => scheduleEtag[e] <= version'
              /\ ListIsTrue(listed[e], version', sessions')
              /\ selectedSession[e] # None =>
                   CopyIsTrue(selectedSession[e], version', sessions')
              /\ \A u \in updates[e] : UpdateIsTrue(u, version', sessions')
  BY <1>1, WriteAgesCopies
<1>4. SessionTypes'
  BY <1>1, <1>2, <1>3 DEF SessionIInv, SessionTypes
<1>5. \A e \in Desks : TagsInv(e)' /\ CopiesInv(e)'
  BY <1>1, <1>3 DEF TagsInv, CopiesInv
<1>. QED
  BY <1>1, <1>4, <1>5 DEF SessionIInv, SessionPage!CurrentPanelsKeepMarks

LEMMA SessionNextKeeps ==
  ASSUME SessionIInv, [SessionPage!Next]_(SessionPage!vars)
  PROVE  SessionIInv'
<1>1. ASSUME NEW d \in Desks, NEW u \in updates[d], SessionPage!UpdateFails(d, u)
      PROVE  SessionIInv'
  <2>1. updates' = [updates EXCEPT ![d] = @ \ {u}]
        /\ UNCHANGED <<version, sessions, listed, cachedTag, scheduleEtag,
                       selectedSession, deletion, undone>>
    BY <1>1
       DEF SessionPage!UpdateFails, SessionPage!server, SessionPage!queries,
           SessionPage!panel
  <2>2. updates' \in [Desks -> SUBSET SessionPage!Update] /\ \A e \in Desks : updates'[e] \subseteq updates[e]
    BY <2>1 DEF SessionIInv, SessionTypes
  <2>. QED
    BY <2>1, <2>2
       DEF SessionIInv, SessionTypes, TagsInv, CopiesInv,
           SessionPage!CurrentPanelsKeepMarks
<1>2. ASSUME NEW d \in Desks, SessionPage!DeletionFails(d)
      PROVE  SessionIInv'
  <2>1. deletion' = [deletion EXCEPT ![d] = None]
        /\ UNCHANGED <<version, sessions, listed, cachedTag, scheduleEtag,
                       selectedSession, updates, undone>>
    BY <1>2
       DEF SessionPage!DeletionFails, SessionPage!server, SessionPage!queries,
           SessionPage!panel
  <2>. QED
    BY <2>1
       DEF SessionIInv, SessionTypes, TagsInv, CopiesInv,
           SessionPage!CurrentPanelsKeepMarks
<1>3. CASE UNCHANGED SessionPage!vars
  BY <1>3
     DEF SessionPage!vars, SessionPage!server, SessionPage!queries,
         SessionPage!panel, SessionPage!calls, SessionIInv, SessionTypes, TagsInv,
         CopiesInv,
              SessionPage!CurrentPanelsKeepMarks
<1>. QED
  BY <1>1, <1>2, <1>3, PanelKeeps, ArrivalsKeep, UpdateSucceedsKeeps,
     DeletionSucceedsKeeps, ElsewhereKeeps
     DEF SessionPage!Next, SessionPage!Answer

LEMMA SessionIInvHolds ==
  SessionPage!Spec => []SessionIInv
<1>1. SessionPage!Init => SessionIInv
  BY SessionInitIInv
<1>2. SessionIInv /\ [SessionPage!Next]_(SessionPage!vars) => SessionIInv'
  BY SessionNextKeeps
<1>. QED
  BY <1>1, <1>2, PTL DEF SessionPage!Spec

-----------------------------------------------------------------------------
(* The two pages                                                            *)

\* Each page sees a step of its own, or none.
LEMMA PagesAreIndependent ==
  /\ PagesSpec => Spec
  /\ PagesSpec => SessionPage!Spec
<1>1. PagesInit => Init /\ SessionPage!Init
  BY DEF PagesInit
<1>2. [PagesNext]_<<catalogVars, sessionVars, page>> => [Next]_vars
  BY DEF PagesNext, catalogVars
<1>3. [PagesNext]_<<catalogVars, sessionVars, page>> => [SessionPage!Next]_(SessionPage!vars)
  <2>1. UNCHANGED sessionVars => UNCHANGED SessionPage!vars
    BY DEF sessionVars, SessionPage!vars, SessionPage!server, SessionPage!queries,
           SessionPage!panel, SessionPage!calls
  <2>. QED
    BY <2>1 DEF PagesNext
<1>. QED
  BY <1>1, <1>2, <1>3, PTL DEF PagesSpec, Spec, SessionPage!Spec

\* On the pages of the catalogs: values are unique, a desk shows its own writes, and a
\* PUT from a copy the server still has changes one item.
THEOREM CatalogPagesAreSafe ==
  /\ PagesSpec => []ValuesAreUnique
  /\ PagesSpec => []OwnWritesShown
  /\ PagesSpec => CurrentCopiesEditOneItem
BY PagesAreIndependent, UniqueValues, OwnWritesAreShown, CurrentCopiesEdit, PTL

\* The types of both pages, for any number of desks on either.
THEOREM PagesTypeCorrect == PagesSpec => []PagesTypeOK
<1>1. Spec => []TypeOK
  BY TypeCorrect
<1>2. SessionIInv => SessionPage!TypeOK
  BY DEF SessionIInv, SessionTypes, SessionPage!TypeOK, TagsInv, CopiesInv, ListIsTrue,
         SessionList, Deletion
<1>. QED
  BY <1>1, <1>2, SessionIInvHolds, PagesAreIndependent, PTL DEF PagesTypeOK

\* On the detail page, marking a pupil from a panel that is not older than the tag
\* sent with it undoes no other mark, whatever other desks and the reloads do.
THEOREM CurrentPanelsAreSafe == PagesSpec => []CurrentPanelsKeepMarks
<1>1. SessionIInv => CurrentPanelsKeepMarks
  BY DEF SessionIInv, CurrentPanelsKeepMarks
<1>. QED
  BY <1>1, SessionIInvHolds, PagesAreIndependent, PTL

-----------------------------------------------------------------------------
(* The repository                                                           *)

\* The inductive invariant: types, and the snapshot every worker holds.
RepositoryIInv == RepositoryTypeOK /\ EntityIsSnapshot

-----------------------------------------------------------------------------

\* A document is never the value that stands for no document.
LEMMA DocIsNotNoDoc == \A d \in Doc : d # NoDoc
  BY NoDocAssumption DEF Doc

\* The entity an UpdateAsync or a SoftDeleteAsync writes is stored as a
\* document with the next version.
LEMMA ReplacedIsDoc ==
  ASSUME NEW d \in Doc, NEW e \in Doc
  PROVE  /\ Replaced(d, e) \in Doc
         /\ Replaced(d, e).active = e.active
         /\ Replaced(d, e).content = e.content
         /\ Replaced(d, e).etag = d.etag + 1
  BY DEF Doc, Replaced

\* The entity UpdateReplace builds, and the one SoftDeleteReplace builds.
LEMMA EditedIsDoc ==
  ASSUME NEW w \in Workers, entity[w] \in Doc,
         NEW e \in Edits, NEW active \in BOOLEAN, NEW ifMatch \in 1 .. entity[w].etag
  PROVE  [active |-> active, etag |-> ifMatch,
          content |-> entity[w].content \cup {e}] \in Doc
  BY DEF Doc

LEMMA DeactivatedIsDoc ==
  ASSUME NEW d \in Doc
  PROVE  /\ Deactivated(d) \in Doc
         /\ Deactivated(d).active = FALSE
         /\ Deactivated(d).content = d.content
         /\ Deactivated(d).etag = d.etag
  BY DEF Doc, Deactivated

-----------------------------------------------------------------------------
(* What a conditional replace does, whatever the handler.                   *)

\* The writes of the handlers, seen from the stored documents: worker w, which
\* holds the entity of target[w], stores e there if e carries the current tag.
WriteOf(w, e) ==
  /\ pc[w] \in {"update", "delete"}
  /\ e \in Doc
  /\ e.etag <= entity[w].etag
  /\ entity[w].content \subseteq e.content
  /\ ReplaceIfMatch(target[w], e)
  /\ Reply(w)

\* UpdateReplace is such a write, of an entity with one more edit.
LEMMA UpdateIsWrite ==
  ASSUME RepositoryIInv, NEW w \in Workers, UpdateReplace(w)
  PROVE  \E e \in Doc : WriteOf(w, e) /\ \E x \in Edits : e.content = entity[w].content \cup {x}
<1>1. entity[w] \in Doc /\ pc[w] = "update"
  BY DEF RepositoryIInv, RepositoryTypeOK, UpdateReplace
<1>2. PICK x \in Edits, active \in BOOLEAN, ifMatch \in 1 .. entity[w].etag :
        ReplaceIfMatch(target[w], [active |-> active, etag |-> ifMatch,
                                   content |-> entity[w].content \cup {x}])
  BY DEF UpdateReplace
<1> DEFINE e == [active |-> active, etag |-> ifMatch, content |-> entity[w].content \cup {x}]
<1>3. e \in Doc
  BY <1>1, EditedIsDoc
<1>4. e.etag <= entity[w].etag /\ e.content = entity[w].content \cup {x}
  BY <1>1 DEF Doc
<1>5. WriteOf(w, e)
  BY <1>1, <1>2, <1>3, <1>4 DEF WriteOf, UpdateReplace
<1>. QED
  BY <1>3, <1>4, <1>5

\* SoftDeleteReplace is such a write, of an inactive entity.
LEMMA DeleteIsWrite ==
  ASSUME RepositoryIInv, NEW w \in Workers, SoftDeleteReplace(w)
  PROVE  \E e \in Doc : WriteOf(w, e) /\ ~ e.active /\ e.content = entity[w].content
<1>1. entity[w] \in Doc /\ pc[w] = "delete"
  BY DEF RepositoryIInv, RepositoryTypeOK, SoftDeleteReplace
<1>2. /\ Deactivated(entity[w]) \in Doc
      /\ Deactivated(entity[w]).active = FALSE
      /\ Deactivated(entity[w]).content = entity[w].content
      /\ Deactivated(entity[w]).etag = entity[w].etag
  BY <1>1, DeactivatedIsDoc
<1>3. entity[w].etag <= entity[w].etag
  BY <1>1 DEF Doc
<1>4. WriteOf(w, Deactivated(entity[w]))
  BY <1>1, <1>2, <1>3 DEF WriteOf, SoftDeleteReplace
<1>. QED
  BY <1>2, <1>4

\* A conditional replace leaves every document alone, or replaces exactly the
\* live document the worker has read, which keeps all its edits.
LEMMA WriteEffect ==
  ASSUME RepositoryIInv, NEW w \in Workers, NEW e \in Doc, WriteOf(w, e)
  PROVE  \/ doc' = doc
         \/ /\ target[w] \in Ids
            /\ doc[target[w]] = entity[w]
            /\ doc[target[w]] \in Doc
            /\ doc[target[w]].active
            /\ doc' = [doc EXCEPT ![target[w]] = Replaced(doc[target[w]], e)]
<1>1. /\ target[w] \in Ids /\ entity[w] \in Doc
      /\ doc[target[w]] # NoDoc
      /\ doc[target[w]] \in Doc \cup {NoDoc}
      /\ entity[w].active
      /\ entity[w].etag <= doc[target[w]].etag
      /\ TagMatches(doc[target[w]], entity[w]) => doc[target[w]] = entity[w]
  BY DEF RepositoryIInv, RepositoryTypeOK, EntityIsSnapshot, WriteOf
<1>2. CASE ~ TagMatches(doc[target[w]], e)
  BY <1>2 DEF WriteOf, ReplaceIfMatch
<1>3. CASE TagMatches(doc[target[w]], e)
  <2>1. entity[w].etag = doc[target[w]].etag
    BY <1>1, <1>3 DEF TagMatches, WriteOf, Doc
  <2>2. doc[target[w]] = entity[w]
    BY <1>1, <2>1 DEF TagMatches
  <2>. QED
    BY <1>1, <1>3, <2>2 DEF WriteOf, ReplaceIfMatch
<1>. QED
  BY <1>2, <1>3

\* A conditional replace preserves the invariant.
LEMMA WritePreservesInv ==
  ASSUME RepositoryIInv, NEW w \in Workers, NEW e \in Doc, WriteOf(w, e)
  PROVE  RepositoryIInv'
<1>1. RepositoryTypeOK'
  <2>1. doc' \in [Ids -> Doc \cup {NoDoc}]
    BY WriteEffect, ReplacedIsDoc DEF RepositoryIInv, RepositoryTypeOK
  <2>2. /\ pc' \in [Workers -> PC]
        /\ target' \in [Workers -> Ids \cup {NoDoc}]
        /\ entity' \in [Workers -> Doc \cup {NoDoc}]
        /\ readPage' = readPage /\ todo' = todo
    BY DEF RepositoryIInv, RepositoryTypeOK, WriteOf, Reply, PC
  <2>3. \A v \in Workers :
          pc'[v] \in {"update", "delete"} => target'[v] \in Ids /\ entity'[v] \in Doc
    BY DEF RepositoryIInv, RepositoryTypeOK, WriteOf, Reply, PC
  <2>. QED
    BY <2>1, <2>2, <2>3 DEF RepositoryIInv, RepositoryTypeOK
<1>2. EntityIsSnapshot'
  <2> SUFFICES ASSUME NEW v \in Workers, pc'[v] \in {"update", "delete"}
               PROVE  /\ doc'[target'[v]] # NoDoc
                      /\ entity'[v].active
                      /\ entity'[v].etag <= doc'[target'[v]].etag
                      /\ TagMatches(doc'[target'[v]], entity'[v])
                           => doc'[target'[v]] = entity'[v]
    BY DEF EntityIsSnapshot, TagMatches
  <2>1. /\ v # w
        /\ pc'[v] = pc[v] /\ target'[v] = target[v] /\ entity'[v] = entity[v]
    BY DEF RepositoryIInv, RepositoryTypeOK, WriteOf, Reply
  <2>2. /\ target[v] \in Ids /\ entity[v] \in Doc
        /\ doc[target[v]] # NoDoc
        /\ doc[target[v]] \in Doc
        /\ entity[v].active
        /\ entity[v].etag <= doc[target[v]].etag
        /\ TagMatches(doc[target[v]], entity[v]) => doc[target[v]] = entity[v]
    BY <2>1 DEF RepositoryIInv, RepositoryTypeOK, EntityIsSnapshot
  <2>3. CASE doc'[target[v]] = doc[target[v]]
    BY <2>1, <2>2, <2>3
  <2>4. CASE doc'[target[v]] # doc[target[v]]
    <3>1. doc'[target[v]] = Replaced(doc[target[v]], e)
      BY <2>2, <2>4, WriteEffect DEF RepositoryIInv, RepositoryTypeOK
    <3>2. doc'[target[v]] \in Doc /\ doc'[target[v]].etag = doc[target[v]].etag + 1
      BY <2>2, <3>1, ReplacedIsDoc
    <3>3. doc'[target[v]] # NoDoc
      BY <3>2, DocIsNotNoDoc
    <3>4. /\ entity[v].etag <= doc'[target[v]].etag
          /\ entity[v].etag # doc'[target[v]].etag
      BY <2>2, <3>2 DEF Doc
    <3>. QED
      BY <2>1, <2>2, <3>3, <3>4 DEF TagMatches
  <2>. QED
    BY <2>3, <2>4
<1>. QED
  BY <1>1, <1>2 DEF RepositoryIInv

-----------------------------------------------------------------------------
(* The inductive invariant.                                                 *)

LEMMA RepositoryInitInv == RepositoryInit => RepositoryIInv
  BY DEF RepositoryInit, RepositoryIInv, RepositoryTypeOK, EntityIsSnapshot, PC, NoPage

\* Create stores a new document under an id no worker holds an entity of.
LEMMA CreatePreservesInv ==
  ASSUME RepositoryIInv, NEW w \in Workers, NEW i \in Ids, Create(w, i)
  PROVE  RepositoryIInv'
<1>1. PICK c \in SUBSET Edits :
        doc' = [doc EXCEPT ![i] = [active |-> TRUE, etag |-> FirstVersion, content |-> c]]
  BY DEF Create
<1>2. [active |-> TRUE, etag |-> FirstVersion, content |-> c] \in Doc
  BY DEF Doc, FirstVersion
<1>3. RepositoryTypeOK'
  BY <1>1, <1>2 DEF RepositoryIInv, RepositoryTypeOK, Create
<1>4. EntityIsSnapshot'
  BY <1>1 DEF RepositoryIInv, RepositoryTypeOK, EntityIsSnapshot, Create, TagMatches
<1>. QED
  BY <1>3, <1>4 DEF RepositoryIInv

\* Load fills the worker's entity with the live document it has just read.
LEMMA LoadPreservesInv ==
  ASSUME RepositoryIInv, NEW w \in Workers, NEW i \in Ids, NEW next \in {"update", "delete"},
         Load(w, i, next)
  PROVE  RepositoryIInv'
<1>1. /\ doc[i] \in Doc /\ doc[i] # NoDoc /\ doc[i].active
      /\ doc[i].etag <= doc[i].etag
  BY DEF RepositoryIInv, RepositoryTypeOK, Load, Readable, Doc
<1>2. RepositoryTypeOK'
  BY <1>1 DEF RepositoryIInv, RepositoryTypeOK, Load, PC
<1>3. EntityIsSnapshot'
  BY <1>1 DEF RepositoryIInv, RepositoryTypeOK, EntityIsSnapshot, Load, TagMatches
<1>. QED
  BY <1>2, <1>3 DEF RepositoryIInv

\* Every request preserves the invariant, whatever the others have done
\* between its read and its write.
LEMMA NextPreservesInv == RepositoryIInv /\ [HandlerNext \/ Quiet]_repositoryVars => RepositoryIInv'
<1> SUFFICES ASSUME RepositoryIInv, [HandlerNext \/ Quiet]_repositoryVars
             PROVE  RepositoryIInv'
  OBVIOUS
<1>1. ASSUME NEW w \in Workers, NEW i \in Ids, Create(w, i)
      PROVE  RepositoryIInv'
  BY <1>1, CreatePreservesInv
<1>2. ASSUME NEW w \in Workers, NEW i \in Ids, UpdateRead(w, i)
      PROVE  RepositoryIInv'
  BY <1>2, LoadPreservesInv DEF UpdateRead
<1>3. ASSUME NEW w \in Workers, NEW i \in Ids, SoftDeleteRead(w, i)
      PROVE  RepositoryIInv'
  BY <1>3, LoadPreservesInv DEF SoftDeleteRead
<1>4. ASSUME NEW w \in Workers, UpdateReplace(w)
      PROVE  RepositoryIInv'
  BY <1>4, UpdateIsWrite, WritePreservesInv
<1>5. ASSUME NEW w \in Workers, SoftDeleteReplace(w)
      PROVE  RepositoryIInv'
  BY <1>5, DeleteIsWrite, WritePreservesInv
<1>6. CASE UNCHANGED repositoryVars
  BY <1>6 DEF RepositoryIInv, RepositoryTypeOK, EntityIsSnapshot, TagMatches, repositoryVars
<1>. QED
  BY <1>1, <1>2, <1>3, <1>4, <1>5, <1>6 DEF HandlerNext, Quiet

LEMMA InvHolds == RepositorySpec => []RepositoryIInv
  BY RepositoryInitInv, NextPreservesInv, PTL DEF RepositorySpec

\* Every reachable state has well-typed documents, and a request about to
\* write holds the entity of an existing id (GetByIdAsync's null check).
THEOREM RepositoryTypeCorrect == RepositorySpec => []RepositoryTypeOK
  BY InvHolds, PTL DEF RepositoryIInv

\* An entity in memory whose tag still matches is the stored document, word for
\* word: the reason UpdateAsync may replace a whole document.
THEOREM SnapshotHolds == RepositorySpec => []EntityIsSnapshot
  BY InvHolds, PTL DEF RepositoryIInv

-----------------------------------------------------------------------------
(* Action properties.                                                       *)

\* What one request can do to the documents.
LEMMA StepEffect ==
  ASSUME RepositoryIInv, [HandlerNext \/ Quiet]_repositoryVars
  PROVE  \/ doc' = doc
         \/ \E i \in Ids, c \in SUBSET Edits :
              /\ doc[i] = NoDoc
              /\ doc' = [doc EXCEPT ![i] =
                           [active |-> TRUE, etag |-> FirstVersion, content |-> c]]
         \/ \E i \in Ids, e \in Doc :
              /\ doc[i] \in Doc
              /\ doc[i].active
              /\ \/ \E x \in Edits : e.content = doc[i].content \cup {x}
                 \/ ~ e.active /\ e.content = doc[i].content
              /\ doc' = [doc EXCEPT ![i] = Replaced(doc[i], e)]
<1>1. ASSUME NEW w \in Workers, NEW i \in Ids,
             Create(w, i) \/ UpdateRead(w, i) \/ SoftDeleteRead(w, i)
      PROVE  \/ doc' = doc
             \/ \E c \in SUBSET Edits :
                  /\ doc[i] = NoDoc
                  /\ doc' = [doc EXCEPT ![i] =
                               [active |-> TRUE, etag |-> FirstVersion, content |-> c]]
  BY <1>1 DEF Create, UpdateRead, SoftDeleteRead, Load
<1>2. ASSUME NEW w \in Workers, UpdateReplace(w)
      PROVE  \/ doc' = doc
             \/ \E i \in Ids, e \in Doc :
                  /\ doc[i] \in Doc /\ doc[i].active
                  /\ \E x \in Edits : e.content = doc[i].content \cup {x}
                  /\ doc' = [doc EXCEPT ![i] = Replaced(doc[i], e)]
  <2>1. PICK e \in Doc : WriteOf(w, e) /\ \E x \in Edits : e.content = entity[w].content \cup {x}
    BY <1>2, UpdateIsWrite
  <2>. QED
    BY <2>1, WriteEffect
<1>3. ASSUME NEW w \in Workers, SoftDeleteReplace(w)
      PROVE  \/ doc' = doc
             \/ \E i \in Ids, e \in Doc :
                  /\ doc[i] \in Doc /\ doc[i].active
                  /\ ~ e.active /\ e.content = doc[i].content
                  /\ doc' = [doc EXCEPT ![i] = Replaced(doc[i], e)]
  <2>1. PICK e \in Doc : WriteOf(w, e) /\ ~ e.active /\ e.content = entity[w].content
    BY <1>3, DeleteIsWrite
  <2>. QED
    BY <2>1, WriteEffect
<1>. QED
  BY <1>1, <1>2, <1>3 DEF HandlerNext, Quiet, repositoryVars

\* A soft-deleted document is history: no request that read it earlier, and no
\* later one, changes it again.
THEOREM DeletedDocumentsStayDeleted == RepositorySpec => DeletedStaysDeleted
<1>1. RepositoryIInv /\ [HandlerNext \/ Quiet]_repositoryVars
        => [\A i \in Existing : ~ doc[i].active => doc'[i] = doc[i]]_repositoryVars
  <2> SUFFICES ASSUME RepositoryIInv, [HandlerNext \/ Quiet]_repositoryVars,
                      NEW i \in Ids, doc[i] # NoDoc, ~ doc[i].active
               PROVE  doc'[i] = doc[i]
    BY DEF Existing
  <2>. QED
    BY StepEffect DEF RepositoryIInv, RepositoryTypeOK
<1>. QED
  BY <1>1, InvHolds, PTL DEF RepositorySpec, DeletedStaysDeleted

\* No write of a request loses an edit another request has stored.
THEOREM NoEditIsLost == RepositorySpec => NoLostEdit
<1>1. RepositoryIInv /\ [HandlerNext \/ Quiet]_repositoryVars
        => [\A i \in Existing : doc[i].content \subseteq doc'[i].content]_repositoryVars
  <2> SUFFICES ASSUME RepositoryIInv, [HandlerNext \/ Quiet]_repositoryVars,
                      NEW i \in Ids, doc[i] # NoDoc
               PROVE  doc[i].content \subseteq doc'[i].content
    BY DEF Existing
  <2>1. ASSUME NEW j \in Ids, NEW e \in Doc, doc[j] \in Doc,
               doc[j].content \subseteq e.content,
               doc' = [doc EXCEPT ![j] = Replaced(doc[j], e)]
        PROVE  doc[i].content \subseteq doc'[i].content
    BY <2>1, ReplacedIsDoc DEF RepositoryIInv, RepositoryTypeOK
  <2>. QED
    BY <2>1, StepEffect DEF RepositoryIInv, RepositoryTypeOK
<1>. QED
  BY <1>1, InvHolds, PTL DEF RepositorySpec, NoLostEdit

-----------------------------------------------------------------------------
(* Refinement.                                                              *)

LifeNow == [i \in Ids |-> LifeOf(doc[i])]

LEMMA LifeOfNoDoc == LifeOf(NoDoc) = Lifecycle!Absent
  BY DEF LifeOf, Lifecycle!Absent

LEMMA LifeOfDoc ==
  ASSUME NEW d \in Doc
  PROVE  LifeOf(d) = IF d.active THEN Lifecycle!Live(d.content)
                                 ELSE Lifecycle!Gone(d.content)
  BY DocIsNotNoDoc DEF LifeOf, Readable, Lifecycle!Live, Lifecycle!Gone

\* Each request, read and conditional write together, looks like one atomic
\* operation on the life of a document, or like nothing at all.
THEOREM Refinement == RepositorySpec => ImplementsLifecycle
<1>1. RepositoryInit => Lifecycle!Init
  BY LifeOfNoDoc DEF RepositoryInit, Lifecycle!Init
<1>2. RepositoryIInv /\ [HandlerNext \/ Quiet]_repositoryVars => [Lifecycle!Next]_LifeNow
  <2> SUFFICES ASSUME RepositoryIInv, [HandlerNext \/ Quiet]_repositoryVars
               PROVE  Lifecycle!Next \/ LifeNow' = LifeNow
    OBVIOUS
  <2>1. CASE doc' = doc
    BY <2>1 DEF LifeNow, LifeOf, Readable
  <2>2. ASSUME NEW i \in Ids, NEW c \in SUBSET Edits, doc[i] = NoDoc,
               doc' = [doc EXCEPT ![i] =
                         [active |-> TRUE, etag |-> FirstVersion, content |-> c]]
        PROVE  Lifecycle!Next
    <3>1. LifeNow[i] = Lifecycle!Absent
      BY <2>2, LifeOfNoDoc DEF LifeNow
    <3>2. doc'[i] \in Doc /\ doc'[i].active /\ doc'[i].content = c
      BY <2>2 DEF RepositoryIInv, RepositoryTypeOK, Doc, FirstVersion
    <3>3. LifeOf(doc'[i]) = Lifecycle!Live(c)
      BY <3>2, LifeOfDoc
    <3>4. LifeNow' = [LifeNow EXCEPT ![i] = Lifecycle!Live(c)]
      BY <2>2, <3>3 DEF RepositoryIInv, RepositoryTypeOK, LifeNow
    <3>. QED
      BY <3>1, <3>4 DEF Lifecycle!Next, Lifecycle!Create, LifeNow
  <2>3. ASSUME NEW i \in Ids, NEW e \in Doc, doc[i] \in Doc, doc[i].active,
               \/ \E x \in Edits : e.content = doc[i].content \cup {x}
               \/ ~ e.active /\ e.content = doc[i].content,
               doc' = [doc EXCEPT ![i] = Replaced(doc[i], e)]
        PROVE  Lifecycle!Next
    <3>1. LifeNow[i] = Lifecycle!Live(doc[i].content)
      BY <2>3, LifeOfDoc DEF LifeNow
    <3>2. /\ doc'[i] \in Doc /\ doc'[i].active = e.active
          /\ doc'[i].content = e.content
      BY <2>3, ReplacedIsDoc DEF RepositoryIInv, RepositoryTypeOK
    <3>3. LifeOf(doc'[i]) = IF e.active THEN Lifecycle!Live(e.content)
                                        ELSE Lifecycle!Gone(e.content)
      BY <3>2, LifeOfDoc
    <3>4. LifeNow' = [LifeNow EXCEPT ![i] =
                        IF e.active THEN Lifecycle!Live(e.content)
                                    ELSE Lifecycle!Gone(e.content)]
      BY <2>3, <3>3 DEF RepositoryIInv, RepositoryTypeOK, LifeNow
    <3>5. CASE \E x \in Edits : e.content = doc[i].content \cup {x}
      <4>1. e.active \in BOOLEAN
        BY DEF Doc
      <4>2. /\ LifeNow[i].stage = "live"
            /\ LifeNow[i].content = doc[i].content
        BY <3>1 DEF Lifecycle!Live
      <4>3. PICK x \in Edits : e.content = LifeNow[i].content \cup {x}
        BY <3>5, <4>2
      <4>4. Lifecycle!Edit(i)
        BY <3>4, <4>1, <4>2, <4>3 DEF Lifecycle!Edit, LifeNow
      <4>. QED
        BY <4>4 DEF Lifecycle!Next
    <3>6. CASE ~ e.active /\ e.content = doc[i].content
      <4>1. /\ LifeNow[i].stage = "live"
            /\ LifeNow[i].content = doc[i].content
        BY <3>1 DEF Lifecycle!Live
      <4>. QED
        BY <3>4, <3>6, <4>1 DEF Lifecycle!Next, Lifecycle!Delete, LifeNow
    <3>. QED
      BY <2>3, <3>5, <3>6
  <2>. QED
    BY <2>1, <2>2, <2>3, StepEffect
<1>. QED
  BY <1>1, <1>2, InvHolds, PTL DEF RepositorySpec, ImplementsLifecycle, Lifecycle!Spec, LifeNow
================================================================================
