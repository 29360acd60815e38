------------------------------ MODULE PaymentDesk ------------------------------
(***************************************************************************)
(* The payments of one enrollment, registered from the payments page       *)
(* (student-payments/page.tsx) and from the block inside the enrollment    *)
(* form (enrollment-payments-block.tsx) of several browsers at once.  The  *)
(* server checks neither balance nor installments: both rules are checked  *)
(* against the history a browser has loaded, 25 payments per request.      *)
(*                                                                         *)
(* slips is history: the ways in which the payments registered so far have *)
(* escaped the rules of the forms.                                         *)
(***************************************************************************)
EXTENDS InfiniteLists, FiniteSets

CONSTANTS
    PageDesks,      \* browsers on the payments page
    BlockDesks,     \* browsers on the payments block of the enrollment
    MaxPayments,    \* bound: payments that are ever created
    InitialPayment, \* the list with what the wizard has registered, if anything
    Price,          \* schedulePrice of the enrollment
    Amounts,        \* amounts that can be entered
    Cuotas,         \* installment numbers that can be entered
    Limit,          \* payments per request (25)
    MaxTrouble,     \* bound: updates, and mutations that fail or whose answer is
                    \* lost, together
    MaxSlips,       \* bound: ways of escaping the rules before a behaviour ends
    None

Desks == PageDesks \cup BlockDesks

ASSUME DesksAssumption == PageDesks \cap BlockDesks = {}
ASSUME MoneyAssumption ==
    Price \in Nat /\ Amounts \subseteq Nat \ {0} /\ Cuotas \subseteq Nat \ {0}
ASSUME BoundsAssumption ==
    Limit \in Nat \ {0} /\ MaxPayments \in Nat /\ MaxTrouble \in Nat /\ MaxSlips \in Nat

\* The wizard registers one payment at most.
ASSUME InitialAssumption ==
    /\ None \notin 1 .. MaxPayments
    /\ InitialPayment = <<>> \/ \E a \in Amounts, q \in Cuotas :
         MaxPayments > 0 /\ InitialPayment = <<[id |-> 1, amount |-> a, cuota |-> q]>>

VARIABLES
    payments,   \* active payments on the server, in the order it lists them
    created,    \* how many payments were ever created: ids are given in order
    history,    \* the pages each desk has loaded
    refetching, \* desks that are loading their pages anew
    got,        \* the pages a refetch has loaded so far
    priced,     \* whether the desk knows the price of the enrollment
    form,       \* the payment form of each desk
    editing,    \* the payment being edited
    call,       \* the registration or edit in flight
    edits, faults, slips

server == <<payments, created>>
query == <<history, refetching, got>>
sheet == <<form, editing>>
bounds == <<edits, faults>>
vars == <<server, query, priced, sheet, call, bounds, slips>>

Ids == 1 .. MaxPayments
Payment == [id : Ids, amount : Amounts, cuota : Cuotas]
\* What a form keeps of the payment it was opened with.
Edited == [id : Ids, amount : Amounts]

\* The ways out of the rules of the forms.  Of the history: it has changed since it
\* was loaded; the first load is still running; it has failed.  Of the price: it is
\* not known yet; the block has no limit.
Uninformed == {"stale", "early", "failed"}
Ways == Uninformed \cup {"unpriced", "unlimited"}
Call == [id : Ids \cup {None}, amount : Amounts, cuota : Cuotas, ways : SUBSET Ways]

Amount(list) ==
    LET paid[i \in 0 .. Len(list)] == IF i = 0 THEN 0 ELSE paid[i - 1] + list[i].amount
    IN paid[Len(list)]
Shown(d) == flattenInfiniteItems(history[d])
SyncPages(pages) == \A i \in DOMAIN pages :
    /\ pages[i].items \in Seq(Payment) /\ Len(pages[i].items) <= Limit
    /\ pages[i].total \in Nat /\ pages[i].fresh \in BOOLEAN

\* Types; a payment is listed once, and a form edits only a payment it has seen.
TypeOK ==
    /\ payments \in Seq(Payment)
    /\ \A i, j \in DOMAIN payments : payments[i].id = payments[j].id => i = j
    /\ \A i \in DOMAIN payments : payments[i].id <= created
    /\ created \in 0 .. MaxPayments
    /\ \A d \in Desks : SyncPages(history[d]) /\ SyncPages(got[d])
    /\ refetching \in [Desks -> BOOLEAN]
    /\ priced \in [Desks -> BOOLEAN]
    /\ form \in [Desks -> {"closed", "open", "refetching"}]
    /\ editing \in [Desks -> Edited \cup {None}]
    /\ call \in [Desks -> Call \cup {None}]
    /\ edits \in Nat /\ faults \in Nat /\ edits + faults <= MaxTrouble
    /\ slips \subseteq Ways

Init ==
    /\ payments = InitialPayment /\ created = Len(payments)
    /\ history = [d \in Desks |-> <<>>] /\ got = [d \in Desks |-> <<>>]
    /\ refetching = [d \in Desks |-> d \in BlockDesks]
    /\ priced = [d \in Desks |-> d \in BlockDesks]
    /\ form = [d \in Desks |-> "closed"]
    /\ editing = [d \in Desks |-> None]
    /\ call = [d \in Desks |-> None]
    /\ edits = 0 /\ faults = 0 /\ slips = {}

-----------------------------------------------------------------------------
(* The history of a desk                                                    *)

\* Mutant of isSyncing: what is still to be loaded is not waited for.
IsSyncingThisPage(d) ==
    d \in PageDesks /\ history[d] = <<>> /\ refetching[d]

\* isSyncingEnrollmentPayments and isSyncingAllPayments; only the page also
\* waits for the first load.
isSyncing(d) ==
    \/ hasNextPage(history[d], Limit)
    \/ d \in PageDesks /\ history[d] = <<>> /\ refetching[d]

\* The effect that loads the rest of the history asks for the next page as soon
\* as a render shows that there is one; here it is answered.  fetchNextPage
\* cancels a refetch in flight (cancelRefetch is its default), and whoever awaited
\* the refetch goes on.
FetchNextPage(d) ==
    /\ d \in PageDesks => form[d] # "closed"
    /\ hasNextPage(history[d], Limit)
    /\ history' = [history EXCEPT ![d] = Append(@, FreshPageOf(payments, loadedCount(@), Limit))]
    /\ refetching' = [refetching EXCEPT ![d] = FALSE]
    /\ got' = [got EXCEPT ![d] = <<>>]
    /\ form' = [form EXCEPT ![d] = IF @ = "refetching" THEN "closed" ELSE @]
    /\ UNCHANGED <<server, priced, editing, call, bounds, slips>>

\* A refetch replaces the pages when the last of them is there; the block then
\* closes the form whose payment it was waiting to show.  The answer to the first
\* load of all is read on the server before it lands.
RefetchArrives(d) ==
    LET first == history[d] = <<>>
        round == IF first /\ got[d] # <<>> THEN got[d]
                 ELSE Append(got[d], FreshPageOf(payments, loadedCount(got[d]), Limit))
    IN
    /\ refetching[d]
    /\ IF (first /\ got[d] = <<>>) \/ RefetchGoesOn(history[d], round, Limit)
       THEN got' = [got EXCEPT ![d] = round] /\ UNCHANGED <<history, refetching, form>>
       ELSE /\ history' = [history EXCEPT ![d] = round]
            /\ got' = [got EXCEPT ![d] = <<>>]
            /\ refetching' = [refetching EXCEPT ![d] = FALSE]
            /\ form' = [form EXCEPT ![d] = IF @ = "refetching" THEN "closed" ELSE @]
    /\ UNCHANGED <<server, priced, editing, call, bounds, slips>>

\* A load that fails, and its retry too, leaves the pages as they were: isLoading is
\* over, and after the first load there are none.  The block's refetch() resolves
\* all the same, and its form closes.  A failing fetchNextPage changes nothing that
\* its next attempt does not.
LoadFails(d) ==
    /\ refetching[d]
    /\ refetching' = [refetching EXCEPT ![d] = FALSE]
    /\ got' = [got EXCEPT ![d] = <<>>]
    /\ form' = [form EXCEPT ![d] = IF @ = "refetching" THEN "closed" ELSE @]
    /\ UNCHANGED <<server, history, priced, editing, call, bounds, slips>>

EnrollmentArrives(d) ==
    /\ form[d] # "closed" /\ ~priced[d]
    /\ priced' = [priced EXCEPT ![d] = TRUE]
    /\ UNCHANGED <<server, query, sheet, call, bounds, slips>>

\* invalidateQueries cancels a fetch in flight and starts over from pages; the
\* first load of all goes on, with an answer it may already have got.
Invalidate(d, pages) ==
    /\ history' = [e \in Desks |-> Outdated(IF e = d THEN pages ELSE history[e])]
    /\ refetching' = [refetching EXCEPT ![d] = TRUE]
    /\ got' = [e \in Desks |->
                  IF e = d /\ history[d] # <<>> THEN <<>> ELSE Outdated(got[e])]

\* The server changes and no desk hears of it.
Unheard ==
    /\ history' = [e \in Desks |-> Outdated(history[e])]
    /\ got' = [e \in Desks |-> Outdated(got[e])]
    /\ UNCHANGED refetching

-----------------------------------------------------------------------------
(* The forms                                                                *)

\* openCreate, the picker of the enrollment and handleToggleForm: the cached
\* history is loaded again when it is stale (60 seconds, or invalidated).
OpenForm(d, payment) ==
    /\ form[d] = "closed" /\ call[d] = None
    /\ form' = [form EXCEPT ![d] = "open"]
    /\ editing' = [editing EXCEPT ![d] = payment]
    /\ \/ d \in PageDesks /\ ~refetching[d]
          /\ refetching' = [refetching EXCEPT ![d] = TRUE]
       \/ (d \in PageDesks => history[d] # <<>> \/ refetching[d]) /\ UNCHANGED refetching
    /\ UNCHANGED <<server, history, got, priced, call, bounds, slips>>

openCreate(d) == OpenForm(d, None)

openEdit(d) ==
    \E p \in ToSet(Shown(d)) :
        d \in PageDesks /\ OpenForm(d, [id |-> p.id, amount |-> p.amount])

\* Escape, Cancel and the toggle.  A form dismissed while its registration runs
\* is left out: the registration goes on and its end closes the form.
CloseForm(d) ==
    /\ form[d] = "open" /\ call[d] = None /\ form' = [form EXCEPT ![d] = "closed"]
    /\ editing' = [editing EXCEPT ![d] = None]
    /\ UNCHANGED <<server, query, priced, call, bounds, slips>>

pendingAmount(d) ==
    IF Price > Amount(Shown(d)) THEN Price - Amount(Shown(d)) ELSE 0

maxAllowedAmount(d) ==
    pendingAmount(d) + (IF editing[d] = None THEN 0 ELSE editing[d].amount)

\* duplicatedInstallment; the rule for receipt numbers is the same.
Duplicated(d, cuota) ==
    \E p \in ToSet(Shown(d)) :
        p.cuota = cuota /\ (editing[d] # None => p.id # editing[d].id)

\* Mutant of WithinBalance: what is paid already is not subtracted.
WithinPrice(d, amount) == d \in PageDesks /\ priced[d] => amount <= Price

\* Only the page knows a limit, and only when the enrollment is there.
WithinBalance(d, amount) ==
    d \in PageDesks /\ priced[d] => amount <= maxAllowedAmount(d)

\* A history that was loaded, and an edited copy that was opened from it, are
\* still the server's.
Informed(d) ==
    /\ UpToDate(history[d])
    /\ editing[d] # None =>
         \E p \in ToSet(Shown(d)) : p.id = editing[d].id /\ p.amount = editing[d].amount

\* The ways a request takes: one for what its duplicates and its balance are checked
\* against, one for its limit.
WaysOf(d, amount) ==
    (IF history[d] = <<>> THEN IF refetching[d] THEN {"early"} ELSE {"failed"}
     ELSE IF Informed(d) THEN {} ELSE {"stale"})
    \cup (IF ~priced[d] THEN {"unpriced"}
          ELSE IF d \in BlockDesks /\ amount > pendingAmount(d) THEN {"unlimited"} ELSE {})

\* handleSubmit of the page and handleRegister of the block up to the request.
Register(d, amount, cuota) ==
    /\ form[d] \in {"open", "refetching"} /\ call[d] = None /\ ~isSyncing(d)
    /\ WithinBalance(d, amount) /\ ~Duplicated(d, cuota)
    /\ call' = [call EXCEPT ![d] =
         [id |-> IF editing[d] = None THEN None ELSE editing[d].id,
          amount |-> amount, cuota |-> cuota, ways |-> WaysOf(d, amount)]]
    /\ UNCHANGED <<server, query, priced, sheet, bounds, slips>>

\* The server changes while a request is in flight: what it was checked against is
\* no longer the server's.
Overtaken(c) == [c EXCEPT !.ways = @ \cup {"stale"}]

\* The request of d changes the server.
Settle(d) ==
    call' = [e \in Desks |->
        IF e = d THEN None
        ELSE IF call[e] = None THEN None ELSE Overtaken(call[e])]

Slip(d) == slips' = slips \cup call[d].ways

\* The page closes its form; the block refetches before it does.
Done(d) ==
    /\ form' = [form EXCEPT ![d] =
         IF @ = "closed" THEN @ ELSE IF d \in PageDesks THEN "closed" ELSE "refetching"]
    /\ editing' = [editing EXCEPT ![d] = None]

\* Mutant of Created: ids are given by the number of payments listed.
CreatedByCount(d) ==
    /\ created < MaxPayments /\ created' = created + 1
    /\ payments' = <<[id |-> Len(payments) + 1, amount |-> call[d].amount,
                      cuota |-> call[d].cuota]>> \o payments

\* POST /student-payments; with the date the form proposes, today's, the payment
\* is listed first.
Created(d) ==
    /\ created < MaxPayments /\ created' = created + 1
    /\ payments' = <<[id |-> created', amount |-> call[d].amount,
                      cuota |-> call[d].cuota]>> \o payments

createStudentPayment(d) ==
    /\ call[d] # None /\ call[d].id = None
    /\ Created(d) /\ Settle(d) /\ Slip(d)
    /\ Invalidate(d, keepFirstInfinitePage(history[d]))
    /\ Done(d)
    /\ UNCHANGED <<priced, bounds>>

Matching(d) == {i \in DOMAIN payments : payments[i].id = call[d].id}

\* PUT; the form sends If-Match, and the server ignores it for payments.
Updated(d) ==
    \E i \in Matching(d) :
        /\ edits + faults < MaxTrouble /\ edits' = edits + 1
        /\ payments' = [payments EXCEPT ![i] =
             [@ EXCEPT !.amount = call[d].amount, !.cuota = call[d].cuota]]

updateStudentPayment(d) ==
    /\ call[d] # None /\ call[d].id # None
    /\ \/ /\ Updated(d) /\ Settle(d) /\ Slip(d)
          /\ Invalidate(d, keepFirstInfinitePage(history[d]))
          /\ Done(d)
       \/ /\ Matching(d) = {}                         \* 404
          /\ call' = [call EXCEPT ![d] = None]
          /\ UNCHANGED <<payments, query, sheet, edits, slips>>
    /\ UNCHANGED <<created, priced, faults>>

\* An error the form only shows, or an answer that never came, with the effect
\* made or not: the form stays open, and the desk does not refetch.
MutationFails(d) ==
    /\ call[d] # None /\ edits + faults < MaxTrouble
    /\ \/ /\ call' = [call EXCEPT ![d] = None] /\ faults' = faults + 1
          /\ UNCHANGED <<server, query, edits, slips>>
       \/ /\ \/ call[d].id = None /\ Created(d) /\ faults' = faults + 1 /\ UNCHANGED edits
             \/ call[d].id # None /\ Updated(d) /\ UNCHANGED <<created, faults>>
          /\ Settle(d) /\ Slip(d) /\ Unheard
    /\ UNCHANGED <<priced, sheet>>

\* DELETE of a payment on the screen; a second one is a 404.
\* The page asks for it while no form is open; the block loads all its pages
\* again.  It reads nothing of the desk, so that asking and doing are one step.
deleteStudentPayment(d) ==
    /\ d \in PageDesks => form[d] = "closed"
    /\ \E p \in ToSet(Shown(d)), i \in DOMAIN payments :
         payments[i].id = p.id /\ payments' = RemoveAt(payments, i)
    /\ call' = [e \in Desks |-> IF call[e] = None THEN None ELSE Overtaken(call[e])]
    /\ Invalidate(d, IF d \in PageDesks THEN keepFirstInfinitePage(history[d])
                     ELSE history[d])
    /\ UNCHANGED <<created, priced, sheet, bounds, slips>>

-----------------------------------------------------------------------------

Fetching(d) ==
    FetchNextPage(d) \/ RefetchArrives(d) \/ LoadFails(d) \/ EnrollmentArrives(d)

Mutating(d) ==
    createStudentPayment(d) \/ updateStudentPayment(d)

Operator(d) ==
    \/ openCreate(d) \/ openEdit(d) \/ CloseForm(d) \/ deleteStudentPayment(d)
    \/ \E a \in Amounts, q \in Cuotas : Register(d, a, q)

Next ==
    /\ Cardinality(slips) < MaxSlips
    /\ \E d \in Desks : Operator(d) \/ Fetching(d) \/ Mutating(d) \/ MutationFails(d)

Spec == Init /\ [][Next]_vars

-----------------------------------------------------------------------------
(* Properties                                                               *)

\* When no more pages are asked for and nothing has changed meanwhile, the
\* history is the server's: nothing is skipped and nothing counted twice by the
\* offsets of getNextOffset, however the pages were trimmed and loaded again.
LoadedHistoryIsComplete ==
    \A d \in Desks :
        UpToDate(history[d]) /\ ~hasNextPage(history[d], Limit) => Shown(d) = payments

\* Two payments share an installment only if one of them was registered or edited
\* over a history that had changed since it was loaded, from the block before its
\* first load had answered, or over the empty history a failed first load leaves
\* (duplicatedInstallment in both forms): the server never checks it.
InstallmentsUnique ==
    (\E i, j \in DOMAIN payments : i # j /\ payments[i].cuota = payments[j].cuota)
        => slips \cap Uninformed # {}

\* More than the price is collected only in these ways: over a history, or a copy of
\* the payment being edited, that had changed; from the block before its first load;
\* over the empty history a failed first load leaves; before the price is known; from
\* the block, which knows no limit (maxAllowedAmount); or because the wizard, which
\* knows none either, has already.
PriceRespected ==
    Amount(payments) > Price => slips # {} \/ Amount(InitialPayment) > Price
=============================================================================
